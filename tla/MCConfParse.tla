---------------------------- MODULE MCConfParse ----------------------------
(* ConfParse for TLC.  Numbers have 2, 3 and 5 bits instead of 8, 16 and 32; *)
(* so all numbers given are an int, of 5 bits.                             *)
EXTENDS ConfParse, SequencesExt

Bits == [num8 |-> 2, num16 |-> 3, num32 |-> 5]
Texts == [s \in {"1", "9", "-1", "word"} |->
            CASE s = "1" -> 1 [] s = "9" -> 9 [] s = "-1" -> -1 [] s = "word" -> 0]

\* Command lines, put together from sections, options and what ends parsing.
Pieces == {<<"M">>, <<"M", "w">>, <<"M", "v">>, <<"C">>, <<"a">>, <<"a", "w">>,
           <<"f">>, <<"f", "v">>, <<"f", "/w">>, <<"f", "/long">>}
Ends == {<<>>, <<"--", "w">>, <<"w">>, <<"-1">>}
Few == {<<"M">>, <<"M", "w">>, <<"a">>, <<"a", "w">>}
Argvs == {FlattenSeq(s) \o e : s \in SeqOf(Pieces, 3), e \in Ends}
         \cup {FlattenSeq(s) : s \in [1..5 -> Few]}

\* Who registers, apart from the configuration: a part that declares -a, which
\* may be given once, and -f, which needs an argument.
Opt(o, lone, needs, takes) ==
  [option |-> o, lone |-> lone, needs |-> needs, takes |-> takes, refuses |-> {"/long"}]
Parts == {[section |-> "main", name |-> NoName, args |-> <<Opt("a", FALSE, FALSE, FALSE)>>],
          [section |-> "M", name |-> "w",
           args |-> <<Opt("a", TRUE, FALSE, TRUE), Opt("f", FALSE, TRUE, TRUE)>>],
          [section |-> "M", name |-> NoName, args |-> <<Opt("a", FALSE, FALSE, TRUE)>>],
          [section |-> "M", name |-> "v", args |-> NoArgs]}

Decl(p, type, list, req, uns, defval) ==
  [path |-> p, len |-> 2, type |-> type, list |-> list, req |-> req, uns |-> uns,
   defval |-> defval]
Num(n) == [NoSetting EXCEPT !.is = "int", !.num = n]
Str(s) == [NoSetting EXCEPT !.is = "str", !.str = s]
Array(s) == [NoSetting EXCEPT !.is = "array", !.elems = s]
Other == [NoSetting EXCEPT !.is = "other"]

Nums == {Num(n) : n \in {-16, -5, -4, -3, -2, -1, 0, 1, 2, 3, 4, 7, 8, 15}}
Scalars == {NoSetting, Str("s"), Num(1), Other}
Arrays == {Array(<<>>), Array(<<Str("s"), Str("t"), Str("s")>>),
           Array(<<Num(1), Num(5), Num(-1)>>), Array(<<Other>>)}

\* The program's declarations: lists of strings with a default, unsigned
\* numbers; and others that use the rest.
DeclLists == {
  <<Decl("x", "str", TRUE, FALSE, FALSE, <<"s">>), Decl("y", "num8", FALSE, FALSE, TRUE, <<"1">>),
    Decl("z", "str", FALSE, TRUE, FALSE, <<>>)>>,
  <<Decl("x", "str", FALSE, FALSE, FALSE, <<"word">>), Decl("y", "str", TRUE, TRUE, FALSE, <<>>),
    Decl("z", "num8", TRUE, FALSE, FALSE, <<"1", "-1", "1">>)>>,
  <<Decl("x", "num16", TRUE, TRUE, FALSE, <<>>), Decl("y", "str", TRUE, FALSE, FALSE, <<"s", "t", "s">>),
    Decl("z", "num16", FALSE, FALSE, TRUE, <<"9">>)>>}
World(a, ds, c, n, ps) ==
  [argv |-> a, callers |-> IF a = <<>> THEN {} ELSE Parts, decls |-> ds, conf |-> c,
   parlen |-> n, parses |-> ps]
Number(type, uns) == <<Decl("x", type, FALSE, FALSE, uns, <<"-1">>)>>
Confs(S) == [{"x", "y", "z"} -> S]

ArgWorlds == {World(a, Number("num8", FALSE), [x \in {"x"} |-> Num(1)], 0, 0) : a \in Argvs}
NumWorlds == {World(<<>>, Number(t, u), [x \in {"x"} |-> s], 0, 1) :
                t \in NumTypes, u \in BOOLEAN, s \in Nums \cup {NoSetting}}
FileWorlds == {World(<<>>, ds, c, 0, 2) : ds \in DeclLists, c \in Confs(Scalars \cup Arrays)}

\* Paths of which the second, third or no one is too long, and a parent that is.
Long(n) == [k \in 1..3 |->
  Decl(IF k = 1 THEN "x" ELSE IF k = 2 THEN "y" ELSE "z", "str", TRUE, FALSE, FALSE, <<"s">>)]
LongDecls == {[k \in 1..3 |-> [Long(n)[k] EXCEPT !.len = IF k = n THEN 6 ELSE 2]] : n \in 1..4}
LongWorlds == {World(<<>>, ds, c, n, 1) : ds \in LongDecls, n \in {3, 8},
                 c \in Confs({NoSetting, Str("t"), Array(<<Str("s"), Str("t")>>)})}
EdgeWorlds == {World(<<>>, <<[Long(1)[1] EXCEPT !.len = 4]>>, [x \in {"x"} |-> Str("t")], 3, 1)}

AllWorlds == ArgWorlds \cup NumWorlds \cup FileWorlds \cup LongWorlds
=============================================================================
