----------------------------- MODULE SlotStore -----------------------------
(***************************************************************************)
(* What a ratt_table_t promises to the code that uses it: a store of       *)
(* numbered slots.  A chunk goes into a slot that was free and stays in    *)
(* that slot, unchanged, until that very chunk is taken out or the whole   *)
(* store is closed.  Looking around in the store, an operation that fails  *)
(* and the growth of the array change nothing.                             *)
(***************************************************************************)
EXTENDS Naturals

CONSTANTS Items, SlotNumbers

VARIABLES
  open,   \* has the store been created
  held    \* function from the slots in use to what they hold

storeVars == <<open, held>>

StoreTypeOK ==
  /\ open \in BOOLEAN
  /\ DOMAIN held \subseteq SlotNumbers
  /\ \A s \in DOMAIN held : held[s] \in Items

StoreInit == open = FALSE /\ held = [s \in {} |-> 0]

Open ==
  /\ ~open
  /\ open' = TRUE
  /\ UNCHANGED held

Put(s, x) ==
  /\ open
  /\ s \notin DOMAIN held
  /\ held' = [r \in DOMAIN held \cup {s} |-> IF r = s THEN x ELSE held[r]]
  /\ UNCHANGED open

Take(s) ==
  /\ s \in DOMAIN held
  /\ held' = [r \in DOMAIN held \ {s} |-> held[r]]
  /\ UNCHANGED open

Close ==
  /\ open
  /\ open' = FALSE
  /\ held' = [s \in {} |-> 0]

StoreNext ==
  \/ Open
  \/ \E s \in SlotNumbers, x \in Items : Put(s, x)
  \/ \E s \in SlotNumbers : Take(s)
  \/ Close

StoreSpec == StoreInit /\ [][StoreNext]_storeVars
=============================================================================
