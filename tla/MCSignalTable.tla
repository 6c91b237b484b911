--------------------------- MODULE MCSignalTable ---------------------------
(* SignalTable for TLC: handlers are interchangeable, and so are the signals
   that are not refused. *)
EXTENDS SignalTable, TLC

NameSymmetry == Permutations(Handlers) \cup Permutations(Signals \ Refused)
=============================================================================
