---------------------------- MODULE MCProcWorker ----------------------------
(* ProcWorker for TLC. *)
EXTENDS ProcWorker, TLC

CONSTANTS a1

Safe == [fn |-> "f", attr |-> NoAttr, udata |-> FALSE]
Safe2 == [fn |-> "g", attr |-> NoAttr, udata |-> FALSE]
Unsafe == [fn |-> "h", attr |-> a1, udata |-> FALSE]
WithData == [fn |-> "f", attr |-> NoAttr, udata |-> TRUE]

SafeProcs == {Safe, Safe2}
MixedProcs == {Safe, Unsafe}
UnsafeProcs == {Unsafe}
DataProcs == {WithData}
SafeProc == {Safe}
=============================================================================
