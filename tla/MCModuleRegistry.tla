-------------------------- MODULE MCModuleRegistry --------------------------
(* ModuleRegistry for TLC: the modules of one core are interchangeable, apart
   from those that the constants single out. *)
EXTENDS ModuleRegistry, TLC

Singled == Unhookable \cup OneLetter \cup Unregisters
ModuleSymmetry ==
  Permutations(ProcModules \ Singled) \cup Permutations(DebugModules \ Singled)
=============================================================================
