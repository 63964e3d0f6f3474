-------------------------------- MODULE Atomic ------------------------------
(***************************************************************************)
(* What the server promises about its journal, whatever crashes: the world *)
(* the journal stands for starts empty and changes only by one whole       *)
(* command at a time, decided against that very world, or by a reset.      *)
(***************************************************************************)
CONSTANTS
  Fresh,         \* the world of an empty journal
  Outcomes(_)    \* the worlds that one command can make of a world

VARIABLE world

AtomicInit == world = Fresh

(* A command that leaves the world as it was is a stuttering step.         *)
AtomicCommand == world' # world /\ world' \in Outcomes(world)

AtomicReset == world' = Fresh

AtomicSpec == AtomicInit /\ [][AtomicReset \/ AtomicCommand]_world
=============================================================================
