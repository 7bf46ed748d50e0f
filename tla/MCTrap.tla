------------------------------- MODULE MCTrap -------------------------------
(***************************************************************************)
(* Instances of Trap.  Cause 1 is kept by the machine although hedeleg     *)
(* names it, cause 2 goes to the supervisor, cause 3 to the guest.         *)
(***************************************************************************)
EXTENDS Trap

MCPlaces == [mode \in Modes |-> IF mode \in {S} THEN {1, 2} ELSE {1}]

\* No swapping and the guest's SRET trapped; all swaps and nested vectored
\* machine and supervisor levels.
MCConfigs ==
  {[tsp |-> {}, nv |-> {}, trapSret |-> {VS}],
   [tsp |-> TspRegs, nv |-> {M, S}, trapSret |-> {}]}
=============================================================================
