------------------------------- MODULE MCSetup -------------------------------
(***************************************************************************)
(* Setup for TLC: no handler is distinguished, and the one action property *)
(* is symmetric in them too.                                               *)
(***************************************************************************)
EXTENDS Setup, TLC

Symmetry == Permutations(Savers)

(* The list the installation begins with may be any of them.               *)
FirstList == options["cameras"] = CHOOSE l \in CameraLists : TRUE

(* A third save is of interest as long as the others have not overlapped   *)
(* or read nothing, and no password has changed.                           *)
Focus == saves = 3 => ~overlapped /\ lost = {} /\ revocations = 0

=============================================================================
