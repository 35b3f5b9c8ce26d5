---------------------------- MODULE MCReconciler ----------------------------
EXTENDS Reconciler, TLC
CONSTANTS u1
(* At start a camera is online with RTSP enabled, or not adopted.          *)
MCInitial == {[status |-> "online", url |-> u1], Gone}
(* Two changes, two edits or one of each; pushes that fail or overtake     *)
(* each other together with one of them.                                   *)
Focus == changes + applies <= IF doubtful = {} THEN 2 ELSE 1
Symmetry == Permutations(Cameras) \cup Permutations(Refreshers) \cup Permutations(Editors)
=============================================================================
