--------------------------- MODULE SharedUpstream ---------------------------
(***************************************************************************)
(* What internal/streams promises: any number of viewers share one         *)
(* upstream per camera stream.  It is open whenever somebody watches, and  *)
(* after the last viewer has left it is shut before long, unless a new     *)
(* viewer takes it up.                                                     *)
(***************************************************************************)
CONSTANTS Viewers, Upstreams

VARIABLES viewers,   (* who watches each upstream                          *)
          up         (* the upstreams that are open                        *)

vars == <<viewers, up>>

Init ==
  /\ viewers = [u \in Upstreams |-> {}]
  /\ up = [u \in Upstreams |-> FALSE]

(* A viewer joins; the first one opens the upstream.                       *)
Join(v, u) ==
  /\ \A w \in Upstreams : v \notin viewers[w]
  /\ viewers' = [viewers EXCEPT ![u] = @ \cup {v}]
  /\ up' = [up EXCEPT ![u] = TRUE]

Leave(v, u) ==
  /\ v \in viewers[u]
  /\ viewers' = [viewers EXCEPT ![u] = @ \ {v}]
  /\ UNCHANGED up

(* Only an upstream nobody watches is shut.                                *)
Shut(u) ==
  /\ up[u]
  /\ viewers[u] = {}
  /\ up' = [up EXCEPT ![u] = FALSE]
  /\ UNCHANGED viewers

Next ==
  \E u \in Upstreams : Shut(u) \/ \E v \in Viewers : Join(v, u) \/ Leave(v, u)

Spec == Init /\ [][Next]_vars
FairSpec == Spec /\ \A u \in Upstreams : WF_vars(Shut(u))

=============================================================================
