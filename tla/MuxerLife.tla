----------------------------- MODULE MuxerLife -----------------------------
(***************************************************************************)
(* What a Muxer of internal/mp4 or internal/hls promises the Server and    *)
(* the camera.  It has one upstream, opened on demand; viewers are         *)
(* attached to that upstream only while it is open; and a stop, whoever    *)
(* calls it, closes the upstream and disconnects every viewer at once, so  *)
(* that nobody is carried over to the next upstream without asking for it. *)
(***************************************************************************)
CONSTANT Viewers

VARIABLES up,      (* the upstream is open                                 *)
          viewers  (* who is attached to it                                *)

vars == <<up, viewers>>

Init == up = FALSE /\ viewers = {}

(* The camera is dialed.                                                   *)
Open ==
  /\ ~up
  /\ up' = TRUE
  /\ UNCHANGED viewers

(* A viewer comes; the upstream is open by then, or opened for it.         *)
Attach(v) ==
  /\ v \notin viewers
  /\ viewers' = viewers \cup {v}
  /\ up' = TRUE

Leave(v) ==
  /\ v \in viewers
  /\ viewers' = viewers \ {v}
  /\ UNCHANGED up

Stop ==
  /\ up
  /\ up' = FALSE
  /\ viewers' = {}

Next == Open \/ Stop \/ \E v \in Viewers : Attach(v) \/ Leave(v)

Spec == Init /\ [][Next]_vars

=============================================================================
