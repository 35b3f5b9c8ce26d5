----------------------------- MODULE MCUpstreams -----------------------------
(***************************************************************************)
(* MCRtsp and the stream registry (Streams), which starts and stops the    *)
(* producers, for TLC.  They share no variable: Streams takes it that a    *)
(* Producer starts and stops, whatever goes on inside.  Either the modules *)
(* of MCRtsp move or Streams.                                              *)
(***************************************************************************)
EXTENDS MCRtsp, Streams

VARIABLE streamsMove

rtspVars == <<vars, hlsVars, timelineVars, subject>>

UpstreamsInit ==
  /\ RtspInit /\ StreamsInit
  /\ streamsMove \in BOOLEAN
  /\ streamsMove => subject = "producer"

UpstreamsNext ==
  /\ UNCHANGED streamsMove
  /\ \/ ~streamsMove /\ RtspNext /\ UNCHANGED streamsVars
     \/ streamsMove /\ StreamsNext /\ UNCHANGED rtspVars

(* In a module that does not move nothing is enabled that fairness is      *)
(* about.                                                                  *)
UpstreamsSpec ==
  /\ UpstreamsInit
  /\ [][UpstreamsNext]_<<rtspVars, streamsVars, streamsMove>>
  /\ Fairness /\ HlsFairness /\ StreamsFairness

=============================================================================
