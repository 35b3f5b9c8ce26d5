------------------------------- MODULE MCRtsp --------------------------------
(***************************************************************************)
(* What is around an RTSP session, for TLC: the goroutines of the WebRTC   *)
(* producer (RtspProducer) and of the HLS muxer (HlsMuxer), and what both  *)
(* and the MP4 muxer make of the timestamps (Timeline).  Each camera has   *)
(* one of each with an RTSP client of its own, and the callbacks keep the  *)
(* time in locals: the three modules share no variable and are explored    *)
(* one at a time.  The initial state says which of them moves.             *)
(***************************************************************************)
EXTENDS RtspProducer, HlsMuxer, Timeline, TLC

VARIABLE subject

RtspInit ==
  /\ Init /\ HlsInit /\ TimelineInit
  /\ \/ subject \in {"producer", "hls"} /\ sentAt = 0
     \/ subject = "timeline"

RtspNext ==
  /\ UNCHANGED subject
  /\ \/ subject = "producer" /\ Next /\ UNCHANGED <<hlsVars, timelineVars>>
     \/ subject = "hls" /\ HlsNext /\ UNCHANGED <<vars, timelineVars>>
     \/ subject = "timeline" /\ TimelineNext /\ UNCHANGED <<vars, hlsVars>>

(* In a module that does not move nothing is enabled that fairness is      *)
(* about.                                                                  *)
RtspSpec ==
  /\ RtspInit /\ [][RtspNext]_<<vars, hlsVars, timelineVars, subject>>
  /\ Fairness /\ HlsFairness

(* Frames that repeat a time, go back, follow at once or after a gap; with *)
(* a Wrap of 8 a lost frame can make a gap of half the range.              *)
MCGaps == {-1, 0, 1, 3}

(* The type invariants of the three modules.                               *)
RtspTypeOK == TypeOK /\ HlsTypeOK /\ TimelineTypeOK

(* Every session of a producer that is open is in the hands of a goroutine *)
(* that will close it or see it end, and every upstream of an HLS muxer is *)
(* that of the session that runs, whose read loop and watchdog are there.  *)
EverySessionOwned == NoOrphanSession /\ HlsNoOrphan

(* The sessions of a stopped producer, of an HLS muxer without players and *)
(* of one whose camera has gone are closed.                                *)
SessionsClose == CancelledRunEnds /\ HlsIdleCloses /\ HlsLostCloses

=============================================================================
