------------------------------ MODULE Timeline -------------------------------
(***************************************************************************)
(* How the three consumers of a camera turn its RTP timestamps, which have *)
(* 32 bits and wrap every 13 hours, into presentation times: runDemux of   *)
(* the MP4 muxer, the packet callback of the HLS muxer, and the sample     *)
(* durations of the RTSP producer (WebRTC).                                *)
(*                                                                         *)
(* One session of a camera is modelled, whose access units are sent at     *)
(* increasing or, now and then, decreasing times.  The callbacks of HLS    *)
(* and RTSP see all of them; runDemux misses those that find its channel   *)
(* full, and starts when it has the parameter sets.                        *)
(***************************************************************************)
EXTENDS Integers

CONSTANTS Wrap,            (* 2^32                                         *)
          Gaps,            (* times between access units, in ticks         *)
          Rate,            (* ticks of the RTP clock in a second: 90000    *)
          Second,          (* a second in the unit of time.Duration: 10^9  *)
          MuxFallback,     (* h264Timescale / 30, in ticks                 *)
          SampleFallback,  (* 33 ms, in the unit of time.Duration          *)
          MaxUnits         (* bound: access units                          *)

ASSUME TimelineAssumption ==
  /\ Wrap \in Nat /\ Wrap > 1
  /\ Gaps \subseteq Int
  /\ {Rate, Second, MuxFallback, SampleFallback} \subseteq Nat \ {0}
  /\ MaxUnits \in Nat

VARIABLES
  units,     (* access units sent                                          *)
  sentAt,    (* the camera's own time of the last one, in ticks, which     *)
             (* does not wrap                                              *)
  hlsClock,  (* the locals of the HLS packet callback                      *)
  rtspClock, (* the locals of the RTSP producer's callback                 *)
  demuxClock, (* the locals of runDemux                                    *)
  straight   (* history: consumers that have seen only gaps above 0 and    *)
             (* below half of Wrap                                         *)

timelineVars == <<units, sentAt, hlsClock, rtspClock, demuxClock, straight>>

Consumers == {"hls", "rtsp", "demux"}
Straight(gap) == 0 < gap /\ 2 * gap < Wrap

(* first, bufferedAt: history, the camera's time of the first access unit  *)
(* of a consumer, and of the one it has buffered.                          *)
TimelineInit ==
  /\ units = 0
  /\ sentAt \in 0 .. Wrap - 1
  /\ hlsClock = [have |-> FALSE, lastRaw |-> 0, pts |-> 0, first |-> 0]
  /\ rtspClock = [have |-> FALSE, lastTS |-> 0, total |-> 0, first |-> 0]
  /\ demuxClock = [have |-> FALSE, lastRaw |-> 0, pts |-> 0, seen |-> 0,
              initBuilt |-> FALSE, pending |-> FALSE, pendingPTS |-> 0,
              baseTime |-> 0, first |-> 0, bufferedAt |-> 0]
  /\ straight = Consumers

-----------------------------------------------------------------------------
(* Faulty variant: the difference is taken for a signed number only when   *)
(* the timestamps themselves are in the wrong order.                       *)
DeltaOfOrdered(ts, last) == ts - last

(* int32(ts - lastRawTS), for timestamps of 32 bits.                       *)
Delta(ts, last) ==
  LET d == (ts - last) % Wrap IN IF 2 * d < Wrap THEN d ELSE d - Wrap

(* Faulty variant: the nanoseconds of a tick are worked out first.         *)
SampleDurationOfTicks(ts) ==
  LET d == Delta(ts, rtspClock.lastTS) IN
  IF rtspClock.have /\ d > 0 THEN d * (Second \div Rate) ELSE SampleFallback

(* The sample duration of the RTSP callback: ticks turned into a           *)
(* time.Duration, whose division drops the rest.                           *)
SampleDuration(ts) ==
  LET d == Delta(ts, rtspClock.lastTS) IN
  IF rtspClock.have /\ d > 0 THEN (d * Second) \div Rate ELSE SampleFallback

HlsUnit(t) ==
  LET ts == t % Wrap
      seen == [hlsClock EXCEPT !.have = TRUE, !.lastRaw = ts]
  IN hlsClock' =
       IF hlsClock.have THEN [seen EXCEPT !.pts = @ + Delta(ts, hlsClock.lastRaw)]
       ELSE [seen EXCEPT !.first = t]

RtspUnit(t) ==
  LET ts == t % Wrap IN
  rtspClock' = [have |-> TRUE, lastTS |-> ts,
                total |-> rtspClock.total + SampleDuration(ts),
                first |-> IF rtspClock.have THEN rtspClock.first ELSE t]

(* runDemux takes an access unit from its channel.  The gap to the one it  *)
(* has buffered becomes that one's duration, and the fragment goes out.    *)
DemuxUnit(t, paramSets) ==
  LET ts == t % Wrap
      pts == demuxClock.pts +
               (IF demuxClock.have THEN Delta(ts, demuxClock.lastRaw) ELSE 0)
      gap == pts - demuxClock.pendingPTS
      seen == [demuxClock EXCEPT !.have = TRUE, !.lastRaw = ts,
                                 !.pts = pts, !.seen = t]
      buffered == [seen EXCEPT !.initBuilt = TRUE, !.pending = TRUE,
                               !.pendingPTS = pts, !.bufferedAt = t]
  IN demuxClock' =
       IF ~(demuxClock.initBuilt \/ paramSets) THEN seen
       ELSE IF ~demuxClock.pending THEN [buffered EXCEPT !.first = t]
       ELSE [buffered EXCEPT
              !.baseTime = @ + (IF gap <= 0 THEN MuxFallback ELSE gap)]

(* The camera sends an access unit; its channel has room for it, or not.   *)
Unit(gap, room, paramSets) ==
  /\ units < MaxUnits
  /\ units' = units + 1
  /\ sentAt' = sentAt + gap
  /\ sentAt' >= 0
  /\ HlsUnit(sentAt')
  /\ RtspUnit(sentAt')
  /\ IF room THEN DemuxUnit(sentAt', paramSets) ELSE UNCHANGED demuxClock
  /\ straight' = straight \
       ((IF hlsClock.have /\ ~Straight(gap) THEN {"hls", "rtsp"} ELSE {})
         \cup (IF room /\ demuxClock.have /\ ~Straight(sentAt' - demuxClock.seen)
               THEN {"demux"} ELSE {}))

TimelineNext ==
  \E gap \in Gaps, room, paramSets \in BOOLEAN : Unit(gap, room, paramSets)

TimelineSpec == TimelineInit /\ [][TimelineNext]_timelineVars

-----------------------------------------------------------------------------
(* Types; a fragment has been sent only of what was buffered.              *)
TimelineTypeOK ==
  /\ units \in 0 .. MaxUnits
  /\ sentAt \in Nat
  /\ hlsClock \in [have : BOOLEAN, lastRaw : 0 .. Wrap - 1, pts : Int,
                   first : Nat]
  /\ rtspClock \in [have : BOOLEAN, lastTS : 0 .. Wrap - 1, total : Nat,
                    first : Nat]
  /\ demuxClock \in [have : BOOLEAN, lastRaw : 0 .. Wrap - 1, pts : Int,
                     seen : Nat, initBuilt : BOOLEAN, pending : BOOLEAN,
                     pendingPTS : Int, baseTime : Nat, first : Nat,
                     bufferedAt : Nat]
  /\ straight \in SUBSET Consumers
  /\ demuxClock.baseTime > 0 => demuxClock.pending /\ demuxClock.initBuilt

(* How far the sample durations of the RTSP callback are behind the        *)
(* camera, in units of 1 / (Rate * Second); the first duration is a guess. *)
SampleLag ==
  (sentAt - rtspClock.first) * Second - (rtspClock.total - SampleFallback) * Rate

(* However often the timestamps wrap, and whatever runDemux misses, the    *)
(* three consumers keep the camera's time as long as no gap they see goes  *)
(* back or reaches half of the range: HLS exactly, by its PTS, MP4 exactly,*)
(* by the base time of the fragment it will send next, and WebRTC by the   *)
(* sum of its sample durations, which is never ahead of the camera and     *)
(* falls behind by less than one nanosecond with each sample.              *)
KeepsCameraTime ==
  /\ "hls" \in straight /\ hlsClock.have => hlsClock.pts = sentAt - hlsClock.first
  /\ "rtsp" \in straight /\ rtspClock.have =>
       SampleLag \in 0 .. (units - 1) * (Rate - 1)
  /\ "demux" \in straight /\ demuxClock.pending =>
       demuxClock.baseTime = demuxClock.bufferedAt - demuxClock.first

=============================================================================
