------------------------------ MODULE Mp4Muxer ------------------------------
(***************************************************************************)
(* The Muxer of internal/mp4: one camera's progressive-MP4 pipeline.  The  *)
(* first request opens an upstream session; its demux goroutine turns it   *)
(* into an init segment and fragments for every subscriber; its read loop  *)
(* stops the pipeline when the camera goes away and its watchdog when      *)
(* nobody has watched for idleTimeout.  The next request starts the next   *)
(* session, while goroutines of the previous one may still be on their way *)
(* to Muxer.mu.  Every critical section of Muxer.mu is a step.             *)
(*                                                                         *)
(* Sessions are numbered; a fragment or an init segment is the number of   *)
(* the session it was made from.                                           *)
(***************************************************************************)
EXTENDS Naturals, Sequences

CONSTANTS Requests,     (* HTTP requests, each served once                 *)
          MaxSessions,  (* bound: upstream sessions                        *)
          SubChanCap    (* subChanCap                                      *)

ASSUME Mp4Assumption == MaxSessions \in Nat /\ SubChanCap \in Nat \ {0}

Sessions == 1 .. MaxSessions

VARIABLES
  started,    (* Muxer.started                                             *)
  mp4Session, (* the last session that was started                         *)
  initBytes,  (* Muxer.initBytes; 0 is nil                                 *)
  subs,       (* the requests whose channels are in Muxer.subs             *)
  idle,       (* lastAccessNs is more than idleTimeout ago                 *)
  upstream,   (* the RTSP client of each session                           *)
  mp4Cancelled, (* its context                                             *)
  demux, readLoop, watchdog,   (* where its goroutines are                 *)
  at,         (* where each request is                                     *)
  joined,     (* the session whose subscriber it became                    *)
  got,        (* the init segment it was sent; 0 is none                   *)
  queue,      (* the fragments in its channel                              *)
  chClosed    (* its channel is closed                                     *)

muxer      == <<started, mp4Session, initBytes>>
goroutines == <<demux, readLoop, watchdog>>
request    == <<at, joined, got, queue, chClosed>>
mp4Vars == <<started, mp4Session, initBytes, subs, idle, upstream, mp4Cancelled,
             demux, readLoop, watchdog, at, joined, got, queue, chClosed>>

Mp4Init ==
  /\ started = FALSE
  /\ mp4Session = 0
  /\ initBytes = 0
  /\ subs = {}
  /\ idle = TRUE   (* lastAccessNs is 0 *)
  /\ upstream = [k \in Sessions |-> "none"]
  /\ mp4Cancelled = [k \in Sessions |-> FALSE]
  /\ demux = [k \in Sessions |-> "none"]
  /\ readLoop = [k \in Sessions |-> "none"]
  /\ watchdog = [k \in Sessions |-> "none"]
  /\ at = [v \in Requests |-> "none"]
  /\ joined = [v \in Requests |-> 0]
  /\ got = [v \in Requests |-> 0]
  /\ queue = [v \in Requests |-> <<>>]
  /\ chClosed = [v \in Requests |-> FALSE]

-----------------------------------------------------------------------------
(* Faulty variant: the subscribers are dropped, their channels left open.  *)
stopLockedSilently ==
  IF started
  THEN /\ mp4Cancelled' = [mp4Cancelled EXCEPT ![mp4Session] = TRUE]
       /\ upstream' = [upstream EXCEPT ![mp4Session] = "closed"]
       /\ UNCHANGED chClosed
       /\ subs' = {}
       /\ initBytes' = 0
       /\ started' = FALSE
  ELSE UNCHANGED <<mp4Cancelled, upstream, chClosed, subs, initBytes, started>>

(* stopLocked: the context, the RTSP client, every subscriber's channel.   *)
(* Client.Close waits for callbacks, none of which needs Muxer.mu.         *)
stopLocked ==
  IF started
  THEN /\ mp4Cancelled' = [mp4Cancelled EXCEPT ![mp4Session] = TRUE]
       /\ upstream' = [upstream EXCEPT ![mp4Session] = "closed"]
       /\ chClosed' = [v \in Requests |-> chClosed[v] \/ v \in subs]
       /\ subs' = {}
       /\ initBytes' = 0
       /\ started' = FALSE
  ELSE UNCHANGED <<mp4Cancelled, upstream, chClosed, subs, initBytes, started>>

(* Close, by the Server: Prune, Shutdown or a request for a stale muxer.   *)
Close ==
  /\ started
  /\ stopLocked
  /\ UNCHANGED <<mp4Session, idle, goroutines, at, joined, got, queue>>

-----------------------------------------------------------------------------
(* A request.                                                              *)

Arrive(v) ==
  /\ at[v] = "none"
  /\ at' = [at EXCEPT ![v] = "arrived"]
  /\ idle' = FALSE
  /\ UNCHANGED <<muxer, subs, upstream, mp4Cancelled, goroutines, joined, got,
                 queue, chClosed>>

(* ensureStarted finds a session.                                          *)
FindStarted(v) ==
  /\ at[v] = "arrived"
  /\ started
  /\ at' = [at EXCEPT ![v] = "started"]
  /\ UNCHANGED <<muxer, subs, idle, upstream, mp4Cancelled, goroutines, joined,
                 got, queue, chClosed>>

(* ensureStarted dials the camera, with Muxer.mu held, and starts the      *)
(* goroutines of the new session.                                          *)
StartOK(v) ==
  LET k == mp4Session + 1 IN
  /\ at[v] = "arrived"
  /\ ~started
  /\ k \in Sessions
  /\ started' = TRUE
  /\ mp4Session' = k
  /\ upstream' = [upstream EXCEPT ![k] = "live"]
  /\ demux' = [demux EXCEPT ![k] = "warming"]
  /\ readLoop' = [readLoop EXCEPT ![k] = "wait"]
  /\ watchdog' = [watchdog EXCEPT ![k] = "tick"]
  /\ idle' = FALSE
  /\ at' = [at EXCEPT ![v] = "started"]
  /\ UNCHANGED <<initBytes, subs, mp4Cancelled, joined, got, queue, chClosed>>

(* The camera does not answer or has no H.264 track: 503.                  *)
StartFails(v) ==
  /\ at[v] = "arrived"
  /\ ~started
  /\ at' = [at EXCEPT ![v] = "gone"]
  /\ UNCHANGED <<muxer, subs, idle, upstream, mp4Cancelled, goroutines, joined,
                 got, queue, chClosed>>

(* Faulty variant: a session that already stopped is not refused.          *)
RegisterUnchecked(v) ==
  /\ at[v] = "started"
  /\ subs' = subs \cup {v}
  /\ joined' = [joined EXCEPT ![v] = mp4Session]
  /\ at' = [at EXCEPT ![v] = "waiting"]
  /\ UNCHANGED <<muxer, idle, upstream, mp4Cancelled, goroutines, got, queue,
                 chClosed>>

(* The request becomes a subscriber, unless the session has stopped: 503.  *)
Register(v) ==
  /\ at[v] = "started"
  /\ IF started
     THEN /\ subs' = subs \cup {v}
          /\ joined' = [joined EXCEPT ![v] = mp4Session]
          /\ at' = [at EXCEPT ![v] = "waiting"]
     ELSE /\ at' = [at EXCEPT ![v] = "gone"]
          /\ UNCHANGED <<subs, joined>>
  /\ UNCHANGED <<muxer, idle, upstream, mp4Cancelled, goroutines, got, queue,
                 chClosed>>

(* waitInit finds an init segment, whichever session it is of.             *)
GetInit(v) ==
  /\ at[v] = "waiting"
  /\ initBytes # 0
  /\ got' = [got EXCEPT ![v] = initBytes]
  /\ at' = [at EXCEPT ![v] = "streaming"]
  /\ UNCHANGED <<muxer, subs, idle, upstream, mp4Cancelled, goroutines, joined,
                 queue, chClosed>>

(* The handler returns and unregisters: waitInit timed out, the client is  *)
(* gone or its write failed, or the channel is closed and drained.  Its    *)
(* channel and locals are garbage.                                         *)
Depart(v) ==
  /\ at' = [at EXCEPT ![v] = "gone"]
  /\ subs' = subs \ {v}
  /\ joined' = [joined EXCEPT ![v] = 0]
  /\ got' = [got EXCEPT ![v] = 0]
  /\ queue' = [queue EXCEPT ![v] = <<>>]
  /\ chClosed' = [chClosed EXCEPT ![v] = FALSE]
  /\ UNCHANGED <<muxer, idle, upstream, mp4Cancelled, goroutines>>

TimeOut(v) == at[v] = "waiting" /\ Depart(v)
Disconnect(v) == at[v] = "streaming" /\ Depart(v)
EndOfStream(v) ==
  at[v] = "streaming" /\ queue[v] = <<>> /\ chClosed[v] /\ Depart(v)

Receive(v) ==
  /\ at[v] = "streaming"
  /\ queue[v] # <<>>
  /\ queue' = [queue EXCEPT ![v] = Tail(@)]
  /\ UNCHANGED <<muxer, subs, idle, upstream, mp4Cancelled, goroutines, at, joined,
                 got, chClosed>>

-----------------------------------------------------------------------------
(* The demux goroutine of session k.                                       *)

(* The parameter sets are known; publishInit, unless the session was       *)
(* stopped in the meantime.                                                *)
PublishInit(k) ==
  /\ demux[k] = "warming"
  /\ initBytes' = IF mp4Cancelled[k] THEN initBytes ELSE k
  /\ demux' = [demux EXCEPT ![k] = "running"]
  /\ UNCHANGED <<started, mp4Session, subs, idle, upstream, mp4Cancelled, readLoop,
                 watchdog, request>>

(* Faulty variant: the backlog is a slice that grows.                      *)
OfferedUnbounded(v, k) == Append(queue[v], k)

(* The channel after a send that does not block.                           *)
Offered(v, k) == IF Len(queue[v]) < SubChanCap THEN Append(queue[v], k)
                                               ELSE queue[v]

(* Faulty variant: emitFragment does not look at its context.              *)
EmitFragmentAlways(k) ==
  /\ demux[k] = "running"
  /\ queue' = [v \in Requests |-> IF v \in subs THEN Offered(v, k) ELSE queue[v]]
  /\ UNCHANGED <<muxer, subs, idle, upstream, mp4Cancelled, goroutines, at, joined,
                 got, chClosed>>

(* emitFragment, with an access unit that was decoded earlier.             *)
EmitFragment(k) ==
  /\ demux[k] = "running"
  /\ ~mp4Cancelled[k]
  /\ queue' = [v \in Requests |-> IF v \in subs THEN Offered(v, k) ELSE queue[v]]
  /\ UNCHANGED <<muxer, subs, idle, upstream, mp4Cancelled, goroutines, at, joined,
                 got, chClosed>>

DemuxEnds(k) ==
  /\ demux[k] \in {"warming", "running"}
  /\ mp4Cancelled[k]
  /\ demux' = [demux EXCEPT ![k] = "done"]
  /\ UNCHANGED <<muxer, subs, idle, upstream, mp4Cancelled, readLoop, watchdog,
                 request>>

-----------------------------------------------------------------------------
(* The read loop of session k.                                             *)

Lost(k) ==
  /\ upstream[k] = "live"
  /\ upstream' = [upstream EXCEPT ![k] = "lost"]
  /\ UNCHANGED <<muxer, subs, idle, mp4Cancelled, goroutines, request>>

(* Wait returned: because the camera went away, or because stopLocked has  *)
(* closed the client, when the select may still prefer it to the context.  *)
WaitReturns(k) ==
  /\ readLoop[k] = "wait"
  /\ upstream[k] \in {"lost", "closed"}
  /\ readLoop' = [readLoop EXCEPT ![k] = "ended"]
  /\ UNCHANGED <<muxer, subs, idle, upstream, mp4Cancelled, demux, watchdog,
                 request>>

ReadLoopCancelled(k) ==
  /\ readLoop[k] = "wait"
  /\ mp4Cancelled[k]
  /\ readLoop' = [readLoop EXCEPT ![k] = "done"]
  /\ UNCHANGED <<muxer, subs, idle, upstream, mp4Cancelled, demux, watchdog,
                 request>>

(* Then whatever session is the current one is stopped.                    *)
ReadLoopStops(k) ==
  /\ readLoop[k] = "ended"
  /\ stopLocked
  /\ readLoop' = [readLoop EXCEPT ![k] = "done"]
  /\ UNCHANGED <<mp4Session, idle, demux, watchdog, at, joined, got, queue>>

-----------------------------------------------------------------------------
(* The watchdog of session k.                                              *)

(* Nobody has asked for the stream for idleTimeout.                        *)
TimePasses ==
  /\ ~idle
  /\ idle' = TRUE
  /\ UNCHANGED <<muxer, subs, upstream, mp4Cancelled, goroutines, request>>

(* A tick with subscribers counts as an access; one without leads to a     *)
(* look at the last access.                                                *)
WatchdogTicks(k) ==
  /\ watchdog[k] = "tick"
  /\ IF subs # {} THEN idle' = FALSE /\ UNCHANGED watchdog
                  ELSE /\ watchdog' = [watchdog EXCEPT ![k] = "age"]
                       /\ UNCHANGED idle
  /\ UNCHANGED <<muxer, subs, upstream, mp4Cancelled, demux, readLoop, request>>

WatchdogLooks(k) ==
  /\ watchdog[k] = "age"
  /\ watchdog' = [watchdog EXCEPT ![k] = IF idle THEN "stopping" ELSE "tick"]
  /\ UNCHANGED <<muxer, subs, idle, upstream, mp4Cancelled, demux, readLoop,
                 request>>

(* Faulty variant: the watchdog exits although it did not stop anything.   *)
WatchdogGivesUp(k) ==
  /\ watchdog[k] = "stopping"
  /\ IF started /\ subs = {} /\ idle
     THEN stopLocked
     ELSE UNCHANGED <<mp4Cancelled, upstream, chClosed, subs, initBytes, started>>
  /\ watchdog' = [watchdog EXCEPT ![k] = "done"]
  /\ UNCHANGED <<mp4Session, idle, demux, readLoop, at, joined, got, queue>>

(* Everything is looked at again under the lock; if a request came in the  *)
(* watchdog keeps watching.                                                *)
WatchdogStops(k) ==
  /\ watchdog[k] = "stopping"
  /\ IF started /\ subs = {} /\ idle
     THEN /\ stopLocked
          /\ watchdog' = [watchdog EXCEPT ![k] = "done"]
     ELSE /\ watchdog' = [watchdog EXCEPT ![k] = "tick"]
          /\ UNCHANGED <<mp4Cancelled, upstream, chClosed, subs, initBytes, started>>
  /\ UNCHANGED <<mp4Session, idle, demux, readLoop, at, joined, got, queue>>

WatchdogCancelled(k) ==
  /\ watchdog[k] = "tick"
  /\ mp4Cancelled[k]
  /\ watchdog' = [watchdog EXCEPT ![k] = "done"]
  /\ UNCHANGED <<muxer, subs, idle, upstream, mp4Cancelled, demux, readLoop,
                 request>>

-----------------------------------------------------------------------------
EnsureStarted(v) == FindStarted(v) \/ StartOK(v) \/ StartFails(v)
Handler(v) == \/ EnsureStarted(v) \/ Register(v) \/ GetInit(v) \/ TimeOut(v)
              \/ Receive(v) \/ EndOfStream(v)
Demux(k) == PublishInit(k) \/ EmitFragment(k) \/ DemuxEnds(k)
ReadLoop(k) == WaitReturns(k) \/ ReadLoopCancelled(k) \/ ReadLoopStops(k)
Watchdog(k) == \/ WatchdogTicks(k) \/ WatchdogLooks(k) \/ WatchdogStops(k)
               \/ WatchdogCancelled(k)

Mp4Next ==
  \/ Close \/ TimePasses
  \/ \E v \in Requests : Arrive(v) \/ Handler(v) \/ Disconnect(v)
  \/ \E k \in Sessions : Lost(k) \/ Demux(k) \/ ReadLoop(k) \/ Watchdog(k)

(* The goroutines run and time passes.  Nobody has to send requests, to    *)
(* stop watching or to lose the camera.                                    *)
Mp4Fairness ==
  /\ WF_mp4Vars(TimePasses)
  /\ \A v \in Requests : WF_mp4Vars(Handler(v))
  /\ \A k \in Sessions : WF_mp4Vars(ReadLoop(k)) /\ WF_mp4Vars(Watchdog(k))

Mp4Spec == Mp4Init /\ [][Mp4Next]_mp4Vars
Mp4FairSpec == Mp4Spec /\ Mp4Fairness

-----------------------------------------------------------------------------
(* Types; no channel holds more than subChanCap fragments, and none is     *)
(* from a session that was never started.                                  *)
Mp4TypeOK ==
  /\ started \in BOOLEAN
  /\ mp4Session \in 0 .. MaxSessions
  /\ initBytes \in 0 .. mp4Session
  /\ subs \in SUBSET Requests
  /\ idle \in BOOLEAN
  /\ upstream \in [Sessions -> {"none", "live", "lost", "closed"}]
  /\ mp4Cancelled \in [Sessions -> BOOLEAN]
  /\ demux \in [Sessions -> {"none", "warming", "running", "done"}]
  /\ readLoop \in [Sessions -> {"none", "wait", "ended", "done"}]
  /\ watchdog \in [Sessions -> {"none", "tick", "age", "stopping", "done"}]
  /\ at \in [Requests -> {"none", "arrived", "started", "waiting", "streaming",
                          "gone"}]
  /\ joined \in [Requests -> 0 .. mp4Session]
  /\ got \in [Requests -> 0 .. mp4Session]
  /\ queue \in [Requests -> Seq(1 .. mp4Session)]
  /\ \A v \in Requests : Len(queue[v]) <= SubChanCap
  /\ chClosed \in [Requests -> BOOLEAN]

(* "the session can never stop without closing our channel": a registered  *)
(* subscriber belongs to the session that is running, so stopLocked, by    *)
(* whichever goroutine, reaches it.                                        *)
SubscribersOfTheRunningSession ==
  \A v \in subs : started /\ joined[v] = mp4Session /\ ~chClosed[v]

(* A request that is a subscriber no more finds its channel closed.        *)
DroppedAreTold ==
  \A v \in Requests : at[v] \in {"waiting", "streaming"} => v \in subs \/ chClosed[v]

(* An upstream that is not closed is that of the session that runs, and    *)
(* its read loop and its watchdog are there to stop it.                    *)
UpstreamIsWatched ==
  \A k \in Sessions : upstream[k] \in {"live", "lost"} =>
    /\ started
    /\ k = mp4Session
    /\ readLoop[k] \in {"wait", "ended"}
    /\ watchdog[k] \in {"tick", "age", "stopping"}

(* So a stop, by whichever goroutine and of whichever session it meant,    *)
(* leaves neither a viewer nor an upstream behind.                         *)
StopLeavesNothing ==
  SubscribersOfTheRunningSession /\ DroppedAreTold /\ UpstreamIsWatched

(* "a straggling fragment can never reach a newer session's subscribers",  *)
(* and no subscriber is sent the init segment of an earlier session.       *)
NothingFromAnEarlierSession ==
  \A v \in Requests :
    /\ \A i \in 1 .. Len(queue[v]) : queue[v][i] = joined[v]
    /\ got[v] # 0 => got[v] >= joined[v]

(* When there is nobody to watch any more the upstream is closed for good. *)
IdleUpstreamCloses ==
  <>[](\A v \in Requests : at[v] \in {"none", "gone"}) => <>[](~started)

(* A request whose session has stopped ends: no viewer is left hanging on  *)
(* a channel nobody will ever close.                                       *)
DisconnectedRequestsEnd ==
  \A v \in Requests :
    at[v] \in {"waiting", "streaming"} /\ v \notin subs ~> at[v] = "gone"

(* ServeHTTP "streams fMP4 fragments until the client disconnects or the   *)
(* upstream session ends": a subscriber is dropped only when it departs,   *)
(* when the camera went away or when the Server closes the muxer.          *)
StreamsUntilSessionEnds ==
  [][\A v \in subs :
       \/ v \in subs'
       \/ Depart(v)
       \/ Close
       \/ upstream[joined[v]] = "lost"]_mp4Vars

-----------------------------------------------------------------------------
(* What the Server and the camera see of a Muxer: an upstream that is not  *)
(* closed, and the requests whose channel is open.  See MuxerLife.         *)
UpstreamOpen == \E k \in Sessions : upstream[k] \in {"live", "lost"}
Attached == {v \in Requests : at[v] \in {"waiting", "streaming"} /\ ~chClosed[v]}

Life == INSTANCE MuxerLife WITH
          Viewers <- Requests, up <- UpstreamOpen, viewers <- Attached

=============================================================================
