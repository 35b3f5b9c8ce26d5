---------------------------- MODULE RtspProducer ----------------------------
(***************************************************************************)
(* The Producer of internal/rtsp: one upstream RTSP session, replaced by   *)
(* its reconnect loop whenever the camera drops it, until the Stream that  *)
(* owns the Producer stops it.  A Producer is restartable, and the loop of *)
(* an earlier run may still be dialling when the next run starts.          *)
(*                                                                         *)
(* The Stream calls Start and Stop one after the other (Stream.mu), and    *)
(* cancels the run's context before Stop.  A dial is a step: it succeeds   *)
(* and packets flow, or it fails and leaves nothing behind.  Of gortsplib  *)
(* the model has what this code relies on: Close and Wait return when the  *)
(* session's callback, if one is running, has returned.                    *)
(***************************************************************************)
EXTENDS Naturals

CONSTANTS Clients,    (* RTSP sessions that can be dialled                 *)
          NoClient,
          MaxStarts   (* bound: calls of Start                             *)

ASSUME RtspAssumption == NoClient \notin Clients /\ MaxStarts \in Nat

Runs == 1 .. MaxStarts

VARIABLES
  caller,     (* where the owning Stream is between Start and Stop         *)
  n,          (* the current run: how often Start has succeeded to dial    *)
  dialed,     (* the session Start dialled, until it is installed          *)
  stopMu,     (* Stop holds Producer.mu; every other holder is one step    *)
  client,     (* Producer.client                                           *)
  track,      (* Producer.track, named by its run; 0 is nil                *)
  closed,     (* Producer.closed                                           *)
  cancelled,  (* the contexts of the runs                                  *)
  loop,       (* the run goroutines: where each is, the session it watches *)
  session,    (* the sessions: unused, open, ending or ended               *)
  callback,   (* the packet callback of each session                       *)
  target      (* the track it is about to write to                         *)

owner    == <<caller, n, dialed>>
producer == <<stopMu, client, track, closed>>
rtsp     == <<session, callback, target>>
vars == <<caller, n, dialed, stopMu, client, track, closed, cancelled, loop,
          session, callback, target>>

NoLoop == [at |-> "none", c |-> NoClient]

Init ==
  /\ caller = "down"
  /\ n = 0
  /\ dialed = NoClient
  /\ stopMu = FALSE
  /\ client = NoClient
  /\ track = 0
  /\ closed = FALSE
  /\ cancelled = [k \in Runs |-> FALSE]
  /\ loop = [k \in Runs |-> NoLoop]
  /\ session = [c \in Clients |-> "unused"]
  /\ callback = [c \in Clients |-> "idle"]
  /\ target = [c \in Clients |-> 0]

-----------------------------------------------------------------------------
(* A session, as gortsplib runs it.                                        *)

(* Describe, Setup and Play succeeded.                                     *)
Dial(c) ==
  /\ session[c] = "unused"
  /\ session' = [session EXCEPT ![c] = "open"]
  /\ UNCHANGED <<callback, target>>

(* The part of Client.Close before it waits.                               *)
BeginClose(c) ==
  session' = [session EXCEPT ![c] = IF @ = "open" THEN "ending" ELSE @]

(* The camera goes away.                                                   *)
Drop(c) ==
  /\ session[c] = "open"
  /\ session' = [session EXCEPT ![c] = "ending"]
  /\ UNCHANGED <<owner, producer, cancelled, loop, callback, target>>

(* The reader is joined: Close and Wait return.                            *)
Ended(c) ==
  /\ session[c] = "ending"
  /\ callback[c] = "idle"
  /\ session' = [session EXCEPT ![c] = "ended"]
  /\ UNCHANGED <<owner, producer, cancelled, loop, callback, target>>

(* The callback decodes a packet ...                                       *)
Packet(c) ==
  /\ session[c] = "open"
  /\ callback[c] = "idle"
  /\ callback' = [callback EXCEPT ![c] = "decoded"]
  /\ UNCHANGED <<owner, producer, cancelled, loop, session, target>>

(* ... asks for the current track, which needs Producer.mu ...             *)
CurrentTrack(c) ==
  /\ callback[c] = "decoded"
  /\ ~stopMu
  /\ callback' = [callback EXCEPT ![c] = IF track = 0 THEN "idle" ELSE "writing"]
  /\ target' = [target EXCEPT ![c] = track]
  /\ UNCHANGED <<owner, producer, cancelled, loop, session>>

(* ... and writes the sample.                                              *)
WriteSample(c) ==
  /\ callback[c] = "writing"
  /\ callback' = [callback EXCEPT ![c] = "idle"]
  /\ target' = [target EXCEPT ![c] = 0]
  /\ UNCHANGED <<owner, producer, cancelled, loop, session>>

-----------------------------------------------------------------------------
(* Start and Stop.                                                         *)

StartDials(c) ==
  /\ caller = "down"
  /\ n < MaxStarts
  /\ n' = n + 1
  /\ dialed' = c
  /\ caller' = "starting"
  /\ Dial(c)
  /\ UNCHANGED <<producer, cancelled, loop>>

(* Faulty variant: a restarted Producer stays closed.                      *)
StartStaysClosed ==
  /\ caller = "starting"
  /\ ~stopMu
  /\ client' = dialed
  /\ track' = n
  /\ loop' = [loop EXCEPT ![n] = [at |-> "watch", c |-> dialed]]
  /\ dialed' = NoClient
  /\ caller' = "up"
  /\ UNCHANGED <<n, stopMu, closed, cancelled, rtsp>>

StartInstalls ==
  /\ caller = "starting"
  /\ ~stopMu
  /\ client' = dialed
  /\ track' = n
  /\ closed' = FALSE
  /\ loop' = [loop EXCEPT ![n] = [at |-> "watch", c |-> dialed]]
  /\ dialed' = NoClient
  /\ caller' = "up"
  /\ UNCHANGED <<n, stopMu, cancelled, rtsp>>

(* The last consumer is released: Stream.cancel.                           *)
Cancel ==
  /\ caller = "up"
  /\ cancelled' = [cancelled EXCEPT ![n] = TRUE]
  /\ caller' = "cancelled"
  /\ UNCHANGED <<n, dialed, producer, loop, rtsp>>

(* Stop takes Producer.mu and keeps it while the session is closed.  Its   *)
(* early returns are for calls the Stream does not make: it stops a run    *)
(* once, and that run has installed a session.                             *)
StopBegins ==
  /\ caller = "cancelled"
  /\ ~stopMu
  /\ ~closed
  /\ stopMu' = TRUE
  /\ closed' = TRUE
  /\ BeginClose(client)
  /\ caller' = "stopping"
  /\ UNCHANGED <<n, dialed, client, track, cancelled, loop, callback, target>>

StopReturns ==
  /\ caller = "stopping"
  /\ session[client] = "ended"
  /\ client' = NoClient
  /\ track' = 0
  /\ stopMu' = FALSE
  /\ caller' = "down"
  /\ UNCHANGED <<n, dialed, closed, cancelled, loop, rtsp>>

-----------------------------------------------------------------------------
(* The goroutine of run k.                                                 *)

(* The context is done: the session is closed and the loop over.           *)
LoopCancelled(k) ==
  /\ loop[k].at = "watch"
  /\ cancelled[k]
  /\ BeginClose(loop[k].c)
  /\ loop' = [loop EXCEPT ![k].at = "closing"]
  /\ UNCHANGED <<owner, producer, cancelled, callback, target>>

LoopClosed(k) ==
  /\ loop[k].at = "closing"
  /\ session[loop[k].c] = "ended"
  /\ loop' = [loop EXCEPT ![k].at = "done"]
  /\ UNCHANGED <<owner, producer, cancelled, rtsp>>

(* Wait returned, which the select may prefer to a context that is done.   *)
LoopSessionEnded(k) ==
  /\ loop[k].at = "watch"
  /\ session[loop[k].c] = "ended"
  /\ loop' = [loop EXCEPT ![k].at = "retry"]
  /\ UNCHANGED <<owner, producer, cancelled, rtsp>>

(* The context is looked at first, Producer.closed under the mutex.        *)
LoopEnds(k) ==
  /\ \/ loop[k].at = "retry" /\ (cancelled[k] \/ (~stopMu /\ closed))
     \/ loop[k].at = "backoff" /\ cancelled[k]
  /\ loop' = [loop EXCEPT ![k].at = "done"]
  /\ UNCHANGED <<owner, producer, cancelled, rtsp>>

LoopBacksOff(k) ==
  /\ loop[k].at = "retry"
  /\ ~cancelled[k]
  /\ ~stopMu
  /\ ~closed
  /\ loop' = [loop EXCEPT ![k].at = "backoff"]
  /\ UNCHANGED <<owner, producer, cancelled, rtsp>>

(* The timer fires, also beside a context that is done, and the dial goes  *)
(* well.                                                                   *)
LoopDials(k, c) ==
  /\ loop[k].at = "backoff"
  /\ Dial(c)
  /\ loop' = [loop EXCEPT ![k] = [at |-> "dialed", c |-> c]]
  /\ UNCHANGED <<owner, producer, cancelled>>

(* Faulty variant: the nil client of a failed dial replaces the old one.   *)
LoopDialFailsNil(k) ==
  /\ loop[k].at = "backoff"
  /\ loop' = [loop EXCEPT ![k] = [at |-> "retry", c |-> NoClient]]
  /\ UNCHANGED <<owner, producer, cancelled, rtsp>>

LoopDialFails(k) ==
  /\ loop[k].at = "backoff"
  /\ loop' = [loop EXCEPT ![k].at = "retry"]
  /\ UNCHANGED <<owner, producer, cancelled, rtsp>>

(* Faulty variant: the loop returns without closing what it dialled.       *)
LoopDialedTooLateLeaks(k) ==
  /\ loop[k].at = "dialed"
  /\ ~stopMu
  /\ closed
  /\ loop' = [loop EXCEPT ![k].at = "done"]
  /\ UNCHANGED <<owner, producer, cancelled, rtsp>>

(* The Producer was stopped during the dial: the new session is closed.    *)
LoopDialedTooLate(k) ==
  /\ loop[k].at = "dialed"
  /\ ~stopMu
  /\ closed
  /\ BeginClose(loop[k].c)
  /\ loop' = [loop EXCEPT ![k].at = "closing"]
  /\ UNCHANGED <<owner, producer, cancelled, callback, target>>

(* The new session takes the place of the old one: also when the Producer  *)
(* was stopped and started again during the dial.                          *)
LoopInstalls(k) ==
  /\ loop[k].at = "dialed"
  /\ ~stopMu
  /\ ~closed
  /\ client' = loop[k].c
  /\ loop' = [loop EXCEPT ![k].at = "watch"]
  /\ UNCHANGED <<owner, stopMu, track, closed, cancelled, rtsp>>

-----------------------------------------------------------------------------
Stop == StopBegins \/ StopReturns
Callback(c) == CurrentTrack(c) \/ WriteSample(c)

Loop(k) ==
  \/ LoopCancelled(k) \/ LoopClosed(k) \/ LoopSessionEnded(k) \/ LoopEnds(k)
  \/ LoopBacksOff(k) \/ LoopDialFails(k) \/ LoopDialedTooLate(k)
  \/ LoopInstalls(k)
  \/ \E c \in Clients : LoopDials(k, c)

Next ==
  \/ \E c \in Clients :
       StartDials(c) \/ Drop(c) \/ Ended(c) \/ Packet(c) \/ Callback(c)
  \/ StartInstalls \/ Cancel \/ Stop
  \/ \E k \in Runs : Loop(k)

(* The goroutines run and gortsplib joins its readers.  Nobody has to send *)
(* packets, to start the Producer or to release it.                        *)
Fairness ==
  /\ WF_vars(StartInstalls) /\ WF_vars(Stop)
  /\ \A c \in Clients : WF_vars(Ended(c)) /\ WF_vars(Callback(c))
  /\ \A k \in Runs : WF_vars(Loop(k))

Spec == Init /\ [][Next]_vars
FairSpec == Spec /\ Fairness

-----------------------------------------------------------------------------
(* Types; a loop that runs has a session to watch, so it never waits for a *)
(* nil client.                                                             *)
TypeOK ==
  /\ caller \in {"down", "starting", "up", "cancelled", "stopping"}
  /\ n \in 0 .. MaxStarts
  /\ dialed \in Clients \cup {NoClient}
  /\ stopMu \in BOOLEAN
  /\ client \in Clients \cup {NoClient}
  /\ track \in 0 .. n
  /\ closed \in BOOLEAN
  /\ cancelled \in [Runs -> BOOLEAN]
  /\ loop \in [Runs -> {NoLoop} \cup
                [at : {"watch", "retry", "backoff", "dialed", "closing", "done"},
                 c  : Clients]]
  /\ session \in [Clients -> {"unused", "open", "ending", "ended"}]
  /\ callback \in [Clients -> {"idle", "decoded", "writing"}]
  /\ target \in [Clients -> 0 .. n]

(* Every open session is in the hands of Start or of a loop that is going  *)
(* to close it or see it end.  Producer.client is not enough for that: the *)
(* loop of an earlier run, which was dialling while the Producer was       *)
(* stopped and started again, may have put its own session there.          *)
NoOrphanSession ==
  \A c \in Clients : session[c] = "open" =>
    \/ dialed = c
    \/ \E k \in Runs : loop[k].c = c /\ loop[k].at \in {"watch", "dialed"}

(* While the Producer is wanted its reconnect loop does not give up: it    *)
(* exits only when the context is cancelled or Stop is called, and the     *)
(* flag an earlier Stop left behind does not count.                        *)
LoopRunsWhileWanted ==
  caller = "up" => loop[n].at \in {"watch", "retry", "backoff", "dialed"}

(* Stop waits, with Producer.mu, for a callback that waits for that mutex. *)
Stuck == caller = "stopping" /\ callback[client] = "decoded"

(* Unless that happens, the sessions and the loop of a cancelled run come  *)
(* to an end, whatever the loop was doing, and Stop returns.               *)
CancelledRunEnds ==
  \A k \in Runs : cancelled[k] ~>
    \/ Stuck
    \/ /\ loop[k].at = "done"
       /\ loop[k].c # NoClient => session[loop[k].c] # "open"
       /\ n = k => caller = "down"

(* "Stop terminates the RTSP session and the reconnect loop."              *)
StopTerminates ==
  caller = "stopping" ~> caller = "down"

=============================================================================
