------------------------------ MODULE Streams ------------------------------
(***************************************************************************)
(* The reference-counted media streams of internal/streams and the WebRTC  *)
(* sessions of internal/webrtc that consume them, for one camera.          *)
(*                                                                         *)
(* A signalling request looks the camera up in the Registry, acquires the  *)
(* Stream it finds (the first consumer starts the Producer, with Stream.mu *)
(* held for as long as Start takes), adds the tracks to its peer           *)
(* connection, and from then on owns a Session that several goroutines may *)
(* close.  The reconciler may replace or delete the registry entry at any  *)
(* moment; a Session keeps the Stream object it acquired.                  *)
(***************************************************************************)
EXTENDS Integers, FiniteSets

CONSTANTS Sessions,   (* signalling requests, each used once               *)
          Streams,    (* Stream objects the reconciler may create          *)
          NoStream,   (* the registry holds no entry for the camera        *)
          Free        (* a mutex nobody holds                              *)

ASSUME StreamsAssumption ==
  /\ IsFiniteSet(Sessions)
  /\ NoStream \notin Streams
  /\ Free \notin Sessions

VARIABLES
  entry,     (* Registry.streams[camera]: the registered Stream            *)
  created,   (* the Stream objects made so far                             *)
  mu,        (* Stream.mu: the session whose goroutine holds it            *)
  refs,      (* Stream.refs                                                *)
  started,   (* Stream.started                                             *)
  tracks,    (* Stream.tracks, named by the Producer run; 0 is nil         *)
  runs,      (* how often the Stream's Producer has been started           *)
  live,      (* the Producer's upstream is open                            *)
  state,     (* where the session's request is                             *)
  stream,    (* the Stream object the request looked up                    *)
  attached,  (* the tracks its peer connection was given                   *)
  sessionClosed, (* Session.closed                                         *)
  smu,       (* Session.mu: the closer that holds it                       *)
  call       (* the calls of Session.Close by each possible closer         *)

registry == <<entry, created>>
upstream == <<refs, started, tracks, runs, live>>
closing  == <<sessionClosed, smu, call>>
streamsVars == <<entry, created, mu, refs, started, tracks, runs, live,
                 state, stream, attached, sessionClosed, smu, call>>

(* The goroutines that call Session.Close: Negotiate on an error path, and *)
(* pion's state callback for Failed and for Closed.                        *)
Closers == {"negotiate", "failed", "closed"}

States == {"idle", "found", "starting", "tracked", "open", "releasing",
           "stopping", "done", "refused"}

(* A request that counts in refs.                                          *)
Holding(s) == state[s] \in {"tracked", "open", "releasing"}
Holders(st) == {s \in Sessions : stream[s] = st /\ Holding(s)}

StreamsInit ==
  /\ entry = NoStream
  /\ created = {}
  /\ mu = [st \in Streams |-> Free]
  /\ refs = [st \in Streams |-> 0]
  /\ started = [st \in Streams |-> FALSE]
  /\ tracks = [st \in Streams |-> 0]
  /\ runs = [st \in Streams |-> 0]
  /\ live = [st \in Streams |-> FALSE]
  /\ state = [s \in Sessions |-> "idle"]
  /\ stream = [s \in Sessions |-> NoStream]
  /\ attached = [s \in Sessions |-> 0]
  /\ sessionClosed = [s \in Sessions |-> FALSE]
  /\ smu = [s \in Sessions |-> Free]
  /\ call = [s \in Sessions |-> [k \in Closers |-> "none"]]

-----------------------------------------------------------------------------
(* The registry, as the reconciler drives it.                              *)

(* Put of a new Stream: first sight of the camera, or its URL changed.     *)
Put(st) ==
  /\ st \notin created
  /\ created' = created \cup {st}
  /\ entry' = st
  /\ UNCHANGED <<mu, upstream, state, stream, attached, closing>>

Delete ==
  /\ entry # NoStream
  /\ entry' = NoStream
  /\ UNCHANGED <<created, mu, upstream, state, stream, attached, closing>>

-----------------------------------------------------------------------------
(* One signalling request.                                                 *)

(* signalHandler: Registry.Get, or 404.                                    *)
Get(s) ==
  /\ state[s] = "idle"
  /\ entry # NoStream
  /\ stream' = [stream EXCEPT ![s] = entry]
  /\ state' = [state EXCEPT ![s] = "found"]
  /\ UNCHANGED <<registry, mu, upstream, attached, closing>>

(* Acquire on a started Stream: one more reference, the current tracks.    *)
AcquireStarted(s) ==
  LET st == stream[s] IN
  /\ state[s] = "found"
  /\ mu[st] = Free
  /\ started[st]
  /\ refs' = [refs EXCEPT ![st] = @ + 1]
  /\ attached' = [attached EXCEPT ![s] = tracks[st]]
  /\ state' = [state EXCEPT ![s] = "tracked"]
  /\ UNCHANGED <<registry, mu, started, tracks, runs, live, stream, closing>>

(* Acquire on an idle Stream calls Producer.Start with Stream.mu held.     *)
AcquireIdle(s) ==
  LET st == stream[s] IN
  /\ state[s] = "found"
  /\ mu[st] = Free
  /\ ~started[st]
  /\ mu' = [mu EXCEPT ![st] = s]
  /\ state' = [state EXCEPT ![s] = "starting"]
  /\ UNCHANGED <<registry, upstream, stream, attached, closing>>

(* Start returned tracks.                                                  *)
StartOK(s) ==
  LET st == stream[s] IN
  /\ state[s] = "starting"
  /\ runs' = [runs EXCEPT ![st] = @ + 1]
  /\ tracks' = [tracks EXCEPT ![st] = runs[st] + 1]
  /\ live' = [live EXCEPT ![st] = TRUE]
  /\ started' = [started EXCEPT ![st] = TRUE]
  /\ refs' = [refs EXCEPT ![st] = @ + 1]
  /\ attached' = [attached EXCEPT ![s] = runs[st] + 1]
  /\ mu' = [mu EXCEPT ![st] = Free]
  /\ state' = [state EXCEPT ![s] = "tracked"]
  /\ UNCHANGED <<registry, stream, closing>>

(* Faulty variant: a Start that yielded no tracks is not stopped again.    *)
StartFailsUnstopped(s) ==
  /\ state[s] = "starting"
  /\ mu' = [mu EXCEPT ![stream[s]] = Free]
  /\ live' = [live EXCEPT ![stream[s]] = TRUE]
  /\ state' = [state EXCEPT ![s] = "refused"]
  /\ UNCHANGED <<registry, refs, started, tracks, runs, stream, attached, closing>>

(* Start failed, or yielded no tracks and was stopped again; the peer      *)
(* connection is closed before a Session exists.                           *)
StartFails(s) ==
  /\ state[s] = "starting"
  /\ mu' = [mu EXCEPT ![stream[s]] = Free]
  /\ state' = [state EXCEPT ![s] = "refused"]
  /\ UNCHANGED <<registry, upstream, stream, attached, closing>>

(* Faulty variant: the error return without the release.                   *)
AddTrackLeaks(s) ==
  /\ state[s] = "tracked"
  /\ state' = [state EXCEPT ![s] = "refused"]
  /\ UNCHANGED <<registry, mu, upstream, stream, attached, closing>>

(* AddTransceiverFromTrack failed: release before a Session exists.        *)
AddTrackFails(s) ==
  /\ state[s] = "tracked"
  /\ state' = [state EXCEPT ![s] = "releasing"]
  /\ UNCHANGED <<registry, mu, upstream, stream, attached, closing>>

(* The tracks are added, the Session exists and its callback is installed. *)
Open(s) ==
  /\ state[s] = "tracked"
  /\ state' = [state EXCEPT ![s] = "open"]
  /\ UNCHANGED <<registry, mu, upstream, stream, attached, closing>>

(* Something wants the Session closed: a failed SDP step or a cancelled    *)
(* request, or pion reporting Failed, which it may do at any time, also    *)
(* while another goroutine is closing.                                     *)
CallClose(s, k) ==
  /\ k \in {"negotiate", "failed"}
  /\ call[s][k] = "none"
  /\ \/ state[s] = "open"
     \/ k = "failed" /\ sessionClosed[s]
  /\ call' = [call EXCEPT ![s][k] = "called"]
  /\ UNCHANGED <<registry, mu, upstream, state, stream, attached, sessionClosed, smu>>

(* Faulty variant: Close does not look at Session.closed.                  *)
CloseUnchecked(s, k) ==
  /\ call[s][k] = "called"
  /\ smu[s] = Free
  /\ sessionClosed' = [sessionClosed EXCEPT ![s] = TRUE]
  /\ smu' = [smu EXCEPT ![s] = k]
  /\ call' = [call EXCEPT ![s]["closed"] = "called"]
  /\ state' = [state EXCEPT ![s] = "releasing"]
  /\ UNCHANGED <<registry, mu, upstream, stream, attached>>

(* Faulty variant: Close returns on an error of pc.Close, before release.  *)
CloseReturnsEarly(s, k) ==
  /\ call[s][k] = "called"
  /\ smu[s] = Free
  /\ ~sessionClosed[s]
  /\ sessionClosed' = [sessionClosed EXCEPT ![s] = TRUE]
  /\ call' = [call EXCEPT ![s][k] = "done"]
  /\ UNCHANGED <<registry, mu, upstream, state, stream, attached, smu>>

(* Close takes Session.mu, marks the session and closes the peer           *)
(* connection, whose Closed state reaches the callback on a goroutine of   *)
(* its own.                                                                *)
CloseFirst(s, k) ==
  /\ call[s][k] = "called"
  /\ smu[s] = Free
  /\ ~sessionClosed[s]
  /\ sessionClosed' = [sessionClosed EXCEPT ![s] = TRUE]
  /\ smu' = [smu EXCEPT ![s] = k]
  /\ call' = [call EXCEPT ![s]["closed"] = "called"]
  /\ state' = [state EXCEPT ![s] = "releasing"]
  /\ UNCHANGED <<registry, mu, upstream, stream, attached>>

(* Every later Close returns at once.                                      *)
CloseAgain(s, k) ==
  /\ call[s][k] = "called"
  /\ smu[s] = Free
  /\ sessionClosed[s]
  /\ call' = [call EXCEPT ![s][k] = "done"]
  /\ UNCHANGED <<registry, mu, upstream, state, stream, attached, sessionClosed, smu>>

(* The end of the Close that holds Session.mu, if there is one (an         *)
(* AddTrack failure releases without it).                                  *)
EndClose(s) ==
  /\ smu' = [smu EXCEPT ![s] = Free]
  /\ call' = [call EXCEPT ![s] =
                [k \in Closers |-> IF smu[s] = k THEN "done" ELSE @[k]]]
  /\ UNCHANGED sessionClosed

(* release with other references left: refs-- and the early return.        *)
ReleaseShared(s) ==
  LET st == stream[s] IN
  /\ state[s] = "releasing"
  /\ mu[st] = Free
  /\ refs[st] > 1 \/ ~started[st]
  /\ refs' = [refs EXCEPT ![st] = @ - 1]
  /\ state' = [state EXCEPT ![s] = "done"]
  /\ EndClose(s)
  /\ UNCHANGED <<registry, mu, started, tracks, runs, live, stream, attached>>

(* Faulty variants: Stream.mu is given up before Producer.Stop; the        *)
(* Producer is stopped although one reference is left.                     *)
ReleaseLastUnlocked(s) ==
  LET st == stream[s] IN
  /\ state[s] = "releasing"
  /\ mu[st] = Free
  /\ refs[st] <= 1 /\ started[st]
  /\ refs' = [refs EXCEPT ![st] = @ - 1]
  /\ state' = [state EXCEPT ![s] = "stopping"]
  /\ UNCHANGED <<registry, mu, started, tracks, runs, live, stream, attached,
                 closing>>

ReleaseLastEarly(s) ==
  LET st == stream[s] IN
  /\ state[s] = "releasing"
  /\ mu[st] = Free
  /\ refs[st] <= 2 /\ started[st]
  /\ refs' = [refs EXCEPT ![st] = @ - 1]
  /\ mu' = [mu EXCEPT ![st] = s]
  /\ state' = [state EXCEPT ![s] = "stopping"]
  /\ UNCHANGED <<registry, started, tracks, runs, live, stream, attached,
                 closing>>

(* release of the last reference: cancel and Producer.Stop, with Stream.mu *)
(* held until Stop returns.                                                *)
ReleaseLast(s) ==
  LET st == stream[s] IN
  /\ state[s] = "releasing"
  /\ mu[st] = Free
  /\ refs[st] <= 1 /\ started[st]
  /\ refs' = [refs EXCEPT ![st] = @ - 1]
  /\ mu' = [mu EXCEPT ![st] = s]
  /\ state' = [state EXCEPT ![s] = "stopping"]
  /\ UNCHANGED <<registry, started, tracks, runs, live, stream, attached,
                 closing>>

ProducerStopped(s) ==
  LET st == stream[s] IN
  /\ state[s] = "stopping"
  /\ live' = [live EXCEPT ![st] = FALSE]
  /\ started' = [started EXCEPT ![st] = FALSE]
  /\ tracks' = [tracks EXCEPT ![st] = 0]
  /\ mu' = [mu EXCEPT ![st] = Free]
  /\ state' = [state EXCEPT ![s] = "done"]
  /\ EndClose(s)
  /\ UNCHANGED <<registry, refs, runs, stream, attached>>

-----------------------------------------------------------------------------
Acquire(s) == AcquireStarted(s) \/ AcquireIdle(s)
StartReturns(s) == StartOK(s) \/ StartFails(s)
Attach(s) == Open(s) \/ AddTrackFails(s)
Close(s) == \E k \in Closers : CloseFirst(s, k) \/ CloseAgain(s, k)
Release(s) == ReleaseShared(s) \/ ReleaseLast(s)

(* What the goroutines of a request do by themselves.                      *)
Goroutine(s) == \/ Acquire(s) \/ StartReturns(s) \/ Attach(s)
                \/ Close(s) \/ Release(s) \/ ProducerStopped(s)

(* The requests are one-shot: a state in which each was never sent, is     *)
(* being watched or is over, and no Close is waiting, may be the last one. *)
Finished ==
  /\ \A s \in Sessions :
       /\ state[s] \in {"idle", "open", "done", "refused"}
       /\ \A k \in Closers : call[s][k] # "called"
  /\ UNCHANGED streamsVars

StreamsNext ==
  \/ \E st \in Streams : Put(st)
  \/ Delete
  \/ \E s \in Sessions :
       \/ Get(s)
       \/ \E k \in Closers : CallClose(s, k)
       \/ Goroutine(s)
  \/ Finished

(* The goroutines of a request that began keep running, and Start and Stop *)
(* return.  Weak fairness is enough for the mutexes: the requests are      *)
(* finitely many and one-shot, so a lock is not taken away for ever.       *)
(* Nobody has to send a request, to close a session or to edit the         *)
(* registry.                                                               *)
StreamsFairness == \A s \in Sessions : WF_streamsVars(Goroutine(s))

StreamsSpec == StreamsInit /\ [][StreamsNext]_streamsVars
StreamsFairSpec == StreamsSpec /\ StreamsFairness

-----------------------------------------------------------------------------
(* Every variable has its type; in particular a reference count is never   *)
(* negative, so no reference is ever released twice.                       *)
StreamsTypeOK ==
  /\ entry \in Streams \cup {NoStream}
  /\ created \subseteq Streams
  /\ mu \in [Streams -> Sessions \cup {Free}]
  /\ refs \in [Streams -> Nat]
  /\ started \in [Streams -> BOOLEAN]
  /\ tracks \in [Streams -> Nat]
  /\ runs \in [Streams -> Nat]
  /\ live \in [Streams -> BOOLEAN]
  /\ state \in [Sessions -> States]
  /\ stream \in [Sessions -> Streams \cup {NoStream}]
  /\ attached \in [Sessions -> Nat]
  /\ sessionClosed \in [Sessions -> BOOLEAN]
  /\ smu \in [Sessions -> Closers \cup {Free}]
  /\ call \in [Sessions -> [Closers -> {"none", "called", "done"}]]

(* Stream.refs is the number of requests that hold the Stream, whatever    *)
(* Negotiate's error paths and the racing closers of a Session do: each    *)
(* release function is called at most once.                                *)
RefsCountHolders ==
  \A st \in Streams : refs[st] = Cardinality(Holders(st))

(* A request that holds a Stream was given the tracks of the Producer run  *)
(* that is live now: no viewer is ever left on the tracks of a run that    *)
(* was stopped, although release and Acquire of other viewers, and the     *)
(* replacement of the registry entry, interleave with it.                  *)
HoldersWatchTheLiveRun ==
  \A s \in Sessions :
    Holding(s) => /\ live[stream[s]]
                  /\ started[stream[s]]
                  /\ attached[s] = runs[stream[s]]

(* An open upstream has a viewer, or the release of its last viewer is     *)
(* inside Producer.Stop: nothing, not even replacing the Stream in the     *)
(* registry while it is in use, leaves an RTSP session open for nobody.    *)
UpstreamOnlyWhileUsed ==
  \A st \in Streams : live[st] =>
    \/ Holders(st) # {}
    \/ \E s \in Sessions : stream[s] = st /\ state[s] = "stopping"

(* What a Stream promises, refined: see SharedUpstream.                    *)
Shared == INSTANCE SharedUpstream WITH
            Viewers <- Sessions,
            Upstreams <- Streams,
            viewers <- [st \in Streams |-> Holders(st)],
            up <- live
SharedSpec == Shared!FairSpec

(* A Session somebody started to close ends with its reference released,   *)
(* whichever of the goroutines gets there first and whatever holds the     *)
(* locks in between.                                                       *)
CloseCompletes ==
  \A s \in Sessions : sessionClosed[s] ~> state[s] = "done"

=============================================================================
