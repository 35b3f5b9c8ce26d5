----------------------------- MODULE RtspProofs -----------------------------
(***************************************************************************)
(* Proofs about what is around an RTSP session: the producer, for any      *)
(* sessions and any number of restarts, the HLS muxer, for any players and *)
(* sessions, and the timestamps, for any range and any access units.       *)
(***************************************************************************)
EXTENDS MCRtsp, TLAPS

Places == {"watch", "retry", "backoff", "dialed", "closing", "done"}
Loops == [at : Places, c : Clients]

(* Start and Stop alternate; Stop alone holds Producer.mu for longer than  *)
(* a step; a run that has not been installed has no loop, and one that has *)
(* not been released is not cancelled.                                     *)
CallerInv ==
  /\ caller # "down" => n \in Runs
  /\ dialed # NoClient <=> caller = "starting"
  /\ stopMu <=> caller = "stopping"
  /\ \A k \in Runs : n < k \/ (n = k /\ caller = "starting") => loop[k] = NoLoop
  /\ \A k \in Runs : cancelled[k] =>
       k <= n /\ (k = n => caller \notin {"starting", "up"})
  /\ caller = "up" => ~closed

IInv == TypeOK /\ CallerInv /\ NoOrphanSession /\ LoopRunsWhileWanted

(* The inductive invariant holds initially.                                *)
LEMMA InitIInv == Init => IInv
<1> SUFFICES ASSUME Init PROVE IInv
  OBVIOUS
<1>1. TypeOK
  <2>1. n \in 0 .. MaxStarts /\ track \in 0 .. n /\ target \in [Clients -> 0 .. n]
    BY RtspAssumption DEF Init
  <2>2. loop \in [Runs -> {NoLoop} \cup Loops]
    BY DEF Init
  <2> QED
    BY <2>1, <2>2 DEF Init, TypeOK, Loops, Places
<1>2. CallerInv
  BY DEF Init, CallerInv
<1>3. NoOrphanSession /\ LoopRunsWhileWanted
  BY DEF Init, NoOrphanSession, LoopRunsWhileWanted
<1> QED
  BY <1>1, <1>2, <1>3 DEF IInv

(* A loop is not started, or watches or replaces a session.                *)
LEMMA LoopKinds ==
  /\ NoLoop \notin Loops /\ NoLoop.at = "none" /\ NoLoop.c = NoClient
  /\ \A r \in Loops : r.at \in Places /\ r.c \in Clients
  /\ \A r \in Loops, p \in Places :
       /\ [r EXCEPT !.at = p] \in Loops
       /\ [r EXCEPT !.at = p].at = p
       /\ [r EXCEPT !.at = p].c = r.c
BY DEF Loops, Places, NoLoop

-----------------------------------------------------------------------------
(* Steps that leave the caller, the loops and the contexts alone, and open *)
(* no session.                                                             *)
LEMMA SessionIInv ==
  ASSUME IInv, NEW c \in Clients,
         Drop(c) \/ Ended(c) \/ Packet(c) \/ CurrentTrack(c) \/ WriteSample(c)
  PROVE  IInv'
<1>1. TypeOK'
  BY DEF IInv, TypeOK, Drop, Ended, Packet, CurrentTrack, WriteSample, owner, producer
<1>2. UNCHANGED <<owner, stopMu, closed, cancelled, loop>>
  BY DEF Drop, Ended, Packet, CurrentTrack, WriteSample, producer
<1>3. CallerInv' /\ LoopRunsWhileWanted'
  BY <1>2 DEF IInv, CallerInv, LoopRunsWhileWanted, owner
<1>4. \A d \in Clients : session'[d] = "open" => session[d] = "open"
  BY DEF IInv, TypeOK, Drop, Ended, Packet, CurrentTrack, WriteSample
<1>5. NoOrphanSession'
  BY <1>2, <1>4 DEF IInv, NoOrphanSession, owner
<1> QED
  BY <1>1, <1>3, <1>5 DEF IInv

(* Start's dial opens a session that is in its hands.                      *)
LEMMA StartDialsIInv == ASSUME IInv, NEW c \in Clients, StartDials(c) PROVE IInv'
<1> USE RtspAssumption
<1>1. TypeOK'
  BY DEF IInv, TypeOK, StartDials, Dial, producer
<1>2. /\ n \in Nat /\ n' = n + 1 /\ n' \in Runs /\ caller = "down"
      /\ dialed' = c /\ caller' = "starting"
      /\ UNCHANGED <<stopMu, closed, cancelled, loop>>
  BY DEF IInv, TypeOK, StartDials, producer, Runs
<1>3. CallerInv'
  BY <1>2 DEF IInv, CallerInv, Runs
<1>4. \A d \in Clients : session'[d] = "open" => d = c \/ session[d] = "open"
  BY DEF IInv, TypeOK, StartDials, Dial
<1>5. dialed \notin Clients
  BY <1>2 DEF IInv, TypeOK, CallerInv
<1>6. NoOrphanSession'
  BY <1>2, <1>4, <1>5 DEF IInv, NoOrphanSession
<1> QED
  BY <1>1, <1>2, <1>3, <1>6 DEF IInv, LoopRunsWhileWanted

(* The session passes from Start to the loop of the run.                   *)
LEMMA StartInstallsIInv == ASSUME IInv, StartInstalls PROVE IInv'
<1> USE RtspAssumption
<1>1. /\ caller = "starting" /\ caller' = "up" /\ dialed \in Clients
      /\ dialed' = NoClient /\ n \in Runs /\ n \in Nat /\ n <= MaxStarts
      /\ loop[n] = NoLoop /\ ~stopMu /\ ~cancelled[n]
      /\ closed' = FALSE /\ UNCHANGED <<n, stopMu, cancelled, session, callback, target>>
  BY DEF IInv, TypeOK, CallerInv, StartInstalls, Runs, rtsp
<1>2. /\ loop' = [loop EXCEPT ![n] = [at |-> "watch", c |-> dialed]]
      /\ [at |-> "watch", c |-> dialed] \in Loops
  BY <1>1 DEF StartInstalls, Loops, Places
<1>3. TypeOK'
  <2>1. loop' \in [Runs -> {NoLoop} \cup Loops]
    BY <1>1, <1>2 DEF IInv, TypeOK, Loops, Places
  <2>2. client' \in Clients /\ track' \in 0 .. n
    BY <1>1 DEF StartInstalls
  <2> QED
    BY <1>1, <2>1, <2>2 DEF IInv, TypeOK, Loops, Places
<1>4. /\ \A k \in Runs \ {n} : loop'[k] = loop[k]
      /\ loop'[n].at = "watch" /\ loop'[n].c = dialed
  BY <1>1, <1>2 DEF IInv, TypeOK
<1>5. CallerInv'
  BY <1>1, <1>4 DEF IInv, CallerInv, Runs
<1>6. NoOrphanSession'
  BY <1>1, <1>4, LoopKinds DEF IInv, NoOrphanSession
<1> QED
  BY <1>1, <1>3, <1>4, <1>5, <1>6 DEF IInv, LoopRunsWhileWanted

(* Cancel and Stop, which closes a session and opens none.                 *)
LEMMA StopIInv == ASSUME IInv, Cancel \/ Stop PROVE IInv'
<1> USE RtspAssumption
<1>1. TypeOK'
  <2>1. CASE Cancel
    BY <2>1 DEF IInv, TypeOK, Cancel, producer, rtsp
  <2>2. CASE StopBegins
    BY <2>2 DEF IInv, TypeOK, StopBegins, BeginClose
  <2>3. CASE StopReturns
    <3>1. 0 \in 0 .. n
      BY DEF IInv, TypeOK
    <3> QED
      BY <2>3, <3>1 DEF IInv, TypeOK, StopReturns, rtsp
  <2> QED
    BY <2>1, <2>2, <2>3 DEF Stop
<1>2. UNCHANGED <<n, dialed, loop>> /\ caller' # "up" /\ n \in Nat
  BY DEF IInv, TypeOK, Cancel, Stop, StopBegins, StopReturns
<1>3. CallerInv'
  BY <1>2 DEF IInv, TypeOK, CallerInv, Cancel, Stop, StopBegins, StopReturns, producer,
              Runs
<1>4. \A d \in Clients : session'[d] = "open" => session[d] = "open"
  BY DEF IInv, TypeOK, Cancel, Stop, StopBegins, StopReturns, BeginClose, rtsp
<1>5. NoOrphanSession'
  BY <1>2, <1>4 DEF IInv, NoOrphanSession
<1> QED
  BY <1>1, <1>2, <1>3, <1>5 DEF IInv, LoopRunsWhileWanted

-----------------------------------------------------------------------------
(* What every step of the goroutine of run k amounts to: it goes from one  *)
(* place to another, with a session of its own, and lets go of a session   *)
(* only when that is closed.                                               *)
LEMMA LoopStepIInv ==
  ASSUME IInv, NEW k \in Runs, NEW new \in Loops,
         loop[k] # NoLoop,
         loop' = [loop EXCEPT ![k] = new],
         client' \in Clients \cup {NoClient},
         UNCHANGED <<owner, stopMu, track, closed, cancelled, callback, target>>,
         session' \in [Clients -> {"unused", "open", "ending", "ended"}],
         \A c \in Clients : session'[c] = "open" =>
           session[c] = "open" \/ (new.c = c /\ new.at \in {"watch", "dialed"}),
         \A c \in Clients :
           session'[c] = "open" /\ loop[k].c = c /\ loop[k].at \in {"watch", "dialed"}
             => new.c = c /\ new.at \in {"watch", "dialed"},
         ~cancelled[k] /\ ~closed /\ loop[k].at \in {"watch", "retry", "backoff", "dialed"}
           => new.at \in {"watch", "retry", "backoff", "dialed"}
  PROVE  IInv'
<1> USE RtspAssumption
<1>1. TypeOK'
  BY DEF IInv, TypeOK, Loops, Places, owner
<1>2. loop'[k] = new /\ \A j \in Runs \ {k} : loop'[j] = loop[j]
  BY DEF IInv, TypeOK
<1>3. ~(n < k \/ (n = k /\ caller = "starting"))
  BY DEF IInv, CallerInv
<1>4. CallerInv'
  BY <1>2, <1>3 DEF IInv, CallerInv, owner
<1>5. NoOrphanSession'
  <2> SUFFICES ASSUME NEW c \in Clients, session'[c] = "open"
               PROVE  \/ dialed = c
                      \/ \E j \in Runs : /\ loop'[j].c = c
                                         /\ loop'[j].at \in {"watch", "dialed"}
    BY DEF NoOrphanSession, owner
  <2>1. CASE new.c = c /\ new.at \in {"watch", "dialed"}
    BY <1>2, <2>1
  <2>2. CASE ~(new.c = c /\ new.at \in {"watch", "dialed"})
    <3>1. session[c] = "open"
      BY <2>2
    <3>2. CASE dialed = c
      BY <3>2
    <3>3. CASE dialed # c
      <4>1. PICK j \in Runs : loop[j].c = c /\ loop[j].at \in {"watch", "dialed"}
        BY <3>1, <3>3 DEF IInv, NoOrphanSession
      <4> QED
        BY <1>2, <2>2, <4>1
    <3> QED
      BY <3>2, <3>3
  <2> QED
    BY <2>1, <2>2
<1>6. LoopRunsWhileWanted'
  <2> SUFFICES ASSUME caller = "up"
               PROVE  loop'[n].at \in {"watch", "retry", "backoff", "dialed"}
    BY DEF LoopRunsWhileWanted, owner
  <2>1. /\ n \in Runs /\ ~cancelled[n] /\ ~closed
        /\ loop[n].at \in {"watch", "retry", "backoff", "dialed"}
    BY DEF IInv, CallerInv, LoopRunsWhileWanted
  <2> QED
    BY <1>2, <2>1
<1> QED
  BY <1>1, <1>4, <1>5, <1>6 DEF IInv

(* The steps of the goroutine of run k.                                    *)
LEMMA LoopIInv == ASSUME IInv, NEW k \in Runs, Loop(k) PROVE IInv'
<1> DEFINE Moves(p) == loop' = [loop EXCEPT ![k] = [loop[k] EXCEPT !.at = p]]
<1>0. /\ loop \in [Runs -> {NoLoop} \cup Loops]
      /\ session \in [Clients -> {"unused", "open", "ending", "ended"}]
      /\ client \in Clients \cup {NoClient}
  BY DEF IInv, TypeOK, Loops, Places
<1>1. loop[k].at # "none" => loop[k] \in Loops /\ loop[k] # NoLoop
  BY <1>0, LoopKinds
<1>2. CASE LoopCancelled(k) \/ LoopDialedTooLate(k)
  <2>1. /\ Moves("closing") /\ loop[k].at \in {"watch", "dialed"}
        /\ session' = [session EXCEPT ![loop[k].c] = IF @ = "open" THEN "ending" ELSE @]
        /\ UNCHANGED <<owner, client, stopMu, track, closed, cancelled, callback, target>>
        /\ cancelled[k] \/ closed
    BY <1>2 DEF LoopCancelled, LoopDialedTooLate, BeginClose, producer
  <2>2. loop[k] \in Loops /\ loop[k].c \in Clients /\ loop[k] # NoLoop
    BY <1>1, <2>1, LoopKinds
  <2>3. /\ session' \in [Clients -> {"unused", "open", "ending", "ended"}]
        /\ \A c \in Clients : session'[c] = "open" => session[c] = "open" /\ c # loop[k].c
    BY <1>0, <2>1, <2>2
  <2>4. [loop[k] EXCEPT !.at = "closing"] \in Loops
    BY <2>2, LoopKinds DEF Places
  <2> HIDE DEF Moves
  <2> QED
    BY <1>0, <2>1, <2>2, <2>3, <2>4, LoopStepIInv DEF Moves
<1>3. CASE LoopClosed(k) \/ LoopEnds(k)
  <2>1. /\ Moves("done") /\ loop[k].at \in {"closing", "retry", "backoff"}
        /\ UNCHANGED <<owner, producer, cancelled, rtsp>>
        /\ loop[k].at = "closing" \/ cancelled[k] \/ closed
    BY <1>3 DEF LoopClosed, LoopEnds
  <2>2. loop[k] \in Loops /\ loop[k] # NoLoop
    BY <1>1, <2>1
  <2>3. [loop[k] EXCEPT !.at = "done"] \in Loops
    BY <2>2, LoopKinds DEF Places
  <2> QED
    BY <1>0, <2>1, <2>2, <2>3, LoopStepIInv DEF producer, rtsp
<1>4. CASE LoopSessionEnded(k) \/ LoopBacksOff(k) \/ LoopDialFails(k)
  <2>1. PICK p \in {"retry", "backoff"} : Moves(p)
    BY <1>4 DEF LoopSessionEnded, LoopBacksOff, LoopDialFails
  <2>2. /\ loop[k].at \in {"watch", "retry", "backoff"}
        /\ loop[k].at = "watch" => session[loop[k].c] = "ended"
        /\ UNCHANGED <<owner, producer, cancelled, rtsp>>
    BY <1>4 DEF LoopSessionEnded, LoopBacksOff, LoopDialFails
  <2>3. loop[k] \in Loops /\ loop[k] # NoLoop
    BY <1>1, <2>2
  <2>4. /\ [loop[k] EXCEPT !.at = p] \in Loops
        /\ [loop[k] EXCEPT !.at = p].at = p
    <3>1. p \in Places
      BY DEF Places
    <3> QED
      BY <2>3, <3>1, LoopKinds
  <2> QED
    BY <1>0, <2>1, <2>2, <2>3, <2>4, LoopStepIInv DEF producer, rtsp
<1>5. ASSUME NEW c \in Clients, LoopDials(k, c)
      PROVE  IInv'
  <2> DEFINE new == [at |-> "dialed", c |-> c]
  <2>1. /\ loop[k].at = "backoff" /\ loop' = [loop EXCEPT ![k] = new]
        /\ session' = [session EXCEPT ![c] = "open"]
        /\ UNCHANGED <<owner, producer, cancelled, callback, target>>
    BY <1>5 DEF LoopDials, Dial
  <2>2. loop[k] # NoLoop
    BY <1>1, <2>1
  <2>3. new \in Loops /\ new.at = "dialed" /\ new.c = c
    BY DEF Loops, Places
  <2>4. /\ session' \in [Clients -> {"unused", "open", "ending", "ended"}]
        /\ \A d \in Clients : session'[d] = "open" => session[d] = "open" \/ d = c
    BY <1>0, <2>1
  <2> HIDE DEF new
  <2> QED
    BY <1>0, <2>1, <2>2, <2>3, <2>4, LoopStepIInv DEF producer
<1>6. CASE LoopInstalls(k)
  <2>1. /\ Moves("watch") /\ loop[k].at = "dialed" /\ client' = loop[k].c
        /\ UNCHANGED <<owner, stopMu, track, closed, cancelled, rtsp>>
    BY <1>6 DEF LoopInstalls
  <2>2. loop[k] \in Loops /\ loop[k] # NoLoop /\ loop[k].c \in Clients
    BY <1>1, <2>1, LoopKinds
  <2>3. /\ [loop[k] EXCEPT !.at = "watch"] \in Loops
        /\ [loop[k] EXCEPT !.at = "watch"].at = "watch"
        /\ [loop[k] EXCEPT !.at = "watch"].c = loop[k].c
    BY <2>2, LoopKinds DEF Places
  <2>4. session' = session /\ client' \in Clients \cup {NoClient}
    BY <2>1, <2>2 DEF rtsp
  <2> DEFINE new == [loop[k] EXCEPT !.at = "watch"]
  <2>5. new \in Loops /\ new.at = "watch" /\ new.c = loop[k].c
    BY <2>3
  <2>6. loop' = [loop EXCEPT ![k] = new]
    BY <2>1
  <2>7. UNCHANGED <<owner, stopMu, track, closed, cancelled, callback, target>>
    BY <2>1 DEF rtsp
  <2>8. session' \in [Clients -> {"unused", "open", "ending", "ended"}]
    BY <1>0, <2>4
  <2>9. \A c \in Clients : session'[c] = "open" => session[c] = "open"
    BY <2>4
  <2> HIDE DEF new, Moves
  <2> QED
    BY <2>2, <2>4, <2>5, <2>6, <2>7, <2>8, <2>9, LoopStepIInv
<1> QED
  BY <1>2, <1>3, <1>4, <1>5, <1>6 DEF Loop

(* Every step keeps the inductive invariant.                               *)
LEMMA NextIInv == IInv /\ [Next]_vars => IInv'
<1> SUFFICES ASSUME IInv, [Next]_vars PROVE IInv'
  OBVIOUS
<1>1. CASE UNCHANGED vars
  BY <1>1 DEF vars, IInv, TypeOK, CallerInv, NoOrphanSession, LoopRunsWhileWanted
<1> QED
  BY <1>1, SessionIInv, StartDialsIInv, StartInstallsIInv, StopIInv, LoopIInv
     DEF Next, Callback, Stop

(* The inductive invariant holds in every reachable state.                 *)
LEMMA Invariance == Spec => []IInv
BY InitIInv, NextIInv, PTL DEF Spec
-----------------------------------------------------------------------------
(* The HLS muxer.                                                          *)

(* What has been cancelled is closed, and what has not been started is not *)
(* cancelled.                                                              *)
ContextInv ==
  /\ hlsStarted => hlsSession \in HlsSessions
  /\ \A k \in HlsSessions : hlsCancelled[k] =>
       k <= hlsSession /\ hlsUpstream[k] = "closed"

(* The inductive invariant.                                                *)
HlsInv == HlsTypeOK /\ HlsNoOrphan /\ ContextInv

PlayerPlaces == {"away", "arrived", "started", "handled"}

(* It holds initially.                                                     *)
LEMMA HlsInitInv == HlsInit => HlsInv
<1> SUFFICES ASSUME HlsInit PROVE HlsInv
  OBVIOUS
<1>1. hlsSession \in 0 .. MaxHlsSessions /\ 0 \in 0 .. hlsSession
  BY HlsAssumption DEF HlsInit
<1>2. player \in [Players -> [at : PlayerPlaces, mux : 0 .. hlsSession]]
  BY <1>1 DEF HlsInit, Away, PlayerPlaces
<1> QED
  BY <1>1, <1>2
     DEF HlsInit, HlsInv, HlsTypeOK, HlsNoOrphan, ContextInv, PlayerPlaces

(* stopLocked, by whomever: nothing is left open.                          *)
LEMMA HlsStopLockedInv ==
  ASSUME HlsInv, HlsStopLocked, hlsStarted, UNCHANGED <<longAgo, player>>,
         hlsReadLoop' \in [HlsSessions -> {"none", "wait", "ended", "done"}],
         hlsWatchdog' \in [HlsSessions -> {"none", "tick", "stopping", "done"}]
  PROVE  HlsInv'
<1>1. /\ hlsCancelled' = [hlsCancelled EXCEPT ![hlsSession] = TRUE]
      /\ hlsUpstream' = [hlsUpstream EXCEPT ![hlsSession] = "closed"]
      /\ hlsMux' = 0 /\ hlsStarted' = FALSE /\ hlsSession' = hlsSession
  BY DEF HlsStopLocked
<1>2. HlsTypeOK'
  BY <1>1 DEF HlsInv, HlsTypeOK
<1>3. HlsNoOrphan' /\ ContextInv'
  BY <1>1 DEF HlsInv, HlsTypeOK, HlsNoOrphan, ContextInv, HlsSessions
<1> QED
  BY <1>2, <1>3 DEF HlsInv

(* Steps that leave the session and its goroutines alone.                  *)
LEMMA HlsRequestInv ==
  ASSUME HlsInv, UNCHANGED <<hlsState, hlsReadLoop, hlsWatchdog>>,
         longAgo' \in BOOLEAN,
         player' \in [Players -> [at : PlayerPlaces, mux : 0 .. hlsSession]]
  PROVE  HlsInv'
BY DEF HlsInv, HlsTypeOK, HlsNoOrphan, ContextInv, hlsState, PlayerPlaces

(* A request makes its way, starts a session or is handed to its muxer.    *)
LEMMA HlsServeInv ==
  ASSUME HlsInv, NEW q \in Players, Touch(q) \/ ServeHTTP(q)
  PROVE  HlsInv'
<1> DEFINE Seen == [at : PlayerPlaces, mux : 0 .. hlsSession]
<1>1. /\ player \in [Players -> Seen] /\ hlsSession \in Nat
      /\ hlsMux \in 0 .. hlsSession /\ longAgo \in BOOLEAN
  BY HlsAssumption DEF HlsInv, HlsTypeOK, PlayerPlaces
<1>2. Away \in Seen
  BY <1>1 DEF Away, PlayerPlaces
<1>3. \A p \in PlayerPlaces : [player[q] EXCEPT !.at = p] \in Seen
  BY <1>1
<1>4. CASE ~HlsStartOK(q)
  <2>1. /\ UNCHANGED <<hlsState, hlsReadLoop, hlsWatchdog>> /\ longAgo' \in BOOLEAN
        /\ \E s \in Seen : player' = [player EXCEPT ![q] = s]
    <3>1. CASE Touch(q) \/ HlsFindStarted(q)
      <4>1. /\ [player[q] EXCEPT !.at = "arrived"] \in Seen
            /\ [player[q] EXCEPT !.at = "started"] \in Seen
        BY <1>3 DEF PlayerPlaces
      <4> QED
        BY <1>1, <3>1, <4>1 DEF Touch, HlsFindStarted
    <3>2. CASE HlsStartFails(q) \/ Handled(q)
      BY <1>1, <1>2, <3>2 DEF HlsStartFails, Handled
    <3>3. CASE HandOver(q)
      <4>1. [at |-> "handled", mux |-> hlsMux] \in Seen
        BY <1>1 DEF PlayerPlaces
      <4> QED
        BY <1>1, <1>2, <3>3, <4>1 DEF HandOver
    <3> QED
      BY <1>4, <3>1, <3>2, <3>3 DEF ServeHTTP
  <2>2. player' \in [Players -> Seen]
    BY <1>1, <2>1
  <2> QED
    BY <2>1, <2>2, HlsRequestInv
<1>5. CASE HlsStartOK(q)
  <2> DEFINE k == hlsSession + 1
  <2>1. /\ ~hlsStarted /\ k \in HlsSessions
        /\ hlsStarted' = TRUE /\ hlsSession' = k /\ hlsMux' = k /\ longAgo' = FALSE
        /\ hlsUpstream' = [hlsUpstream EXCEPT ![k] = "live"]
        /\ hlsReadLoop' = [hlsReadLoop EXCEPT ![k] = "wait"]
        /\ hlsWatchdog' = [hlsWatchdog EXCEPT ![k] = "tick"]
        /\ player' = [player EXCEPT ![q].at = "started"]
        /\ hlsCancelled' = hlsCancelled
    BY <1>5 DEF HlsStartOK
  <2>2. player' \in [Players -> [at : PlayerPlaces, mux : 0 .. k]]
    <3>1. player' \in [Players -> Seen]
      BY <1>1, <1>3, <2>1 DEF PlayerPlaces
    <3>2. \A s \in Seen : s \in [at : PlayerPlaces, mux : 0 .. k]
      BY <1>1
    <3> QED
      BY <3>1, <3>2
  <2>3. HlsTypeOK'
    <3>1. hlsSession' \in 0 .. MaxHlsSessions /\ k # 0
      BY <1>1, <2>1, HlsAssumption DEF HlsSessions
    <3> QED
      BY <2>1, <2>2, <3>1 DEF HlsInv, HlsTypeOK, PlayerPlaces
  <2>4. HlsNoOrphan'
    BY <2>1 DEF HlsInv, HlsTypeOK, HlsNoOrphan
  <2>5. ContextInv'
    BY <1>1, <2>1 DEF HlsInv, HlsTypeOK, ContextInv, HlsSessions
  <2> QED
    BY <2>3, <2>4, <2>5 DEF HlsInv
<1> QED
  BY <1>4, <1>5

(* Steps of the read loop and the watchdog that stop nothing.              *)
LEMMA HlsWatchInv ==
  ASSUME HlsInv, NEW k \in HlsSessions,
         \/ HlsWaitReturns(k) \/ HlsReadLoopCancelled(k) \/ HlsLost(k)
         \/ HlsWatchdogTicks(k) \/ HlsWatchdogCancelled(k)
  PROVE  HlsInv'
<1>1. /\ UNCHANGED <<hlsStarted, hlsSession, hlsMux, hlsCancelled, longAgo, player>>
      /\ HlsTypeOK
  BY DEF HlsWaitReturns, HlsReadLoopCancelled, HlsLost, HlsWatchdogTicks,
         HlsWatchdogCancelled, hlsState, HlsInv
<1>2. HlsTypeOK'
  BY <1>1 DEF HlsWaitReturns, HlsReadLoopCancelled, HlsLost, HlsWatchdogTicks,
              HlsWatchdogCancelled, hlsState, HlsTypeOK
<1>3. HlsNoOrphan'
  BY <1>1 DEF HlsWaitReturns, HlsReadLoopCancelled, HlsLost, HlsWatchdogTicks,
              HlsWatchdogCancelled, hlsState, HlsInv, HlsTypeOK, HlsNoOrphan, ContextInv
<1>4. ContextInv'
  BY <1>1 DEF HlsWaitReturns, HlsReadLoopCancelled, HlsLost, HlsWatchdogTicks,
              HlsWatchdogCancelled, hlsState, HlsInv, HlsTypeOK, ContextInv
<1> QED
  BY <1>2, <1>3, <1>4 DEF HlsInv

(* The read loop or the watchdog of a session gets to the lock, and stops  *)
(* whichever session runs; without one, nothing is open to be watched.     *)
LEMMA HlsStopsInv ==
  ASSUME HlsInv, NEW k \in HlsSessions, HlsReadLoopStops(k) \/ HlsWatchdogStops(k)
  PROVE  HlsInv'
<1>1. /\ hlsReadLoop' \in [HlsSessions -> {"none", "wait", "ended", "done"}]
      /\ hlsWatchdog' \in [HlsSessions -> {"none", "tick", "stopping", "done"}]
      /\ UNCHANGED <<longAgo, player>>
  BY DEF HlsReadLoopStops, HlsWatchdogStops, HlsInv, HlsTypeOK
<1>2. CASE HlsStopLocked /\ hlsStarted
  BY <1>1, <1>2, HlsStopLockedInv
<1>3. CASE ~(HlsStopLocked /\ hlsStarted)
  <2>1. UNCHANGED hlsState
    BY <1>3 DEF HlsReadLoopStops, HlsWatchdogStops, HlsStopLocked
  <2>2. HlsTypeOK' /\ ContextInv'
    BY <1>1, <2>1 DEF hlsState, HlsInv, HlsTypeOK, ContextInv
  <2>3. HlsNoOrphan'
    BY <1>3, <2>1 DEF HlsReadLoopStops, HlsWatchdogStops, hlsState, HlsInv,
                      HlsTypeOK, HlsNoOrphan
  <2> QED
    BY <2>2, <2>3 DEF HlsInv
<1> QED
  BY <1>2, <1>3

(* Every step keeps it.                                                    *)
LEMMA HlsNextInv == HlsInv /\ [HlsNext]_hlsVars => HlsInv'
<1> SUFFICES ASSUME HlsInv, [HlsNext]_hlsVars PROVE HlsInv'
  OBVIOUS
<1>1. CASE HlsClose \/ HlsTimePasses \/ UNCHANGED hlsVars
  <2>1. CASE HlsStopLocked /\ hlsStarted /\ HlsClose
    BY <2>1, HlsStopLockedInv DEF HlsClose, HlsInv, HlsTypeOK
  <2>2. CASE ~(HlsStopLocked /\ hlsStarted /\ HlsClose)
    <3>1. /\ UNCHANGED <<hlsState, hlsReadLoop, hlsWatchdog, player>>
          /\ longAgo' \in BOOLEAN
      BY <1>1, <2>2 DEF HlsClose, HlsTimePasses, HlsStopLocked, hlsState, hlsVars,
                        HlsInv, HlsTypeOK
    <3> QED
      BY <3>1, HlsRequestInv DEF HlsInv, HlsTypeOK, PlayerPlaces
  <2> QED
    BY <2>1, <2>2
<1>2. ASSUME NEW q \in Players, Touch(q) \/ ServeHTTP(q) PROVE HlsInv'
  BY <1>2, HlsServeInv
<1>3. ASSUME NEW k \in HlsSessions, HlsLost(k) \/ HlsReads(k) \/ HlsWatches(k)
      PROVE  HlsInv'
  BY <1>3, HlsWatchInv, HlsStopsInv DEF HlsReads, HlsWatches
<1> QED
  BY <1>1, <1>2, <1>3 DEF HlsNext

(* It holds in every reachable state.                                      *)
LEMMA HlsInvariance == HlsSpec => []HlsInv
BY HlsInitInv, HlsNextInv, PTL DEF HlsSpec

-----------------------------------------------------------------------------
(* The HLS muxer implements MuxerLife.                                     *)

(* The upstream of the session that runs is open.                          *)
HlsRunningIsOpen == hlsStarted => hlsUpstream[hlsSession] \in {"live", "lost"}

(* It holds in every reachable state.                                      *)
LEMMA HlsRunningInvariance == HlsSpec => []HlsRunningIsOpen
<1>1. HlsInit => HlsRunningIsOpen
  BY DEF HlsInit, HlsRunningIsOpen
<1>2. HlsInv /\ HlsRunningIsOpen /\ [HlsNext]_hlsVars => HlsRunningIsOpen'
  <2> SUFFICES ASSUME HlsInv, HlsRunningIsOpen, [HlsNext]_hlsVars
               PROVE  HlsRunningIsOpen'
    OBVIOUS
  <2>1. ASSUME UNCHANGED hlsState PROVE HlsRunningIsOpen'
    BY <2>1 DEF hlsState, HlsRunningIsOpen
  <2>2. ASSUME HlsStopLocked PROVE HlsRunningIsOpen'
    BY <2>1, <2>2 DEF HlsStopLocked, HlsRunningIsOpen
  <2>3. CASE HlsClose \/ HlsTimePasses \/ UNCHANGED hlsVars
    BY <2>1, <2>2, <2>3 DEF HlsClose, HlsTimePasses, hlsVars, hlsState
  <2>4. ASSUME NEW q \in Players, Touch(q) \/ ServeHTTP(q) PROVE HlsRunningIsOpen'
    <3>1. CASE HlsStartOK(q)
      BY <3>1 DEF HlsStartOK, HlsRunningIsOpen, HlsInv, HlsTypeOK
    <3>2. CASE ~HlsStartOK(q)
      BY <2>1, <2>4, <3>2
         DEF Touch, ServeHTTP, HlsFindStarted, HlsStartFails, HandOver, Handled
    <3> QED
      BY <3>1, <3>2
  <2>5. ASSUME NEW k \in HlsSessions, HlsLost(k) PROVE HlsRunningIsOpen'
    BY <2>5 DEF HlsLost, HlsRunningIsOpen, HlsInv, HlsTypeOK
  <2>6. ASSUME NEW k \in HlsSessions, HlsReads(k) \/ HlsWatches(k)
        PROVE  HlsRunningIsOpen'
    BY <2>1, <2>2, <2>6
       DEF HlsReads, HlsWaitReturns, HlsReadLoopCancelled, HlsReadLoopStops, HlsWatches,
           HlsWatchdogTicks, HlsWatchdogStops, HlsWatchdogCancelled
  <2> QED
    BY <2>3, <2>4, <2>5, <2>6 DEF HlsNext
<1> QED
  BY <1>1, <1>2, HlsInvariance, PTL DEF HlsSpec

(* started tells whether an upstream is open.                              *)
HlsUpIsStarted == HlsUpstreamOpen = hlsStarted

(* It does in every reachable state.                                       *)
LEMMA HlsUpInvariance == HlsSpec => []HlsUpIsStarted
<1>1. HlsInv /\ HlsRunningIsOpen => HlsUpIsStarted
  BY DEF HlsInv, HlsTypeOK, ContextInv, HlsNoOrphan, HlsRunningIsOpen, HlsUpIsStarted,
         HlsUpstreamOpen
<1> QED
  BY <1>1, HlsInvariance, HlsRunningInvariance, PTL

(* stopLocked leaves nobody in the hands of the muxer that runs.           *)
LEMMA HlsStopLockedLife ==
  ASSUME HlsInv, HlsUpIsStarted, HlsUpIsStarted', HlsStopLocked, UNCHANGED player
  PROVE  [HlsLife!Next]_(HlsLife!vars)
<1>1. CASE hlsStarted
  <2>1. HlsAttached' = {} /\ HlsUpstreamOpen /\ HlsUpstreamOpen' = FALSE
    BY <1>1 DEF HlsStopLocked, HlsUpIsStarted, HlsAttached
  <2> QED
    BY <2>1 DEF HlsLife!Next, HlsLife!Stop
<1>2. CASE ~hlsStarted
  BY <1>2 DEF HlsStopLocked, hlsState, HlsUpIsStarted, HlsAttached, HlsLife!vars
<1> QED
  BY <1>1, <1>2

(* A request opens the upstream, is handed to its muxer, is done, or does  *)
(* nothing that can be seen.  One that was handed to an earlier muxer is   *)
(* not taken over by the new one.                                          *)
LEMMA HlsServeLife ==
  ASSUME HlsInv, HlsUpIsStarted, HlsUpIsStarted', NEW q \in Players,
         Touch(q) \/ ServeHTTP(q)
  PROVE  [HlsLife!Next]_(HlsLife!vars)
<1>1. \A r \in Players : player[r].mux \in 0 .. hlsSession
  BY DEF HlsInv, HlsTypeOK
<1>2. ASSUME UNCHANGED hlsState, \A r \in Players \ {q} : player'[r] = player[r],
             player[q].at # "handled", player'[q].at # "handled"
      PROVE  [HlsLife!Next]_(HlsLife!vars)
  <2>1. HlsAttached' = HlsAttached
    BY <1>2 DEF hlsState, HlsAttached
  <2> QED
    BY <1>2, <2>1 DEF hlsState, HlsUpIsStarted, HlsLife!vars
<1>3. CASE Touch(q) \/ HlsFindStarted(q) \/ HlsStartFails(q)
  <2>1. player[q].at # "handled" /\ UNCHANGED hlsState
    BY <1>3 DEF Touch, HlsFindStarted, HlsStartFails, Away
  <2>2. player'[q].at # "handled" /\ \A r \in Players \ {q} : player'[r] = player[r]
    BY <1>3 DEF Touch, HlsFindStarted, HlsStartFails, Away, HlsInv, HlsTypeOK
  <2> QED
    BY <1>2, <2>1, <2>2
<1>4. CASE HlsStartOK(q)
  <2>1. /\ ~hlsStarted /\ hlsStarted' = TRUE /\ hlsMux' = hlsSession + 1
        /\ player' = [player EXCEPT ![q].at = "started"]
    BY <1>4 DEF HlsStartOK
  <2>2. HlsAttached = {}
    BY <2>1 DEF HlsInv, HlsTypeOK, HlsAttached
  <2>3. HlsAttached' = {}
    <3>1. \A r \in Players : player'[r].mux = player[r].mux
      BY <2>1 DEF HlsInv, HlsTypeOK
    <3>2. \A r \in Players : player'[r].mux # hlsMux'
      BY <1>1, <2>1, <3>1, HlsAssumption DEF HlsInv, HlsTypeOK
    <3>3. \A r \in HlsAttached' : r \in Players /\ player'[r].mux = hlsMux'
      BY DEF HlsAttached
    <3> QED
      BY <3>2, <3>3
  <2> QED
    BY <2>1, <2>2, <2>3 DEF HlsUpIsStarted, HlsLife!Next, HlsLife!Open
<1>5. CASE HandOver(q)
  <2>1. player[q].at = "started" /\ q \notin HlsAttached /\ UNCHANGED hlsState
    BY <1>5 DEF HandOver, HlsAttached
  <2>2. CASE hlsMux = 0
    <3>1. /\ player'[q].at # "handled"
          /\ \A r \in Players \ {q} : player'[r] = player[r]
      BY <1>5, <2>2 DEF HandOver, Away, HlsInv, HlsTypeOK
    <3> QED
      BY <1>2, <2>1, <3>1
  <2>3. CASE hlsMux # 0
    <3>1. player' = [player EXCEPT ![q] = [at |-> "handled", mux |-> hlsMux]]
      BY <1>5, <2>3 DEF HandOver
    <3>2. HlsAttached' = HlsAttached \cup {q}
      BY <2>1, <2>3, <3>1 DEF hlsState, HlsInv, HlsTypeOK, HlsAttached
    <3>3. HlsUpstreamOpen' = TRUE
      BY <2>1, <2>3 DEF hlsState, HlsInv, HlsTypeOK, HlsUpIsStarted
    <3> QED
      BY <2>1, <3>2, <3>3 DEF HlsLife!Next, HlsLife!Attach
  <2> QED
    BY <2>2, <2>3
<1>6. CASE Handled(q)
  <2>1. player' = [player EXCEPT ![q] = Away] /\ UNCHANGED hlsState
    BY <1>6 DEF Handled
  <2>2. HlsAttached' = HlsAttached \ {q} /\ HlsUpstreamOpen' = HlsUpstreamOpen
    BY <2>1 DEF Away, hlsState, HlsInv, HlsTypeOK, HlsUpIsStarted, HlsAttached
  <2>3. CASE q \in HlsAttached
    BY <2>2, <2>3 DEF HlsLife!Next, HlsLife!Leave
  <2>4. CASE q \notin HlsAttached
    BY <2>2, <2>4 DEF HlsLife!vars
  <2> QED
    BY <2>3, <2>4
<1> QED
  BY <1>3, <1>4, <1>5, <1>6 DEF ServeHTTP

(* A step of the muxer is a step of MuxerLife, or changes nothing it sees. *)
LEMMA HlsStepLife ==
  HlsInv /\ HlsUpIsStarted /\ HlsUpIsStarted' /\ [HlsNext]_hlsVars
    => [HlsLife!Next]_(HlsLife!vars)
<1> SUFFICES ASSUME HlsInv, HlsUpIsStarted, HlsUpIsStarted', [HlsNext]_hlsVars
             PROVE  [HlsLife!Next]_(HlsLife!vars)
  OBVIOUS
<1>1. ASSUME UNCHANGED <<hlsStarted, hlsMux, player>>
      PROVE  [HlsLife!Next]_(HlsLife!vars)
  BY <1>1 DEF HlsUpIsStarted, HlsAttached, HlsLife!vars
<1>2. CASE HlsClose \/ HlsTimePasses \/ UNCHANGED hlsVars
  BY <1>1, <1>2, HlsStopLockedLife DEF HlsClose, HlsTimePasses, hlsVars, hlsState
<1>3. ASSUME NEW q \in Players, Touch(q) \/ ServeHTTP(q)
      PROVE  [HlsLife!Next]_(HlsLife!vars)
  BY <1>3, HlsServeLife
<1>4. ASSUME NEW k \in HlsSessions, HlsLost(k) \/ HlsReads(k) \/ HlsWatches(k)
      PROVE  [HlsLife!Next]_(HlsLife!vars)
  <2>1. CASE HlsStopLocked /\ UNCHANGED player
    BY <2>1, HlsStopLockedLife
  <2>2. CASE ~(HlsStopLocked /\ UNCHANGED player)
    BY <1>1, <1>4, <2>2
       DEF HlsLost, HlsReads, HlsWaitReturns, HlsReadLoopCancelled, HlsReadLoopStops,
           HlsWatches, HlsWatchdogTicks, HlsWatchdogStops, HlsWatchdogCancelled, hlsState
  <2> QED
    BY <2>1, <2>2
<1> QED
  BY <1>2, <1>3, <1>4 DEF HlsNext

-----------------------------------------------------------------------------
(* The timestamps.                                                         *)

(* What a division by Wrap leaves.                                        *)
LEMMA Remainder ==
  ASSUME NEW a \in Int
  PROVE  /\ a % Wrap \in 0 .. Wrap - 1
         /\ \E q \in Int : a = q * Wrap + (a % Wrap)
<1>1. Wrap \in Nat /\ Wrap > 1
  BY TimelineAssumption
<1>2. a % Wrap \in 0 .. Wrap - 1
  BY <1>1
<1>3. a \div Wrap \in Int /\ a = (a \div Wrap) * Wrap + (a % Wrap)
  BY <1>1
<1> QED
  BY <1>2, <1>3

(* There is one way to write a number as a multiple of Wrap and a rest.    *)
LEMMA RemainderUnique ==
  ASSUME NEW q \in Int, NEW r \in 0 .. Wrap - 1
  PROVE  (q * Wrap + r) % Wrap = r
BY TimelineAssumption

(* Delta is the true difference when that is less than half of Wrap. *)
LEMMA DeltaIsGap ==
  ASSUME NEW t \in Int, NEW u \in Int, Straight(t - u)
  PROVE  Delta(t % Wrap, u % Wrap) = t - u
<1> DEFINE r == t % Wrap
           s == u % Wrap
           gap == t - u
<1>1. Wrap \in Nat /\ Wrap > 1
  BY TimelineAssumption
<1>2. PICK p \in Int : t = p * Wrap + r
  BY Remainder
<1>3. PICK q \in Int : u = q * Wrap + s
  BY Remainder
<1>4. r \in 0 .. Wrap - 1 /\ s \in 0 .. Wrap - 1
  BY Remainder
<1>5. gap \in 0 .. Wrap - 1 /\ 2 * gap < Wrap
  BY <1>1 DEF Straight
<1> HIDE DEF r, s
<1>6. r - s = (q - p) * Wrap + gap
  BY <1>1, <1>2, <1>3, <1>4
<1>7. (r - s) % Wrap = gap
  BY <1>1, <1>5, <1>6, RemainderUnique
<1> QED
  BY <1>5, <1>7 DEF Delta, r, s

(* The difference of two timestamps is a number, of either sign.           *)
LEMMA DeltaType ==
  ASSUME NEW r \in 0 .. Wrap - 1, NEW s \in 0 .. Wrap - 1
  PROVE  Delta(r, s) \in Int
<1>1. Wrap \in Nat /\ Wrap > 1 /\ r - s \in Int
  BY TimelineAssumption
<1>2. (r - s) % Wrap \in 0 .. Wrap - 1
  BY <1>1, Remainder
<1> QED
  BY <1>1, <1>2 DEF Delta

(* What the division by Rate drops is less than Rate.                      *)
LEMMA Truncation ==
  ASSUME NEW a \in Nat
  PROVE  /\ a \div Rate \in Nat
         /\ a - (a \div Rate) * Rate \in 0 .. Rate - 1
<1>1. Rate \in Nat \ {0}
  BY TimelineAssumption
<1>2. a \div Rate \in Int /\ a = (a \div Rate) * Rate + (a % Rate)
      /\ a % Rate \in 0 .. Rate - 1
  BY <1>1
<1>3. a \div Rate >= 0
  BY <1>1
<1> QED
  BY <1>1, <1>2, <1>3

(* A sample of d ticks leaves the sum behind by less than Rate more.       *)
LEMMA LagGrows ==
  ASSUME NEW d \in Nat, NEW elapsed \in Int, NEW sum \in Int, NEW samples \in Nat,
         elapsed * Second - sum * Rate \in 0 .. (samples - 1) * (Rate - 1)
  PROVE  (elapsed + d) * Second - (sum + (d * Second) \div Rate) * Rate
           \in 0 .. samples * (Rate - 1)
<1> DEFINE q == (d * Second) \div Rate
<1>1. Rate \in Nat \ {0} /\ Second \in Nat \ {0}
  BY TimelineAssumption
<1>2. d * Second \in Nat
  BY <1>1
<1>3. q \in Nat /\ d * Second - q * Rate \in 0 .. Rate - 1
  BY <1>2, Truncation
<1> HIDE DEF q
<1>4. (elapsed + d) * Second - (sum + q) * Rate
        = (elapsed * Second - sum * Rate) + (d * Second - q * Rate)
  BY <1>1, <1>3
<1>5. samples * (Rate - 1) = (samples - 1) * (Rate - 1) + (Rate - 1)
  BY <1>1
<1>6. (samples - 1) * (Rate - 1) \in Int /\ samples * (Rate - 1) \in Int
  BY <1>1
<1>7. elapsed * Second - sum * Rate \in Int /\ d * Second - q * Rate \in Int
  BY <1>1, <1>3
<1> QED
  BY <1>1, <1>3, <1>4, <1>5, <1>6, <1>7 DEF q

(* The callbacks have seen the last access unit, and runDemux the one it   *)
(* took last; what it has buffered is that one, once it buffers at all.    *)
(* Nothing has been counted before the first.                              *)
ClockInv ==
  /\ hlsClock.have <=> rtspClock.have
  /\ hlsClock.have => hlsClock.lastRaw = sentAt % Wrap
  /\ rtspClock.have => rtspClock.lastTS = sentAt % Wrap
  /\ demuxClock.have => demuxClock.lastRaw = demuxClock.seen % Wrap
  /\ ~hlsClock.have => hlsClock.pts = 0
  /\ ~rtspClock.have => rtspClock.total = 0
  /\ demuxClock.pending => /\ demuxClock.have
                           /\ demuxClock.initBuilt
                           /\ demuxClock.pendingPTS = demuxClock.pts
                           /\ demuxClock.bufferedAt = demuxClock.seen

(* The inductive invariant: the locals agree with the camera.              *)
TimelineInv == TimelineTypeOK /\ ClockInv /\ KeepsCameraTime

(* It holds before the first access unit.                                  *)
LEMMA TimelineInitInv == TimelineInit => TimelineInv
BY TimelineAssumption
   DEF TimelineInit, TimelineInv, TimelineTypeOK, ClockInv, KeepsCameraTime

(* The two callbacks, which see every access unit.                         *)
LEMMA CallbackInv ==
  ASSUME TimelineInv, NEW gap \in Gaps, NEW room \in BOOLEAN,
         NEW paramSets \in BOOLEAN, Unit(gap, room, paramSets)
  PROVE  /\ hlsClock' \in [have : BOOLEAN, lastRaw : 0 .. Wrap - 1, pts : Int,
                           first : Nat]
         /\ rtspClock' \in [have : BOOLEAN, lastTS : 0 .. Wrap - 1, total : Nat,
                            first : Nat]
         /\ hlsClock'.have /\ rtspClock'.have
         /\ hlsClock'.lastRaw = sentAt' % Wrap
         /\ rtspClock'.lastTS = sentAt' % Wrap
         /\ "hls" \in straight' => hlsClock'.pts = sentAt' - hlsClock'.first
         /\ "rtsp" \in straight' => SampleLag' \in 0 .. (units' - 1) * (Rate - 1)
<1> DEFINE t == sentAt'
           ts == t % Wrap
<1>1. gap \in Int /\ t = sentAt + gap /\ t \in Nat /\ sentAt \in Nat
  BY TimelineAssumption DEF Unit, TimelineInv, TimelineTypeOK
<1>2. ts \in 0 .. Wrap - 1
  BY <1>1, Remainder
<1>3. /\ hlsClock \in [have : BOOLEAN, lastRaw : 0 .. Wrap - 1, pts : Int,
                       first : Nat]
      /\ rtspClock \in [have : BOOLEAN, lastTS : 0 .. Wrap - 1, total : Nat,
                        first : Nat]
  BY DEF TimelineInv, TimelineTypeOK
<1>4. HlsUnit(t) /\ RtspUnit(t)
  BY DEF Unit
<1>5. SampleFallback \in Nat /\ Rate \in Nat \ {0} /\ Second \in Nat \ {0}
      /\ units \in Nat /\ units' = units + 1
  BY TimelineAssumption DEF Unit, TimelineInv, TimelineTypeOK
<1> HIDE DEF ts
<1>6. CASE ~hlsClock.have
  <2>1. ~rtspClock.have /\ hlsClock.pts = 0 /\ rtspClock.total = 0
    BY <1>6 DEF TimelineInv, ClockInv
  <2>2. hlsClock' = [have |-> TRUE, lastRaw |-> ts, pts |-> 0, first |-> t]
    BY <1>3, <1>4, <1>6, <2>1 DEF HlsUnit, ts
  <2>3. rtspClock' = [have |-> TRUE, lastTS |-> ts, total |-> SampleFallback,
                      first |-> t]
    BY <1>3, <1>4, <1>5, <2>1 DEF RtspUnit, SampleDuration, ts
  <2>4. SampleLag' = 0
    BY <1>1, <1>5, <2>3 DEF SampleLag
  <2>5. (units' - 1) * (Rate - 1) \in Nat
    BY <1>5
  <2> QED
    BY <1>1, <1>2, <1>5, <2>2, <2>3, <2>4, <2>5 DEF ts
<1>7. CASE hlsClock.have
  <2> DEFINE d == Delta(ts, sentAt % Wrap)
             dur == IF d > 0 THEN (d * Second) \div Rate ELSE SampleFallback
  <2>1. rtspClock.have /\ hlsClock.lastRaw = sentAt % Wrap
        /\ rtspClock.lastTS = sentAt % Wrap
    BY <1>7 DEF TimelineInv, ClockInv
  <2>2. d \in Int
    BY <1>1, <1>2, Remainder, DeltaType
  <2>3. hlsClock' = [have |-> TRUE, lastRaw |-> ts, pts |-> hlsClock.pts + d,
                     first |-> hlsClock.first]
    BY <1>3, <1>4, <1>7, <2>1 DEF HlsUnit, ts
  <2>4. rtspClock' = [have |-> TRUE, lastTS |-> ts,
                      total |-> rtspClock.total + dur,
                      first |-> rtspClock.first]
    BY <1>3, <1>4, <2>1 DEF RtspUnit, SampleDuration, ts
  <2>5. "hls" \in straight' \/ "rtsp" \in straight' => Straight(gap)
    BY <1>7 DEF Unit
  <2>6. Straight(gap) => d = gap
    <3>1. t - sentAt = gap
      BY <1>1
    <3> QED
      BY <1>1, <3>1, DeltaIsGap DEF ts
  <2>7. "hls" \in straight' => hlsClock.pts = sentAt - hlsClock.first
    BY <1>7 DEF Unit, TimelineInv, KeepsCameraTime
  <2>8. "rtsp" \in straight' => SampleLag \in 0 .. (units - 1) * (Rate - 1)
    BY <2>1 DEF Unit, TimelineInv, KeepsCameraTime
  <2>9. Straight(gap) => gap > 0
    BY <1>1 DEF Straight
  <2> HIDE DEF d
  <2>a. dur \in Nat
    <3>1. CASE d > 0
      <4>1. d * Second \in Nat
        BY <1>5, <2>2, <3>1
      <4> QED
        BY <3>1, <4>1, Truncation
    <3> QED
      BY <1>5, <3>1
  <2> HIDE DEF dur
  <2>10. /\ hlsClock' \in [have : BOOLEAN, lastRaw : 0 .. Wrap - 1, pts : Int,
                           first : Nat]
         /\ rtspClock' \in [have : BOOLEAN, lastTS : 0 .. Wrap - 1, total : Nat,
                            first : Nat]
    BY <1>2, <1>3, <2>2, <2>3, <2>4, <2>a
  <2>11. "hls" \in straight' => hlsClock'.pts = sentAt' - hlsClock'.first
    BY <1>1, <1>3, <2>3, <2>5, <2>6, <2>7
  <2>12. "rtsp" \in straight' => SampleLag' \in 0 .. (units' - 1) * (Rate - 1)
    <3> DEFINE elapsed == sentAt - rtspClock.first
               sum == rtspClock.total - SampleFallback
    <3>1. SUFFICES ASSUME "rtsp" \in straight'
                   PROVE  SampleLag' \in 0 .. (units' - 1) * (Rate - 1)
      OBVIOUS
    <3>2. d = gap /\ gap > 0 /\ d \in Nat
      BY <1>1, <2>5, <2>6, <2>9, <3>1
    <3>3. dur = (d * Second) \div Rate
      BY <3>2 DEF dur
    <3>4. elapsed \in Int /\ sum \in Int
      BY <1>1, <1>3, <1>5
    <3>5. elapsed * Second - sum * Rate \in 0 .. (units - 1) * (Rate - 1)
      BY <2>8, <3>1 DEF SampleLag
    <3>6. sentAt' - rtspClock'.first = elapsed + d
      BY <1>1, <1>3, <2>4, <3>2
    <3>7. rtspClock'.total - SampleFallback = sum + dur
      BY <1>3, <1>5, <2>4, <2>a
    <3>8. SampleLag' = (elapsed + d) * Second - (sum + dur) * Rate
      BY <3>6, <3>7 DEF SampleLag
    <3> HIDE DEF elapsed, sum
    <3>9. (elapsed + d) * Second - (sum + (d * Second) \div Rate) * Rate
            \in 0 .. units * (Rate - 1)
      BY <1>5, <3>2, <3>4, <3>5, LagGrows
    <3>10. units' - 1 = units
      BY <1>5
    <3> QED
      BY <3>3, <3>8, <3>9, <3>10
  <2> QED
    BY <2>3, <2>4, <2>10, <2>11, <2>12 DEF ts
<1> QED
  BY <1>6, <1>7

(* What it says of the locals of runDemux.                                 *)
DemuxClocks ==
  [have : BOOLEAN, lastRaw : 0 .. Wrap - 1, pts : Int, seen : Nat,
   initBuilt : BOOLEAN, pending : BOOLEAN, pendingPTS : Int, baseTime : Nat,
   first : Nat, bufferedAt : Nat]

DemuxInv ==
  /\ demuxClock \in DemuxClocks
  /\ demuxClock.baseTime > 0 => demuxClock.pending /\ demuxClock.initBuilt
  /\ demuxClock.have => demuxClock.lastRaw = demuxClock.seen % Wrap
  /\ demuxClock.pending => /\ demuxClock.have
                           /\ demuxClock.initBuilt
                           /\ demuxClock.pendingPTS = demuxClock.pts
                           /\ demuxClock.bufferedAt = demuxClock.seen
  /\ "demux" \in straight /\ demuxClock.pending =>
       demuxClock.baseTime = demuxClock.bufferedAt - demuxClock.first

(* runDemux takes an access unit.                                          *)
LEMMA DemuxUnitInv ==
  ASSUME DemuxInv, NEW t \in Nat, NEW paramSets \in BOOLEAN,
         DemuxUnit(t, paramSets), straight' \subseteq straight,
         "demux" \in straight' /\ demuxClock.have => Straight(t - demuxClock.seen)
  PROVE  DemuxInv'
<1> DEFINE ts == t % Wrap
           d == IF demuxClock.have THEN Delta(ts, demuxClock.lastRaw) ELSE 0
           pts == demuxClock.pts + d
           step == IF d <= 0 THEN MuxFallback ELSE d
<1>1. ts \in 0 .. Wrap - 1
  BY Remainder
<1>2. demuxClock \in DemuxClocks
  BY DEF DemuxInv
<1>3. d \in Int /\ pts \in Int
  BY <1>1, <1>2, DeltaType DEF DemuxClocks
<1>4. MuxFallback \in Nat
  BY TimelineAssumption
<1>5. "demux" \in straight' /\ demuxClock.have =>
        d = t - demuxClock.seen /\ d > 0
  <2>1. SUFFICES ASSUME "demux" \in straight', demuxClock.have
                 PROVE  d = t - demuxClock.seen /\ d > 0
    OBVIOUS
  <2>2. Straight(t - demuxClock.seen) /\ demuxClock.seen \in Nat
    BY <1>2, <2>1 DEF DemuxClocks
  <2>3. demuxClock.lastRaw = demuxClock.seen % Wrap
    BY <2>1 DEF DemuxInv
  <2>4. d = t - demuxClock.seen
    BY <2>1, <2>2, <2>3, DeltaIsGap
  <2>5. t - demuxClock.seen > 0
    BY <2>2 DEF Straight
  <2> QED
    BY <2>4, <2>5
<1> HIDE DEF ts, d
<1>6. CASE ~(demuxClock.initBuilt \/ paramSets)
  <2>1. demuxClock' = [demuxClock EXCEPT !.have = TRUE, !.lastRaw = ts,
                                         !.pts = pts, !.seen = t]
    BY <1>6 DEF DemuxUnit, ts, d
  <2>2. ~demuxClock.pending
    BY <1>6 DEF DemuxInv
  <2>3. demuxClock' \in DemuxClocks
    BY <1>1, <1>2, <1>3, <2>1 DEF DemuxClocks
  <2>4. demuxClock'.lastRaw = ts /\ demuxClock'.seen = t
        /\ demuxClock'.pending = demuxClock.pending
        /\ demuxClock'.baseTime = demuxClock.baseTime
    BY <1>2, <2>1 DEF DemuxClocks
  <2> QED
    BY <2>2, <2>3, <2>4 DEF DemuxInv, ts
<1>7. CASE (demuxClock.initBuilt \/ paramSets) /\ ~demuxClock.pending
  <2>1. demuxClock' = [demuxClock EXCEPT !.have = TRUE, !.lastRaw = ts,
                         !.pts = pts, !.seen = t, !.initBuilt = TRUE,
                         !.pending = TRUE, !.pendingPTS = pts, !.bufferedAt = t,
                         !.first = t]
    BY <1>2, <1>7 DEF DemuxUnit, DemuxClocks, ts, d
  <2>2. demuxClock.baseTime = 0
    BY <1>2, <1>7 DEF DemuxInv, DemuxClocks
  <2>3. demuxClock' \in DemuxClocks
    BY <1>1, <1>2, <1>3, <2>1 DEF DemuxClocks
  <2>4. demuxClock'.have /\ demuxClock'.initBuilt /\ demuxClock'.pending
        /\ demuxClock'.lastRaw = ts /\ demuxClock'.seen = t
        /\ demuxClock'.pts = pts /\ demuxClock'.pendingPTS = pts
        /\ demuxClock'.bufferedAt = t /\ demuxClock'.first = t
        /\ demuxClock'.baseTime = 0
    BY <1>2, <2>1, <2>2 DEF DemuxClocks
  <2> QED
    BY <2>3, <2>4 DEF DemuxInv, ts
<1>8. CASE demuxClock.pending
  <2>1. demuxClock.have /\ demuxClock.initBuilt
        /\ demuxClock.pendingPTS = demuxClock.pts
        /\ demuxClock.bufferedAt = demuxClock.seen
    BY <1>8 DEF DemuxInv
  <2>2. pts - demuxClock.pendingPTS = d
    BY <1>2, <1>3, <2>1 DEF DemuxClocks
  <2>3. demuxClock' = [demuxClock EXCEPT !.have = TRUE, !.lastRaw = ts,
                         !.pts = pts, !.seen = t, !.initBuilt = TRUE,
                         !.pending = TRUE, !.pendingPTS = pts, !.bufferedAt = t,
                         !.baseTime = demuxClock.baseTime + step]
    BY <1>2, <1>8, <2>1, <2>2 DEF DemuxUnit, DemuxClocks, ts, d
  <2>4. step \in Nat
    BY <1>3, <1>4
  <2>5. demuxClock' \in DemuxClocks
    <3>1. demuxClock.baseTime + step \in Nat
      BY <1>2, <2>4 DEF DemuxClocks
    <3> HIDE DEF step, pts
    <3> QED
      BY <1>1, <1>2, <1>3, <2>3, <3>1 DEF DemuxClocks
  <2>6. demuxClock'.have /\ demuxClock'.initBuilt /\ demuxClock'.pending
        /\ demuxClock'.lastRaw = ts /\ demuxClock'.seen = t
        /\ demuxClock'.pts = pts /\ demuxClock'.pendingPTS = pts
        /\ demuxClock'.bufferedAt = t /\ demuxClock'.first = demuxClock.first
        /\ demuxClock'.baseTime = demuxClock.baseTime + step
    BY <1>2, <2>3 DEF DemuxClocks
  <2>7. "demux" \in straight' => demuxClock'.baseTime = t - demuxClock.first
    <3>1. SUFFICES ASSUME "demux" \in straight'
                   PROVE  demuxClock'.baseTime = t - demuxClock.first
      OBVIOUS
    <3>2. demuxClock.baseTime = demuxClock.seen - demuxClock.first
      BY <1>8, <2>1, <3>1 DEF DemuxInv
    <3>3. step = t - demuxClock.seen
      BY <1>3, <1>5, <2>1, <3>1
    <3>4. demuxClock.seen \in Nat /\ demuxClock.first \in Nat
      BY <1>2 DEF DemuxClocks
    <3> QED
      BY <2>6, <3>2, <3>3, <3>4
  <2> QED
    BY <2>5, <2>6, <2>7 DEF DemuxInv, ts
<1> QED
  BY <1>6, <1>7, <1>8

(* An access unit reaches the callbacks, and runDemux if there is room.    *)
LEMMA TimelineNextInv == TimelineInv /\ [TimelineNext]_timelineVars => TimelineInv'
<1> SUFFICES ASSUME TimelineInv, [TimelineNext]_timelineVars PROVE TimelineInv'
  OBVIOUS
<1>1. CASE UNCHANGED timelineVars
  BY <1>1 DEF timelineVars, TimelineInv, TimelineTypeOK, ClockInv, KeepsCameraTime,
              SampleLag
<1>2. ASSUME NEW gap \in Gaps, NEW room \in BOOLEAN, NEW paramSets \in BOOLEAN,
             Unit(gap, room, paramSets)
      PROVE  TimelineInv'
  <2>1. units' \in 0 .. MaxUnits /\ sentAt' \in Nat /\ straight' \subseteq straight
    BY <1>2, TimelineAssumption DEF Unit, TimelineInv, TimelineTypeOK
  <2>2. DemuxInv
    BY DEF TimelineInv, TimelineTypeOK, ClockInv, KeepsCameraTime, DemuxInv, DemuxClocks
  <2>3. DemuxInv'
    <3>1. CASE room
      <4>1. "demux" \in straight' /\ demuxClock.have => Straight(sentAt' - demuxClock.seen)
        BY <1>2, <3>1 DEF Unit
      <4> QED
        BY <1>2, <2>1, <2>2, <3>1, <4>1, DemuxUnitInv DEF Unit
    <3>2. CASE ~room
      <4>1. demuxClock' = demuxClock
        BY <1>2, <3>2 DEF Unit
      <4> QED
        BY <2>1, <2>2, <4>1 DEF DemuxInv
    <3> QED
      BY <3>1, <3>2
  <2>4. TimelineTypeOK'
    BY <1>2, <2>1, <2>3, CallbackInv
       DEF TimelineTypeOK, TimelineInv, DemuxInv, DemuxClocks
  <2>5. ClockInv' /\ KeepsCameraTime'
    BY <1>2, <2>3, CallbackInv DEF ClockInv, KeepsCameraTime, DemuxInv
  <2> QED
    BY <2>4, <2>5 DEF TimelineInv
<1> QED
  BY <1>1, <1>2 DEF TimelineNext

(* It holds whatever the camera sends.                                     *)
LEMMA TimelineInvariance == TimelineSpec => []TimelineInv
BY TimelineInitInv, TimelineNextInv, PTL DEF TimelineSpec

-----------------------------------------------------------------------------
(* The three modules side by side.                                         *)

(* The inductive invariants of the three hold together.                    *)
LEMMA SumInvariance == RtspSpec => [](IInv /\ HlsInv /\ TimelineInv)
<1>1. RtspInit => IInv /\ HlsInv /\ TimelineInv
  BY InitIInv, HlsInitInv, TimelineInitInv DEF RtspInit
<1>2. ASSUME IInv, HlsInv, TimelineInv,
             [RtspNext]_<<vars, hlsVars, timelineVars, subject>>
      PROVE  IInv' /\ HlsInv' /\ TimelineInv'
  <2>1. [Next]_vars /\ [HlsNext]_hlsVars /\ [TimelineNext]_timelineVars
    BY <1>2 DEF RtspNext
  <2> QED
    BY <1>2, <2>1, NextIInv, HlsNextInv, TimelineNextInv
<1> QED
  BY <1>1, <1>2, PTL DEF RtspSpec

(* Types, for any sessions, players and timestamps; no loop of a producer  *)
(* waits for a nil client, and while an HLS session runs its muxer is the  *)
(* one that requests are handed to.                                        *)
THEOREM TypeCorrect == RtspSpec => []RtspTypeOK
<1>1. IInv /\ HlsInv /\ TimelineInv => RtspTypeOK
  BY DEF IInv, HlsInv, TimelineInv, RtspTypeOK
<1> QED
  BY <1>1, SumInvariance, PTL

(* No RTSP session is left open by itself: not by a producer, for any      *)
(* number of loops of earlier runs, which may dial and install at any      *)
(* time, and not by an HLS muxer, whose earlier read loops and watchdogs   *)
(* may stop the later session.                                             *)
THEOREM NoOrphans == RtspSpec => []EverySessionOwned
<1>1. IInv /\ HlsInv => EverySessionOwned
  BY DEF IInv, HlsInv, EverySessionOwned
<1> QED
  BY <1>1, SumInvariance, PTL

(* The reconnect loop does not give up while the Producer is wanted, for   *)
(* any number of restarts.                                                 *)
THEOREM LoopRuns == Spec => []LoopRunsWhileWanted
<1>1. IInv => LoopRunsWhileWanted
  BY DEF IInv
<1> QED
  BY <1>1, Invariance, PTL

(* However often the timestamps wrap, for any range of them and any gaps,  *)
(* the two muxers keep the camera's time exactly, and the sample durations *)
(* keep it to less than a unit of time.Duration per sample, as long as     *)
(* what they see moves forward by less than half of the range.             *)
THEOREM KeepsTime == TimelineSpec => []KeepsCameraTime
<1>1. TimelineInv => KeepsCameraTime
  BY DEF TimelineInv
<1> QED
  BY <1>1, TimelineInvariance, PTL

(* For any players and sessions the HLS muxer is what the Server takes it  *)
(* for: one upstream, requests in its hands only while it is open, and     *)
(* none that goes over from the muxer of one session to that of the next.  *)
THEOREM HlsRefinesMuxerLife == HlsSpec => HlsLife!Spec
<1>1. HlsInit => HlsLife!Init
  BY DEF HlsInit, HlsUpstreamOpen, HlsAttached, HlsLife!Init
<1> QED
  BY <1>1, HlsStepLife, HlsInvariance, HlsUpInvariance, PTL DEF HlsSpec, HlsLife!Spec

=============================================================================
