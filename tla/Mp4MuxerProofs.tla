--------------------------- MODULE Mp4MuxerProofs ---------------------------
(***************************************************************************)
(* Proofs about module Mp4Muxer, for any requests, any number of upstream  *)
(* sessions and any capacity of the channels.                              *)
(***************************************************************************)
EXTENDS Mp4Muxer, SequenceTheorems, TLAPS

(* Only the session that runs has a demux goroutine that is not cancelled, *)
(* and the init segment is of that session.                                *)
SessionInv ==
  /\ started => mp4Session \in Sessions
  /\ \A k \in Sessions : mp4Session < k => ~mp4Cancelled[k] /\ demux[k] = "none"
  /\ \A k \in Sessions : demux[k] # "none" /\ ~mp4Cancelled[k] => started /\ k = mp4Session
  /\ initBytes # 0 => started /\ initBytes = mp4Session

(* A request that is not, or no longer, a subscriber has received nothing. *)
RequestInv ==
  \A v \in Requests : at[v] \in {"none", "arrived", "started", "gone"} =>
    v \notin subs /\ queue[v] = <<>> /\ got[v] = 0 /\ ~chClosed[v]

IInv == /\ Mp4TypeOK /\ SessionInv /\ RequestInv
        /\ SubscribersOfTheRunningSession /\ NothingFromAnEarlierSession

Places == {"none", "arrived", "started", "waiting", "streaming", "gone"}

(* The inductive invariant holds initially.                                *)
LEMMA InitIInv == Mp4Init => IInv
<1> SUFFICES ASSUME Mp4Init PROVE IInv
  OBVIOUS
<1>1. Mp4TypeOK
  <2>1. \A v \in Requests : Len(queue[v]) <= SubChanCap
    <3>1. Len(<<>>) = 0 /\ 0 <= SubChanCap
      BY Mp4Assumption
    <3>2. \A v \in Requests : queue[v] = <<>>
      BY DEF Mp4Init
    <3> QED
      BY <3>1, <3>2
  <2>2. mp4Session \in 0 .. MaxSessions /\ initBytes \in 0 .. mp4Session
    BY Mp4Assumption DEF Mp4Init
  <2>3. queue \in [Requests -> Seq(1 .. mp4Session)]
    BY DEF Mp4Init
  <2>4. joined \in [Requests -> 0 .. mp4Session] /\ got \in [Requests -> 0 .. mp4Session]
    BY DEF Mp4Init
  <2> QED
    BY <2>1, <2>2, <2>3, <2>4 DEF Mp4Init, Mp4TypeOK
<1>2. SessionInv
  BY DEF Mp4Init, SessionInv
<1>3. RequestInv /\ SubscribersOfTheRunningSession
  BY DEF Mp4Init, RequestInv, SubscribersOfTheRunningSession
<1>4. NothingFromAnEarlierSession
  <2>1. 1 .. Len(<<>>) = {}
    OBVIOUS
  <2>2. \A v \in Requests : queue[v] = <<>> /\ got[v] = 0
    BY DEF Mp4Init
  <2> QED
    BY <2>1, <2>2 DEF NothingFromAnEarlierSession
<1> QED
  BY <1>1, <1>2, <1>3, <1>4 DEF IInv

-----------------------------------------------------------------------------
(* Steps that concern only the upstream and the goroutines that watch it.  *)
LEMMA QuietIInv ==
  ASSUME IInv, UNCHANGED <<muxer, subs, mp4Cancelled, demux, request>>,
         idle' \in BOOLEAN,
         upstream' \in [Sessions -> {"none", "live", "lost", "closed"}],
         readLoop' \in [Sessions -> {"none", "wait", "ended", "done"}],
         watchdog' \in [Sessions -> {"none", "tick", "age", "stopping", "done"}]
  PROVE  IInv'
<1>1. Mp4TypeOK'
  BY DEF IInv, Mp4TypeOK, muxer, request
<1>2. SessionInv' /\ RequestInv'
  BY DEF IInv, SessionInv, RequestInv, muxer, request
<1>3. SubscribersOfTheRunningSession' /\ NothingFromAnEarlierSession'
  BY DEF IInv, SubscribersOfTheRunningSession, NothingFromAnEarlierSession, muxer,
         request
<1> QED
  BY <1>1, <1>2, <1>3 DEF IInv

(* stopLocked: the demux goroutine is cancelled, and nobody is subscribed. *)
LEMMA StopLockedIInv ==
  ASSUME IInv, stopLocked, UNCHANGED <<mp4Session, idle, demux, at, joined, got, queue>>,
         readLoop' \in [Sessions -> {"none", "wait", "ended", "done"}],
         watchdog' \in [Sessions -> {"none", "tick", "age", "stopping", "done"}]
  PROVE  IInv'
<1>1. CASE started
  <2>1. /\ mp4Cancelled' = [mp4Cancelled EXCEPT ![mp4Session] = TRUE]
        /\ upstream' = [upstream EXCEPT ![mp4Session] = "closed"]
        /\ chClosed' = [v \in Requests |-> chClosed[v] \/ v \in subs]
        /\ subs' = {} /\ initBytes' = 0 /\ started' = FALSE
    BY <1>1 DEF stopLocked
  <2>2. Mp4TypeOK'
    <3>1. chClosed' \in [Requests -> BOOLEAN]
      BY <2>1
    <3>2. initBytes' \in 0 .. mp4Session
      BY <2>1 DEF IInv, Mp4TypeOK
    <3>3. mp4Cancelled' \in [Sessions -> BOOLEAN]
      BY <2>1 DEF IInv, Mp4TypeOK
    <3> QED
      BY <2>1, <3>1, <3>2, <3>3 DEF IInv, Mp4TypeOK
  <2>3. SessionInv'
    BY <1>1, <2>1 DEF IInv, Mp4TypeOK, SessionInv, Sessions
  <2>4. RequestInv'
    BY <2>1 DEF IInv, RequestInv
  <2>5. SubscribersOfTheRunningSession' /\ NothingFromAnEarlierSession'
    BY <2>1 DEF IInv, SubscribersOfTheRunningSession, NothingFromAnEarlierSession
  <2> QED
    BY <2>2, <2>3, <2>4, <2>5 DEF IInv
<1>2. CASE ~started
  BY <1>2, QuietIInv DEF stopLocked, IInv, Mp4TypeOK, muxer, request
<1> QED
  BY <1>1, <1>2

(* The Server, the clock, the read loop and the watchdog.                  *)
LEMMA WatchIInv ==
  ASSUME IInv,
         \/ Close \/ TimePasses
         \/ \E k \in Sessions : Lost(k) \/ ReadLoop(k) \/ Watchdog(k)
  PROVE  IInv'
<1>1. CASE Close
  BY <1>1, StopLockedIInv DEF Close, IInv, Mp4TypeOK, goroutines
<1>2. CASE TimePasses
  BY <1>2, QuietIInv DEF TimePasses, IInv, Mp4TypeOK, goroutines
<1>3. ASSUME NEW k \in Sessions, Lost(k) PROVE IInv'
  BY <1>3, QuietIInv DEF Lost, IInv, Mp4TypeOK, goroutines
<1>4. ASSUME NEW k \in Sessions, WaitReturns(k) \/ ReadLoopCancelled(k) PROVE IInv'
  BY <1>4, QuietIInv DEF WaitReturns, ReadLoopCancelled, IInv, Mp4TypeOK
<1>5. ASSUME NEW k \in Sessions, ReadLoopStops(k) PROVE IInv'
  BY <1>5, StopLockedIInv DEF ReadLoopStops, IInv, Mp4TypeOK
<1>6. ASSUME NEW k \in Sessions,
             WatchdogTicks(k) \/ WatchdogLooks(k) \/ WatchdogCancelled(k)
      PROVE  IInv'
  BY <1>6, QuietIInv DEF WatchdogTicks, WatchdogLooks, WatchdogCancelled, IInv, Mp4TypeOK
<1>7. ASSUME NEW k \in Sessions, WatchdogStops(k) PROVE IInv'
  <2>1. /\ watchdog' \in [Sessions -> {"none", "tick", "age", "stopping", "done"}]
        /\ readLoop' \in [Sessions -> {"none", "wait", "ended", "done"}]
    BY <1>7 DEF WatchdogStops, IInv, Mp4TypeOK
  <2>2. CASE started /\ subs = {} /\ idle
    BY <1>7, <2>1, <2>2, StopLockedIInv DEF WatchdogStops
  <2>3. CASE ~(started /\ subs = {} /\ idle)
    BY <1>7, <2>1, <2>3, QuietIInv
       DEF WatchdogStops, IInv, Mp4TypeOK, muxer, request
  <2> QED
    BY <2>2, <2>3
<1> QED
  BY <1>1, <1>2, <1>3, <1>4, <1>5, <1>6, <1>7 DEF ReadLoop, Watchdog

-----------------------------------------------------------------------------
(* A longer range of sessions has all the fragments of a shorter one.      *)
LEMMA SeqOfMore ==
  ASSUME NEW m \in Nat, NEW n \in Nat, m <= n, NEW s \in Seq(1 .. m)
  PROVE  s \in Seq(1 .. n)
<1>1. \A i \in 1 .. Len(s) : s[i] \in 1 .. n
  OBVIOUS
<1> QED
  BY <1>1

(* A request that is not, and does not become, a subscriber.               *)
LEMMA ComeIInv ==
  ASSUME IInv, NEW v \in Requests, Arrive(v) \/ FindStarted(v) \/ StartFails(v)
  PROVE  IInv'
<1>1. PICK p \in {"arrived", "started", "gone"} : at' = [at EXCEPT ![v] = p]
  BY DEF Arrive, FindStarted, StartFails
<1>2. /\ UNCHANGED <<muxer, subs, upstream, mp4Cancelled, goroutines, joined, got,
                     queue, chClosed>>
      /\ idle' \in BOOLEAN /\ at[v] \in {"none", "arrived"}
  BY DEF Arrive, FindStarted, StartFails, IInv, Mp4TypeOK
<1>3. Mp4TypeOK'
  BY <1>1, <1>2 DEF IInv, Mp4TypeOK, muxer, goroutines
<1>4. SessionInv' /\ RequestInv'
  BY <1>1, <1>2 DEF IInv, Mp4TypeOK, SessionInv, RequestInv, muxer, goroutines
<1>5. SubscribersOfTheRunningSession' /\ NothingFromAnEarlierSession'
  BY <1>2 DEF IInv, SubscribersOfTheRunningSession, NothingFromAnEarlierSession, muxer
<1> QED
  BY <1>3, <1>4, <1>5 DEF IInv

(* A new session has no subscriber and no init segment yet.                *)
LEMMA StartOKIInv == ASSUME IInv, NEW v \in Requests, StartOK(v) PROVE IInv'
<1> DEFINE k == mp4Session + 1
<1>1. /\ mp4Session \in Nat /\ MaxSessions \in Nat /\ k \in Sessions /\ ~started
      /\ started' = TRUE /\ mp4Session' = k /\ subs = {} /\ initBytes = 0
      /\ at[v] = "arrived" /\ at' = [at EXCEPT ![v] = "started"]
      /\ demux' = [demux EXCEPT ![k] = "warming"]
      /\ UNCHANGED <<initBytes, subs, mp4Cancelled, joined, got, queue, chClosed>>
  BY Mp4Assumption
     DEF StartOK, IInv, Mp4TypeOK, SessionInv, SubscribersOfTheRunningSession
<1>2. /\ \A r \in Requests : queue[r] \in Seq(1 .. mp4Session)
      /\ \A r \in Requests : queue'[r] \in Seq(1 .. k)
  BY <1>1, SeqOfMore DEF IInv, Mp4TypeOK
<1>3. Mp4TypeOK'
  <2>1. queue' \in [Requests -> Seq(1 .. k)]
    BY <1>1, <1>2 DEF IInv, Mp4TypeOK
  <2>2. joined' \in [Requests -> 0 .. k] /\ got' \in [Requests -> 0 .. k]
    BY <1>1 DEF IInv, Mp4TypeOK
  <2>3. mp4Session' \in 0 .. MaxSessions /\ initBytes' \in 0 .. k
    BY <1>1 DEF Sessions
  <2>4. /\ upstream' \in [Sessions -> {"none", "live", "lost", "closed"}]
        /\ demux' \in [Sessions -> {"none", "warming", "running", "done"}]
        /\ readLoop' \in [Sessions -> {"none", "wait", "ended", "done"}]
        /\ watchdog' \in [Sessions -> {"none", "tick", "age", "stopping", "done"}]
        /\ at' \in [Requests -> Places]
        /\ idle' \in BOOLEAN
    BY <1>1 DEF StartOK, IInv, Mp4TypeOK, Places
  <2> HIDE DEF k
  <2> QED
    BY <1>1, <2>1, <2>2, <2>3, <2>4 DEF IInv, Mp4TypeOK, Places
<1>4. SessionInv'
  BY <1>1 DEF IInv, Mp4TypeOK, SessionInv, Sessions
<1>5. RequestInv'
  BY <1>1 DEF IInv, Mp4TypeOK, RequestInv
<1>6. SubscribersOfTheRunningSession' /\ NothingFromAnEarlierSession'
  BY <1>1 DEF IInv, SubscribersOfTheRunningSession, NothingFromAnEarlierSession
<1> QED
  BY <1>3, <1>4, <1>5, <1>6 DEF IInv

(* Registration, in the critical section that has seen started.            *)
LEMMA RegisterIInv == ASSUME IInv, NEW v \in Requests, Register(v) PROVE IInv'
<1>1. /\ at[v] = "started" /\ v \notin subs /\ got[v] = 0 /\ ~chClosed[v]
      /\ queue[v] = <<>>
      /\ UNCHANGED <<muxer, idle, upstream, mp4Cancelled, goroutines, got, queue, chClosed>>
  BY DEF Register, IInv, Mp4TypeOK, RequestInv
<1>2. CASE started
  <2>1. /\ subs' = subs \cup {v} /\ joined' = [joined EXCEPT ![v] = mp4Session]
        /\ at' = [at EXCEPT ![v] = "waiting"]
    BY <1>2 DEF Register
  <2>2. Mp4TypeOK'
    BY <1>1, <2>1 DEF IInv, Mp4TypeOK, muxer, goroutines
  <2>3. SessionInv' /\ RequestInv'
    BY <1>1, <2>1 DEF IInv, Mp4TypeOK, SessionInv, RequestInv, muxer, goroutines
  <2>4. SubscribersOfTheRunningSession'
    BY <1>1, <1>2, <2>1 DEF IInv, Mp4TypeOK, SubscribersOfTheRunningSession, muxer
  <2>5. NothingFromAnEarlierSession'
    <3>1. 1 .. Len(queue[v]) = {}
      BY <1>1
    <3> QED
      BY <1>1, <2>1, <3>1 DEF IInv, Mp4TypeOK, NothingFromAnEarlierSession
  <2> QED
    BY <2>2, <2>3, <2>4, <2>5 DEF IInv
<1>3. CASE ~started
  <2>1. at' = [at EXCEPT ![v] = "gone"] /\ UNCHANGED <<subs, joined>>
    BY <1>3 DEF Register
  <2>2. Mp4TypeOK' /\ SessionInv' /\ RequestInv'
    BY <1>1, <2>1 DEF IInv, Mp4TypeOK, SessionInv, RequestInv, muxer, goroutines
  <2>3. SubscribersOfTheRunningSession' /\ NothingFromAnEarlierSession'
    BY <1>1, <2>1
       DEF IInv, SubscribersOfTheRunningSession, NothingFromAnEarlierSession, muxer
  <2> QED
    BY <2>2, <2>3 DEF IInv
<1> QED
  BY <1>2, <1>3

(* The init segment that waitInit finds is of the session that runs, which *)
(* is no earlier than the one the request joined.                          *)
LEMMA GetInitIInv == ASSUME IInv, NEW v \in Requests, GetInit(v) PROVE IInv'
<1>1. /\ at[v] = "waiting" /\ initBytes # 0 /\ initBytes = mp4Session
      /\ got' = [got EXCEPT ![v] = initBytes] /\ at' = [at EXCEPT ![v] = "streaming"]
      /\ UNCHANGED <<muxer, subs, idle, upstream, mp4Cancelled, goroutines, joined,
                     queue, chClosed>>
  BY DEF GetInit, IInv, SessionInv
<1>2. Mp4TypeOK' /\ SessionInv' /\ RequestInv'
  BY <1>1 DEF IInv, Mp4TypeOK, SessionInv, RequestInv, muxer, goroutines
<1>3. SubscribersOfTheRunningSession'
  BY <1>1 DEF IInv, SubscribersOfTheRunningSession, muxer
<1>4. joined[v] <= mp4Session
  BY DEF IInv, Mp4TypeOK
<1>5. NothingFromAnEarlierSession'
  BY <1>1, <1>4 DEF IInv, Mp4TypeOK, NothingFromAnEarlierSession
<1> QED
  BY <1>2, <1>3, <1>5 DEF IInv

(* A handler that returns leaves nothing behind.                           *)
LEMMA DepartIInv == ASSUME IInv, NEW v \in Requests, Depart(v) PROVE IInv'
<1>1. /\ at' = [at EXCEPT ![v] = "gone"] /\ subs' = subs \ {v}
      /\ joined' = [joined EXCEPT ![v] = 0] /\ got' = [got EXCEPT ![v] = 0]
      /\ queue' = [queue EXCEPT ![v] = <<>>]
      /\ chClosed' = [chClosed EXCEPT ![v] = FALSE]
      /\ UNCHANGED <<muxer, idle, upstream, mp4Cancelled, goroutines>>
  BY DEF Depart
<1>2. Len(<<>>) = 0 /\ 1 .. Len(<<>>) = {} /\ <<>> \in Seq(1 .. mp4Session) /\ 0 <= SubChanCap
  BY Mp4Assumption
<1>3. Mp4TypeOK'
  <2>1. queue' \in [Requests -> Seq(1 .. mp4Session)]
    BY <1>1, <1>2 DEF IInv, Mp4TypeOK
  <2>2. \A r \in Requests : Len(queue'[r]) <= SubChanCap
    BY <1>1, <1>2 DEF IInv, Mp4TypeOK
  <2>3. joined' \in [Requests -> 0 .. mp4Session] /\ got' \in [Requests -> 0 .. mp4Session]
    BY <1>1 DEF IInv, Mp4TypeOK
  <2> QED
    BY <1>1, <2>1, <2>2, <2>3 DEF IInv, Mp4TypeOK, muxer, goroutines
<1>4. SessionInv' /\ RequestInv'
  BY <1>1 DEF IInv, Mp4TypeOK, SessionInv, RequestInv, muxer, goroutines
<1>5. SubscribersOfTheRunningSession'
  BY <1>1 DEF IInv, Mp4TypeOK, SubscribersOfTheRunningSession, muxer
<1>6. NothingFromAnEarlierSession'
  BY <1>1, <1>2 DEF IInv, Mp4TypeOK, NothingFromAnEarlierSession
<1> QED
  BY <1>3, <1>4, <1>5, <1>6 DEF IInv

(* A fragment is taken from the channel.                                   *)
LEMMA ReceiveIInv == ASSUME IInv, NEW v \in Requests, Receive(v) PROVE IInv'
<1>1. /\ at[v] = "streaming" /\ queue[v] # <<>>
      /\ queue' = [queue EXCEPT ![v] = Tail(queue[v])]
      /\ UNCHANGED <<muxer, subs, idle, upstream, mp4Cancelled, goroutines, at, joined,
                     got, chClosed>>
  BY DEF Receive
<1>2. queue[v] \in Seq(1 .. mp4Session)
  BY DEF IInv, Mp4TypeOK
<1>3. /\ Tail(queue[v]) \in Seq(1 .. mp4Session)
      /\ Len(Tail(queue[v])) = Len(queue[v]) - 1 /\ Len(queue[v]) \in Nat \ {0}
      /\ \A i \in 1 .. Len(Tail(queue[v])) :
           i + 1 \in 1 .. Len(queue[v]) /\ Tail(queue[v])[i] = queue[v][i + 1]
  <2>1. /\ Tail(queue[v]) \in Seq(1 .. mp4Session)
        /\ Len(Tail(queue[v])) = Len(queue[v]) - 1
        /\ \A i \in 1 .. Len(Tail(queue[v])) : Tail(queue[v])[i] = queue[v][i + 1]
    BY <1>1, <1>2, HeadTailProperties
  <2>2. Len(queue[v]) \in Nat \ {0}
    BY <1>1, <1>2, EmptySeq
  <2> QED
    BY <2>1, <2>2
<1>4. Mp4TypeOK'
  <2>1. Len(Tail(queue[v])) <= SubChanCap
    BY <1>3, Mp4Assumption DEF IInv, Mp4TypeOK
  <2>2. queue' \in [Requests -> Seq(1 .. mp4Session)]
    BY <1>1, <1>3 DEF IInv, Mp4TypeOK
  <2>3. \A r \in Requests : Len(queue'[r]) <= SubChanCap
    BY <1>1, <2>1 DEF IInv, Mp4TypeOK
  <2> QED
    BY <1>1, <2>2, <2>3 DEF IInv, Mp4TypeOK, muxer, goroutines
<1>5. SessionInv' /\ RequestInv' /\ SubscribersOfTheRunningSession'
  BY <1>1 DEF IInv, Mp4TypeOK, SessionInv, RequestInv, SubscribersOfTheRunningSession,
              muxer, goroutines
<1>6. NothingFromAnEarlierSession'
  <2>1. \A i \in 1 .. Len(Tail(queue[v])) : Tail(queue[v])[i] = joined[v]
    BY <1>3 DEF IInv, NothingFromAnEarlierSession
  <2> QED
    BY <1>1, <2>1 DEF IInv, Mp4TypeOK, NothingFromAnEarlierSession
<1> QED
  BY <1>4, <1>5, <1>6 DEF IInv

-----------------------------------------------------------------------------
(* The demux goroutine of session k.                                       *)

(* A send that finds room appends; one that does not changes nothing.      *)
LEMMA OfferedIsShort ==
  ASSUME NEW v \in Requests, NEW k \in 1 .. mp4Session, Mp4TypeOK,
         \A i \in 1 .. Len(queue[v]) : queue[v][i] = k
  PROVE  /\ Offered(v, k) \in Seq(1 .. mp4Session)
         /\ Len(Offered(v, k)) <= SubChanCap
         /\ \A i \in 1 .. Len(Offered(v, k)) : Offered(v, k)[i] = k
<1>1. queue[v] \in Seq(1 .. mp4Session) /\ Len(queue[v]) <= SubChanCap
  BY DEF Mp4TypeOK
<1>2. CASE Len(queue[v]) < SubChanCap
  <2>1. Offered(v, k) = Append(queue[v], k)
    BY <1>2 DEF Offered
  <2>2. /\ Append(queue[v], k) \in Seq(1 .. mp4Session)
        /\ Len(Append(queue[v], k)) = Len(queue[v]) + 1 /\ Len(queue[v]) \in Nat
        /\ \A i \in 1 .. Len(queue[v]) : Append(queue[v], k)[i] = queue[v][i]
        /\ Append(queue[v], k)[Len(queue[v]) + 1] = k
    BY <1>1
  <2> QED
    BY <1>2, <2>1, <2>2, Mp4Assumption
<1>3. CASE ~(Len(queue[v]) < SubChanCap)
  BY <1>1, <1>3 DEF Offered
<1> QED
  BY <1>2, <1>3

(* publishInit looks at the context first.                                 *)
LEMMA PublishInitIInv == ASSUME IInv, NEW k \in Sessions, PublishInit(k) PROVE IInv'
<1>1. /\ demux[k] = "warming" /\ demux' = [demux EXCEPT ![k] = "running"]
      /\ initBytes' = IF mp4Cancelled[k] THEN initBytes ELSE k
      /\ UNCHANGED <<started, mp4Session, subs, idle, upstream, mp4Cancelled, readLoop,
                     watchdog, request>>
  BY DEF PublishInit
<1>2. ~mp4Cancelled[k] => started /\ k = mp4Session /\ k \in 0 .. mp4Session
  BY <1>1 DEF IInv, Mp4TypeOK, SessionInv, Sessions
<1>3. Mp4TypeOK'
  <2>1. initBytes' \in 0 .. mp4Session
    BY <1>1, <1>2 DEF IInv, Mp4TypeOK
  <2>2. demux' \in [Sessions -> {"none", "warming", "running", "done"}]
    BY <1>1 DEF IInv, Mp4TypeOK
  <2> QED
    BY <1>1, <2>1, <2>2 DEF IInv, Mp4TypeOK, request
<1>4. SessionInv'
  BY <1>1, <1>2 DEF IInv, Mp4TypeOK, SessionInv
<1>5. RequestInv' /\ SubscribersOfTheRunningSession' /\ NothingFromAnEarlierSession'
  BY <1>1 DEF IInv, RequestInv, SubscribersOfTheRunningSession,
              NothingFromAnEarlierSession, request
<1> QED
  BY <1>3, <1>4, <1>5 DEF IInv

(* A fragment is sent only by the goroutine of the session that runs, and  *)
(* all subscribers have joined that session.                               *)
LEMMA EmitFragmentIInv == ASSUME IInv, NEW k \in Sessions, EmitFragment(k) PROVE IInv'
<1>1. /\ demux[k] = "running" /\ ~mp4Cancelled[k]
      /\ queue' = [v \in Requests |-> IF v \in subs THEN Offered(v, k) ELSE queue[v]]
      /\ UNCHANGED <<muxer, subs, idle, upstream, mp4Cancelled, goroutines, at, joined,
                     got, chClosed>>
  BY DEF EmitFragment
<1>2. started /\ k = mp4Session /\ k \in 1 .. mp4Session
  BY <1>1 DEF IInv, Mp4TypeOK, SessionInv, Sessions
<1>3. \A v \in subs : v \in Requests /\ joined[v] = k
  BY <1>2 DEF IInv, Mp4TypeOK, SubscribersOfTheRunningSession
<1>4. \A v \in subs : /\ Offered(v, k) \in Seq(1 .. mp4Session)
                      /\ Len(Offered(v, k)) <= SubChanCap
                      /\ \A i \in 1 .. Len(Offered(v, k)) : Offered(v, k)[i] = k
  BY <1>2, <1>3, OfferedIsShort DEF IInv, NothingFromAnEarlierSession
<1>5. \A v \in Requests : queue'[v] = IF v \in subs THEN Offered(v, k) ELSE queue[v]
  BY <1>1
<1>6. Mp4TypeOK'
  <2>1. queue' \in [Requests -> Seq(1 .. mp4Session)]
    BY <1>1, <1>4 DEF IInv, Mp4TypeOK
  <2>2. \A v \in Requests : Len(queue'[v]) <= SubChanCap
    BY <1>4, <1>5 DEF IInv, Mp4TypeOK
  <2> QED
    BY <1>1, <2>1, <2>2 DEF IInv, Mp4TypeOK, muxer, goroutines
<1>7. SessionInv' /\ SubscribersOfTheRunningSession'
  BY <1>1 DEF IInv, SessionInv, SubscribersOfTheRunningSession, muxer, goroutines
<1>8. RequestInv'
  BY <1>1, <1>5 DEF IInv, RequestInv
<1>9. NothingFromAnEarlierSession'
  <2> SUFFICES ASSUME NEW v \in Requests
               PROVE  /\ \A i \in 1 .. Len(queue'[v]) : queue'[v][i] = joined[v]
                      /\ got[v] # 0 => got[v] >= joined[v]
    BY <1>1 DEF NothingFromAnEarlierSession
  <2> QED
    BY <1>3, <1>4, <1>5 DEF IInv, NothingFromAnEarlierSession
<1> QED
  BY <1>6, <1>7, <1>8, <1>9 DEF IInv

(* The goroutine returns when its context is done.                         *)
LEMMA DemuxEndsIInv == ASSUME IInv, NEW k \in Sessions, DemuxEnds(k) PROVE IInv'
<1>1. /\ demux[k] # "none" /\ mp4Cancelled[k] /\ demux' = [demux EXCEPT ![k] = "done"]
      /\ UNCHANGED <<muxer, subs, idle, upstream, mp4Cancelled, readLoop, watchdog,
                     request>>
  BY DEF DemuxEnds
<1>2. Mp4TypeOK' /\ SessionInv'
  BY <1>1 DEF IInv, Mp4TypeOK, SessionInv, muxer, request
<1>3. RequestInv' /\ SubscribersOfTheRunningSession' /\ NothingFromAnEarlierSession'
  BY <1>1 DEF IInv, RequestInv, SubscribersOfTheRunningSession,
              NothingFromAnEarlierSession, muxer, request
<1> QED
  BY <1>2, <1>3 DEF IInv

-----------------------------------------------------------------------------
(* Every step keeps the inductive invariant.                               *)
LEMMA NextIInv == IInv /\ [Mp4Next]_mp4Vars => IInv'
<1> SUFFICES ASSUME IInv, [Mp4Next]_mp4Vars PROVE IInv'
  OBVIOUS
<1>1. CASE Close \/ TimePasses
  BY <1>1, WatchIInv
<1>2. ASSUME NEW k \in Sessions, Lost(k) \/ ReadLoop(k) \/ Watchdog(k) PROVE IInv'
  BY <1>2, WatchIInv
<1>3. ASSUME NEW k \in Sessions, Demux(k) PROVE IInv'
  BY <1>3, PublishInitIInv, EmitFragmentIInv, DemuxEndsIInv DEF Demux
<1>4. ASSUME NEW v \in Requests, Arrive(v) \/ EnsureStarted(v) PROVE IInv'
  BY <1>4, ComeIInv, StartOKIInv DEF EnsureStarted
<1>5. ASSUME NEW v \in Requests, TimeOut(v) \/ EndOfStream(v) \/ Disconnect(v) PROVE IInv'
  BY <1>5, DepartIInv DEF TimeOut, EndOfStream, Disconnect
<1>6. ASSUME NEW v \in Requests, Register(v) \/ GetInit(v) \/ Receive(v) PROVE IInv'
  BY <1>6, RegisterIInv, GetInitIInv, ReceiveIInv
<1>7. CASE UNCHANGED mp4Vars
  BY <1>7, QuietIInv DEF mp4Vars, muxer, request, IInv, Mp4TypeOK
<1> QED
  BY <1>1, <1>2, <1>3, <1>4, <1>5, <1>6, <1>7 DEF Mp4Next, Handler

(* The inductive invariant holds in every reachable state.                 *)
LEMMA Invariance == Mp4Spec => []IInv
BY InitIInv, NextIInv, PTL DEF Mp4Spec
-----------------------------------------------------------------------------
(* What a stop leaves behind.                                              *)

WatchedInv ==
  /\ DroppedAreTold /\ UpstreamIsWatched
  /\ \A k \in Sessions : mp4Cancelled[k] => upstream[k] = "closed"

(* stopLocked closes the one upstream that may be open, and the channel of *)
(* everybody who has one.                                                  *)
LEMMA StopLockedWatched ==
  ASSUME IInv, WatchedInv, stopLocked, started, UNCHANGED at
  PROVE  WatchedInv'
<1>1. /\ mp4Cancelled' = [mp4Cancelled EXCEPT ![mp4Session] = TRUE]
      /\ upstream' = [upstream EXCEPT ![mp4Session] = "closed"]
      /\ chClosed' = [v \in Requests |-> chClosed[v] \/ v \in subs]
  BY DEF stopLocked
<1>2. \A k \in Sessions : upstream'[k] = "closed" \/ upstream'[k] = upstream[k]
  BY <1>1 DEF IInv, Mp4TypeOK
<1>3. UpstreamIsWatched'
  BY <1>1, <1>2 DEF IInv, Mp4TypeOK, WatchedInv, UpstreamIsWatched
<1>4. DroppedAreTold'
  BY <1>1 DEF WatchedInv, DroppedAreTold
<1>5. \A k \in Sessions : mp4Cancelled'[k] => upstream'[k] = "closed"
  BY <1>1 DEF IInv, Mp4TypeOK, WatchedInv
<1> QED
  BY <1>3, <1>4, <1>5 DEF WatchedInv

(* Requests and demux goroutines leave the upstreams alone, but for the    *)
(* request that starts a session, which nobody else watches.               *)
LEMMA RequestWatched ==
  ASSUME IInv, WatchedInv,
         \/ \E v \in Requests : Arrive(v) \/ Handler(v) \/ Disconnect(v)
         \/ \E k \in Sessions : Demux(k)
  PROVE  WatchedInv'
<1>a. ASSUME UNCHANGED <<started, mp4Session, upstream, mp4Cancelled, readLoop, watchdog>>,
             DroppedAreTold'
      PROVE  WatchedInv'
  BY <1>a DEF WatchedInv, UpstreamIsWatched
<1>1. ASSUME NEW v \in Requests, Arrive(v) \/ FindStarted(v) \/ StartFails(v)
      PROVE  WatchedInv'
  BY <1>1, <1>a
     DEF Arrive, FindStarted, StartFails, muxer, goroutines, WatchedInv,
         DroppedAreTold, IInv, Mp4TypeOK
<1>2. ASSUME NEW v \in Requests, StartOK(v) PROVE WatchedInv'
  <2> DEFINE n == mp4Session + 1
  <2>1. /\ ~started /\ n \in Sessions /\ mp4Session < n /\ started' = TRUE /\ mp4Session' = n
        /\ upstream' = [upstream EXCEPT ![n] = "live"]
        /\ readLoop' = [readLoop EXCEPT ![n] = "wait"]
        /\ watchdog' = [watchdog EXCEPT ![n] = "tick"]
        /\ at' = [at EXCEPT ![v] = "started"]
        /\ UNCHANGED <<subs, mp4Cancelled, chClosed>>
    BY <1>2 DEF StartOK, IInv, Mp4TypeOK
  <2> HIDE DEF n
  <2>2. UpstreamIsWatched'
    BY <2>1 DEF IInv, Mp4TypeOK, WatchedInv, UpstreamIsWatched
  <2>3. DroppedAreTold'
    BY <2>1 DEF IInv, Mp4TypeOK, WatchedInv, DroppedAreTold
  <2>4. \A k \in Sessions : mp4Cancelled'[k] => upstream'[k] = "closed"
    BY <2>1 DEF IInv, Mp4TypeOK, SessionInv, WatchedInv
  <2> QED
    BY <2>2, <2>3, <2>4 DEF WatchedInv
<1>3. ASSUME NEW v \in Requests, Register(v) \/ GetInit(v) \/ Receive(v)
      PROVE  WatchedInv'
  BY <1>3, <1>a
     DEF Register, GetInit, Receive, muxer, goroutines, WatchedInv, DroppedAreTold,
         IInv, Mp4TypeOK
<1>4. ASSUME NEW v \in Requests, TimeOut(v) \/ EndOfStream(v) \/ Disconnect(v)
      PROVE  WatchedInv'
  <2>1. Depart(v)
    BY <1>4 DEF TimeOut, EndOfStream, Disconnect
  <2> QED
    BY <1>a, <2>1 DEF Depart, muxer, goroutines, WatchedInv, DroppedAreTold, IInv, Mp4TypeOK
<1>5. ASSUME NEW k \in Sessions, Demux(k) PROVE WatchedInv'
  BY <1>5, <1>a
     DEF Demux, PublishInit, EmitFragment, DemuxEnds, muxer, goroutines, request,
         WatchedInv, DroppedAreTold
<1> QED
  BY <1>1, <1>2, <1>3, <1>4, <1>5 DEF Handler, EnsureStarted

(* A read loop or a watchdog ends only after the upstream of its session.  *)
LEMMA WatchWatched ==
  ASSUME IInv, WatchedInv,
         \/ Close \/ TimePasses
         \/ \E k \in Sessions : Lost(k) \/ ReadLoop(k) \/ Watchdog(k)
  PROVE  WatchedInv'
<1>a. ASSUME UNCHANGED <<started, mp4Session, subs, mp4Cancelled, at, chClosed>>,
             UpstreamIsWatched',
             \A k \in Sessions : mp4Cancelled[k] => upstream'[k] = "closed"
      PROVE  WatchedInv'
  BY <1>a DEF WatchedInv, DroppedAreTold
<1>1. CASE Close
  BY <1>1, StopLockedWatched DEF Close
<1>2. CASE TimePasses
  BY <1>2, <1>a DEF TimePasses, muxer, goroutines, request, WatchedInv, UpstreamIsWatched
<1>3. ASSUME NEW k \in Sessions, Lost(k) PROVE WatchedInv'
  BY <1>3, <1>a
     DEF Lost, muxer, goroutines, request, WatchedInv, UpstreamIsWatched, IInv, Mp4TypeOK
<1>4. ASSUME NEW k \in Sessions, WaitReturns(k) \/ ReadLoopCancelled(k)
      PROVE  WatchedInv'
  BY <1>4, <1>a
     DEF WaitReturns, ReadLoopCancelled, muxer, request, WatchedInv, UpstreamIsWatched,
         IInv, Mp4TypeOK
<1>5. ASSUME NEW k \in Sessions, ReadLoopStops(k) PROVE WatchedInv'
  <2>1. CASE started
    BY <1>5, <2>1, StopLockedWatched DEF ReadLoopStops
  <2>2. CASE ~started
    BY <1>5, <1>a, <2>2
       DEF ReadLoopStops, stopLocked, WatchedInv, UpstreamIsWatched
  <2> QED
    BY <2>1, <2>2
<1>6. ASSUME NEW k \in Sessions,
             WatchdogTicks(k) \/ WatchdogLooks(k) \/ WatchdogCancelled(k)
      PROVE  WatchedInv'
  BY <1>6, <1>a
     DEF WatchdogTicks, WatchdogLooks, WatchdogCancelled, muxer, request, WatchedInv,
         UpstreamIsWatched, IInv, Mp4TypeOK
<1>7. ASSUME NEW k \in Sessions, WatchdogStops(k) PROVE WatchedInv'
  <2>1. CASE started /\ subs = {} /\ idle
    BY <1>7, <2>1, StopLockedWatched DEF WatchdogStops
  <2>2. CASE ~(started /\ subs = {} /\ idle)
    BY <1>7, <1>a, <2>2
       DEF WatchdogStops, WatchedInv, UpstreamIsWatched, IInv, Mp4TypeOK
  <2> QED
    BY <2>1, <2>2
<1> QED
  BY <1>1, <1>2, <1>3, <1>4, <1>5, <1>6, <1>7 DEF ReadLoop, Watchdog

(* It holds in every reachable state.                                      *)
LEMMA WatchedInvariance == Mp4Spec => []WatchedInv
<1>1. Mp4Init => WatchedInv
  BY DEF Mp4Init, WatchedInv, DroppedAreTold, UpstreamIsWatched
<1>2. IInv /\ WatchedInv /\ [Mp4Next]_mp4Vars => WatchedInv'
  <2> SUFFICES ASSUME IInv, WatchedInv, [Mp4Next]_mp4Vars PROVE WatchedInv'
    OBVIOUS
  <2>1. CASE UNCHANGED mp4Vars
    BY <2>1 DEF mp4Vars, WatchedInv, DroppedAreTold, UpstreamIsWatched
  <2> QED
    BY <2>1, RequestWatched, WatchWatched DEF Mp4Next
<1> QED
  BY <1>1, <1>2, Invariance, PTL DEF Mp4Spec

-----------------------------------------------------------------------------
(* A Muxer implements MuxerLife.                                           *)

(* The upstream of the session that runs is open.                          *)
RunningIsOpen == started => upstream[mp4Session] \in {"live", "lost"}

(* It holds in every reachable state.                                      *)
LEMMA RunningInvariance == Mp4Spec => []RunningIsOpen
<1>1. Mp4Init => RunningIsOpen
  BY DEF Mp4Init, RunningIsOpen
<1>2. IInv /\ RunningIsOpen /\ [Mp4Next]_mp4Vars => RunningIsOpen'
  <2> SUFFICES ASSUME IInv, RunningIsOpen, [Mp4Next]_mp4Vars PROVE RunningIsOpen'
    OBVIOUS
  <2>1. ASSUME UNCHANGED <<started, mp4Session, upstream>> PROVE RunningIsOpen'
    BY <2>1 DEF RunningIsOpen
  <2>2. ASSUME stopLocked, UNCHANGED mp4Session PROVE RunningIsOpen'
    BY <2>2 DEF stopLocked, RunningIsOpen
  <2>3. CASE Close
    BY <2>2, <2>3 DEF Close
  <2>4. CASE TimePasses \/ UNCHANGED mp4Vars
    BY <2>1, <2>4 DEF TimePasses, mp4Vars, muxer
  <2>5. ASSUME NEW v \in Requests, Arrive(v) \/ Handler(v) \/ Disconnect(v)
        PROVE  RunningIsOpen'
    <3>1. CASE StartOK(v)
      BY <3>1 DEF StartOK, RunningIsOpen, IInv, Mp4TypeOK
    <3>2. CASE ~StartOK(v)
      BY <2>1, <2>5, <3>2
         DEF Arrive, Handler, EnsureStarted, FindStarted, StartFails, Register, GetInit,
             TimeOut, Receive, EndOfStream, Disconnect, Depart, muxer
    <3> QED
      BY <3>1, <3>2
  <2>6. ASSUME NEW k \in Sessions, Lost(k) PROVE RunningIsOpen'
    BY <2>6 DEF Lost, muxer, RunningIsOpen, IInv, Mp4TypeOK
  <2>7. ASSUME NEW k \in Sessions, Demux(k) PROVE RunningIsOpen'
    BY <2>1, <2>7 DEF Demux, PublishInit, EmitFragment, DemuxEnds, muxer
  <2>8. ASSUME NEW k \in Sessions, ReadLoop(k) \/ Watchdog(k) PROVE RunningIsOpen'
    BY <2>1, <2>2, <2>8
       DEF ReadLoop, WaitReturns, ReadLoopCancelled, ReadLoopStops, Watchdog,
           WatchdogTicks, WatchdogLooks, WatchdogStops, WatchdogCancelled, muxer
  <2> QED
    BY <2>3, <2>4, <2>5, <2>6, <2>7, <2>8 DEF Mp4Next
<1> QED
  BY <1>1, <1>2, Invariance, PTL DEF Mp4Spec

(* started tells whether an upstream is open.                              *)
UpIsStarted == UpstreamOpen = started

(* It does in every reachable state.                                       *)
LEMMA UpInvariance == Mp4Spec => []UpIsStarted
<1>1. IInv /\ WatchedInv /\ RunningIsOpen => UpIsStarted
  BY DEF IInv, Mp4TypeOK, SessionInv, WatchedInv, UpstreamIsWatched, RunningIsOpen,
         UpIsStarted, UpstreamOpen
<1> QED
  BY <1>1, Invariance, WatchedInvariance, RunningInvariance, PTL

(* stopLocked disconnects whoever is attached, whatever else its caller    *)
(* does: every open channel is that of a subscriber.                       *)
LEMMA StopLockedLife ==
  ASSUME IInv, WatchedInv, UpIsStarted, UpIsStarted', stopLocked, UNCHANGED at
  PROVE  [Life!Next]_(Life!vars)
<1>1. CASE started
  <2>1. Attached' = {}
    BY <1>1 DEF stopLocked, WatchedInv, DroppedAreTold, Attached
  <2>2. UpstreamOpen /\ UpstreamOpen' = FALSE
    BY <1>1 DEF stopLocked, UpIsStarted
  <2> QED
    BY <2>1, <2>2 DEF Life!Next, Life!Stop
<1>2. CASE ~started
  BY <1>2 DEF stopLocked, UpIsStarted, Attached, Life!vars
<1> QED
  BY <1>1, <1>2

(* A request opens the upstream, is attached, leaves, or does nothing that *)
(* can be seen.                                                            *)
LEMMA RequestLife ==
  ASSUME IInv, WatchedInv, UpIsStarted, UpIsStarted',
         NEW v \in Requests, Arrive(v) \/ Handler(v) \/ Disconnect(v)
  PROVE  [Life!Next]_(Life!vars)
<1>1. CASE Arrive(v) \/ FindStarted(v) \/ StartFails(v)
  BY <1>1 DEF Arrive, FindStarted, StartFails, muxer, IInv, Mp4TypeOK, UpIsStarted, Attached,
              Life!vars
<1>2. CASE StartOK(v)
  <2>1. Attached' = Attached
    BY <1>2 DEF StartOK, IInv, Mp4TypeOK, Attached
  <2>2. UpstreamOpen = FALSE /\ UpstreamOpen' = TRUE
    BY <1>2 DEF StartOK, UpIsStarted, UpstreamOpen
  <2> QED
    BY <2>1, <2>2 DEF Life!Next, Life!Open
<1>3. CASE Register(v)
  <2>1. CASE started
    <3>1. v \notin Attached /\ Attached' = Attached \cup {v}
      BY <1>3, <2>1 DEF Register, IInv, Mp4TypeOK, RequestInv, Attached
    <3>2. UpstreamOpen' = TRUE
      BY <1>3, <2>1 DEF Register, muxer, UpIsStarted
    <3> QED
      BY <3>1, <3>2 DEF Life!Next, Life!Attach
  <2>2. CASE ~started
    BY <1>3, <2>2 DEF Register, muxer, IInv, Mp4TypeOK, UpIsStarted, Attached, Life!vars
  <2> QED
    BY <2>1, <2>2
<1>4. CASE GetInit(v) \/ Receive(v)
  BY <1>4 DEF GetInit, Receive, muxer, IInv, Mp4TypeOK, UpIsStarted, Attached, Life!vars
<1>5. CASE TimeOut(v) \/ EndOfStream(v) \/ Disconnect(v)
  <2>1. /\ at' = [at EXCEPT ![v] = "gone"]
        /\ chClosed' = [chClosed EXCEPT ![v] = FALSE]
        /\ UNCHANGED started
    BY <1>5 DEF TimeOut, EndOfStream, Disconnect, Depart, muxer
  <2>2. Attached' = Attached \ {v} /\ UpstreamOpen' = UpstreamOpen
    BY <2>1 DEF IInv, Mp4TypeOK, UpIsStarted, Attached
  <2>3. CASE v \in Attached
    BY <2>2, <2>3 DEF Life!Next, Life!Leave
  <2>4. CASE v \notin Attached
    BY <2>2, <2>4 DEF Life!vars
  <2> QED
    BY <2>3, <2>4
<1> QED
  BY <1>1, <1>2, <1>3, <1>4, <1>5 DEF Handler, EnsureStarted

(* A step of the Muxer is a step of MuxerLife, or changes nothing it sees. *)
LEMMA StepLife ==
  IInv /\ WatchedInv /\ UpIsStarted /\ UpIsStarted' /\ [Mp4Next]_mp4Vars
    => [Life!Next]_(Life!vars)
<1> SUFFICES ASSUME IInv, WatchedInv, UpIsStarted, UpIsStarted', [Mp4Next]_mp4Vars
             PROVE  [Life!Next]_(Life!vars)
  OBVIOUS
<1>1. ASSUME UNCHANGED <<started, at, chClosed>> PROVE [Life!Next]_(Life!vars)
  BY <1>1 DEF UpIsStarted, Attached, Life!vars
<1>2. CASE Close
  BY <1>2, StopLockedLife DEF Close
<1>3. CASE TimePasses \/ UNCHANGED mp4Vars
  BY <1>1, <1>3 DEF TimePasses, mp4Vars, muxer, request
<1>4. ASSUME NEW v \in Requests, Arrive(v) \/ Handler(v) \/ Disconnect(v)
      PROVE  [Life!Next]_(Life!vars)
  BY <1>4, RequestLife
<1>5. ASSUME NEW k \in Sessions, Lost(k) \/ Demux(k) PROVE [Life!Next]_(Life!vars)
  BY <1>1, <1>5 DEF Lost, Demux, PublishInit, EmitFragment, DemuxEnds, muxer, request
<1>6. ASSUME NEW k \in Sessions, ReadLoop(k) \/ Watchdog(k)
      PROVE  [Life!Next]_(Life!vars)
  <2>1. CASE stopLocked /\ UNCHANGED at
    BY <2>1, StopLockedLife
  <2>2. CASE ~(stopLocked /\ UNCHANGED at)
    BY <1>1, <1>6, <2>2
       DEF ReadLoop, WaitReturns, ReadLoopCancelled, ReadLoopStops, Watchdog,
           WatchdogTicks, WatchdogLooks, WatchdogStops, WatchdogCancelled, muxer, request
  <2> QED
    BY <2>1, <2>2
<1> QED
  BY <1>2, <1>3, <1>4, <1>5, <1>6 DEF Mp4Next

-----------------------------------------------------------------------------
(* Types; for any capacity, no channel holds more fragments than that.     *)
THEOREM TypeCorrect == Mp4Spec => []Mp4TypeOK
<1>1. IInv => Mp4TypeOK
  BY DEF IInv
<1> QED
  BY <1>1, Invariance, PTL

(* For any requests and sessions: whoever stops the session that runs      *)
(* closes the one upstream that is open and the channels of all who have   *)
(* subscribed, and nobody else is waiting on a channel that is open.       *)
THEOREM StopIsComplete == Mp4Spec => []StopLeavesNothing
<1>1. IInv /\ WatchedInv => StopLeavesNothing
  BY DEF IInv, WatchedInv, StopLeavesNothing
<1> QED
  BY <1>1, Invariance, WatchedInvariance, PTL

(* For any requests and sessions, no subscriber receives a fragment or an  *)
(* init segment of a session before its own.                               *)
THEOREM NoStragglers == Mp4Spec => []NothingFromAnEarlierSession
<1>1. IInv => NothingFromAnEarlierSession
  BY DEF IInv
<1> QED
  BY <1>1, Invariance, PTL

(* For any requests and sessions the Muxer is what the Server takes it     *)
(* for: one upstream, viewers only while it is open, and a stop that no    *)
(* viewer and no upstream survives, although the goroutines of ended       *)
(* sessions still call it.                                                 *)
THEOREM RefinesMuxerLife == Mp4Spec => Life!Spec
<1>1. Mp4Init => Life!Init
  BY DEF Mp4Init, UpstreamOpen, Attached, Life!Init
<1> QED
  BY <1>1, StepLife, Invariance, WatchedInvariance, UpInvariance, PTL
     DEF Mp4Spec, Life!Spec

=============================================================================
