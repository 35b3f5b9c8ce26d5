--------------------------- MODULE StreamsProofs ---------------------------
(***************************************************************************)
(* Proofs about module Streams: its type invariant, its safety invariants  *)
(* and the safety part of its refinement of SharedUpstream, for any number *)
(* of requests and Stream objects.                                         *)
(***************************************************************************)
EXTENDS Streams, FiniteSetTheorems, TLAPS

(* Stream.mu is held exactly by the request inside Start or Stop.          *)
LockInv ==
  /\ \A s \in Sessions :
       /\ state[s] # "idle" => stream[s] \in Streams
       /\ state[s] \in {"starting", "stopping"} => mu[stream[s]] = s
  /\ \A st \in Streams : mu[st] # Free =>
       stream[mu[st]] = st /\ state[mu[st]] \in {"starting", "stopping"}

(* A Session is closed once; before that only an open one is asked to.     *)
CloseInv ==
  \A s \in Sessions :
    /\ sessionClosed[s] => state[s] \in {"releasing", "stopping", "done"}
    /\ ~sessionClosed[s] => \A k \in Closers : call[s][k] = "called" => state[s] = "open"

(* Start runs only on an idle Stream, Stop only when nobody holds it.      *)
RunInv ==
  /\ \A s \in Sessions :
       /\ state[s] = "starting" => ~started[stream[s]]
       /\ state[s] = "stopping" => started[stream[s]] /\ Holders(stream[s]) = {}
  /\ \A st \in Streams :
       /\ live[st] = started[st]
       /\ started[st] => tracks[st] = runs[st]

(* The inductive invariant.                                                *)
IInv ==
  /\ StreamsTypeOK
  /\ LockInv
  /\ CloseInv
  /\ RunInv
  /\ RefsCountHolders
  /\ HoldersWatchTheLiveRun
  /\ UpstreamOnlyWhileUsed
-----------------------------------------------------------------------------
(* A Stream has finitely many holders.                                     *)
LEMMA HoldersFinite == \A st : IsFiniteSet(Holders(st))
<1> TAKE st
<1>1. Holders(st) \subseteq Sessions
  BY DEF Holders
<1> QED
  BY <1>1, FS_Subset, StreamsAssumption

(* The bridge starts in the inductive invariant.                           *)
LEMMA InitIInv == StreamsInit => IInv
<1> SUFFICES ASSUME StreamsInit PROVE IInv
  OBVIOUS
<1>1. \A st \in Streams : Holders(st) = {}
  BY DEF StreamsInit, Holders, Holding
<1>2. StreamsTypeOK
  BY DEF StreamsInit, StreamsTypeOK, States, Closers
<1>3. LockInv /\ CloseInv /\ RunInv
  BY StreamsAssumption DEF StreamsInit, LockInv, CloseInv, RunInv, Closers
<1>4. RefsCountHolders
  BY <1>1, FS_EmptySet DEF StreamsInit, RefsCountHolders
<1>5. HoldersWatchTheLiveRun /\ UpstreamOnlyWhileUsed
  BY DEF StreamsInit, HoldersWatchTheLiveRun, UpstreamOnlyWhileUsed, Holding
<1> QED
  BY <1>2, <1>3, <1>4, <1>5 DEF IInv

(* Registry.Put starts with a fresh, idle stream.                          *)
LEMMA PutStep ==
  ASSUME IInv, NEW st \in Streams, Put(st)
  PROVE  IInv' /\ [Shared!Next]_(Shared!vars)
<1> USE StreamsAssumption DEF Put, registry, upstream, closing, States, Closers, EndClose
<1>1. \A t \in Streams : Holders(t)' = Holders(t)
  BY DEF IInv, StreamsTypeOK, LockInv, CloseInv, Holders, Holding
<1>2. RefsCountHolders'
  BY <1>1 DEF IInv, RefsCountHolders
<1>3. StreamsTypeOK'
  BY DEF IInv, StreamsTypeOK
<1>4. LockInv'
  BY DEF IInv, StreamsTypeOK, LockInv
<1>5. CloseInv'
  BY DEF IInv, StreamsTypeOK, CloseInv
<1>6. RunInv'
  BY <1>1 DEF IInv, StreamsTypeOK, LockInv, RunInv
<1>7. HoldersWatchTheLiveRun'
  BY DEF IInv, StreamsTypeOK, LockInv, RunInv, HoldersWatchTheLiveRun, Holding
<1>8. UpstreamOnlyWhileUsed'
  BY <1>1 DEF IInv, StreamsTypeOK, LockInv, RunInv, UpstreamOnlyWhileUsed
<1>9. UNCHANGED Shared!vars
  BY <1>1 DEF Shared!vars
<1> QED
  BY <1>2, <1>3, <1>4, <1>5, <1>6, <1>7, <1>8, <1>9 DEF IInv

(* Registry.Delete leaves the stream object to its holders.                *)
LEMMA DeleteStep ==
  ASSUME IInv, Delete
  PROVE  IInv' /\ [Shared!Next]_(Shared!vars)
<1> USE StreamsAssumption DEF Delete, registry, upstream, closing, States, Closers, EndClose
<1>1. \A t \in Streams : Holders(t)' = Holders(t)
  BY DEF IInv, StreamsTypeOK, LockInv, CloseInv, Holders, Holding
<1>2. RefsCountHolders'
  BY <1>1 DEF IInv, RefsCountHolders
<1>3. StreamsTypeOK'
  BY DEF IInv, StreamsTypeOK
<1>4. LockInv'
  BY DEF IInv, StreamsTypeOK, LockInv
<1>5. CloseInv'
  BY DEF IInv, StreamsTypeOK, CloseInv
<1>6. RunInv'
  BY <1>1 DEF IInv, StreamsTypeOK, LockInv, RunInv
<1>7. HoldersWatchTheLiveRun'
  BY DEF IInv, StreamsTypeOK, LockInv, RunInv, HoldersWatchTheLiveRun, Holding
<1>8. UpstreamOnlyWhileUsed'
  BY <1>1 DEF IInv, StreamsTypeOK, LockInv, RunInv, UpstreamOnlyWhileUsed
<1>9. UNCHANGED Shared!vars
  BY <1>1 DEF Shared!vars
<1> QED
  BY <1>2, <1>3, <1>4, <1>5, <1>6, <1>7, <1>8, <1>9 DEF IInv

(* Registry.Get hands a session the current object.                        *)
LEMMA GetStep ==
  ASSUME IInv, NEW s \in Sessions, Get(s)
  PROVE  IInv' /\ [Shared!Next]_(Shared!vars)
<1> USE StreamsAssumption DEF Get, registry, upstream, closing, States, Closers, EndClose
<1>1. \A t \in Streams : Holders(t)' = Holders(t)
  BY DEF IInv, StreamsTypeOK, LockInv, CloseInv, Holders, Holding
<1>2. RefsCountHolders'
  BY <1>1 DEF IInv, RefsCountHolders
<1>3. StreamsTypeOK'
  BY DEF IInv, StreamsTypeOK
<1>4. LockInv'
  BY DEF IInv, StreamsTypeOK, LockInv
<1>5. CloseInv'
  BY DEF IInv, StreamsTypeOK, CloseInv
<1>6. RunInv'
  BY <1>1 DEF IInv, StreamsTypeOK, LockInv, RunInv
<1>7. HoldersWatchTheLiveRun'
  BY DEF IInv, StreamsTypeOK, LockInv, RunInv, HoldersWatchTheLiveRun, Holding
<1>8. UpstreamOnlyWhileUsed'
  BY <1>1 DEF IInv, StreamsTypeOK, LockInv, RunInv, UpstreamOnlyWhileUsed
<1>9. UNCHANGED Shared!vars
  BY <1>1 DEF Shared!vars
<1> QED
  BY <1>2, <1>3, <1>4, <1>5, <1>6, <1>7, <1>8, <1>9 DEF IInv

(* Stream.Acquire of a running stream adds one holder.                     *)
LEMMA AcquireStartedStep ==
  ASSUME IInv, NEW s \in Sessions, AcquireStarted(s)
  PROVE  IInv' /\ [Shared!Next]_(Shared!vars)
<1> USE StreamsAssumption DEF AcquireStarted, registry, upstream, closing, States, Closers, EndClose
<1>a. stream[s] \in Streams /\ s \notin Holders(stream[s])
  BY DEF IInv, StreamsTypeOK, LockInv, Holders, Holding
<1>1. \A t \in Streams : Holders(t)' =
        IF t = stream[s] THEN Holders(t) \cup {s} ELSE Holders(t)
  BY DEF IInv, StreamsTypeOK, LockInv, Holders, Holding
<1>b. Cardinality(Holders(stream[s]) \cup {s}) = refs[stream[s]] + 1
  <2>1. Cardinality(Holders(stream[s]) \cup {s}) = Cardinality(Holders(stream[s])) + 1
    BY <1>a, HoldersFinite, FS_AddElement
  <2> QED
    BY <2>1, <1>a DEF IInv, RefsCountHolders
<1>c. refs' = [refs EXCEPT ![stream[s]] = @ + 1] /\ refs[stream[s]] \in Nat
  BY <1>a DEF IInv, StreamsTypeOK
<1>2. RefsCountHolders'
  BY <1>1, <1>a, <1>b, <1>c DEF IInv, StreamsTypeOK, RefsCountHolders
<1>3. StreamsTypeOK'
  BY <1>a, <1>c DEF IInv, StreamsTypeOK
<1>4. LockInv'
  BY DEF IInv, StreamsTypeOK, LockInv
<1>5. CloseInv'
  BY DEF IInv, StreamsTypeOK, CloseInv
<1>6. RunInv'
  BY <1>1, <1>a DEF IInv, StreamsTypeOK, LockInv, RunInv
<1>7. HoldersWatchTheLiveRun'
  BY DEF IInv, StreamsTypeOK, LockInv, RunInv, HoldersWatchTheLiveRun, Holding
<1>8. UpstreamOnlyWhileUsed'
  BY <1>1, <1>a DEF IInv, StreamsTypeOK, LockInv, RunInv, UpstreamOnlyWhileUsed
<1>9. Shared!Join(s, stream[s])
  <2>1. \A w \in Streams : s \notin Holders(w)
    BY DEF Holders, Holding
  <2>2. [st \in Streams |-> Holders(st)]'
          = [[st \in Streams |-> Holders(st)] EXCEPT ![stream[s]] = @ \cup {s}]
    BY <1>1, <1>a
  <2>3. live' = [live EXCEPT ![stream[s]] = TRUE]
    BY <1>a DEF IInv, StreamsTypeOK, RunInv
  <2> QED
    BY <2>1, <2>2, <2>3 DEF Shared!Join
<1> QED
  BY <1>2, <1>3, <1>4, <1>5, <1>6, <1>7, <1>8, <1>9, <1>a DEF IInv, Shared!Next

(* Stream.Acquire of an idle stream takes its lock for Producer.Start.     *)
LEMMA AcquireIdleStep ==
  ASSUME IInv, NEW s \in Sessions, AcquireIdle(s)
  PROVE  IInv' /\ [Shared!Next]_(Shared!vars)
<1> USE StreamsAssumption DEF AcquireIdle, registry, upstream, closing, States, Closers, EndClose
<1>1. \A t \in Streams : Holders(t)' = Holders(t)
  BY DEF IInv, StreamsTypeOK, LockInv, CloseInv, Holders, Holding
<1>2. RefsCountHolders'
  BY <1>1 DEF IInv, RefsCountHolders
<1>3. StreamsTypeOK'
  BY DEF IInv, StreamsTypeOK
<1>4. LockInv'
  BY DEF IInv, StreamsTypeOK, LockInv
<1>5. CloseInv'
  BY DEF IInv, StreamsTypeOK, CloseInv
<1>6. RunInv'
  BY <1>1 DEF IInv, StreamsTypeOK, LockInv, RunInv
<1>7. HoldersWatchTheLiveRun'
  BY DEF IInv, StreamsTypeOK, LockInv, RunInv, HoldersWatchTheLiveRun, Holding
<1>8. UpstreamOnlyWhileUsed'
  BY <1>1 DEF IInv, StreamsTypeOK, LockInv, RunInv, UpstreamOnlyWhileUsed
<1>9. UNCHANGED Shared!vars
  BY <1>1 DEF Shared!vars
<1> QED
  BY <1>2, <1>3, <1>4, <1>5, <1>6, <1>7, <1>8, <1>9 DEF IInv

(* Producer.Start succeeds: the first holder of a new run.                 *)
LEMMA StartOKStep ==
  ASSUME IInv, NEW s \in Sessions, StartOK(s)
  PROVE  IInv' /\ [Shared!Next]_(Shared!vars)
<1> USE StreamsAssumption DEF StartOK, registry, upstream, closing, States, Closers, EndClose
<1>a. stream[s] \in Streams /\ s \notin Holders(stream[s])
  BY DEF IInv, StreamsTypeOK, LockInv, Holders, Holding
<1>1. \A t \in Streams : Holders(t)' =
        IF t = stream[s] THEN Holders(t) \cup {s} ELSE Holders(t)
  BY DEF IInv, StreamsTypeOK, LockInv, Holders, Holding
<1>b. Cardinality(Holders(stream[s]) \cup {s}) = refs[stream[s]] + 1
  <2>1. Cardinality(Holders(stream[s]) \cup {s}) = Cardinality(Holders(stream[s])) + 1
    BY <1>a, HoldersFinite, FS_AddElement
  <2> QED
    BY <2>1, <1>a DEF IInv, RefsCountHolders
<1>c. refs' = [refs EXCEPT ![stream[s]] = @ + 1] /\ refs[stream[s]] \in Nat
  BY <1>a DEF IInv, StreamsTypeOK
<1>2. RefsCountHolders'
  BY <1>1, <1>a, <1>b, <1>c DEF IInv, StreamsTypeOK, RefsCountHolders
<1>3. StreamsTypeOK'
  BY <1>a, <1>c DEF IInv, StreamsTypeOK
<1>4. LockInv'
  BY DEF IInv, StreamsTypeOK, LockInv
<1>5. CloseInv'
  BY DEF IInv, StreamsTypeOK, CloseInv
<1>6. RunInv'
  <2>1. \A t \in Sessions : t # s /\ state[t] \in {"starting", "stopping"}
          => stream[t] # stream[s]
    BY <1>a DEF IInv, LockInv
  <2>2. \A t \in Sessions : state'[t] = "starting" => ~started'[stream'[t]]
    BY <2>1, <1>a DEF IInv, StreamsTypeOK, LockInv, RunInv
  <2>3. \A t \in Sessions : state'[t] = "stopping"
          => started'[stream'[t]] /\ Holders(stream[t])' = {}
    BY <2>1, <1>1, <1>a DEF IInv, StreamsTypeOK, LockInv, RunInv
  <2>4. \A st \in Streams : live'[st] = started'[st]
    BY <1>a DEF IInv, StreamsTypeOK, RunInv
  <2>5. \A st \in Streams : started'[st] => tracks'[st] = runs'[st]
    BY <1>a DEF IInv, StreamsTypeOK, RunInv
  <2> QED
    BY <2>2, <2>3, <2>4, <2>5 DEF RunInv
<1>7. HoldersWatchTheLiveRun'
  BY DEF IInv, StreamsTypeOK, LockInv, RunInv, HoldersWatchTheLiveRun, Holding
<1>8. UpstreamOnlyWhileUsed'
  BY <1>1, <1>a DEF IInv, StreamsTypeOK, LockInv, RunInv, UpstreamOnlyWhileUsed
<1>9. Shared!Join(s, stream[s])
  <2>1. \A w \in Streams : s \notin Holders(w)
    BY DEF Holders, Holding
  <2>2. [st \in Streams |-> Holders(st)]'
          = [[st \in Streams |-> Holders(st)] EXCEPT ![stream[s]] = @ \cup {s}]
    BY <1>1, <1>a
  <2>3. live' = [live EXCEPT ![stream[s]] = TRUE]
    BY <1>a DEF IInv, StreamsTypeOK, RunInv
  <2> QED
    BY <2>1, <2>2, <2>3 DEF Shared!Join
<1> QED
  BY <1>2, <1>3, <1>4, <1>5, <1>6, <1>7, <1>8, <1>9, <1>a DEF IInv, Shared!Next

(* Producer.Start fails or delivers no track: nobody holds the stream.     *)
LEMMA StartFailsStep ==
  ASSUME IInv, NEW s \in Sessions, StartFails(s)
  PROVE  IInv' /\ [Shared!Next]_(Shared!vars)
<1> USE StreamsAssumption DEF StartFails, registry, upstream, closing, States, Closers, EndClose
<1>1. \A t \in Streams : Holders(t)' = Holders(t)
  BY DEF IInv, StreamsTypeOK, LockInv, CloseInv, Holders, Holding
<1>2. RefsCountHolders'
  BY <1>1 DEF IInv, RefsCountHolders
<1>3. StreamsTypeOK'
  BY DEF IInv, StreamsTypeOK
<1>4. LockInv'
  BY DEF IInv, StreamsTypeOK, LockInv
<1>5. CloseInv'
  BY DEF IInv, StreamsTypeOK, CloseInv
<1>6. RunInv'
  BY <1>1 DEF IInv, StreamsTypeOK, LockInv, RunInv
<1>7. HoldersWatchTheLiveRun'
  BY DEF IInv, StreamsTypeOK, LockInv, RunInv, HoldersWatchTheLiveRun, Holding
<1>8. UpstreamOnlyWhileUsed'
  BY <1>1 DEF IInv, StreamsTypeOK, LockInv, RunInv, UpstreamOnlyWhileUsed
<1>9. UNCHANGED Shared!vars
  BY <1>1 DEF Shared!vars
<1> QED
  BY <1>2, <1>3, <1>4, <1>5, <1>6, <1>7, <1>8, <1>9 DEF IInv

(* Negotiate fails after Acquire and releases.                             *)
LEMMA AddTrackFailsStep ==
  ASSUME IInv, NEW s \in Sessions, AddTrackFails(s)
  PROVE  IInv' /\ [Shared!Next]_(Shared!vars)
<1> USE StreamsAssumption DEF AddTrackFails, registry, upstream, closing, States, Closers, EndClose
<1>1. \A t \in Streams : Holders(t)' = Holders(t)
  BY DEF IInv, StreamsTypeOK, LockInv, CloseInv, Holders, Holding
<1>2. RefsCountHolders'
  BY <1>1 DEF IInv, RefsCountHolders
<1>3. StreamsTypeOK'
  BY DEF IInv, StreamsTypeOK
<1>4. LockInv'
  BY DEF IInv, StreamsTypeOK, LockInv
<1>5. CloseInv'
  BY DEF IInv, StreamsTypeOK, CloseInv
<1>6. RunInv'
  BY <1>1 DEF IInv, StreamsTypeOK, LockInv, RunInv
<1>7. HoldersWatchTheLiveRun'
  BY DEF IInv, StreamsTypeOK, LockInv, RunInv, HoldersWatchTheLiveRun, Holding
<1>8. UpstreamOnlyWhileUsed'
  BY <1>1 DEF IInv, StreamsTypeOK, LockInv, RunInv, UpstreamOnlyWhileUsed
<1>9. UNCHANGED Shared!vars
  BY <1>1 DEF Shared!vars
<1> QED
  BY <1>2, <1>3, <1>4, <1>5, <1>6, <1>7, <1>8, <1>9 DEF IInv

(* Negotiate answers: the session keeps what it acquired.                  *)
LEMMA OpenStep ==
  ASSUME IInv, NEW s \in Sessions, Open(s)
  PROVE  IInv' /\ [Shared!Next]_(Shared!vars)
<1> USE StreamsAssumption DEF Open, registry, upstream, closing, States, Closers, EndClose
<1>1. \A t \in Streams : Holders(t)' = Holders(t)
  BY DEF IInv, StreamsTypeOK, LockInv, CloseInv, Holders, Holding
<1>2. RefsCountHolders'
  BY <1>1 DEF IInv, RefsCountHolders
<1>3. StreamsTypeOK'
  BY DEF IInv, StreamsTypeOK
<1>4. LockInv'
  BY DEF IInv, StreamsTypeOK, LockInv
<1>5. CloseInv'
  BY DEF IInv, StreamsTypeOK, CloseInv
<1>6. RunInv'
  BY <1>1 DEF IInv, StreamsTypeOK, LockInv, RunInv
<1>7. HoldersWatchTheLiveRun'
  BY DEF IInv, StreamsTypeOK, LockInv, RunInv, HoldersWatchTheLiveRun, Holding
<1>8. UpstreamOnlyWhileUsed'
  BY <1>1 DEF IInv, StreamsTypeOK, LockInv, RunInv, UpstreamOnlyWhileUsed
<1>9. UNCHANGED Shared!vars
  BY <1>1 DEF Shared!vars
<1> QED
  BY <1>2, <1>3, <1>4, <1>5, <1>6, <1>7, <1>8, <1>9 DEF IInv

(* A call of Session.Close that has not yet looked at closed.              *)
LEMMA CallCloseStep ==
  ASSUME IInv, NEW s \in Sessions, NEW k \in Closers, CallClose(s, k)
  PROVE  IInv' /\ [Shared!Next]_(Shared!vars)
<1> USE StreamsAssumption DEF CallClose, registry, upstream, closing, States, Closers, EndClose
<1>1. \A t \in Streams : Holders(t)' = Holders(t)
  BY DEF IInv, StreamsTypeOK, LockInv, CloseInv, Holders, Holding
<1>2. RefsCountHolders'
  BY <1>1 DEF IInv, RefsCountHolders
<1>3. StreamsTypeOK'
  BY DEF IInv, StreamsTypeOK
<1>4. LockInv'
  BY DEF IInv, StreamsTypeOK, LockInv
<1>5. CloseInv'
  BY DEF IInv, StreamsTypeOK, CloseInv
<1>6. RunInv'
  BY <1>1 DEF IInv, StreamsTypeOK, LockInv, RunInv
<1>7. HoldersWatchTheLiveRun'
  BY DEF IInv, StreamsTypeOK, LockInv, RunInv, HoldersWatchTheLiveRun, Holding
<1>8. UpstreamOnlyWhileUsed'
  BY <1>1 DEF IInv, StreamsTypeOK, LockInv, RunInv, UpstreamOnlyWhileUsed
<1>9. UNCHANGED Shared!vars
  BY <1>1 DEF Shared!vars
<1> QED
  BY <1>2, <1>3, <1>4, <1>5, <1>6, <1>7, <1>8, <1>9 DEF IInv

(* The first Close owns the release.                                       *)
LEMMA CloseFirstStep ==
  ASSUME IInv, NEW s \in Sessions, NEW k \in Closers, CloseFirst(s, k)
  PROVE  IInv' /\ [Shared!Next]_(Shared!vars)
<1> USE StreamsAssumption DEF CloseFirst, registry, upstream, closing, States, Closers, EndClose
<1>a. state[s] = "open"
  BY DEF IInv, CloseInv
<1>1. \A t \in Streams : Holders(t)' = Holders(t)
  BY DEF IInv, StreamsTypeOK, LockInv, CloseInv, Holders, Holding
<1>2. RefsCountHolders'
  BY <1>1 DEF IInv, RefsCountHolders
<1>3. StreamsTypeOK'
  BY DEF IInv, StreamsTypeOK
<1>4. LockInv'
  BY <1>a DEF IInv, StreamsTypeOK, LockInv
<1>5. CloseInv'
  BY DEF IInv, StreamsTypeOK, CloseInv
<1>6. RunInv'
  BY <1>1 DEF IInv, StreamsTypeOK, LockInv, RunInv
<1>7. HoldersWatchTheLiveRun'
  BY <1>a DEF IInv, StreamsTypeOK, LockInv, RunInv, HoldersWatchTheLiveRun, Holding
<1>8. UpstreamOnlyWhileUsed'
  BY <1>1, <1>a DEF IInv, StreamsTypeOK, LockInv, RunInv, UpstreamOnlyWhileUsed
<1>9. UNCHANGED Shared!vars
  BY <1>1 DEF Shared!vars
<1> QED
  BY <1>2, <1>3, <1>4, <1>5, <1>6, <1>7, <1>8, <1>9 DEF IInv

(* A later Close finds closed set and returns.                             *)
LEMMA CloseAgainStep ==
  ASSUME IInv, NEW s \in Sessions, NEW k \in Closers, CloseAgain(s, k)
  PROVE  IInv' /\ [Shared!Next]_(Shared!vars)
<1> USE StreamsAssumption DEF CloseAgain, registry, upstream, closing, States, Closers, EndClose
<1>1. \A t \in Streams : Holders(t)' = Holders(t)
  BY DEF IInv, StreamsTypeOK, LockInv, CloseInv, Holders, Holding
<1>2. RefsCountHolders'
  BY <1>1 DEF IInv, RefsCountHolders
<1>3. StreamsTypeOK'
  BY DEF IInv, StreamsTypeOK
<1>4. LockInv'
  BY DEF IInv, StreamsTypeOK, LockInv
<1>5. CloseInv'
  BY DEF IInv, StreamsTypeOK, CloseInv
<1>6. RunInv'
  BY <1>1 DEF IInv, StreamsTypeOK, LockInv, RunInv
<1>7. HoldersWatchTheLiveRun'
  BY DEF IInv, StreamsTypeOK, LockInv, RunInv, HoldersWatchTheLiveRun, Holding
<1>8. UpstreamOnlyWhileUsed'
  BY <1>1 DEF IInv, StreamsTypeOK, LockInv, RunInv, UpstreamOnlyWhileUsed
<1>9. UNCHANGED Shared!vars
  BY <1>1 DEF Shared!vars
<1> QED
  BY <1>2, <1>3, <1>4, <1>5, <1>6, <1>7, <1>8, <1>9 DEF IInv

(* A release that leaves other holders.                                    *)
LEMMA ReleaseSharedStep ==
  ASSUME IInv, NEW s \in Sessions, ReleaseShared(s)
  PROVE  IInv' /\ [Shared!Next]_(Shared!vars)
<1> USE StreamsAssumption DEF ReleaseShared, registry, upstream, closing, States, Closers, EndClose
<1>a. stream[s] \in Streams /\ s \in Holders(stream[s])
  BY DEF IInv, StreamsTypeOK, LockInv, Holders, Holding
<1>1. \A t \in Streams : Holders(t)' =
        IF t = stream[s] THEN Holders(t) \ {s} ELSE Holders(t)
  BY DEF IInv, StreamsTypeOK, LockInv, Holders, Holding
<1>b. Cardinality(Holders(stream[s]) \ {s}) = refs[stream[s]] - 1
  <2>1. Cardinality(Holders(stream[s]) \ {s}) = Cardinality(Holders(stream[s])) - 1
    BY <1>a, HoldersFinite, FS_RemoveElement
  <2> QED
    BY <2>1, <1>a DEF IInv, RefsCountHolders
<1>c. refs' = [refs EXCEPT ![stream[s]] = @ - 1] /\ refs[stream[s]] \in Nat
  BY <1>a DEF IInv, StreamsTypeOK
<1>d. refs[stream[s]] >= 1
  <2>1. Cardinality(Holders(stream[s]) \ {s}) \in Nat
    BY HoldersFinite, FS_RemoveElement, FS_CardinalityType
  <2> QED
    BY <2>1, <1>b, <1>c
<1>2. RefsCountHolders'
  BY <1>1, <1>a, <1>b, <1>c DEF IInv, StreamsTypeOK, RefsCountHolders
<1>3. StreamsTypeOK'
  BY <1>a, <1>c, <1>d DEF IInv, StreamsTypeOK
<1>4. LockInv'
  BY DEF IInv, StreamsTypeOK, LockInv
<1>5. CloseInv'
  BY DEF IInv, StreamsTypeOK, CloseInv
<1>6. RunInv'
  BY <1>1, <1>a DEF IInv, StreamsTypeOK, LockInv, RunInv
<1>7. HoldersWatchTheLiveRun'
  BY DEF IInv, StreamsTypeOK, LockInv, RunInv, HoldersWatchTheLiveRun, Holding
<1>e. Holders(stream[s])' # {}
  <2>1. Cardinality(Holders(stream[s]) \ {s}) # 0
    BY <1>a, <1>b, <1>c DEF IInv, HoldersWatchTheLiveRun, Holders
  <2> QED
    BY <2>1, <1>1, <1>a, FS_EmptySet
<1>8. UpstreamOnlyWhileUsed'
  BY <1>1, <1>a, <1>e DEF IInv, StreamsTypeOK, LockInv, RunInv, UpstreamOnlyWhileUsed
<1>9. Shared!Leave(s, stream[s])
  <2>1. [st \in Streams |-> Holders(st)]'
          = [[st \in Streams |-> Holders(st)] EXCEPT ![stream[s]] = @ \ {s}]
    BY <1>1, <1>a
  <2> QED
    BY <2>1, <1>a DEF Shared!Leave
<1> QED
  BY <1>2, <1>3, <1>4, <1>5, <1>6, <1>7, <1>8, <1>9, <1>a DEF IInv, Shared!Next

(* The last release stops the producer under the stream lock.              *)
LEMMA ReleaseLastStep ==
  ASSUME IInv, NEW s \in Sessions, ReleaseLast(s)
  PROVE  IInv' /\ [Shared!Next]_(Shared!vars)
<1> USE StreamsAssumption DEF ReleaseLast, registry, upstream, closing, States, Closers, EndClose
<1>a. stream[s] \in Streams /\ s \in Holders(stream[s])
  BY DEF IInv, StreamsTypeOK, LockInv, Holders, Holding
<1>1. \A t \in Streams : Holders(t)' =
        IF t = stream[s] THEN Holders(t) \ {s} ELSE Holders(t)
  BY DEF IInv, StreamsTypeOK, LockInv, Holders, Holding
<1>b. Cardinality(Holders(stream[s]) \ {s}) = refs[stream[s]] - 1
  <2>1. Cardinality(Holders(stream[s]) \ {s}) = Cardinality(Holders(stream[s])) - 1
    BY <1>a, HoldersFinite, FS_RemoveElement
  <2> QED
    BY <2>1, <1>a DEF IInv, RefsCountHolders
<1>c. refs' = [refs EXCEPT ![stream[s]] = @ - 1] /\ refs[stream[s]] \in Nat
  BY <1>a DEF IInv, StreamsTypeOK
<1>d. refs[stream[s]] >= 1
  <2>1. Cardinality(Holders(stream[s]) \ {s}) \in Nat
    BY HoldersFinite, FS_RemoveElement, FS_CardinalityType
  <2> QED
    BY <2>1, <1>b, <1>c
<1>2. RefsCountHolders'
  BY <1>1, <1>a, <1>b, <1>c DEF IInv, StreamsTypeOK, RefsCountHolders
<1>3. StreamsTypeOK'
  BY <1>a, <1>c, <1>d DEF IInv, StreamsTypeOK
<1>4. LockInv'
  BY DEF IInv, StreamsTypeOK, LockInv
<1>5. CloseInv'
  BY DEF IInv, StreamsTypeOK, CloseInv
<1>6. RunInv'
  <2>1. Holders(stream[s])' = {}
    <3>1. Cardinality(Holders(stream[s]) \ {s}) = 0
      BY <1>b, <1>c, <1>d
    <3>2. IsFiniteSet(Holders(stream[s]) \ {s})
      BY HoldersFinite, FS_RemoveElement
    <3> QED
      BY <3>1, <3>2, <1>1, <1>a, FS_EmptySet
  <2>2. \A t \in Sessions : state[t] \in {"starting", "stopping"}
          => stream[t] # stream[s]
    BY <1>a DEF IInv, LockInv
  <2>3. \A t \in Sessions : state'[t] = "starting" => ~started'[stream'[t]]
    BY <1>a DEF IInv, StreamsTypeOK, RunInv
  <2>4. \A t \in Sessions : state'[t] = "stopping" => Holders(stream[t])' = {}
    BY <2>1, <2>2, <1>1, <1>a DEF IInv, StreamsTypeOK, LockInv, RunInv
  <2> QED
    BY <2>3, <2>4 DEF IInv, RunInv
<1>7. HoldersWatchTheLiveRun'
  BY DEF IInv, StreamsTypeOK, LockInv, RunInv, HoldersWatchTheLiveRun, Holding
<1>8. UpstreamOnlyWhileUsed'
  BY <1>1, <1>a DEF IInv, StreamsTypeOK, LockInv, RunInv, UpstreamOnlyWhileUsed
<1>9. Shared!Leave(s, stream[s])
  <2>1. [st \in Streams |-> Holders(st)]'
          = [[st \in Streams |-> Holders(st)] EXCEPT ![stream[s]] = @ \ {s}]
    BY <1>1, <1>a
  <2> QED
    BY <2>1, <1>a DEF Shared!Leave
<1> QED
  BY <1>2, <1>3, <1>4, <1>5, <1>6, <1>7, <1>8, <1>9, <1>a DEF IInv, Shared!Next

(* Producer.Stop returns and the lock is released.                         *)
LEMMA StopReturnsStep ==
  ASSUME IInv, NEW s \in Sessions, ProducerStopped(s)
  PROVE  IInv' /\ [Shared!Next]_(Shared!vars)
<1> USE StreamsAssumption DEF ProducerStopped, registry, upstream, closing, States, Closers, EndClose
<1>a. stream[s] \in Streams /\ mu[stream[s]] = s
  BY DEF IInv, LockInv
<1>b. \A t \in Sessions : Holding(t) => stream[t] # stream[s]
  BY DEF IInv, RunInv, Holders
<1>c. started[stream[s]]
  BY DEF IInv, RunInv
<1>1. \A t \in Streams : Holders(t)' = Holders(t)
  BY DEF IInv, StreamsTypeOK, LockInv, CloseInv, Holders, Holding
<1>2. RefsCountHolders'
  BY <1>1 DEF IInv, RefsCountHolders
<1>3. StreamsTypeOK'
  BY DEF IInv, StreamsTypeOK
<1>4. LockInv'
  BY DEF IInv, StreamsTypeOK, LockInv
<1>5. CloseInv'
  BY DEF IInv, StreamsTypeOK, CloseInv
<1>6. RunInv'
  <2>1. \A t \in Sessions : t # s /\ state[t] \in {"starting", "stopping"}
          => stream[t] # stream[s]
    BY <1>a DEF IInv, LockInv
  <2>2. \A t \in Sessions : state'[t] = "starting" => ~started'[stream'[t]]
    BY <2>1, <1>a DEF IInv, StreamsTypeOK, LockInv, RunInv
  <2>3. \A t \in Sessions : state'[t] = "stopping"
          => started'[stream'[t]] /\ Holders(stream[t])' = {}
    BY <1>1, <1>a DEF IInv, StreamsTypeOK, LockInv, RunInv
  <2>4. \A st \in Streams : live'[st] = started'[st]
    BY <1>a DEF IInv, StreamsTypeOK, RunInv
  <2>5. \A st \in Streams : started'[st] => tracks'[st] = runs'[st]
    BY <1>a DEF IInv, StreamsTypeOK, RunInv
  <2> QED
    BY <2>2, <2>3, <2>4, <2>5 DEF RunInv
<1>7. HoldersWatchTheLiveRun'
  BY <1>a, <1>b DEF IInv, StreamsTypeOK, LockInv, RunInv, HoldersWatchTheLiveRun, Holding
<1>8. UpstreamOnlyWhileUsed'
  BY <1>1 DEF IInv, StreamsTypeOK, LockInv, RunInv, UpstreamOnlyWhileUsed
<1>9. Shared!Shut(stream[s])
  <2>1. live[stream[s]]
    BY <1>c, <1>a DEF IInv, RunInv
  <2> QED
    BY <2>1, <1>1, <1>a DEF IInv, RunInv, Shared!Shut
<1> QED
  BY <1>2, <1>3, <1>4, <1>5, <1>6, <1>7, <1>8, <1>9, <1>a DEF IInv, Shared!Next

-----------------------------------------------------------------------------
(* Every step preserves the invariant and is a step of SharedUpstream.     *)
LEMMA StepIInv == IInv /\ [StreamsNext]_streamsVars => IInv' /\ [Shared!Next]_(Shared!vars)
<1> SUFFICES ASSUME IInv, [StreamsNext]_streamsVars
             PROVE  IInv' /\ [Shared!Next]_(Shared!vars)
  OBVIOUS
<1>1. CASE \E st \in Streams : Put(st)
  BY <1>1, PutStep
<1>2. CASE Delete
  BY <1>2, DeleteStep
<1>3. CASE \E s \in Sessions : Get(s)
  BY <1>3, GetStep
<1>4. CASE \E s \in Sessions : AcquireStarted(s)
  BY <1>4, AcquireStartedStep
<1>5. CASE \E s \in Sessions : AcquireIdle(s)
  BY <1>5, AcquireIdleStep
<1>6. CASE \E s \in Sessions : StartOK(s)
  BY <1>6, StartOKStep
<1>7. CASE \E s \in Sessions : StartFails(s)
  BY <1>7, StartFailsStep
<1>8. CASE \E s \in Sessions : AddTrackFails(s)
  BY <1>8, AddTrackFailsStep
<1>9. CASE \E s \in Sessions : Open(s)
  BY <1>9, OpenStep
<1>10. CASE \E s \in Sessions, k \in Closers : CallClose(s, k)
  BY <1>10, CallCloseStep
<1>11. CASE \E s \in Sessions, k \in Closers : CloseFirst(s, k)
  BY <1>11, CloseFirstStep
<1>12. CASE \E s \in Sessions, k \in Closers : CloseAgain(s, k)
  BY <1>12, CloseAgainStep
<1>13. CASE \E s \in Sessions : ReleaseShared(s)
  BY <1>13, ReleaseSharedStep
<1>14. CASE \E s \in Sessions : ReleaseLast(s)
  BY <1>14, ReleaseLastStep
<1>15. CASE \E s \in Sessions : ProducerStopped(s)
  BY <1>15, StopReturnsStep
<1>16. CASE UNCHANGED streamsVars
  <2>1. IInv'
    BY <1>16 DEF streamsVars, IInv, StreamsTypeOK, LockInv, CloseInv, RunInv, RefsCountHolders,
       HoldersWatchTheLiveRun, UpstreamOnlyWhileUsed, Holders, Holding
  <2>2. UNCHANGED Shared!vars
    BY <1>16 DEF streamsVars, Shared!vars, Holders, Holding
  <2> QED
    BY <2>1, <2>2
<1> QED
  BY <1>1, <1>2, <1>3, <1>4, <1>5, <1>6, <1>7, <1>8, <1>9, <1>10, <1>11, <1>12, <1>13, <1>14, <1>15, <1>16
     DEF StreamsNext, Goroutine, Acquire, StartReturns, Attach, Close, Release, Finished

(* The inductive invariant holds in every reachable state.                 *)
LEMMA Invariance == StreamsSpec => []IInv
<1> QED
  BY InitIInv, StepIInv, PTL DEF StreamsSpec

(* The reference count never becomes negative, and the other types.        *)
THEOREM TypeCorrect == StreamsSpec => []StreamsTypeOK
<1> QED
  BY Invariance, PTL DEF IInv

(* Stream.refs counts the holders, for any number of racing sessions.      *)
THEOREM RefsCorrect == StreamsSpec => []RefsCountHolders
<1> QED
  BY Invariance, PTL DEF IInv

(* No viewer is left on the tracks of a stopped Producer run.              *)
THEOREM ViewersSeeLiveRun == StreamsSpec => []HoldersWatchTheLiveRun
<1> QED
  BY Invariance, PTL DEF IInv

(* No upstream stays open without a viewer or a Stop in progress.          *)
THEOREM NoIdleUpstream == StreamsSpec => []UpstreamOnlyWhileUsed
<1> QED
  BY Invariance, PTL DEF IInv

(* The streams implement the shared upstream (its safety part).            *)
THEOREM RefinesSharedUpstream == StreamsSpec => Shared!Spec
<1>1. StreamsInit => Shared!Init
  BY DEF StreamsInit, Shared!Init, Holders, Holding
<1> QED
  BY <1>1, InitIInv, StepIInv, PTL DEF StreamsSpec, Shared!Spec

=============================================================================
