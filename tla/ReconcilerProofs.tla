-------------------------- MODULE ReconcilerProofs --------------------------
(***************************************************************************)
(* Proofs about module Reconciler, for any number of cameras, URLs and     *)
(* goroutines that call Refresh, and any bound on the changes.             *)
(***************************************************************************)
EXTENDS Reconciler, SequenceTheorems, TLAPS

(* refreshMu is held exactly by the Refresh under way.                     *)
MutexInv == \A r \in Refreshers : ref[r].phase # "idle" <=> refreshMu = r

(* Until a Refresh has stored its result, every camera flipped since its   *)
(* bootstrap was requested is one it knows; and a camera that did not race *)
(* is in its snapshot as it is now, and keeps its flag in its result.      *)
FlipInv ==
  \A r \in Refreshers, c \in Cameras :
    /\ /\ ref[r].phase \in {"fetch", "fetched", "diff", "commit"}
       /\ onlineGen[c] > ref[r].gen
       => cams[c] # "absent"
    /\ ref[r].phase \in {"diff", "commit"} /\ c \notin raced
       => ref[r].prev[c] = cams[c]
    /\ /\ ref[r].phase = "commit"
       /\ c \notin raced
       /\ onlineGen[c] > ref[r].gen
       => ref[r].next[c] \in {cams[c], "absent"}

(* Only a Refresh that has made its diff is about to notify the servers.   *)
DirtyInv ==
  \A r \in Refreshers : ref[r].dirty => ref[r].phase \in {"commit", "publish", "notify"}

IInv ==
  /\ TypeOK
  /\ MutexInv
  /\ DiffIsAgainstCurrent
  /\ FlipInv
  /\ DirtyInv
  /\ ServersPruned
-----------------------------------------------------------------------------
(* The initial locals of a Refresh and of an allow-list edit are typed.    *)
LEMMA ConstantTypes ==
  /\ None \in [Cameras -> Statuses]
  /\ NoBoot \in [Cameras -> CtrlCameras \cup {Gone}]
  /\ Idle \in LocalsType
  /\ NoApply \in ApplyType
BY DEF None, NoBoot, Idle, NoApply, ApplyType, LocalsType, Phases, Statuses

(* The bridge starts in the inductive invariant.                           *)
LEMMA InitIInv == Init => IInv
<1> SUFFICES ASSUME Init PROVE IInv
  OBVIOUS
<1> USE ReconcilerAssumption
<1>1. TypeOK
  <2>1. ctrl \in [Cameras -> CtrlCameras \cup {Gone}]
    BY DEF Init
  <2>2. cams \in [Cameras -> Statuses] /\ told \in [Cameras -> Statuses]
    BY ConstantTypes DEF Init
  <2>3. gen \in Nat /\ onlineGen \in [Cameras -> 0 .. gen]
    BY DEF Init
  <2>4. ref \in [Refreshers -> LocalsType]
    BY ConstantTypes DEF Init
  <2>5. /\ apply \in [Editors -> ApplyType] /\ flip \in [Cameras -> Statuses]
        /\ way \in [Cameras -> SUBSET Present] /\ asking \in BOOLEAN
    BY ConstantTypes DEF Init
  <2>6. events \in Seq([cam : Cameras, status : Present])
    BY DEF Init
  <2>7. changes \in 0 .. MaxChanges /\ applies \in 0 .. MaxApplies
    BY DEF Init
  <2>8. /\ streams \in [Cameras -> URLs \cup {NoURL}]
        /\ pruned \in [Cameras -> URLs \cup {NoURL}]
    BY DEF Init
  <2>9. /\ allowed \in SUBSET Cameras /\ synced \in SUBSET Cameras
        /\ {raced, doubtful} \subseteq SUBSET Cameras /\ refreshMu \in Refreshers \cup {Nobody}
        /\ firstDone \in BOOLEAN /\ startup \in BOOLEAN
    BY DEF Init
  <2> QED
    BY <2>1, <2>2, <2>3, <2>4, <2>5, <2>6, <2>7, <2>8, <2>9 DEF TypeOK
<1>2. MutexInv /\ DiffIsAgainstCurrent /\ FlipInv
  BY DEF Init, MutexInv, DiffIsAgainstCurrent, FlipInv, Idle
<1>3. DirtyInv /\ ServersPruned
  BY DEF Init, DirtyInv, ServersPruned, Served, Idle
<1> QED
  BY <1>1, <1>2, <1>3 DEF IInv

(* A change at the controller touches nothing the bridge relies on.        *)
LEMMA CtrlChangeStep ==
  ASSUME IInv, NEW c0 \in Cameras, NEW new \in CtrlCameras \cup {Gone}, CtrlChange(c0, new)
  PROVE  IInv'
<1> USE ReconcilerAssumption DEF CtrlChange, Announced, outside, source, google, exposure, pushes
<1>1. TypeOK'
  <2>1. ctrl' \in [Cameras -> CtrlCameras \cup {Gone}]
    BY DEF IInv, TypeOK
  <2>2. changes' \in 0 .. MaxChanges
    BY DEF IInv, TypeOK
  <2>3. events' \in Seq([cam : Cameras, status : Present])
    <3>1. CASE UNCHANGED events
      BY <3>1 DEF IInv, TypeOK
    <3>2. CASE new.status \in Present \ {ctrl[c0].status}
               /\ events' = Append(events, [cam |-> c0, status |-> new.status])
      BY <3>2 DEF IInv, TypeOK
    <3> QED
      BY <3>1, <3>2
  <2> QED
    BY <2>1, <2>2, <2>3 DEF IInv, TypeOK
<1>2. MutexInv'
  BY DEF IInv, TypeOK, LocalsType, MutexInv, Idle
<1>3. DiffIsAgainstCurrent'
  BY DEF IInv, TypeOK, LocalsType, MutexInv, DiffIsAgainstCurrent, Known, Idle
<1>4. FlipInv'
  BY DEF IInv, TypeOK, LocalsType, MutexInv, FlipInv, Idle, Window, Known
<1>5. DirtyInv' /\ ServersPruned'
  BY DEF IInv, TypeOK, LocalsType, MutexInv, DirtyInv, NoticePending, ServersPruned,
         Served, Idle
<1> QED
  BY <1>1, <1>2, <1>3, <1>4, <1>5 DEF IInv

(* handleStateChange: a flip keeps the membership, and a flip inside the   *)
(* window is recorded as raced.                                            *)
LEMMA WSEventStep ==
  ASSUME IInv, WSEvent
  PROVE  IInv'
<1> USE ReconcilerAssumption DEF WSEvent, HandleStateChange, outside, source, google, exposure, pushes
<1> DEFINE c0 == Head(events).cam
           st == Head(events).status
<1>a. c0 \in Cameras /\ st \in Present
  <2>1. Head(events) \in [cam : Cameras, status : Present]
    BY HeadTailProperties DEF IInv, TypeOK
  <2> QED
    BY <2>1
<1>b. events' \in Seq([cam : Cameras, status : Present])
  BY HeadTailProperties DEF IInv, TypeOK
<1>c. \/ UNCHANGED <<cams, gen, onlineGen, flip, raced>>
      \/ /\ cams[c0] \notin {"absent", st}
         /\ cams' = [cams EXCEPT ![c0] = st]
         /\ gen' = gen + 1
         /\ onlineGen' = [onlineGen EXCEPT ![c0] = gen + 1]
         /\ flip' = [flip EXCEPT ![c0] = st]
         /\ raced' = IF Window \/ Held(c0) THEN raced \cup {c0} ELSE raced
  BY DEF NextGen
<1> HIDE DEF c0, st
<1>1. TypeOK'
  <2>1. CASE UNCHANGED <<cams, gen, onlineGen, flip, raced>>
    BY <1>b, <2>1 DEF IInv, TypeOK
  <2>2. CASE ~UNCHANGED <<cams, gen, onlineGen, flip, raced>>
    <3>0. st \in Statuses
      BY <1>a DEF Statuses, Present
    <3>1. cams' \in [Cameras -> Statuses]
      BY <3>0, <1>c, <2>2 DEF IInv, TypeOK
    <3>4. flip' \in [Cameras -> Statuses]
      BY <3>0, <1>c, <2>2 DEF IInv, TypeOK
    <3>2. gen' \in Nat /\ onlineGen' \in [Cameras -> 0 .. gen']
      BY <1>a, <1>c, <2>2 DEF IInv, TypeOK
    <3>3. raced' \in SUBSET Cameras
      BY <1>a, <1>c, <2>2 DEF IInv, TypeOK
    <3> QED
      BY <1>b, <3>1, <3>2, <3>3, <3>4 DEF IInv, TypeOK
  <2> QED
    BY <2>1, <2>2
<1>2. MutexInv'
  BY DEF IInv, TypeOK, LocalsType, MutexInv, Idle
<1>3. DiffIsAgainstCurrent'
  <2>1. Known(cams)' = Known(cams)
    BY <1>a, <1>c DEF IInv, TypeOK, Known, Present
  <2> QED
    BY <2>1 DEF IInv, DiffIsAgainstCurrent, Known
<1>4. FlipInv'
  <2>1. CASE UNCHANGED <<cams, gen, onlineGen, flip, raced>>
    BY <2>1 DEF IInv, FlipInv
  <2>2. CASE ~UNCHANGED <<cams, gen, onlineGen, flip, raced>>
    <3> SUFFICES ASSUME NEW r \in Refreshers, NEW c \in Cameras
                 PROVE  FlipInv!(r, c)'
      BY DEF FlipInv
    <3>1. CASE c = c0
      BY <1>a, <1>c, <2>2, <3>1 DEF IInv, TypeOK, FlipInv, Window, Present
    <3>2. CASE c # c0
      BY <1>a, <1>c, <2>2, <3>2 DEF IInv, TypeOK, FlipInv
    <3> QED
      BY <3>1, <3>2
  <2> QED
    BY <2>1, <2>2
<1>5. DirtyInv' /\ ServersPruned'
  BY DEF IInv, TypeOK, LocalsType, MutexInv, DirtyInv, NoticePending, ServersPruned,
         Served, Idle
<1> QED
  BY <1>1, <1>2, <1>3, <1>4, <1>5 DEF IInv

(* Refresh takes the free refreshMu and samples the generation: no camera  *)
(* was flipped later than that.                                            *)
LEMMA RefreshBeginStep ==
  ASSUME IInv, NEW r0 \in Refreshers, RefreshBegin(r0)
  PROVE  IInv'
<1> USE ReconcilerAssumption DEF RefreshBegin, outside, source, google, exposure, pushes
<1>1. TypeOK'
  BY DEF IInv, TypeOK, LocalsType, Phases, Idle, NoApply, NoBoot, None, Gone,
         Statuses, Present, CtrlCameras
<1>2. MutexInv'
  BY DEF IInv, TypeOK, LocalsType, MutexInv, Idle
<1>3. DiffIsAgainstCurrent'
  BY DEF IInv, TypeOK, LocalsType, MutexInv, DiffIsAgainstCurrent, Known, Idle
<1>4. FlipInv'
  BY DEF IInv, TypeOK, LocalsType, MutexInv, FlipInv, Idle, Window, Known
<1>5. DirtyInv' /\ ServersPruned'
  BY DEF IInv, TypeOK, LocalsType, MutexInv, DirtyInv, NoticePending, ServersPruned,
         Served, Idle
<1> QED
  BY <1>1, <1>2, <1>3, <1>4, <1>5 DEF IInv

(* The bootstrap answer is only stored in the locals.                      *)
LEMMA BootstrapOKStep ==
  ASSUME IInv, NEW r0 \in Refreshers, BootstrapOK(r0)
  PROVE  IInv'
<1> USE ReconcilerAssumption DEF BootstrapOK, outside, source, google, exposure, pushes
<1>1. TypeOK'
  <2>1. ref'[r0] \in LocalsType
    BY ConstantTypes DEF IInv, TypeOK, LocalsType, Phases
  <2> QED
    BY <2>1 DEF IInv, TypeOK
<1>2. MutexInv'
  BY DEF IInv, TypeOK, LocalsType, MutexInv, Idle
<1>3. DiffIsAgainstCurrent'
  BY DEF IInv, TypeOK, LocalsType, MutexInv, DiffIsAgainstCurrent, Known, Idle
<1>4. FlipInv'
  BY DEF IInv, TypeOK, LocalsType, MutexInv, FlipInv, Idle, Window, Known
<1>5. DirtyInv' /\ ServersPruned'
  BY DEF IInv, TypeOK, LocalsType, MutexInv, DirtyInv, NoticePending, ServersPruned,
         Served, Idle
<1> QED
  BY <1>1, <1>2, <1>3, <1>4, <1>5 DEF IInv

(* A failed bootstrap gives refreshMu back.                                *)
LEMMA BootstrapFailsStep ==
  ASSUME IInv, NEW r0 \in Refreshers, BootstrapFails(r0)
  PROVE  IInv'
<1> USE ReconcilerAssumption DEF BootstrapFails, outside, source, google, exposure, pushes
<1>1. TypeOK'
  BY DEF IInv, TypeOK, LocalsType, Phases, Idle, NoApply, NoBoot, None, Gone,
         Statuses, Present, CtrlCameras
<1>2. MutexInv'
  BY DEF IInv, TypeOK, LocalsType, MutexInv, Idle
<1>3. DiffIsAgainstCurrent'
  BY DEF IInv, TypeOK, LocalsType, MutexInv, DiffIsAgainstCurrent, Known, Idle
<1>4. FlipInv'
  BY DEF IInv, TypeOK, LocalsType, MutexInv, FlipInv, Idle, Window, Known
<1>5. DirtyInv' /\ ServersPruned'
  <2>1. /\ ~ref[r0].dirty /\ ref'[r0].dirty = FALSE
        /\ \A r \in Refreshers \ {r0} : ref'[r] = ref[r]
    BY DEF IInv, TypeOK, DirtyInv, Idle
  <2>2. DirtyInv'
    BY <2>1 DEF IInv, DirtyInv
  <2>3. ServersPruned'
    BY <2>1 DEF IInv, NoticePending, ServersPruned, Served
  <2> QED
    BY <2>2, <2>3
<1> QED
  BY <1>1, <1>2, <1>3, <1>4, <1>5 DEF IInv

(* The snapshot is of the current camera list.                             *)
LEMMA TakeSnapshotStep ==
  ASSUME IInv, NEW r0 \in Refreshers, TakeSnapshot(r0)
  PROVE  IInv'
<1> USE ReconcilerAssumption DEF TakeSnapshot, outside, source, google, exposure, pushes
<1>1. TypeOK'
  <2>1. ref'[r0] \in LocalsType
    BY ConstantTypes DEF IInv, TypeOK, LocalsType, Phases
  <2> QED
    BY <2>1 DEF IInv, TypeOK
<1>2. MutexInv'
  BY DEF IInv, TypeOK, LocalsType, MutexInv, Idle
<1>3. DiffIsAgainstCurrent'
  BY DEF IInv, TypeOK, LocalsType, MutexInv, DiffIsAgainstCurrent, Known, Idle
<1>4. FlipInv'
  BY DEF IInv, TypeOK, LocalsType, MutexInv, FlipInv, Idle, Window, Known
<1>5. DirtyInv' /\ ServersPruned'
  <2>0. ref \in [Refreshers -> LocalsType] /\ ref[r0] \in LocalsType
    BY DEF IInv, TypeOK
  <2>1. /\ ~ref[r0].dirty /\ ~ref'[r0].dirty
        /\ \A r \in Refreshers \ {r0} : ref'[r] = ref[r]
    <3>1. ~ref[r0].dirty
      BY DEF IInv, DirtyInv
    <3>2. ref'[r0].dirty = ref[r0].dirty
      BY <2>0 DEF LocalsType
    <3>3. \A r \in Refreshers \ {r0} : ref'[r] = ref[r]
      BY <2>0
    <3> QED
      BY <3>1, <3>2, <3>3
  <2>2. DirtyInv'
    BY <2>1 DEF IInv, DirtyInv
  <2>3. ServersPruned'
    BY <2>1 DEF IInv, NoticePending, ServersPruned, Served
  <2> QED
    BY <2>2, <2>3
<1> QED
  BY <1>1, <1>2, <1>3, <1>4, <1>5 DEF IInv

(* The diff keeps the flips it must keep, and remembers if URLs changed.   *)
LEMMA DiffStep ==
  ASSUME IInv, NEW r0 \in Refreshers, Diff(r0)
  PROVE  IInv'
<1> USE ReconcilerAssumption
<1> DEFINE boot  == ref[r0].boot
           prev  == ref[r0].prev
           keep  == {c \in Cameras : boot[c] # Gone} \cap KeptFlips(r0)
           next  == [c \in Cameras |-> IF c \in keep THEN prev[c]
                                                   ELSE boot[c].status]
           dirty == StreamsChanged(r0)
<1>a. /\ ref[r0].phase = "diff"
      /\ streams' = [c \in Cameras |-> boot[c].url]
      /\ UNCHANGED <<ctrl, changes, events, cams, gen, onlineGen, allowed, pruned,
                     refreshMu, firstDone, startup, apply, applies, told, synced,
                     flip, way, asking, doubtful, raced>>
  BY DEF Diff, outside, google, exposure, pushes
<1>b. PICK sync \in BOOLEAN :
        ref' = [ref EXCEPT ![r0] = [ref[r0] EXCEPT
                  !.phase = "commit", !.boot = NoBoot, !.next = next,
                  !.dirty = dirty, !.sync = sync]]
  BY DEF Diff, IInv, TypeOK, LocalsType
<1>c. ref[r0] \in LocalsType /\ ref \in [Refreshers -> LocalsType]
  BY DEF IInv, TypeOK
<1>d. /\ boot \in [Cameras -> CtrlCameras \cup {Gone}]
      /\ prev \in [Cameras -> Statuses]
  BY <1>c DEF LocalsType
<1>e. next \in [Cameras -> Statuses]
  BY <1>d DEF CtrlCameras, Gone, Statuses, Present
<1>f. dirty \in BOOLEAN
  BY DEF StreamsChanged
<1>g. /\ ref'[r0].phase = "commit" /\ ref'[r0].next = next
      /\ ref'[r0].prev = prev /\ ref'[r0].gen = ref[r0].gen
      /\ ref'[r0].dirty = dirty
      /\ \A r \in Refreshers \ {r0} : ref'[r] = ref[r]
  BY <1>b, <1>c DEF LocalsType
<1>h. \A c \in keep : c \in Known(prev) /\ onlineGen[c] > ref[r0].gen
  BY DEF KeptFlips
<1>i. \A c \in Cameras : c \in Known(prev) /\ onlineGen[c] > ref[r0].gen
                          => next[c] \in {prev[c], "absent"}
  BY <1>d DEF KeptFlips, Gone
<1> HIDE DEF boot, prev, keep, next, dirty
<1>1. TypeOK'
  <2>1. ref'[r0] \in LocalsType
    BY <1>b, <1>c, <1>e, <1>f, ConstantTypes DEF LocalsType, Phases
  <2>2. ref' \in [Refreshers -> LocalsType]
    BY <2>1, <1>b, <1>c
  <2>3. streams' \in [Cameras -> URLs \cup {NoURL}]
    BY <1>a, <1>d DEF CtrlCameras, Gone
  <2> QED
    BY <1>a, <2>2, <2>3 DEF IInv, TypeOK
<1>2. MutexInv'
  BY <1>a, <1>g DEF IInv, MutexInv
<1>3. DiffIsAgainstCurrent'
  <2>1. Known(prev) = Known(cams)
    BY <1>a DEF IInv, DiffIsAgainstCurrent, prev
  <2> QED
    BY <2>1, <1>a, <1>g DEF IInv, DiffIsAgainstCurrent, Known
<1>4. FlipInv'
  <2> SUFFICES ASSUME NEW r \in Refreshers, NEW c \in Cameras
               PROVE  FlipInv!(r, c)'
    BY DEF FlipInv
  <2>1. CASE r = r0
    <3>1. onlineGen[c] > ref[r0].gen => cams[c] # "absent"
      BY <1>a DEF IInv, FlipInv
    <3>2. c \notin raced => prev[c] = cams[c]
      BY <1>a DEF IInv, FlipInv, prev
    <3>3. c \notin raced /\ onlineGen[c] > ref[r0].gen
            => next[c] \in {cams[c], "absent"}
      BY <3>1, <3>2, <1>i DEF Known
    <3> QED
      BY <2>1, <3>1, <3>2, <3>3, <1>a, <1>g
  <2>2. CASE r # r0
    BY <2>2, <1>a, <1>g DEF IInv, FlipInv
  <2> QED
    BY <2>1, <2>2
<1>5. DirtyInv'
  BY <1>g DEF IInv, DirtyInv
<1>6. ServersPruned'
  <2>1. CASE dirty
    BY <2>1, <1>g DEF ServersPruned, NoticePending
  <2>2. CASE ~dirty
    <3>1. \A c \in Cameras : boot[c].url = streams[c]
      BY <2>2 DEF dirty, StreamsChanged, boot
    <3>2. streams' = streams
      BY <3>1, <1>a DEF IInv, TypeOK
    <3>3. \A r \in Refreshers : ref[r].phase # "idle" => r = r0
      BY <1>a DEF IInv, MutexInv
    <3>4. \A r \in Refreshers : ~ref[r].dirty
      BY <3>3, <1>a DEF IInv, DirtyInv
    <3>5. NoticePending => NoticePending'
      BY <3>4, <1>a DEF NoticePending
    <3> QED
      BY <3>2, <3>5, <1>a DEF IInv, ServersPruned
  <2> QED
    BY <2>1, <2>2
<1> QED
  BY <1>1, <1>2, <1>3, <1>4, <1>5, <1>6 DEF IInv

(* CameraSource.set: no other Refresh is under way to be overtaken.        *)
LEMMA SetCamerasStep ==
  ASSUME IInv, NEW r0 \in Refreshers, SetCameras(r0)
  PROVE  IInv'
<1> USE ReconcilerAssumption DEF SetCameras, outside, google, exposure, pushes
<1>a. ref[r0] \in LocalsType /\ ref \in [Refreshers -> LocalsType]
  BY DEF IInv, TypeOK
<1>b. /\ ref'[r0].phase = "publish" /\ ref'[r0].next = ref[r0].next
      /\ ref'[r0].dirty = ref[r0].dirty
      /\ \A r \in Refreshers \ {r0} : ref'[r] = ref[r]
  BY <1>a DEF LocalsType
<1>c. \A r \in Refreshers \ {r0} : ref[r].phase = "idle"
  BY DEF IInv, MutexInv
<1>1. TypeOK'
  <2>1. ref'[r0] \in LocalsType
    BY <1>a DEF LocalsType, Phases
  <2>2. ref' \in [Refreshers -> LocalsType]
    BY <2>1, <1>a
  <2>3. cams' \in [Cameras -> Statuses]
    BY <1>a DEF LocalsType
  <2>4. raced' \in SUBSET Cameras
    BY DEF IInv, TypeOK
  <2> QED
    BY <2>2, <2>3, <2>4 DEF IInv, TypeOK
<1>2. MutexInv'
  BY <1>b DEF IInv, MutexInv
<1>3. DiffIsAgainstCurrent'
  BY <1>b, <1>c DEF DiffIsAgainstCurrent, Known
<1>4. FlipInv'
  BY <1>b, <1>c DEF FlipInv
<1>5. DirtyInv' /\ ServersPruned'
  BY <1>b DEF IInv, DirtyInv, NoticePending, ServersPruned, Served
<1> QED
  BY <1>1, <1>2, <1>3, <1>4, <1>5 DEF IInv

(* A ReportState that leaves keeps the types of what is on its way.        *)
LEMMA ReportTypes ==
  ASSUME TypeOK, NEW states, ReportState(states)
  PROVE  way' \in [Cameras -> SUBSET Present] /\ doubtful' \in SUBSET Cameras
BY DEF TypeOK, ReportState, Known

(* What is shown of typed states is typed.                                 *)
LEMMA ShownTypes ==
  ASSUME NEW states \in [Cameras -> Statuses]
  PROVE  Shown(states) \in [Cameras -> Statuses]
BY DEF Shown, Statuses

(* The report of a flip changes only what is on its way.                   *)
LEMMA ReportFlipStep ==
  ASSUME IInv, ReportFlip
  PROVE  IInv'
<1> USE ReconcilerAssumption DEF ReportFlip, outside, source, google, exposure, pushes
<1>1. TypeOK'
  BY ReportTypes, ConstantTypes DEF IInv, TypeOK
<1>2. MutexInv'
  BY DEF IInv, TypeOK, LocalsType, MutexInv, Idle
<1>3. DiffIsAgainstCurrent'
  BY DEF IInv, TypeOK, LocalsType, MutexInv, DiffIsAgainstCurrent, Known, Idle
<1>4. FlipInv'
  BY DEF IInv, TypeOK, LocalsType, MutexInv, FlipInv, Idle, Window, Known
<1>5. DirtyInv' /\ ServersPruned'
  BY DEF IInv, TypeOK, LocalsType, MutexInv, DirtyInv, NoticePending, ServersPruned,
         Served, Idle
<1> QED
  BY <1>1, <1>2, <1>3, <1>4, <1>5 DEF IInv

(* Publish leaves with the pushes and keeps the locals it has.             *)
LEMMA PublishStep ==
  ASSUME IInv, NEW r0 \in Refreshers, Publish(r0)
  PROVE  IInv'
<1> USE ReconcilerAssumption DEF Publish, outside, source, google, exposure
<1>a. ref[r0] \in LocalsType /\ ref \in [Refreshers -> LocalsType]
  BY DEF IInv, TypeOK
<1>b. /\ ref'[r0].phase = "notify" /\ ref'[r0].next = ref[r0].next
      /\ ref'[r0].dirty = ref[r0].dirty /\ ref'[r0] \in LocalsType
      /\ \A r \in Refreshers \ {r0} : ref'[r] = ref[r]
  BY <1>a DEF LocalsType, Phases
<1>1. TypeOK'
  <2>1. ref' \in [Refreshers -> LocalsType]
    BY <1>a, <1>b
  <2>2. asking' \in BOOLEAN
    OBVIOUS
  <2> QED
    BY <2>1, <2>2, ReportTypes DEF IInv, TypeOK
<1>2. MutexInv'
  BY <1>b DEF IInv, MutexInv
<1>3. DiffIsAgainstCurrent'
  BY <1>b DEF IInv, DiffIsAgainstCurrent, Known
<1>4. FlipInv'
  BY <1>b DEF IInv, FlipInv
<1>5. DirtyInv' /\ ServersPruned'
  BY <1>b DEF IInv, DirtyInv, NoticePending, ServersPruned, Served
<1> QED
  BY <1>1, <1>2, <1>3, <1>4, <1>5 DEF IInv

(* The end of a Refresh: the servers prune if URLs changed.                *)
LEMMA NotifyStep ==
  ASSUME IInv, NEW r0 \in Refreshers, Notify(r0)
  PROVE  IInv'
<1> USE ReconcilerAssumption DEF Notify, outside, source, google, exposure, pushes
<1>a. ref[r0] \in LocalsType /\ ref \in [Refreshers -> LocalsType]
  BY DEF IInv, TypeOK
<1>b. ref'[r0] = Idle /\ \A r \in Refreshers \ {r0} : ref'[r] = ref[r]
  BY <1>a
<1>c. \A r \in Refreshers : ref'[r].phase = "idle"
  BY <1>b DEF IInv, MutexInv, Idle
<1>1. TypeOK'
  <2>1. ref' \in [Refreshers -> LocalsType]
    BY <1>a, ConstantTypes
  <2>2. pruned' \in [Cameras -> URLs \cup {NoURL}]
    BY DEF IInv, TypeOK, Served
  <2>3. refreshMu' \in Refreshers \cup {Nobody}
    OBVIOUS
  <2> QED
    BY <2>1, <2>2, <2>3 DEF IInv, TypeOK
<1>2. MutexInv'
  BY <1>c DEF MutexInv
<1>3. DiffIsAgainstCurrent'
  BY <1>c DEF DiffIsAgainstCurrent
<1>4. FlipInv'
  BY <1>c DEF FlipInv
<1>5. DirtyInv'
  BY <1>b DEF IInv, DirtyInv, Idle
<1>6. ServersPruned'
  <2>1. CASE ref[r0].dirty
    BY <2>1 DEF ServersPruned, Served
  <2>2. CASE ~ref[r0].dirty
    <3>1. NoticePending => NoticePending'
      BY <2>2, <1>b DEF NoticePending
    <3> QED
      BY <2>2, <3>1 DEF IInv, ServersPruned, Served
  <2> QED
    BY <2>1, <2>2
<1> QED
  BY <1>1, <1>2, <1>3, <1>4, <1>5, <1>6 DEF IInv

(* StartupRequestSync changes only what Google knows.                      *)
LEMMA StartupSyncStep ==
  ASSUME IInv, StartupSync
  PROVE  IInv'
<1> USE ReconcilerAssumption DEF StartupSync, outside, source, google, exposure, pushes
<1>1. TypeOK'
  BY DEF IInv, TypeOK, Exposed, Known, Fetched, Unfetched, Missed
<1>2. MutexInv'
  BY DEF IInv, TypeOK, LocalsType, MutexInv, Idle
<1>3. DiffIsAgainstCurrent'
  BY DEF IInv, TypeOK, LocalsType, MutexInv, DiffIsAgainstCurrent, Known, Idle
<1>4. FlipInv'
  BY DEF IInv, TypeOK, LocalsType, MutexInv, FlipInv, Idle, Window, Known
<1>5. DirtyInv' /\ ServersPruned'
  BY DEF IInv, TypeOK, LocalsType, MutexInv, DirtyInv, NoticePending, ServersPruned,
         Served, Idle
<1> QED
  BY <1>1, <1>2, <1>3, <1>4, <1>5 DEF IInv

(* An answer to a RequestSync changes only what Google knows.              *)
LEMMA SyncAnsweredStep ==
  ASSUME IInv, SyncAnswered
  PROVE  IInv'
<1> USE ReconcilerAssumption DEF SyncAnswered, outside, source, google, exposure, pushes
<1>1. TypeOK'
  BY DEF IInv, TypeOK, Exposed, Known, Fetched, Unfetched, Missed
<1>2. MutexInv'
  BY DEF IInv, TypeOK, LocalsType, MutexInv, Idle
<1>3. DiffIsAgainstCurrent'
  BY DEF IInv, TypeOK, LocalsType, MutexInv, DiffIsAgainstCurrent, Known, Idle
<1>4. FlipInv'
  BY DEF IInv, TypeOK, LocalsType, MutexInv, FlipInv, Idle, Window, Known
<1>5. DirtyInv' /\ ServersPruned'
  BY DEF IInv, TypeOK, LocalsType, MutexInv, DirtyInv, NoticePending, ServersPruned,
         Served, Idle
<1> QED
  BY <1>1, <1>2, <1>3, <1>4, <1>5 DEF IInv

(* So does the arrival of a report ...                                     *)
LEMMA ReportArrivesStep ==
  ASSUME IInv, NEW c0 \in Cameras, NEW st \in Present, ReportArrives(c0, st)
  PROVE  IInv'
<1> USE ReconcilerAssumption DEF ReportArrives, outside, source, google, exposure, pushes
<1>1. TypeOK'
  <2>1. told' \in [Cameras -> Statuses]
    BY DEF IInv, TypeOK, Present, Statuses
  <2>2. way' \in [Cameras -> SUBSET Present]
    BY DEF IInv, TypeOK
  <2> QED
    BY <2>1, <2>2 DEF IInv, TypeOK
<1>2. MutexInv'
  BY DEF IInv, TypeOK, LocalsType, MutexInv, Idle
<1>3. DiffIsAgainstCurrent'
  BY DEF IInv, TypeOK, LocalsType, MutexInv, DiffIsAgainstCurrent, Known, Idle
<1>4. FlipInv'
  BY DEF IInv, TypeOK, LocalsType, MutexInv, FlipInv, Idle, Window, Known
<1>5. DirtyInv' /\ ServersPruned'
  BY DEF IInv, TypeOK, LocalsType, MutexInv, DirtyInv, NoticePending, ServersPruned,
         Served, Idle
<1> QED
  BY <1>1, <1>2, <1>3, <1>4, <1>5 DEF IInv

(* ... and its loss.                                                       *)
LEMMA ReportLostStep ==
  ASSUME IInv, NEW c0 \in Cameras, NEW st \in Present, ReportLost(c0, st)
  PROVE  IInv'
<1> USE ReconcilerAssumption DEF ReportLost, outside, source, google, exposure, pushes
<1>1. TypeOK'
  BY DEF IInv, TypeOK
<1>2. MutexInv'
  BY DEF IInv, TypeOK, LocalsType, MutexInv, Idle
<1>3. DiffIsAgainstCurrent'
  BY DEF IInv, TypeOK, LocalsType, MutexInv, DiffIsAgainstCurrent, Known, Idle
<1>4. FlipInv'
  BY DEF IInv, TypeOK, LocalsType, MutexInv, FlipInv, Idle, Window, Known
<1>5. DirtyInv' /\ ServersPruned'
  BY DEF IInv, TypeOK, LocalsType, MutexInv, DirtyInv, NoticePending, ServersPruned,
         Served, Idle
<1> QED
  BY <1>1, <1>2, <1>3, <1>4, <1>5 DEF IInv

(* SetAllowed is about to notify the servers.                              *)
LEMMA ApplyAllowedStep ==
  ASSUME IInv, NEW e0 \in Editors, NEW a \in SUBSET Cameras, ApplyAllowed(e0, a)
  PROVE  IInv'
<1> USE ReconcilerAssumption DEF ApplyAllowed, outside, source, google, exposure, pushes
<1>1. TypeOK'
  <2>0. apply'[e0] \in ApplyType
    BY ConstantTypes DEF IInv, TypeOK, ApplyType
  <2>1. apply' \in [Editors -> ApplyType]
    BY <2>0 DEF IInv, TypeOK
  <2>2. raced' \in SUBSET Cameras /\ applies' \in 0 .. MaxApplies
    BY DEF IInv, TypeOK
  <2> QED
    BY <2>1, <2>2 DEF IInv, TypeOK
<1>2. MutexInv'
  BY DEF IInv, TypeOK, LocalsType, MutexInv, Idle
<1>3. DiffIsAgainstCurrent'
  BY DEF IInv, TypeOK, LocalsType, MutexInv, DiffIsAgainstCurrent, Known, Idle
<1>4. FlipInv'
  BY DEF IInv, TypeOK, LocalsType, MutexInv, FlipInv, Idle, Window, Known
<1>5. DirtyInv'
  BY DEF IInv, DirtyInv
<1>6. ServersPruned'
  <2>1. apply'[e0].phase = "notify"
    BY DEF IInv, TypeOK
  <2> QED
    BY <2>1 DEF ServersPruned, NoticePending
<1> QED
  BY <1>1, <1>2, <1>3, <1>4, <1>5, <1>6 DEF IInv

(* The servers prune against the list in force.                            *)
LEMMA ApplyNotifyStep ==
  ASSUME IInv, NEW e0 \in Editors, ApplyNotify(e0)
  PROVE  IInv'
<1> USE ReconcilerAssumption DEF ApplyNotify, outside, source, google, exposure, pushes
<1>1. TypeOK'
  <2>0. apply'[e0] \in ApplyType
    BY ConstantTypes DEF IInv, TypeOK, ApplyType
  <2>1. apply' \in [Editors -> ApplyType]
    BY <2>0 DEF IInv, TypeOK
  <2>2. pruned' \in [Cameras -> URLs \cup {NoURL}]
    BY DEF IInv, TypeOK, Served
  <2> QED
    BY <2>1, <2>2 DEF IInv, TypeOK
<1>2. MutexInv'
  BY DEF IInv, TypeOK, LocalsType, MutexInv, Idle
<1>3. DiffIsAgainstCurrent'
  BY DEF IInv, TypeOK, LocalsType, MutexInv, DiffIsAgainstCurrent, Known, Idle
<1>4. FlipInv'
  BY DEF IInv, TypeOK, LocalsType, MutexInv, FlipInv, Idle, Window, Known
<1>5. DirtyInv' /\ ServersPruned'
  BY DEF IInv, TypeOK, LocalsType, MutexInv, DirtyInv, NoticePending, ServersPruned,
         Served, Idle
<1> QED
  BY <1>1, <1>2, <1>3, <1>4, <1>5 DEF IInv

(* The other steps of an edit change only what it holds ...                *)
LEMMA ApplySnapshotStep ==
  ASSUME IInv, NEW e0 \in Editors, ApplySnapshot(e0)
  PROVE  IInv'
<1> USE ReconcilerAssumption DEF ApplySnapshot, outside, source, google, exposure, pushes
<1>1. TypeOK'
  <2>0. apply'[e0] \in ApplyType
    BY ConstantTypes DEF IInv, TypeOK, ApplyType
  <2>1. apply' \in [Editors -> ApplyType]
    BY <2>0 DEF IInv, TypeOK
  <2> QED
    BY <2>1 DEF IInv, TypeOK
<1>2. MutexInv'
  BY DEF IInv, TypeOK, LocalsType, MutexInv, Idle
<1>3. DiffIsAgainstCurrent'
  BY DEF IInv, TypeOK, LocalsType, MutexInv, DiffIsAgainstCurrent, Known, Idle
<1>4. FlipInv'
  BY DEF IInv, TypeOK, LocalsType, MutexInv, FlipInv, Idle, Window, Known
<1>5. DirtyInv'
  BY DEF IInv, DirtyInv
<1>6. ServersPruned'
  <2>1. \A e \in Editors : apply[e].phase = "notify" => apply'[e].phase = "notify"
    BY DEF IInv, TypeOK
  <2>2. NoticePending => NoticePending'
    BY <2>1 DEF NoticePending
  <2> QED
    BY <2>2 DEF IInv, ServersPruned, Served
<1> QED
  BY <1>1, <1>2, <1>3, <1>4, <1>5, <1>6 DEF IInv

(* ... and what it shows ...                                               *)
LEMMA ApplyFilterStep ==
  ASSUME IInv, NEW e0 \in Editors, ApplyFilter(e0)
  PROVE  IInv'
<1> USE ReconcilerAssumption DEF ApplyFilter, outside, source, google, exposure, pushes
<1>1. TypeOK'
  <2>0. apply'[e0] \in ApplyType
    BY ShownTypes DEF IInv, TypeOK, ApplyType
  <2>1. apply' \in [Editors -> ApplyType]
    BY <2>0 DEF IInv, TypeOK
  <2> QED
    BY <2>1 DEF IInv, TypeOK
<1>2. MutexInv'
  BY DEF IInv, TypeOK, LocalsType, MutexInv, Idle
<1>3. DiffIsAgainstCurrent'
  BY DEF IInv, TypeOK, LocalsType, MutexInv, DiffIsAgainstCurrent, Known, Idle
<1>4. FlipInv'
  BY DEF IInv, TypeOK, LocalsType, MutexInv, FlipInv, Idle, Window, Known
<1>5. DirtyInv'
  BY DEF IInv, DirtyInv
<1>6. ServersPruned'
  <2>1. \A e \in Editors : apply[e].phase = "notify" => apply'[e].phase = "notify"
    BY DEF IInv, TypeOK
  <2>2. NoticePending => NoticePending'
    BY <2>1 DEF NoticePending
  <2> QED
    BY <2>2 DEF IInv, ServersPruned, Served
<1> QED
  BY <1>1, <1>2, <1>3, <1>4, <1>5, <1>6 DEF IInv

(* ... and what Google knows.                                              *)
LEMMA ApplySyncOKStep ==
  ASSUME IInv, NEW e0 \in Editors, ApplySyncOK(e0)
  PROVE  IInv'
<1> USE ReconcilerAssumption DEF ApplySyncOK, outside, source, google, exposure, pushes
<1>1. TypeOK'
  <2>0. apply'[e0] \in ApplyType
    BY ConstantTypes DEF IInv, TypeOK, ApplyType
  <2>1. apply' \in [Editors -> ApplyType]
    BY <2>0 DEF IInv, TypeOK
  <2>2. synced' \in SUBSET Cameras
    BY DEF Fetched, Exposed, Known
  <2> QED
    BY <2>1, <2>2, ReportTypes DEF IInv, TypeOK
<1>2. MutexInv'
  BY DEF IInv, TypeOK, LocalsType, MutexInv, Idle
<1>3. DiffIsAgainstCurrent'
  BY DEF IInv, TypeOK, LocalsType, MutexInv, DiffIsAgainstCurrent, Known, Idle
<1>4. FlipInv'
  BY DEF IInv, TypeOK, LocalsType, MutexInv, FlipInv, Idle, Window, Known
<1>5. DirtyInv'
  BY DEF IInv, DirtyInv
<1>6. ServersPruned'
  <2>1. \A e \in Editors : apply[e].phase = "notify" => apply'[e].phase = "notify"
    BY DEF IInv, TypeOK
  <2>2. NoticePending => NoticePending'
    BY <2>1 DEF NoticePending
  <2> QED
    BY <2>2 DEF IInv, ServersPruned, Served
<1> QED
  BY <1>1, <1>2, <1>3, <1>4, <1>5, <1>6 DEF IInv

(* A sync that failed changes nothing but the record of it.                *)
LEMMA ApplySyncFailsStep ==
  ASSUME IInv, NEW e0 \in Editors, ApplySyncFails(e0)
  PROVE  IInv'
<1> USE ReconcilerAssumption DEF ApplySyncFails, outside, source, google, exposure, pushes
<1>1. TypeOK'
  <2>0. apply'[e0] \in ApplyType
    BY ConstantTypes DEF IInv, TypeOK, ApplyType
  <2>1. apply' \in [Editors -> ApplyType]
    BY <2>0 DEF IInv, TypeOK
  <2>2. doubtful' \in SUBSET Cameras /\ synced' = synced
    BY DEF IInv, TypeOK, Exposed, Known, Missed, Unfetched
  <2> QED
    BY <2>1, <2>2 DEF IInv, TypeOK
<1>2. MutexInv'
  BY DEF IInv, TypeOK, LocalsType, MutexInv, Idle
<1>3. DiffIsAgainstCurrent'
  BY DEF IInv, TypeOK, LocalsType, MutexInv, DiffIsAgainstCurrent, Known, Idle
<1>4. FlipInv'
  BY DEF IInv, TypeOK, LocalsType, MutexInv, FlipInv, Idle, Window, Known
<1>5. DirtyInv'
  BY DEF IInv, DirtyInv
<1>6. ServersPruned'
  <2>1. \A e \in Editors : apply[e].phase = "notify" => apply'[e].phase = "notify"
    BY DEF IInv, TypeOK
  <2>2. NoticePending => NoticePending'
    BY <2>1 DEF NoticePending
  <2> QED
    BY <2>2 DEF IInv, ServersPruned, Served
<1> QED
  BY <1>1, <1>2, <1>3, <1>4, <1>5, <1>6 DEF IInv

(* Stuttering.                                                             *)
LEMMA StutterStep ==
  ASSUME IInv, UNCHANGED vars
  PROVE  IInv'
<1> USE DEF vars
<1>1. TypeOK'
  BY DEF IInv, TypeOK
<1>2. MutexInv'
  BY DEF IInv, MutexInv
<1>3. DiffIsAgainstCurrent'
  BY DEF IInv, DiffIsAgainstCurrent, Known
<1>4. FlipInv'
  BY DEF IInv, FlipInv
<1>5. DirtyInv' /\ ServersPruned'
  BY DEF IInv, DirtyInv, NoticePending, ServersPruned, Served
<1> QED
  BY <1>1, <1>2, <1>3, <1>4, <1>5 DEF IInv

(* Every step of the control plane keeps the inductive invariant.          *)
LEMMA NextIInv == IInv /\ [Next]_vars => IInv'
<1> SUFFICES ASSUME IInv, [Next]_vars PROVE IInv'
  OBVIOUS
<1>1. CASE \E c \in Cameras, new \in CtrlCameras \cup {Gone} : CtrlChange(c, new)
  BY <1>1, CtrlChangeStep
<1>2. CASE WSEvent \/ ReportFlip
  BY <1>2, WSEventStep, ReportFlipStep
<1>3. ASSUME NEW r \in Refreshers, \/ RefreshBegin(r) \/ BootstrapOK(r)
                                   \/ BootstrapFails(r) \/ RefreshStep(r)
      PROVE  IInv'
  BY <1>3, RefreshBeginStep, BootstrapOKStep, BootstrapFailsStep, TakeSnapshotStep,
     DiffStep, SetCamerasStep, PublishStep, NotifyStep DEF RefreshStep
<1>4. CASE StartupSync \/ SyncAnswered
  BY <1>4, StartupSyncStep, SyncAnsweredStep
<1>5. ASSUME NEW e \in Editors,
             \/ \E a \in SUBSET Cameras : ApplyAllowed(e, a)
             \/ ApplyNotify(e) \/ ApplySnapshot(e) \/ ApplyFilter(e)
             \/ ApplySyncOK(e) \/ ApplySyncFails(e)
      PROVE  IInv'
  BY <1>5, ApplyAllowedStep, ApplyNotifyStep, ApplySnapshotStep, ApplyFilterStep,
     ApplySyncOKStep, ApplySyncFailsStep
<1>6. CASE \E c \in Cameras, st \in Present : ReportArrives(c, st) \/ ReportLost(c, st)
  BY <1>6, ReportArrivesStep, ReportLostStep
<1>7. CASE UNCHANGED vars
  BY <1>7, StutterStep
<1> QED
  BY <1>1, <1>2, <1>3, <1>4, <1>5, <1>6, <1>7 DEF Next

(* The inductive invariant holds in every reachable state.                 *)
LEMMA Invariance == Spec => []IInv
<1>1. Init => IInv
  BY InitIInv
<1>2. IInv /\ [Next]_vars => IInv'
  BY NextIInv
<1> QED
  BY <1>1, <1>2, PTL DEF Spec
-----------------------------------------------------------------------------
(* What Google is told.  These invariants rest on the ones above.          *)

(* A Refresh is about to report the camera.                                *)
Reporting(c) ==
  \E r \in Refreshers : ref[r].phase = "publish" /\ ref[r].prev[c] # ref[r].next[c]

(* A Refresh is about to request a sync.                                   *)
Requesting == \E r \in Refreshers : ref[r].phase = "publish" /\ ref[r].sync

(* The cameras of which something is promised.                             *)
Sure == Cameras \ (raced \cup doubtful)

(* A Refresh that is about to report a camera has it as it is, and so has  *)
(* every goroutine that holds a state of it; and Google was told the state *)
(* of an exposed camera, or will be, or somebody is about to report it.    *)
TellInv ==
  \A c \in Sure :
    /\ \A r \in Refreshers : ref[r].phase = "publish" => ref[r].next[c] = cams[c]
    /\ \A e \in Editors : apply[e].states[c] \in {cams[c], "absent"}
    /\ flip[c] \in {cams[c], "absent"}
    /\ c \in allowed /\ cams[c] # "absent" =>
         \/ Says(c, cams[c])
         \/ \E e \in Editors : apply[e].phase \in {"notify", "snapshot"}
         \/ Held(c)
         \/ Reporting(c)

(* Once the startup sync has begun every exposed camera is in the list     *)
(* that Google last fetched, or Google is asked to fetch it or will be;    *)
(* and a Refresh that is about to add one will request a sync.             *)
ListInv ==
  /\ startup => Running
  /\ \A c \in Sure :
       /\ startup /\ c \in allowed /\ cams[c] # "absent" =>
            \/ c \in synced
            \/ \E e \in Editors : apply[e].phase # "idle"
            \/ Requesting
            \/ asking
       /\ \A r \in Refreshers :
            /\ ref[r].phase = "commit" /\ ~ref[r].first
            /\ c \in allowed /\ ref[r].next[c] # "absent" /\ cams[c] = "absent"
            => ref[r].sync

PushInv == TellInv /\ ListInv

(* The bridge starts in it: no camera is known.                            *)
LEMMA InitPush == Init => PushInv
BY DEF Init, PushInv, TellInv, ListInv, Sure, NoApply, None, Idle

(* What has been said of a camera stays said while nothing is on its way   *)
(* to or from it.                                                          *)
LEMMA StillSays ==
  ASSUME UNCHANGED <<way, told>>, NEW c, NEW st
  PROVE  Says(c, st)' <=> Says(c, st)
BY DEF Says

(* A ReportState says what it reports, and leaves the rest.                *)
LEMMA ReportSays ==
  ASSUME IInv, NEW states \in [Cameras -> Statuses], ReportState(states), told' = told,
         NEW c \in Cameras, c \notin doubtful', NEW st
  PROVE  /\ st = states[c] /\ st # "absent" => Says(c, st)'
         /\ states[c] = "absent" /\ Says(c, st) => Says(c, st)'
<1>1. way'[c] = way[c] \cup ({states[c]} \cap Present)
  BY DEF ReportState
<1>2. states[c] # "absent" => way[c] = {}
  BY DEF ReportState, Known, OnWay
<1>3. states[c] # "absent" => states[c] \in Present
  BY DEF Statuses, Present
<1>4. states[c] = "absent" => way'[c] = way[c]
  BY <1>1 DEF Present
<1> QED
  BY <1>1, <1>2, <1>3, <1>4 DEF Says

(* Steps that end before a Refresh has judged a camera.                    *)
LEMMA EarlyPush ==
  ASSUME PushInv,
         UNCHANGED <<cams, allowed, told, synced, raced, apply, startup, pushes>>,
         \A r \in Refreshers : ref'[r].phase \in {"commit", "publish"} => ref'[r] = ref[r],
         \A r \in Refreshers : ref[r].phase = "publish" => ref'[r] = ref[r],
         startup => Running'
  PROVE  PushInv'
<1> USE DEF pushes
<1>1. \A c \in Cameras : Reporting(c)' <=> Reporting(c)
  BY DEF Reporting
<1>2. Requesting' <=> Requesting
  BY DEF Requesting
<1>3. TellInv'
  BY <1>1 DEF PushInv, TellInv, Sure, Says, Held
<1>4. ListInv'
  BY <1>2 DEF PushInv, ListInv, Sure
<1> QED
  BY <1>3, <1>4 DEF PushInv

(* A flip outside the windows is held until it is reported.                *)
LEMMA WSEventPush == IInv /\ PushInv /\ WSEvent => PushInv'
<1> SUFFICES ASSUME IInv, PushInv, WSEvent PROVE PushInv'
  OBVIOUS
<1> DEFINE c0 == Head(events).cam
           st == Head(events).status
<1>1. /\ c0 \in Cameras /\ st \in Present
      /\ UNCHANGED <<allowed, ref, apply, startup, told, synced, firstDone, way,
                     asking, doubtful>>
  <2>1. Head(events) \in [cam : Cameras, status : Present]
    BY HeadTailProperties DEF IInv, TypeOK, WSEvent
  <2> QED
    BY <2>1 DEF WSEvent, exposure, google
<1>2. \/ UNCHANGED <<cams, flip, raced>>
      \/ /\ cams[c0] \notin {"absent", st}
         /\ cams' = [cams EXCEPT ![c0] = st]
         /\ flip' = [flip EXCEPT ![c0] = st]
         /\ raced' = IF Window \/ Held(c0) THEN raced \cup {c0} ELSE raced
  BY DEF WSEvent, HandleStateChange
<1> HIDE DEF c0, st
<1>3. CASE UNCHANGED <<cams, flip, raced>>
  BY <1>1, <1>3, EarlyPush DEF PushInv, ListInv, Running, pushes
<1>4. CASE ~UNCHANGED <<cams, flip, raced>>
  <2>1. /\ cams[c0] # "absent" /\ cams'[c0] = st /\ st # "absent" /\ flip'[c0] = st
        /\ \A c \in Cameras \ {c0} : cams'[c] = cams[c] /\ flip'[c] = flip[c]
        /\ raced \subseteq raced'
    BY <1>1, <1>2, <1>4 DEF IInv, TypeOK, Present
  <2>2. c0 \notin raced' => ~Window /\ ~Held(c0)
    BY <1>2, <1>4
  <2>3. /\ \A c \in Cameras : Reporting(c)' <=> Reporting(c)
        /\ Requesting' <=> Requesting
        /\ Running' <=> Running
        /\ \A c, x : Says(c, x)' <=> Says(c, x)
        /\ Sure' \subseteq Sure
    BY <1>1, <2>1 DEF Reporting, Requesting, Running, Says, Sure
  <2>4. TellInv'
    <3> SUFFICES ASSUME NEW c \in Sure' PROVE TellInv!(c)'
      BY DEF TellInv
    <3>0. c \in Sure /\ c \in Cameras /\ c \notin raced'
      BY <2>3 DEF Sure
    <3>1. CASE c = c0
      BY <1>1, <2>1, <2>2, <3>0, <3>1 DEF Window, Held
    <3>2. CASE c # c0
      BY <1>1, <2>1, <2>3, <3>0, <3>2 DEF PushInv, TellInv, Held
    <3> QED
      BY <3>1, <3>2
  <2>5. ListInv'
    <3>1. \A c \in Cameras : cams'[c] = "absent" <=> cams[c] = "absent"
      BY <2>1
    <3> QED
      BY <1>1, <2>1, <2>3, <3>1 DEF PushInv, ListInv, Sure
  <2> QED
    BY <2>4, <2>5 DEF PushInv
<1> QED
  BY <1>3, <1>4

(* The flip of an exposed camera is reported.                              *)
LEMMA ReportFlipPush == IInv /\ PushInv /\ ReportFlip => PushInv'
<1> SUFFICES ASSUME IInv, PushInv, ReportFlip PROVE PushInv'
  OBVIOUS
<1>1. /\ ReportState(Shown(flip)) /\ Shown(flip) \in [Cameras -> Statuses]
      /\ flip' = None
      /\ UNCHANGED <<cams, allowed, ref, apply, startup, told, synced, firstDone,
                     asking, raced>>
  BY ShownTypes DEF ReportFlip, source, exposure, google, IInv, TypeOK
<1>2. /\ \A c \in Cameras : Reporting(c)' <=> Reporting(c)
      /\ Requesting' <=> Requesting
      /\ Running' <=> Running
      /\ Sure' \subseteq Sure
  BY <1>1 DEF Reporting, Requesting, Running, Sure, ReportState
<1>3. TellInv'
  <2> SUFFICES ASSUME NEW c \in Sure' PROVE TellInv!(c)'
    BY DEF TellInv
  <2>1. c \in Sure /\ c \in Cameras /\ c \notin doubtful' /\ flip'[c] = "absent"
    BY <1>1, <1>2 DEF Sure, None
  <2>2. c \in allowed /\ flip[c] # "absent" /\ flip[c] = cams[c] => Says(c, cams[c])'
    <3> SUFFICES ASSUME NEW st, st = cams[c], c \in allowed, flip[c] = st, st # "absent"
                 PROVE  Says(c, st)'
      BY <1>1, <2>1 DEF Says
    <3> QED
      BY <1>1, <2>1, ReportSays DEF Shown
  <2>3. Says(c, cams[c]) /\ ~Says(c, cams[c])' => flip[c] # "absent" /\ c \in allowed
    <3> SUFFICES ASSUME NEW st, st = cams[c], Says(c, st),
                        flip[c] = "absent" \/ c \notin allowed
                 PROVE  Says(c, st)'
      BY <1>1, <2>1 DEF Says
    <3>1. Shown(flip)[c] = "absent"
      BY <2>1 DEF Shown
    <3> QED
      BY <1>1, <2>1, <3>1, ReportSays
  <2>4. flip[c] \in {cams[c], "absent"}
    BY <2>1 DEF PushInv, TellInv
  <2>5. Held(c) => flip[c] # "absent" \/ Held(c)'
    BY <1>1 DEF Held
  <2> QED
    BY <1>1, <1>2, <2>1, <2>2, <2>3, <2>4, <2>5 DEF PushInv, TellInv
<1>4. ListInv'
  BY <1>1, <1>2 DEF PushInv, ListInv
<1> QED
  BY <1>3, <1>4 DEF PushInv

(* A Refresh that adds an exposed camera will request a sync, unless it is *)
(* the first one.                                                          *)
LEMMA DiffPush ==
  ASSUME IInv, PushInv, NEW r0 \in Refreshers, Diff(r0)
  PROVE  PushInv'
<1> DEFINE boot    == ref[r0].boot
           prev    == ref[r0].prev
           present == {c \in Cameras : boot[c] # Gone}
           added   == (present \ Known(prev)) \cap allowed
<1>1. /\ ref[r0].phase = "diff" /\ ref[r0] \in LocalsType
      /\ UNCHANGED <<cams, allowed, told, synced, raced, apply, startup, firstDone,
                     flip, way, asking, doubtful>>
      /\ \A r \in Refreshers \ {r0} : ref'[r] = ref[r]
  BY DEF Diff, google, exposure, pushes, IInv, TypeOK
<1>2. /\ ref'[r0].phase = "commit" /\ ref'[r0].first = ref[r0].first
      /\ \A c \in Cameras : ref'[r0].next[c] # "absent" => c \in present
      /\ ~ref[r0].first /\ added # {} => ref'[r0].sync
  <2> DEFINE next == [c \in Cameras |-> IF c \in present \cap KeptFlips(r0)
                                       THEN prev[c] ELSE boot[c].status]
             removed == {c \in Cameras \ present : streams[c] # NoURL} \cap allowed
             sync == ~ref[r0].first /\ added \cup removed # {}
  <2>1. ref' = [ref EXCEPT ![r0].phase = "commit", ![r0].boot = NoBoot,
                          ![r0].next = next, ![r0].dirty = StreamsChanged(r0),
                          ![r0].sync = sync]
    BY DEF Diff
  <2>2. \A c \in Cameras : next[c] # "absent" => c \in present
    BY DEF Gone
  <2>3. ~ref[r0].first /\ added # {} => sync
    OBVIOUS
  <2> HIDE DEF next, sync
  <2>4. /\ ref'[r0].phase = "commit" /\ ref'[r0].first = ref[r0].first
        /\ ref'[r0].next = next /\ ref'[r0].sync = sync
    BY <1>1, <2>1 DEF IInv, TypeOK, LocalsType
  <2> QED
    BY <2>2, <2>3, <2>4
<1>3. \A r \in Refreshers : ref[r].phase # "publish" /\ ref'[r].phase # "publish"
  BY <1>1, <1>2, ReconcilerAssumption DEF IInv, MutexInv
<1>4. TellInv'
  BY <1>1, <1>3 DEF PushInv, TellInv, Reporting, Sure, Says, Held
<1>5. Running' <=> Running
  BY <1>1, <1>2 DEF Running
<1>6. ListInv'
  <2>1. ASSUME NEW c \in Sure, ~ref'[r0].first, c \in allowed,
               ref'[r0].next[c] # "absent", cams[c] = "absent"
        PROVE  ref'[r0].sync
    <3>1. Known(prev) = Known(cams)
      BY <1>1 DEF IInv, DiffIsAgainstCurrent
    <3>2. c \in added
      BY <1>2, <2>1, <3>1 DEF Known, Sure
    <3> QED
      BY <1>2, <2>1, <3>2
  <2>2. \A r \in Refreshers \ {r0} : ref'[r].phase # "commit"
    BY <1>1, ReconcilerAssumption DEF IInv, MutexInv
  <2>3. Sure' = Sure
    BY <1>1 DEF Sure
  <2> QED
    BY <1>1, <1>3, <1>5, <2>1, <2>2, <2>3 DEF PushInv, ListInv, Requesting
<1> QED
  BY <1>4, <1>6 DEF PushInv

(* What set changes, Publish will report and request; what somebody holds  *)
(* of a camera that changes here counts as raced.                          *)
LEMMA SetCamerasPush ==
  ASSUME IInv, PushInv, NEW r0 \in Refreshers, SetCameras(r0)
  PROVE  PushInv'
<1>1. /\ ref[r0].phase = "commit" /\ cams' = ref[r0].next /\ ref[r0] \in LocalsType
      /\ raced' = raced \cup {c \in Cameras : Held(c) /\ cams'[c] # cams[c]}
      /\ UNCHANGED <<allowed, told, synced, apply, startup, firstDone, flip, way,
                     asking, doubtful>>
      /\ \A r \in Refreshers \ {r0} : ref'[r] = ref[r]
  BY DEF SetCameras, google, exposure, pushes, IInv, TypeOK
<1>2. /\ ref'[r0].phase = "publish" /\ ref'[r0].next = ref[r0].next
      /\ ref'[r0].prev = ref[r0].prev /\ ref'[r0].first = ref[r0].first
      /\ ref'[r0].sync = ref[r0].sync
  BY <1>1 DEF SetCameras, IInv, TypeOK, LocalsType
<1>3. \A r \in Refreshers \ {r0} : ref[r].phase = "idle"
  BY <1>1, ReconcilerAssumption DEF IInv, MutexInv
<1>4. \A c \in Cameras : ~Reporting(c)
  BY <1>1, <1>3 DEF Reporting
<1>5. ~Requesting
  BY <1>1, <1>3 DEF Requesting
<1>6. \A c \in Sure : ref[r0].prev[c] = cams[c]
  BY <1>1 DEF IInv, FlipInv, Sure
<1>s. /\ Sure' \subseteq Sure
      /\ \A c \in Sure' : Held(c) => cams'[c] = cams[c]
      /\ \A c : Held(c)' <=> Held(c)
      /\ \A c, x : Says(c, x)' <=> Says(c, x)
  BY <1>1 DEF Sure, Held, Says
<1>7. TellInv'
  <2> SUFFICES ASSUME NEW c \in Sure' PROVE TellInv!(c)'
    BY DEF TellInv
  <2>0. c \in Sure /\ c \in Cameras
    BY <1>s DEF Sure
  <2>1. \A r \in Refreshers : ref'[r].phase = "publish" => ref'[r].next[c] = cams'[c]
    BY <1>1, <1>2, <1>3
  <2>2. /\ \A e \in Editors : apply[e].states[c] \in {cams'[c], "absent"}
        /\ flip[c] \in {cams'[c], "absent"}
    <3>1. CASE Held(c)
      BY <1>s, <2>0, <3>1 DEF PushInv, TellInv
    <3>2. CASE ~Held(c)
      BY <3>2 DEF Held
    <3> QED
      BY <3>1, <3>2
  <2>3. CASE ref[r0].prev[c] # ref[r0].next[c]
    <3>1. Reporting(c)'
      BY <1>2, <2>3 DEF Reporting
    <3> QED
      BY <1>1, <2>1, <2>2, <3>1
  <2>4. CASE ref[r0].prev[c] = ref[r0].next[c]
    <3>1. cams'[c] = cams[c]
      BY <1>1, <1>6, <2>0, <2>4
    <3>2. c \in allowed /\ cams[c] # "absent" =>
             \/ Says(c, cams[c])
             \/ \E e \in Editors : apply[e].phase \in {"notify", "snapshot"}
             \/ Held(c)
      BY <1>4, <2>0 DEF PushInv, TellInv
    <3> QED
      BY <1>1, <1>s, <2>1, <2>2, <3>1, <3>2
  <2> QED
    BY <2>3, <2>4
<1>8. Running' <=> Running
  BY <1>1, <1>2 DEF Running
<1>9. ListInv'
  <2>1. ASSUME NEW c \in Sure', startup, c \in allowed, cams'[c] # "absent"
        PROVE  \/ c \in synced
               \/ \E e \in Editors : apply[e].phase # "idle"
               \/ Requesting'
               \/ asking
    <3>0. c \in Sure
      BY <1>s
    <3>1. CASE cams[c] = "absent"
      <4>1. ~ref[r0].first
        BY <2>1 DEF PushInv, ListInv, Running
      <4>2. ref[r0].sync
        BY <1>1, <2>1, <3>0, <3>1, <4>1 DEF PushInv, ListInv
      <4> QED
        BY <1>2, <4>2 DEF Requesting
    <3>2. CASE cams[c] # "absent"
      BY <1>5, <2>1, <3>0, <3>2 DEF PushInv, ListInv
    <3> QED
      BY <3>1, <3>2
  <2>2. \A r \in Refreshers : ref'[r].phase # "commit"
    BY <1>1, <1>2, <1>3
  <2> QED
    BY <1>1, <1>8, <2>1, <2>2 DEF PushInv, ListInv
<1> QED
  BY <1>7, <1>9 DEF PushInv

(* Publish reports and requests.                                           *)
LEMMA PublishPush ==
  ASSUME IInv, PushInv, NEW r0 \in Refreshers, Publish(r0)
  PROVE  PushInv'
<1> DEFINE states == [c \in Cameras |-> IF c \in Changed(r0) THEN ref[r0].next[c]
                                                             ELSE "absent"]
<1>1. /\ ref[r0].phase = "publish" /\ ReportState(states)
      /\ asking' = (asking \/ ref[r0].sync)
      /\ UNCHANGED <<cams, allowed, apply, startup, firstDone, told, synced, flip,
                     raced>>
  BY DEF Publish, source, exposure, google
<1>2. /\ ref'[r0].phase = "notify" /\ ref'[r0].first = ref[r0].first
      /\ \A r \in Refreshers \ {r0} : ref'[r] = ref[r]
  BY DEF Publish, IInv, TypeOK, LocalsType
<1>3. \A r \in Refreshers : ref'[r].phase \notin {"commit", "publish"}
  BY <1>1, <1>2, ReconcilerAssumption DEF IInv, MutexInv
<1>4. \A r \in Refreshers \ {r0} : ref[r].phase = "idle"
  BY <1>1, ReconcilerAssumption DEF IInv, MutexInv
<1>5. states \in [Cameras -> Statuses]
  BY DEF IInv, TypeOK, LocalsType, Changed, Known, Statuses
<1>6. Sure' \subseteq Sure /\ (\A c : Held(c)' <=> Held(c))
  BY <1>1 DEF Sure, ReportState, Held
<1>7. TellInv'
  <2> SUFFICES ASSUME NEW c \in Sure' PROVE TellInv!(c)'
    BY DEF TellInv
  <2>1. c \in Sure /\ c \in Cameras /\ c \notin doubtful'
    BY <1>6 DEF Sure
  <2>2. ref[r0].next[c] = cams[c]
    BY <1>1, <2>1 DEF PushInv, TellInv
  <2>3. Reporting(c) => ref[r0].prev[c] # ref[r0].next[c]
    BY <1>4 DEF Reporting
  <2>4. c \in allowed /\ cams[c] # "absent" /\ Reporting(c) => c \in Changed(r0)
    BY <2>1, <2>2, <2>3 DEF Changed, Known
  <2>5. c \in Changed(r0) => states[c] = cams[c] /\ cams[c] # "absent"
    BY <2>1, <2>2 DEF Changed, Known
  <2>6. c \notin Changed(r0) => states[c] = "absent"
    BY <2>1
  <2>7. ASSUME NEW st, st = cams[c], Says(c, st) \/ c \in Changed(r0)
        PROVE  Says(c, st)'
    BY <1>1, <1>5, <2>1, <2>5, <2>6, <2>7, ReportSays
  <2>8. Says(c, cams[c]) \/ c \in Changed(r0) => Says(c, cams[c])'
    BY <1>1, <2>7 DEF Says
  <2> HIDE DEF states
  <2> QED
    BY <1>1, <1>3, <1>6, <2>1, <2>4, <2>8 DEF PushInv, TellInv
<1>8. ListInv'
  <2>1. startup => Running'
    BY <1>1, <1>2 DEF PushInv, ListInv, Running
  <2>2. Requesting => asking'
    BY <1>1, <1>4 DEF Requesting
  <2> QED
    BY <1>1, <1>3, <1>6, <2>1, <2>2 DEF PushInv, ListInv
<1> QED
  BY <1>7, <1>8 DEF PushInv

(* Notify is the end of a Refresh that has pushed.                         *)
LEMMA NotifyPush ==
  ASSUME IInv, PushInv, NEW r0 \in Refreshers, Notify(r0)
  PROVE  PushInv'
<1>1. /\ ref[r0].phase = "notify"
      /\ ref'[r0].phase = "idle" /\ ~ref'[r0].first
      /\ \A r \in Refreshers \ {r0} : ref'[r] = ref[r]
      /\ UNCHANGED <<cams, allowed, told, synced, raced, apply, startup, pushes,
                     firstDone>>
  BY DEF Notify, Idle, source, exposure, google, pushes, IInv, TypeOK
<1>2. startup => Running'
  BY <1>1 DEF PushInv, ListInv, Running
<1> QED
  BY <1>1, <1>2, EarlyPush

(* An answer to a RequestSync has every camera fetched or doubtful.        *)
LEMMA AnswerList ==
  ASSUME \/ Fetched /\ doubtful \subseteq doubtful'
         \/ Unfetched /\ doubtful \cup Missed \subseteq doubtful',
         UNCHANGED raced
  PROVE  /\ Sure' \subseteq Sure
         /\ \A c \in Sure' : c \in allowed /\ cams[c] # "absent" => c \in synced'
BY DEF Fetched, Unfetched, Missed, Exposed, Known, Sure

(* The startup sync and the RequestSyncs of Refreshes.                     *)
LEMMA SyncPush ==
  ASSUME PushInv, StartupSync \/ SyncAnswered
  PROVE  PushInv'
<1>1. /\ \/ Fetched /\ doubtful \subseteq doubtful'
         \/ Unfetched /\ doubtful \cup Missed \subseteq doubtful'
      /\ UNCHANGED <<cams, allowed, ref, firstDone, apply, told, flip, way, raced>>
      /\ startup' => Running
  BY DEF StartupSync, SyncAnswered, source, exposure, PushInv, ListInv
<1>2. /\ Sure' \subseteq Sure
      /\ \A c \in Sure' : c \in allowed /\ cams[c] # "absent" => c \in synced'
  BY <1>1, AnswerList
<1>3. TellInv'
  BY <1>1, <1>2 DEF PushInv, TellInv, Reporting, Says, Held
<1>4. ListInv'
  BY <1>1, <1>2 DEF PushInv, ListInv, Running
<1> QED
  BY <1>3, <1>4 DEF PushInv

(* A report that arrives was said, and one that is lost leaves doubt.      *)
LEMMA ReportArrivesPush ==
  ASSUME IInv, PushInv, NEW c0 \in Cameras, NEW st \in Present,
         ReportArrives(c0, st) \/ ReportLost(c0, st)
  PROVE  PushInv'
<1>1. /\ st \in way[c0]
      /\ way' \in {way, [way EXCEPT ![c0] = @ \ {st}]}
      /\ \/ told' = [told EXCEPT ![c0] = st] /\ doubtful' = doubtful
         \/ told' = told /\ doubtful' = doubtful \cup {c0}
      /\ UNCHANGED <<cams, allowed, ref, firstDone, apply, startup, synced, flip,
                     asking, raced>>
  BY DEF ReportArrives, ReportLost, source, exposure, google
<1>2. Sure' \subseteq Sure
  BY <1>1 DEF Sure
<1>3. ASSUME NEW c \in Sure', NEW x, Says(c, x) PROVE Says(c, x)'
  <2>0. c \in Cameras /\ way[c] \in SUBSET Present
    BY DEF Sure, IInv, TypeOK
  <2>1. CASE c # c0
    <3>1. way'[c] = way[c] /\ told'[c] = told[c]
      BY <1>1, <2>0, <2>1 DEF IInv, TypeOK
    <3> QED
      BY <1>3, <3>1 DEF Says
  <2>2. CASE c = c0
    <3>1. way[c] = {st} /\ x = st
      BY <1>1, <1>3, <2>2 DEF Says
    <3>2. told'[c] = st
      BY <1>1, <2>2 DEF Sure, IInv, TypeOK
    <3>3. way'[c] \in {{st}, {}}
      BY <1>1, <2>2, <3>1 DEF IInv, TypeOK
    <3> QED
      BY <3>1, <3>2, <3>3 DEF Says
  <2> QED
    BY <2>1, <2>2
<1>4. TellInv'
  BY <1>1, <1>2, <1>3 DEF PushInv, TellInv, Reporting, Held
<1>5. ListInv'
  BY <1>1, <1>2 DEF PushInv, ListInv, Running, Requesting
<1> QED
  BY <1>4, <1>5 DEF PushInv

(* A camera exposed inside the window counts as raced; one exposed outside *)
(* will be read and synced.                                                *)
LEMMA ApplyAllowedPush ==
  ASSUME IInv, PushInv, NEW e0 \in Editors, NEW a \in SUBSET Cameras, ApplyAllowed(e0, a)
  PROVE  PushInv'
<1>1. /\ allowed' = a /\ apply'[e0].phase = "notify" /\ apply[e0].phase = "idle"
      /\ \A e \in Editors : apply'[e].states = apply[e].states
      /\ raced' = IF Window THEN raced \cup (a \ allowed) ELSE raced
      /\ UNCHANGED <<cams, ref, firstDone, startup, told, synced, flip, way, asking,
                     doubtful>>
  BY DEF ApplyAllowed, google, pushes, IInv, TypeOK, ApplyType
<1>2. Sure' \subseteq Sure
  BY <1>1 DEF Sure
<1>3. TellInv'
  BY <1>1, <1>2 DEF PushInv, TellInv
<1>4. ListInv'
  BY <1>1, <1>2 DEF PushInv, ListInv, Running, Window, Sure
<1> QED
  BY <1>3, <1>4 DEF PushInv

(* The edit notifies, reads the states and shows those it may.             *)
LEMMA ApplyEarlyPush ==
  ASSUME IInv, PushInv, NEW e0 \in Editors,
         ApplyNotify(e0) \/ ApplySnapshot(e0) \/ ApplyFilter(e0)
  PROVE  PushInv'
<1>1. /\ UNCHANGED <<cams, allowed, ref, firstDone, startup, told, synced, flip, way,
                     asking, doubtful, raced>>
      /\ apply'[e0].phase # "idle"
      /\ \A e \in Editors \ {e0} : apply'[e] = apply[e]
  BY DEF ApplyNotify, ApplySnapshot, ApplyFilter, source, google, pushes, IInv, TypeOK,
         ApplyType
<1>2. /\ Sure' = Sure
      /\ \A c, x : Says(c, x)' <=> Says(c, x)
      /\ \A c : Reporting(c)' <=> Reporting(c)
  BY <1>1 DEF Sure, Says, Reporting
<1>3. \/ apply'[e0].phase = "snapshot" /\ apply'[e0].states = apply[e0].states
      \/ apply'[e0].states = cams
      \/ /\ apply[e0].phase = "filter"
         /\ \A c \in Cameras : apply'[e0].states[c] = IF c \in allowed THEN apply[e0].states[c]
                                                                   ELSE "absent"
  BY DEF ApplyNotify, ApplySnapshot, ApplyFilter, Shown, IInv, TypeOK, ApplyType
<1>4. TellInv'
  <2> SUFFICES ASSUME NEW c \in Sure PROVE TellInv!(c)'
    BY <1>2 DEF TellInv
  <2>1. c \in Cameras /\ \A e \in Editors : apply'[e].states[c] \in {cams[c], "absent"}
    BY <1>1, <1>3 DEF PushInv, TellInv, Sure
  <2>2. CASE apply'[e0].phase = "snapshot"
    BY <1>1, <2>1, <2>2 DEF PushInv, TellInv
  <2>3. CASE apply'[e0].states = cams
    BY <1>1, <2>1, <2>3 DEF PushInv, TellInv, Held
  <2>4. CASE /\ apply[e0].phase = "filter"
             /\ \A d \in Cameras : apply'[e0].states[d] = IF d \in allowed
                                     THEN apply[e0].states[d] ELSE "absent"
    <3>1. c \in allowed /\ Held(c) => Held(c)'
      BY <1>1, <2>1, <2>4 DEF Held
    <3>2. (\E e \in Editors : apply[e].phase \in {"notify", "snapshot"})
            => \E e \in Editors : apply'[e].phase \in {"notify", "snapshot"}
      BY <1>1, <2>4
    <3> QED
      BY <1>1, <1>2, <2>1, <3>1, <3>2 DEF PushInv, TellInv
  <2> QED
    BY <1>3, <2>2, <2>3, <2>4
<1>5. ListInv'
  BY <1>1, <1>2 DEF PushInv, ListInv, Running, Requesting
<1> QED
  BY <1>4, <1>5 DEF PushInv

(* The goroutine of an edit: after a sync what it holds is on its way;     *)
(* without one Google was told it before, or there is doubt.               *)
LEMMA ApplySyncPush ==
  ASSUME IInv, PushInv, NEW e0 \in Editors, ApplySyncOK(e0) \/ ApplySyncFails(e0)
  PROVE  PushInv'
<1> DEFINE states == apply[e0].states
<1>1. /\ UNCHANGED <<cams, allowed, ref, firstDone, startup, told, flip, asking, raced>>
      /\ apply[e0].phase = "sync" /\ apply'[e0] = NoApply
      /\ \A e \in Editors \ {e0} : apply'[e] = apply[e]
      /\ states \in [Cameras -> Statuses]
  BY DEF ApplySyncOK, ApplySyncFails, source, IInv, TypeOK, ApplyType
<1>2. \/ Fetched /\ ReportState(states)
      \/ /\ Unfetched /\ way' = way
         /\ doubtful' = doubtful \cup Missed \cup
              {c \in Known(states) : ~Says(c, states[c])}
  BY DEF ApplySyncOK, ApplySyncFails
<1>3. /\ Sure' \subseteq Sure
      /\ \A c \in Sure' : c \in allowed /\ cams[c] # "absent" => c \in synced'
  BY <1>1, <1>2, AnswerList DEF ReportState
<1>4. TellInv'
  <2> SUFFICES ASSUME NEW c \in Sure' PROVE TellInv!(c)'
    BY DEF TellInv
  <2>0. c \in Sure /\ c \in Cameras /\ c \notin doubtful'
    BY <1>3 DEF Sure
  <2>1. ASSUME NEW st, st = states[c], st # "absent" PROVE Says(c, st)'
    <3>1. CASE ReportState(states)
      BY <1>1, <2>0, <2>1, <3>1, ReportSays
    <3>2. CASE way' = way /\ doubtful' = doubtful \cup Missed \cup
                 {d \in Known(states) : ~Says(d, states[d])}
      <4>1. Says(c, st)
        BY <2>0, <2>1, <3>2 DEF Known
      <4> QED
        BY <1>1, <3>2, <4>1 DEF Says
    <3> QED
      BY <1>2, <3>1, <3>2
  <2>2. ASSUME NEW st, states[c] = "absent", Says(c, st) PROVE Says(c, st)'
    BY <1>1, <1>2, <2>0, <2>2, ReportSays DEF Says
  <2>3. states[c] \in {cams[c], "absent"}
    BY <2>0 DEF PushInv, TellInv
  <2>4. Held(c) => states[c] # "absent" \/ Held(c)'
    BY <1>1 DEF Held
  <2>5. \A e \in Editors : apply'[e].states[c] \in {cams[c], "absent"}
    BY <1>1, <2>0 DEF PushInv, TellInv, NoApply, None
  <2>6. (\E e \in Editors : apply[e].phase \in {"notify", "snapshot"})
          => \E e \in Editors : apply'[e].phase \in {"notify", "snapshot"}
    BY <1>1
  <2>7. Reporting(c)' <=> Reporting(c)
    BY <1>1 DEF Reporting
  <2>8. ASSUME NEW st, st = cams[c], Says(c, st) \/ states[c] # "absent"
        PROVE  Says(c, st)'
    BY <2>1, <2>2, <2>3, <2>8
  <2>9. Says(c, cams[c]) \/ states[c] # "absent" => Says(c, cams[c])'
    BY <1>1, <2>8 DEF Says
  <2> HIDE DEF states
  <2> QED
    BY <1>1, <2>0, <2>4, <2>5, <2>6, <2>7, <2>9 DEF PushInv, TellInv
<1>5. ListInv'
  BY <1>1, <1>3 DEF PushInv, ListInv, Running
<1> QED
  BY <1>4, <1>5 DEF PushInv

(* Every step of the control plane keeps what Google is told.              *)
LEMMA NextPush == IInv /\ PushInv /\ [Next]_vars => PushInv'
<1> SUFFICES ASSUME IInv, PushInv, [Next]_vars PROVE PushInv'
  OBVIOUS
<1>1. CASE \E c \in Cameras, new \in CtrlCameras \cup {Gone} : CtrlChange(c, new)
  BY <1>1, EarlyPush
     DEF CtrlChange, source, exposure, google, pushes, PushInv, ListInv, Running
<1>2. CASE WSEvent \/ ReportFlip
  BY <1>2, WSEventPush, ReportFlipPush
<1>3. ASSUME NEW r \in Refreshers, \/ RefreshBegin(r) \/ BootstrapOK(r)
                                   \/ BootstrapFails(r) \/ RefreshStep(r)
      PROVE  PushInv'
  <2>0. /\ ref \in [Refreshers -> LocalsType]
        /\ Idle.phase = "idle" /\ ~Idle.first
        /\ startup => firstDone /\ \A s \in Refreshers : ~ref[s].first
    BY DEF IInv, TypeOK, Idle, PushInv, ListInv, Running
  <2>1. CASE RefreshBegin(r)
    <3> DEFINE u == [Idle EXCEPT !.phase = "fetch", !.gen = gen]
    <3>1. u.phase = "fetch" /\ ~u.first
      BY DEF Idle
    <3>2. ref' = [ref EXCEPT ![r] = u] /\ ref[r].phase = "idle"
      BY <2>1 DEF RefreshBegin
    <3> HIDE DEF u
    <3>3. ref'[r] = u /\ \A s \in Refreshers \ {r} : ref'[s] = ref[s]
      BY <2>0, <3>2
    <3> QED
      BY <2>0, <2>1, <3>1, <3>2, <3>3, EarlyPush
         DEF RefreshBegin, source, exposure, google, pushes, Running
  <2>2. CASE BootstrapOK(r)
    <3>1. /\ ref[r].phase = "fetch" /\ ref'[r].phase = "fetched"
          /\ ref'[r].first = ref[r].first
          /\ \A s \in Refreshers \ {r} : ref'[s] = ref[s]
      BY <2>0, <2>2 DEF BootstrapOK, LocalsType
    <3> QED
      BY <2>0, <2>2, <3>1, EarlyPush
         DEF BootstrapOK, source, exposure, google, pushes, Running
  <2>3. CASE BootstrapFails(r)
    <3>1. /\ ref[r].phase = "fetch" /\ ref'[r] = Idle
          /\ \A s \in Refreshers \ {r} : ref'[s] = ref[s]
      BY <2>0, <2>3 DEF BootstrapFails
    <3> QED
      BY <2>0, <2>3, <3>1, EarlyPush
         DEF BootstrapFails, source, exposure, google, pushes, Running
  <2>4. CASE TakeSnapshot(r)
    <3>1. /\ ref[r].phase = "fetched" /\ ref'[r].phase = "diff"
          /\ ref'[r].first = ~firstDone /\ firstDone'
          /\ \A s \in Refreshers \ {r} : ref'[s] = ref[s]
      BY <2>0, <2>4 DEF TakeSnapshot, LocalsType
    <3> QED
      BY <2>0, <2>4, <3>1, EarlyPush
         DEF TakeSnapshot, source, exposure, google, pushes, Running
  <2>5. CASE Diff(r)
    BY <2>5, DiffPush
  <2>6. CASE SetCameras(r)
    BY <2>6, SetCamerasPush
  <2>7. CASE Publish(r)
    BY <2>7, PublishPush
  <2>8. CASE Notify(r)
    BY <2>8, NotifyPush
  <2> QED
    BY <1>3, <2>1, <2>2, <2>3, <2>4, <2>5, <2>6, <2>7, <2>8 DEF RefreshStep
<1>4. CASE StartupSync \/ SyncAnswered
  BY <1>4, SyncPush
<1>5. ASSUME NEW e \in Editors,
             \/ \E a \in SUBSET Cameras : ApplyAllowed(e, a)
             \/ ApplyNotify(e) \/ ApplySnapshot(e) \/ ApplyFilter(e)
             \/ ApplySyncOK(e) \/ ApplySyncFails(e)
      PROVE  PushInv'
  BY <1>5, ApplyAllowedPush, ApplyEarlyPush, ApplySyncPush
<1>6. CASE \E c \in Cameras, st \in Present : ReportArrives(c, st) \/ ReportLost(c, st)
  BY <1>6, ReportArrivesPush
<1>7. CASE UNCHANGED vars
  BY <1>7, EarlyPush DEF vars, pushes, PushInv, ListInv, Running
<1> QED
  BY <1>1, <1>2, <1>3, <1>4, <1>5, <1>6, <1>7 DEF Next

LEMMA PushInvariance == Spec => []PushInv
<1>1. IInv /\ PushInv /\ [Next]_vars => PushInv'
  BY NextPush
<1> QED
  BY <1>1, InitPush, Invariance, PTL DEF Spec

(* An edit holds states only between its snapshot and its report.          *)
HeldInv == \A e \in Editors :
  apply[e].phase \in {"idle", "notify", "snapshot"} => apply[e].states = None

LEMMA HeldInvariance == Spec => []HeldInv
<1>1. Init => HeldInv
  BY DEF Init, HeldInv, NoApply
<1>2. IInv /\ HeldInv /\ [Next]_vars => HeldInv'
  <2> SUFFICES ASSUME IInv, HeldInv, [Next]_vars PROVE HeldInv'
    OBVIOUS
  <2>1. ASSUME NEW e \in Editors,
               \/ \E a \in SUBSET Cameras : ApplyAllowed(e, a)
               \/ ApplyNotify(e) \/ ApplySnapshot(e) \/ ApplyFilter(e)
               \/ ApplySyncOK(e) \/ ApplySyncFails(e)
        PROVE  HeldInv'
    <3>1. /\ \A f \in Editors \ {e} : apply'[f] = apply[f]
          /\ \/ apply'[e].phase \notin {"idle", "notify", "snapshot"}
             \/ apply'[e] = NoApply
             \/ /\ apply'[e].states = apply[e].states
                /\ apply[e].phase \in {"idle", "notify"}
      BY <2>1 DEF IInv, TypeOK, ApplyType, ApplyAllowed, ApplyNotify, ApplySnapshot,
                  ApplyFilter, ApplySyncOK, ApplySyncFails
    <3> QED
      BY <3>1 DEF HeldInv, NoApply
  <2>2. CASE UNCHANGED apply
    BY <2>2 DEF HeldInv
  <2>3. \/ UNCHANGED apply
        \/ \E e \in Editors :
             \/ \E a \in SUBSET Cameras : ApplyAllowed(e, a)
             \/ ApplyNotify(e) \/ ApplySnapshot(e) \/ ApplyFilter(e)
             \/ ApplySyncOK(e) \/ ApplySyncFails(e)
    BY DEF Next, vars, exposure, CtrlChange, WSEvent, ReportFlip, RefreshBegin,
           BootstrapOK, BootstrapFails, RefreshStep, TakeSnapshot, Diff, SetCameras,
           Publish, Notify, StartupSync, SyncAnswered, ReportArrives, ReportLost
  <2> QED
    BY <2>1, <2>2, <2>3
<1> QED
  BY <1>1, <1>2, Invariance, PTL DEF Spec

(* When nothing is under way nobody holds or is about to report a state.   *)
LEMMA SettledIdle ==
  ASSUME IInv, Settled, HeldInv
  PROVE  /\ \A r \in Refreshers : ref[r].phase = "idle"
         /\ \A c \in Cameras : ~Held(c) /\ ~Reporting(c)
         /\ ~Requesting
<1>1. \A r \in Refreshers : ref[r].phase = "idle"
  BY ReconcilerAssumption DEF IInv, MutexInv, Settled
<1>2. \A c \in Cameras : ~Held(c)
  BY DEF Settled, HeldInv, Held, None
<1> QED
  BY <1>1, <1>2 DEF Reporting, Requesting
-----------------------------------------------------------------------------
(* Every variable of the control plane keeps its type: no camera is in a   *)
(* state it cannot be in, and no flip carries a generation to come.        *)
THEOREM TypeCorrect == Spec => []TypeOK
<1>1. IInv => TypeOK
  BY DEF IInv
<1> QED
  BY <1>1, Invariance, PTL

(* What refreshMu is for: no Refresh decides about added, removed and      *)
(* reported cameras against a camera list that is no longer the current    *)
(* one, whichever goroutines call Refresh.                                 *)
THEOREM DiffsAgainstCurrent == Spec => []DiffIsAgainstCurrent
<1>1. IInv => DiffIsAgainstCurrent
  BY DEF IInv
<1> QED
  BY <1>1, Invariance, PTL

(* notifyStreamsChanged misses nothing: the stream servers have pruned     *)
(* against the URLs and the allow-list in force, or somebody who has       *)
(* changed them is about to notify; however edits of the allow-list, which *)
(* notify after SetAllowed has unlocked, and Refreshes interleave.         *)
THEOREM PruneReachesServers == Spec => []ServersPruned
<1>1. IInv => ServersPruned
  BY DEF IInv
<1> QED
  BY <1>1, Invariance, PTL

(* The generation check of Refresh: a flag the WebSocket flipped while the *)
(* bootstrap was in flight survives that Refresh.                          *)
THEOREM FlipsSurvive == Spec => InFlightFlipKept
<1>1. IInv /\ [Next]_vars
      => [\A r \in Refreshers, c \in Cameras \ raced :
            SetCameras(r) /\ onlineGen[c] > ref[r].gen
              => cams'[c] \in {cams[c], "absent"}]_vars
  <2> SUFFICES ASSUME IInv,
                      NEW r \in Refreshers, NEW c \in Cameras \ raced,
                      SetCameras(r), onlineGen[c] > ref[r].gen
               PROVE  cams'[c] \in {cams[c], "absent"}
    OBVIOUS
  <2>1. ref[r].phase = "commit" /\ cams' = ref[r].next
    BY DEF SetCameras
  <2> QED
    BY <2>1 DEF IInv, FlipInv
<1> QED
  BY <1>1, Invariance, PTL DEF Spec, InFlightFlipKept

(* What Google was last told of an exposed camera is what QUERY answers,   *)
(* whenever nothing about it is under way; for any cameras and goroutines, *)
(* and but for cameras that changed inside one of the code's windows or    *)
(* whose reports failed or were on their way together.                     *)
THEOREM GoogleIsTold == Spec => []ToldIsCurrent
<1>1. IInv /\ HeldInv /\ PushInv => ToldIsCurrent
  <2> SUFFICES ASSUME IInv, HeldInv, PushInv, Settled,
                      NEW c \in Exposed \ (raced \cup doubtful), ~OnWay(c)
               PROVE  told[c] = cams[c]
    BY DEF ToldIsCurrent
  <2>1. c \in Sure /\ c \in Cameras /\ c \in allowed /\ cams[c] # "absent"
    BY DEF Exposed, Known, Sure
  <2>2. ~Held(c) /\ ~Reporting(c) /\ \A e \in Editors : apply[e].phase = "idle"
    BY <2>1, SettledIdle DEF Settled
  <2>3. Says(c, cams[c])
    BY <2>1, <2>2 DEF PushInv, TellInv
  <2> QED
    BY <2>3 DEF Says, OnWay
<1> QED
  BY <1>1, Invariance, HeldInvariance, PushInvariance, PTL

(* Every exposed camera is in the list Google last fetched, though the     *)
(* first Refresh requests nothing, but for those that raced or were to be  *)
(* fetched by a RequestSync that failed; for any cameras.                  *)
THEOREM ExposedAreSynced == Spec => []ExposedIsSynced
<1>1. IInv /\ HeldInv /\ PushInv => ExposedIsSynced
  <2> SUFFICES ASSUME IInv, HeldInv, PushInv, Settled, startup, ~asking,
                      NEW c \in Exposed \ (raced \cup doubtful)
               PROVE  c \in synced
    BY DEF ExposedIsSynced
  <2>1. c \in Sure /\ c \in allowed /\ cams[c] # "absent"
    BY DEF Exposed, Known, Sure
  <2>2. ~Requesting /\ \A e \in Editors : apply[e].phase = "idle"
    BY SettledIdle DEF Settled
  <2> QED
    BY <2>1, <2>2 DEF PushInv, ListInv
<1> QED
  BY <1>1, Invariance, HeldInvariance, PushInvariance, PTL

=============================================================================
