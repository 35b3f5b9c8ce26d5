----------------------------- MODULE Reconciler -----------------------------
(***************************************************************************)
(* The control plane of internal/bridge.  The Reconciler mirrors the       *)
(* UniFi Protect controller into the CameraSource (camera list, online     *)
(* flags, RTSP URLs) and the stream Registry, and tells Google HomeGraph.  *)
(*                                                                         *)
(* Several goroutines share that state: Refresh runs from the safety       *)
(* ticker and from the debounce timer, one at a time under refreshMu, and  *)
(* reads and writes the CameraSource in separate critical sections; the    *)
(* WebSocket goroutine flips online flags between any two of them; the     *)
(* setup UI changes the exposure allow-list; and the startup sync runs     *)
(* beside them.  Each critical section is a step.                          *)
(*                                                                         *)
(* Pushes to HomeGraph leave from goroutines of their own: they arrive in  *)
(* any order or fail, and nobody retries them.  The entries of a           *)
(* ReportState count one by one, as Google drops those it does not know.   *)
(***************************************************************************)
EXTENDS Naturals, Sequences, FiniteSets

CONSTANTS Cameras,      (* camera IDs                                      *)
          URLs,         (* RTSP URLs; Protect issues a new one per toggle  *)
          NoURL,        (* no channel has RTSP enabled / not registered    *)
          Initial,      (* what the controller may hold of a camera at     *)
                        (* start; any of its states is fine                *)
          Refreshers,   (* the goroutines that call Refresh                *)
          Nobody,       (* refreshMu is free                               *)
          Editors,      (* requests of the setup UI that edit the list     *)
          MaxChanges,   (* bound: changes at the controller                *)
          MaxApplies    (* bound: edits of the allow-list                  *)

Statuses == {"absent", "offline", "online"}
Present  == {"offline", "online"}

(* A camera the controller reports, with or without an RTSP channel.       *)
CtrlCameras == [status : Present, url : URLs \cup {NoURL}]
Gone        == [status |-> "absent", url |-> NoURL]

ASSUME ReconcilerAssumption ==
  /\ Initial \subseteq CtrlCameras \cup {Gone}
  /\ NoURL \notin URLs
  /\ Nobody \notin Refreshers
  /\ MaxChanges \in Nat
  /\ MaxApplies \in Nat

VARIABLES
  ctrl,       (* the controller: each camera's status and best RTSP URL    *)
  changes,    (* how many changes the controller has made                  *)
  events,     (* WebSocket messages on their way, oldest first             *)
  cams,       (* CameraSource.cameras: the online flag, or absent          *)
  gen,        (* CameraSource.gen                                          *)
  onlineGen,  (* CameraSource.onlineGen                                    *)
  allowed,    (* CameraSource.allowed: all cameras if it is nil, and none  *)
              (* if it lists only cameras the controller does not have     *)
  streams,    (* the URL each camera is registered with, in rtspURLs and   *)
              (* in the Registry, which are only ever changed together     *)
  pruned,     (* the URLs the stream servers saw at their last Prune       *)
  refreshMu,  (* the Refresh that holds refreshMu                          *)
  firstDone,  (* firstRefreshDone                                          *)
  ref,        (* the local variables of each Refresh                       *)
  startup,    (* whether StartupRequestSync is over                        *)
  apply,      (* ApplyExposedCameras and the goroutine it leaves behind    *)
  applies,    (* how often the allow-list has been edited                  *)
  flip,       (* the flag the WebSocket goroutine has set and not reported *)
  way,        (* the states that entries of ReportStates on their way give *)
              (* each camera                                               *)
  asking,     (* a RequestSync of a Refresh is under way                   *)
  told,       (* what Google was last told of each camera                  *)
  synced,     (* the device list when Google last fetched it               *)
  raced,      (* history: cameras that changed inside one of the windows   *)
              (* described at Window and Held                              *)
  doubtful    (* history: cameras of which a push failed, or two entries   *)
              (* were on their way at a time                               *)

source   == <<cams, gen, onlineGen, allowed, streams>>
outside  == <<ctrl, changes, events>>
google   == <<told, synced>>
pushes   == <<flip, way, asking, doubtful>>
exposure == <<startup, apply, applies>>
vars == <<ctrl, changes, events, cams, gen, onlineGen, allowed, streams,
          pruned, refreshMu, firstDone, ref, startup, apply, applies, flip,
          way, asking, told, synced, raced, doubtful>>

None     == [c \in Cameras |-> "absent"]
Known(m) == {c \in Cameras : m[c] # "absent"}

(* CameraSource.ListCameras, what SYNC answers.                            *)
Exposed == Known(cams) \cap allowed

(* RTSPURLOf, as the stream servers see it.                                *)
Served(s, a) == [c \in Cameras |-> IF c \in a THEN s[c] ELSE NoURL]

NoBoot == [c \in Cameras |-> Gone]
Phases == {"idle", "fetch", "fetched", "diff", "commit", "publish", "notify"}
Idle == [phase |-> "idle", gen |-> 0, boot |-> NoBoot, prev |-> None,
         next |-> None, first |-> FALSE,
         sync |-> FALSE, dirty |-> FALSE]
NoApply == [phase |-> "idle", states |-> None]

(* The first Refresh of run() has returned, and the WebSocket goroutine,   *)
(* the startup sync and the setup UI have been started.                    *)
Running == firstDone /\ \A r \in Refreshers : ~ref[r].first

(* The time during which a Refresh acts on the camera list it has read: a  *)
(* WebSocket flip that falls into it may be overwritten, or its report     *)
(* overtaken.                                                              *)
Window == \E r \in Refreshers : ref[r].phase \in {"diff", "commit", "publish"}

(* The time during which a goroutine holds a state of the camera that it   *)
(* is to report: the WebSocket's, or that of an edit.                      *)
Held(c) == flip[c] # "absent" \/ \E e \in Editors : apply[e].states[c] # "absent"

(* A ReportState about the camera has left and not arrived.                *)
OnWay(c) == way[c] # {}

Init ==
  /\ ctrl \in [Cameras -> Initial]
  /\ changes = 0
  /\ events = <<>>
  /\ cams = None
  /\ gen = 0
  /\ onlineGen = [c \in Cameras |-> 0]
  /\ allowed \in SUBSET Cameras
  /\ streams = [c \in Cameras |-> NoURL]
  /\ pruned = [c \in Cameras |-> NoURL]
  /\ refreshMu = Nobody
  /\ firstDone = FALSE
  /\ ref = [r \in Refreshers |-> Idle]
  /\ startup = FALSE
  /\ apply = [e \in Editors |-> NoApply]
  /\ applies = 0
  /\ flip = None
  /\ way = [c \in Cameras |-> {}]
  /\ asking = FALSE
  /\ told = None
  /\ synced = {}
  /\ raced = {}
  /\ doubtful = {}

-----------------------------------------------------------------------------
(* HomeGraph.                                                              *)

(* A goroutine leaves with a ReportState about the cameras that are not    *)
(* "absent" in "states".                                                   *)
ReportState(states) ==
  /\ way' = [c \in Cameras |-> way[c] \cup ({states[c]} \cap Present)]
  /\ doubtful' = doubtful \cup {c \in Known(states) : OnWay(c)}

(* An entry arrives, or its request has failed or was dropped.  Equal ones *)
(* are not told apart: another may be left behind.                         *)
ReportArrives(c, st) ==
  /\ st \in way[c]
  /\ way' \in {way, [way EXCEPT ![c] = @ \ {st}]}
  /\ told' = [told EXCEPT ![c] = st]
  /\ UNCHANGED <<outside, source, pruned, refreshMu, firstDone, ref, exposure,
                 flip, asking, synced, raced, doubtful>>

ReportLost(c, st) ==
  /\ st \in way[c]
  /\ way' \in {way, [way EXCEPT ![c] = @ \ {st}]}
  /\ doubtful' = doubtful \cup {c}
  /\ UNCHANGED <<outside, source, pruned, refreshMu, firstDone, ref, exposure,
                 flip, asking, google, raced>>

(* Google answers a RequestSync, for which it has fetched the list, or     *)
(* refuses it.                                                             *)
Fetched == synced' = Exposed
Unfetched == synced' = synced
Missed == Exposed \ synced

(* A RequestSync of a Refresh; others may be left under way.               *)
SyncAnswered ==
  /\ asking
  /\ asking' \in BOOLEAN
  /\ \/ Fetched /\ UNCHANGED doubtful
     \/ Unfetched /\ doubtful' = doubtful \cup Missed
  /\ UNCHANGED <<outside, source, pruned, refreshMu, firstDone, ref, exposure,
                 flip, way, told, raced>>

-----------------------------------------------------------------------------
(* The controller.                                                         *)

(* A new online state is announced on the WebSocket that SubscribeEvents   *)
(* reads, unless the connection is down at that moment.                    *)
Announced(c, new) ==
  \/ UNCHANGED events
  \/ /\ Running
     /\ new.status \in Present \ {ctrl[c].status}
     /\ events' = Append(events, [cam |-> c, status |-> new.status])

(* A camera is adopted, forgotten, goes on- or offline, or has RTSP        *)
(* toggled.                                                                *)
CtrlChange(c, new) ==
  /\ changes < MaxChanges
  /\ new # ctrl[c]
  /\ ctrl' = [ctrl EXCEPT ![c] = new]
  /\ changes' = changes + 1
  /\ Announced(c, new)
  /\ UNCHANGED <<source, pruned, refreshMu, firstDone, ref, exposure, google,
                 pushes, raced>>

-----------------------------------------------------------------------------
(* The WebSocket goroutine.                                                *)

(* CameraSource.gen after a flip, and a faulty variant that forgets gen++. *)
NextGenStuck == gen
NextGen == gen + 1

(* handleStateChange: setOnline.  A camera the source does not know, or    *)
(* knows in that state, is ignored.                                        *)
HandleStateChange(c, st) ==
  IF cams[c] \in {"absent", st}
  THEN UNCHANGED <<cams, gen, onlineGen, flip, raced>>
  ELSE /\ cams' = [cams EXCEPT ![c] = st]
       /\ gen' = NextGen
       /\ onlineGen' = [onlineGen EXCEPT ![c] = gen + 1]
       /\ flip' = [flip EXCEPT ![c] = st]
       /\ raced' = IF Window \/ Held(c) THEN raced \cup {c} ELSE raced

(* watchEvents reads the next message of the connection.                   *)
WSEvent ==
  /\ events # <<>>
  /\ flip = None
  /\ events' = Tail(events)
  /\ HandleStateChange(Head(events).cam, Head(events).status)
  /\ UNCHANGED <<ctrl, changes, allowed, streams, pruned, refreshMu, firstDone,
                 ref, exposure, google, way, asking, doubtful>>

(* The rest of handleStateChange: the flip of an exposed camera is         *)
(* reported.                                                               *)
Shown(states) == [c \in Cameras |-> IF c \in allowed THEN states[c] ELSE "absent"]

ReportFlip ==
  /\ flip # None
  /\ ReportState(Shown(flip))
  /\ flip' = None
  /\ UNCHANGED <<outside, source, pruned, refreshMu, firstDone, ref, exposure,
                 google, asking, raced>>

-----------------------------------------------------------------------------
(* Refresh.                                                                *)

(* Faulty variant: Refresh does not take refreshMu.                        *)
RefreshBeginUnlocked(r) ==
  /\ ref[r].phase = "idle"
  /\ refreshMu' = r
  /\ ref' = [ref EXCEPT ![r] = [Idle EXCEPT !.phase = "fetch", !.gen = gen]]
  /\ UNCHANGED <<outside, source, pruned, firstDone, exposure, google, pushes,
                 raced>>

(* The lock and the WebSocket generation.  run() makes the first call by   *)
(* itself, the ticker and the debounce timer any number of later ones.     *)
RefreshBegin(r) ==
  /\ ref[r].phase = "idle"
  /\ refreshMu = Nobody
  /\ refreshMu' = r
  /\ ref' = [ref EXCEPT ![r] = [Idle EXCEPT !.phase = "fetch", !.gen = gen]]
  /\ UNCHANGED <<outside, source, pruned, firstDone, exposure, google, pushes,
                 raced>>

(* The controller answers the bootstrap request; the answer arrives later. *)
BootstrapOK(r) ==
  /\ ref[r].phase = "fetch"
  /\ ref' = [ref EXCEPT ![r].phase = "fetched", ![r].boot = ctrl]
  /\ UNCHANGED <<outside, source, pruned, refreshMu, firstDone, exposure,
                 google, pushes, raced>>

BootstrapFails(r) ==
  /\ ref[r].phase = "fetch"
  /\ ref' = [ref EXCEPT ![r] = Idle]
  /\ refreshMu' = Nobody
  /\ UNCHANGED <<outside, source, pruned, firstDone, exposure, google, pushes,
                 raced>>

(* Faulty variant: the first-refresh flag is read the wrong way round.     *)
TakeSnapshotInverted(r) ==
  /\ ref[r].phase = "fetched"
  /\ firstDone' = TRUE
  /\ ref' = [ref EXCEPT ![r].phase = "diff", ![r].first = firstDone,
                        ![r].prev = cams]
  /\ UNCHANGED <<outside, source, pruned, refreshMu, exposure, google, pushes,
                 raced>>

(* The first-refresh flag and the previous snapshot.                       *)
TakeSnapshot(r) ==
  /\ ref[r].phase = "fetched"
  /\ firstDone' = TRUE
  /\ ref' = [ref EXCEPT ![r].phase = "diff",
                        ![r].first = ~firstDone,
                        ![r].prev  = cams]
  /\ UNCHANGED <<outside, source, pruned, refreshMu, exposure, google, pushes,
                 raced>>

(* Faulty variants of KeptFlips: the generation is sampled after the       *)
(* bootstrap instead of before; a flip at the sampled generation counts.   *)
KeptFlipsSampledLate(r) ==
  {c \in Known(ref[r].prev) : onlineGen[c] > gen}
KeptFlipsInclusive(r) ==
  {c \in Known(ref[r].prev) : onlineGen[c] >= ref[r].gen}

(* The cameras whose flag the WebSocket flipped since the bootstrap was    *)
(* requested: the previous flag wins over the bootstrap's.                 *)
KeptFlips(r) == {c \in Known(ref[r].prev) : onlineGen[c] > ref[r].gen}

(* Faulty variant: only registrations tell the stream servers.             *)
StreamsChangedNoRemoval(r) ==
  \E c \in Cameras : ref[r].boot[c].url \notin {streams[c], NoURL}

(* syncStream registers the URL of a camera, replaces a changed one or     *)
(* unregisters a camera without RTSP, and cameras that are gone lose their *)
(* stream: something changed unless all URLs are already the right ones.   *)
StreamsChanged(r) == \E c \in Cameras : ref[r].boot[c].url # streams[c]

(* The pass over the bootstrap and the membership count.  One step: each   *)
(* camera is judged by itself, and the allow-list is read only for the     *)
(* count at the end.                                                       *)
Diff(r) ==
  LET boot    == ref[r].boot
      prev    == ref[r].prev
      present == {c \in Cameras : boot[c] # Gone}
      added   == (present \ Known(prev)) \cap allowed
      removed == {c \in Cameras \ present : streams[c] # NoURL} \cap allowed
  IN
  /\ ref[r].phase = "diff"
  /\ streams' = [c \in Cameras |-> boot[c].url]
  /\ ref' = [ref EXCEPT
       ![r].phase = "commit",
       ![r].boot  = NoBoot,
       ![r].next  = [c \in Cameras |-> IF c \in present \cap KeptFlips(r)
                                       THEN prev[c] ELSE boot[c].status],
       ![r].dirty = StreamsChanged(r),
       ![r].sync  = ~ref[r].first /\ added \cup removed # {}]
  /\ UNCHANGED <<outside, cams, gen, onlineGen, allowed, pruned, refreshMu,
                 firstDone, exposure, google, pushes, raced>>

(* CameraSource.set.                                                       *)
SetCameras(r) ==
  /\ ref[r].phase = "commit"
  /\ cams' = ref[r].next
  /\ raced' = raced \cup {c \in Cameras : Held(c) /\ cams'[c] # cams[c]}
  /\ ref' = [ref EXCEPT ![r].phase = "publish"]
  /\ UNCHANGED <<outside, gen, onlineGen, allowed, streams, pruned, refreshMu,
                 firstDone, exposure, google, pushes>>

(* Faulty variant: a camera seen for the first time is not reported.       *)
ChangedOnly(r) == {c \in Known(ref[r].next) \cap Known(ref[r].prev) \cap allowed :
                     ref[r].prev[c] # ref[r].next[c]}

(* The exposed cameras that are new or whose flag differs: these the       *)
(* Refresh reports.                                                        *)
Changed(r) == {c \in Known(ref[r].next) \cap allowed :
                 ref[r].prev[c] # ref[r].next[c]}

(* The goroutines for RequestSync and ReportState are started.             *)
Publish(r) ==
  /\ ref[r].phase = "publish"
  /\ asking' = (asking \/ ref[r].sync)
  /\ ReportState([c \in Cameras |-> IF c \in Changed(r) THEN ref[r].next[c]
                                                        ELSE "absent"])
  /\ ref' = [ref EXCEPT ![r].phase = "notify"]
  /\ UNCHANGED <<outside, source, pruned, refreshMu, firstDone, exposure,
                 google, flip, raced>>

(* The stream servers are notified; refreshMu is released.                 *)
Notify(r) ==
  /\ ref[r].phase = "notify"
  /\ pruned' = IF ref[r].dirty THEN Served(streams, allowed) ELSE pruned
  /\ refreshMu' = Nobody
  /\ ref' = [ref EXCEPT ![r] = Idle]
  /\ UNCHANGED <<outside, source, firstDone, exposure, google, pushes, raced>>

-----------------------------------------------------------------------------
(* StartupRequestSync, started once the first Refresh has returned: Google *)
(* has the device list already or is asked to fetch it; or the request     *)
(* fails, or is wrongly thought needless (module DeviceSync).              *)
StartupSync ==
  /\ ~startup
  /\ Running
  /\ startup' = TRUE
  /\ \/ Fetched /\ UNCHANGED doubtful
     \/ Unfetched /\ doubtful' = doubtful \cup Missed
  /\ UNCHANGED <<outside, source, pruned, refreshMu, firstDone, ref, apply,
                 applies, flip, way, asking, told, raced>>

-----------------------------------------------------------------------------
(* ApplyExposedCameras; several of them may overlap.                       *)

(* SetAllowed stores the list ...                                          *)
ApplyAllowed(e, a) ==
  /\ apply[e].phase = "idle"
  /\ Running
  /\ applies < MaxApplies
  /\ applies' = applies + 1
  /\ allowed' = a
  /\ apply' = [apply EXCEPT ![e].phase = "notify"]
  /\ raced' = IF Window THEN raced \cup (a \ allowed) ELSE raced
  /\ UNCHANGED <<outside, cams, gen, onlineGen, streams, pruned, refreshMu,
                 firstDone, ref, startup, google, pushes>>

(* ... and, without its mutex, notifies the stream servers.                *)
ApplyNotify(e) ==
  /\ apply[e].phase = "notify"
  /\ pruned' = Served(streams, allowed)
  /\ apply' = [apply EXCEPT ![e].phase = "snapshot"]
  /\ UNCHANGED <<outside, source, refreshMu, firstDone, ref, startup, applies,
                 google, pushes, raced>>

(* The states are read, for the later report ...                           *)
ApplySnapshot(e) ==
  /\ apply[e].phase = "snapshot"
  /\ apply' = [apply EXCEPT ![e] = [phase |-> "filter", states |-> cams]]
  /\ UNCHANGED <<outside, source, pruned, refreshMu, firstDone, ref, startup,
                 applies, google, pushes, raced>>

(* ... and those of the exposed cameras are kept; the goroutine starts.    *)
ApplyFilter(e) ==
  /\ apply[e].phase = "filter"
  /\ apply' = [apply EXCEPT ![e] =
                 [phase |-> "sync", states |-> Shown(apply[e].states)]]
  /\ UNCHANGED <<outside, source, pruned, refreshMu, firstDone, ref, startup,
                 applies, google, pushes, raced>>

(* RequestSync succeeds, and the states are reported.                      *)
ApplySyncOK(e) ==
  /\ apply[e].phase = "sync"
  /\ Fetched
  /\ ReportState(apply[e].states)
  /\ apply' = [apply EXCEPT ![e] = NoApply]
  /\ UNCHANGED <<outside, source, pruned, refreshMu, firstDone, ref, startup,
                 applies, flip, asking, told, raced>>

(* Google was last told, or will be, that the camera is in the state.      *)
Says(c, st) == way[c] = {st} \/ (way[c] = {} /\ told[c] = st)

(* It fails, and nothing is reported.                                      *)
ApplySyncFails(e) ==
  /\ apply[e].phase = "sync"
  /\ Unfetched
  /\ doubtful' = doubtful \cup Missed \cup
       {c \in Known(apply[e].states) : ~Says(c, apply[e].states[c])}
  /\ apply' = [apply EXCEPT ![e] = NoApply]
  /\ UNCHANGED <<outside, source, pruned, refreshMu, firstDone, ref, startup,
                 applies, flip, way, asking, told, raced>>

-----------------------------------------------------------------------------
RefreshStep(r) ==
  TakeSnapshot(r) \/ Diff(r) \/ SetCameras(r) \/ Publish(r) \/ Notify(r)

Next ==
  \/ \E c \in Cameras, new \in CtrlCameras \cup {Gone} : CtrlChange(c, new)
  \/ WSEvent \/ ReportFlip
  \/ \E r \in Refreshers :
       RefreshBegin(r) \/ BootstrapOK(r) \/ BootstrapFails(r) \/ RefreshStep(r)
  \/ StartupSync
  \/ \E e \in Editors :
       \/ \E a \in SUBSET Cameras : ApplyAllowed(e, a)
       \/ ApplyNotify(e) \/ ApplySnapshot(e) \/ ApplyFilter(e)
       \/ ApplySyncOK(e) \/ ApplySyncFails(e)
  \/ SyncAnswered
  \/ \E c \in Cameras, st \in Present : ReportArrives(c, st) \/ ReportLost(c, st)

Spec == Init /\ [][Next]_vars
-----------------------------------------------------------------------------
(* The safety ticker goes on, the controller answers now and then, and the *)
(* goroutines run.                                                         *)
Fairness ==
  /\ WF_vars(WSEvent) /\ WF_vars(ReportFlip)
  /\ WF_vars(\E r \in Refreshers : RefreshBegin(r))
  /\ \A r \in Refreshers : SF_vars(BootstrapOK(r)) /\ WF_vars(RefreshStep(r))

FairSpec == Spec /\ Fairness

-----------------------------------------------------------------------------
(* The locals of a Refresh.                                                *)
LocalsType ==
  [phase : Phases, gen : Nat, boot : [Cameras -> CtrlCameras \cup {Gone}],
   prev : [Cameras -> Statuses], next : [Cameras -> Statuses],
   first : BOOLEAN, sync : BOOLEAN, dirty : BOOLEAN]

(* The locals of an edit.                                                  *)
ApplyType == [phase : {"idle", "notify", "snapshot", "filter", "sync"},
              states : [Cameras -> Statuses]]

(* Types; no camera was flipped at a generation that is still to come.     *)
TypeOK ==
  /\ ctrl \in [Cameras -> CtrlCameras \cup {Gone}]
  /\ changes \in 0 .. MaxChanges
  /\ events \in Seq([cam : Cameras, status : Present])
  /\ cams \in [Cameras -> Statuses]
  /\ gen \in Nat
  /\ onlineGen \in [Cameras -> 0 .. gen]
  /\ allowed \in SUBSET Cameras
  /\ streams \in [Cameras -> URLs \cup {NoURL}]
  /\ pruned \in [Cameras -> URLs \cup {NoURL}]
  /\ refreshMu \in Refreshers \cup {Nobody}
  /\ firstDone \in BOOLEAN
  /\ ref \in [Refreshers -> LocalsType]
  /\ startup \in BOOLEAN
  /\ apply \in [Editors -> ApplyType]
  /\ applies \in 0 .. MaxApplies
  /\ flip \in [Cameras -> Statuses]
  /\ way \in [Cameras -> SUBSET Present]
  /\ asking \in BOOLEAN
  /\ told \in [Cameras -> Statuses]
  /\ {synced, raced, doubtful} \subseteq SUBSET Cameras

(* A Refresh decides about added, removed and reported cameras against the *)
(* membership that is still the current one when it stores its result: no  *)
(* second diff against the same snapshot is made (the reason given for     *)
(* refreshMu), and no WebSocket event changes the membership meanwhile.    *)
DiffIsAgainstCurrent ==
  \A r \in Refreshers :
    /\ ref[r].phase \in {"diff", "commit"} => Known(ref[r].prev) = Known(cams)
    /\ ref[r].phase \in {"publish", "notify"} => Known(ref[r].next) = Known(cams)

Settled ==
  /\ refreshMu = Nobody
  /\ flip = None
  /\ \A e \in Editors : apply[e].phase = "idle"

(* When no Refresh, no allow-list edit and no report of the camera is under*)
(* way, what Google was last told of an exposed camera is what QUERY would *)
(* answer: no flip, no new camera and no camera that was hidden goes       *)
(* unreported.  Three kinds of cameras are excepted, see the README: those *)
(* that changed inside one of the two windows, those of which a push       *)
(* failed, and those of which two reports were on their way at a time.     *)
ToldIsCurrent ==
  Settled => \A c \in Exposed \ (raced \cup doubtful) :
               ~OnWay(c) => told[c] = cams[c]

(* Every exposed camera was in the device list when Google last fetched    *)
(* it, unless it raced or a RequestSync failed: no adopted or newly        *)
(* exposed camera is missed, though the first Refresh leaves the sync to   *)
(* StartupRequestSync.                                                     *)
ExposedIsSynced ==
  Settled /\ startup /\ ~asking =>
    Exposed \ (raced \cup doubtful) \subseteq synced

(* "re-exposing a camera pushes a fresh ReportState so Google's cache      *)
(* doesn't stay stale": once the goroutine of an edit is over, every       *)
(* camera it was to report has been reported as it is.                     *)
ReexposedIsReported ==
  [][\A e \in Editors, c \in Exposed :
       apply[e].phase = "sync" /\ apply'[e].phase = "idle"
         /\ apply[e].states[c] # "absent" => cams[c] \in way'[c]]_vars

(* Somebody has changed URLs or the allow-list and is about to notify the  *)
(* stream servers.                                                         *)
NoticePending ==
  \/ \E r \in Refreshers : ref[r].dirty
  \/ \E e \in Editors : apply[e].phase = "notify"

(* Whenever nobody is about to notify them, the stream servers have pruned *)
(* against the URLs and the allow-list that are in force, whichever edits  *)
(* and Refreshes overlap.                                                  *)
ServersPruned == NoticePending \/ pruned = Served(streams, allowed)

(* A flag the WebSocket flipped while the bootstrap was in flight survives *)
(* that Refresh (a camera that never changed inside the window).           *)
InFlightFlipKept ==
  [][\A r \in Refreshers, c \in Cameras \ raced :
       SetCameras(r) /\ onlineGen[c] > ref[r].gen
         => cams'[c] \in {cams[c], "absent"}]_vars

(* "a slow, stale snapshot cannot undo a newer WS-observed transition".    *)
StaleSnapshotCannotUndo ==
  [][\A r \in Refreshers, c \in Cameras :
       SetCameras(r) /\ onlineGen[c] > ref[r].gen
         => cams'[c] \in {cams[c], "absent"}]_vars

(* Once the controller stops changing, the source and the registry end up  *)
(* agreeing with it for good, although WebSocket events and bootstrap      *)
(* answers are delayed, lost and mixed.                                    *)
Converges ==
  <>[](\A c \in Cameras : cams[c] = ctrl[c].status /\ streams[c] = ctrl[c].url)

=============================================================================
