----------------------------- MODULE DeviceSync -----------------------------
(***************************************************************************)
(* Google's copy of the device list across restarts of the bridge.  While  *)
(* it runs, the bridge asks Google to fetch the list again (RequestSync)   *)
(* when cameras come, go, or are hidden or exposed; at startup it asks     *)
(* only if the fingerprint of the list differs from the persisted one,     *)
(* because Google limits the number of requests.  Only StartupRequestSync  *)
(* writes that file.                                                       *)
(*                                                                         *)
(* A fingerprint is the list it was made from.  A RequestSync that         *)
(* succeeds has Google fetch the list as it is then.                       *)
(***************************************************************************)
EXTENDS Naturals

CONSTANTS Lists,       (* device lists: .cameras, .details (names, traits) *)
          None,        (* no fingerprint                                   *)
          MaxChanges,  (* bound: changes of the list                       *)
          MaxRestarts  (* bound: restarts of the bridge                    *)

ASSUME DeviceSyncAssumption ==
  /\ None \notin Lists
  /\ MaxChanges \in Nat
  /\ MaxRestarts \in Nat

VARIABLES
  devices,    (* the exposed cameras, as SYNC would answer                 *)
  google,     (* the list Google fetched last                              *)
  persisted,  (* the fingerprint in sync_state.json                        *)
  startup,    (* where StartupRequestSync is; "down" without a process     *)
  current,    (* the fingerprint it computed                               *)
  pending,    (* RequestSyncs of the running bridge under way              *)
  changes, restarts,
  since       (* history: what happened since the sync of the file: "live" *)
              (* a RequestSync while running, "unfiled" one at a start that*)
              (* did not write the file, "moved" the list changed between  *)
              (* that sync's fingerprint and its request                   *)

vars == <<devices, google, persisted, startup, current, pending, changes,
          restarts, since>>

Init ==
  /\ devices \in Lists
  /\ google = None
  /\ persisted = None
  /\ startup = "down"
  /\ current = None
  /\ pending = 0
  /\ changes = 0
  /\ restarts = 0
  /\ since = {}

-----------------------------------------------------------------------------
(* run(): the first Refresh has read the cameras.                          *)
Boot ==
  /\ startup = "down"
  /\ startup' = "begin"
  /\ UNCHANGED <<devices, google, persisted, current, pending, changes,
                 restarts, since>>

(* The process ends, at any point; requests under way are lost.            *)
Crash ==
  /\ startup # "down"
  /\ restarts < MaxRestarts
  /\ restarts' = restarts + 1
  /\ startup' = "down"
  /\ current' = None
  /\ pending' = 0
  /\ UNCHANGED <<devices, google, persisted, changes, since>>

(* The list changes, also while the bridge is down.  A running bridge has  *)
(* a RequestSync sent if a camera came or went, not if one was renamed.    *)
Change(l) ==
  /\ changes < MaxChanges
  /\ l # devices
  /\ devices' = l
  /\ changes' = changes + 1
  /\ pending' = IF startup # "down" /\ l.cameras # devices.cameras
                THEN pending + 1 ELSE pending
  /\ UNCHANGED <<google, persisted, startup, current, restarts, since>>

(* A RequestSync of the running bridge succeeds; the file is not written.  *)
LiveSyncOK ==
  /\ pending > 0
  /\ pending' = pending - 1
  /\ google' = devices
  /\ since' = since \cup {"live"}
  /\ UNCHANGED <<devices, persisted, startup, current, changes, restarts>>

(* It fails, which is logged and not retried.                              *)
LiveSyncFails ==
  /\ pending > 0
  /\ pending' = pending - 1
  /\ UNCHANGED <<devices, google, persisted, startup, current, changes,
                 restarts, since>>

-----------------------------------------------------------------------------
(* StartupRequestSync.                                                     *)

(* Faulty variant: the fingerprint is not kept for the file.               *)
ComputeForgotten ==
  /\ startup = "begin"
  /\ startup' = "computed"
  /\ UNCHANGED <<devices, google, persisted, current, pending, changes,
                 restarts, since>>

Compute ==
  /\ startup = "begin"
  /\ startup' = "computed"
  /\ current' = devices
  /\ UNCHANGED <<devices, google, persisted, pending, changes, restarts,
                 since>>

Skip ==
  /\ startup = "computed"
  /\ current = persisted
  /\ startup' = "over"
  /\ UNCHANGED <<devices, google, persisted, current, pending, changes,
                 restarts, since>>

(* Faulty variant: the file is written before Google is asked.             *)
AskPersistsFirst ==
  /\ startup = "computed"
  /\ current # persisted
  /\ persisted' = current
  /\ google' \in {google, devices}
  /\ startup' = "over"
  /\ UNCHANGED <<devices, current, pending, changes, restarts, since>>

AskOK ==
  /\ startup = "computed"
  /\ current # persisted
  /\ google' = devices
  /\ since' = {"unfiled"} \cup {e \in {"moved"} : devices # current}
  /\ startup' = "asked"
  /\ UNCHANGED <<devices, persisted, current, pending, changes, restarts>>

AskFails ==
  /\ startup = "computed"
  /\ current # persisted
  /\ startup' = "over"
  /\ UNCHANGED <<devices, google, persisted, current, pending, changes,
                 restarts, since>>

(* The fingerprint is written, or that fails with a warning: the file is   *)
(* as it was, or cut off, which the next start takes for no fingerprint.   *)
Persist ==
  /\ startup = "asked"
  /\ persisted' \in {persisted, current, None}
  /\ since' = IF persisted' = current THEN since \ {"unfiled"} ELSE since
  /\ startup' = "over"
  /\ UNCHANGED <<devices, google, current, pending, changes, restarts>>

-----------------------------------------------------------------------------
Next ==
  \/ Boot \/ Crash \/ Compute \/ Skip \/ AskOK \/ AskFails \/ Persist
  \/ \E l \in Lists : Change(l)
  \/ LiveSyncOK \/ LiveSyncFails

Spec == Init /\ [][Next]_vars

-----------------------------------------------------------------------------
(* Types; the fingerprint that is about to be written has been computed.   *)
TypeOK ==
  /\ devices \in Lists
  /\ google \in Lists \cup {None}
  /\ persisted \in Lists \cup {None}
  /\ startup \in {"down", "begin", "computed", "asked", "over"}
  /\ current \in Lists \cup {None}
  /\ startup \in {"computed", "asked"} => current # None
  /\ pending \in 0 .. changes
  /\ changes \in 0 .. MaxChanges
  /\ restarts \in 0 .. MaxRestarts
  /\ since \in SUBSET {"live", "unfiled", "moved"}

(* A start skips its request only when Google has the list already,        *)
(* whenever the bridge crashed and whichever requests failed before: unless*)
(* since the sync whose fingerprint is on file another one has succeeded,  *)
(* live or at a start that did not get to write the file, or the list had  *)
(* changed already when Google fetched it.                                 *)
SkipsOnlyWhatGoogleHas ==
  [][Skip /\ devices = current /\ since = {} => google = devices]_vars

(* main.go says that a start is silent if the list is that of the last     *)
(* successful sync, so live syncs should count: but they write no          *)
(* fingerprint, and the list may have come back to that of an older sync.  *)
SkipsOnlyTheLastSync ==
  [][Skip /\ devices = current /\ since \subseteq {"live"} /\ pending = 0
       => google = devices]_vars

=============================================================================
