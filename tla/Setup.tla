-------------------------------- MODULE Setup --------------------------------
(***************************************************************************)
(* The setup UI of internal/setup with the start of the process in         *)
(* cmd/bridge.  Three handlers change one group each of the add-on options *)
(* that the Supervisor keeps: they read all of them, replace their group   *)
(* and write all of them back, with no lock.  Credentials are tried on the *)
(* controller first; the exposure list and the log level are also applied  *)
(* to the running bridge, once it has registered its appliers.             *)
(*                                                                         *)
(* A call to the Supervisor may fail, or time out, and a write whose       *)
(* caller has given up may still take place.  An answer that breaks off    *)
(* before its first byte passes for options that say nothing.              *)
(***************************************************************************)
EXTENDS Naturals, FiniteSets

CONSTANTS Savers,        (* handlers of the three save requests            *)
          Creds,         (* UniFi credentials                              *)
          CameraLists,   (* values of bridge.exposed_cameras               *)
          Unset,         (* a group the user has not filled in             *)
          MaxSaves,      (* bound: save requests                           *)
          MaxRevocations (* bound: changes of an account on the controller *)

ASSUME SetupAssumption ==
  /\ Unset \notin Creds
  /\ {MaxSaves, MaxRevocations} \subseteq Nat

VARIABLES
  options,    (* the add-on options, at the Supervisor                     *)
  file,       (* options.json, from the start of the process to its load   *)
  process,    (* how far run() has come                                    *)
  cfgCreds,   (* the credentials of the configuration run() has loaded     *)
  live,       (* the exposure list and the log level the bridge goes by    *)
  registered, (* the groups whose applier run() has registered             *)
  saver,      (* the save requests being served                            *)
  accepted,   (* the credentials the controller accepts                    *)
  saves, revocations,
  last,       (* history: the value last written to each group             *)
  lost,       (* history: groups dropped by a save that read nothing, and  *)
              (* not written since                                         *)
  overlapped, (* history: two saves have been under way at a time          *)
  unapplied,  (* history: groups changed since the process started without *)
              (* being applied                                             *)
  probed      (* history: the credentials of the installation and those    *)
              (* that a probe has accepted                                 *)

bridge == <<file, process, cfgCreds, live, registered>>
account == <<accepted, revocations>>
store == <<options, last, lost>>
setupVars == <<options, file, process, cfgCreds, live, registered, saver,
               accepted, saves, revocations, last, lost, overlapped,
               unapplied, probed>>

Levels == {"off", "interesting", "all"}
HotGroups == {"cameras", "log"}
(* "rest": every other option; the bridge does not start without it.       *)
Groups == HotGroups \cup {"unifi", "rest"}

Values(g) == CASE g = "unifi"   -> Creds
               [] g = "cameras" -> CameraLists
               [] g = "log"     -> Levels \cup {"unknown"}
               [] g = "rest"    -> {"filled in"}

(* What of them is stored and applied.                                     *)
Kept(g) == IF g = "log" THEN Levels ELSE Values(g)

(* What the Supervisor and config.Load make of a group that is not there:  *)
(* no list exposes every camera.                                           *)
Defaults == [g \in Groups |-> IF g = "log" THEN "interesting" ELSE Unset]

NothingLive == [g \in HotGroups |-> Unset]
NoSave == [at |-> "idle"]
Busy == {h \in Savers : saver[h].at # "idle"}
(* Those that hold a copy of the options, or have written it and have not  *)
(* applied it yet.                                                         *)
InProgress == {h \in Savers : saver[h].at \in {"sent", "abandoned", "written"}}

SetupInit ==
  /\ options \in [Groups -> CameraLists \cup Creds \cup {Unset, "interesting", "filled in"}]
  /\ options["unifi"] \in Creds \cup {Unset}
  /\ options["cameras"] \in CameraLists
  /\ options["log"] = "interesting"
  /\ options["rest"] \in {Unset, "filled in"}
  /\ process = "down"
  /\ cfgCreds = Unset
  /\ live = NothingLive
  /\ registered = {}
  /\ saver = [h \in Savers |-> NoSave]
  /\ accepted \in SUBSET Creds
  /\ saves = 0
  /\ revocations = 0
  /\ file = Defaults
  /\ last = options
  /\ lost = {}
  /\ overlapped = FALSE
  /\ unapplied = {}
  /\ probed = {options["unifi"]}

-----------------------------------------------------------------------------
(* The process.                                                            *)

(* The Supervisor writes options.json and starts the process: run() serves *)
(* the setup UI before it reads that file.                                 *)
Boot ==
  /\ process = "down"
  /\ process' = "setup"
  /\ file' = options
  /\ UNCHANGED <<store, cfgCreds, live, registered, saver, account, saves,
                 overlapped, unapplied, probed>>

(* config.Load.  With an option missing the process stays on the setup UI  *)
(* until it is stopped.                                                    *)
Load ==
  /\ process = "setup"
  /\ IF Unset \in {file["unifi"], file["rest"]}
     THEN /\ process' = "setup only"
          /\ UNCHANGED <<cfgCreds, live>>
     ELSE /\ process' = "loaded"
          /\ cfgCreds' = file["unifi"]
          /\ live' = [g \in HotGroups |-> file[g]]
  /\ file' = Defaults   (* not read again *)
  /\ UNCHANGED <<store, registered, saver, account, saves, overlapped,
                 unapplied, probed>>

(* Login, the first Refresh and the test for a cloud account.              *)
LogIn ==
  /\ process = "loaded"
  /\ cfgCreds \in accepted
  /\ process' = "running"
  /\ cfgCreds' = Unset   (* not needed any more *)
  /\ UNCHANGED <<store, file, live, registered, saver, account, saves,
                 overlapped, unapplied, probed>>

(* What is left of a request when the process ends: a write that has been  *)
(* sent may still take place.                                              *)
Orphaned(s) == CASE s.at = "sent" -> [s EXCEPT !.at = "abandoned"]
                 [] s.at = "abandoned" -> s
                 [] OTHER -> NoSave

Exit ==
  /\ process' = "down"
  /\ cfgCreds' = Unset
  /\ registered' = {}
  /\ live' = NothingLive
  /\ file' = Defaults
  /\ unapplied' = {}
  /\ saver' = [h \in Savers |-> Orphaned(saver[h])]
  /\ UNCHANGED <<store, account, saves, overlapped, probed>>

(* The process exits if the controller refuses its credentials ...         *)
LogInRefused ==
  /\ process = "loaded"
  /\ cfgCreds \notin accepted
  /\ Exit

(* ... and is stopped, crashes or finds the controller away at any time.   *)
Stop ==
  /\ process # "down"
  /\ Exit

(* SetCameraApplier, then SetWSLogApplier.                                 *)
Register(g) ==
  /\ process = "running"
  /\ g \notin registered
  /\ g = "log" => "cameras" \in registered
  /\ registered' = registered \cup {g}
  /\ UNCHANGED <<store, file, process, cfgCreds, live, saver, account, saves,
                 overlapped, unapplied, probed>>

(* The owner of the controller changes a password, or removes an account.  *)
Revoke(c) ==
  /\ revocations < MaxRevocations
  /\ c \in accepted
  /\ accepted' = accepted \ {c}
  /\ revocations' = revocations + 1
  /\ UNCHANGED <<store, bridge, saver, saves, overlapped, unapplied, probed>>

-----------------------------------------------------------------------------
(* The save requests.                                                      *)

(* Faulty variant: an unknown level is stored as it came.                  *)
NormalizeNothing(g, v) == v

(* normalizeWSEventLog; the other groups' values are stored as they come.  *)
Normalize(g, v) == IF g = "log" /\ v \notin {"off", "all"} THEN "interesting" ELSE v

Submit(h, g, v, restart) ==
  /\ process # "down"
  /\ saver[h] = NoSave
  /\ saves < MaxSaves
  /\ saves' = saves + 1
  /\ saver' = [saver EXCEPT ![h] =
       [at |-> IF g = "unifi" THEN "probe" ELSE "read", group |-> g,
        value |-> Normalize(g, v), restart |-> restart]]
  /\ UNCHANGED <<store, bridge, account, overlapped, unapplied, probed>>

(* Faulty variant: what the probe found is not looked at.                  *)
ProbeIgnored(h) ==
  /\ saver[h].at = "probe"
  /\ saver' = [saver EXCEPT ![h].at = "read"]
  /\ UNCHANGED <<store, bridge, account, saves, overlapped, unapplied, probed>>

(* probe logs in and reads the bootstrap with a client of its own.         *)
Probe(h) ==
  /\ saver[h].at = "probe"
  /\ saver[h].value \in accepted
  /\ probed' = probed \cup {saver[h].value}
  /\ saver' = [saver EXCEPT ![h].at = "read"]
  /\ UNCHANGED <<store, bridge, account, saves, overlapped, unapplied>>

(* The controller, or the read of the options, or the restart fails: the   *)
(* handler answers with the error.                                         *)
GiveUp(h) ==
  /\ saver[h].at \in {"probe", "read", "restart"}
  /\ saver' = [saver EXCEPT ![h] = NoSave]
  /\ UNCHANGED <<store, bridge, account, saves, overlapped, unapplied, probed>>

(* The options are read, changed and sent back at once.  supervisorJSON    *)
(* takes an answer without a body, also one that broke off, for an empty   *)
(* object; the writers then go on from no options at all.                  *)
ReadOptions(h) ==
  /\ saver[h].at = "read"
  /\ \E answer \in {options, Defaults} :
       saver' = [saver EXCEPT ![h] =
         [at |-> "sent", group |-> saver[h].group, value |-> saver[h].value,
          restart |-> saver[h].restart, seen |-> answer]]
  /\ overlapped' = (overlapped \/ InProgress # {})
  /\ UNCHANGED <<store, bridge, account, saves, unapplied, probed>>

(* Faulty variant: the exposure list replaces the whole bridge group.      *)
MergeRebuilt(opts, g, v) ==
  [x \in Groups |-> IF x = g THEN v
                    ELSE IF g = "cameras" /\ x = "log" THEN "interesting"
                    ELSE opts[x]]

(* writeOptions, writeExposedCameras, writeWSEventLog: one group replaced. *)
Merge(opts, g, v) == [opts EXCEPT ![g] = v]

(* The groups that a save from no options does not mention.                *)
Dropped(s) == IF s.seen = Defaults THEN Groups \ {s.group} ELSE {}

(* The Supervisor stores the options, though the caller may have given up. *)
Stored(h) ==
  /\ saver[h].at \in {"sent", "abandoned"}
  /\ LET s == saver[h] IN
       /\ options' = Merge(s.seen, s.group, s.value)
       /\ last' = [last EXCEPT ![s.group] = s.value]
       /\ lost' = (lost \ {s.group}) \cup Dropped(s)
       /\ saver' = [saver EXCEPT ![h] =
            IF s.at = "sent" THEN [s EXCEPT !.at = "written"] ELSE NoSave]
       /\ unapplied' =
            CASE process = "down" -> unapplied
              [] s.at = "sent" -> unapplied \cup Dropped(s)
              [] OTHER -> unapplied \cup Dropped(s) \cup {s.group}
  /\ UNCHANGED <<bridge, account, saves, overlapped, probed>>

(* Faulty variant: the handler applies the value whatever was answered.    *)
RefusedApplied(h) ==
  /\ saver[h].at \in {"sent", "abandoned"}
  /\ live' = [g \in HotGroups |->
       IF g = saver[h].group /\ g \in registered THEN saver[h].value ELSE live[g]]
  /\ saver' = [saver EXCEPT ![h] = NoSave]
  /\ UNCHANGED <<store, file, process, cfgCreds, registered, account, saves,
                 overlapped, unapplied, probed>>

(* It refuses them, or never gets them.                                    *)
Refused(h) ==
  /\ saver[h].at \in {"sent", "abandoned"}
  /\ saver' = [saver EXCEPT ![h] = NoSave]
  /\ UNCHANGED <<store, bridge, account, saves, overlapped, unapplied, probed>>

(* The handler stops waiting and answers with an error.                    *)
TimeOut(h) ==
  /\ saver[h].at \in {"sent", "written"}
  /\ IF saver[h].at = "sent"
     THEN /\ saver' = [saver EXCEPT ![h].at = "abandoned"]
          /\ UNCHANGED unapplied
     ELSE /\ saver' = [saver EXCEPT ![h] = NoSave]
          /\ unapplied' = unapplied \cup {saver[h].group}
  /\ UNCHANGED <<store, bridge, account, saves, overlapped, probed>>

(* The answer of the Supervisor reaches the handler of a hot group: it     *)
(* calls the applier if there is one.                                      *)
Apply(h) ==
  /\ saver[h].at = "written"
  /\ saver[h].group \in HotGroups
  /\ LET g == saver[h].group IN
       IF g \in registered
       THEN /\ live' = [live EXCEPT ![g] = saver[h].value]
            /\ unapplied' = unapplied \ {g}
       ELSE /\ unapplied' = unapplied \cup {g}
            /\ UNCHANGED live
  /\ saver' = [saver EXCEPT ![h] = NoSave]
  /\ UNCHANGED <<store, file, process, cfgCreds, registered, account, saves,
                 overlapped, probed>>

(* ... of the credentials: it asks for a restart if the user wants one.    *)
CredsSaved(h) ==
  /\ saver[h].at = "written"
  /\ saver[h].group = "unifi"
  /\ saver' = [saver EXCEPT ![h] =
       IF saver[h].restart THEN [saver[h] EXCEPT !.at = "restart"] ELSE NoSave]
  /\ UNCHANGED <<store, bridge, account, saves, overlapped, unapplied, probed>>

(* restartAddon: the Supervisor stops the process that asks.               *)
RestartAddon(h) ==
  /\ saver[h].at = "restart"
  /\ process # "down"
  /\ Exit

(* Home Assistant's own page of the add-on, where the rest is filled in.   *)
FillIn ==
  /\ options["rest"] = Unset
  /\ options' = [options EXCEPT !["rest"] = "filled in"]
  /\ last' = [last EXCEPT !["rest"] = "filled in"]
  /\ lost' = lost \ {"rest"}
  /\ overlapped' = (overlapped \/ InProgress # {})
  /\ UNCHANGED <<bridge, saver, account, saves, unapplied, probed>>

-----------------------------------------------------------------------------
SetupNext ==
  \/ Boot \/ Load \/ LogIn \/ LogInRefused \/ Stop \/ FillIn
  \/ \E g \in HotGroups : Register(g)
  \/ \E c \in Creds : Revoke(c)
  \/ \E h \in Savers :
       \/ \E g \in HotGroups, v \in Values("cameras") \cup Values("log") :
            v \in Values(g) /\ Submit(h, g, v, FALSE)
       \/ \E c \in Creds, restart \in BOOLEAN : Submit(h, "unifi", c, restart)
       \/ Probe(h) \/ GiveUp(h) \/ ReadOptions(h) \/ Stored(h) \/ Refused(h)
       \/ TimeOut(h) \/ Apply(h) \/ CredsSaved(h) \/ RestartAddon(h)

SetupSpec == SetupInit /\ [][SetupNext]_setupVars

-----------------------------------------------------------------------------
(* Types; the appliers are registered by a running bridge only.            *)
Options == {o \in [Groups -> Creds \cup CameraLists \cup Levels \cup {Unset, "filled in"}] :
              /\ o["unifi"] \in Creds \cup {Unset}
              /\ o["cameras"] \in CameraLists \cup {Unset}
              /\ o["log"] \in Levels
              /\ o["rest"] \in {Unset, "filled in"}}

SetupTypeOK ==
  /\ {options, file, last} \subseteq Options
  /\ lost \in SUBSET Groups
  /\ process \in {"down", "setup", "setup only", "loaded", "running"}
  /\ cfgCreds \in Creds \cup {Unset}
  /\ \/ live = NothingLive
     \/ live["cameras"] \in CameraLists \cup {Unset} /\ live["log"] \in Levels
  /\ registered \in SUBSET HotGroups
  /\ registered # {} => process = "running"
  /\ \A h \in Busy :
       /\ process = "down" => saver[h].at = "abandoned"
       /\ saver[h].group \in HotGroups \cup {"unifi"}
       /\ saver[h].value \in Kept(saver[h].group)
       /\ h \in InProgress => saver[h].seen \in Options
  /\ accepted \in SUBSET Creds
  /\ probed \in SUBSET (Creds \cup {Unset})

(* Saves that do not overlap keep each other's changes: every group has    *)
(* the value that was written to it last, though calls fail, time out and  *)
(* are repeated, and the process restarts in between.  Overlapping saves   *)
(* may lose a change, because each writes back the options it has read; a  *)
(* save whose read came back empty leaves the other groups at their        *)
(* defaults, and these are the only ones that are.                         *)
SavesKeepOtherGroups ==
  overlapped \/
    \A g \in Groups : options[g] = IF g \in lost THEN Defaults[g] ELSE last[g]

(* What the comment of writeOptions promises: a save leaves the options of *)
(* the other groups untouched.  It does not when its read came back empty, *)
(* or when they have changed since.                                        *)
OtherGroupsUntouched ==
  [][\A h \in Savers : Stored(h) =>
       \A g \in Groups \ {saver[h].group} : options'[g] = options[g]]_setupVars

(* The bridge goes by the options that are stored, once no save is under   *)
(* way, also by those that were saved while it started: but for a group    *)
(* whose last change was a save that nobody waited for any more or that    *)
(* found no applier registered, or one that dropped the group; and unless  *)
(* saves have overlapped.                                                  *)
LiveIsStored ==
  process = "running" /\ Busy = {} /\ ~overlapped =>
    \A g \in HotGroups \ unapplied : live[g] = options[g]

(* The bridge refuses to start only for credentials that a probe accepted  *)
(* and the controller has revoked since, or that were there before the UI  *)
(* was ever used: a save never starts a loop of failing restarts.          *)
RefusedWereProbed == [][LogInRefused => cfgCreds \in probed]_setupVars

=============================================================================
