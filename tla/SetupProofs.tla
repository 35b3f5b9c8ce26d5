----------------------------- MODULE SetupProofs -----------------------------
(***************************************************************************)
(* Proofs about module Setup, for any handlers, credentials and camera     *)
(* lists, and any number of saves, revocations and restarts.               *)
(***************************************************************************)
EXTENDS Setup, TLAPS

Val == Creds \cup CameraLists \cup Levels \cup {Unset, "filled in", "unknown"}

(* A save request before and after it has read the options.                *)
Early == [at : {"probe", "read"}, group : Groups, value : Val, restart : BOOLEAN]
Late == [at : {"sent", "abandoned", "written", "restart"}, group : Groups,
         value : Val, restart : BOOLEAN, seen : [Groups -> Val]]

Typed ==
  /\ options \in [Groups -> Val] /\ file \in [Groups -> Val] /\ last \in [Groups -> Val]
  /\ live \in [HotGroups -> Val]
  /\ saver \in [Savers -> {NoSave} \cup Early \cup Late]

Writing == {"sent", "abandoned"}

(* Every group is as it was last written, or has been dropped since.       *)
KeptInv == \A g \in Groups : options[g] = IF g \in lost THEN Defaults[g] ELSE last[g]

(* Without an overlap, one save at most has a copy of the options or has   *)
(* yet to apply what it wrote, and its copy is what is stored, or nothing. *)
AloneInv ==
  ~overlapped =>
    /\ KeptInv
    /\ \A h, j \in InProgress : h = j
    /\ \A h \in Savers : saver[h].at \in Writing => saver[h].seen \in {options, Defaults}
    /\ \A h \in Savers : saver[h].at = "written" =>
         saver[h].value = options[saver[h].group]

(* What the bridge goes by, or will once it has read its file.             *)
GoesBy(g) == (IF process = "setup" THEN file ELSE live)[g]

(* It is what is stored, or the handler that stored it has yet to apply it.*)
LiveInv ==
  ~overlapped /\ process \in {"setup", "loaded", "running"} =>
    \A g \in HotGroups :
      \/ g \in unapplied
      \/ GoesBy(g) = options[g]
      \/ \E h \in Savers : saver[h].at = "written" /\ saver[h].group = g

(* Every copy of the credentials beyond the probe has passed one, or none  *)
(* are filled in.                                                          *)
ProbedInv ==
  /\ options["unifi"] \in probed \cup {Unset}
  /\ process = "setup" => file["unifi"] \in probed \cup {Unset}
  /\ process = "loaded" => cfgCreds \in probed
  /\ \A h \in Savers : saver[h].at \notin {"idle", "probe"} /\ saver[h].group = "unifi" =>
       saver[h].value \in probed
  /\ \A h \in Savers : saver[h].at \in Writing =>
       saver[h].seen["unifi"] \in probed \cup {Unset}

(* Appliers are there in a running bridge only.                            *)
RegisteredInv == registered # {} => process = "running"

IInv == Typed /\ AloneInv /\ LiveInv /\ ProbedInv

(* The fields that the steps of a request keep.                            *)
LEMMA SaverKinds ==
  /\ NoSave.at = "idle"
  /\ \A s \in Early : s.at \in {"probe", "read"}
  /\ \A s \in Late : s.at \in {"sent", "abandoned", "written", "restart"}
  /\ \A s \in Early : /\ [s EXCEPT !.at = "read"] \in Early
                      /\ [s EXCEPT !.at = "read"].at = "read"
                      /\ [s EXCEPT !.at = "read"].group = s.group
                      /\ [s EXCEPT !.at = "read"].value = s.value
  /\ \A s \in Late, p \in {"abandoned", "written", "restart"} :
       /\ [s EXCEPT !.at = p] \in Late
       /\ [s EXCEPT !.at = p].at = p
       /\ [s EXCEPT !.at = p].group = s.group
       /\ [s EXCEPT !.at = p].value = s.value
       /\ [s EXCEPT !.at = p].seen = s.seen
BY DEF NoSave, Early, Late

(* The defaults of the groups.                                             *)
LEMMA DefaultsType ==
  /\ Defaults \in [Groups -> Val]
  /\ Defaults["unifi"] = Unset /\ Defaults["rest"] = Unset
  /\ Defaults["cameras"] = Unset /\ Defaults["log"] = "interesting"
BY DEF Defaults, Groups, HotGroups, Val, Levels

(* Where a request is tells which of the two it is.                        *)
LEMMA KindOf ==
  ASSUME Typed, NEW h \in Savers
  PROVE  /\ saver[h].at \in {"probe", "read"} => saver[h] \in Early
         /\ saver[h].at \in {"sent", "abandoned", "written", "restart"} => saver[h] \in Late
         /\ saver[h] \in {NoSave} \cup Early \cup Late
BY SaverKinds DEF Typed

(* The inductive invariant holds initially.                                *)
LEMMA InitIInv == SetupInit => IInv
<1> SUFFICES ASSUME SetupInit PROVE IInv
  OBVIOUS
<1>1. options \in [Groups -> Val] /\ last \in [Groups -> Val] /\ file \in [Groups -> Val]
  BY DefaultsType DEF SetupInit, Val, Levels
<1>2. live \in [HotGroups -> Val] /\ saver \in [Savers -> {NoSave} \cup Early \cup Late]
  BY DEF SetupInit, NothingLive, Val
<1>3. \A h \in Savers : saver[h].at = "idle"
  BY SaverKinds DEF SetupInit
<1>4. InProgress = {}
  BY <1>3 DEF InProgress
<1>5. AloneInv /\ LiveInv /\ ProbedInv
  BY <1>3, <1>4 DEF SetupInit, AloneInv, KeptInv, LiveInv, ProbedInv, Writing
<1> QED
  BY <1>1, <1>2, <1>5 DEF IInv, Typed

-----------------------------------------------------------------------------
(* Steps that neither write the options nor apply them: request h goes on  *)
(* or is dropped.                                                          *)
LEMMA MoveIInv ==
  ASSUME IInv, NEW h \in Savers, NEW new \in {NoSave} \cup Early \cup Late,
         saver' = [saver EXCEPT ![h] = new],
         UNCHANGED <<options, file, last, lost, live, process, cfgCreds, overlapped>>,
         probed \subseteq probed', unapplied \subseteq unapplied',
         new.at # "written",
         new.at \in Writing => saver[h].at \in Writing /\ new.seen = saver[h].seen,
         saver[h].at = "written" /\ saver[h].group \in HotGroups =>
           saver[h].group \in unapplied',
         new.at \notin {"idle", "probe"} /\ new.group = "unifi" => new.value \in probed'
  PROVE  IInv'
<1>1. Typed'
  BY DEF IInv, Typed
<1>2. saver'[h] = new /\ \A j \in Savers \ {h} : saver'[j] = saver[j]
  BY DEF IInv, Typed
<1>3. InProgress' \subseteq InProgress
  BY <1>2 DEF InProgress, Writing
<1>4. AloneInv'
  BY <1>2, <1>3 DEF IInv, AloneInv, KeptInv
<1>5. LiveInv'
  <2> SUFFICES ASSUME ~overlapped, process \in {"setup", "loaded", "running"}, NEW g \in HotGroups
               PROVE  \/ g \in unapplied'
                      \/ GoesBy(g)' = options[g]
                      \/ \E j \in Savers : saver'[j].at = "written" /\ saver'[j].group = g
    BY DEF LiveInv
  <2> QED
    BY <1>2 DEF IInv, LiveInv, GoesBy
<1>6. ProbedInv'
  BY <1>2 DEF IInv, ProbedInv
<1> QED
  BY <1>1, <1>4, <1>5, <1>6 DEF IInv

(* A request is made.                                                      *)
LEMMA SubmitIInv ==
  ASSUME IInv, NEW h \in Savers, NEW g \in HotGroups \cup {"unifi"}, NEW v \in Values(g),
         NEW restart \in BOOLEAN, Submit(h, g, v, restart)
  PROVE  IInv'
<1> DEFINE new == [at |-> IF g = "unifi" THEN "probe" ELSE "read", group |-> g,
                   value |-> Normalize(g, v), restart |-> restart]
<1>1. Normalize(g, v) \in Val
  BY DEF Normalize, Val, Values, HotGroups, Levels
<1>2. /\ new \in Early /\ new.group = g
      /\ new.at = IF g = "unifi" THEN "probe" ELSE "read"
  BY <1>1 DEF Early, Groups
<1>3. /\ saver' = [saver EXCEPT ![h] = new] /\ saver[h] = NoSave
      /\ UNCHANGED <<options, file, last, lost, live, process, cfgCreds, overlapped, probed,
                     unapplied>>
  BY DEF Submit, bridge, store
<1> HIDE DEF new
<1> QED
  BY <1>2, <1>3, SaverKinds, MoveIInv DEF Writing

(* The steps of a request that do not write.                               *)
LEMMA RequestIInv ==
  ASSUME IInv, NEW h \in Savers,
         Probe(h) \/ GiveUp(h) \/ Refused(h) \/ TimeOut(h) \/ CredsSaved(h)
  PROVE  IInv'
<1> USE DEF IInv
<1>1. CASE Probe(h)
  <2> DEFINE new == [saver[h] EXCEPT !.at = "read"]
  <2>1. saver[h] \in Early
    BY <1>1, KindOf DEF Probe
  <2>2. new \in Early /\ new.at = "read" /\ new.value = saver[h].value
    BY <2>1, SaverKinds
  <2>3. /\ saver' = [saver EXCEPT ![h] = new]
        /\ saver[h].at = "probe" /\ probed' = probed \cup {saver[h].value}
        /\ UNCHANGED <<options, file, last, lost, live, process, cfgCreds, overlapped, unapplied>>
    BY <1>1 DEF Probe, bridge, store
  <2> HIDE DEF new
  <2> QED
    BY <2>2, <2>3, MoveIInv DEF Writing
<1>2. CASE GiveUp(h) \/ Refused(h)
  <2>1. /\ saver' = [saver EXCEPT ![h] = NoSave] /\ saver[h].at # "written"
        /\ UNCHANGED <<options, file, last, lost, live, process, cfgCreds, overlapped, unapplied,
                       probed>>
    BY <1>2 DEF GiveUp, Refused, bridge, store
  <2> QED
    BY <2>1, SaverKinds, MoveIInv DEF Writing
<1>3. CASE TimeOut(h)
  <2>1. UNCHANGED <<options, file, last, lost, live, process, cfgCreds, overlapped, probed>>
    BY <1>3 DEF TimeOut, bridge, store
  <2>2. saver[h] \in Late
    BY <1>3, KindOf DEF TimeOut
  <2>3. CASE saver[h].at = "sent"
    <3> DEFINE new == [saver[h] EXCEPT !.at = "abandoned"]
    <3>1. /\ new \in Late /\ new.at = "abandoned" /\ new.group = saver[h].group
          /\ new.value = saver[h].value /\ new.seen = saver[h].seen
      BY <2>2, SaverKinds
    <3>2. saver' = [saver EXCEPT ![h] = new] /\ unapplied' = unapplied
      BY <1>3, <2>3 DEF TimeOut
    <3>3. new.group = "unifi" => new.value \in probed
      BY <2>3, <3>1 DEF ProbedInv
    <3> HIDE DEF new
    <3> QED
      BY <2>1, <2>3, <3>1, <3>2, <3>3, MoveIInv DEF Writing
  <2>4. CASE saver[h].at = "written"
    <3>1. /\ saver' = [saver EXCEPT ![h] = NoSave]
          /\ unapplied' = unapplied \cup {saver[h].group}
      BY <1>3, <2>4 DEF TimeOut
    <3> QED
      BY <2>1, <2>4, <3>1, SaverKinds, MoveIInv DEF Writing
  <2> QED
    BY <1>3, <2>3, <2>4 DEF TimeOut
<1>4. CASE CredsSaved(h)
  <2>1. /\ UNCHANGED <<options, file, last, lost, live, process, cfgCreds, overlapped, unapplied,
                       probed>>
        /\ saver[h].at = "written" /\ saver[h].group = "unifi" /\ "unifi" \notin HotGroups
    BY <1>4 DEF CredsSaved, bridge, store, HotGroups
  <2>2. saver[h] \in Late /\ saver[h].value \in probed
    BY <2>1, KindOf DEF ProbedInv
  <2>3. CASE saver[h].restart
    <3> DEFINE new == [saver[h] EXCEPT !.at = "restart"]
    <3>1. new \in Late /\ new.at = "restart" /\ new.value = saver[h].value
      BY <2>2, SaverKinds
    <3>2. saver' = [saver EXCEPT ![h] = new]
      BY <1>4, <2>3 DEF CredsSaved
    <3> HIDE DEF new
    <3> QED
      BY <2>1, <2>2, <3>1, <3>2, MoveIInv DEF Writing
  <2>4. CASE ~saver[h].restart
    <3>1. saver' = [saver EXCEPT ![h] = NoSave]
      BY <1>4, <2>4 DEF CredsSaved
    <3> QED
      BY <2>1, <3>1, SaverKinds, MoveIInv DEF Writing
  <2> QED
    BY <2>3, <2>4
<1> QED
  BY <1>1, <1>2, <1>3, <1>4

-----------------------------------------------------------------------------
(* The process.                                                            *)

(* With the process its requests end, but for the writes that may still    *)
(* take place; what it went by does not count any more.                    *)
LEMMA ExitIInv == ASSUME IInv, Exit PROVE IInv'
<1>1. /\ process' = "down" /\ live' = NothingLive /\ file' = Defaults
      /\ saver' = [h \in Savers |-> Orphaned(saver[h])]
      /\ UNCHANGED <<options, last, lost, overlapped, probed>>
  BY DEF Exit, store
<1>2. ASSUME NEW h \in Savers
      PROVE  \/ saver'[h] = NoSave
             \/ /\ saver[h] \in Late /\ saver'[h] \in Late
                /\ saver[h].at \in Writing /\ saver'[h].at = "abandoned"
                /\ saver'[h].group = saver[h].group /\ saver'[h].value = saver[h].value
                /\ saver'[h].seen = saver[h].seen
  <2>1. saver'[h] = Orphaned(saver[h])
    BY <1>1
  <2>2. CASE saver[h].at = "sent"
    <3>1. saver[h] \in Late
      BY <2>2, KindOf DEF IInv
    <3>2. saver'[h] = [saver[h] EXCEPT !.at = "abandoned"]
      BY <2>1, <2>2 DEF Orphaned
    <3> DEFINE new == [saver[h] EXCEPT !.at = "abandoned"]
    <3>3. /\ new \in Late /\ new.at = "abandoned" /\ new.group = saver[h].group
          /\ new.value = saver[h].value /\ new.seen = saver[h].seen
      BY <3>1, SaverKinds
    <3>4. saver'[h] = new
      BY <3>2
    <3> HIDE DEF new
    <3> QED
      BY <2>2, <3>1, <3>3, <3>4 DEF Writing
  <2>3. CASE saver[h].at = "abandoned"
    <3>1. saver[h] \in Late
      BY <2>3, KindOf DEF IInv
    <3>2. saver'[h] = saver[h]
      BY <2>1, <2>3 DEF Orphaned
    <3> QED
      BY <2>3, <3>1, <3>2 DEF Writing
  <2>4. CASE saver[h].at \notin {"sent", "abandoned"}
    BY <2>1, <2>4 DEF Orphaned
  <2> QED
    BY <2>2, <2>3, <2>4
<1>3. Typed'
  <2>1. live' \in [HotGroups -> Val]
    BY <1>1 DEF NothingLive, Val
  <2>2. saver' \in [Savers -> {NoSave} \cup Early \cup Late]
    BY <1>1, <1>2
  <2> QED
    BY <1>1, <2>1, <2>2, DefaultsType DEF IInv, Typed
<1>4. InProgress' \subseteq InProgress
  BY <1>2, SaverKinds DEF InProgress, Writing
<1>5. AloneInv'
  BY <1>1, <1>2, <1>4, SaverKinds DEF IInv, AloneInv, KeptInv, Writing
<1>6. LiveInv'
  BY <1>1 DEF LiveInv
<1>7. ProbedInv'
  BY <1>1, <1>2, SaverKinds DEF IInv, ProbedInv, Writing
<1> QED
  BY <1>3, <1>5, <1>6, <1>7 DEF IInv

(* The start of the process, up to the registration of the appliers, and   *)
(* what the owner of the controller does.                                  *)
LEMMA ProcessIInv ==
  ASSUME IInv,
         \/ Boot \/ Load \/ LogIn
         \/ \E g \in HotGroups : Register(g)
         \/ \E c \in Creds : Revoke(c)
  PROVE  IInv'
<1>1. ASSUME UNCHANGED <<options, last, lost, saver, overlapped, probed>>,
             live' \in [HotGroups -> Val],
             file' \in [Groups -> Val],
             LiveInv' \/ \A g \in HotGroups : GoesBy(g)' = options[g],
             process' = "setup" => file'["unifi"] \in probed \cup {Unset},
             process' = "loaded" => cfgCreds' \in probed
      PROVE  IInv'
  <2>1. Typed' /\ AloneInv'
    BY <1>1 DEF IInv, Typed, AloneInv, KeptInv, InProgress
  <2>2. LiveInv'
    BY <1>1 DEF LiveInv
  <2>3. ProbedInv'
    BY <1>1 DEF IInv, ProbedInv
  <2> QED
    BY <2>1, <2>2, <2>3 DEF IInv
<1>2. CASE Boot
  <2>1. /\ process' = "setup" /\ file' = options
        /\ UNCHANGED <<options, last, lost, live, saver, overlapped, probed>>
    BY <1>2 DEF Boot, store
  <2> QED
    BY <1>1, <2>1 DEF IInv, Typed, ProbedInv, GoesBy
<1>3. CASE Load
  <2>1. UNCHANGED <<options, last, lost, saver, overlapped, probed, unapplied>>
        /\ process = "setup" /\ file' = Defaults
    BY <1>3 DEF Load, store
  <2>2. CASE Unset \in {file["unifi"], file["rest"]}
    <3>1. process' = "setup only" /\ live' = live
      BY <1>3, <2>2 DEF Load
    <3>2. LiveInv'
      BY <3>1 DEF LiveInv
    <3> QED
      BY <1>1, <2>1, <3>1, <3>2, DefaultsType DEF IInv, Typed
  <2>3. CASE Unset \notin {file["unifi"], file["rest"]}
    <3>1. /\ process' = "loaded" /\ cfgCreds' = file["unifi"]
          /\ live' = [g \in HotGroups |-> file[g]]
      BY <1>3, <2>3 DEF Load
    <3>2. live' \in [HotGroups -> Val] /\ \A g \in HotGroups : live'[g] = file[g]
      BY <3>1 DEF IInv, Typed, Groups
    <3>3. cfgCreds' \in probed
      BY <2>1, <2>3, <3>1 DEF IInv, ProbedInv
    <3>4. \A g \in HotGroups : GoesBy(g)' = GoesBy(g)
      BY <2>1, <3>1, <3>2 DEF GoesBy
    <3>5. LiveInv'
      BY <2>1, <3>1, <3>4 DEF IInv, LiveInv
    <3> QED
      BY <1>1, <2>1, <3>1, <3>2, <3>3, <3>5, DefaultsType
  <2> QED
    BY <2>2, <2>3
<1>4. CASE LogIn
  <2>1. process = "loaded" /\ process' = "running"
        /\ UNCHANGED <<options, file, last, lost, live, saver, overlapped, probed, unapplied>>
    BY <1>4 DEF LogIn, store
  <2>2. LiveInv'
    BY <2>1 DEF IInv, LiveInv, GoesBy
  <2> QED
    BY <1>1, <2>1, <2>2 DEF IInv, Typed
<1>5. ASSUME NEW g \in HotGroups, Register(g) PROVE IInv'
  <2>1. UNCHANGED <<options, file, process, cfgCreds, last, lost, live, saver, overlapped, probed,
                    unapplied>>
    BY <1>5 DEF Register, store
  <2>2. LiveInv'
    BY <2>1 DEF IInv, LiveInv, GoesBy
  <2> QED
    BY <1>1, <2>1, <2>2 DEF IInv, Typed, ProbedInv
<1>6. ASSUME NEW c \in Creds, Revoke(c) PROVE IInv'
  <2>1. UNCHANGED <<options, file, process, cfgCreds, last, lost, live, saver, overlapped, probed,
                    unapplied>>
    BY <1>6 DEF Revoke, bridge, store
  <2>2. LiveInv'
    BY <2>1 DEF IInv, LiveInv, GoesBy
  <2> QED
    BY <1>1, <2>1, <2>2 DEF IInv, Typed, ProbedInv
<1> QED
  BY <1>2, <1>3, <1>4, <1>5, <1>6

-----------------------------------------------------------------------------
(* The options are read when nobody else is about to change them, or the   *)
(* saves overlap.                                                          *)
LEMMA ReadOptionsIInv == ASSUME IInv, NEW h \in Savers, ReadOptions(h) PROVE IInv'
<1>1. saver[h].at = "read" /\ saver[h] \in Early
  BY KindOf DEF ReadOptions, IInv
<1>a. PICK answer \in {options, Defaults} :
        saver' = [saver EXCEPT ![h] =
          [at |-> "sent", group |-> saver[h].group, value |-> saver[h].value,
           restart |-> saver[h].restart, seen |-> answer]]
  BY DEF ReadOptions
<1> DEFINE new == [at |-> "sent", group |-> saver[h].group, value |-> saver[h].value,
                   restart |-> saver[h].restart, seen |-> answer]
<1>2. /\ new \in Late /\ new.at = "sent" /\ new.group = saver[h].group
      /\ new.value = saver[h].value /\ new.seen = answer
  BY <1>1, DefaultsType DEF Early, Late, IInv, Typed
<1>3. /\ saver' = [saver EXCEPT ![h] = new]
      /\ overlapped' = (overlapped \/ InProgress # {})
      /\ UNCHANGED <<options, file, process, cfgCreds, live, last, lost, unapplied, probed>>
  BY <1>a DEF ReadOptions, bridge, store
<1> HIDE DEF new
<1>4. saver'[h] = new /\ \A j \in Savers \ {h} : saver'[j] = saver[j]
  BY <1>3 DEF IInv, Typed
<1>5. Typed'
  BY <1>2, <1>3 DEF IInv, Typed
<1>6. AloneInv'
  <2> SUFFICES ASSUME ~overlapped'
               PROVE  /\ KeptInv
                      /\ \A i, j \in InProgress' : i = j
                      /\ \A j \in Savers : saver'[j].at \in Writing =>
                           saver'[j].seen \in {options, Defaults}
                      /\ \A j \in Savers : saver'[j].at = "written" =>
                           saver'[j].value = options[saver'[j].group]
    BY <1>3 DEF AloneInv, KeptInv
  <2>1. ~overlapped /\ InProgress = {}
    BY <1>3
  <2>2. \A j \in Savers \ {h} : saver'[j].at \notin {"sent", "abandoned", "written"}
    BY <1>4, <2>1 DEF InProgress
  <2>3. InProgress' \subseteq {h}
    BY <2>2 DEF InProgress
  <2> QED
    BY <1>2, <1>4, <2>1, <2>2, <2>3 DEF IInv, AloneInv, KeptInv, Writing
<1>7. LiveInv'
  <2> SUFFICES ASSUME ~overlapped', process \in {"setup", "loaded", "running"}, NEW g \in HotGroups
               PROVE  \/ g \in unapplied
                      \/ GoesBy(g)' = options[g]
                      \/ \E j \in Savers : saver'[j].at = "written" /\ saver'[j].group = g
    BY <1>3 DEF LiveInv
  <2>1. ~overlapped
    BY <1>3
  <2>2. \A j \in Savers : saver[j].at = "written" => saver'[j] = saver[j]
    BY <1>1, <1>4
  <2>3. GoesBy(g)' = GoesBy(g)
    BY <1>3 DEF GoesBy
  <2> QED
    BY <2>1, <2>2, <2>3 DEF IInv, LiveInv
<1>8. ProbedInv'
  BY <1>1, <1>2, <1>3, <1>4, DefaultsType DEF IInv, ProbedInv
<1> QED
  BY <1>5, <1>6, <1>7, <1>8 DEF IInv

(* The Supervisor stores what one handler sent: with nobody else under way *)
(* this changes the group of that handler and no other.                    *)
LEMMA StoredIInv == ASSUME IInv, NEW h \in Savers, Stored(h) PROVE IInv'
<1> DEFINE g == saver[h].group
           v == saver[h].value
<1>1. saver[h].at \in Writing /\ saver[h] \in Late
  BY KindOf DEF Stored, IInv, Writing
<1>2. /\ g \in Groups /\ v \in Val /\ saver[h].seen \in [Groups -> Val]
  BY <1>1 DEF Late
<1>3. /\ options' = [saver[h].seen EXCEPT ![g] = v]
      /\ last' = [last EXCEPT ![g] = v]
      /\ lost' = (lost \ {g}) \cup Dropped(saver[h])
      /\ UNCHANGED <<file, process, cfgCreds, live, overlapped, probed>>
      /\ process # "down" => unapplied \cup Dropped(saver[h]) \subseteq unapplied'
      /\ process # "down" /\ saver[h].at # "sent" => g \in unapplied'
  BY DEF Stored, Merge, bridge, store
<1>4. PICK new \in {NoSave} \cup Late :
        /\ saver' = [saver EXCEPT ![h] = new]
        /\ saver[h].at = "sent" => new \in Late /\ new.at = "written"
        /\ saver[h].at # "sent" => new = NoSave
        /\ new \in Late => new.at = "written" /\ new.group = g /\ new.value = v
  <2>1. CASE saver[h].at = "sent"
    <3> DEFINE new == [saver[h] EXCEPT !.at = "written"]
    <3>1. new \in Late /\ new.at = "written" /\ new.group = g /\ new.value = v
      BY <1>1, SaverKinds
    <3>2. saver' = [saver EXCEPT ![h] = new]
      BY <2>1 DEF Stored
    <3> HIDE DEF new, g, v
    <3> QED
      BY <2>1, <3>1, <3>2
  <2>2. CASE saver[h].at # "sent"
    <3>1. saver' = [saver EXCEPT ![h] = NoSave] /\ NoSave \notin Late
      BY <2>2, SaverKinds DEF Stored
    <3> QED
      BY <2>2, <3>1
  <2> QED
    BY <2>1, <2>2
<1> HIDE DEF g, v
<1>5. saver'[h] = new /\ \A j \in Savers \ {h} : saver'[j] = saver[j]
  BY <1>4 DEF IInv, Typed
<1>6. Typed'
  BY <1>2, <1>3, <1>4 DEF IInv, Typed
<1>7. ASSUME ~overlapped
      PROVE  /\ \A j \in Savers \ {h} : saver[j].at \notin {"sent", "abandoned", "written"}
             /\ saver[h].seen \in {options, Defaults} /\ KeptInv
  <2>1. h \in InProgress
    BY <1>1 DEF InProgress, Writing
  <2> QED
    BY <1>1, <1>7, <2>1 DEF IInv, AloneInv, KeptInv, InProgress
<1>8. options'[g] = v /\ \A x \in Groups \ {g} : options'[x] = saver[h].seen[x]
  BY <1>2, <1>3
<1>9. AloneInv'
  <2> SUFFICES ASSUME ~overlapped
               PROVE  /\ KeptInv'
                      /\ \A i, j \in InProgress' : i = j
                      /\ \A j \in Savers : saver'[j].at \in Writing =>
                           saver'[j].seen \in {options, Defaults}'
                      /\ \A j \in Savers : saver'[j].at = "written" =>
                           saver'[j].value = options'[saver'[j].group]
    BY <1>3 DEF AloneInv
  <2>1. \A j \in Savers \ {h} : saver'[j].at \notin {"sent", "abandoned", "written"}
    BY <1>5, <1>7
  <2>2. InProgress' \subseteq {h}
    BY <2>1 DEF InProgress
  <2>3. saver'[h].at \notin Writing
    BY <1>4, <1>5, SaverKinds DEF Writing
  <2>4. saver'[h].at = "written" => saver'[h].value = options'[saver'[h].group]
    BY <1>4, <1>5, <1>8, SaverKinds
  <2>5. KeptInv'
    <3> SUFFICES ASSUME NEW x \in Groups
                 PROVE  options'[x] = IF x \in lost' THEN Defaults[x] ELSE last'[x]
      BY DEF KeptInv
    <3>1. CASE x = g
      BY <1>2, <1>3, <1>8, <3>1 DEF Dropped, g, IInv, Typed
    <3>2. CASE x # g /\ saver[h].seen = Defaults
      BY <1>3, <1>8, <3>2 DEF Dropped, g
    <3>3. CASE x # g /\ saver[h].seen # Defaults
      BY <1>2, <1>3, <1>7, <1>8, <3>3 DEF Dropped, KeptInv, IInv, Typed
    <3> QED
      BY <3>1, <3>2, <3>3
  <2> QED
    BY <2>1, <2>2, <2>3, <2>4, <2>5 DEF Writing
<1>10. LiveInv'
  <2> SUFFICES ASSUME ~overlapped, process \in {"setup", "loaded", "running"}, NEW x \in HotGroups
               PROVE  \/ x \in unapplied'
                      \/ GoesBy(x)' = options'[x]
                      \/ \E j \in Savers : saver'[j].at = "written" /\ saver'[j].group = x
    BY <1>3 DEF LiveInv
  <2>1. CASE x = g /\ saver[h].at = "sent"
    BY <1>4, <1>5, <2>1
  <2>2. CASE x = g /\ saver[h].at # "sent"
    BY <1>3, <2>2
  <2>3. CASE x # g
    <3>1. x \in unapplied' \/ options'[x] = options[x]
      BY <1>3, <1>7, <1>8, <2>3 DEF Groups, Dropped, g
    <3>2. ~ \E j \in Savers : saver[j].at = "written"
      BY <1>1, <1>7 DEF Writing
    <3>3. unapplied \subseteq unapplied' /\ GoesBy(x)' = GoesBy(x)
      BY <1>3 DEF GoesBy
    <3> QED
      BY <3>1, <3>2, <3>3 DEF IInv, LiveInv
  <2> QED
    BY <2>1, <2>2, <2>3
<1>11. ProbedInv'
  <2>1. saver[h].seen["unifi"] \in probed \cup {Unset} /\ (g = "unifi" => v \in probed)
    BY <1>1 DEF IInv, ProbedInv, Writing, g, v
  <2>2. options'["unifi"] \in probed \cup {Unset}
    BY <1>8, <2>1 DEF Groups
  <2>3. saver'[h].at \notin Writing
    BY <1>4, <1>5, SaverKinds DEF Writing
  <2>4. saver'[h].at # "idle" /\ saver'[h].group = "unifi" => saver'[h].value \in probed
    BY <1>4, <1>5, <2>1, SaverKinds
  <2> QED
    BY <1>3, <1>5, <2>2, <2>3, <2>4 DEF IInv, ProbedInv
<1> QED
  BY <1>6, <1>9, <1>10, <1>11 DEF IInv

(* The handler applies what it wrote, which is what is stored if it was    *)
(* alone.                                                                  *)
LEMMA ApplyIInv ==
  ASSUME IInv, RegisteredInv, NEW h \in Savers, Apply(h)
  PROVE  IInv'
<1>1. /\ saver[h].at = "written" /\ saver[h].group \in HotGroups /\ saver[h] \in Late
      /\ saver' = [saver EXCEPT ![h] = NoSave]
      /\ UNCHANGED <<options, file, process, cfgCreds, last, lost, overlapped, probed>>
  BY KindOf DEF Apply, IInv, store
<1>2. CASE saver[h].group \notin registered
  <2>1. unapplied' = unapplied \cup {saver[h].group} /\ live' = live
    BY <1>2 DEF Apply
  <2> QED
    BY <1>1, <2>1, SaverKinds, MoveIInv DEF Writing
<1>3. CASE saver[h].group \in registered
  <2>1. live' = [live EXCEPT ![saver[h].group] = saver[h].value]
        /\ unapplied' = unapplied \ {saver[h].group}
    BY <1>3 DEF Apply
  <2>2. saver'[h] = NoSave /\ \A j \in Savers \ {h} : saver'[j] = saver[j]
    BY <1>1 DEF IInv, Typed
  <2>3. Typed'
    BY <1>1, <2>1 DEF IInv, Typed, Late
  <2>4. InProgress' \subseteq InProgress
    BY <2>2, SaverKinds DEF InProgress
  <2>5. AloneInv'
    BY <1>1, <2>2, <2>4, SaverKinds DEF IInv, AloneInv, KeptInv, Writing
  <2>6. LiveInv'
    <3> SUFFICES ASSUME ~overlapped, process \in {"setup", "loaded", "running"}, NEW x \in HotGroups
                 PROVE  x \in unapplied' \/ GoesBy(x)' = options[x]
      BY <1>1, <2>1 DEF LiveInv
    <3>0. process # "setup"
      BY <1>3 DEF RegisteredInv
    <3>1. saver[h].value = options[saver[h].group] /\ GoesBy(x)' = live'[x]
      BY <1>1, <3>0 DEF IInv, AloneInv, GoesBy
    <3>2. CASE x = saver[h].group
      BY <2>1, <3>1, <3>2 DEF IInv, Typed
    <3>3. CASE x # saver[h].group
      <4>1. \A j \in Savers : saver[j].at = "written" => j = h
        BY <1>1 DEF IInv, AloneInv, InProgress
      <4>2. live'[x] = GoesBy(x) /\ (x \in unapplied => x \in unapplied')
        BY <2>1, <3>0, <3>3 DEF IInv, Typed, GoesBy
      <4> QED
        BY <3>1, <3>3, <4>1, <4>2 DEF IInv, LiveInv
    <3> QED
      BY <3>2, <3>3
  <2>7. ProbedInv'
    BY <1>1, <2>2, SaverKinds DEF IInv, ProbedInv, Writing
  <2> QED
    BY <2>3, <2>5, <2>6, <2>7 DEF IInv
<1> QED
  BY <1>2, <1>3

(* Home Assistant's own page replaces a group of its own.                  *)
LEMMA FillInIInv == ASSUME IInv, FillIn PROVE IInv'
<1>1. /\ options' = [options EXCEPT !["rest"] = "filled in"]
      /\ last' = [last EXCEPT !["rest"] = "filled in"]
      /\ lost' = lost \ {"rest"}
      /\ overlapped' = (overlapped \/ InProgress # {})
      /\ UNCHANGED <<file, process, cfgCreds, live, saver, unapplied, probed>>
  BY DEF FillIn, bridge, store
<1>2. Typed'
  BY <1>1 DEF IInv, Typed, Val
<1>3. options'["unifi"] = options["unifi"] /\ \A x \in HotGroups : options'[x] = options[x]
  BY <1>1 DEF IInv, Typed, Groups, HotGroups
<1>4. ~overlapped' => ~overlapped /\ InProgress = {}
  BY <1>1
<1>5. InProgress' = InProgress
  BY <1>1 DEF InProgress
<1>6. AloneInv'
  <2>1. \A x \in Groups :
          /\ options'[x] = IF x = "rest" THEN "filled in" ELSE options[x]
          /\ last'[x] = IF x = "rest" THEN "filled in" ELSE last[x]
    BY <1>1 DEF IInv, Typed
  <2>2. KeptInv => KeptInv'
    BY <1>1, <2>1 DEF KeptInv
  <2>3. ~overlapped' => KeptInv'
    BY <1>4, <2>2 DEF IInv, AloneInv
  <2>4. ~overlapped' => \A h \in Savers : saver'[h].at \notin {"sent", "abandoned", "written"}
    BY <1>1, <1>4 DEF InProgress
  <2> QED
    BY <1>4, <1>5, <2>3, <2>4 DEF AloneInv, Writing
<1>7. LiveInv'
  BY <1>1, <1>3, <1>4 DEF IInv, LiveInv, GoesBy
<1>8. ProbedInv'
  <2>1. UNCHANGED <<file, process, cfgCreds, saver, probed>>
    BY <1>1
  <2>2. options'["unifi"] \in probed \cup {Unset}
    BY <1>3 DEF IInv, ProbedInv
  <2> QED
    BY <2>1, <2>2 DEF IInv, ProbedInv
<1> QED
  BY <1>2, <1>6, <1>7, <1>8 DEF IInv

-----------------------------------------------------------------------------
(* Every step keeps the inductive invariant.                               *)
LEMMA NextIInv == IInv /\ RegisteredInv /\ [SetupNext]_setupVars => IInv'
<1> SUFFICES ASSUME IInv, RegisteredInv, [SetupNext]_setupVars PROVE IInv'
  OBVIOUS
<1>1. CASE LogInRefused \/ Stop \/ \E h \in Savers : RestartAddon(h)
  BY <1>1, ExitIInv DEF LogInRefused, Stop, RestartAddon
<1>2. CASE \/ Boot \/ Load \/ LogIn
           \/ \E g \in HotGroups : Register(g)
           \/ \E c \in Creds : Revoke(c)
  BY <1>2, ProcessIInv
<1>3. CASE FillIn
  BY <1>3, FillInIInv
<1>4. ASSUME NEW h \in Savers, NEW g \in HotGroups, NEW v \in Values(g),
             Submit(h, g, v, FALSE)
      PROVE  IInv'
  BY <1>4, SubmitIInv
<1>5. ASSUME NEW h \in Savers, NEW c \in Creds, NEW restart \in BOOLEAN,
             Submit(h, "unifi", c, restart)
      PROVE  IInv'
  <2>1. c \in Values("unifi")
    BY DEF Values
  <2> QED
    BY <1>5, <2>1, SubmitIInv
<1>6. ASSUME NEW h \in Savers,
             \/ Probe(h) \/ GiveUp(h) \/ ReadOptions(h) \/ Stored(h) \/ Refused(h)
             \/ TimeOut(h) \/ Apply(h) \/ CredsSaved(h)
      PROVE  IInv'
  BY <1>6, RequestIInv, ReadOptionsIInv, StoredIInv, ApplyIInv
<1>7. CASE UNCHANGED setupVars
  BY <1>7 DEF setupVars, account, IInv, Typed, AloneInv, LiveInv, GoesBy, ProbedInv, InProgress, KeptInv
<1> QED
  BY <1>1, <1>2, <1>3, <1>4, <1>5, <1>6, <1>7 DEF SetupNext

(* An applier is there in a running bridge only.                           *)
LEMMA Registered == SetupSpec => []RegisteredInv
<1>1. SetupInit => RegisteredInv
  BY DEF SetupInit, RegisteredInv
<1>2. RegisteredInv /\ [SetupNext]_setupVars => RegisteredInv'
  BY DEF RegisteredInv, SetupNext, setupVars, bridge, Boot, Load, LogIn, LogInRefused, Stop,
         RestartAddon, Exit, FillIn, Register, Revoke, Submit, Probe, GiveUp,
         ReadOptions, Stored, Refused, TimeOut, Apply, CredsSaved
<1> QED
  BY <1>1, <1>2, PTL DEF SetupSpec

(* The inductive invariant holds in every reachable state.                 *)
LEMMA Invariance == SetupSpec => []IInv
BY Registered, InitIInv, NextIInv, PTL DEF SetupSpec
-----------------------------------------------------------------------------
(* For any handlers and any number of failures and restarts, saves that do *)
(* not overlap leave the other groups of the options alone.                *)
THEOREM SavesAreIsolated == SetupSpec => []SavesKeepOtherGroups
<1>1. IInv => SavesKeepOtherGroups
  BY DEF IInv, AloneInv, KeptInv, SavesKeepOtherGroups
<1> QED
  BY <1>1, Invariance, PTL

(* The running bridge goes by what is stored, but for saves that could not *)
(* be applied or that overlapped, whenever its appliers were registered.   *)
THEOREM LiveFollowsStored == SetupSpec => []LiveIsStored
<1>1. IInv => LiveIsStored
  BY DEF IInv, LiveInv, GoesBy, LiveIsStored, Busy
<1> QED
  BY <1>1, Invariance, PTL

(* No save stores credentials that the controller has never accepted, also *)
(* when saves overlap or take place after a restart: for any credentials.  *)
THEOREM OnlyProbedRefused == SetupSpec => RefusedWereProbed
<1>1. IInv /\ [SetupNext]_setupVars => [LogInRefused => cfgCreds \in probed]_setupVars
  BY DEF IInv, ProbedInv, LogInRefused
<1> QED
  BY <1>1, Invariance, PTL DEF SetupSpec, RefusedWereProbed

-----------------------------------------------------------------------------
(* Types.                                                                  *)

(* What a request may hold, wherever it is.                                *)
RequestOK(s) ==
  /\ process = "down" => s.at = "abandoned"
  /\ s.group \in HotGroups \cup {"unifi"}
  /\ s.value \in Kept(s.group)
  /\ s.at \in {"sent", "abandoned", "written"} => s.seen \in Options

(* The bridge has values to go by from the load on.                        *)
LiveOK == live["cameras"] \in CameraLists \cup {Unset} /\ live["log"] \in Levels

TypesInv ==
  /\ Typed /\ SetupTypeOK
  /\ process \in {"loaded", "running"} => LiveOK

(* No options at all are options with the defaults.                        *)
LEMMA DefaultsInOptions == Defaults \in Options
BY DefaultsType DEF Defaults, Options, Levels

(* It holds initially.                                                     *)
LEMMA InitTypes == SetupInit => TypesInv
<1> SUFFICES ASSUME SetupInit PROVE TypesInv
  OBVIOUS
<1>1. Typed
  BY InitIInv DEF IInv
<1>2. options \in [Groups -> Creds \cup CameraLists \cup Levels \cup {Unset, "filled in"}]
  BY DEF SetupInit, Levels
<1>3. options \in Options /\ last \in Options /\ file \in Options
  BY <1>2, DefaultsInOptions DEF SetupInit, Options, Levels
<1>4. Busy = {}
  BY SaverKinds DEF SetupInit, Busy
<1> QED
  BY <1>1, <1>3, <1>4 DEF SetupInit, TypesInv, SetupTypeOK, Options

(* Replacing one group by a value of that group leaves options.            *)
LEMMA MergeTypes ==
  ASSUME NEW o \in Options, NEW g \in HotGroups \cup {"unifi"}, NEW v \in Kept(g)
  PROVE  [o EXCEPT ![g] = v] \in Options
<1>1. CASE g = "cameras"
  BY <1>1 DEF Options, Kept, Values, Groups, HotGroups
<1>2. CASE g = "log"
  BY <1>2 DEF Options, Kept, Values, Groups, HotGroups
<1>3. CASE g = "unifi"
  BY <1>3 DEF Options, Kept, Values, Groups, HotGroups
<1> QED
  BY <1>1, <1>2, <1>3 DEF HotGroups

(* Request h goes on or is dropped, and what is stored or applied is of    *)
(* the types it should be.                                                 *)
LEMMA MoveTypesInv ==
  ASSUME TypesInv, Typed', NEW h \in Savers, NEW new,
         saver' = [saver EXCEPT ![h] = new], new = NoSave \/ RequestOK(new),
         UNCHANGED <<process, cfgCreds, registered, accepted>>,
         {options', file', last'} \subseteq Options, lost' \in SUBSET Groups,
         \/ live' = live
         \/ process = "running" /\ LiveOK',
         probed' \in SUBSET (Creds \cup {Unset})
  PROVE  TypesInv'
<1>1. saver'[h] = new /\ \A j \in Savers \ {h} : saver'[j] = saver[j]
  BY DEF TypesInv, Typed
<1>2. \A j \in Busy' : /\ process = "down" => saver'[j].at = "abandoned"
                       /\ saver'[j].group \in HotGroups \cup {"unifi"}
                       /\ saver'[j].value \in Kept(saver'[j].group)
                       /\ j \in InProgress' => saver'[j].seen \in Options
  <2> SUFFICES ASSUME NEW j \in Busy'
               PROVE  /\ process = "down" => saver'[j].at = "abandoned"
                      /\ saver'[j].group \in HotGroups \cup {"unifi"}
                      /\ saver'[j].value \in Kept(saver'[j].group)
                      /\ j \in InProgress' => saver'[j].seen \in Options
    OBVIOUS
  <2>1. CASE j = h
    BY <1>1, <2>1, SaverKinds DEF Busy, RequestOK, InProgress
  <2>2. CASE j # h
    <3>1. j \in Busy /\ saver'[j] = saver[j]
      BY <1>1, <2>2 DEF Busy
    <3> QED
      BY <3>1 DEF TypesInv, SetupTypeOK, InProgress
  <2> QED
    BY <2>1, <2>2
<1>3. live' = NothingLive \/ LiveOK'
  BY DEF TypesInv, SetupTypeOK, LiveOK
<1>4. process \in {"loaded", "running"} => LiveOK'
  BY DEF TypesInv, LiveOK
<1> QED
  BY <1>2, <1>3, <1>4 DEF TypesInv, SetupTypeOK, LiveOK

(* A request that is being served.                                         *)
LEMMA BusyRequest ==
  ASSUME TypesInv, NEW h \in Savers, saver[h].at # "idle"
  PROVE  RequestOK(saver[h])
BY DEF TypesInv, SetupTypeOK, Busy, InProgress, RequestOK

(* A request is made: an unknown level becomes one that is known.          *)
LEMMA SubmitTypes ==
  ASSUME TypesInv, Typed', NEW h \in Savers, NEW g \in HotGroups \cup {"unifi"},
         NEW v \in Values(g), NEW restart \in BOOLEAN, Submit(h, g, v, restart)
  PROVE  TypesInv'
<1> DEFINE new == [at |-> IF g = "unifi" THEN "probe" ELSE "read", group |-> g,
                   value |-> Normalize(g, v), restart |-> restart]
<1>1. Normalize(g, v) \in Kept(g)
  <2>1. CASE g = "log"
    BY <2>1 DEF Normalize, Kept, Values, Levels
  <2>2. CASE g # "log"
    BY <2>2 DEF Normalize, Kept
  <2> QED
    BY <2>1, <2>2
<1>2. /\ new.group = g /\ new.value = Normalize(g, v)
      /\ new.at = IF g = "unifi" THEN "probe" ELSE "read"
  OBVIOUS
<1>3. /\ saver' = [saver EXCEPT ![h] = new] /\ process # "down"
      /\ UNCHANGED <<store, file, live, process, cfgCreds, registered, accepted, probed>>
  BY DEF Submit, bridge, store, account
<1> HIDE DEF new
<1>4. RequestOK(new)
  BY <1>1, <1>2, <1>3 DEF RequestOK
<1> QED
  BY <1>3, <1>4, MoveTypesInv DEF TypesInv, SetupTypeOK, store

(* The steps of a request that neither write nor apply.                    *)
LEMMA RequestTypes ==
  ASSUME TypesInv, Typed', NEW h \in Savers,
         \/ Probe(h) \/ GiveUp(h) \/ ReadOptions(h) \/ Refused(h) \/ TimeOut(h)
         \/ CredsSaved(h)
  PROVE  TypesInv'
<1>1. /\ UNCHANGED <<store, file, live, process, cfgCreds, registered, accepted>>
      /\ saver[h].at # "idle"
  BY DEF Probe, GiveUp, ReadOptions, Refused, TimeOut, CredsSaved, bridge, store, account
<1>2. RequestOK(saver[h])
  BY <1>1, BusyRequest
<1>3. /\ {options', file', last'} \subseteq Options /\ lost' \in SUBSET Groups
      /\ probed \in SUBSET (Creds \cup {Unset})
  BY <1>1 DEF TypesInv, SetupTypeOK, store
<1>4. ASSUME saver' = [saver EXCEPT ![h] = NoSave], UNCHANGED probed
      PROVE  TypesInv'
  BY <1>1, <1>3, <1>4, MoveTypesInv
<1>5. CASE Probe(h)
  <2> DEFINE new == [saver[h] EXCEPT !.at = "read"]
  <2>1. /\ saver' = [saver EXCEPT ![h] = new]
        /\ saver[h].at = "probe" /\ saver[h].value \in accepted
        /\ probed' = probed \cup {saver[h].value}
    BY <1>5 DEF Probe
  <2>2. saver[h] \in Early
    BY <2>1, KindOf DEF TypesInv
  <2>3. new.at = "read" /\ new.group = saver[h].group /\ new.value = saver[h].value
    BY <2>2, SaverKinds
  <2>4. probed' \in SUBSET (Creds \cup {Unset})
    BY <1>3, <2>1 DEF TypesInv, SetupTypeOK
  <2> HIDE DEF new
  <2>5. RequestOK(new)
    BY <1>2, <2>1, <2>3 DEF RequestOK
  <2> QED
    BY <1>1, <1>3, <2>1, <2>4, <2>5, MoveTypesInv
<1>6. CASE GiveUp(h) \/ Refused(h)
  BY <1>4, <1>6 DEF GiveUp, Refused
<1>7. CASE ReadOptions(h)
  <2>0. PICK answer \in {options, Defaults} :
          saver' = [saver EXCEPT ![h] =
            [at |-> "sent", group |-> saver[h].group, value |-> saver[h].value,
             restart |-> saver[h].restart, seen |-> answer]]
    BY <1>7 DEF ReadOptions
  <2> DEFINE new == [at |-> "sent", group |-> saver[h].group, value |-> saver[h].value,
                     restart |-> saver[h].restart, seen |-> answer]
  <2>1. saver' = [saver EXCEPT ![h] = new] /\ saver[h].at = "read" /\ probed' = probed
    BY <1>7, <2>0 DEF ReadOptions
  <2>2. RequestOK(new)
    <3>1. answer \in Options
      BY DefaultsInOptions DEF TypesInv, SetupTypeOK
    <3> QED
      BY <1>1, <1>2, <2>1, <3>1 DEF RequestOK
  <2> HIDE DEF new
  <2> QED
    BY <1>1, <1>3, <2>1, <2>2, MoveTypesInv
<1>8. ASSUME NEW p \in {"abandoned", "restart"}, saver[h].at \in {"sent", "written"},
             p = "abandoned" \/ saver[h].at = "written",
             saver' = [saver EXCEPT ![h] = [saver[h] EXCEPT !.at = p]], UNCHANGED probed
      PROVE  TypesInv'
  <2> DEFINE new == [saver[h] EXCEPT !.at = p]
  <2>1. saver[h] \in Late
    BY <1>8, KindOf DEF TypesInv
  <2>2. /\ new.at = p /\ new.group = saver[h].group /\ new.value = saver[h].value
        /\ new.seen = saver[h].seen
    BY <2>1, SaverKinds
  <2>3. saver' = [saver EXCEPT ![h] = new]
    BY <1>8
  <2> HIDE DEF new
  <2>4. RequestOK(new)
    BY <1>2, <1>8, <2>2 DEF RequestOK
  <2> QED
    BY <1>1, <1>3, <1>8, <2>3, <2>4, MoveTypesInv
<1>9. CASE TimeOut(h)
  <2>1. CASE saver[h].at = "sent"
    BY <1>8, <1>9, <2>1 DEF TimeOut
  <2>2. CASE saver[h].at = "written"
    BY <1>4, <1>9, <2>2 DEF TimeOut
  <2> QED
    BY <1>9, <2>1, <2>2 DEF TimeOut
<1>10. CASE CredsSaved(h)
  <2>1. CASE saver[h].restart
    BY <1>8, <1>10, <2>1 DEF CredsSaved
  <2>2. CASE ~saver[h].restart
    BY <1>4, <1>10, <2>2 DEF CredsSaved
  <2> QED
    BY <2>1, <2>2
<1> QED
  BY <1>5, <1>6, <1>7, <1>9, <1>10

(* The Supervisor stores a value of the group it is for.                   *)
LEMMA StoredTypes ==
  ASSUME TypesInv, Typed', NEW h \in Savers, Stored(h)
  PROVE  TypesInv'
<1> DEFINE r == saver[h]
<1>1. /\ r.at \in {"sent", "abandoned"}
      /\ options' = [r.seen EXCEPT ![r.group] = r.value]
      /\ last' = [last EXCEPT ![r.group] = r.value]
      /\ lost' = (lost \ {r.group}) \cup Dropped(r)
      /\ UNCHANGED <<file, live, process, cfgCreds, registered, accepted, probed>>
  BY DEF Stored, Merge, bridge, store, account
<1>2. RequestOK(r)
  BY <1>1, BusyRequest
<1>3. {options', file', last'} \subseteq Options /\ lost' \in SUBSET Groups
  <2>1. r.seen \in Options /\ last \in Options
    BY <1>1, <1>2 DEF RequestOK, TypesInv, SetupTypeOK
  <2> QED
    <3>1. r.group \in HotGroups \cup {"unifi"} /\ r.value \in Kept(r.group)
      BY <1>2 DEF RequestOK
    <3>2. options' \in Options /\ last' \in Options
      BY <1>1, <2>1, <3>1, MergeTypes
    <3>3. file' \in Options /\ lost' \in SUBSET Groups
      BY <1>1 DEF TypesInv, SetupTypeOK, Dropped
    <3> QED
      BY <3>2, <3>3
<1>4. CASE r.at = "sent"
  <2> DEFINE new == [r EXCEPT !.at = "written"]
  <2>1. r \in Late
    BY <1>1, KindOf DEF TypesInv
  <2>2. /\ new.at = "written" /\ new.group = r.group /\ new.value = r.value
        /\ new.seen = r.seen
    BY <2>1, SaverKinds
  <2>3. saver' = [saver EXCEPT ![h] = new]
    BY <1>4 DEF Stored
  <2> HIDE DEF new
  <2>4. RequestOK(new)
    BY <1>2, <1>4, <2>2 DEF RequestOK
  <2> QED
    BY <1>1, <1>3, <2>3, <2>4, MoveTypesInv DEF TypesInv, SetupTypeOK
<1>5. CASE r.at # "sent"
  <2>1. saver' = [saver EXCEPT ![h] = NoSave]
    BY <1>5 DEF Stored
  <2> QED
    BY <1>1, <1>3, <2>1, MoveTypesInv DEF TypesInv, SetupTypeOK
<1> QED
  BY <1>4, <1>5

(* Only a running bridge has appliers, so nothing is applied to one that   *)
(* has not been loaded.                                                    *)
LEMMA ApplyTypes ==
  ASSUME TypesInv, Typed', NEW h \in Savers, Apply(h)
  PROVE  TypesInv'
<1> DEFINE g == saver[h].group
<1>1. /\ saver[h].at = "written" /\ g \in HotGroups
      /\ saver' = [saver EXCEPT ![h] = NoSave]
      /\ UNCHANGED <<store, file, process, cfgCreds, registered, accepted, probed>>
      /\ IF g \in registered THEN live' = [live EXCEPT ![g] = saver[h].value]
         ELSE live' = live
  BY DEF Apply, account
<1>2. saver[h].value \in Kept(g)
  BY <1>1, BusyRequest DEF RequestOK
<1>3. live' = live \/ (process = "running" /\ LiveOK')
  <2>1. CASE g \in registered
    <3>1. process = "running" /\ LiveOK /\ live \in [HotGroups -> Val]
      BY <2>1 DEF TypesInv, SetupTypeOK, Typed
    <3>2. LiveOK'
      <4>1. CASE g = "cameras"
        BY <1>1, <1>2, <2>1, <3>1, <4>1 DEF LiveOK, Kept, Values, HotGroups
      <4>2. CASE g = "log"
        BY <1>1, <1>2, <2>1, <3>1, <4>2 DEF LiveOK, Kept, HotGroups
      <4> QED
        BY <1>1, <4>1, <4>2 DEF HotGroups
    <3> QED
      BY <3>1, <3>2
  <2>2. CASE g \notin registered
    BY <1>1, <2>2
  <2> QED
    BY <2>1, <2>2
<1> QED
  BY <1>1, <1>3, MoveTypesInv DEF TypesInv, SetupTypeOK, store

(* The process ends: what remains of a request is a write on its way.      *)
LEMMA ExitTypes == ASSUME TypesInv, Typed', Exit PROVE TypesInv'
<1>1. \A h \in Savers : saver'[h] = Orphaned(saver[h])
  BY DEF Exit
<1>2. ASSUME NEW h \in Busy'
      PROVE  /\ saver'[h].at = "abandoned"
             /\ saver'[h].group \in HotGroups \cup {"unifi"}
             /\ saver'[h].value \in Kept(saver'[h].group)
             /\ saver'[h].seen \in Options
  <2>1. h \in Savers /\ saver[h].at \in {"sent", "abandoned"}
    BY <1>1, SaverKinds DEF Busy, Orphaned
  <2>2. saver[h] \in Late /\ RequestOK(saver[h])
    BY <2>1, KindOf, BusyRequest DEF TypesInv
  <2>3. /\ saver'[h].at = "abandoned" /\ saver'[h].group = saver[h].group
        /\ saver'[h].value = saver[h].value /\ saver'[h].seen = saver[h].seen
    <3>1. CASE saver[h].at = "sent"
      <4>1. saver'[h] = [saver[h] EXCEPT !.at = "abandoned"]
        BY <1>1, <2>1, <3>1 DEF Orphaned
      <4> QED
        BY <2>2, <4>1, SaverKinds
    <3>2. CASE saver[h].at = "abandoned"
      <4>1. saver'[h] = saver[h]
        BY <1>1, <2>1, <3>2 DEF Orphaned
      <4> QED
        BY <3>2, <4>1
    <3> QED
      BY <2>1, <3>1, <3>2
  <2> QED
    BY <2>1, <2>2, <2>3 DEF RequestOK
<1> QED
  BY <1>2, DefaultsInOptions DEF TypesInv, SetupTypeOK, Exit, account, store

(* The start of the process, and what others change.                       *)
LEMMA ProcessTypes ==
  ASSUME TypesInv, Typed',
         \/ Boot \/ Load \/ LogIn \/ FillIn
         \/ \E g \in HotGroups : Register(g)
         \/ \E c \in Creds : Revoke(c)
  PROVE  TypesInv'
<1>1. ASSUME UNCHANGED <<saver, probed>>,
             {options', file', last'} \subseteq Options, lost' \in SUBSET Groups,
             process' \in {"down", "setup", "setup only", "loaded", "running"},
             process' = "down" => process = "down",
             cfgCreds' \in Creds \cup {Unset},
             live' = live \/ LiveOK',
             process' \in {"loaded", "running"} => LiveOK',
             registered' \in SUBSET HotGroups,
             registered' # {} => process' = "running",
             accepted' \in SUBSET Creds
      PROVE  TypesInv'
  <2>1. Busy' = Busy /\ InProgress' = InProgress
    BY <1>1 DEF Busy, InProgress
  <2> QED
    BY <1>1, <2>1 DEF TypesInv, SetupTypeOK, LiveOK
<1>2. CASE Boot
  BY <1>1, <1>2 DEF Boot, account, store, TypesInv, SetupTypeOK
<1>3. CASE Load
  <2>1. /\ registered' = {} /\ file' = Defaults
        /\ UNCHANGED <<saver, probed, options, last, lost, accepted>>
    BY <1>3 DEF Load, account, store, TypesInv, SetupTypeOK
  <2>2. CASE process' = "setup only"
    BY <1>1, <1>3, <2>1, <2>2, DefaultsInOptions DEF Load, TypesInv, SetupTypeOK
  <2>3. CASE process' = "loaded"
    <3>1. cfgCreds' = file["unifi"] /\ live' = [g \in HotGroups |-> file[g]]
      BY <1>3, <2>3 DEF Load
    <3>2. LiveOK' /\ cfgCreds' \in Creds \cup {Unset}
      BY <3>1 DEF LiveOK, TypesInv, SetupTypeOK, Options, HotGroups
    <3> QED
      BY <1>1, <2>1, <2>3, <3>2, DefaultsInOptions DEF TypesInv, SetupTypeOK
  <2> QED
    BY <1>3, <2>2, <2>3 DEF Load
<1>4. CASE LogIn
  BY <1>1, <1>4 DEF LogIn, account, store, TypesInv, SetupTypeOK, LiveOK
<1>5. CASE FillIn
  <2>1. [options EXCEPT !["rest"] = "filled in"] \in Options
        /\ [last EXCEPT !["rest"] = "filled in"] \in Options
    BY DEF TypesInv, SetupTypeOK, Options, Groups, HotGroups
  <2> QED
    BY <1>1, <1>5, <2>1 DEF FillIn, bridge, account, TypesInv, SetupTypeOK, LiveOK
<1>6. ASSUME NEW g \in HotGroups, Register(g) PROVE TypesInv'
  BY <1>1, <1>6 DEF Register, account, store, TypesInv, SetupTypeOK, LiveOK
<1>7. ASSUME NEW c \in Creds, Revoke(c) PROVE TypesInv'
  BY <1>1, <1>7 DEF Revoke, bridge, store, TypesInv, SetupTypeOK, LiveOK
<1> QED
  BY <1>2, <1>3, <1>4, <1>5, <1>6, <1>7

(* Every step keeps the types.                                             *)
LEMMA NextTypes == TypesInv /\ Typed' /\ [SetupNext]_setupVars => TypesInv'
<1> SUFFICES ASSUME TypesInv, Typed', [SetupNext]_setupVars PROVE TypesInv'
  OBVIOUS
<1>1. CASE LogInRefused \/ Stop \/ \E h \in Savers : RestartAddon(h)
  BY <1>1, ExitTypes DEF LogInRefused, Stop, RestartAddon
<1>2. ASSUME NEW h \in Savers, NEW c \in Creds, NEW restart \in BOOLEAN,
             Submit(h, "unifi", c, restart)
      PROVE  TypesInv'
  <2>1. c \in Values("unifi")
    BY DEF Values
  <2> QED
    BY <1>2, <2>1, SubmitTypes
<1>3. CASE UNCHANGED setupVars
  <2>1. Busy' = Busy /\ InProgress' = InProgress
    BY <1>3 DEF setupVars, Busy, InProgress
  <2> QED
    BY <1>3, <2>1 DEF setupVars, account, TypesInv, SetupTypeOK, LiveOK
<1> QED
  BY <1>1, <1>2, <1>3, SubmitTypes, RequestTypes, StoredTypes, ApplyTypes, ProcessTypes
     DEF SetupNext

(* Types, for any handlers, credentials and camera lists: what is stored   *)
(* and applied is always of the right group and a level that is known, an  *)
(* applier is registered by a running bridge only, and of a process that   *)
(* has ended nothing is left but writes on their way.                      *)
THEOREM TypeCorrect == SetupSpec => []SetupTypeOK
<1>1. SetupSpec => []Typed
  <2>1. IInv => Typed
    BY DEF IInv
  <2> QED
    BY <2>1, Invariance, PTL
<1>2. TypesInv => SetupTypeOK
  BY DEF TypesInv
<1> QED
  BY <1>1, <1>2, InitTypes, NextTypes, PTL DEF SetupSpec

=============================================================================
