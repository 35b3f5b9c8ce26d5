------------------------- MODULE StreamServerProofs -------------------------
(***************************************************************************)
(* Proofs about module StreamServer, for any requests, muxers, addresses   *)
(* and goroutines that change what LookupRTSP answers.                     *)
(***************************************************************************)
EXTENDS StreamServer, TLAPS

(* A request on its way reaches the registered muxer, or one that was      *)
(* closed meanwhile.                                                       *)
RoutedInv ==
  \A v \in Requests : at[v] = "routed" => mux[v] = entry \/ mux[v] \in escaped

IInv ==
  /\ ServerTypeOK
  /\ RegisteredMuxerIsCurrent
  /\ ServedByRegisteredMuxer
  /\ RoutedInv

Places == {"none", "arrived", "routed", "watching", "gone"}

(* At the start there is no muxer and no request.                          *)
LEMMA InitIInv == ServerInit => IInv
<1> SUFFICES ASSUME ServerInit PROVE IInv
  OBVIOUS
<1>1. ServerTypeOK
  <2>1. changes \in 0 .. MaxChanges
    BY ServerAssumption DEF ServerInit
  <2> QED
    BY <2>1 DEF ServerInit, ServerTypeOK
<1> QED
  BY <1>1
     DEF ServerInit, IInv, RegisteredMuxerIsCurrent, ServedByRegisteredMuxer, RoutedInv
-----------------------------------------------------------------------------
(* Muxer.Close of the registered muxer: who watched it is gone, who was on *)
(* its way to it will find a muxer that has escaped.                       *)
LEMMA CloseEntryFacts ==
  ASSUME IInv, CloseEntry
  PROVE  /\ started' \in [Muxers -> BOOLEAN]
         /\ escaped' \in SUBSET Made /\ escaped \subseteq escaped'
         /\ \A m \in Muxers : started'[m] => m # entry /\ m \in escaped'
         /\ Disconnected \in [Requests -> Places]
         /\ \A v \in Requests : Disconnected[v] = "gone" \/ Disconnected[v] = at[v]
         /\ \A v \in Requests : Disconnected[v] \in {"watching", "routed"} =>
              at[v] = Disconnected[v] /\ mux[v] \in escaped'
<1>1. started' \in [Muxers -> BOOLEAN]
  BY DEF CloseEntry
<1>2. escaped' \in SUBSET Made /\ escaped \subseteq escaped'
  <2>1. ASSUME OnTheWay(entry) # {} PROVE entry \in Made
    BY <2>1 DEF OnTheWay, IInv, ServerTypeOK
  <2> QED
    BY <2>1 DEF CloseEntry, IInv, ServerTypeOK
<1>3. \A m \in Muxers : started'[m] => m # entry /\ m \in escaped'
  BY <1>2 DEF CloseEntry, IInv, ServedByRegisteredMuxer
<1>4. /\ Disconnected \in [Requests -> Places]
      /\ \A v \in Requests : Disconnected[v] = "gone" \/ Disconnected[v] = at[v]
  BY DEF Disconnected, IInv, ServerTypeOK, Places
<1>5. ASSUME NEW v \in Requests, Disconnected[v] \in {"watching", "routed"}
      PROVE  at[v] = Disconnected[v] /\ mux[v] \in escaped'
  <2>1. at[v] = Disconnected[v] /\ v \notin Watching(entry)
    BY <1>5 DEF Disconnected
  <2>2. CASE at[v] = "watching"
    BY <1>2, <2>1, <2>2 DEF Watching, IInv, ServedByRegisteredMuxer
  <2>3. CASE at[v] = "routed"
    <3>1. CASE mux[v] = entry
      <4>1. v \in OnTheWay(entry)
        BY <2>3, <3>1 DEF OnTheWay
      <4> QED
        BY <2>1, <3>1, <4>1 DEF CloseEntry
    <3>2. CASE mux[v] # entry
      BY <1>2, <2>1, <2>3, <3>2 DEF IInv, RoutedInv
    <3> QED
      BY <3>1, <3>2
  <2> QED
    BY <1>5, <2>1, <2>2, <2>3
<1> QED
  BY <1>1, <1>2, <1>3, <1>4, <1>5

(* The registered muxer is closed and dropped; requests are disconnected,  *)
(* and perhaps one more is refused.                                        *)
LEMMA DropEntryIInv ==
  ASSUME IInv, CloseEntry, entry' = NoMuxer,
         UNCHANGED <<lookup, changes, rtspURL, mux>>,
         notify' \subseteq notify, closing' \in BOOLEAN,
         \/ at' = Disconnected
         \/ \E v \in Requests : at' = [Disconnected EXCEPT ![v] = "gone"]
  PROVE  IInv'
<1> USE CloseEntryFacts
<1>1. Made' = Made
  BY DEF Made
<1>2. at' \in [Requests -> Places]
  BY DEF Places
<1>3. \A v \in Requests : at'[v] \in {"watching", "routed"} =>
        at[v] = at'[v] /\ mux[v] \in escaped'
  <2> SUFFICES ASSUME NEW v \in Requests, at'[v] \in {"watching", "routed"}
               PROVE  at[v] = at'[v] /\ mux[v] \in escaped'
    OBVIOUS
  <2>1. at'[v] = Disconnected[v]
    BY DEF Places
  <2> QED
    BY <2>1
<1>4. ServerTypeOK'
  <2>1. \A v \in Requests : mux[v] \in Made \cup {NoMuxer}
    BY DEF IInv, ServerTypeOK
  <2>2. \A v \in Requests : at'[v] \in {"watching", "routed"} => mux[v] \in Made
    BY <1>3 DEF IInv, ServerTypeOK
  <2> QED
    BY <1>1, <1>2, <2>1, <2>2 DEF IInv, ServerTypeOK, Places
<1>5. RegisteredMuxerIsCurrent'
  BY DEF RegisteredMuxerIsCurrent
<1>6. ServedByRegisteredMuxer' /\ RoutedInv'
  BY <1>3 DEF ServedByRegisteredMuxer, RoutedInv
<1> QED
  BY <1>4, <1>5, <1>6 DEF IInv

(* A request moves on, or leaves, and no muxer is touched.                 *)
LEMMA RequestIInv ==
  ASSUME IInv, NEW v \in Requests, NEW p \in {"none", "arrived", "gone"},
         at' = [at EXCEPT ![v] = p], UNCHANGED <<source, server, mux>>
  PROVE  IInv'
<1>1. /\ at' \in [Requests -> Places] /\ at'[v] = p
      /\ \A w \in Requests \ {v} : at'[w] = at[w]
  BY DEF IInv, ServerTypeOK, Places
<1>2. ServerTypeOK'
  <2>1. Made' = Made
    BY DEF Made, server
  <2>2. \A w \in Requests : /\ mux[w] \in Made \cup {NoMuxer}
                            /\ at'[w] \in {"routed", "watching"} => mux[w] \in Made
    BY <1>1 DEF IInv, ServerTypeOK
  <2> QED
    BY <1>1, <2>1, <2>2 DEF IInv, ServerTypeOK, source, server, Places
<1>3. RegisteredMuxerIsCurrent' /\ ServedByRegisteredMuxer' /\ RoutedInv'
  BY <1>1 DEF IInv, RegisteredMuxerIsCurrent, ServedByRegisteredMuxer, RoutedInv,
              source, server
<1> QED
  BY <1>2, <1>3 DEF IInv
-----------------------------------------------------------------------------
(* A goroutine that changes the address has yet to call Prune.             *)
LEMMA ChangeIInv ==
  ASSUME IInv, NEW g \in Notifiers, NEW u \in URLs \cup {NoURL}, Change(g, u)
  PROVE  IInv'
<1>1. ServerTypeOK'
  BY ServerAssumption DEF IInv, ServerTypeOK, Change, Made, server, request
<1>2. RegisteredMuxerIsCurrent'
  BY DEF Change, RegisteredMuxerIsCurrent
<1>3. ServedByRegisteredMuxer' /\ RoutedInv'
  BY DEF IInv, Change, ServedByRegisteredMuxer, RoutedInv, server, request
<1> QED
  BY <1>1, <1>2, <1>3 DEF IInv

(* Prune keeps the registered muxer only if it is the current one.         *)
LEMMA PruneIInv == ASSUME IInv, NEW g \in Notifiers, Prune(g) PROVE IInv'
<1>1. CASE entry # NoMuxer /\ ~Current
  BY <1>1, DropEntryIInv DEF Prune, IInv, ServerTypeOK
<1>2. CASE ~(entry # NoMuxer /\ ~Current)
  <2>1. ServerTypeOK'
    BY <1>2 DEF IInv, ServerTypeOK, Prune, Made
  <2>2. RegisteredMuxerIsCurrent'
    BY <1>2 DEF Prune, Current, RegisteredMuxerIsCurrent
  <2>3. ServedByRegisteredMuxer' /\ RoutedInv'
    BY <1>2 DEF IInv, Prune, ServedByRegisteredMuxer, RoutedInv
  <2> QED
    BY <2>1, <2>2, <2>3 DEF IInv
<1> QED
  BY <1>1, <1>2

(* muxerFor returns the muxer that is registered.                          *)
LEMMA FindMuxerIInv == ASSUME IInv, NEW v \in Requests, FindMuxer(v) PROVE IInv'
<1>1. /\ at' \in [Requests -> Places] /\ at'[v] = "routed" /\ mux'[v] = entry
      /\ \A w \in Requests \ {v} : at'[w] = at[w] /\ mux'[w] = mux[w]
  <2>1. v \in DOMAIN mux
    BY DEF IInv, ServerTypeOK
  <2> QED
    BY <2>1 DEF IInv, ServerTypeOK, FindMuxer, Places
<1>2. entry \in Made /\ Made' = Made
  BY DEF FindMuxer, Current, IInv, ServerTypeOK, Made, server
<1>3. ServerTypeOK'
  BY <1>1, <1>2 DEF IInv, ServerTypeOK, FindMuxer, source, server, Places
<1>4. RegisteredMuxerIsCurrent' /\ ServedByRegisteredMuxer' /\ RoutedInv'
  BY <1>1 DEF IInv, FindMuxer, RegisteredMuxerIsCurrent, ServedByRegisteredMuxer,
              RoutedInv, source, server
<1> QED
  BY <1>3, <1>4 DEF IInv

(* muxerFor makes and registers a muxer for the address in force; nobody   *)
(* has had that muxer before.                                              *)
LEMMA MakeMuxerIInv ==
  ASSUME IInv, NEW v \in Requests, NEW m \in Muxers, MakeMuxer(v, m)
  PROVE  IInv'
<1> USE CloseEntryFacts
<1>0. CloseEntry
  BY DEF MakeMuxer
<1>1. /\ at' \in [Requests -> Places] /\ at'[v] = "routed" /\ mux'[v] = m
      /\ \A w \in Requests \ {v} : at'[w] = Disconnected[w] /\ mux'[w] = mux[w]
  <2>1. v \in DOMAIN mux /\ v \in DOMAIN Disconnected
    BY DEF IInv, ServerTypeOK, Disconnected
  <2> QED
    BY <1>0, <2>1 DEF MakeMuxer, Places
<1>2. /\ lookup \in URLs /\ m \notin Made
      /\ rtspURL' = [rtspURL EXCEPT ![m] = lookup]
      /\ Made' = Made \cup {m} /\ entry' = m /\ rtspURL'[m] = lookup
  BY ServerAssumption DEF MakeMuxer, IInv, ServerTypeOK, Made
<1>3. ServerTypeOK'
  <2>1. mux' \in [Requests -> Made' \cup {NoMuxer}]
    BY <1>2 DEF MakeMuxer, IInv, ServerTypeOK
  <2>2. ASSUME NEW w \in Requests, at'[w] \in {"routed", "watching"}
        PROVE  mux'[w] \in Made'
    BY <1>0, <1>1, <1>2, <2>2 DEF IInv, ServerTypeOK
  <2>3. rtspURL' \in [Muxers -> URLs \cup {NoURL}]
    BY <1>2 DEF IInv, ServerTypeOK
  <2>4. escaped' \in SUBSET Made'
    BY <1>0, <1>2
  <2> QED
    BY <1>0, <1>1, <1>2, <2>1, <2>2, <2>3, <2>4 DEF MakeMuxer, IInv, ServerTypeOK, source, Places
<1>4. RegisteredMuxerIsCurrent'
  BY <1>2 DEF MakeMuxer, RegisteredMuxerIsCurrent, source
<1>5. ServedByRegisteredMuxer'
  <2>1. ASSUME NEW w \in Requests, at'[w] = "watching"
        PROVE  mux'[w] \in escaped'
    BY <1>0, <1>1, <2>1
  <2> QED
    BY <1>0, <2>1 DEF ServedByRegisteredMuxer
<1>6. RoutedInv'
  BY <1>0, <1>1, <1>2 DEF RoutedInv
<1> QED
  BY <1>3, <1>4, <1>5, <1>6 DEF IInv

(* The request opens the upstream of the muxer it was given.               *)
LEMMA AttachIInv == ASSUME IInv, NEW v \in Requests, Attach(v) PROVE IInv'
<1>1. /\ at[v] = "routed" /\ mux[v] \in Made /\ mux[v] \in Muxers
      /\ mux[v] = entry \/ mux[v] \in escaped
  BY DEF Attach, IInv, ServerTypeOK, RoutedInv, Made
<1>2. /\ at' \in [Requests -> Places] /\ at'[v] = "watching"
      /\ \A w \in Requests \ {v} : at'[w] = at[w]
      /\ started' \in [Muxers -> BOOLEAN] /\ started'[mux[v]]
      /\ \A m \in Muxers \ {mux[v]} : started'[m] = started[m]
  BY <1>1 DEF Attach, EnsureStarted, IInv, ServerTypeOK, Places
<1>3. UNCHANGED <<source, entry, closing, rtspURL, escaped, mux>> /\ Made' = Made
  BY DEF Attach, Made
<1>4. ServerTypeOK'
  BY <1>1, <1>2, <1>3 DEF IInv, ServerTypeOK, source, Places
<1>5. RegisteredMuxerIsCurrent' /\ RoutedInv'
  BY <1>2, <1>3 DEF IInv, RegisteredMuxerIsCurrent, RoutedInv, source
<1>6. ServedByRegisteredMuxer'
  <2>1. ASSUME NEW w \in Requests, at'[w] = "watching"
        PROVE  (mux[w] = entry /\ started'[entry]) \/ mux[w] \in escaped
    <3>1. CASE w = v
      BY <1>1, <1>2, <3>1
    <3>2. CASE w # v
      BY <1>1, <1>2, <2>1, <3>2 DEF IInv, ServerTypeOK, ServedByRegisteredMuxer, Made
    <3> QED
      BY <3>1, <3>2
  <2>2. ASSUME NEW m \in Muxers, started'[m] PROVE m = entry \/ m \in escaped
    BY <1>1, <1>2, <2>2 DEF IInv, ServedByRegisteredMuxer
  <2> QED
    BY <1>3, <2>1, <2>2 DEF ServedByRegisteredMuxer
<1> QED
  BY <1>4, <1>5, <1>6 DEF IInv

(* A muxer that stops has no watcher left.                                 *)
LEMMA MuxerStopsIInv == ASSUME IInv, NEW m \in Muxers, MuxerStops(m) PROVE IInv'
<1>1. /\ at' \in [Requests -> Places]
      /\ \A v \in Requests :
           /\ at'[v] = "gone" \/ at'[v] = at[v]
           /\ at'[v] = "watching" => mux[v] # m
  BY DEF MuxerStops, Watching, IInv, ServerTypeOK, Places
<1>2. /\ started' \in [Muxers -> BOOLEAN]
      /\ \A k \in Muxers : started'[k] => started[k]
      /\ \A k \in Muxers \ {m} : started'[k] = started[k]
  BY DEF MuxerStops, IInv, ServerTypeOK
<1>3. UNCHANGED <<source, entry, closing, rtspURL, escaped, mux>> /\ Made' = Made
  BY DEF MuxerStops, Made
<1>4. ServerTypeOK'
  <2>1. \A v \in Requests : /\ mux[v] \in Made \cup {NoMuxer}
                            /\ at'[v] \in {"routed", "watching"} => mux[v] \in Made
    BY <1>1 DEF IInv, ServerTypeOK
  <2> QED
    BY <1>1, <1>2, <1>3, <2>1 DEF IInv, ServerTypeOK, source, Places
<1>5. RegisteredMuxerIsCurrent' /\ RoutedInv'
  BY <1>1, <1>3 DEF IInv, RegisteredMuxerIsCurrent, RoutedInv, source
<1>6. ServedByRegisteredMuxer'
  <2>1. ASSUME NEW v \in Requests, at'[v] = "watching"
        PROVE  (mux[v] = entry /\ started'[entry]) \/ mux[v] \in escaped
    <3>1. at[v] = "watching" /\ mux[v] # m /\ mux[v] \in Muxers
      BY <1>1, <2>1 DEF IInv, ServerTypeOK, Made
    <3> QED
      BY <1>2, <3>1 DEF IInv, ServedByRegisteredMuxer
  <2> QED
    BY <1>2, <1>3, <2>1 DEF IInv, ServedByRegisteredMuxer
<1> QED
  BY <1>4, <1>5, <1>6 DEF IInv
-----------------------------------------------------------------------------
(* Every step keeps the inductive invariant.                               *)
LEMMA NextIInv == IInv /\ [ServerNext]_serverVars => IInv'
<1> SUFFICES ASSUME IInv, [ServerNext]_serverVars PROVE IInv'
  OBVIOUS
<1>1. ASSUME NEW g \in Notifiers,
             Prune(g) \/ \E u \in URLs \cup {NoURL} : Change(g, u)
      PROVE  IInv'
  BY <1>1, PruneIInv, ChangeIInv
<1>2. CASE ShutdownBegins
  <2>1. ServerTypeOK'
    BY <1>2 DEF IInv, ServerTypeOK, ShutdownBegins, Made, source, request
  <2>2. RegisteredMuxerIsCurrent' /\ ServedByRegisteredMuxer' /\ RoutedInv'
    BY <1>2 DEF IInv, ShutdownBegins, RegisteredMuxerIsCurrent,
                ServedByRegisteredMuxer, RoutedInv, source, request
  <2> QED
    BY <2>1, <2>2 DEF IInv
<1>3. CASE ShutdownCloses
  BY <1>3, DropEntryIInv DEF ShutdownCloses, IInv, ServerTypeOK, source
<1>4. ASSUME NEW v \in Requests,
             \/ ArriveStream(v) \/ FindMuxer(v) \/ RefuseMuxer(v) \/ Attach(v) \/ LeaveStream(v)
             \/ \E m \in Muxers : MakeMuxer(v, m)
      PROVE  IInv'
  <2>1. CASE ArriveStream(v)
    BY <2>1, RequestIInv DEF ArriveStream
  <2>2. CASE FindMuxer(v)
    BY <2>2, FindMuxerIInv
  <2>3. CASE RefuseMuxer(v)
    BY <2>3, DropEntryIInv DEF RefuseMuxer, IInv, ServerTypeOK, source
  <2>4. CASE Attach(v)
    BY <2>4, AttachIInv
  <2>5. CASE LeaveStream(v)
    BY <2>5, RequestIInv DEF LeaveStream
  <2>6. CASE \E m \in Muxers : MakeMuxer(v, m)
    BY <2>6, MakeMuxerIInv
  <2> QED
    BY <1>4, <2>1, <2>2, <2>3, <2>4, <2>5, <2>6
<1>5. CASE \E m \in Muxers : MuxerStops(m)
  BY <1>5, MuxerStopsIInv
<1>6. CASE UNCHANGED serverVars
  <2>1. ServerTypeOK'
    BY <1>6 DEF IInv, ServerTypeOK, serverVars, Made
  <2>2. RegisteredMuxerIsCurrent' /\ ServedByRegisteredMuxer' /\ RoutedInv'
    BY <1>6 DEF IInv, serverVars, RegisteredMuxerIsCurrent, ServedByRegisteredMuxer,
                RoutedInv
  <2> QED
    BY <2>1, <2>2 DEF IInv
<1> QED
  BY <1>1, <1>2, <1>3, <1>4, <1>5, <1>6 DEF ServerNext

(* The inductive invariant holds in every reachable state.                 *)
LEMMA Invariance == ServerSpec => []IInv
BY InitIInv, NextIInv, PTL DEF ServerSpec
-----------------------------------------------------------------------------
(* Each Muxer, as the Server uses it, is one of MuxerLife.                 *)

(* Who watches does so through an open upstream.                           *)
WatchedIsOpen == \A v \in Requests : at[v] = "watching" => started[mux[v]]

(* It holds in every reachable state.                                      *)
LEMMA WatchedInvariance == ServerSpec => []WatchedIsOpen
<1>1. ServerInit => WatchedIsOpen
  BY DEF ServerInit, WatchedIsOpen
<1>2. IInv /\ WatchedIsOpen /\ [ServerNext]_serverVars => WatchedIsOpen'
  <2> SUFFICES ASSUME IInv, WatchedIsOpen, [ServerNext]_serverVars PROVE WatchedIsOpen'
    OBVIOUS
  <2>1. ASSUME UNCHANGED started, NEW v \in Requests,
               \A w \in Requests \ {v} : at'[w] = at[w] /\ mux'[w] = mux[w],
               at'[v] # "watching"
        PROVE  WatchedIsOpen'
    BY <2>1 DEF WatchedIsOpen
  <2>2. ASSUME UNCHANGED <<started, at, mux>> PROVE WatchedIsOpen'
    BY <2>2 DEF WatchedIsOpen
  <2>3. ASSUME CloseEntry,
               \A w \in Requests : \/ at'[w] # "watching"
                                   \/ at'[w] = Disconnected[w] /\ mux'[w] = mux[w]
        PROVE  WatchedIsOpen'
    BY <2>3 DEF CloseEntry, Disconnected, Watching, WatchedIsOpen, IInv, ServerTypeOK, Made
  <2>4. ASSUME NEW g \in Notifiers, Prune(g) PROVE WatchedIsOpen'
    BY <2>2, <2>3, <2>4 DEF Prune
  <2>5. ASSUME NEW g \in Notifiers, NEW u \in URLs \cup {NoURL}, Change(g, u)
        PROVE  WatchedIsOpen'
    BY <2>2, <2>5 DEF Change, server, request
  <2>6. CASE ShutdownBegins
    BY <2>2, <2>6 DEF ShutdownBegins, request
  <2>7. CASE ShutdownCloses
    BY <2>3, <2>7 DEF ShutdownCloses
  <2>8. ASSUME NEW v \in Requests, ArriveStream(v) \/ FindMuxer(v) \/ LeaveStream(v)
        PROVE  WatchedIsOpen'
    BY <2>1, <2>8 DEF ArriveStream, FindMuxer, LeaveStream, server, IInv, ServerTypeOK
  <2>9. ASSUME NEW v \in Requests, RefuseMuxer(v) PROVE WatchedIsOpen'
    BY <2>3, <2>9 DEF RefuseMuxer, Disconnected
  <2>10. ASSUME NEW v \in Requests, NEW m \in Muxers, MakeMuxer(v, m)
         PROVE  WatchedIsOpen'
    <3>1. CloseEntry
      BY <2>10 DEF MakeMuxer
    <3>2. at'[v] # "watching"
      BY <2>10 DEF MakeMuxer, Disconnected
    <3>3. \A w \in Requests \ {v} : at'[w] = Disconnected[w] /\ mux'[w] = mux[w]
      BY <2>10 DEF MakeMuxer, Disconnected, IInv, ServerTypeOK
    <3> QED
      BY <2>3, <3>1, <3>2, <3>3
  <2>11. ASSUME NEW v \in Requests, Attach(v) PROVE WatchedIsOpen'
    BY <2>11 DEF Attach, EnsureStarted, WatchedIsOpen, IInv, ServerTypeOK, Made
  <2>12. ASSUME NEW m \in Muxers, MuxerStops(m) PROVE WatchedIsOpen'
    BY <2>12 DEF MuxerStops, Watching, WatchedIsOpen, IInv, ServerTypeOK, Made
  <2>13. CASE UNCHANGED serverVars
    BY <2>2, <2>13 DEF serverVars
  <2> QED
    BY <2>4, <2>5, <2>6, <2>7, <2>8, <2>9, <2>10, <2>11, <2>12, <2>13 DEF ServerNext
<1> QED
  BY <1>1, <1>2, Invariance, PTL DEF ServerSpec

(* Closing the registered muxer stops it, if it is m, and nothing else;    *)
(* the request that has it closed is no viewer, before or after.           *)
LEMMA CloseEntryLife ==
  ASSUME IInv, WatchedIsOpen, NEW m \in Muxers, CloseEntry,
         \A w \in Requests : \/ at[w] # "watching" /\ at'[w] # "watching"
                             \/ at'[w] = Disconnected[w] /\ mux'[w] = mux[w]
  PROVE  [Life(m)!Next]_(Life(m)!vars)
<1>1. CASE m = entry
  <2>1. started'[m] = FALSE /\ Watching(m)' = {}
    BY <1>1 DEF CloseEntry, Disconnected, Watching
  <2>2. started[m] \in BOOLEAN /\ (~started[m] => Watching(m) = {})
    BY DEF IInv, ServerTypeOK, WatchedIsOpen, Watching
  <2>3. CASE started[m]
    BY <2>1, <2>3 DEF Life!Next, Life!Stop
  <2>4. CASE ~started[m]
    BY <2>1, <2>2, <2>4 DEF Life!vars
  <2> QED
    BY <2>3, <2>4
<1>2. CASE m # entry
  <2>1. started'[m] = started[m]
    BY <1>2 DEF CloseEntry, IInv, ServerTypeOK
  <2>2. Watching(m)' = Watching(m)
    BY <1>2 DEF Disconnected, Watching
  <2> QED
    BY <2>1, <2>2 DEF Life!vars
<1> QED
  BY <1>1, <1>2

(* A step of the Server is one of each Muxer, or leaves what is seen of it *)
(* alone.                                                                  *)
LEMMA StepLife ==
  ASSUME IInv, WatchedIsOpen, NEW m \in Muxers, [ServerNext]_serverVars
  PROVE  [Life(m)!Next]_(Life(m)!vars)
<1>1. ASSUME UNCHANGED <<started, at, mux>> PROVE [Life(m)!Next]_(Life(m)!vars)
  BY <1>1 DEF Watching, Life!vars
<1>2. ASSUME NEW v \in Requests, UNCHANGED started,
             \A w \in Requests \ {v} : at'[w] = at[w] /\ mux'[w] = mux[w],
             at[v] # "watching", at'[v] # "watching"
      PROVE  [Life(m)!Next]_(Life(m)!vars)
  <2>1. Watching(m)' = Watching(m)
    BY <1>2 DEF Watching
  <2> QED
    BY <1>2, <2>1 DEF Life!vars
<1>3. ASSUME NEW g \in Notifiers, NEW u \in URLs \cup {NoURL}, Change(g, u)
      PROVE  [Life(m)!Next]_(Life(m)!vars)
  BY <1>1, <1>3 DEF Change, server, request
<1>4. ASSUME NEW g \in Notifiers, Prune(g) PROVE [Life(m)!Next]_(Life(m)!vars)
  <2>1. CASE entry # NoMuxer /\ ~Current
    BY <1>4, <2>1, CloseEntryLife DEF Prune
  <2>2. CASE ~(entry # NoMuxer /\ ~Current)
    BY <1>1, <1>4, <2>2 DEF Prune
  <2> QED
    BY <2>1, <2>2
<1>5. CASE ShutdownBegins
  BY <1>1, <1>5 DEF ShutdownBegins, request
<1>6. CASE ShutdownCloses
  BY <1>6, CloseEntryLife DEF ShutdownCloses
<1>7. ASSUME NEW v \in Requests, ArriveStream(v) \/ FindMuxer(v)
      PROVE  [Life(m)!Next]_(Life(m)!vars)
  BY <1>2, <1>7 DEF ArriveStream, FindMuxer, server, IInv, ServerTypeOK
<1>8. ASSUME NEW v \in Requests, RefuseMuxer(v) PROVE [Life(m)!Next]_(Life(m)!vars)
  <2>1. CloseEntry /\ at[v] = "arrived"
    BY <1>8 DEF RefuseMuxer
  <2>2. at[v] # "watching" /\ at'[v] # "watching"
    BY <1>8 DEF RefuseMuxer, Disconnected
  <2>3. \A w \in Requests \ {v} : at'[w] = Disconnected[w] /\ mux'[w] = mux[w]
    BY <1>8 DEF RefuseMuxer, Disconnected
  <2> QED
    BY <2>1, <2>2, <2>3, CloseEntryLife
<1>9. ASSUME NEW v \in Requests, NEW n \in Muxers, MakeMuxer(v, n)
      PROVE  [Life(m)!Next]_(Life(m)!vars)
  <2>1. CloseEntry /\ at[v] = "arrived"
    BY <1>9 DEF MakeMuxer
  <2>2. at[v] # "watching" /\ at'[v] # "watching"
    BY <1>9 DEF MakeMuxer, Disconnected
  <2>3. \A w \in Requests \ {v} : at'[w] = Disconnected[w] /\ mux'[w] = mux[w]
    BY <1>9 DEF MakeMuxer, Disconnected, IInv, ServerTypeOK
  <2> QED
    BY <2>1, <2>2, <2>3, CloseEntryLife
<1>10. ASSUME NEW v \in Requests, Attach(v) PROVE [Life(m)!Next]_(Life(m)!vars)
  <2>1. /\ at[v] = "routed" /\ at' = [at EXCEPT ![v] = "watching"]
        /\ started' = [started EXCEPT ![mux[v]] = TRUE] /\ UNCHANGED mux
    BY <1>10 DEF Attach, EnsureStarted
  <2>2. CASE m = mux[v]
    <3>1. v \notin Watching(m) /\ Watching(m)' = Watching(m) \cup {v}
      BY <2>1, <2>2 DEF IInv, ServerTypeOK, Watching
    <3>2. started'[m] = TRUE
      BY <2>1, <2>2 DEF IInv, ServerTypeOK
    <3> QED
      BY <3>1, <3>2 DEF Life!Next, Life!Attach
  <2>3. CASE m # mux[v]
    <3>1. Watching(m)' = Watching(m) /\ started'[m] = started[m]
      BY <2>1, <2>3 DEF IInv, ServerTypeOK, Watching
    <3> QED
      BY <3>1 DEF Life!vars
  <2> QED
    BY <2>2, <2>3
<1>11. ASSUME NEW v \in Requests, LeaveStream(v) PROVE [Life(m)!Next]_(Life(m)!vars)
  <2>1. Watching(m)' = Watching(m) \ {v} /\ started'[m] = started[m]
    BY <1>11 DEF LeaveStream, server, IInv, ServerTypeOK, Watching
  <2>2. CASE v \in Watching(m)
    BY <2>1, <2>2 DEF Life!Next, Life!Leave
  <2>3. CASE v \notin Watching(m)
    BY <2>1, <2>3 DEF Life!vars
  <2> QED
    BY <2>2, <2>3
<1>12. ASSUME NEW n \in Muxers, MuxerStops(n) PROVE [Life(m)!Next]_(Life(m)!vars)
  <2>1. CASE m = n
    <3>1. started[m] /\ started'[m] = FALSE /\ Watching(m)' = {}
      BY <1>12, <2>1 DEF MuxerStops, IInv, ServerTypeOK, Watching
    <3> QED
      BY <3>1 DEF Life!Next, Life!Stop
  <2>2. CASE m # n
    <3>1. Watching(m)' = Watching(m) /\ started'[m] = started[m]
      BY <1>12, <2>2 DEF MuxerStops, IInv, ServerTypeOK, Watching
    <3> QED
      BY <3>1 DEF Life!vars
  <2> QED
    BY <2>1, <2>2
<1>13. CASE UNCHANGED serverVars
  BY <1>1, <1>13 DEF serverVars
<1> QED
  BY <1>3, <1>4, <1>5, <1>6, <1>7, <1>8, <1>9, <1>10, <1>11, <1>12, <1>13 DEF ServerNext

-----------------------------------------------------------------------------
(* The map, the muxers and the requests keep their types: a muxer that is  *)
(* registered or in a request's hands has been made for an address.        *)
THEOREM TypeCorrect == ServerSpec => []ServerTypeOK
<1>1. IInv => ServerTypeOK
  BY DEF IInv
<1> QED
  BY <1>1, Invariance, PTL

(* muxerFor and Prune: once every change has been followed by its Prune,   *)
(* the registered muxer dials the address in force, however many           *)
(* goroutines change it while requests register muxers.                    *)
THEOREM RegisteredIsCurrent == ServerSpec => []RegisteredMuxerIsCurrent
<1>1. IInv => RegisteredMuxerIsCurrent
  BY DEF IInv
<1> QED
  BY <1>1, Invariance, PTL

(* What is open towards the camera is within the reach of Prune and        *)
(* Shutdown, but for muxers closed while a request was on its way.         *)
THEOREM ServedWithinReach == ServerSpec => []ServedByRegisteredMuxer
<1>1. IInv => ServedByRegisteredMuxer
  BY DEF IInv
<1> QED
  BY <1>1, Invariance, PTL

(* For any requests, muxers and changes, the Server asks of each Muxer     *)
(* only steps that MuxerLife has, which Mp4Muxer and HlsMuxer implement:   *)
(* a muxer that Prune, Shutdown or another request closes under a request  *)
(* on its way is opened anew, and nobody watches one that is closed.       *)
THEOREM MuxersAreUsedAsPromised ==
  ASSUME NEW m \in Muxers
  PROVE  ServerSpec => Life(m)!Spec
<1>1. ServerInit => Life(m)!Init
  BY DEF ServerInit, Watching, Life!Init
<1>2. IInv /\ WatchedIsOpen /\ [ServerNext]_serverVars => [Life(m)!Next]_(Life(m)!vars)
  BY StepLife
<1> QED
  BY <1>1, <1>2, Invariance, WatchedInvariance, PTL DEF ServerSpec, Life!Spec

=============================================================================
