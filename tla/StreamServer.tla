---------------------------- MODULE StreamServer ----------------------------
(***************************************************************************)
(* The Servers of internal/hls and internal/mp4, for one camera: the map   *)
(* of muxers, what LookupRTSP answers for the camera, and the requests.    *)
(*                                                                         *)
(* A request takes three steps with nothing held in between: the closing   *)
(* flag, muxerFor under Server.mu, and the muxer's own ensureStarted.      *)
(* The goroutines that change the answer of LookupRTSP (a Refresh, an edit *)
(* of the allow-list) call Prune afterwards.  A muxer is abstracted to     *)
(* whether its upstream is open: module Mp4Muxer has the rest.             *)
(***************************************************************************)
EXTENDS Naturals

CONSTANTS Requests,    (* HTTP requests, each served once                  *)
          Muxers,      (* Muxer objects that can be made                   *)
          NoMuxer,
          URLs, NoURL, (* LookupRTSP answers a URL, or that it knows none  *)
          Notifiers,   (* goroutines that change that answer               *)
          MaxChanges   (* bound: such changes                              *)

ASSUME ServerAssumption ==
  /\ NoMuxer \notin Muxers
  /\ NoURL \notin URLs
  /\ MaxChanges \in Nat

VARIABLES
  lookup,    (* what LookupRTSP answers                                    *)
  changes,   (* how often that has changed                                 *)
  notify,    (* the Notifiers that have not called Prune yet               *)
  entry,     (* Server.muxers[camera]                                      *)
  closing,   (* Server.closing                                             *)
  rtspURL,   (* Muxer.RTSPURL; NoURL if the object is not made             *)
  started,   (* Muxer.started                                              *)
  at,        (* where each request is                                      *)
  mux,       (* the muxer it got                                           *)
  escaped    (* history: the muxers closed while a request was on its way  *)
             (* from muxerFor to ensureStarted                             *)

source  == <<lookup, changes, notify>>
server  == <<entry, closing, rtspURL, started, escaped>>
request == <<at, mux>>
serverVars == <<lookup, changes, notify, entry, closing, rtspURL, started, at,
                mux, escaped>>

ServerInit ==
  /\ lookup \in URLs \cup {NoURL}
  /\ changes = 0
  /\ notify = {}
  /\ entry = NoMuxer
  /\ closing = FALSE
  /\ rtspURL = [m \in Muxers |-> NoURL]
  /\ started = [m \in Muxers |-> FALSE]
  /\ at = [v \in Requests |-> "none"]
  /\ mux = [v \in Requests |-> NoMuxer]
  /\ escaped = {}

Watching(m) == {v \in Requests : at[v] = "watching" /\ mux[v] = m}
OnTheWay(m) == {v \in Requests : at[v] = "routed" /\ mux[v] = m}

-----------------------------------------------------------------------------
(* The camera is hidden or exposed, appears, disappears or gets another    *)
(* URL; the stream servers are told by the same goroutine, later.          *)
Change(g, u) ==
  /\ changes < MaxChanges
  /\ g \notin notify
  /\ u # lookup
  /\ lookup' = u
  /\ changes' = changes + 1
  /\ notify' = notify \cup {g}
  /\ UNCHANGED <<server, request>>

(* muxerFor and Prune keep the registered muxer only for this address.     *)
Current == entry # NoMuxer /\ rtspURL[entry] = lookup

(* Muxer.Close of the registered muxer: its upstream is closed and every   *)
(* watcher disconnected.  A request on its way to it is not.               *)
Disconnected == [v \in Requests |-> IF v \in Watching(entry) THEN "gone"
                                                              ELSE at[v]]
CloseEntry ==
  /\ started' = [m \in Muxers |-> started[m] /\ m # entry]
  /\ escaped' = IF OnTheWay(entry) # {} THEN escaped \cup {entry} ELSE escaped

(* Faulty variant: a muxer whose camera has another URL now is kept.       *)
PruneHiddenOnly(g) ==
  /\ g \in notify
  /\ notify' = notify \ {g}
  /\ IF entry # NoMuxer /\ lookup = NoURL
     THEN CloseEntry /\ at' = Disconnected /\ entry' = NoMuxer
     ELSE UNCHANGED <<started, at, escaped, entry>>
  /\ UNCHANGED <<lookup, changes, closing, rtspURL, mux>>

(* Faulty variant: the muxer is dropped from the map and not closed.       *)
PruneForgets(g) ==
  /\ g \in notify
  /\ notify' = notify \ {g}
  /\ entry' = IF Current THEN entry ELSE NoMuxer
  /\ UNCHANGED <<lookup, changes, closing, rtspURL, mux, started, at, escaped>>

Prune(g) ==
  /\ g \in notify
  /\ notify' = notify \ {g}
  /\ IF entry # NoMuxer /\ ~Current
     THEN CloseEntry /\ at' = Disconnected /\ entry' = NoMuxer
     ELSE UNCHANGED <<started, at, escaped, entry>>
  /\ UNCHANGED <<lookup, changes, closing, rtspURL, mux>>

(* Shutdown: first the flag, then the muxers.                              *)
ShutdownBegins ==
  /\ ~closing
  /\ closing' = TRUE
  /\ UNCHANGED <<source, entry, rtspURL, started, request, escaped>>

ShutdownCloses ==
  /\ closing
  /\ entry # NoMuxer
  /\ CloseEntry
  /\ at' = Disconnected
  /\ entry' = NoMuxer
  /\ UNCHANGED <<source, closing, rtspURL, mux>>

-----------------------------------------------------------------------------
(* ServeHTTP of the Server: 503 once it is closing.                        *)
ArriveStream(v) ==
  /\ at[v] = "none"
  /\ at' = [at EXCEPT ![v] = IF closing THEN "gone" ELSE "arrived"]
  /\ UNCHANGED <<source, server, mux>>

(* muxerFor with a muxer that is still right.                              *)
FindMuxer(v) ==
  /\ at[v] = "arrived"
  /\ Current
  /\ mux' = [mux EXCEPT ![v] = entry]
  /\ at' = [at EXCEPT ![v] = "routed"]
  /\ UNCHANGED <<source, server>>

(* Faulty variant: the new muxer is registered, the old or none returned.  *)
MakeMuxerShadowed(v, m) ==
  /\ at[v] = "arrived"
  /\ ~Current
  /\ lookup # NoURL
  /\ rtspURL[m] = NoURL
  /\ rtspURL' = [rtspURL EXCEPT ![m] = lookup]
  /\ CloseEntry
  /\ at' = [Disconnected EXCEPT ![v] = "routed"]
  /\ entry' = m
  /\ mux' = [mux EXCEPT ![v] = entry]
  /\ UNCHANGED <<source, closing>>

(* muxerFor without one: a muxer that is no longer right is closed first.  *)
MakeMuxer(v, m) ==
  /\ at[v] = "arrived"
  /\ ~Current
  /\ lookup # NoURL
  /\ rtspURL[m] = NoURL
  /\ rtspURL' = [rtspURL EXCEPT ![m] = lookup]
  /\ CloseEntry
  /\ at' = [Disconnected EXCEPT ![v] = "routed"]
  /\ entry' = m
  /\ mux' = [mux EXCEPT ![v] = m]
  /\ UNCHANGED <<source, closing>>

(* muxerFor for a camera that may not be served: 404.                      *)
RefuseMuxer(v) ==
  /\ at[v] = "arrived"
  /\ lookup = NoURL
  /\ CloseEntry
  /\ at' = [Disconnected EXCEPT ![v] = "gone"]
  /\ entry' = NoMuxer
  /\ UNCHANGED <<source, closing, rtspURL, mux>>

(* ensureStarted of the muxer: its upstream is open afterwards.            *)
EnsureStarted(m) == started' = [started EXCEPT ![m] = TRUE]

(* ServeHTTP of the Muxer: the request becomes a viewer; when the camera   *)
(* does not answer it leaves.                                              *)
Attach(v) ==
  /\ at[v] = "routed"
  /\ EnsureStarted(mux[v])
  /\ at' = [at EXCEPT ![v] = "watching"]
  /\ UNCHANGED <<source, entry, closing, rtspURL, escaped, mux>>

LeaveStream(v) ==
  /\ at[v] \in {"routed", "watching"}
  /\ at' = [at EXCEPT ![v] = "gone"]
  /\ UNCHANGED <<source, server, mux>>

(* The camera goes away, or nobody has watched for a while.                *)
MuxerStops(m) ==
  /\ started[m]
  /\ started' = [started EXCEPT ![m] = FALSE]
  /\ at' = [v \in Requests |-> IF v \in Watching(m) THEN "gone" ELSE at[v]]
  /\ UNCHANGED <<source, entry, closing, rtspURL, escaped, mux>>

-----------------------------------------------------------------------------
ServerNext ==
  \/ \E g \in Notifiers : Prune(g) \/ \E u \in URLs \cup {NoURL} : Change(g, u)
  \/ ShutdownBegins \/ ShutdownCloses
  \/ \E v \in Requests :
       \/ ArriveStream(v) \/ FindMuxer(v) \/ RefuseMuxer(v)
       \/ Attach(v) \/ LeaveStream(v)
       \/ \E m \in Muxers : MakeMuxer(v, m)
  \/ \E m \in Muxers : MuxerStops(m)

ServerSpec == ServerInit /\ [][ServerNext]_serverVars

-----------------------------------------------------------------------------
(* Types; a muxer that is registered, started or in the hands of a request *)
(* has been made, for a URL.                                               *)
Made == {m \in Muxers : rtspURL[m] # NoURL}

ServerTypeOK ==
  /\ lookup \in URLs \cup {NoURL}
  /\ changes \in 0 .. MaxChanges
  /\ notify \in SUBSET Notifiers
  /\ entry \in Made \cup {NoMuxer}
  /\ closing \in BOOLEAN
  /\ rtspURL \in [Muxers -> URLs \cup {NoURL}]
  /\ started \in [Muxers -> BOOLEAN]
  /\ at \in [Requests -> {"none", "arrived", "routed", "watching", "gone"}]
  /\ mux \in [Requests -> Made \cup {NoMuxer}]
  /\ \A v \in Requests : at[v] \in {"routed", "watching"} => mux[v] \in Made
  /\ escaped \in SUBSET Made

(* When nobody is about to call Prune, the registered muxer dials the      *)
(* address LookupRTSP gives: "one whose RTSP URL changed must not keep     *)
(* dialing the dead address", and a hidden camera has no muxer.  muxerFor  *)
(* reads the address under Server.mu, so it cannot register an old one     *)
(* after the Prune for the new one.                                        *)
RegisteredMuxerIsCurrent ==
  notify = {} /\ entry # NoMuxer => rtspURL[entry] = lookup

(* Whoever watches, and whatever is open towards the camera, does so       *)
(* through the registered muxer, which Prune reaches; except for muxers    *)
(* that were closed while a request was on its way to them.                *)
ServedByRegisteredMuxer ==
  /\ \A v \in Requests : at[v] = "watching" =>
       (mux[v] = entry /\ started[entry]) \/ mux[v] \in escaped
  /\ \A m \in Muxers : started[m] => m = entry \/ m \in escaped

(* "hiding a camera immediately disconnects its HLS/MP4 viewers"           *)
HiddenIsCutOff ==
  notify = {} /\ lookup = NoURL => \A v \in Requests : at[v] # "watching"

-----------------------------------------------------------------------------
(* The Server takes each Muxer for what MuxerLife promises.                *)
Life(m) == INSTANCE MuxerLife WITH
             Viewers <- Requests, up <- started[m], viewers <- Watching(m)

=============================================================================
