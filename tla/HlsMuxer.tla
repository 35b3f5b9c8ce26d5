------------------------------- MODULE HlsMuxer -------------------------------
(***************************************************************************)
(* The Muxer of internal/hls.  Players poll: every request moves the last  *)
(* access, starts the upstream session if there is none, and is handed to  *)
(* the gohlslib muxer of the session that runs then.  Nobody is attached,  *)
(* so the idle clock alone keeps the session up.  A read loop and a        *)
(* watchdog belong to each session; those of an ended session may still be *)
(* on their way to Muxer.mu when the next one runs.                        *)
(***************************************************************************)
EXTENDS Naturals

CONSTANTS Players,         (* requests that can be served at a time        *)
          MaxHlsSessions   (* bound: upstream sessions                     *)

ASSUME HlsAssumption == MaxHlsSessions \in Nat

HlsSessions == 1 .. MaxHlsSessions

VARIABLES
  hlsStarted,   (* Muxer.started                                           *)
  hlsSession,   (* the last session that was started                       *)
  hlsMux,       (* Muxer.hlsMux, named by its session; 0 is nil            *)
  longAgo,      (* lastAccessNs is more than idleTimeout ago               *)
  hlsUpstream,  (* the RTSP client of each session                         *)
  hlsCancelled, (* its context                                             *)
  hlsReadLoop, hlsWatchdog,   (* where its goroutines are                  *)
  player        (* where each request is, and the muxer it was handed to   *)

hlsState == <<hlsStarted, hlsSession, hlsMux, hlsUpstream, hlsCancelled>>
hlsVars == <<hlsStarted, hlsSession, hlsMux, longAgo, hlsUpstream,
             hlsCancelled, hlsReadLoop, hlsWatchdog, player>>

Away == [at |-> "away", mux |-> 0]

HlsInit ==
  /\ hlsStarted = FALSE
  /\ hlsSession = 0
  /\ hlsMux = 0
  /\ longAgo = TRUE   (* lastAccessNs is 0 *)
  /\ hlsUpstream = [k \in HlsSessions |-> "none"]
  /\ hlsCancelled = [k \in HlsSessions |-> FALSE]
  /\ hlsReadLoop = [k \in HlsSessions |-> "none"]
  /\ hlsWatchdog = [k \in HlsSessions |-> "none"]
  /\ player = [q \in Players |-> Away]

(* stopLocked                                                              *)
HlsStopLocked ==
  IF hlsStarted
  THEN /\ hlsCancelled' = [hlsCancelled EXCEPT ![hlsSession] = TRUE]
       /\ hlsUpstream' = [hlsUpstream EXCEPT ![hlsSession] = "closed"]
       /\ hlsMux' = 0
       /\ hlsStarted' = FALSE
       /\ UNCHANGED hlsSession
  ELSE UNCHANGED hlsState

(* Close, by the Server.                                                   *)
HlsClose ==
  /\ HlsStopLocked
  /\ UNCHANGED <<longAgo, hlsReadLoop, hlsWatchdog, player>>

-----------------------------------------------------------------------------
(* ServeHTTP                                                               *)

Touch(q) ==
  /\ player[q] = Away
  /\ player' = [player EXCEPT ![q].at = "arrived"]
  /\ longAgo' = FALSE
  /\ UNCHANGED <<hlsState, hlsReadLoop, hlsWatchdog>>

HlsFindStarted(q) ==
  /\ player[q].at = "arrived"
  /\ hlsStarted
  /\ player' = [player EXCEPT ![q].at = "started"]
  /\ UNCHANGED <<hlsState, longAgo, hlsReadLoop, hlsWatchdog>>

(* startLocked, which dials the camera with Muxer.mu held.                 *)
HlsStartOK(q) ==
  LET k == hlsSession + 1 IN
  /\ player[q].at = "arrived"
  /\ ~hlsStarted
  /\ k \in HlsSessions
  /\ hlsStarted' = TRUE
  /\ hlsSession' = k
  /\ hlsMux' = k
  /\ longAgo' = FALSE
  /\ hlsUpstream' = [hlsUpstream EXCEPT ![k] = "live"]
  /\ hlsReadLoop' = [hlsReadLoop EXCEPT ![k] = "wait"]
  /\ hlsWatchdog' = [hlsWatchdog EXCEPT ![k] = "tick"]
  /\ player' = [player EXCEPT ![q].at = "started"]
  /\ UNCHANGED hlsCancelled

(* The camera does not answer: 503.                                        *)
HlsStartFails(q) ==
  /\ player[q].at = "arrived"
  /\ ~hlsStarted
  /\ player' = [player EXCEPT ![q] = Away]
  /\ UNCHANGED <<hlsState, longAgo, hlsReadLoop, hlsWatchdog>>

(* The muxer is read again under the lock: whichever runs by then, or 503. *)
HandOver(q) ==
  /\ player[q].at = "started"
  /\ player' = [player EXCEPT ![q] =
       IF hlsMux = 0 THEN Away ELSE [at |-> "handled", mux |-> hlsMux]]
  /\ UNCHANGED <<hlsState, longAgo, hlsReadLoop, hlsWatchdog>>

(* Handle returns, at once if its muxer is closed.                         *)
Handled(q) ==
  /\ player[q].at = "handled"
  /\ player' = [player EXCEPT ![q] = Away]
  /\ UNCHANGED <<hlsState, longAgo, hlsReadLoop, hlsWatchdog>>

-----------------------------------------------------------------------------
(* The goroutines of session k.                                            *)

HlsLost(k) ==
  /\ hlsUpstream[k] = "live"
  /\ hlsUpstream' = [hlsUpstream EXCEPT ![k] = "lost"]
  /\ UNCHANGED <<hlsStarted, hlsSession, hlsMux, hlsCancelled, longAgo,
                 hlsReadLoop, hlsWatchdog, player>>

(* Wait returns; the select may prefer it to the context.                  *)
HlsWaitReturns(k) ==
  /\ hlsReadLoop[k] = "wait"
  /\ hlsUpstream[k] \in {"lost", "closed"}
  /\ hlsReadLoop' = [hlsReadLoop EXCEPT ![k] = "ended"]
  /\ UNCHANGED <<hlsState, longAgo, hlsWatchdog, player>>

HlsReadLoopCancelled(k) ==
  /\ hlsReadLoop[k] = "wait"
  /\ hlsCancelled[k]
  /\ hlsReadLoop' = [hlsReadLoop EXCEPT ![k] = "done"]
  /\ UNCHANGED <<hlsState, longAgo, hlsWatchdog, player>>

(* Faulty variant: the loop ends and leaves the session to the watchdog.   *)
HlsReadLoopForgets(k) ==
  /\ hlsReadLoop[k] = "ended"
  /\ hlsReadLoop' = [hlsReadLoop EXCEPT ![k] = "done"]
  /\ UNCHANGED <<hlsState, longAgo, hlsWatchdog, player>>

(* Then whatever session is the current one is stopped.                    *)
HlsReadLoopStops(k) ==
  /\ hlsReadLoop[k] = "ended"
  /\ HlsStopLocked
  /\ hlsReadLoop' = [hlsReadLoop EXCEPT ![k] = "done"]
  /\ UNCHANGED <<longAgo, hlsWatchdog, player>>

(* Nobody has asked for idleTimeout.                                       *)
HlsTimePasses ==
  /\ ~longAgo
  /\ longAgo' = TRUE
  /\ UNCHANGED <<hlsState, hlsReadLoop, hlsWatchdog, player>>

(* A tick looks at the last access without the lock.                       *)
HlsWatchdogTicks(k) ==
  /\ hlsWatchdog[k] = "tick"
  /\ longAgo
  /\ hlsWatchdog' = [hlsWatchdog EXCEPT ![k] = "stopping"]
  /\ UNCHANGED <<hlsState, longAgo, hlsReadLoop, player>>

(* Faulty variant: the watchdog exits although it did not stop anything.   *)
HlsWatchdogGivesUp(k) ==
  /\ hlsWatchdog[k] = "stopping"
  /\ IF longAgo THEN HlsStopLocked ELSE UNCHANGED hlsState
  /\ hlsWatchdog' = [hlsWatchdog EXCEPT ![k] = "done"]
  /\ UNCHANGED <<longAgo, hlsReadLoop, player>>

(* With the lock it looks again, and watches on unless it has stopped the  *)
(* session, whichever it was.                                              *)
HlsWatchdogStops(k) ==
  /\ hlsWatchdog[k] = "stopping"
  /\ IF hlsStarted /\ longAgo
     THEN HlsStopLocked /\ hlsWatchdog' = [hlsWatchdog EXCEPT ![k] = "done"]
     ELSE UNCHANGED hlsState /\ hlsWatchdog' = [hlsWatchdog EXCEPT ![k] = "tick"]
  /\ UNCHANGED <<longAgo, hlsReadLoop, player>>

HlsWatchdogCancelled(k) ==
  /\ hlsWatchdog[k] = "tick"
  /\ hlsCancelled[k]
  /\ hlsWatchdog' = [hlsWatchdog EXCEPT ![k] = "done"]
  /\ UNCHANGED <<hlsState, longAgo, hlsReadLoop, player>>

-----------------------------------------------------------------------------
ServeHTTP(q) == \/ HlsFindStarted(q) \/ HlsStartOK(q) \/ HlsStartFails(q)
                \/ HandOver(q) \/ Handled(q)
HlsReads(k) == HlsWaitReturns(k) \/ HlsReadLoopCancelled(k) \/ HlsReadLoopStops(k)
HlsWatches(k) == HlsWatchdogTicks(k) \/ HlsWatchdogStops(k) \/ HlsWatchdogCancelled(k)

HlsNext ==
  \/ HlsClose \/ HlsTimePasses
  \/ \E q \in Players : Touch(q) \/ ServeHTTP(q)
  \/ \E k \in HlsSessions : HlsLost(k) \/ HlsReads(k) \/ HlsWatches(k)

(* The goroutines run and time passes; no player has to ask again.         *)
HlsFairness ==
  /\ WF_hlsVars(HlsTimePasses)
  /\ \A q \in Players : WF_hlsVars(ServeHTTP(q))
  /\ \A k \in HlsSessions : WF_hlsVars(HlsReads(k)) /\ WF_hlsVars(HlsWatches(k))

HlsSpec == HlsInit /\ [][HlsNext]_hlsVars /\ HlsFairness

-----------------------------------------------------------------------------
(* Types; while a session runs its muxer is the one requests are handed    *)
(* to.                                                                     *)
HlsTypeOK ==
  /\ hlsStarted \in BOOLEAN
  /\ hlsSession \in 0 .. MaxHlsSessions
  /\ hlsMux = (IF hlsStarted THEN hlsSession ELSE 0)
  /\ longAgo \in BOOLEAN
  /\ hlsUpstream \in [HlsSessions -> {"none", "live", "lost", "closed"}]
  /\ hlsCancelled \in [HlsSessions -> BOOLEAN]
  /\ hlsReadLoop \in [HlsSessions -> {"none", "wait", "ended", "done"}]
  /\ hlsWatchdog \in [HlsSessions -> {"none", "tick", "stopping", "done"}]
  /\ player \in [Players -> [at : {"away", "arrived", "started", "handled"},
                             mux : 0 .. hlsSession]]

(* An upstream that is not closed is that of the session that runs, which  *)
(* stopLocked closes, and a read loop and a watchdog are there to call it. *)
HlsNoOrphan ==
  \A k \in HlsSessions : hlsUpstream[k] \in {"live", "lost"} =>
    /\ hlsStarted
    /\ k = hlsSession
    /\ hlsReadLoop[k] \in {"wait", "ended"}
    /\ hlsWatchdog[k] \in {"tick", "stopping"}

(* When the players have gone the upstream is closed, although watchdogs   *)
(* look twice and leftovers of earlier sessions stop later ones.           *)
HlsIdleCloses ==
  <>[](\A q \in Players : player[q] = Away) => <>[](~hlsStarted)

(* A session whose camera went away is stopped, so that the next request   *)
(* dials again, however fast the players poll.                             *)
HlsLostCloses ==
  \A k \in HlsSessions : hlsUpstream[k] = "lost" ~> hlsUpstream[k] = "closed"

-----------------------------------------------------------------------------
(* What the Server and the camera see of a Muxer: an upstream that is not  *)
(* closed, and the requests in the hands of the gohlslib muxer that runs.  *)
(* See MuxerLife.                                                          *)
HlsUpstreamOpen == \E k \in HlsSessions : hlsUpstream[k] \in {"live", "lost"}
HlsAttached == {q \in Players : hlsMux # 0 /\ player[q] = [at |-> "handled", mux |-> hlsMux]}

HlsLife == INSTANCE MuxerLife WITH
             Viewers <- Players, up <- HlsUpstreamOpen, viewers <- HlsAttached

=============================================================================
