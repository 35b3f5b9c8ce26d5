----------------------------- MODULE UnifiClient -----------------------------
(***************************************************************************)
(* The session of internal/unifi: goroutines that call the controller and  *)
(* the one that keeps the event socket open share a cookie jar and the     *)
(* flag loggedIn.  The jar takes the cookie of whichever login is answered *)
(* last; no lock is held across a request.                                 *)
(*                                                                         *)
(* The controller ends all sessions at a time (it restarts, or they        *)
(* expire), so a cookie is the era it comes from.  The CSRF token is left  *)
(* out: every call is a GET.                                               *)
(***************************************************************************)
EXTENDS Naturals

CONSTANTS Users,    (* goroutines that call Client.do                      *)
          Watcher,  (* the one in watchEvents                              *)
          MaxEras,  (* bound: how often the sessions end                   *)
          MaxFaults (* bound: failed requests and dropped sockets          *)

ASSUME UnifiAssumption ==
  /\ Watcher \notin Users
  /\ MaxEras \in Nat \ {0}
  /\ MaxFaults \in Nat

VARIABLES
  era,       (* sessions of this era are good                              *)
  jar,       (* the cookie in the jar; 0: none                             *)
  loggedIn,  (* Client.loggedIn                                            *)
  task,      (* each goroutine: where it is, the cookie it deals with, the *)
             (* attempt, and (history) whether no session has ended and no *)
             (* late login has replaced the cookie since it began          *)
  faults

unifiVars == <<era, jar, loggedIn, task, faults>>

Procs == Users \cup {Watcher}
Rest == [at |-> "rest", cookie |-> 0, attempt |-> 0, calm |-> TRUE]
Go(p, place) == [task EXCEPT ![p].at = place]

(* run() has logged in before any of them starts.                          *)
UnifiInit ==
  /\ era = 1
  /\ jar = 1
  /\ loggedIn = TRUE
  /\ task = [p \in Procs |-> Rest]
  /\ faults = 0

(* The sessions end; the socket stays open until it is dropped.            *)
EndSessions ==
  /\ era < MaxEras
  /\ era' = era + 1
  /\ task' = [p \in Procs |-> [task[p] EXCEPT !.calm = FALSE]]
  /\ UNCHANGED <<jar, loggedIn, faults>>

-----------------------------------------------------------------------------
(* ensureAuth, in do and in SubscribeEvents.                               *)
EnsureAuth(p) ==
  /\ task[p].at = "rest"
  /\ task' = [task EXCEPT ![p] =
       [Rest EXCEPT !.at = IF loggedIn THEN "ready" ELSE "login"]]
  /\ UNCHANGED <<era, jar, loggedIn, faults>>

(* The controller accepts the login and makes a session.                   *)
LoginAccepted(p) ==
  /\ task[p].at = "login"
  /\ task' = [task EXCEPT ![p].at = "answered", ![p].cookie = era]
  /\ UNCHANGED <<era, jar, loggedIn, faults>>

(* The answer arrives: http.Client puts its cookie into the jar ...        *)
StoreCookie(p) ==
  /\ task[p].at = "answered"
  /\ jar' = task[p].cookie
  /\ task' = [q \in Procs |->
       IF q = p THEN [task[p] EXCEPT !.at = "stored"]
       ELSE [task[q] EXCEPT !.calm = @ /\ task[p].cookie = era]]
  /\ UNCHANGED <<era, loggedIn, faults>>

(* Faulty variant: the flag is left as it is.                              *)
LoginDoneUnmarked(p) ==
  /\ task[p].at = "stored"
  /\ task' = Go(p, "ready")
  /\ UNCHANGED <<era, jar, loggedIn, faults>>

(* ... and Login sets the flag.                                            *)
LoginDone(p) ==
  /\ task[p].at = "stored"
  /\ loggedIn' = TRUE
  /\ task' = Go(p, "ready")
  /\ UNCHANGED <<era, jar, faults>>

(* The request, or the dial, goes out with the cookie in the jar.          *)
Send(p) ==
  /\ task[p].at = "ready"
  /\ task' = [task EXCEPT ![p].at = "sent", ![p].cookie = jar]
  /\ UNCHANGED <<era, jar, loggedIn, faults>>

(* The controller looks at it.                                             *)
Judge(p) ==
  /\ task[p].at = "sent"
  /\ task' = Go(p, IF task[p].cookie = era THEN "ok" ELSE "unauthorized")
  /\ UNCHANGED <<era, jar, loggedIn, faults>>

(* A login or a request fails or times out, an open socket is dropped: the *)
(* call, or SubscribeEvents, returns.                                      *)
Fault(p) ==
  /\ faults < MaxFaults
  /\ task[p].at \in {"login", "answered", "sent", "open"}
  /\ faults' = faults + 1
  /\ task' = [task EXCEPT ![p] = Rest]
  /\ UNCHANGED <<era, jar, loggedIn>>

-----------------------------------------------------------------------------
(* do: what becomes of the answer.                                         *)
CallDone(p) ==
  /\ p # Watcher
  /\ task[p].at = "ok"
  /\ task' = [task EXCEPT ![p] = Rest]
  /\ UNCHANGED <<era, jar, loggedIn, faults>>

(* Faulty variant: the second attempt is made without a new login.         *)
RetryUnauthorizedSameSession(p) ==
  /\ p # Watcher
  /\ task[p].at = "unauthorized" /\ task[p].attempt = 0
  /\ loggedIn' = FALSE
  /\ task' = [task EXCEPT ![p].at = "ready", ![p].attempt = 1]
  /\ UNCHANGED <<era, jar, faults>>

(* The first 401: whoever has logged in since, this goroutine does again.  *)
RetryUnauthorized(p) ==
  /\ p # Watcher
  /\ task[p].at = "unauthorized" /\ task[p].attempt = 0
  /\ loggedIn' = FALSE
  /\ task' = [task EXCEPT ![p].at = "login", ![p].attempt = 1]
  /\ UNCHANGED <<era, jar, faults>>

(* The second is the caller's.                                             *)
CallRefused(p) ==
  /\ p # Watcher
  /\ task[p].at = "unauthorized" /\ task[p].attempt = 1
  /\ task' = [task EXCEPT ![p] = Rest]
  /\ UNCHANGED <<era, jar, loggedIn, faults>>

-----------------------------------------------------------------------------
(* SubscribeEvents: the dial succeeds, or is rejected; then watchEvents    *)
(* waits and tries again.                                                  *)
Connected ==
  /\ task[Watcher].at = "ok"
  /\ task' = Go(Watcher, "open")
  /\ UNCHANGED <<era, jar, loggedIn, faults>>

(* Faulty variant: the rejection is not remembered.                        *)
DialRejectedForgotten ==
  /\ task[Watcher].at = "unauthorized"
  /\ task' = [task EXCEPT ![Watcher] = Rest]
  /\ UNCHANGED <<era, jar, loggedIn, faults>>

DialRejected ==
  /\ task[Watcher].at = "unauthorized"
  /\ loggedIn' = FALSE
  /\ task' = [task EXCEPT ![Watcher] = Rest]
  /\ UNCHANGED <<era, jar, faults>>

-----------------------------------------------------------------------------
Advance(p) ==
  \/ LoginAccepted(p) \/ StoreCookie(p) \/ LoginDone(p) \/ Send(p) \/ Judge(p)
  \/ CallDone(p) \/ RetryUnauthorized(p) \/ CallRefused(p)
  \/ p = Watcher /\ (EnsureAuth(p) \/ Connected \/ DialRejected)

UnifiNext ==
  \/ EndSessions
  \/ \E p \in Procs : Advance(p) \/ Fault(p)
  \/ \E p \in Users : EnsureAuth(p)

(* Requests are answered or time out, and the watcher redials for ever; a  *)
(* user need not begin a call.                                             *)
UnifiFairness == \A p \in Procs : WF_unifiVars(Advance(p))

UnifiSpec == UnifiInit /\ [][UnifiNext]_unifiVars /\ UnifiFairness

-----------------------------------------------------------------------------
(* Types; cookies come from no later era.                                  *)
UnifiTypeOK ==
  /\ era \in 1 .. MaxEras
  /\ jar \in 1 .. era
  /\ loggedIn \in BOOLEAN
  /\ task \in [Procs ->
       [at : {"rest", "login", "answered", "stored", "ready", "sent", "ok",
              "unauthorized", "open"},
        cookie : 0 .. era, attempt : 0 .. 1, calm : BOOLEAN]]
  /\ faults \in 0 .. MaxFaults

(* A call is answered 401 in the end only if sessions ended during it, or  *)
(* a login answered late put a dead cookie into the jar: the re-login of   *)
(* another goroutine never makes it fail.                                  *)
RefusedOnlyIfDisturbed ==
  [][\A p \in Users : CallRefused(p) => ~task[p].calm]_unifiVars

(* The event socket is opened again after every drop and every end of the  *)
(* sessions, instead of being dialled "forever with the same dead cookie". *)
WatcherReconnects == []<>(task[Watcher].at = "open")

(* Logins come to an end: goroutines that log each other out do not keep   *)
(* it up once the controller leaves the sessions alone.                    *)
LoginsCease == <>[](\A p \in Procs : task[p].at # "login")

=============================================================================
