--------------------------- MODULE ServicesProofs ---------------------------
(***************************************************************************)
(* Proofs about the bridge as a client of other services: DeviceSync,      *)
(* HomeGraph and UnifiClient.  For any device lists, callers, users,       *)
(* restarts, faults and ends of sessions, and any durations that satisfy   *)
(* HomeGraphAssumption.                                                    *)
(***************************************************************************)
EXTENDS MCClients, TLAPS
-----------------------------------------------------------------------------
(* The device list at Google.                                              *)

(* Google has the list on file if nothing has happened since its sync; and *)
(* the list about to be written, if it did not change under that sync and  *)
(* no live one came after it.                                              *)
FileInv ==
  /\ since = {} => google = persisted
  /\ startup = "asked" => "unfiled" \in since
  /\ startup = "asked" /\ since = {"unfiled"} => google = current

SyncInv == TypeOK /\ FileInv

(* The inductive invariant holds initially and is kept by every step.      *)
LEMMA SyncInitInv == Init => SyncInv
BY DeviceSyncAssumption DEF Init, SyncInv, TypeOK, FileInv

(* Every step keeps it: whatever makes Google fetch the list is marked     *)
(* until a file is written for it.                                         *)
LEMMA SyncNextInv == SyncInv /\ [Next]_vars => SyncInv'
<1> SUFFICES ASSUME SyncInv, [Next]_vars PROVE SyncInv'
  OBVIOUS
<1> USE DeviceSyncAssumption DEF SyncInv, TypeOK, FileInv
<1>1. CASE Boot
  BY <1>1 DEF Boot
<1>2. CASE Crash
  BY <1>2 DEF Crash
<1>3. ASSUME NEW l \in Lists, Change(l)
      PROVE  SyncInv'
  BY <1>3 DEF Change
<1>4. CASE LiveSyncOK
  BY <1>4 DEF LiveSyncOK
<1>5. CASE LiveSyncFails
  BY <1>5 DEF LiveSyncFails
<1>6. CASE Compute
  BY <1>6 DEF Compute
<1>7. CASE Skip
  BY <1>7 DEF Skip
<1>8. CASE AskOK
  BY <1>8 DEF AskOK
<1>9. CASE AskFails
  BY <1>9 DEF AskFails
<1>10. CASE Persist
  BY <1>10 DEF Persist
<1>11. CASE UNCHANGED vars
  BY <1>11 DEF vars
<1> QED
  BY <1>1, <1>2, <1>3, <1>4, <1>5, <1>6, <1>7, <1>8, <1>9, <1>10, <1>11 DEF Next

(* The inductive invariant holds in every reachable state.                 *)
LEMMA SyncInvariance == Spec => []SyncInv
<1>1. Init => SyncInv
  BY SyncInitInv
<1>2. SyncInv /\ [Next]_vars => SyncInv'
  BY SyncNextInv
<1> QED
  BY <1>1, <1>2, PTL DEF Spec
-----------------------------------------------------------------------------
(* The variables of the startup gate keep their types; in particular the   *)
(* fingerprint it is about to write has been computed.                     *)
THEOREM SyncTypeCorrect == Spec => []TypeOK
<1>1. SyncInv => TypeOK
  BY DEF SyncInv
<1> QED
  BY <1>1, SyncInvariance, PTL

(* A start skips its request only when Google has the list, however the    *)
(* bridge crashes, if no sync has succeeded since the one on file and the  *)
(* list did not change under that one.                                     *)
THEOREM SkipIsSound == Spec => SkipsOnlyWhatGoogleHas
<1>1. SyncInv /\ [Next]_vars
      => [Skip /\ devices = current /\ since = {} => google = devices]_vars
  BY DEF Skip, SyncInv, FileInv
<1> QED
  BY <1>1, SyncInvariance, PTL DEF Spec, SkipsOnlyWhatGoogleHas
-----------------------------------------------------------------------------
(* The token for Google.                                                   *)

(* The client reckons the end of the cached token at most one timeout too  *)
(* late: the answer took no longer than that after the minting.            *)
CacheInv == accessToken # NoToken => expiry <= accessToken + Timeout

(* A request under way has not timed out.  An exchange began at most one   *)
(* timeout before its deadline, and a token it brings is of no earlier     *)
(* minting; a token that is being sent is good until the deadline.         *)
PushInv ==
  \A c \in Callers :
    /\ Busy(c) => clock <= push[c].deadline
    /\ push[c].at = "exchanging" => push[c].deadline <= clock + Timeout
    /\ push[c].at = "minted" => push[c].deadline + Lifetime <= push[c].token + Timeout
    /\ push[c].at = "sending" => push[c].deadline <= push[c].token

TokenInv == TokenTypeOK /\ CacheInv /\ PushInv

(* The inductive invariant holds initially.                                *)
LEMMA TokenInitInv == TokenInit => TokenInv
BY HomeGraphAssumption
   DEF TokenInit, TokenInv, TokenTypeOK, CacheInv, PushInv, NoPush, At, Busy

(* The clock does not pass the deadline of a request that is under way.    *)
LEMMA TokenTickInv == TokenInv /\ TokenTick => TokenInv'
<1> SUFFICES ASSUME TokenInv, TokenTick PROVE TokenInv'
  OBVIOUS
<1> USE HomeGraphAssumption DEF TokenInv, TokenTypeOK, TokenTick
<1>1. TokenTypeOK'
  OBVIOUS
<1>2. CacheInv'
  BY DEF CacheInv
<1>3. PushInv'
  <2> SUFFICES ASSUME NEW c \in Callers
               PROVE  /\ Busy(c) => clock + 1 <= push[c].deadline
                      /\ push[c].at = "exchanging"
                           => push[c].deadline <= clock + 1 + Timeout
                      /\ push[c].at = "minted"
                           => push[c].deadline + Lifetime <= push[c].token + Timeout
                      /\ push[c].at = "sending" => push[c].deadline <= push[c].token
    BY DEF PushInv, Busy
  <2>1. push[c].deadline \in Nat /\ clock \in Nat /\ Timeout \in Nat
    OBVIOUS
  <2> QED
    BY <2>1 DEF PushInv
<1> QED
  BY <1>1, <1>2, <1>3

(* The steps of a caller; what the others are doing is not touched.        *)
LEMMA TokenCallerInv ==
  ASSUME TokenInv, NEW c \in Callers,
         \/ UseCached(c) \/ StartExchange(c) \/ MintToken(c) \/ EndPush(c)
         \/ \E life \in {Lifetime, Fallback} : StoreToken(c, life)
  PROVE  TokenInv'
<1> USE HomeGraphAssumption DEF TokenInv, TokenTypeOK, CacheInv, PushInv, Busy, At, NoPush
<1>1. /\ clock \in Nat /\ expiry \in Nat /\ push[c].deadline \in Nat
      /\ {Timeout, Lifetime, Margin, Fallback} \subseteq Nat
      /\ clock + Timeout \in Nat /\ clock + Lifetime \in Nat
  OBVIOUS
<1>2. CASE UseCached(c)
  <2>1. accessToken \in Nat /\ clock + Timeout <= accessToken
    BY <1>1, <1>2 DEF UseCached, Cached
  <2> QED
    BY <1>1, <1>2, <2>1 DEF UseCached
<1>3. CASE StartExchange(c)
  BY <1>1, <1>3 DEF StartExchange
<1>4. CASE MintToken(c)
  <2>1. clock + Lifetime \in Nat
    BY <1>1
  <2>2. push[c].deadline + Lifetime <= clock + Lifetime + Timeout
    BY <1>1, <1>4 DEF MintToken
  <2>3. TokenTypeOK' /\ CacheInv'
    BY <1>1, <1>4, <2>1 DEF MintToken
  <2>4. PushInv'
    BY <1>1, <1>4, <2>1, <2>2 DEF MintToken
  <2> QED
    BY <2>3, <2>4
<1>5. ASSUME NEW life \in {Lifetime, Fallback}, StoreToken(c, life)
      PROVE  TokenInv'
  <2>1. push[c].token \in Nat /\ life \in Nat /\ life <= Lifetime
    BY <1>1, <1>5 DEF StoreToken
  <2>2. clock + life <= push[c].token + Timeout
    BY <1>1, <1>5, <2>1 DEF StoreToken
  <2>3. clock + Timeout <= push[c].token
    BY <1>1, <1>5, <2>1 DEF StoreToken
  <2> QED
    BY <1>1, <1>5, <2>1, <2>2, <2>3 DEF StoreToken
<1>6. CASE EndPush(c)
  BY <1>1, <1>6 DEF EndPush
<1> QED
  BY <1>2, <1>3, <1>4, <1>5, <1>6

(* Every step keeps the inductive invariant.                               *)
LEMMA TokenNextInv == TokenInv /\ [TokenNext]_tokenVars => TokenInv'
<1> SUFFICES ASSUME TokenInv, [TokenNext]_tokenVars PROVE TokenInv'
  OBVIOUS
<1>1. CASE TokenTick
  BY <1>1, TokenTickInv
<1>2. ASSUME NEW c \in Callers,
             \/ UseCached(c) \/ StartExchange(c) \/ MintToken(c) \/ EndPush(c)
             \/ \E life \in {Lifetime, Fallback} : StoreToken(c, life)
      PROVE  TokenInv'
  BY <1>2, TokenCallerInv
<1>3. CASE UNCHANGED tokenVars
  BY <1>3 DEF tokenVars, TokenInv, TokenTypeOK, CacheInv, PushInv, Busy
<1> QED
  BY <1>1, <1>2, <1>3 DEF TokenNext

(* The inductive invariant holds in every reachable state.                 *)
LEMMA TokenInvariance == TokenSpec => []TokenInv
BY TokenInitInv, TokenNextInv, PTL DEF TokenSpec
-----------------------------------------------------------------------------
(* The cache and the pushes keep their types.                              *)
THEOREM TokenTypeCorrect == TokenSpec => []TokenTypeOK
<1>1. TokenInv => TokenTypeOK
  BY DEF TokenInv
<1> QED
  BY <1>1, TokenInvariance, PTL

(* No push carries a token that Google takes for expired, however many     *)
(* callers exchange at the same time.                                      *)
THEOREM SentTokensAreGood == TokenSpec => []SentTokenIsGood
<1>1. TokenInv => SentTokenIsGood
  <2> SUFFICES ASSUME TokenInv, NEW c \in Callers, push[c].at = "sending"
               PROVE  clock <= push[c].token
    BY DEF SentTokenIsGood
  <2>1. clock <= push[c].deadline /\ push[c].deadline <= push[c].token
    BY DEF TokenInv, PushInv, Busy
  <2>2. clock \in Nat /\ push[c].deadline \in Nat /\ push[c].token \in Nat
    BY DEF TokenInv, TokenTypeOK
  <2> QED
    BY <2>1, <2>2
<1> QED
  BY <1>1, TokenInvariance, PTL
-----------------------------------------------------------------------------
(* The session with the controller.                                        *)

(* A second attempt that has not been disturbed since its call began goes  *)
(* through a login of the present era, and its cookie stays in the jar; so *)
(* it is not refused.                                                      *)
SecondAttemptInv ==
  \A p \in Procs : task[p].calm /\ task[p].attempt = 1 =>
    /\ task[p].at \in {"answered", "sent"} => task[p].cookie = era
    /\ task[p].at \in {"stored", "ready"} => jar = era
    /\ task[p].at # "unauthorized"

CookieInv == \A p \in Procs : task[p].at = "answered" => task[p].cookie # 0

SessionInv == UnifiTypeOK /\ CookieInv /\ SecondAttemptInv

(* What a goroutine may be doing, with cookies of eras up to n.            *)
Places == {"rest", "login", "answered", "stored", "ready", "sent", "ok",
           "unauthorized", "open"}
Tasks(n) == [at : Places, cookie : 0 .. n, attempt : 0 .. 1, calm : BOOLEAN]

(* The steps of a call change its place, and its cookie or its attempt.    *)
LEMMA TaskMoves ==
  ASSUME NEW n, NEW t \in Tasks(n), NEW a \in Places
  PROVE  [t EXCEPT !.at = a] =
           [at |-> a, cookie |-> t.cookie, attempt |-> t.attempt, calm |-> t.calm]
BY DEF Tasks

LEMMA TaskMovesWithCookie ==
  ASSUME NEW n, NEW t \in Tasks(n), NEW a \in Places, NEW c \in 0 .. n
  PROVE  [t EXCEPT !.at = a, !.cookie = c] =
           [at |-> a, cookie |-> c, attempt |-> t.attempt, calm |-> t.calm]
<1> DEFINE u == [t EXCEPT !.at = a]
<1>1. [t EXCEPT !.at = a, !.cookie = c] = [u EXCEPT !.cookie = c]
  OBVIOUS
<1>2. u = [at |-> a, cookie |-> t.cookie, attempt |-> t.attempt, calm |-> t.calm]
  BY TaskMoves
<1> HIDE DEF u
<1> QED
  BY <1>1, <1>2

LEMMA TaskMovesToRetry ==
  ASSUME NEW n, NEW t \in Tasks(n), NEW a \in Places
  PROVE  [t EXCEPT !.at = a, !.attempt = 1] =
           [at |-> a, cookie |-> t.cookie, attempt |-> 1, calm |-> t.calm]
<1> DEFINE u == [t EXCEPT !.at = a]
<1>1. [t EXCEPT !.at = a, !.attempt = 1] = [u EXCEPT !.attempt = 1]
  OBVIOUS
<1>2. u = [at |-> a, cookie |-> t.cookie, attempt |-> t.attempt, calm |-> t.calm]
  BY TaskMoves
<1> HIDE DEF u
<1> QED
  BY <1>1, <1>2

(* The fields of what a goroutine is doing.                                *)
LEMMA TaskBuilt ==
  ASSUME NEW n, NEW a \in Places, NEW c \in 0 .. n, NEW k \in 0 .. 1, NEW b \in BOOLEAN
  PROVE  [at |-> a, cookie |-> c, attempt |-> k, calm |-> b] \in Tasks(n)
BY DEF Tasks

LEMMA TaskTaken ==
  ASSUME NEW n, NEW t \in Tasks(n)
  PROVE  /\ t.at \in Places /\ t.cookie \in 0 .. n /\ t.attempt \in 0 .. 1
         /\ t.calm \in BOOLEAN
BY DEF Tasks

(* A disturbance changes nothing else.                                     *)
LEMMA TaskDisturbed ==
  ASSUME NEW n, NEW t \in Tasks(n), NEW b \in BOOLEAN
  PROVE  [t EXCEPT !.calm = b] =
           [at |-> t.at, cookie |-> t.cookie, attempt |-> t.attempt, calm |-> b]
BY DEF Tasks

(* run() has logged in: the first cookie is in the jar.                    *)
LEMMA SessionInitInv == UnifiInit => SessionInv
<1> SUFFICES ASSUME UnifiInit PROVE SessionInv
  OBVIOUS
<1>1. Rest \in [at : {"rest", "login", "answered", "stored", "ready", "sent", "ok",
                      "unauthorized", "open"},
                cookie : 0 .. era, attempt : 0 .. 1, calm : BOOLEAN]
  BY DEF Rest, UnifiInit
<1> QED
  BY <1>1, UnifiAssumption
     DEF UnifiInit, SessionInv, UnifiTypeOK, CookieInv, SecondAttemptInv, Rest

(* The end of the sessions disturbs every call.                            *)
LEMMA EndSessionsInv == SessionInv /\ EndSessions => SessionInv'
<1> SUFFICES ASSUME SessionInv, EndSessions PROVE SessionInv'
  OBVIOUS
<1>1. ASSUME NEW p \in Procs
      PROVE  /\ task[p] \in Tasks(era)
             /\ task'[p] = [at |-> task[p].at, cookie |-> task[p].cookie,
                            attempt |-> task[p].attempt, calm |-> FALSE]
             /\ task'[p].at = task[p].at /\ task'[p].cookie = task[p].cookie
             /\ task'[p].calm = FALSE
  BY TaskDisturbed DEF EndSessions, SessionInv, UnifiTypeOK, Tasks, Places
<1>2. /\ era \in Nat /\ era' = era + 1 /\ era' \in 1 .. MaxEras
      /\ jar' = jar /\ jar' \in 1 .. era'
  BY UnifiAssumption DEF EndSessions, SessionInv, UnifiTypeOK
<1>3. ASSUME NEW p \in Procs PROVE task'[p] \in Tasks(era')
  <2>1. /\ task[p].at \in Places /\ task[p].cookie \in 0 .. era
        /\ task[p].attempt \in 0 .. 1
    BY <1>1, TaskTaken
  <2>2. task[p].cookie \in 0 .. era'
    BY <1>2, <2>1
  <2> QED
    BY <1>1, <2>1, <2>2, TaskBuilt
<1>4. UnifiTypeOK'
  <2>1. task' \in [Procs -> Tasks(era')]
    BY <1>3 DEF EndSessions
  <2> QED
    BY <1>2, <2>1 DEF EndSessions, SessionInv, UnifiTypeOK, Tasks, Places
<1>5. CookieInv' /\ SecondAttemptInv'
  BY <1>1 DEF SessionInv, CookieInv, SecondAttemptInv
<1> QED
  BY <1>4, <1>5 DEF SessionInv

(* A cookie that is put into the jar disturbs the others unless it is of   *)
(* the present era.                                                        *)
LEMMA StoreCookieInv ==
  ASSUME SessionInv, NEW p \in Procs, StoreCookie(p)
  PROVE  SessionInv'
<1> DEFINE now == task[p].cookie = era
<1>1. /\ task[p].at = "answered" /\ jar' = task[p].cookie
      /\ UNCHANGED <<era, loggedIn, faults>>
      /\ task' = [q \in Procs |-> IF q = p THEN [task[p] EXCEPT !.at = "stored"]
                                  ELSE [task[q] EXCEPT !.calm = @ /\ now]]
  BY DEF StoreCookie
<1>2. \A q \in Procs : task[q] \in Tasks(era)
  BY DEF SessionInv, UnifiTypeOK, Tasks, Places
<1>3. /\ task'[p] = [at |-> "stored", cookie |-> task[p].cookie,
                     attempt |-> task[p].attempt, calm |-> task[p].calm]
      /\ task'[p].at = "stored" /\ task'[p].attempt = task[p].attempt
      /\ task'[p].calm = task[p].calm
  <2>1. task'[p] = [task[p] EXCEPT !.at = "stored"]
    BY <1>1
  <2>2. "stored" \in Places /\ task[p] \in Tasks(era)
    BY <1>2 DEF Places
  <2>3. task'[p] = [at |-> "stored", cookie |-> task[p].cookie,
                    attempt |-> task[p].attempt, calm |-> task[p].calm]
    BY <2>1, <2>2, TaskMoves
  <2> QED
    BY <2>3
<1>4. ASSUME NEW q \in Procs \ {p}
      PROVE  /\ task'[q] = [at |-> task[q].at, cookie |-> task[q].cookie,
                            attempt |-> task[q].attempt, calm |-> (task[q].calm /\ now)]
             /\ task'[q].at = task[q].at /\ task'[q].cookie = task[q].cookie
             /\ task'[q].attempt = task[q].attempt
             /\ task'[q].calm => task[q].calm /\ now
  <2>1. task'[q] = [task[q] EXCEPT !.calm = task[q].calm /\ now]
    BY <1>1
  <2> QED
    BY <1>2, <2>1, TaskDisturbed DEF Tasks
<1>5. UnifiTypeOK'
  <2>1. jar' \in 1 .. era'
    BY <1>1, UnifiAssumption DEF SessionInv, UnifiTypeOK, CookieInv
  <2>2. ASSUME NEW q \in Procs PROVE task'[q] \in Tasks(era)
    <3>1. /\ task[q].at \in Places /\ task[q].cookie \in 0 .. era
          /\ task[q].attempt \in 0 .. 1 /\ task[q].calm \in BOOLEAN
      BY <1>2, TaskTaken
    <3>2. CASE q = p
      <4>1. "stored" \in Places
        BY DEF Places
      <4> QED
        BY <1>3, <3>1, <3>2, <4>1, TaskBuilt
    <3>3. CASE q # p
      <4>1. ASSUME NEW b \in BOOLEAN
            PROVE  [at |-> task[q].at, cookie |-> task[q].cookie,
                    attempt |-> task[q].attempt, calm |-> b] \in Tasks(era)
        BY <3>1, TaskBuilt
      <4>2. (task[q].calm /\ now) \in BOOLEAN
        OBVIOUS
      <4>3. [at |-> task[q].at, cookie |-> task[q].cookie, attempt |-> task[q].attempt,
             calm |-> (task[q].calm /\ now)] \in Tasks(era)
        BY <4>1, <4>2, Zenon
      <4> QED
        BY <1>4, <3>3, <4>3
    <3> QED
      BY <3>2, <3>3
  <2>3. task' \in [Procs -> Tasks(era)]
    BY <1>1, <2>2
  <2> QED
    BY <1>1, <2>1, <2>3 DEF SessionInv, UnifiTypeOK, Tasks, Places
<1>6. CookieInv'
  <2> SUFFICES ASSUME NEW q \in Procs, task'[q].at = "answered"
               PROVE  task'[q].cookie # 0
    BY DEF CookieInv
  <2>1. q # p
    BY <1>3
  <2> QED
    BY <1>4, <2>1 DEF SessionInv, CookieInv
<1>7. SecondAttemptInv'
  <2>1. ASSUME NEW q \in Procs, task'[q].calm, task'[q].attempt = 1
        PROVE  /\ jar' = era /\ task'[q].at # "unauthorized"
               /\ task'[q].at \in {"answered", "sent"} => task'[q].cookie = era
    <3>1. CASE q = p
      <4>1. task[p].calm /\ task[p].attempt = 1
        BY <1>3, <2>1, <3>1
      <4>2. task[p].cookie = era
        BY <1>1, <4>1 DEF SessionInv, SecondAttemptInv
      <4> QED
        BY <1>1, <1>3, <3>1, <4>2
    <3>2. CASE q # p
      <4>1. task[q].calm /\ now /\ task[q].attempt = 1
        BY <1>4, <2>1, <3>2
      <4>2. jar' = era
        BY <1>1, <4>1
      <4>3. /\ task[q].at # "unauthorized"
            /\ task[q].at \in {"answered", "sent"} => task[q].cookie = era
        BY <4>1 DEF SessionInv, SecondAttemptInv
      <4> QED
        BY <1>4, <3>2, <4>2, <4>3
    <3> QED
      BY <3>1, <3>2
  <2> QED
    BY <1>1, <2>1 DEF SecondAttemptInv
<1> QED
  BY <1>5, <1>6, <1>7 DEF SessionInv

(* A goroutine goes on to r, and leaves the jar alone.                     *)
LEMMA GoOnInv ==
  ASSUME SessionInv, NEW p \in Procs, NEW r \in Tasks(era),
         task' = [task EXCEPT ![p] = r], UNCHANGED <<era, jar>>,
         loggedIn' \in BOOLEAN, faults' \in 0 .. MaxFaults,
         r.at = "answered" => r.cookie # 0,
         r.calm /\ r.attempt = 1 =>
           /\ r.at \in {"answered", "sent"} => r.cookie = era
           /\ r.at \in {"stored", "ready"} => jar = era
           /\ r.at # "unauthorized"
  PROVE  SessionInv'
<1>1. task'[p] = r /\ \A q \in Procs \ {p} : task'[q] = task[q]
  BY DEF SessionInv, UnifiTypeOK
<1>2. UnifiTypeOK'
  BY DEF SessionInv, UnifiTypeOK, Tasks, Places
<1>3. CookieInv'
  BY <1>1 DEF SessionInv, CookieInv
<1>4. SecondAttemptInv'
  BY <1>1 DEF SessionInv, SecondAttemptInv
<1> QED
  BY <1>2, <1>3, <1>4 DEF SessionInv

(* The other steps of a goroutine concern its own call and the flag.       *)
LEMMA OwnStepInv ==
  ASSUME SessionInv, NEW p \in Procs,
         \/ EnsureAuth(p) \/ LoginAccepted(p) \/ LoginDone(p) \/ Send(p) \/ Judge(p)
         \/ CallDone(p) \/ RetryUnauthorized(p) \/ CallRefused(p) \/ Fault(p)
         \/ p = Watcher /\ (Connected \/ DialRejected)
  PROVE  SessionInv'
<1> DEFINE t == task[p]
<1>a. /\ t \in Tasks(era) /\ era \in Nat \ {0} /\ jar \in 1 .. era
      /\ loggedIn \in BOOLEAN /\ faults \in 0 .. MaxFaults
  BY UnifiAssumption DEF SessionInv, UnifiTypeOK, Tasks, Places
<1>b. /\ t.at = "answered" => t.cookie # 0
      /\ t.calm /\ t.attempt = 1 =>
           /\ t.at \in {"answered", "sent"} => t.cookie = era
           /\ t.at \in {"stored", "ready"} => jar = era
           /\ t.at # "unauthorized"
  BY DEF SessionInv, CookieInv, SecondAttemptInv
<1>c. Rest \in Tasks(era) /\ Rest.at = "rest" /\ Rest.attempt = 0
  BY <1>a DEF Rest, Tasks, Places
<1>d. CASE task' = [task EXCEPT ![p] = Rest] /\ UNCHANGED <<era, jar>>
           /\ loggedIn' \in BOOLEAN /\ faults' \in 0 .. MaxFaults
  BY <1>c, <1>d, GoOnInv
<1>1. CASE EnsureAuth(p)
  <2> DEFINE a == IF loggedIn THEN "ready" ELSE "login"
             r == [Rest EXCEPT !.at = a]
  <2>1. a \in Places /\ a # "answered"
    BY DEF Places
  <2>2. task' = [task EXCEPT ![p] = r] /\ UNCHANGED <<era, jar, loggedIn, faults>>
    BY <1>1 DEF EnsureAuth
  <2> HIDE DEF a
  <2>3. r = [at |-> a, cookie |-> Rest.cookie, attempt |-> Rest.attempt,
             calm |-> Rest.calm]
    BY <1>c, <2>1, TaskMoves
  <2>4. r \in Tasks(era) /\ r.at # "answered" /\ r.attempt = 0
    BY <1>c, <2>1, <2>3 DEF Tasks
  <2>5. /\ r.at = "answered" => r.cookie # 0
        /\ ~(r.calm /\ r.attempt = 1)
    BY <2>4
  <2> HIDE DEF r
  <2> QED
    BY <1>a, <2>2, <2>4, <2>5, GoOnInv
<1>2. CASE LoginAccepted(p)
  <2> DEFINE r == [t EXCEPT !.at = "answered", !.cookie = era]
  <2>1. r \in Tasks(era) /\ r.at = "answered" /\ r.cookie = era
    <3>1. era \in 0 .. era /\ "answered" \in Places
      BY <1>a DEF Places
    <3>2. [t EXCEPT !.at = "answered"] =
            [at |-> "answered", cookie |-> t.cookie, attempt |-> t.attempt, calm |-> t.calm]
      BY <1>a, <3>1, TaskMoves
    <3>3. r = [[t EXCEPT !.at = "answered"] EXCEPT !.cookie = era]
      OBVIOUS
    <3> HIDE DEF r
    <3>4. r = [at |-> "answered", cookie |-> era, attempt |-> t.attempt, calm |-> t.calm]
      BY <3>2, <3>3
    <3>5. t.attempt \in 0 .. 1 /\ t.calm \in BOOLEAN
      BY <1>a, TaskTaken
    <3>6. [at |-> "answered", cookie |-> era, attempt |-> t.attempt, calm |-> t.calm]
            \in Tasks(era)
      BY <3>1, <3>5, TaskBuilt
    <3> QED
      BY <3>4, <3>6
  <2>2. task' = [task EXCEPT ![p] = r] /\ UNCHANGED <<era, jar, loggedIn, faults>>
    BY <1>2 DEF LoginAccepted
  <2> QED
    BY <1>a, <2>1, <2>2, GoOnInv
<1>3. CASE LoginDone(p)
  <2> DEFINE r == [t EXCEPT !.at = "ready"]
  <2>1. r \in Tasks(era) /\ r.at = "ready" /\ r.calm = t.calm /\ r.attempt = t.attempt
    BY <1>a, TaskMoves DEF Tasks, Places
  <2>2. /\ t.at = "stored" /\ task' = [task EXCEPT ![p] = r]
        /\ UNCHANGED <<era, jar, faults>> /\ loggedIn' = TRUE
    BY <1>3 DEF LoginDone, Go
  <2> QED
    BY <1>a, <1>b, <2>1, <2>2, GoOnInv
<1>4. CASE Send(p)
  <2> DEFINE r == [t EXCEPT !.at = "sent", !.cookie = jar]
  <2>1. /\ r \in Tasks(era) /\ r.at = "sent" /\ r.cookie = jar
        /\ r.calm = t.calm /\ r.attempt = t.attempt
    <3>1. jar \in 0 .. era
      BY <1>a
    <3> QED
      BY <1>a, <3>1, TaskMovesWithCookie DEF Tasks, Places
  <2>2. /\ t.at = "ready" /\ task' = [task EXCEPT ![p] = r]
        /\ UNCHANGED <<era, jar, loggedIn, faults>>
    BY <1>4 DEF Send
  <2> QED
    BY <1>a, <1>b, <2>1, <2>2, GoOnInv
<1>5. CASE Judge(p)
  <2> DEFINE r == [t EXCEPT !.at = IF t.cookie = era THEN "ok" ELSE "unauthorized"]
  <2>1. /\ r \in Tasks(era) /\ r.at = IF t.cookie = era THEN "ok" ELSE "unauthorized"
        /\ r.calm = t.calm /\ r.attempt = t.attempt
    BY <1>a, TaskMoves DEF Tasks, Places
  <2>2. /\ t.at = "sent" /\ task' = [task EXCEPT ![p] = r]
        /\ UNCHANGED <<era, jar, loggedIn, faults>>
    BY <1>5 DEF Judge, Go
  <2> HIDE DEF r
  <2>3. r.at # "answered" /\ r.at \notin {"stored", "ready", "sent"}
    BY <2>1
  <2>4. r.calm /\ r.attempt = 1 => r.at # "unauthorized"
    BY <1>b, <2>1, <2>2
  <2> QED
    BY <1>a, <2>1, <2>2, <2>3, <2>4, GoOnInv
<1>6. CASE RetryUnauthorized(p)
  <2> DEFINE r == [t EXCEPT !.at = "login", !.attempt = 1]
  <2>1. r \in Tasks(era) /\ r.at = "login"
    <3>1. "login" \in Places
      BY DEF Places
    <3>2. r = [at |-> "login", cookie |-> t.cookie, attempt |-> 1, calm |-> t.calm]
      BY <1>a, <3>1, TaskMovesToRetry
    <3> QED
      BY <1>a, <3>1, <3>2 DEF Tasks
  <2>2. /\ task' = [task EXCEPT ![p] = r]
        /\ UNCHANGED <<era, jar, faults>> /\ loggedIn' = FALSE
    BY <1>6 DEF RetryUnauthorized
  <2> QED
    BY <1>a, <2>1, <2>2, GoOnInv
<1>7. CASE CallDone(p) \/ CallRefused(p)
  BY <1>7, <1>a, <1>d DEF CallDone, CallRefused
<1>8. CASE Fault(p)
  BY <1>8, <1>a, <1>d, UnifiAssumption DEF Fault
<1>9. CASE p = Watcher /\ Connected
  <2> DEFINE r == [t EXCEPT !.at = "open"]
  <2>1. r \in Tasks(era) /\ r.at = "open"
    BY <1>a, TaskMoves DEF Tasks, Places
  <2>2. /\ task' = [task EXCEPT ![p] = r]
        /\ UNCHANGED <<era, jar, loggedIn, faults>>
    BY <1>9 DEF Connected, Go
  <2> QED
    BY <1>a, <2>1, <2>2, GoOnInv
<1>10. CASE p = Watcher /\ DialRejected
  BY <1>10, <1>a, <1>d DEF DialRejected
<1> QED
  BY <1>1, <1>2, <1>3, <1>4, <1>5, <1>6, <1>7, <1>8, <1>9, <1>10

(* Every step keeps the inductive invariant.                               *)
LEMMA SessionNextInv == SessionInv /\ [UnifiNext]_unifiVars => SessionInv'
<1> SUFFICES ASSUME SessionInv, [UnifiNext]_unifiVars PROVE SessionInv'
  OBVIOUS
<1>1. CASE EndSessions
  BY <1>1, EndSessionsInv
<1>2. ASSUME NEW p \in Procs, Advance(p) \/ Fault(p) \/ EnsureAuth(p)
      PROVE  SessionInv'
  BY <1>2, StoreCookieInv, OwnStepInv DEF Advance
<1>3. CASE UNCHANGED unifiVars
  BY <1>3 DEF unifiVars, SessionInv, UnifiTypeOK, CookieInv, SecondAttemptInv
<1> QED
  BY <1>1, <1>2, <1>3 DEF UnifiNext, Procs

(* The inductive invariant holds in every reachable state.                 *)
LEMMA SessionInvariance == UnifiSpec => []SessionInv
BY SessionInitInv, SessionNextInv, PTL DEF UnifiSpec

(* The jar, the flag and the calls keep their types.                       *)
THEOREM SessionTypeCorrect == UnifiSpec => []UnifiTypeOK
<1>1. SessionInv => UnifiTypeOK
  BY DEF SessionInv
<1> QED
  BY <1>1, SessionInvariance, PTL

(* Goroutines that log each other out do not make a call fail: a 401 that  *)
(* reaches the caller is due to the controller, or to a login answered     *)
(* after the sessions had ended.                                           *)
THEOREM RefusalsAreDisturbed == UnifiSpec => RefusedOnlyIfDisturbed
<1>1. SessionInv /\ [UnifiNext]_unifiVars
      => [\A p \in Users : CallRefused(p) => ~task[p].calm]_unifiVars
  BY DEF SessionInv, SecondAttemptInv, CallRefused, Procs
<1> QED
  BY <1>1, SessionInvariance, PTL DEF UnifiSpec, RefusedOnlyIfDisturbed

-----------------------------------------------------------------------------
(* The three side by side.                                                 *)

(* A step of one of them is a stutter of the others.                       *)
LEMMA ClientsInvariance == ClientsSpec => [](SyncInv /\ TokenInv /\ SessionInv)
<1>1. ClientsInit => SyncInv /\ TokenInv /\ SessionInv
  BY SyncInitInv, TokenInitInv, SessionInitInv DEF ClientsInit
<1>2. ASSUME SyncInv, TokenInv, SessionInv,
             [ClientsNext]_<<vars, tokenVars, unifiVars, subject>>
      PROVE  SyncInv' /\ TokenInv' /\ SessionInv'
  <2>1. [Next]_vars /\ [TokenNext]_tokenVars /\ [UnifiNext]_unifiVars
    BY <1>2 DEF ClientsNext
  <2> QED
    BY <1>2, <2>1, SyncNextInv, TokenNextInv, SessionNextInv
<1> QED
  BY <1>1, <1>2, PTL DEF ClientsSpec

(* Types, for any lists, callers, durations and users: the fingerprint     *)
(* that the startup gate is about to write has been computed, a token that *)
(* is sent has been minted, and no cookie is of an era still to come.      *)
THEOREM TypeCorrect == ClientsSpec => []ClientsTypeOK
<1>1. SyncInv /\ TokenInv /\ SessionInv => ClientsTypeOK
  BY DEF SyncInv, TokenInv, SessionInv, ClientsTypeOK
<1> QED
  BY <1>1, ClientsInvariance, PTL

=============================================================================
