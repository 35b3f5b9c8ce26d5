-------------------------------- MODULE OAuth --------------------------------
(***************************************************************************)
(* The OAuth server of internal/oauth: the consent page with its budget of *)
(* failed attempts, authorization codes, which live in memory, and access  *)
(* and refresh tokens, which the server signs and does not keep.           *)
(*                                                                         *)
(* HTTP handlers run concurrently and hold Server.mu only inside their     *)
(* critical sections, each of which is a step: between them the clock      *)
(* moves, other handlers run and the process may restart.  A token is its  *)
(* kind and expiry; the signature is what makes the set of tokens that     *)
(* verify the set of tokens that were minted.                              *)
(***************************************************************************)
EXTENDS Naturals, Sequences, FiniteSets

CONSTANTS IPs,        (* clients of the consent page                       *)
          Workers,    (* handlers of Authorize that can run at a time      *)
          Codes,      (* authorization codes: random, never minted twice   *)
          Exchanges,  (* token requests for a code, each served once       *)
          Redirects,  (* the redirect URIs validRedirectURI accepts        *)
          CodeTTL, AccessTTL, RefreshTTL,      (* codeTTL and so on        *)
          FailWindow, MaxPerIP, MaxGlobal,     (* pwFailWindow and so on   *)
          MaxTime,    (* bound: the clock                                  *)
          MaxFails    (* bound: failed attempts of one process             *)

ASSUME OAuthAssumption ==
  /\ IsFiniteSet(Workers)
  /\ {CodeTTL, AccessTTL, RefreshTTL, FailWindow, MaxTime, MaxFails} \subseteq Nat
  /\ {MaxPerIP, MaxGlobal} \subseteq Nat \ {0}

VARIABLES
  now,       (* the clock                                                  *)
  codes,     (* the codes in Server.codes                                  *)
  consent,   (* the codeEntry of every code minted so far                  *)
  failed,    (* the failed attempts of this process: address and time      *)
  pwFails,   (* those of them that Server.pwFails still lists              *)
  attempt,   (* the address whose password each handler is comparing       *)
  exchange,  (* each token request: where it is, what it asks for          *)
  tokens     (* every token minted so far                                  *)

consentPage == <<failed, pwFails, attempt>>
vars == <<now, codes, consent, failed, pwFails, attempt, exchange, tokens>>

Idle == "idle"   (* a handler that is serving no request *)
Times == 0 .. MaxTime
Entries == [redirect : Redirects, expires : Nat]
Token(kind, ttl) == [kind |-> kind, exp |-> now + ttl]

Init ==
  /\ now = 0
  /\ codes = {}
  /\ consent = <<>>
  /\ failed = <<>>
  /\ pwFails = {}
  /\ attempt = [w \in Workers |-> Idle]
  /\ exchange = [x \in Exchanges |-> [at |-> "none"]]
  /\ tokens = {}

Tick ==
  /\ now < MaxTime
  /\ now' = now + 1
  /\ UNCHANGED <<codes, consent, consentPage, exchange, tokens>>

(* The add-on restarts: memory and requests under way are lost.            *)
Restart ==
  /\ codes' = {}
  /\ failed' = <<>>
  /\ pwFails' = {}
  /\ attempt' = [w \in Workers |-> Idle]
  /\ exchange' = [x \in Exchanges |->
       IF exchange[x].at = "taken" THEN [at |-> "lost"] ELSE exchange[x]]
  /\ UNCHANGED <<now, consent, tokens>>

-----------------------------------------------------------------------------
(* The consent page.                                                       *)

From(ip, F) == {i \in F : failed[i].ip = ip}

(* now.Sub(t) < pwFailWindow; an attempt may be newer than the clock read. *)
InWindow(F, t) == {i \in F : t < failed[i].time + FailWindow}

(* Faulty variant: the attempt after the last permitted one passes too.    *)
TooManyLate(F, ip) ==
  Cardinality(From(ip, F)) > MaxPerIP \/ Cardinality(F) > MaxGlobal

(* The test of tooManyFailures, after its pruning.                         *)
TooMany(F, ip) ==
  Cardinality(From(ip, F)) >= MaxPerIP \/ Cardinality(F) >= MaxGlobal

(* tooManyFailures reads the clock, waits for the mutex and prunes the     *)
(* list; the handler answers 429 or goes on to compare the password.       *)
CheckBudget(w, ip, t) ==
  /\ attempt[w] = Idle
  /\ t <= now
  /\ pwFails' = InWindow(pwFails, t)
  /\ attempt' = IF TooMany(InWindow(pwFails, t), ip) THEN attempt
                ELSE [attempt EXCEPT ![w] = ip]
  /\ UNCHANGED <<now, codes, consent, failed, exchange, tokens>>

(* recordFailure.                                                          *)
WrongPassword(w) ==
  /\ attempt[w] # Idle
  /\ Len(failed) < MaxFails
  /\ failed' = Append(failed, [ip |-> attempt[w], time |-> now])
  /\ pwFails' = pwFails \cup {Len(failed) + 1}
  /\ attempt' = [attempt EXCEPT ![w] = Idle]
  /\ UNCHANGED <<now, codes, consent, exchange, tokens>>

(* A code is minted for the redirect URI of the request.                   *)
RightPassword(w, k, uri) ==
  /\ attempt[w] # Idle
  /\ k \in Codes \ DOMAIN consent
  /\ consent' = [c \in DOMAIN consent \cup {k} |->
       IF c = k THEN [redirect |-> uri, expires |-> now + CodeTTL]
                ELSE consent[c]]
  /\ codes' = codes \cup {k}
  /\ attempt' = [attempt EXCEPT ![w] = Idle]
  /\ UNCHANGED <<now, failed, pwFails, exchange, tokens>>

-----------------------------------------------------------------------------
(* exchangeCode.                                                           *)

(* Faulty variant: the second result of the map lookup is ignored.         *)
TakeCodeUnchecked(x, k, uri) ==
  /\ exchange[x].at = "none"
  /\ exchange' = [exchange EXCEPT ![x] =
       [at |-> "taken", code |-> k, redirect |-> uri, found |-> TRUE]]
  /\ codes' = codes \ {k}
  /\ UNCHANGED <<now, consent, consentPage, tokens>>

(* Faulty variant: the code is left in the map.                            *)
TakeCodeKept(x, k, uri) ==
  /\ exchange[x].at = "none"
  /\ exchange' = [exchange EXCEPT ![x] =
       [at |-> "taken", code |-> k, redirect |-> uri, found |-> k \in codes]]
  /\ UNCHANGED <<now, codes, consent, consentPage, tokens>>

(* The entry is looked up and removed, whether or not it will do.          *)
TakeCode(x, k, uri) ==
  /\ exchange[x].at = "none"
  /\ exchange' = [exchange EXCEPT ![x] =
       [at |-> "taken", code |-> k, redirect |-> uri, found |-> k \in codes]]
  /\ codes' = codes \ {k}
  /\ UNCHANGED <<now, consent, consentPage, tokens>>

(* What was found must be in time, and for the same redirect URI.          *)
Fits(e) ==
  /\ e.found
  /\ now <= consent[e.code].expires
  /\ consent[e.code].redirect = e.redirect

Grant(x) ==
  /\ exchange[x].at = "taken"
  /\ Fits(exchange[x])
  /\ exchange' = [exchange EXCEPT ![x].at = "granted"]
  /\ tokens' = tokens \cup {Token("access", AccessTTL), Token("refresh", RefreshTTL)}
  /\ UNCHANGED <<now, codes, consent, consentPage>>

InvalidGrant(x) ==
  /\ exchange[x].at = "taken"
  /\ ~Fits(exchange[x])
  /\ exchange' = [exchange EXCEPT ![x].at = "refused"]
  /\ UNCHANGED <<now, codes, consent, consentPage, tokens>>

-----------------------------------------------------------------------------
(* Faulty variant: verifyToken does not compare the kind.                  *)
VerifyAnyKind(t, kind) == t \in tokens /\ now <= t.exp

(* verifyToken: signed by this server, of the kind wanted, not expired.    *)
Verify(t, kind) == t \in tokens /\ t.kind = kind /\ now <= t.exp

(* refreshAccess: a new access token, and no new refresh token.  Between   *)
(* its check and the minting the handler waits for nothing, so the clock,  *)
(* which counts minutes, does not move.                                    *)
RefreshAccess(t) ==
  /\ Verify(t, "refresh")
  /\ tokens' = tokens \cup {Token("access", AccessTTL)}
  /\ UNCHANGED <<now, codes, consent, consentPage, exchange>>

-----------------------------------------------------------------------------
Step ==
  \/ Tick
  \/ \E w \in Workers :
       \/ \E ip \in IPs, t \in Times : CheckBudget(w, ip, t)
       \/ WrongPassword(w)
       \/ \E k \in Codes, uri \in Redirects : RightPassword(w, k, uri)
  \/ \E x \in Exchanges :
       \/ \E k \in Codes, uri \in Redirects : TakeCode(x, k, uri)
       \/ Grant(x)
       \/ InvalidGrant(x)
  \/ \E t \in tokens : RefreshAccess(t)

Next == Restart \/ Step

Spec == Init /\ [][Next]_vars

-----------------------------------------------------------------------------
(* Types; what a token request found is a code that was minted.            *)
TypeOK ==
  /\ now \in Times
  /\ DOMAIN consent \subseteq Codes
  /\ \A k \in DOMAIN consent : consent[k] \in Entries
  /\ codes \subseteq DOMAIN consent
  /\ failed \in Seq([ip : IPs, time : Times])
  /\ Len(failed) <= MaxFails
  /\ pwFails \subseteq DOMAIN failed
  /\ attempt \in [Workers -> IPs \cup {Idle}]
  /\ \A x \in Exchanges :
       \/ exchange[x].at \in {"none", "lost"}
       \/ /\ exchange[x].at \in {"taken", "granted", "refused"}
          /\ exchange[x].redirect \in Redirects
          /\ exchange[x].code \in Codes
          /\ exchange[x].found => exchange[x].code \in DOMAIN consent
  /\ tokens \subseteq [kind : {"access", "refresh"}, exp : Nat]

Granted(k) == {x \in Exchanges : exchange[x].at = "granted" /\ exchange[x].code = k}

(* Tokens are granted only for a consent, at most once for each, however   *)
(* the requests for a code overlap and the server restarts in between:     *)
(* "one-time".                                                             *)
OneGrantPerConsent ==
  \A k \in Codes :
    /\ Cardinality(Granted(k)) <= 1
    /\ Granted(k) # {} => k \in DOMAIN consent \ codes

(* Within any FailWindow one process takes fewer wrong passwords than the  *)
(* budget allows plus the handlers that can be past the check at the same  *)
(* time, from one address and over all: pruning forgets none too early.    *)
FailuresBounded ==
  LET recent == {i \in DOMAIN failed : now < failed[i].time + FailWindow} IN
  /\ \A ip \in IPs :
       Cardinality(From(ip, recent)) < MaxPerIP + Cardinality(Workers)
  /\ Cardinality(recent) < MaxGlobal + Cardinality(Workers)

(* Access ends with the refresh token it came from: no chain of refreshes  *)
(* produces an access token that outlives every refresh token by more than *)
(* its own lifetime.                                                       *)
AccessEndsWithRefresh ==
  \A t \in tokens : t.kind = "access" =>
    \E r \in tokens : r.kind = "refresh" /\ t.exp <= r.exp + AccessTTL

=============================================================================
