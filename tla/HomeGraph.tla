------------------------------ MODULE HomeGraph ------------------------------
(***************************************************************************)
(* The service-account token of internal/ghome/homegraph.go, which every   *)
(* push to Google (RequestSync, ReportState, Notify) carries.  It is       *)
(* cached until shortly before its expiry as the client reckons it, and    *)
(* the mutex is not held across the exchange: callers may exchange at the  *)
(* same time, and the one answered last leaves its token in the cache.     *)
(*                                                                         *)
(* A token is the time until which Google accepts it.  The client counts   *)
(* its life from the answer, Google from the minting.                      *)
(***************************************************************************)
EXTENDS Naturals

CONSTANTS Callers,   (* goroutines that push                               *)
          NoToken,
          Lifetime,  (* of a token, as in expires_in                       *)
          Fallback,  (* taken for it if expires_in is missing              *)
          Margin,    (* a token is refreshed that long before its expiry   *)
          Timeout,   (* of a request of the HTTP client                    *)
          MaxNow     (* bound: the clock                                   *)

(* The code has an hour, 50 minutes, one minute and 15 seconds.            *)
ASSUME HomeGraphAssumption ==
  /\ {Lifetime, Fallback, Margin, Timeout, MaxNow} \subseteq Nat
  /\ NoToken \notin Nat
  /\ 2 * Timeout <= Margin
  /\ Margin < Lifetime
  /\ Fallback <= Lifetime

VARIABLES
  clock,
  accessToken,  (* the cached token                                        *)
  expiry,       (* when the client takes it to expire                      *)
  push          (* each caller: where it is, its token, and when its       *)
                (* request times out                                       *)

tokenVars == <<clock, accessToken, expiry, push>>

At(place, token, deadline) == [at |-> place, token |-> token, deadline |-> deadline]
NoPush == At("idle", NoToken, 0)
Busy(c) == push[c].at # "idle"

TokenInit ==
  /\ clock = 0
  /\ accessToken = NoToken
  /\ expiry = 0
  /\ push = [c \in Callers |-> NoPush]

(* No request is under way beyond its timeout.                             *)
TokenTick ==
  /\ clock < MaxNow
  /\ \A c \in Callers : Busy(c) => clock < push[c].deadline
  /\ clock' = clock + 1
  /\ UNCHANGED <<accessToken, expiry, push>>

(* Faulty variant: the token is used to the end of its life.               *)
CachedToTheEnd == accessToken # NoToken /\ clock < expiry

(* token(): what is cached will do for another minute.                     *)
Cached == accessToken # NoToken /\ clock + Margin < expiry

(* token() returns the cached token, and postAuthed sends it.              *)
UseCached(c) ==
  /\ ~Busy(c)
  /\ Cached
  /\ push' = [push EXCEPT ![c] = At("sending", accessToken, clock + Timeout)]
  /\ UNCHANGED <<clock, accessToken, expiry>>

(* Or it sends an assertion to the token endpoint, the mutex released.     *)
StartExchange(c) ==
  /\ ~Busy(c)
  /\ ~Cached
  /\ push' = [push EXCEPT ![c] = At("exchanging", NoToken, clock + Timeout)]
  /\ UNCHANGED <<clock, accessToken, expiry>>

(* Google mints a token.                                                   *)
MintToken(c) ==
  /\ push[c].at = "exchanging"
  /\ push' = [push EXCEPT ![c] = At("minted", clock + Lifetime, push[c].deadline)]
  /\ UNCHANGED <<clock, accessToken, expiry>>

(* The answer arrives: the token is cached, over whatever was, and sent.   *)
StoreToken(c, life) ==
  /\ push[c].at = "minted"
  /\ accessToken' = push[c].token
  /\ expiry' = clock + life
  /\ push' = [push EXCEPT ![c] = At("sending", push[c].token, clock + Timeout)]
  /\ UNCHANGED clock

(* Google has answered the push; or a request fails or times out, at any   *)
(* stage, which is an error for the caller and changes nothing.            *)
EndPush(c) ==
  /\ Busy(c)
  /\ push' = [push EXCEPT ![c] = NoPush]
  /\ UNCHANGED <<clock, accessToken, expiry>>

TokenNext ==
  \/ TokenTick
  \/ \E c \in Callers :
       \/ UseCached(c) \/ StartExchange(c) \/ MintToken(c) \/ EndPush(c)
       \/ \E life \in {Lifetime, Fallback} : StoreToken(c, life)

TokenSpec == TokenInit /\ [][TokenNext]_tokenVars

-----------------------------------------------------------------------------
(* Types; a token is cached together with its expiry.                      *)
TokenTypeOK ==
  /\ clock \in 0 .. MaxNow
  /\ accessToken \in Nat \cup {NoToken}
  /\ expiry \in Nat
  /\ push \in [Callers -> [at : {"idle", "exchanging", "minted", "sending"},
                           token : Nat \cup {NoToken}, deadline : Nat]]
  /\ \A c \in Callers : push[c].at \in {"minted", "sending"} => push[c].token \in Nat

(* Whenever a push reaches Google, its token is good: the margin covers    *)
(* the time the exchange and the push may take, whichever of concurrent    *)
(* exchanges was answered last.                                            *)
SentTokenIsGood ==
  \A c \in Callers : push[c].at = "sending" => clock <= push[c].token

=============================================================================
