------------------------------ MODULE MCServers ------------------------------
(***************************************************************************)
(* What answers over HTTP, for TLC: the API that Google and the viewers    *)
(* call (Api and OAuth), the server of the muxers (StreamServer) and the   *)
(* setup UI (Setup).  They share no variable and are explored one at a     *)
(* time: the initial state says which of them moves, and the others start  *)
(* in one state only.  Only invariants and one action property are         *)
(* checked, and but for the exposure lists no value is distinguished.      *)
(* Since the other modules rest, the values of StreamServer and the        *)
(* handlers of Setup can be named like those of Api, so that the symmetry  *)
(* of the names is that of the module that moves.                          *)
(***************************************************************************)
EXTENDS Api, StreamServer, MCSetup

VARIABLE moving

ServersInit ==
  /\ ApiInit /\ ServerInit /\ SetupInit /\ FirstList
  /\ moving \in {"api", "streams", "setup"}
  /\ moving # "streams" => lookup = NoURL
  /\ moving # "setup" =>
       /\ options["unifi"] = Unset /\ options["rest"] = Unset
       /\ accepted = {}

ServersNext ==
  /\ UNCHANGED moving
  /\ \/ moving = "api" /\ ApiNext /\ UNCHANGED <<serverVars, setupVars>>
     \/ moving = "streams" /\ ServerNext /\ UNCHANGED <<allVars, setupVars>>
     \/ moving = "setup" /\ SetupNext /\ UNCHANGED <<allVars, serverVars>>

ServersSpec ==
  ServersInit /\ [][ServersNext]_<<allVars, serverVars, setupVars, moving>>

ServersSymmetry ==
  Symmetry \cup Permutations(IPs) \cup Permutations(Workers)
    \cup Permutations(Codes) \cup Permutations(Exchanges)
    \cup Permutations(Redirects) \cup Permutations(Intents)
    \cup Permutations(Viewers)

(* The consent page, the exchange of a code and the streams are explored   *)
(* apart from each other: their steps share no variable but the clock and  *)
(* the tokens, which are never taken back, and for the streams it is all   *)
(* one how many exchanges have failed before one was granted.  For the     *)
(* attempts a FailWindow is enough, at whose end the first is forgotten.   *)
Consenting == failed # <<>> \/ \E w \in Workers : attempt[w] # Idle
Exchanging ==
  codes # {} \/ \E x \in Exchanges : exchange[x].at \notin {"none", "granted"}
Streaming ==
  exposed # Cameras \/ urls # {} \/ \E h \in Intents : intent[h] # Nobody
Apart ==
  /\ Streaming => ~Consenting /\ ~Exchanging
  /\ Consenting => now <= FailWindow

ServersFocus == Apart /\ Focus

=============================================================================
