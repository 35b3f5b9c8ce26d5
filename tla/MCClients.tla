------------------------------ MODULE MCClients ------------------------------
(***************************************************************************)
(* The bridge as a client of the services it depends on, for TLC: the      *)
(* device list at Google (DeviceSync), the token for Google (HomeGraph)    *)
(* and the session with the controller (UnifiClient).  The three share no  *)
(* variable, and are explored one at a time: the initial state says which  *)
(* of them moves.                                                          *)
(***************************************************************************)
EXTENDS DeviceSync, HomeGraph, UnifiClient, TLC

VARIABLE subject

(* One camera, renamed or not; and another beside it.                      *)
MCLists == {[cameras |-> 1, details |-> "a"], [cameras |-> 1, details |-> "b"],
            [cameras |-> 2, details |-> "a"]}

ClientsInit ==
  /\ Init /\ TokenInit /\ UnifiInit
  /\ subject \in {"sync", "token", "session"}

ClientsNext ==
  /\ UNCHANGED subject
  /\ \/ subject = "sync" /\ Next /\ UNCHANGED <<tokenVars, unifiVars>>
     \/ subject = "token" /\ TokenNext /\ UNCHANGED <<vars, unifiVars>>
     \/ subject = "session" /\ UnifiNext /\ UNCHANGED <<vars, tokenVars>>

ClientsSpec ==
  /\ ClientsInit /\ [][ClientsNext]_<<vars, tokenVars, unifiVars, subject>>
  /\ subject = "session" => UnifiFairness

(* The type invariants of the three modules.                               *)
ClientsTypeOK == TypeOK /\ TokenTypeOK /\ UnifiTypeOK

(* UnifiClient's liveness, where it is the session that moves: the event   *)
(* feed comes back after every failure, and requests stop logging in.      *)
SessionSettles == subject = "session" => WatcherReconnects /\ LoginsCease

=============================================================================
