------------------------------- MODULE MCApp -------------------------------
(* Deploy and Profiles for TLC: the app's two components that keep files.  *)
(* They share nothing, so one of the two moves in a behaviour.             *)
EXTENDS Deploy, Profiles

VARIABLE part  \* which of the two moves

Fresh == bin = "none" /\ svc = "none" /\ key = NoKey /\ ~others /\ ~wanted

AppInit ==
  /\ Init /\ ProfilesInit
  /\ part \in {"deploy", "profiles"}
  /\ part = "profiles" => Fresh

AppNext ==
  /\ UNCHANGED part
  /\ \/ part = "deploy" /\ Next /\ UNCHANGED profileVars
     \/ part = "profiles" /\ ProfilesNext /\ UNCHANGED vars

AppSpec == AppInit /\ [][AppNext]_<<vars, profileVars, part>>
=============================================================================
