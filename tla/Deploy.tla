------------------------------- MODULE Deploy -------------------------------
(***************************************************************************)
(* Deployment of the relay to a server over SSH                            *)
(* (crates/aion2-app/src/deploy.rs).                                       *)
(*                                                                         *)
(* A deployment compares what is installed with what the app ships,        *)
(* uploads what differs, and restarts the service if it uploaded anything. *)
(* The SSH session may break at every step: a command may have had its     *)
(* effect or not, an upload may be left half done.  The user then tries    *)
(* again.  The server's systemd is the environment: it starts the relay    *)
(* from what is on the disk, and again when the relay has died.  The code  *)
(* looks at the exit status of few commands; a command the server has run  *)
(* to its end did what it says, except that a start may come to nothing.   *)
(***************************************************************************)
EXTENDS Naturals

CONSTANTS
  Key,     \* tunnel keys
  NoKey,   \* there is no app.key
  Broken,  \* app.key is not 64 hex digits
  MaxTry   \* bound: deployments

ASSUME KeyAssumption == NoKey \notin Key /\ Broken \notin Key /\ NoKey # Broken
ASSUME BoundAssumption == MaxTry \in Nat

VARIABLES
  bin,     \* the relay binary on the server
  key,     \* /etc/aion2-relay/keys/app.key
  others,  \* the key directory also holds another user's key
  svc,     \* the unit file on the server
  unit,    \* the unit systemd has loaded
  wanted,  \* systemd was told to run the service, not to stop it
  relay,   \* the relay process, and what it was started from
  pc,      \* step of deploy_relay_impl; "ok" and "failed" are its results
  need,    \* needs_restart
  found,   \* key_hex, the key to return
  tries    \* deployments begun

host  == <<bin, key, others, svc, unit, wanted, relay>>
local == <<pc, need, found, tries>>
vars  == <<host, local>>
-----------------------------------------------------------------------------
File == {"none", "old", "part", "new"}   \* "new" is what the app ships

Down == [up |-> FALSE, bin |-> "none", unit |-> "none", key |-> NoKey]

(* systemd loads a unit it does not know yet; the relay refuses to start   *)
(* without keys, and if one of the key files is not a key.                 *)
LoadedUnit == IF unit = "none" THEN svc ELSE unit

CanStart ==
  /\ bin \in {"old", "new"} /\ LoadedUnit \in {"old", "new"}
  /\ key # Broken /\ (key # NoKey \/ others)

Started ==
  IF CanStart THEN [up |-> TRUE, bin |-> bin, unit |-> LoadedUnit, key |-> key]
              ELSE Down

(* A fresh server, or one somebody has deployed to, completely, before.    *)
Init ==
  /\ bin \in {"none", "old", "new"} /\ svc \in {"none", "old", "new"}
  /\ key \in Key \union {NoKey} /\ others \in BOOLEAN
  /\ unit = svc /\ wanted \in BOOLEAN
  /\ relay = IF wanted THEN Started ELSE Down
  /\ pc = "idle" /\ need = FALSE /\ found = NoKey /\ tries = 0
-----------------------------------------------------------------------------
Goto(l) == pc' = l /\ UNCHANGED <<need, found, tries>>

Fails == Goto("failed")

(* Steps 1 and 2: the binary is read and the SSH session is open.  The     *)
(* user's button is disabled during a deployment.                          *)
Begin ==
  /\ pc \in {"idle", "ok", "failed"} /\ tries < MaxTry
  /\ pc' = "binary" /\ need' = FALSE /\ found' = NoKey /\ tries' = tries + 1
  /\ UNCHANGED host

Exists(file) == file # "none"   \* mutant: any file will do

Unchanged(file) == file = "new"

(* Step 3.  A hash that cannot be had counts as a difference. *)
CompareBinary ==
  /\ pc = "binary"
  /\ \/ Unchanged(bin) /\ Goto("mkdir")
     \/ Goto("stop")
  /\ UNCHANGED host

(* The result of the stop is ignored. *)
StopService ==
  /\ pc = "stop"
  /\ Goto("upload binary")
  /\ \/ /\ wanted' = FALSE /\ relay' = Down
     \/ UNCHANGED <<wanted, relay>>
  /\ UNCHANGED <<bin, key, others, svc, unit>>

(* The file of a running program cannot be written. *)
UploadBinary ==
  /\ pc = "upload binary"
  /\ \/ /\ ~relay.up
        /\ bin' = "new" /\ need' = TRUE /\ pc' = "mkdir"
        /\ UNCHANGED <<found, tries>>
     \/ /\ bin' \in IF relay.up THEN {bin} ELSE {bin, "part", "new"}
        /\ Fails
  /\ UNCHANGED <<key, others, svc, unit, wanted, relay>>

(* Step 4. *)
MakeDirectory ==
  /\ pc = "mkdir"
  /\ Goto("read key") \/ Fails
  /\ UNCHANGED host

Generates(k) == FALSE           \* mutant: a key is generated every time

AnyContent(k) == k # NoKey      \* mutant: the content is not looked at

Reusable(k) == k \in Key

(* Step 5: a key that is there is used again. *)
ReadKey ==
  /\ pc = "read key"
  /\ \/ /\ Reusable(key)
        /\ found' = key /\ pc' = "service"
        /\ UNCHANGED <<need, tries>>
     \/ ~Reusable(key) /\ Goto("upload key")
     \/ Fails
  /\ UNCHANGED host

NeedNotSet == need              \* mutant: a new key alone is no reason

NeedAfterKey == TRUE

UploadKey ==
  /\ pc = "upload key"
  /\ \E k \in Key \ {key, relay.key} :
       \/ /\ key' = k /\ found' = k /\ need' = NeedAfterKey /\ pc' = "service"
          /\ UNCHANGED tries
       \/ /\ key' \in {key, Broken, k}
          /\ Fails
  /\ UNCHANGED <<bin, others, svc, unit, wanted, relay>>

(* Step 6. *)
CompareService ==
  /\ pc = "service"
  /\ \/ Unchanged(svc) /\ Goto("enable")
     \/ Goto("upload service")
  /\ UNCHANGED host

UploadService ==
  /\ pc = "upload service"
  /\ \/ svc' = "new" /\ Goto("reload")
     \/ svc' \in {svc, "part", "new"} /\ Fails
  /\ UNCHANGED <<bin, key, others, unit, wanted, relay>>

DaemonReload ==
  /\ pc = "reload"
  /\ \/ /\ unit' = svc /\ need' = TRUE /\ pc' = "enable"
        /\ UNCHANGED <<found, tries>>
     \/ unit' \in {unit, svc} /\ Fails
  /\ UNCHANGED <<bin, key, others, svc, wanted, relay>>

(* Step 8, after a firewall command whose result is ignored. *)
Enable ==
  /\ pc = "enable"
  /\ Goto(IF need THEN "restart" ELSE "start") \/ Fails
  /\ UNCHANGED host

StartRelay == relay' = Started /\ wanted' = TRUE /\ unit' = LoadedUnit

Restart ==
  /\ pc = "restart"
  /\ \/ StartRelay /\ (Goto("verify") \/ Fails)
     \/ UNCHANGED <<relay, wanted, unit>> /\ Fails
  /\ UNCHANGED <<bin, key, others, svc>>

(* Nothing happens to a service that runs. *)
Start ==
  /\ pc = "start"
  /\ \/ ~relay.up /\ StartRelay /\ (Goto("verify") \/ Fails)
     \/ relay.up /\ UNCHANGED <<relay, wanted, unit>> /\ Goto("verify")
     \/ UNCHANGED <<relay, wanted, unit>> /\ Fails
  /\ UNCHANGED <<bin, key, others, svc>>

(* Step 9. *)
Verify ==
  /\ pc = "verify"
  /\ (relay.up /\ Goto("ok")) \/ Fails
  /\ UNCHANGED host
-----------------------------------------------------------------------------
(* The server. *)
RelayDies ==
  /\ relay.up
  /\ relay' = Down
  /\ UNCHANGED <<bin, key, others, svc, unit, wanted, local>>

(* Restart=always. *)
Respawn ==
  /\ wanted /\ ~relay.up /\ CanStart
  /\ relay' = Started /\ unit' = LoadedUnit
  /\ UNCHANGED <<bin, key, others, svc, wanted, local>>
-----------------------------------------------------------------------------
Next ==
  \/ Begin \/ CompareBinary \/ StopService \/ UploadBinary \/ MakeDirectory
  \/ ReadKey \/ UploadKey \/ CompareService \/ UploadService \/ DaemonReload
  \/ Enable \/ Restart \/ Start \/ Verify \/ RelayDies \/ Respawn

Spec == Init /\ [][Next]_vars
-----------------------------------------------------------------------------
Step == {"idle", "binary", "stop", "upload binary", "mkdir", "read key",
         "upload key", "service", "upload service", "reload", "enable",
         "restart", "start", "verify", "ok", "failed"}

TypeOK ==
  /\ bin \in File /\ svc \in File /\ unit \in File
  /\ key \in Key \union {NoKey, Broken}
  /\ others \in BOOLEAN /\ wanted \in BOOLEAN
  /\ relay \in [up : BOOLEAN, bin : File, unit : File, key : Key \union {NoKey}]
  /\ pc \in Step /\ need \in BOOLEAN
  /\ found \in Key \union {NoKey} /\ tries \in 0..MaxTry

(* A deployment that reports success leaves the shipped binary and unit    *)
(* file on the disk and returns the key that is there, whatever earlier    *)
(* deployments left half done.                                             *)
OkIsInstalled == pc = "ok" => bin = "new" /\ svc = "new" /\ key = found

(* A deployment no other one failed before leaves a relay running what it  *)
(* has just installed.                                                     *)
FirstTryIsRunning ==
  (pc = "ok" /\ tries = 1 /\ relay.up) =>
     relay = [up |-> TRUE, bin |-> "new", unit |-> "new", key |-> found]

(* A key a user may have been given stays valid through every deployment.  *)
KeyIsKept == [][(key \in Key) => key' = key]_vars
-----------------------------------------------------------------------------
(* README.md, Quick Start: "The relay address and key are auto-filled      *)
(* after a successful deploy", for a proxy that is then started with them. *)
(* The relay that runs after a success has loaded the key it returns.      *)
OkIsUsable == (pc = "ok" /\ relay.up) => relay.key = found
=============================================================================
