---------------------------- MODULE DeployProofs ----------------------------
(***************************************************************************)
(* Proofs about Deploy, for any keys and any number of deployments.        *)
(*                                                                         *)
(* Each step of a deployment that has passed leaves something true of the  *)
(* server (Installed); nothing else but a deployment changes its files.    *)
(* As long as no deployment has failed, the relay that runs was started    *)
(* from what is on the disk, or need is set (FirstTry).                    *)
(***************************************************************************)
EXTENDS Deploy, TLAPS

AfterKey    == {"service", "upload service", "reload", "enable", "restart",
                "start", "verify", "ok"}
AfterBinary == AfterKey \union {"mkdir", "read key", "upload key"}
AfterUpload == {"reload", "enable", "restart", "start", "verify", "ok"}

(* What a deployment knows of the files at each of its steps. *)
Installed ==
  /\ pc \in AfterBinary => bin = "new"
  /\ pc \in AfterKey => key = found /\ key \in Key
  /\ pc \in AfterUpload => svc = "new"
  /\ pc = "upload key" => key \notin Key

OnDisk == [up |-> TRUE, bin |-> bin, unit |-> unit, key |-> key]

(* What holds until a deployment fails or a second one begins. *)
FirstTry ==
  (tries <= 1 /\ pc # "failed") =>
    /\ pc = "idle" => ~need
    /\ pc = "start" => ~need
    /\ pc # "reload" => unit = svc
    /\ relay.up /\ (~need \/ pc \in {"verify", "ok"}) => relay = OnDisk

Begun == tries = 0 <=> pc = "idle"

IInv == TypeOK /\ Installed /\ Begun /\ FirstTry

RelayType == [up : BOOLEAN, bin : File, unit : File, key : Key \union {NoKey}]

(* The relay is down, or was started from files there are. *)
LEMMA DownType == Down \in RelayType /\ ~Down.up
BY DEF Down, RelayType, File

LEMMA StartedType ==
  ASSUME bin \in File, svc \in File, unit \in File,
         key \in Key \union {NoKey, Broken}
  PROVE  LoadedUnit \in File /\ Started \in RelayType
<1>1. LoadedUnit \in File
    BY DEF LoadedUnit
<1>2. CASE CanStart
  <2>1. key \in Key \union {NoKey} BY <1>2 DEF CanStart
  <2> QED BY <1>1, <1>2, <2>1 DEF Started, RelayType
<1>3. CASE ~CanStart
    BY <1>1, <1>3, DownType DEF Started
<1> QED BY <1>2, <1>3

LEMMA InitInv == Init => IInv
<1> SUFFICES ASSUME Init PROVE IInv
    OBVIOUS
<1>1. LoadedUnit \in File /\ bin \in File /\ svc \in File /\ unit \in File
    BY DEF Init, LoadedUnit, File
<1>2. relay \in RelayType
  <2>1. key \in Key \union {NoKey, Broken} BY DEF Init
  <2>2. Started \in RelayType BY <1>1, <2>1, StartedType
  <2> QED BY <2>2, DownType DEF Init
<1>3. TypeOK
  <2>1. tries \in 0..MaxTry BY BoundAssumption DEF Init
  <2> QED BY <1>1, <1>2, <2>1 DEF Init, TypeOK, Step, RelayType
<1>4. Installed
    BY DEF Init, Installed, AfterKey, AfterBinary, AfterUpload
<1>5. relay.up => relay = OnDisk
    BY DEF Init, Started, LoadedUnit, Down, OnDisk
<1>6. Begun /\ FirstTry
    BY <1>5 DEF Init, Begun, FirstTry
<1> QED BY <1>3, <1>4, <1>6 DEF IInv

LEMMA BeginType ==
  ASSUME tries \in 0..MaxTry, Begin
  PROVE  tries' \in 0..MaxTry
BY BoundAssumption DEF Begin

LEMMA TypeStep == TypeOK /\ [Next]_vars => TypeOK'
<1> SUFFICES ASSUME TypeOK, [Next]_vars PROVE TypeOK'
    OBVIOUS
<1> USE DEF TypeOK, RelayType, Step, host, local, Goto, Fails
<1>a. "new" \in File /\ "part" \in File BY DEF File
<1>1. CASE Begin BY <1>1, BeginType DEF Begin
<1>2. CASE CompareBinary BY <1>2 DEF CompareBinary
<1>3. CASE StopService BY <1>3, DownType DEF StopService
<1>4. CASE UploadBinary BY <1>4, <1>a DEF UploadBinary
<1>5. CASE MakeDirectory BY <1>5 DEF MakeDirectory
<1>6. CASE ReadKey BY <1>6 DEF ReadKey, Reusable
<1>7. CASE UploadKey BY <1>7 DEF UploadKey, NeedAfterKey
<1>8. CASE CompareService BY <1>8 DEF CompareService
<1>9. CASE UploadService BY <1>9, <1>a DEF UploadService
<1>10. CASE DaemonReload BY <1>10 DEF DaemonReload
<1>11. CASE Enable BY <1>11 DEF Enable
<1>12. CASE Restart BY <1>12, StartedType DEF Restart, StartRelay
<1>13. CASE Start BY <1>13, StartedType DEF Start, StartRelay
<1>14. CASE Verify BY <1>14 DEF Verify
<1>15. CASE RelayDies BY <1>15, DownType DEF RelayDies
<1>16. CASE Respawn BY <1>16, StartedType DEF Respawn
<1>17. CASE UNCHANGED vars BY <1>17 DEF vars
<1> QED BY <1>1, <1>2, <1>3, <1>4, <1>5, <1>6, <1>7, <1>8, <1>9, <1>10,
           <1>11, <1>12, <1>13, <1>14, <1>15, <1>16, <1>17 DEF Next

LEMMA InstalledStep == TypeOK /\ Installed /\ [Next]_vars => Installed'
<1> SUFFICES ASSUME TypeOK, Installed, [Next]_vars PROVE Installed'
    OBVIOUS
<1> USE KeyAssumption DEF Installed, AfterKey, AfterBinary, AfterUpload, host, local, Goto, Fails
<1>1. CASE Begin BY <1>1 DEF Begin
<1>2. CASE CompareBinary BY <1>2 DEF CompareBinary, Unchanged
<1>3. CASE StopService BY <1>3 DEF StopService
<1>4. CASE UploadBinary BY <1>4 DEF UploadBinary
<1>5. CASE MakeDirectory BY <1>5 DEF MakeDirectory
<1>6. CASE ReadKey BY <1>6 DEF ReadKey, Reusable
<1>7. CASE UploadKey BY <1>7 DEF UploadKey
<1>8. CASE CompareService BY <1>8 DEF CompareService, Unchanged
<1>9. CASE UploadService BY <1>9 DEF UploadService
<1>10. CASE DaemonReload BY <1>10 DEF DaemonReload
<1>11. CASE Enable BY <1>11 DEF Enable
<1>12. CASE Restart BY <1>12 DEF Restart
<1>13. CASE Start BY <1>13 DEF Start
<1>14. CASE Verify BY <1>14 DEF Verify
<1>15. CASE RelayDies BY <1>15 DEF RelayDies
<1>16. CASE Respawn BY <1>16 DEF Respawn
<1>17. CASE UNCHANGED vars BY <1>17 DEF vars
<1> QED BY <1>1, <1>2, <1>3, <1>4, <1>5, <1>6, <1>7, <1>8, <1>9, <1>10,
           <1>11, <1>12, <1>13, <1>14, <1>15, <1>16, <1>17 DEF Next

LEMMA FirstTryStep == TypeOK /\ Begun /\ FirstTry /\ [Next]_vars => Begun' /\ FirstTry'
<1> SUFFICES ASSUME TypeOK, Begun, FirstTry, [Next]_vars PROVE Begun' /\ FirstTry'
    OBVIOUS
<1>tries. tries \in Nat BY BoundAssumption DEF TypeOK
<1> USE <1>tries DEF Begun, FirstTry, OnDisk, host, local, Goto, Fails
<1>1. CASE Begin BY <1>1 DEF Begin
<1>2. CASE CompareBinary BY <1>2 DEF CompareBinary
<1>3. CASE StopService BY <1>3, DownType DEF StopService
<1>4. CASE UploadBinary BY <1>4 DEF UploadBinary
<1>5. CASE MakeDirectory BY <1>5 DEF MakeDirectory
<1>6. CASE ReadKey BY <1>6 DEF ReadKey
<1>7. CASE UploadKey BY <1>7 DEF UploadKey, NeedAfterKey
<1>8. CASE CompareService BY <1>8 DEF CompareService
<1>9. CASE UploadService BY <1>9 DEF UploadService
<1>10. CASE DaemonReload BY <1>10 DEF DaemonReload
<1>11. CASE Enable BY <1>11 DEF Enable
<1>12. CASE Restart BY <1>12 DEF Restart, StartRelay, Started, LoadedUnit, Down
<1>13. CASE Start BY <1>13 DEF Start, StartRelay, Started, LoadedUnit, Down
<1>14. CASE Verify BY <1>14 DEF Verify
<1>15. CASE RelayDies BY <1>15, DownType DEF RelayDies
<1>16. CASE Respawn BY <1>16 DEF Respawn, Started, LoadedUnit, Down
<1>17. CASE UNCHANGED vars BY <1>17 DEF vars
<1> QED BY <1>1, <1>2, <1>3, <1>4, <1>5, <1>6, <1>7, <1>8, <1>9, <1>10,
           <1>11, <1>12, <1>13, <1>14, <1>15, <1>16, <1>17 DEF Next

LEMMA Inductive == Spec => []IInv
<1>1. IInv /\ [Next]_vars => IInv'
    BY TypeStep, InstalledStep, FirstTryStep DEF IInv
<1> QED BY InitInv, <1>1, PTL DEF Spec

(* Every file, process and step stays within its type, whatever fails. *)
THEOREM TypeCorrect == Spec => []TypeOK
<1>1. IInv => TypeOK BY DEF IInv
<1> QED BY Inductive, <1>1, PTL

(* A deployment that reports success leaves the shipped binary and unit    *)
(* file and returns the key on the disk, after any number of failures.     *)
THEOREM SuccessIsInstalled == Spec => []OkIsInstalled
<1>1. IInv => OkIsInstalled
    BY DEF IInv, Installed, OkIsInstalled, AfterKey, AfterBinary, AfterUpload
<1> QED BY Inductive, <1>1, PTL

(* After a success no failure preceded, a relay that runs was started from *)
(* what the deployment installed.                                          *)
THEOREM FirstSuccessRuns == Spec => []FirstTryIsRunning
<1>1. IInv => FirstTryIsRunning
    BY DEF IInv, Installed, FirstTry, OnDisk, FirstTryIsRunning, AfterKey,
           AfterBinary, AfterUpload
<1> QED BY Inductive, <1>1, PTL

(* No step, of no deployment, changes or damages a key that is a key. *)
THEOREM KeysAreKept == Spec => KeyIsKept
<1>1. IInv /\ [Next]_vars => [(key \in Key) => key' = key]_vars
  <2> SUFFICES ASSUME IInv, Next, key \in Key PROVE key' = key
      BY DEF vars, host
  <2>1. pc # "upload key" BY DEF IInv, Installed
  <2> QED BY <2>1 DEF Next, Begin, CompareBinary, StopService, UploadBinary,
        MakeDirectory, ReadKey, UploadKey, CompareService, UploadService,
        DaemonReload, Enable, Restart, Start, Verify, RelayDies, Respawn, host
<1> QED BY Inductive, <1>1, PTL DEF Spec, KeyIsKept
=============================================================================
