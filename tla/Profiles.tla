------------------------------ MODULE Profiles ------------------------------
(***************************************************************************)
(* Connection profiles: the commands of crates/aion2-app/src/profiles.rs   *)
(* and the dashboard's handlers that call them (ui/src/App.vue).           *)
(*                                                                         *)
(* A handler is a list of commands, and waits for the answer of one before *)
(* it calls the next; the first error ends it.  A command that changes     *)
(* something reads the whole file, changes its copy and writes the file    *)
(* anew: emptied first, then filled.  There is no lock: the commands of    *)
(* two handlers run at the same time.  The app may be killed at any point, *)
(* and any access to the file may fail.                                    *)
(***************************************************************************)
EXTENDS Naturals, Sequences, Functions

CONSTANTS
  Name,      \* names of profiles
  NoName,    \* no profile is active
  Value,     \* what else a profile holds
  Handler,   \* the dashboard's handlers that may run at the same time (one at least)
  MaxClick,  \* bound: clicks
  MaxCrash   \* bound: restarts of the app

ASSUME NameAssumption == NoName \notin Name
ASSUME HandlerAssumption == Handler # {}
ASSUME ClickAssumption == MaxClick \in Nat /\ MaxCrash \in Nat

VARIABLES
  file,     \* profiles.json: none, empty, damaged, or a whole store
  handler,  \* what each handler has still to do, and its command's copy
  shown,    \* the dashboard: the profiles listed, and the active one
  told,     \* the store, had each write only made its change (history)
  apart,    \* no two handlers ever ran at once (history)
  failed,   \* some command failed (history)
  seen,     \* no command took a file it could not look at for none (history)
  clicks,   \* bound counters
  crashes

history == <<told, apart, failed, seen>>
bounds  == <<clicks, crashes>>
profileVars    == <<file, handler, shown, history, bounds>>
-----------------------------------------------------------------------------
Store == [profiles : UNION {[S -> Value] : S \in SUBSET Name},
          active   : Name \union {NoName}]

Default == [profiles |-> [n \in {} |-> 0], active |-> NoName]

Whole(s) == [st |-> "whole", store |-> s]

NotWhole(st) == [st |-> st, store |-> Default]

(* The commands a handler calls, in order. *)
Calls == [mount |-> <<"load">>, select |-> <<"set">>,
          save |-> <<"save", "load", "set">>, delete |-> <<"delete", "load">>]

Idle == [op |-> "none", name |-> NoName, value |-> NoName, todo |-> <<>>,
         at |-> "read", copy |-> Default]

Begins(op, n, v) == [op |-> op, name |-> n, value |-> v, todo |-> Calls[op],
                     at |-> "read", copy |-> Default]

Mounting(h) == h = CHOOSE x \in Handler : TRUE

(* The app has just been started. *)
ProfilesInit ==
  /\ file = NotWhole("none")
  /\ handler = [h \in Handler |-> IF Mounting(h) THEN Begins("mount", NoName, NoName) ELSE Idle]
  /\ shown = Default /\ told = Default /\ apart = TRUE /\ failed = FALSE /\ seen = TRUE
  /\ clicks = 0 /\ crashes = 0
-----------------------------------------------------------------------------
Runs(h) == handler[h].todo # <<>>

Command(h) == Head(handler[h].todo)

MovesTo(h, pos) == handler' = [handler EXCEPT ![h].at = pos]

AnyTyped == Name \union {NoName}  \* mutant: an empty name is accepted

Typed == Name

(* handleSelectProfile looks the name up in its list and shows it at once, *)
(* handleSaveProfile takes a name that was typed, and the button next to   *)
(* the list deletes the profile that is shown as active.                   *)
Click(h) ==
  /\ ~Runs(h) /\ clicks < MaxClick /\ clicks' = clicks + 1
  /\ apart' = (apart /\ \A x \in Handler : ~Runs(x))
  /\ \/ \E n \in DOMAIN shown.profiles :
          /\ handler' = [handler EXCEPT ![h] = Begins("select", n, NoName)]
          /\ shown' = [shown EXCEPT !.active = n]
     \/ \E n \in Typed, v \in Value :
          /\ handler' = [handler EXCEPT ![h] = Begins("save", n, v)]
          /\ UNCHANGED shown
     \/ /\ shown.active # NoName
        /\ handler' = [handler EXCEPT ![h] = Begins("delete", shown.active, NoName)]
        /\ UNCHANGED shown
  /\ UNCHANGED <<file, told, failed, seen, crashes>>

GivesUp(h) == handler' = [handler EXCEPT ![h] = Idle] /\ failed' = TRUE

Lenient(f) == TRUE              \* mutant: what cannot be parsed is no profile

Readable(f) == f.st \in {"none", "whole"}

KeepsActive(s, n) == s.active   \* mutant: a deleted profile stays active

NotActive(s, n) == IF s.active = n THEN NoName ELSE s.active

(* What a command makes of the store it has loaded. *)
Changed(cmd, n, v, s) ==
  CASE cmd = "save"   -> [s EXCEPT !.profiles =
                            [m \in DOMAIN @ \union {n} |-> IF m = n THEN v ELSE @[m]]]
    [] cmd = "delete" -> [profiles |-> Restrict(s.profiles, DOMAIN s.profiles \ {n}),
                          active   |-> NotActive(s, n)]
    [] cmd = "set"    -> [s EXCEPT !.active = n]
    [] OTHER          -> s

Changes(h, s) == Changed(Command(h), handler[h].name, handler[h].value, s)

Loads(h, s) ==
  /\ Command(h) = "set" => handler[h].name \in DOMAIN s.profiles
  /\ handler' = [handler EXCEPT ![h].copy = Changes(h, s),
                               ![h].at = IF Command(h) = "load" THEN "answer" ELSE "open"]
  /\ UNCHANGED failed

(* load_store, and the change.  Path::exists() is false not only without a *)
(* file: the store of a file it cannot look at is the empty one as well.   *)
Load(h) ==
  /\ Runs(h) /\ handler[h].at = "read"
  /\ \/ Readable(file) /\ Loads(h, file.store) /\ UNCHANGED seen
     \/ file.st # "none" /\ Loads(h, Default) /\ seen' = FALSE
     \/ GivesUp(h) /\ UNCHANGED seen
  /\ UNCHANGED <<file, shown, told, apart, bounds>>

(* save_store: fs::write empties the file, or fails to open it, ... *)
Open(h) ==
  /\ Runs(h) /\ handler[h].at = "open"
  /\ \/ file' = NotWhole("empty") /\ MovesTo(h, "write") /\ UNCHANGED failed
     \/ UNCHANGED file /\ GivesUp(h)
  /\ UNCHANGED <<shown, told, apart, seen, bounds>>

(* ... and writes from the start, over what somebody else has written      *)
(* since; what reaches further than the new text stays behind it.          *)
Write(h) ==
  /\ Runs(h) /\ handler[h].at = "write"
  /\ \/ /\ \/ file' = Whole(handler[h].copy)
           \/ /\ file \notin {NotWhole("empty"), Whole(handler[h].copy)}
              /\ file' = NotWhole("damaged")
        /\ MovesTo(h, "answer")
        /\ told' = Changes(h, told)
        /\ UNCHANGED failed
     \/ /\ file' \in {file, NotWhole("damaged")} /\ GivesUp(h)
        /\ UNCHANGED told
  /\ UNCHANGED <<shown, apart, seen, bounds>>

StaysShown(op, copy) == shown.active   \* mutant: a delete does not look at it

ActiveShown(op, copy) == IF op = "delete" THEN copy.active ELSE shown.active

(* The handler has the answer.  The list is the one that was loaded; the   *)
(* active one is that of the store, or the one just saved.                 *)
Answer(h) ==
  /\ Runs(h) /\ handler[h].at = "answer"
  /\ LET c == handler[h]
     IN  /\ shown' = IF Command(h) # "load" THEN shown
                     ELSE [profiles |-> c.copy.profiles,
                           active   |-> CASE c.op = "save"  -> c.name
                                          [] c.op = "mount" -> c.copy.active
                                          [] OTHER          -> ActiveShown(c.op, c.copy)]
         /\ handler' = [handler EXCEPT ![h] =
              IF Len(c.todo) = 1 THEN Idle
              ELSE [c EXCEPT !.todo = Tail(@), !.at = "read", !.copy = Default]]
  /\ UNCHANGED <<file, history, bounds>>

(* The app is killed, maybe in the middle of a write, and started again.   *)
Crash ==
  /\ crashes < MaxCrash /\ crashes' = crashes + 1
  /\ \/ UNCHANGED file
     \/ (\E h \in Handler : handler[h].at = "write") /\ file' = NotWhole("damaged")
  /\ handler' = [h \in Handler |-> IF Mounting(h) THEN Begins("mount", NoName, NoName) ELSE Idle]
  /\ shown' = Default
  /\ UNCHANGED <<history, clicks>>

ProfilesNext ==
  \/ Crash
  \/ \E h \in Handler : Click(h) \/ Load(h) \/ Open(h) \/ Write(h) \/ Answer(h)

ProfilesSpec == ProfilesInit /\ [][ProfilesNext]_profileVars
-----------------------------------------------------------------------------
ProfilesTypeOK ==
  /\ file \in {Whole(s) : s \in Store} \union {NotWhole(st) : st \in {"none", "empty", "damaged"}}
  /\ handler \in [Handler -> [op : {"none"} \union DOMAIN Calls, name : Name \union {NoName},
                             value : Value \union {NoName},
                             todo : Seq({"load", "save", "delete", "set"}),
                             at : {"read", "open", "write", "answer"}, copy : Store]]
  /\ shown \in Store /\ told \in Store
  /\ apart \in BOOLEAN /\ failed \in BOOLEAN /\ seen \in BOOLEAN
  /\ clicks \in 0..MaxClick /\ crashes \in 0..MaxCrash

(* The active profile is one that exists, in every file that can be read   *)
(* and every copy that may be written, however the commands of several     *)
(* handlers overlap and whatever a killed or failed write has left.        *)
HasActive(s) == s.active \in DOMAIN s.profiles \union {NoName}

ActiveIsSaved ==
  HasActive(file.store) /\ \A h \in Handler : HasActive(handler[h].copy)

(* As long as no two handlers ran at the same time, and no file that was   *)
(* there was taken for none, a file that can be read holds exactly what    *)
(* the writes so far have changed: a save, a load or a restart that meets  *)
(* a file it cannot read or parse never starts over from an empty store,   *)
(* which would forget all the other profiles.                              *)
AloneIsExact == (apart /\ seen /\ file.st = "whole") => file.store = told

(* When, in addition, nothing has failed, the dashboard at rest shows the  *)
(* profiles and the active one that the file holds.                        *)
ShownIsStored ==
  (apart /\ seen /\ ~failed /\ \A h \in Handler : ~Runs(h))
    => file.st \in {"none", "whole"} /\ shown = file.store
=============================================================================
