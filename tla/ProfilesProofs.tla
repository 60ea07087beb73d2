--------------------------- MODULE ProfilesProofs ---------------------------
(***************************************************************************)
(* Proofs about the connection profiles, for any names, values, handlers   *)
(* that run at the same time, clicks and restarts.                         *)
(***************************************************************************)
EXTENDS Profiles, SequenceTheorems, TLAPS

At       == {"read", "open", "write", "answer"}
Commands == {"load", "save", "delete", "set"}

HandlerType ==
  [op : {"none"} \union DOMAIN Calls, name : Name \union {NoName},
   value : Value \union {NoName}, todo : Seq(Commands), at : At, copy : Store]

FileType == {Whole(s) : s \in Store} \union {NotWhole(st) : st \in {"none", "empty", "damaged"}}

(* What a handler has still to do goes with what was clicked. *)
Fits(c) ==
  \/ c.todo = <<>>
  \/ c.op = "mount" /\ c.todo = <<"load">>
  \/ c.op = "select" /\ c.name \in Name /\ c.todo = <<"set">>
  \/ /\ c.op = "save" /\ c.name \in Name /\ c.value \in Value
     /\ c.todo \in {<<"save", "load", "set">>, <<"load", "set">>, <<"set">>}
  \/ /\ c.op = "delete" /\ c.name \in Name
     /\ c.todo \in {<<"delete", "load">>, <<"load">>}

AllFit == \A h \in Handler : Fits(handler[h])
-----------------------------------------------------------------------------
LEMMA DefaultType == Default \in Store /\ HasActive(Default)
<1>1. [n \in {} |-> 0] \in [{} -> Value] OBVIOUS
<1>2. {} \in SUBSET Name OBVIOUS
<1>3. [n \in {} |-> 0] \in UNION {[S -> Value] : S \in SUBSET Name}
  BY <1>1, <1>2
<1> QED BY <1>3 DEF Default, Store, HasActive

LEMMA StoreType ==
  ASSUME NEW S \in SUBSET Name, NEW p \in [S -> Value], NEW a \in Name \union {NoName}
  PROVE  [profiles |-> p, active |-> a] \in Store
BY DEF Store

LEMMA StoreParts ==
  ASSUME NEW s \in Store
  PROVE  /\ s = [profiles |-> s.profiles, active |-> s.active]
         /\ DOMAIN s.profiles \in SUBSET Name
         /\ s.profiles \in [DOMAIN s.profiles -> Value]
         /\ s.active \in Name \union {NoName}
BY DEF Store

(* A change makes a store of a store, and keeps the active profile in it.  *)
LEMMA ChangeType ==
  ASSUME NEW s \in Store, NEW cmd \in Commands, NEW n \in Name \union {NoName},
         NEW v \in Value \union {NoName},
         cmd = "save" => n \in Name /\ v \in Value
  PROVE  /\ Changed(cmd, n, v, s) \in Store
         /\ HasActive(s) /\ (cmd = "set" => n \in DOMAIN s.profiles)
              => HasActive(Changed(cmd, n, v, s))
<1>p. s = [profiles |-> s.profiles, active |-> s.active]
      /\ DOMAIN s.profiles \in SUBSET Name
      /\ s.profiles \in [DOMAIN s.profiles -> Value]
      /\ s.active \in Name \union {NoName}
  BY StoreParts
<1> DEFINE D == DOMAIN s.profiles
<1>1. CASE cmd = "save"
  <2> DEFINE p == [m \in D \union {n} |-> IF m = n THEN v ELSE s.profiles[m]]
  <2>1. p \in [D \union {n} -> Value] /\ D \union {n} \in SUBSET Name
    BY <1>1, <1>p
  <2>2. Changed(cmd, n, v, s) = [profiles |-> p, active |-> s.active]
    BY <1>1, <1>p DEF Changed
  <2>3. [profiles |-> p, active |-> s.active] \in Store
    BY <1>p, <2>1, StoreType
  <2> QED BY <2>1, <2>2, <2>3 DEF HasActive
<1>2. CASE cmd = "delete"
  <2> DEFINE p == Restrict(s.profiles, D \ {n})
  <2>1. p \in [D \ {n} -> Value] /\ D \ {n} \in SUBSET Name
    BY <1>p DEF Restrict
  <2>2. Changed(cmd, n, v, s) = [profiles |-> p, active |-> NotActive(s, n)]
    BY <1>2 DEF Changed
  <2>3. NotActive(s, n) \in Name \union {NoName}
    BY <1>p DEF NotActive
  <2>4. [profiles |-> p, active |-> NotActive(s, n)] \in Store
    BY <2>1, <2>3, StoreType
  <2>5. HasActive(s) => NotActive(s, n) \in (D \ {n}) \union {NoName}
    BY DEF HasActive, NotActive
  <2> QED BY <2>1, <2>2, <2>4, <2>5 DEF HasActive
<1>3. CASE cmd = "set"
  <2>1. Changed(cmd, n, v, s) = [profiles |-> s.profiles, active |-> n]
    BY <1>3, <1>p DEF Changed
  <2>2. [profiles |-> s.profiles, active |-> n] \in Store
    BY <1>3, <1>p, StoreType
  <2> QED BY <1>3, <2>1, <2>2 DEF HasActive
<1>4. CASE cmd = "load"
  BY <1>4 DEF Changed
<1> QED BY <1>1, <1>2, <1>3, <1>4 DEF Commands
-----------------------------------------------------------------------------
(* The lists of commands, and what is left of them after each command.     *)
Lists == {<<"load">>, <<"set">>, <<"save", "load", "set">>, <<"load", "set">>,
          <<"delete", "load">>}

LEMMA ListFacts ==
  /\ Lists \subseteq Seq(Commands)
  /\ \A t \in Lists : t # <<>>
  /\ Head(<<"load">>) = "load" /\ Tail(<<"load">>) = <<>>
  /\ Head(<<"set">>) = "set" /\ Tail(<<"set">>) = <<>>
  /\ Head(<<"load", "set">>) = "load" /\ Tail(<<"load", "set">>) = <<"set">>
  /\ Head(<<"delete", "load">>) = "delete" /\ Tail(<<"delete", "load">>) = <<"load">>
  /\ Head(<<"save", "load", "set">>) = "save"
  /\ Tail(<<"save", "load", "set">>) = <<"load", "set">>
<1>1. /\ <<"load">> \in Seq(Commands) /\ <<"set">> \in Seq(Commands)
      /\ <<"load", "set">> \in Seq(Commands) /\ <<"delete", "load">> \in Seq(Commands)
  BY DEF Commands
<1>2. <<"save", "load", "set">> \in Seq(Commands)
  BY DEF Commands
<1>3. Tail(<<"load">>) = <<>> /\ Tail(<<"set">>) = <<>>
  OBVIOUS
<1>4. Tail(<<"load", "set">>) = <<"set">> /\ Tail(<<"delete", "load">>) = <<"load">>
  OBVIOUS
<1>5. Tail(<<"save", "load", "set">>) = <<"load", "set">>
  OBVIOUS
<1>6. \A t \in Lists : t # <<>>
  BY DEF Lists
<1> QED BY <1>1, <1>2, <1>3, <1>4, <1>5, <1>6 DEF Lists

(* Where a handler may be in its list of commands.                         *)
LEMMA TodoFacts ==
  ASSUME NEW c \in HandlerType, Fits(c), c.todo # <<>>
  PROVE  /\ Head(c.todo) \in Commands /\ Tail(c.todo) \in Seq(Commands)
         /\ Head(c.todo) = "save" => c.name \in Name /\ c.value \in Value
         /\ c.op = "save" => c.name \in Name
         /\ Fits([c EXCEPT !.todo = Tail(@), !.at = "read", !.copy = Default])
<1> DEFINE d == [c EXCEPT !.todo = Tail(@), !.at = "read", !.copy = Default]
<1>1. d.op = c.op /\ d.name = c.name /\ d.value = c.value /\ d.todo = Tail(c.todo)
  BY DEF HandlerType
<1>2. Tail(c.todo) \in Seq(Commands)
  BY DEF HandlerType
<1> HIDE DEF d
<1> DEFINE Facts == /\ Head(c.todo) \in Commands
                    /\ Head(c.todo) = "save" => c.name \in Name /\ c.value \in Value
                    /\ c.op = "save" => c.name \in Name
                    /\ Fits(d)
<1>3. ASSUME c.op = "mount" /\ c.todo = <<"load">> PROVE Facts
  BY <1>1, <1>3, ListFacts DEF Fits, Commands
<1>4. ASSUME c.op = "select" /\ c.name \in Name /\ c.todo = <<"set">> PROVE Facts
  BY <1>1, <1>4, ListFacts DEF Fits, Commands
<1>5. ASSUME c.op = "save" /\ c.name \in Name /\ c.value \in Value,
             c.todo \in {<<"save", "load", "set">>, <<"load", "set">>, <<"set">>}
      PROVE  Facts
  <2>1. CASE c.todo = <<"save", "load", "set">>
    BY <1>1, <1>5, <2>1, ListFacts DEF Fits, Commands
  <2>2. CASE c.todo = <<"load", "set">>
    BY <1>1, <1>5, <2>2, ListFacts DEF Fits, Commands
  <2>3. CASE c.todo = <<"set">>
    BY <1>1, <1>5, <2>3, ListFacts DEF Fits, Commands
  <2> QED BY <1>5, <2>1, <2>2, <2>3
<1>6. ASSUME c.op = "delete" /\ c.name \in Name,
             c.todo \in {<<"delete", "load">>, <<"load">>}
      PROVE  Facts
  <2>1. CASE c.todo = <<"delete", "load">>
    BY <1>1, <1>6, <2>1, ListFacts DEF Fits, Commands
  <2>2. CASE c.todo = <<"load">>
    BY <1>1, <1>6, <2>2, ListFacts DEF Fits, Commands
  <2> QED BY <1>6, <2>1, <2>2
<1>7. Facts
  <2> HIDE DEF Facts
  <2> QED BY <1>3, <1>4, <1>5, <1>6 DEF Fits
<1> QED BY <1>2, <1>7 DEF d

LEMMA IdleFacts ==
  /\ Idle \in HandlerType /\ Fits(Idle) /\ Idle.copy = Default
  /\ Idle.todo = <<>> /\ Idle.at = "read"
BY DefaultType DEF Idle, HandlerType, At, Fits

LEMMA BeginsFacts ==
  ASSUME NEW op \in DOMAIN Calls, NEW n \in Name \union {NoName},
         NEW v \in Value \union {NoName},
         op # "mount" => n \in Name, op = "save" => v \in Value
  PROVE  LET c == Begins(op, n, v)
         IN  /\ c \in HandlerType /\ Fits(c) /\ c.copy = Default /\ c.at = "read"
<1> DEFINE c == Begins(op, n, v)
<1>1. c = [op |-> op, name |-> n, value |-> v, todo |-> Calls[op],
           at |-> "read", copy |-> Default]
  BY DEF Begins
<1>2. op \in {"mount", "select", "save", "delete"}
  BY DEF Calls
<1>3. Calls[op] \in Lists
  BY <1>2 DEF Calls, Lists
<1>4. c \in HandlerType
  BY <1>1, <1>3, DefaultType, ListFacts DEF HandlerType, At
<1>5. Fits(c)
  BY <1>1, <1>2 DEF Fits, Calls
<1> QED BY <1>1, <1>4, <1>5
-----------------------------------------------------------------------------
(* Types, the commands to come, and the active profile in the file and in  *)
(* every copy.                                                             *)
Shape ==
  /\ file \in FileType
  /\ handler \in [Handler -> HandlerType] /\ AllFit
  /\ shown \in Store /\ told \in Store
  /\ apart \in BOOLEAN /\ failed \in BOOLEAN /\ seen \in BOOLEAN
  /\ clicks \in 0..MaxClick /\ crashes \in 0..MaxCrash

IInv == Shape /\ ActiveIsSaved

LEMMA FileFacts ==
  ASSUME file \in FileType
  PROVE  file.store \in Store /\ (file.st # "whole" => file.store = Default)
BY DefaultType DEF FileType, Whole, NotWhole

LEMMA MountFacts ==
  LET all == [h \in Handler |-> IF Mounting(h) THEN Begins("mount", NoName, NoName) ELSE Idle]
  IN  /\ all \in [Handler -> HandlerType]
      /\ \A h \in Handler : Fits(all[h]) /\ all[h].copy = Default /\ all[h].at = "read"
<1>1. "mount" \in DOMAIN Calls BY DEF Calls
<1>2. LET c == Begins("mount", NoName, NoName)
      IN  c \in HandlerType /\ Fits(c) /\ c.copy = Default /\ c.at = "read"
  BY <1>1, BeginsFacts
<1> QED BY <1>2, IdleFacts

LEMMA InitInv == ProfilesInit => IInv
<1> SUFFICES ASSUME ProfilesInit PROVE IInv
  OBVIOUS
<1>1. file \in FileType /\ file.store = Default
  BY DefaultType DEF ProfilesInit, FileType, NotWhole
<1>2. handler \in [Handler -> HandlerType] /\ AllFit
      /\ \A h \in Handler : handler[h].copy = Default
  BY MountFacts DEF ProfilesInit, AllFit
<1>3. 0 \in 0..MaxClick /\ 0 \in 0..MaxCrash
  BY ClickAssumption
<1> QED BY <1>1, <1>2, <1>3, DefaultType DEF ProfilesInit, IInv, Shape, ActiveIsSaved

(* A step that changes one handler, by its new record.                     *)
LEMMA OneHandler ==
  ASSUME IInv, NEW h \in Handler, NEW c \in HandlerType, Fits(c), HasActive(c.copy),
         handler' = [handler EXCEPT ![h] = c]
  PROVE  /\ handler' \in [Handler -> HandlerType] /\ AllFit'
         /\ \A x \in Handler : HasActive(handler'[x].copy)
<1>1. handler \in [Handler -> HandlerType] BY DEF IInv, Shape
<1>2. \A x \in Handler : handler'[x] = IF x = h THEN c ELSE handler[x]
  BY <1>1
<1>3. \A x \in Handler : Fits(handler[x]) /\ HasActive(handler[x].copy)
  BY DEF IInv, Shape, AllFit, ActiveIsSaved
<1> QED BY <1>1, <1>2, <1>3 DEF AllFit

(* Changing place or copy leaves the rest of a handler alone.              *)
LEMMA Moved ==
  ASSUME NEW c \in HandlerType, Fits(c), NEW s \in Store, NEW pos \in At
  PROVE  /\ [c EXCEPT !.at = pos] \in HandlerType /\ Fits([c EXCEPT !.at = pos])
         /\ [c EXCEPT !.at = pos].copy = c.copy
         /\ [c EXCEPT !.copy = s, !.at = pos] \in HandlerType
         /\ Fits([c EXCEPT !.copy = s, !.at = pos])
         /\ [c EXCEPT !.copy = s, !.at = pos].copy = s
BY DEF HandlerType, Fits
-----------------------------------------------------------------------------
LEMMA ClickInv == ASSUME IInv, NEW h \in Handler, Click(h) PROVE IInv'
<1>1. PICK op \in {"select", "save", "delete"}, n \in Name, v \in Value \union {NoName} :
        /\ op = "save" => v \in Value
        /\ handler' = [handler EXCEPT ![h] = Begins(op, n, v)]
        /\ \/ op = "select" /\ shown' = [shown EXCEPT !.active = n]
           \/ UNCHANGED shown
  <2>1. DOMAIN shown.profiles \subseteq Name /\ shown.active \in Name \union {NoName}
    BY StoreParts DEF IInv, Shape
  <2> QED BY <2>1 DEF Click, Typed
<1> DEFINE c == Begins(op, n, v)
<1>2. c \in HandlerType /\ Fits(c) /\ HasActive(c.copy)
  <2>1. op \in DOMAIN Calls BY DEF Calls
  <2> QED BY <1>1, <2>1, BeginsFacts, DefaultType
<1>3. /\ handler' \in [Handler -> HandlerType] /\ AllFit'
      /\ \A x \in Handler : HasActive(handler'[x].copy)
  BY <1>1, <1>2, OneHandler
<1>4. shown' \in Store
  BY <1>1 DEF IInv, Shape, Store
<1>5. clicks' \in 0..MaxClick
  BY ClickAssumption DEF Click, IInv, Shape
<1>6. apart' \in BOOLEAN
  BY DEF Click, IInv, Shape
<1> QED BY <1>3, <1>4, <1>5, <1>6 DEF Click, IInv, Shape, ActiveIsSaved

LEMMA FailsInv ==
  ASSUME IInv, NEW h \in Handler, GivesUp(h)
  PROVE  /\ handler' \in [Handler -> HandlerType] /\ AllFit'
         /\ \A x \in Handler : HasActive(handler'[x].copy)
         /\ failed' \in BOOLEAN
BY IdleFacts, DefaultType, OneHandler DEF GivesUp

LEMMA LoadInv == ASSUME IInv, NEW h \in Handler, Load(h) PROVE IInv'
<1>h. handler[h] \in HandlerType /\ Fits(handler[h]) /\ handler[h].todo # <<>>
  BY DEF IInv, Shape, AllFit, Load, Runs
<1>3. seen' \in BOOLEAN
  BY DEF Load, IInv, Shape
<1>1. CASE GivesUp(h)
  BY <1>1, <1>3, FailsInv DEF Load, IInv, Shape, ActiveIsSaved, bounds
<1>2. ASSUME NEW from \in {file.store, Default},
             Command(h) = "set" => handler[h].name \in DOMAIN from.profiles,
             NEW pos \in At,
             handler' = [handler EXCEPT ![h].copy = Changes(h, from), ![h].at = pos],
             UNCHANGED failed
      PROVE  IInv'
  <2> DEFINE s == Changes(h, from)
             c == [handler[h] EXCEPT !.copy = s, !.at = pos]
  <2>1. from \in Store /\ HasActive(from)
    BY FileFacts, DefaultType DEF IInv, Shape, ActiveIsSaved
  <2>2. /\ Command(h) \in Commands
        /\ Command(h) = "save" => handler[h].name \in Name /\ handler[h].value \in Value
    BY <1>h, TodoFacts DEF Command
  <2>3. handler[h].name \in Name \union {NoName} /\ handler[h].value \in Value \union {NoName}
    BY <1>h DEF HandlerType
  <2>4. s \in Store /\ HasActive(s)
    BY <1>2, <2>1, <2>2, <2>3, ChangeType DEF Changes
  <2>5. c \in HandlerType /\ Fits(c) /\ HasActive(c.copy)
    BY <1>h, <2>4, Moved
  <2>6. handler' = [handler EXCEPT ![h] = c]
    BY <1>2 DEF IInv, Shape
  <2>7. /\ handler' \in [Handler -> HandlerType] /\ AllFit'
        /\ \A x \in Handler : HasActive(handler'[x].copy)
    BY <2>5, <2>6, OneHandler
  <2> QED BY <1>2, <1>3, <2>7 DEF Load, IInv, Shape, ActiveIsSaved, bounds
<1> QED BY <1>1, <1>2 DEF Load, Loads, At

LEMMA GotoInv ==
  ASSUME IInv, NEW h \in Handler, NEW pos \in At, MovesTo(h, pos)
  PROVE  /\ handler' \in [Handler -> HandlerType] /\ AllFit'
         /\ \A x \in Handler : HasActive(handler'[x].copy)
<1> DEFINE c == [handler[h] EXCEPT !.at = pos]
<1>1. handler[h] \in HandlerType /\ Fits(handler[h]) /\ HasActive(handler[h].copy)
  BY DEF IInv, Shape, AllFit, ActiveIsSaved
<1>2. c \in HandlerType /\ Fits(c) /\ HasActive(c.copy)
  BY <1>1, DefaultType, Moved
<1>3. handler' = [handler EXCEPT ![h] = c]
  BY DEF MovesTo, IInv, Shape
<1> QED BY <1>2, <1>3, OneHandler

LEMMA OpenInv == ASSUME IInv, NEW h \in Handler, Open(h) PROVE IInv'
<1>1. CASE file' = NotWhole("empty") /\ MovesTo(h, "write") /\ UNCHANGED failed
  <2>1. file' \in FileType /\ HasActive(file'.store)
    BY <1>1, DefaultType DEF FileType, NotWhole
  <2> QED BY <1>1, <2>1, GotoInv DEF At, Open, IInv, Shape, ActiveIsSaved, bounds
<1>2. CASE UNCHANGED file /\ GivesUp(h)
  BY <1>2, FailsInv DEF Open, IInv, Shape, ActiveIsSaved, bounds
<1> QED BY <1>1, <1>2 DEF Open
LEMMA WriteInv == ASSUME IInv, NEW h \in Handler, Write(h) PROVE IInv'
<1>h. handler[h] \in HandlerType /\ Fits(handler[h]) /\ handler[h].todo # <<>>
      /\ handler[h].copy \in Store /\ HasActive(handler[h].copy)
  BY DEF IInv, Shape, AllFit, ActiveIsSaved, Write, Runs, HandlerType
<1>1. /\ Whole(handler[h].copy) \in FileType /\ HasActive(Whole(handler[h].copy).store)
      /\ NotWhole("damaged") \in FileType /\ HasActive(NotWhole("damaged").store)
  BY <1>h, DefaultType DEF FileType, Whole, NotWhole
<1>2. file' \in FileType /\ HasActive(file'.store)
  BY <1>1 DEF Write, IInv, Shape, ActiveIsSaved
<1>3. CASE MovesTo(h, "answer") /\ told' = Changes(h, told) /\ UNCHANGED failed
  <2>1. /\ Command(h) \in Commands
        /\ Command(h) = "save" => handler[h].name \in Name /\ handler[h].value \in Value
    BY <1>h, TodoFacts DEF Command
  <2>2. handler[h].name \in Name \union {NoName} /\ handler[h].value \in Value \union {NoName}
    BY <1>h DEF HandlerType
  <2>3. told' \in Store
    BY <1>3, <1>h, <2>1, <2>2, ChangeType DEF Changes, IInv, Shape
  <2> QED BY <1>2, <1>3, <2>3, GotoInv DEF At, Write, IInv, Shape, ActiveIsSaved, bounds
<1>4. CASE GivesUp(h) /\ UNCHANGED told
  BY <1>2, <1>4, FailsInv DEF Write, IInv, Shape, ActiveIsSaved, bounds
<1> QED BY <1>3, <1>4 DEF Write

LEMMA AnswerInv == ASSUME IInv, NEW h \in Handler, Answer(h) PROVE IInv'
<1> DEFINE c == handler[h]
           d == IF Len(c.todo) = 1 THEN Idle
                ELSE [c EXCEPT !.todo = Tail(@), !.at = "read", !.copy = Default]
<1>h. c \in HandlerType /\ Fits(c) /\ c.todo # <<>> /\ c.copy \in Store
  BY DEF IInv, Shape, AllFit, Answer, Runs, HandlerType
<1>1. d \in HandlerType /\ Fits(d) /\ HasActive(d.copy)
  <2>1. [c EXCEPT !.todo = Tail(@), !.at = "read", !.copy = Default] \in HandlerType
    BY <1>h, TodoFacts, DefaultType DEF HandlerType, At
  <2>2. [c EXCEPT !.todo = Tail(@), !.at = "read", !.copy = Default].copy = Default
    BY <1>h DEF HandlerType
  <2> QED BY <1>h, <2>1, <2>2, TodoFacts, IdleFacts, DefaultType
<1>2. handler' = [handler EXCEPT ![h] = d]
  BY DEF Answer
<1>3. /\ handler' \in [Handler -> HandlerType] /\ AllFit'
      /\ \A x \in Handler : HasActive(handler'[x].copy)
  <2> HIDE DEF d
  <2> QED BY <1>1, <1>2, OneHandler
<1>4. shown' \in Store
  <2>1. shown' = shown \/ \E a \in {c.name, c.copy.active, shown.active} :
          /\ shown' = [profiles |-> c.copy.profiles, active |-> a]
          /\ a = c.name => c.op = "save" \/ a \in {c.copy.active, shown.active}
    BY DEF Answer, ActiveShown
  <2>2. c.op = "save" => c.name \in Name
    BY <1>h, TodoFacts
  <2>3. /\ DOMAIN c.copy.profiles \in SUBSET Name
        /\ c.copy.profiles \in [DOMAIN c.copy.profiles -> Value]
        /\ {c.copy.active, shown.active} \subseteq Name \union {NoName}
    BY <1>h, StoreParts DEF IInv, Shape
  <2> QED BY <2>1, <2>2, <2>3, StoreType DEF IInv, Shape
<1> QED BY <1>3, <1>4 DEF Answer, IInv, Shape, ActiveIsSaved, history, bounds

LEMMA CrashInv == IInv /\ Crash => IInv'
<1> SUFFICES ASSUME IInv, Crash PROVE IInv'
  OBVIOUS
<1>1. file' \in FileType /\ HasActive(file'.store)
  BY DefaultType DEF Crash, FileType, NotWhole, IInv, Shape, ActiveIsSaved
<1>2. handler' \in [Handler -> HandlerType] /\ AllFit'
      /\ \A h \in Handler : handler'[h].copy = Default
  BY MountFacts DEF Crash, AllFit
<1>3. crashes' \in 0..MaxCrash
  BY ClickAssumption DEF Crash, IInv, Shape
<1> QED BY <1>1, <1>2, <1>3, DefaultType DEF Crash, IInv, Shape, ActiveIsSaved, history

LEMMA Inductive == ProfilesSpec => []IInv
<1>1. IInv /\ [ProfilesNext]_profileVars => IInv'
  <2> SUFFICES ASSUME IInv, [ProfilesNext]_profileVars PROVE IInv'
    OBVIOUS
  <2>1. CASE UNCHANGED profileVars
    BY <2>1 DEF profileVars, history, bounds, IInv, Shape, AllFit, ActiveIsSaved
  <2> QED
    BY <2>1, ClickInv, LoadInv, OpenInv, WriteInv, AnswerInv, CrashInv DEF ProfilesNext
<1> QED BY InitInv, <1>1, PTL DEF ProfilesSpec

(* The types of every variable: what is listed, kept and written are       *)
(* stores, whose profiles have names.                                      *)
THEOREM TypeCorrect == ProfilesSpec => []ProfilesTypeOK
<1>1. IInv => ProfilesTypeOK
  BY DEF IInv, Shape, ProfilesTypeOK, FileType, HandlerType, At, Commands
<1> QED BY Inductive, <1>1, PTL

(* The active profile exists in the file and in every copy, however the    *)
(* commands of any number of handlers overlap, fail or are cut off.        *)
THEOREM ActiveExists == ProfilesSpec => []ActiveIsSaved
<1>1. IInv => ActiveIsSaved BY DEF IInv
<1> QED BY Inductive, <1>1, PTL
-----------------------------------------------------------------------------
(* While handlers have not overlapped, and no file was taken for none: at  *)
(* most one runs, and the copy it is about to write is what its command    *)
(* makes of the store so far.                                              *)
Fresh(c, t) == c.copy = Changed(Head(c.todo), c.name, c.value, t)

Alone ==
  /\ file.st = "none" => told = Default
  /\ apart /\ seen =>
       /\ file.st = "whole" => file.store = told
       /\ \A x, y \in Handler : Runs(x) /\ Runs(y) => x = y
       /\ \A h \in Handler : Runs(h) /\ handler[h].at \in {"open", "write"}
                               => Fresh(handler[h], told)

LEMMA AloneInit == ProfilesInit => Alone
<1> SUFFICES ASSUME ProfilesInit PROVE Alone
  OBVIOUS
<1>1. file.st = "none" BY DEF ProfilesInit, NotWhole
<1>2. \A h \in Handler : Runs(h) => Mounting(h)
  BY DEF ProfilesInit, Runs, Idle
<1>3. \A h \in Handler : handler[h].at = "read"
  BY DEF ProfilesInit, Idle, Begins
<1> QED BY <1>1, <1>2, <1>3 DEF ProfilesInit, Alone, Mounting

(* A handler that goes back to the start of a command, or ends.            *)
LEMMA Restarts ==
  ASSUME IInv, Alone, NEW h \in Handler, NEW c, c.at = "read",
         handler' = [handler EXCEPT ![h] = c], UNCHANGED <<told, seen>>,
         apart' => apart,
         apart' => Runs(h) \/ \A x \in Handler : ~Runs(x),
         file'.st = "none" => file.st = "none",
         file'.st = "whole" => file' = file
  PROVE  Alone'
<1>1. \A x \in Handler : handler'[x] = IF x = h THEN c ELSE handler[x]
  BY DEF IInv, Shape
<1>2. apart' /\ seen' => \A x \in Handler : Runs(x)' => x = h
  BY <1>1 DEF Alone, Runs
<1> QED BY <1>1, <1>2 DEF Alone, Runs

LEMMA ClickAlone == ASSUME IInv, Alone, NEW h \in Handler, Click(h) PROVE Alone'
<1>1. PICK op \in {"select", "save", "delete"}, n \in Name \union {NoName}, v \in Value \union {NoName} :
        handler' = [handler EXCEPT ![h] = Begins(op, n, v)]
  <2>1. DOMAIN shown.profiles \subseteq Name /\ shown.active \in Name \union {NoName}
    BY StoreParts DEF IInv, Shape
  <2> QED BY <2>1 DEF Click, Typed
<1>2. Begins(op, n, v).at = "read" BY DEF Begins
<1>3. apart' => apart /\ \A x \in Handler : ~Runs(x) BY DEF Click
<1> HIDE DEF Begins
<1> QED BY <1>1, <1>2, <1>3, Restarts DEF Click

LEMMA FailsAlone ==
  ASSUME IInv, Alone, NEW h \in Handler, Runs(h), GivesUp(h), UNCHANGED <<told, apart, seen>>,
         file'.st = "none" => file.st = "none", file'.st = "whole" => file' = file
  PROVE  Alone'
BY IdleFacts, Restarts DEF GivesUp

LEMMA LoadAlone == ASSUME IInv, Alone, NEW h \in Handler, Load(h) PROVE Alone'
<1>3. CASE seen' = FALSE /\ UNCHANGED <<file, told>>
  BY <1>3 DEF Alone
<1>1. CASE GivesUp(h) /\ UNCHANGED seen
  BY <1>1, FailsAlone DEF Load
<1>2. ASSUME Readable(file), NEW pos \in At, UNCHANGED seen,
             handler' = [handler EXCEPT ![h].copy = Changes(h, file.store), ![h].at = pos]
      PROVE  Alone'
  <2>1. apart /\ seen => file.store = told
    BY <1>2, FileFacts DEF Alone, Readable, IInv, Shape
  <2>2. /\ \A x \in Handler : x # h => handler'[x] = handler[x]
        /\ handler'[h] = [handler[h] EXCEPT !.copy = Changes(h, file.store), !.at = pos]
    BY <1>2 DEF IInv, Shape
  <2>3. /\ handler'[h].todo = handler[h].todo /\ handler'[h].name = handler[h].name
        /\ handler'[h].value = handler[h].value
        /\ handler'[h].copy = Changes(h, file.store)
    BY <2>2 DEF IInv, Shape, HandlerType
  <2>4. apart /\ seen => Fresh(handler'[h], told)
    BY <2>1, <2>3 DEF Fresh, Changes, Command
  <2>5. \A x \in Handler : handler'[x].todo = handler[x].todo
    BY <2>2, <2>3
  <2> QED BY <2>2, <2>4, <2>5 DEF Load, Alone, Runs
<1> QED BY <1>1, <1>2, <1>3 DEF Load, Loads, At

LEMMA GotoFacts ==
  ASSUME IInv, NEW h \in Handler, NEW pos, MovesTo(h, pos)
  PROVE  /\ \A x \in Handler : x # h => handler'[x] = handler[x]
         /\ \A x \in Handler : handler'[x].todo = handler[x].todo
         /\ handler'[h].name = handler[h].name /\ handler'[h].value = handler[h].value
         /\ handler'[h].copy = handler[h].copy /\ handler'[h].at = pos
BY DEF MovesTo, IInv, Shape, HandlerType

LEMMA OpenAlone == ASSUME IInv, Alone, NEW h \in Handler, Open(h) PROVE Alone'
<1>1. CASE file' = NotWhole("empty") /\ MovesTo(h, "write")
  <2>1. file'.st = "empty" BY <1>1 DEF NotWhole
  <2>2. /\ \A x \in Handler : x # h => handler'[x] = handler[x]
        /\ \A x \in Handler : handler'[x].todo = handler[x].todo
    BY <1>1, GotoFacts
  <2>3. apart /\ seen => Fresh(handler'[h], told)
    BY <1>1, GotoFacts DEF Open, Alone, Fresh
  <2> QED BY <2>1, <2>2, <2>3 DEF Open, Alone, Runs
<1>2. CASE UNCHANGED file /\ GivesUp(h)
  BY <1>2, FailsAlone DEF Open
<1> QED BY <1>1, <1>2 DEF Open

LEMMA WriteAlone == ASSUME IInv, Alone, NEW h \in Handler, Write(h) PROVE Alone'
<1>1. CASE /\ file' \in {Whole(handler[h].copy), NotWhole("damaged")}
           /\ MovesTo(h, "answer") /\ told' = Changes(h, told)
  <2>1. file'.st \in {"whole", "damaged"} /\ (file'.st = "whole" => file'.store = handler[h].copy)
    BY <1>1 DEF Whole, NotWhole
  <2>2. apart /\ seen => handler[h].copy = told'
    BY <1>1 DEF Write, Alone, Fresh, Changes, Command
  <2>3. /\ \A x \in Handler : handler'[x].todo = handler[x].todo
        /\ handler'[h].at = "answer"
    BY <1>1, GotoFacts
  <2>4. \A x \in Handler : Runs(x)' = Runs(x)
    BY <2>3 DEF Runs
  <2>5. apart' /\ seen' => \A x \in Handler : Runs(x)' => x = h
    BY <2>4 DEF Write, Alone
  <2> QED BY <2>1, <2>2, <2>3, <2>4, <2>5 DEF Write, Alone
<1>2. CASE file' \in {file, NotWhole("damaged")} /\ GivesUp(h) /\ UNCHANGED told
  BY <1>2, FailsAlone DEF Write, NotWhole
<1> QED BY <1>1, <1>2 DEF Write

LEMMA AnswerAlone == ASSUME IInv, Alone, NEW h \in Handler, Answer(h) PROVE Alone'
<1> DEFINE c == handler[h]
           d == IF Len(c.todo) = 1 THEN Idle
                ELSE [c EXCEPT !.todo = Tail(@), !.at = "read", !.copy = Default]
<1>1. c \in HandlerType BY DEF IInv, Shape
<1>2. d.at = "read" BY <1>1, IdleFacts DEF HandlerType
<1>3. handler' = [handler EXCEPT ![h] = d] BY DEF Answer
<1> HIDE DEF d
<1> QED BY <1>2, <1>3, Restarts DEF Answer, history

LEMMA CrashAlone == Alone /\ Crash => Alone'
<1> SUFFICES ASSUME Alone, Crash PROVE Alone'
  OBVIOUS
<1>1. \A h \in Handler : Runs(h)' => Mounting(h)
  BY DEF Crash, Runs, Idle
<1>2. \A h \in Handler : handler'[h].at = "read"
  BY DEF Crash, Idle, Begins
<1>3. file' = file \/ file'.st = "damaged" BY DEF Crash, NotWhole
<1> QED BY <1>1, <1>2, <1>3 DEF Crash, Alone, Mounting, history
-----------------------------------------------------------------------------
(* What the dashboard shows, when handlers have not overlapped, nothing    *)
(* has failed and no file was taken for none.  With one handler at work    *)
(* the file f can be read again once its write is done, unless the app was *)
(* killed and has yet to load it; a list that was loaded is the store t;   *)
(* and what is shown, s, is ahead of the store by the choice that is yet   *)
(* to be saved.                                                            *)
ShowsFor(c, f, s, t) ==
  /\ Readable(f) \/ c.at = "write" \/ (c.op = "mount" /\ c.at = "read")
  /\ c.at = "write" => f = NotWhole("empty")
  /\ Head(c.todo) = "load" /\ c.at = "answer" => c.copy = t
  /\ c.todo = <<"set">> => s = IF c.at = "answer" THEN t ELSE [t EXCEPT !.active = c.name]

AtRest(f, s, t) == Readable(f) /\ s = t

Shows ==
  apart /\ seen /\ ~failed =>
    /\ (\A h \in Handler : ~Runs(h)) => AtRest(file, shown, told)
    /\ \A h \in Handler : Runs(h) => ShowsFor(handler[h], file, shown, told)

(* Only the handler that moves has to be looked at: no other one runs.     *)
LEMMA OneShows ==
  ASSUME IInv, NEW h \in Handler, NEW c, handler' = [handler EXCEPT ![h] = c],
         apart' /\ seen' /\ ~failed' =>
           /\ \A x \in Handler : x # h => ~Runs(x)
           /\ c.todo = <<>> => AtRest(file', shown', told')
           /\ c.todo # <<>> => ShowsFor(c, file', shown', told')
  PROVE  Shows'
<1>1. \A x \in Handler : handler'[x] = IF x = h THEN c ELSE handler[x]
  BY DEF IInv, Shape
<1>2. Runs(h)' <=> c.todo # <<>>
  BY <1>1 DEF Runs
<1>3. \A x \in Handler : x # h => (Runs(x)' <=> Runs(x))
  BY <1>1 DEF Runs
<1>4. ASSUME apart', seen', ~failed', \A x \in Handler : ~Runs(x)' PROVE AtRest(file', shown', told')
  BY <1>2, <1>4
<1>5. ASSUME apart', seen', ~failed', NEW x \in Handler, Runs(x)'
      PROVE  ShowsFor(handler'[x], file', shown', told')
  BY <1>1, <1>2, <1>3, <1>5
<1> QED BY <1>4, <1>5 DEF Shows

LEMMA OthersRest ==
  ASSUME Alone, NEW h \in Handler, Runs(h), apart, seen
  PROVE  \A x \in Handler : x # h => ~Runs(x)
BY DEF Alone

LEMMA ShowsInit == ProfilesInit => Shows
<1> SUFFICES ASSUME ProfilesInit PROVE Shows
  OBVIOUS
<1>1. file.st = "none" /\ shown = told BY DEF ProfilesInit, NotWhole
<1>2. ASSUME NEW h \in Handler, Runs(h) PROVE ShowsFor(handler[h], file, shown, told)
  <2>1. handler[h].todo = <<"load">> /\ handler[h].at = "read"
    BY <1>2 DEF ProfilesInit, Runs, Idle, Begins, Calls
  <2> QED BY <1>1, <2>1, ListFacts DEF ShowsFor, Readable
<1> QED BY <1>1, <1>2 DEF Shows, AtRest, Readable

LEMMA FailsShows == ASSUME NEW h \in Handler, GivesUp(h) PROVE Shows'
BY DEF GivesUp, Shows

LEMMA ClickShows == ASSUME IInv, Shows, NEW h \in Handler, Click(h) PROVE Shows'
<1>1. PICK op \in {"select", "save", "delete"}, n \in Name \union {NoName}, v \in Value \union {NoName} :
        /\ handler' = [handler EXCEPT ![h] = Begins(op, n, v)]
        /\ op = "select" => shown' = [shown EXCEPT !.active = n]
        /\ op # "select" => shown' = shown
  <2>1. DOMAIN shown.profiles \subseteq Name /\ shown.active \in Name \union {NoName}
    BY StoreParts DEF IInv, Shape
  <2> QED BY <2>1 DEF Click, Typed
<1> DEFINE c == Begins(op, n, v)
<1>2. c.op = op /\ c.name = n /\ c.at = "read" /\ c.todo = Calls[op]
  BY DEF Begins
<1>3. /\ op = "select" => c.todo = <<"set">>
      /\ op # "select" => c.todo # <<"set">>
      /\ c.todo # <<>>
  BY <1>2, ListFacts DEF Calls
<1>4. ASSUME apart', seen', ~failed'
      PROVE  /\ \A x \in Handler : x # h => ~Runs(x)
             /\ ShowsFor(c, file', shown', told')
  <2>1. (\A x \in Handler : ~Runs(x)) /\ AtRest(file, shown, told)
    BY <1>4 DEF Click, Shows
  <2> QED BY <1>1, <1>2, <1>3, <2>1 DEF Click, ShowsFor, AtRest
<1> HIDE DEF c
<1>5. handler' = [handler EXCEPT ![h] = c] BY <1>1 DEF c
<1> QED BY <1>3, <1>4, <1>5, OneShows

LEMMA LoadShows == ASSUME IInv, Alone, Shows, NEW h \in Handler, Load(h) PROVE Shows'
<1>3. CASE seen' = FALSE
  BY <1>3 DEF Shows
<1>1. CASE GivesUp(h)
  BY <1>1, FailsShows
<1>2. CASE /\ Readable(file)
           /\ handler' = [handler EXCEPT ![h].copy = Changes(h, file.store),
                                         ![h].at = IF Command(h) = "load" THEN "answer" ELSE "open"]
           /\ UNCHANGED <<failed, seen>>
  <2> DEFINE pos == IF Command(h) = "load" THEN "answer" ELSE "open"
             c   == [handler[h] EXCEPT !.copy = Changes(h, file.store), !.at = pos]
  <2>1. handler[h] \in HandlerType /\ handler[h].todo # <<>>
    BY DEF IInv, Shape, Load, Runs
  <2>2. /\ c.todo = handler[h].todo /\ c.name = handler[h].name /\ c.at = pos
        /\ c.copy = Changes(h, file.store)
    BY <2>1 DEF HandlerType
  <2>3. handler' = [handler EXCEPT ![h] = c]
    BY <1>2 DEF IInv, Shape
  <2>4. ASSUME apart, seen, ~failed
        PROVE  /\ \A x \in Handler : x # h => ~Runs(x)
               /\ ShowsFor(c, file, shown, told)
    <3>1. file.store = told
      BY <1>2, <2>4, FileFacts DEF Alone, Readable, IInv, Shape
    <3>2. Command(h) = "load" => Changes(h, file.store) = told
      BY <3>1 DEF Changes, Changed
    <3>3. ShowsFor(handler[h], file, shown, told)
      BY <2>4 DEF Load, Shows
    <3>4. c.todo = <<"set">> => c.at = "open" /\ handler[h].at = "read"
      BY <2>2, ListFacts DEF Load, Command
    <3> HIDE DEF c
    <3>5. Head(c.todo) = "load" /\ c.at = "answer" => c.copy = told
      BY <2>2, <3>2 DEF Command
    <3>6. c.todo = <<"set">> =>
            shown = IF c.at = "answer" THEN told ELSE [told EXCEPT !.active = c.name]
      BY <2>2, <3>3, <3>4 DEF ShowsFor
    <3>7. c.at # "write" BY <2>2
    <3>8. \A x \in Handler : x # h => ~Runs(x)
      BY <2>4, OthersRest DEF Load
    <3> QED BY <1>2, <3>5, <3>6, <3>7, <3>8 DEF ShowsFor
  <2> HIDE DEF c
  <2> QED BY <1>2, <2>1, <2>2, <2>3, <2>4, OneShows DEF Load
<1> QED BY <1>1, <1>2, <1>3 DEF Load, Loads

LEMMA OpenShows == ASSUME IInv, Alone, Shows, NEW h \in Handler, Open(h) PROVE Shows'
<1>1. CASE GivesUp(h)
  BY <1>1, FailsShows
<1>2. CASE file' = NotWhole("empty") /\ MovesTo(h, "write") /\ UNCHANGED failed
  <2> DEFINE c == [handler[h] EXCEPT !.at = "write"]
  <2>1. handler[h] \in HandlerType /\ handler[h].todo # <<>>
    BY DEF IInv, Shape, Open, Runs
  <2>2. c.todo = handler[h].todo /\ c.name = handler[h].name /\ c.at = "write"
    BY <2>1 DEF HandlerType
  <2>3. handler' = [handler EXCEPT ![h] = c]
    BY <1>2 DEF MovesTo, IInv, Shape
  <2>4. ASSUME apart, seen, ~failed
        PROVE  /\ \A x \in Handler : x # h => ~Runs(x)
               /\ ShowsFor(c, file', shown, told)
    <3>1. ShowsFor(handler[h], file, shown, told)
      BY <2>4 DEF Open, Shows
    <3>2. \A x \in Handler : x # h => ~Runs(x)
      BY <2>4, OthersRest DEF Open
    <3> HIDE DEF c
    <3> QED BY <1>2, <2>2, <3>1, <3>2 DEF Open, ShowsFor
  <2> HIDE DEF c
  <2> QED BY <1>2, <2>1, <2>2, <2>3, <2>4, OneShows DEF Open
<1> QED BY <1>1, <1>2 DEF Open

(* Alone, a write meets the file it has emptied and leaves it whole.       *)
LEMMA WriteShows == ASSUME IInv, Alone, Shows, NEW h \in Handler, Write(h) PROVE Shows'
<1>1. CASE GivesUp(h)
  BY <1>1, FailsShows
<1>2. CASE /\ \/ file' = Whole(handler[h].copy)
              \/ file \notin {NotWhole("empty"), Whole(handler[h].copy)}
           /\ MovesTo(h, "answer") /\ told' = Changes(h, told) /\ UNCHANGED failed
  <2> DEFINE c == [handler[h] EXCEPT !.at = "answer"]
  <2>1. handler[h] \in HandlerType /\ Fits(handler[h]) /\ handler[h].todo # <<>>
    BY DEF IInv, Shape, AllFit, Write, Runs
  <2>2. /\ c.todo = handler[h].todo /\ c.name = handler[h].name /\ c.at = "answer"
        /\ c.copy = handler[h].copy
    BY <2>1 DEF HandlerType
  <2>3. handler' = [handler EXCEPT ![h] = c]
    BY <1>2 DEF MovesTo, IInv, Shape
  <2>4. ASSUME apart, seen, ~failed
        PROVE  /\ \A x \in Handler : x # h => ~Runs(x)
               /\ ShowsFor(c, file', shown, told')
    <3>1. ShowsFor(handler[h], file, shown, told)
      BY <2>4 DEF Write, Shows
    <3>2. \A x \in Handler : x # h => ~Runs(x)
      BY <2>4, OthersRest DEF Write
    <3>3. file' = Whole(handler[h].copy)
      BY <1>2, <3>1 DEF Write, ShowsFor
    <3>4. Readable(file')
      BY <3>3 DEF Readable, Whole
    <3>5. handler[h].copy = told'
      BY <1>2, <2>4 DEF Write, Alone, Fresh, Changes, Command
    <3>6. handler[h].todo = <<"set">> => told' = [told EXCEPT !.active = handler[h].name]
      BY <1>2, ListFacts DEF Changes, Changed, Command
    <3>7. handler[h].todo = <<"set">> => shown = told'
      BY <3>1, <3>6 DEF Write, ShowsFor
    <3> HIDE DEF c
    <3> QED BY <2>2, <3>2, <3>4, <3>5, <3>7 DEF ShowsFor
  <2> HIDE DEF c
  <2> QED BY <1>2, <2>1, <2>2, <2>3, <2>4, OneShows DEF Write
<1> QED BY <1>1, <1>2 DEF Write

(* What is shown after a load is the store, but for a name just saved.     *)
LEMMA AnswerShows == ASSUME IInv, Alone, Shows, NEW h \in Handler, Answer(h) PROVE Shows'
<1> DEFINE c == handler[h]
           d == IF Len(c.todo) = 1 THEN Idle
                ELSE [c EXCEPT !.todo = Tail(@), !.at = "read", !.copy = Default]
<1>h. c \in HandlerType /\ Fits(c) /\ c.todo # <<>> /\ c.at = "answer"
  BY DEF IInv, Shape, AllFit, Answer, Runs
<1>t. told \in Store /\ told = [profiles |-> told.profiles, active |-> told.active]
  BY StoreParts DEF IInv, Shape
<1>1. /\ Len(c.todo) = 1 => d.todo = <<>>
      /\ Len(c.todo) # 1 => /\ d.todo = Tail(c.todo) /\ d.at = "read" /\ d.name = c.name
                            /\ d.op = c.op
  BY <1>h DEF HandlerType, Idle
<1>2. handler' = [handler EXCEPT ![h] = d] /\ file' = file /\ told' = told
      /\ apart' = apart /\ failed' = failed /\ seen' = seen
  BY DEF Answer, history
<1>3. /\ Command(h) # "load" => shown' = shown
      /\ Command(h) = "load" =>
           shown' = [profiles |-> c.copy.profiles,
                     active   |-> IF c.op = "save" THEN c.name
                                  ELSE IF c.op \in {"mount", "delete"} THEN c.copy.active
                                  ELSE shown.active]
  BY DEF Answer, ActiveShown
<1> HIDE DEF d
<1>4. ASSUME apart, seen, ~failed
      PROVE  /\ \A x \in Handler : x # h => ~Runs(x)
             /\ d.todo = <<>> => AtRest(file, shown', told)
             /\ d.todo # <<>> => ShowsFor(d, file, shown', told)
  <2>1. ShowsFor(c, file, shown, told)
    BY <1>4 DEF Answer, Shows
  <2>2. \A x \in Handler : x # h => ~Runs(x)
    BY <1>4, OthersRest DEF Answer
  <2>3. Readable(file)
    BY <1>h, <2>1 DEF ShowsFor
  <2>4. Command(h) = "load" => c.copy = told
    BY <1>h, <2>1 DEF ShowsFor, Command
  <2>5. CASE c.todo = <<"load">>
    <3>1. c.op \in {"mount", "delete"} /\ Command(h) = "load" /\ Len(c.todo) = 1
      BY <1>h, <2>5, ListFacts DEF Fits, Command
    <3> QED BY <1>1, <1>3, <1>t, <2>2, <2>3, <2>4, <3>1 DEF AtRest
  <2>6. CASE c.todo = <<"set">>
    <3>1. Command(h) = "set" /\ Len(c.todo) = 1
      BY <2>6, ListFacts DEF Command
    <3>2. shown' = told
      BY <1>h, <1>3, <2>1, <2>6, <3>1 DEF ShowsFor
    <3> QED BY <1>1, <2>2, <2>3, <3>1, <3>2 DEF AtRest
  <2>7. CASE c.todo = <<"load", "set">>
    <3>1. c.op = "save" /\ Command(h) = "load" /\ Len(c.todo) = 2 /\ d.todo = <<"set">>
      BY <1>h, <1>1, <2>7, ListFacts DEF Fits, Command
    <3>2. shown' = [profiles |-> told.profiles, active |-> c.name]
      BY <1>3, <2>4, <3>1
    <3>3. [told EXCEPT !.active = c.name] = [profiles |-> told.profiles, active |-> c.name]
      BY <1>t
    <3>4. d.at = "read" /\ d.name = c.name
      BY <1>1, <3>1
    <3> QED BY <2>2, <2>3, <3>1, <3>2, <3>3, <3>4, ListFacts DEF ShowsFor
  <2>8. CASE c.todo \in {<<"save", "load", "set">>, <<"delete", "load">>}
    <3>1. Len(c.todo) # 1 /\ d.todo = Tail(c.todo)
      BY <1>1, <2>8
    <3>2. d.todo \in {<<"load", "set">>, <<"load">>} /\ d.at = "read"
      BY <1>1, <2>8, <3>1, ListFacts
    <3>3. d.todo # <<>> /\ d.todo # <<"set">>
      BY <3>2
    <3> QED BY <2>2, <2>3, <3>2, <3>3 DEF ShowsFor
  <2> QED BY <1>h, <2>5, <2>6, <2>7, <2>8 DEF Fits
<1> HIDE DEF c
<1> QED BY <1>2, <1>4, OneShows

LEMMA CrashShows == Shows /\ Crash => Shows'
<1> SUFFICES ASSUME Crash PROVE Shows'
  OBVIOUS
<1>1. ASSUME NEW h \in Handler, Runs(h)' PROVE ShowsFor(handler'[h], file', shown', told')
  <2>1. /\ handler'[h].todo = <<"load">> /\ handler'[h].at = "read"
        /\ handler'[h].op = "mount"
    BY <1>1 DEF Crash, Runs, Idle, Begins, Calls
  <2> QED BY <2>1, ListFacts DEF ShowsFor
<1>2. PICK h \in Handler : Runs(h)'
  <2>1. PICK h \in Handler : Mounting(h)
    BY HandlerAssumption DEF Mounting
  <2>2. handler'[h].todo = <<"load">>
    BY <2>1 DEF Crash, Begins, Calls
  <2> QED BY <2>2, ListFacts DEF Lists, Runs
<1> QED BY <1>1, <1>2 DEF Shows

LEMMA AloneInductive == ProfilesSpec => [](Alone /\ Shows)
<1>1. IInv /\ Alone /\ Shows /\ [ProfilesNext]_profileVars => (Alone /\ Shows)'
  <2> SUFFICES ASSUME IInv, Alone, Shows, [ProfilesNext]_profileVars
               PROVE  (Alone /\ Shows)'
    OBVIOUS
  <2>1. CASE UNCHANGED profileVars
    BY <2>1 DEF profileVars, history, bounds, Alone, Shows, Runs
  <2>2. ASSUME NEW h \in Handler, Click(h) \/ Load(h) \/ Open(h) \/ Write(h) \/ Answer(h)
        PROVE  (Alone /\ Shows)'
    BY <2>2, ClickAlone, LoadAlone, OpenAlone, WriteAlone, AnswerAlone,
       ClickShows, LoadShows, OpenShows, WriteShows, AnswerShows
  <2> QED BY <2>1, <2>2, CrashAlone, CrashShows DEF ProfilesNext
<1> QED BY AloneInit, ShowsInit, Inductive, <1>1, PTL DEF ProfilesSpec

(* As long as handlers do not overlap, and no file that is there is taken  *)
(* for none, a file that can be read is exactly what the writes have       *)
(* changed, whatever else fails or is cut off.                             *)
THEOREM AloneExact == ProfilesSpec => []AloneIsExact
<1>1. Alone => AloneIsExact BY DEF Alone, AloneIsExact
<1> QED BY AloneInductive, <1>1, PTL

(* When nothing has failed either, the dashboard at rest shows what the    *)
(* file holds, wherever the app was killed and started again.              *)
THEOREM ShownExact == ProfilesSpec => []ShownIsStored
<1>1. IInv /\ Alone /\ Shows => ShownIsStored
  <2> SUFFICES ASSUME IInv, Alone, Shows, apart, seen, ~failed, \A h \in Handler : ~Runs(h)
               PROVE  file.st \in {"none", "whole"} /\ shown = file.store
    BY DEF ShownIsStored
  <2>1. Readable(file) /\ shown = told
    BY DEF Shows, AtRest
  <2>2. file.store = told
    BY <2>1, FileFacts DEF Readable, Alone, IInv, Shape
  <2> QED BY <2>1, <2>2 DEF Readable
<1> QED BY Inductive, AloneInductive, <1>1, PTL
=============================================================================
