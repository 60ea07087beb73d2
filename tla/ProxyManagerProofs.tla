-------------------------- MODULE ProxyManagerProofs --------------------------
(***************************************************************************)
(* Proofs about the management of the proxy process, for any number of     *)
(* runs, of pongs and of status events under way.                          *)
(***************************************************************************)
EXTENDS ProxyManager, SequenceTheorems, TLAPS

RunState == [child : {"none", "up", "dead"}, killed : BOOLEAN,
             read : Run \union {NoRun}, pongs : 0..MaxPong,
             pipe : 0..MaxPong, cancel : BOOLEAN,
             log : {"off", "run", "done"}, exit : {"off", "run", "done"},
             emit : {"off", "run", "done"}, conn : BOOLEAN]

CmdState == [pc : {"idle", "call", "remove", "kill", "stopped", "written", "spawned"},
             op : {"none", "start", "stop"}, run : Run \union {NoRun}]

(***************************************************************************)
(* The inductive invariant.  A record that has no child yet is untouched;  *)
(* a log task that was not cancelled ends by clearing the connection.      *)
(***************************************************************************)
RecordOK(x) ==
  /\ x.child = "none" => x = NewRun
  /\ x.pipe <= x.pongs
  /\ x.log = "done" /\ ~x.cancel => ~x.conn

(* Where the command stands, as the mutex makes it: a start that has       *)
(* stopped what ran finds the state empty until it fills it.               *)
CmdOK ==
  /\ cmd.pc = "idle" <=> cmd.op = "none"
  /\ cmd.op = "none" => cmd = Idle
  /\ cmd.op = "stop" => cmd.pc \in {"call", "remove", "kill", "stopped"}
  /\ cmd.pc \in {"stopped", "written", "spawned"} => inner = NoRun

(* The run a start is about: untouched until it is spawned, and then not   *)
(* yet watched; the key file is its own from the write on.                 *)
Fresh(x) == ~x.killed /\ ~x.cancel /\ x.log = "off" /\ ~x.conn

StarterOK ==
  cmd.op = "start" =>
    /\ cmd.pc # "spawned" => run[cmd.run] = NewRun
    /\ cmd.pc = "spawned" => run[cmd.run].child # "none" /\ Fresh(run[cmd.run])
    /\ cmd.pc \in {"written", "spawned"} => file = cmd.run

(* The running proxy was not signalled, and is cancelled and loses its key *)
(* file only on the way to being killed.                                   *)
HolderOK ==
  inner # NoRun =>
    /\ run[inner].child # "none" /\ ~run[inner].killed
    /\ run[inner].cancel <=> cmd.pc \in {"remove", "kill"}
    /\ file = IF cmd.pc = "kill" THEN NoRun ELSE inner

LooseOK ==
  \A r \in Run : Loose(r) =>
    /\ inner = r \/ (cmd.pc = "spawned" /\ cmd.run = r)
    /\ run[r].read \in {NoRun, r}

IInv ==
  /\ TypeOK
  /\ \A r \in Run : RecordOK(run[r])
  /\ CmdOK /\ StarterOK /\ HolderOK /\ LooseOK
-----------------------------------------------------------------------------
LEMMA Types ==
  ASSUME IInv
  PROVE  /\ run \in [Run -> RunState] /\ cmd \in CmdState
         /\ inner \in Run \union {NoRun} /\ file \in Run \union {NoRun}
         /\ shown \in State /\ events \in Seq(State) /\ Len(events) <= MaxEvents
         /\ answer \in State \union {"none"}
         /\ cmd.op = "start" => cmd.run \in Run
  BY DEF IInv, TypeOK, RunState, CmdState

LEMMA NewRunType == NewRun \in RunState /\ RecordOK(NewRun) /\ Fresh(NewRun)
  BY BoundAssumption DEF NewRun, RunState, RecordOK, Fresh

(* What the dashboard and its events may do.                               *)
LEMMA DashboardStep ==
  ASSUME IInv, UNCHANGED <<cmd, inner, file, run>>,
         shown' \in State, events' \in Seq(State), Len(events') <= MaxEvents,
         answer' \in State \union {"none"}
  PROVE  IInv'
  BY DEF IInv, TypeOK, CmdOK, StarterOK, HolderOK, LooseOK, Loose, RecordOK

(***************************************************************************)
(* What the child and the tasks of a run may do to its record and keep the *)
(* invariant: nothing before there is a child, no revival, no new tasks,   *)
(* no signal, no cancellation, and reading no other run's key.             *)
(***************************************************************************)
LEMMA RunStep ==
  ASSUME IInv, NEW r \in Run, NEW x \in RunState, run' = [run EXCEPT ![r] = x],
         UNCHANGED <<cmd, inner, file, shown, events, answer>>,
         RecordOK(x), run[r].child # "none", x.child # "none",
         x.child = "up" => run[r].child = "up",
         x.killed = run[r].killed, x.cancel = run[r].cancel,
         Fresh(run[r]) => Fresh(x),
         x.read = run[r].read \/ (Loose(r) => x.read \in {NoRun, r})
  PROVE  IInv'
  <1>1. /\ run \in [Run -> RunState] /\ cmd \in CmdState
        /\ inner \in Run \union {NoRun}
        /\ cmd.op = "start" => cmd.run \in Run
    BY Types
  <1>2. \A u \in Run : run'[u] = IF u = r THEN x ELSE run[u]
    BY <1>1
  <1>3. TypeOK'
    <2>1. run' \in [Run -> RunState]
      BY <1>1
    <2> QED
      BY <2>1 DEF IInv, TypeOK, RunState
  <1>4. \A u \in Run : RecordOK(run'[u])
    BY <1>2 DEF IInv
  <1>5. CmdOK'
    BY DEF IInv, CmdOK
  <1>6. StarterOK'
    <2> SUFFICES ASSUME cmd.op = "start"
                 PROVE  /\ cmd.pc # "spawned" => run'[cmd.run] = NewRun
                        /\ cmd.pc = "spawned" => /\ run'[cmd.run].child # "none"
                                                 /\ Fresh(run'[cmd.run])
                        /\ cmd.pc \in {"written", "spawned"} => file = cmd.run
      BY DEF StarterOK
    <2>1. cmd.run \in Run
      BY <1>1
    <2>s. StarterOK
      BY DEF IInv
    <2>2. NewRun.child = "none"
      BY DEF NewRun
    <2> QED
      BY <1>2, <2>1, <2>s, <2>2 DEF StarterOK
  <1>7. HolderOK'
    BY <1>1, <1>2 DEF IInv, HolderOK
  <1>8. LooseOK'
    <2> SUFFICES ASSUME NEW u \in Run, run'[u].child = "up" /\ ~run'[u].killed
                 PROVE  /\ inner = u \/ (cmd.pc = "spawned" /\ cmd.run = u)
                        /\ run'[u].read \in {NoRun, u}
      BY DEF LooseOK, Loose
    <2>1. Loose(u)
      BY <1>2 DEF Loose
    <2> QED
      BY <1>2, <2>1 DEF IInv, LooseOK
  <1> QED
    BY <1>3, <1>4, <1>5, <1>6, <1>7, <1>8 DEF IInv

(* A child that is loose finds its own key: the file is the running        *)
(* proxy's until it is on the way to being killed.                         *)
LEMMA LooseReads ==
  ASSUME IInv, NEW r \in Run, Loose(r), file # NoRun \/ ~run[r].cancel
  PROVE  file = r
  <1>1. inner = r \/ (cmd.pc = "spawned" /\ cmd.run = r)
    BY DEF IInv, LooseOK
  <1>2. CASE inner = r
    <2>1. inner # NoRun
      BY <1>2, RunAssumption
    <2>2. cmd.pc = "kill" => run[r].cancel
      BY <1>2, <2>1 DEF IInv, HolderOK
    <2>3. cmd.pc # "kill" => file = r
      BY <1>2, <2>1 DEF IInv, HolderOK
    <2>4. cmd.pc = "kill" => file = NoRun
      BY <2>1 DEF IInv, HolderOK
    <2> QED
      BY <2>2, <2>3, <2>4, Zenon
  <1>3. CASE cmd.pc = "spawned" /\ cmd.run = r
    <2>1. cmd.op = "start"
      BY <1>3, Types DEF IInv, CmdOK, CmdState
    <2> QED
      BY <1>3, <2>1 DEF IInv, StarterOK
  <1> QED
    BY <1>1, <1>2, <1>3
-----------------------------------------------------------------------------
(* The child and the tasks. *)
LEMMA ChildInv ==
  ASSUME IInv, NEW r \in Run, Child(r)
  PROVE  IInv'
  <1>1. /\ run \in [Run -> RunState] /\ run[r] \in RunState /\ RecordOK(run[r])
        /\ file \in Run \union {NoRun}
    BY Types DEF IInv
  <1>2. CASE (ReadsKey(r) /\ file = NoRun) \/ Exits(r)
    <2> DEFINE x == [run[r] EXCEPT !.child = "dead"]
    <2>1. /\ run' = [run EXCEPT ![r] = x] /\ run[r].child = "up"
          /\ UNCHANGED <<cmd, inner, file, shown, events, answer>>
      BY <1>1, <1>2 DEF ReadsKey, Exits
    <2>2. /\ x \in RunState /\ x.child = "dead" /\ x.killed = run[r].killed
          /\ x.cancel = run[r].cancel /\ x.log = run[r].log /\ x.conn = run[r].conn
          /\ x.read = run[r].read /\ x.pipe = run[r].pipe /\ x.pongs = run[r].pongs
      BY <1>1 DEF RunState
    <2> HIDE DEF x
    <2>3. RecordOK(x) /\ (Fresh(run[r]) => Fresh(x))
      BY <1>1, <2>1, <2>2 DEF RecordOK, Fresh
    <2> QED
      BY <2>1, <2>2, <2>3, RunStep
  <1>3. CASE ReadsKey(r) /\ file # NoRun
    <2> DEFINE x == [run[r] EXCEPT !.read = file]
    <2>1. /\ run' = [run EXCEPT ![r] = x] /\ run[r].child = "up"
          /\ UNCHANGED <<cmd, inner, file, shown, events, answer>>
      BY <1>1, <1>3 DEF ReadsKey
    <2>2. /\ x \in RunState /\ x.child = "up" /\ x.killed = run[r].killed
          /\ x.cancel = run[r].cancel /\ x.log = run[r].log /\ x.conn = run[r].conn
          /\ x.read = file /\ x.pipe = run[r].pipe /\ x.pongs = run[r].pongs
      BY <1>1, <2>1 DEF RunState
    <2> HIDE DEF x
    <2>3. RecordOK(x) /\ (Fresh(run[r]) => Fresh(x))
      BY <1>1, <2>1, <2>2 DEF RecordOK, Fresh
    <2>4. Loose(r) => x.read \in {NoRun, r}
      BY <1>3, <2>2, LooseReads
    <2> QED
      BY <2>1, <2>2, <2>3, <2>4, RunStep
  <1>4. CASE Pongs(r)
    <2> DEFINE x == [run[r] EXCEPT !.pongs = @ + 1, !.pipe = @ + 1]
    <2>1. /\ run' = [run EXCEPT ![r] = x] /\ run[r].child = "up"
          /\ UNCHANGED <<cmd, inner, file, shown, events, answer>>
      BY <1>1, <1>4 DEF Pongs
    <2>2. /\ run[r].pongs + 1 \in 0..MaxPong /\ run[r].pipe + 1 \in 0..MaxPong
          /\ run[r].pipe + 1 <= run[r].pongs + 1
      BY <1>1, <1>4, BoundAssumption DEF Pongs, RecordOK, RunState
    <2>3. /\ x \in RunState /\ x.child = "up" /\ x.killed = run[r].killed
          /\ x.cancel = run[r].cancel /\ x.log = run[r].log /\ x.conn = run[r].conn
          /\ x.read = run[r].read /\ x.pipe = run[r].pipe + 1
          /\ x.pongs = run[r].pongs + 1
      BY <1>1, <2>1, <2>2 DEF RunState
    <2> HIDE DEF x
    <2>4. RecordOK(x) /\ (Fresh(run[r]) => Fresh(x))
      BY <1>1, <2>1, <2>2, <2>3 DEF RecordOK, Fresh
    <2> QED
      BY <2>1, <2>3, <2>4, RunStep
  <1> QED
    BY <1>2, <1>3, <1>4 DEF Child, ReadsKey

LEMMA TaskInv ==
  ASSUME IInv, NEW r \in Run, Log(r) \/ ExitSeen(r) \/ Cancelled(r)
  PROVE  IInv'
  <1>1. run \in [Run -> RunState] /\ run[r] \in RunState /\ RecordOK(run[r])
    BY Types DEF IInv
  <1>2. UNCHANGED <<cmd, inner, file, shown, events, answer>>
    BY DEF Log, LogLine, LogEof, ExitSeen, Cancelled
  <1>3. ASSUME NEW x \in RunState, run' = [run EXCEPT ![r] = x], run[r] # NewRun,
               x.child = run[r].child, x.killed = run[r].killed,
               x.cancel = run[r].cancel, x.read = run[r].read,
               x.pipe <= x.pongs, x.log = "done" /\ ~x.cancel => ~x.conn,
               Fresh(run[r]) => Fresh(x)
        PROVE  IInv'
    <2>1. run[r].child # "none"
      BY <1>1, <1>3 DEF RecordOK
    <2>2. RecordOK(x)
      BY <1>3, <2>1 DEF RecordOK
    <2> QED
      BY <1>2, <1>3, <2>1, <2>2, RunStep
  <1>4. CASE LogLine(r)
    <2> DEFINE x == [run[r] EXCEPT !.pipe = @ - 1, !.conn = TRUE]
    <2>1. run' = [run EXCEPT ![r] = x] /\ run[r].log = "run" /\ run[r].pipe > 0
      BY <1>1, <1>4 DEF LogLine
    <2>2. run[r] # NewRun /\ ~Fresh(run[r])
      BY <2>1 DEF NewRun, Fresh
    <2>3. run[r].pipe - 1 \in 0..MaxPong /\ run[r].pipe - 1 <= run[r].pongs
      BY <1>1, <2>1, BoundAssumption DEF RecordOK, RunState
    <2>4. /\ x \in RunState /\ x.child = run[r].child /\ x.killed = run[r].killed
          /\ x.cancel = run[r].cancel /\ x.read = run[r].read
          /\ x.pipe = run[r].pipe - 1 /\ x.pongs = run[r].pongs /\ x.log = "run"
      BY <1>1, <2>1, <2>3 DEF RunState
    <2> HIDE DEF x
    <2> QED
      BY <1>3, <2>1, <2>2, <2>3, <2>4
  <1>5. CASE LogEof(r)
    <2> DEFINE x == [run[r] EXCEPT !.log = "done", !.conn = FALSE]
    <2>1. run' = [run EXCEPT ![r] = x] /\ run[r].log = "run"
      BY <1>1, <1>5 DEF LogEof, AfterEof
    <2>2. run[r] # NewRun /\ ~Fresh(run[r])
      BY <2>1 DEF NewRun, Fresh
    <2>3. /\ x \in RunState /\ x.child = run[r].child /\ x.killed = run[r].killed
          /\ x.cancel = run[r].cancel /\ x.read = run[r].read
          /\ x.pipe = run[r].pipe /\ x.pongs = run[r].pongs /\ ~x.conn
      BY <1>1, <2>1 DEF RunState
    <2> HIDE DEF x
    <2>4. x.pipe <= x.pongs
      BY <1>1, <2>3 DEF RecordOK
    <2> QED
      BY <1>3, <2>1, <2>2, <2>3, <2>4
  <1>6. CASE ExitSeen(r)
    <2> DEFINE x == [run[r] EXCEPT !.exit = "done", !.conn = FALSE]
    <2>1. run' = [run EXCEPT ![r] = x] /\ run[r].exit = "run"
      BY <1>1, <1>6 DEF ExitSeen
    <2>2. run[r] # NewRun
      BY <2>1 DEF NewRun
    <2>3. /\ x \in RunState /\ x.child = run[r].child /\ x.killed = run[r].killed
          /\ x.cancel = run[r].cancel /\ x.read = run[r].read /\ x.log = run[r].log
          /\ x.pipe = run[r].pipe /\ x.pongs = run[r].pongs /\ x.conn = FALSE
      BY <1>1, <2>1 DEF RunState
    <2> HIDE DEF x
    <2>4. x.pipe <= x.pongs /\ (Fresh(run[r]) => Fresh(x))
      BY <1>1, <2>3 DEF RecordOK, Fresh
    <2> QED
      BY <1>3, <2>1, <2>2, <2>3, <2>4
  <1>7. CASE Cancelled(r)
    <2>1. PICK lg, ex, em \in {"off", "run", "done"} :
            run' = [run EXCEPT ![r] = [run[r] EXCEPT !.log = lg, !.exit = ex, !.emit = em]]
      <3>1. run[r].log \in {"off", "run", "done"} /\ run[r].exit \in {"off", "run", "done"}
            /\ run[r].emit \in {"off", "run", "done"}
        BY <1>1 DEF RunState
      <3>2. /\ [run[r] EXCEPT !.log = "done"] =
                 [run[r] EXCEPT !.log = "done", !.exit = run[r].exit, !.emit = run[r].emit]
            /\ [run[r] EXCEPT !.exit = "done"] =
                 [run[r] EXCEPT !.log = run[r].log, !.exit = "done", !.emit = run[r].emit]
            /\ [run[r] EXCEPT !.emit = "done"] =
                 [run[r] EXCEPT !.log = run[r].log, !.exit = run[r].exit, !.emit = "done"]
        BY <1>1 DEF RunState
      <3>3. CASE run' = [run EXCEPT ![r].log = "done"]
        BY <3>1, <3>2, <3>3
      <3>4. CASE run' = [run EXCEPT ![r].exit = "done"]
        BY <3>1, <3>2, <3>4
      <3>5. CASE run' = [run EXCEPT ![r].emit = "done"]
        BY <3>1, <3>2, <3>5
      <3> QED
        BY <1>7, <3>3, <3>4, <3>5 DEF Cancelled
    <2> DEFINE x == [run[r] EXCEPT !.log = lg, !.exit = ex, !.emit = em]
    <2>2. run[r].cancel
      BY <1>7 DEF Cancelled
    <2>3. run[r] # NewRun /\ ~Fresh(run[r])
      BY <2>2 DEF NewRun, Fresh
    <2>4. /\ x \in RunState /\ x.child = run[r].child /\ x.killed = run[r].killed
          /\ x.cancel = run[r].cancel /\ x.read = run[r].read
          /\ x.pipe = run[r].pipe /\ x.pongs = run[r].pongs
      BY <1>1 DEF RunState
    <2>5. run' = [run EXCEPT ![r] = x]
      BY <2>1
    <2> HIDE DEF x
    <2>6. x.pipe <= x.pongs
      BY <1>1, <2>4 DEF RecordOK
    <2> QED
      BY <1>3, <2>2, <2>3, <2>4, <2>5, <2>6
  <1> QED
    BY <1>4, <1>5, <1>6, <1>7 DEF Log

(* The dashboard takes what it is sent and asks for more.                  *)
LEMMA DashboardInv ==
  ASSUME IInv, (\E r \in Run : Tick(r)) \/ TakesEvent \/ GetStatus \/ TakesAnswer
               \/ UNCHANGED vars
  PROVE  IInv'
  <1>1. /\ shown \in State /\ events \in Seq(State) /\ Len(events) <= MaxEvents
        /\ answer \in State \union {"none"}
    BY Types
  <1>2. \A r : Status(r) \in State
    BY DEF Status, State
  <1>3. CurrentStatus \in State
    BY <1>2 DEF CurrentStatus, State
  <1>4. ASSUME NEW r \in Run, Tick(r)
        PROVE  IInv'
    <2>1. events' \in Seq(State) /\ Len(events') <= MaxEvents
      <3>1. events' = Append(events, Status(r)) /\ Len(events) < MaxEvents
        BY <1>4 DEF Tick
      <3>2. events' \in Seq(State) /\ Len(events') = Len(events) + 1
        BY <1>1, <1>2, <3>1, AppendProperties
      <3> QED
        BY <1>1, <3>1, <3>2, BoundAssumption
    <2> QED
      BY <1>1, <1>4, <2>1, DashboardStep DEF Tick
  <1>5. CASE TakesEvent
    <2>1. /\ shown' \in State /\ events' \in Seq(State) /\ Len(events') = Len(events) - 1
      BY <1>1, <1>5, HeadTailProperties DEF TakesEvent
    <2>2. Len(events') <= MaxEvents
      BY <1>1, <2>1, BoundAssumption
    <2> QED
      BY <1>1, <1>5, <2>1, <2>2, DashboardStep DEF TakesEvent
  <1>6. CASE GetStatus
    BY <1>1, <1>3, <1>6, DashboardStep DEF GetStatus
  <1>7. CASE TakesAnswer
    BY <1>1, <1>7, DashboardStep DEF TakesAnswer
  <1>8. CASE UNCHANGED vars
    BY <1>1, <1>8, DashboardStep DEF vars
  <1> QED
    BY <1>4, <1>5, <1>6, <1>7, <1>8
-----------------------------------------------------------------------------
(* The commands. *)

(* A click finds no command under way; a start picks an untouched run.     *)
LEMMA ClickInv ==
  ASSUME IInv, ClickStart \/ ClickStop
  PROVE  IInv'
  <1>1. /\ cmd = Idle /\ cmd'.pc = "call"
        /\ UNCHANGED <<inner, file, run, shown, events, answer>>
        /\ \/ cmd'.op = "start" /\ cmd'.run \in Run /\ run[cmd'.run] = NewRun
           \/ cmd'.op = "stop" /\ cmd'.run = NoRun
        /\ cmd' \in CmdState
    BY DEF ClickStart, ClickStop, CmdState
  <1>2. cmd.pc = "idle" /\ cmd.op = "none"
    BY <1>1 DEF Idle
  <1>3. TypeOK'
    BY <1>1 DEF IInv, TypeOK, CmdState
  <1>4. \A r \in Run : RecordOK(run'[r])
    BY <1>1 DEF IInv
  <1>5. CmdOK'
    BY <1>1 DEF CmdOK
  <1>6. StarterOK'
    BY <1>1 DEF StarterOK
  <1>7. HolderOK' /\ LooseOK'
    BY <1>1, <1>2 DEF IInv, HolderOK, LooseOK, Loose
  <1> QED
    BY <1>3, <1>4, <1>5, <1>6, <1>7 DEF IInv

(* A command moves on: what a step that changes no run may do.             *)
LEMMA CommandStep ==
  ASSUME IInv, UNCHANGED <<run, shown, events, answer>>,
         cmd' \in CmdState, inner' \in Run \union {NoRun}, file' \in Run \union {NoRun},
         cmd'.pc \in {"remove", "kill"} => inner' # NoRun,
         cmd'.op = "start" => cmd'.run \in Run,
         CmdOK', StarterOK', HolderOK', LooseOK'
  PROVE  IInv'
  <1>1. TypeOK'
    BY DEF IInv, TypeOK, CmdState
  <1> QED
    BY <1>1 DEF IInv

LEMMA TakeInv ==
  ASSUME IInv, Take
  PROVE  IInv'
  <1>1. /\ run \in [Run -> RunState] /\ cmd \in CmdState
        /\ inner \in Run \union {NoRun} /\ file \in Run \union {NoRun}
        /\ CmdOK /\ StarterOK /\ HolderOK /\ LooseOK
        /\ cmd.op = "start" => cmd.run \in Run
    BY Types DEF IInv
  <1>2. cmd.op \in {"start", "stop"} /\ cmd.pc = "call"
    BY <1>1 DEF Take, CmdOK, CmdState
  <1>3. CASE inner # NoRun
    <2> DEFINE x == [run[inner] EXCEPT !.cancel = TRUE]
    <2>1. /\ run' = [run EXCEPT ![inner] = x] /\ cmd' = [cmd EXCEPT !.pc = "remove"]
          /\ UNCHANGED <<inner, file, shown, events, answer>>
      BY <1>1, <1>2, <1>3 DEF Take, Running, StopsFirst, Goto
    <2>2. run[inner] \in RunState /\ RecordOK(run[inner]) /\ inner \in Run
      BY <1>1, <1>3 DEF IInv
    <2>3. /\ x \in RunState /\ x.child = run[inner].child /\ x.cancel
          /\ x.killed = run[inner].killed /\ x.read = run[inner].read
          /\ x.pipe = run[inner].pipe /\ x.pongs = run[inner].pongs
      BY <2>2 DEF RunState
    <2> HIDE DEF x
    <2>4. run[inner].child # "none" /\ ~run[inner].killed /\ file = inner
      BY <1>1, <1>2, <1>3 DEF HolderOK
    <2>5. RecordOK(x)
      BY <2>2, <2>3, <2>4 DEF RecordOK
    <2>6. /\ cmd' \in CmdState /\ cmd'.pc = "remove" /\ cmd'.op = cmd.op
          /\ cmd'.run = cmd.run
      BY <1>1, <2>1 DEF CmdState
    <2>7. \A r \in Run : run'[r] = IF r = inner THEN x ELSE run[r]
      BY <1>1, <2>1
    <2>8. TypeOK'
      <3>1. run' \in [Run -> RunState]
        BY <1>1, <2>1, <2>3
      <3> QED
        BY <1>1, <1>3, <2>1, <2>6, <3>1 DEF IInv, TypeOK, CmdState, RunState
    <2>9. \A r \in Run : RecordOK(run'[r])
      BY <2>5, <2>7 DEF IInv
    <2>10. CmdOK'
      BY <1>2, <2>6 DEF CmdOK
    <2>11. StarterOK'
      <3>1. cmd.op = "start" => cmd.run \in Run /\ run[cmd.run] = NewRun /\ cmd.run # inner
        BY <1>1, <1>2, <2>4 DEF StarterOK, NewRun
      <3> QED
        BY <2>6, <2>7, <3>1 DEF StarterOK
    <2>12. HolderOK'
      BY <1>3, <2>1, <2>2, <2>3, <2>4, <2>6, <2>7 DEF HolderOK
    <2>13. LooseOK'
      BY <1>1, <1>2, <2>1, <2>3, <2>7 DEF LooseOK, Loose
    <2> QED
      BY <2>8, <2>9, <2>10, <2>11, <2>12, <2>13 DEF IInv
  <1>4. CASE inner = NoRun
    <2>1. /\ cmd' = [cmd EXCEPT !.pc = "stopped"]
          /\ UNCHANGED <<run, inner, file, shown, events, answer>>
      BY <1>4 DEF Take, Running, Goto
    <2>2. /\ cmd' \in CmdState /\ cmd'.pc = "stopped" /\ cmd'.op = cmd.op
          /\ cmd'.run = cmd.run
      BY <1>1, <2>1 DEF CmdState
    <2>3. CmdOK'
      BY <1>2, <1>4, <2>1, <2>2 DEF CmdOK
    <2>4. StarterOK'
      BY <1>1, <1>2, <2>1, <2>2 DEF StarterOK
    <2>5. HolderOK' /\ LooseOK'
      BY <1>1, <1>2, <1>4, <2>1, <2>2 DEF HolderOK, LooseOK, Loose
    <2> QED
      BY <1>1, <2>1, <2>2, <2>3, <2>4, <2>5, CommandStep
  <1> QED
    BY <1>3, <1>4

LEMMA RemoveInv ==
  ASSUME IInv, RemoveKeyFile
  PROVE  IInv'
  <1>1. /\ cmd \in CmdState /\ inner \in Run \union {NoRun}
        /\ CmdOK /\ StarterOK /\ HolderOK /\ LooseOK
        /\ cmd.op = "start" => cmd.run \in Run
    BY Types DEF IInv
  <1>2. /\ cmd.pc = "remove" /\ cmd' = [cmd EXCEPT !.pc = "kill"] /\ file' = NoRun
        /\ UNCHANGED <<run, inner, shown, events, answer>> /\ inner # NoRun
    BY DEF RemoveKeyFile, Goto, IInv, TypeOK
  <1>3. /\ cmd' \in CmdState /\ cmd'.pc = "kill" /\ cmd'.op = cmd.op
        /\ cmd'.run = cmd.run
    BY <1>1, <1>2 DEF CmdState
  <1>4. CmdOK' /\ StarterOK'
    BY <1>1, <1>2, <1>3 DEF CmdOK, StarterOK
  <1>5. HolderOK'
    BY <1>1, <1>2, <1>3 DEF HolderOK
  <1>6. LooseOK'
    BY <1>1, <1>2, <1>3 DEF LooseOK, Loose
  <1> QED
    BY <1>1, <1>2, <1>3, <1>4, <1>5, <1>6, CommandStep

(* The only proxy that could be loose is the one that is killed now.       *)
LEMMA KillInv ==
  ASSUME IInv, Kill
  PROVE  IInv'
  <1>1. /\ run \in [Run -> RunState] /\ cmd \in CmdState
        /\ inner \in Run \union {NoRun} /\ file \in Run \union {NoRun}
        /\ CmdOK /\ StarterOK /\ HolderOK /\ LooseOK
        /\ cmd.op = "start" => cmd.run \in Run
    BY Types DEF IInv
  <1> DEFINE x == [run[inner] EXCEPT !.killed = (@ \/ run[inner].child = "up")]
  <1>2. /\ cmd.pc = "kill" /\ cmd' = [cmd EXCEPT !.pc = "stopped"] /\ inner' = NoRun
        /\ UNCHANGED <<file, shown, events, answer>> /\ inner \in Run
        /\ run' = [run EXCEPT ![inner] = x]
    BY <1>1 DEF Kill, Goto, IInv, TypeOK
  <1>3. run[inner] \in RunState /\ RecordOK(run[inner])
    BY <1>1, <1>2 DEF IInv
  <1>4. /\ x \in RunState /\ x.child = run[inner].child
        /\ x.child = "up" => x.killed
        /\ x.cancel = run[inner].cancel /\ x.log = run[inner].log
        /\ x.conn = run[inner].conn
        /\ x.pipe = run[inner].pipe /\ x.pongs = run[inner].pongs
    BY <1>3 DEF RunState
  <1> HIDE DEF x
  <1>5. run[inner].child # "none"
    BY <1>1, <1>2, RunAssumption DEF HolderOK
  <1>6. RecordOK(x)
    BY <1>3, <1>4, <1>5 DEF RecordOK
  <1>7. /\ cmd' \in CmdState /\ cmd'.pc = "stopped" /\ cmd'.op = cmd.op
        /\ cmd'.run = cmd.run
    BY <1>1, <1>2 DEF CmdState
  <1>8. \A r \in Run : run'[r] = IF r = inner THEN x ELSE run[r]
    BY <1>1, <1>2
  <1>9. TypeOK'
    <2>1. run' \in [Run -> RunState]
      BY <1>1, <1>2, <1>4
    <2> QED
      BY <1>1, <1>2, <1>7, <2>1 DEF IInv, TypeOK, CmdState, RunState
  <1>10. \A r \in Run : RecordOK(run'[r])
    BY <1>6, <1>8 DEF IInv
  <1>11. CmdOK'
    BY <1>1, <1>2, <1>7 DEF CmdOK, CmdState
  <1>12. StarterOK'
    <2>1. cmd.op = "start" => cmd.run \in Run /\ run[cmd.run] = NewRun /\ cmd.run # inner
      BY <1>1, <1>2, <1>5 DEF StarterOK, NewRun
    <2> QED
      BY <1>7, <1>8, <2>1 DEF StarterOK
  <1>13. HolderOK'
    BY <1>2 DEF HolderOK
  <1>14. LooseOK'
    <2> SUFFICES ASSUME NEW r \in Run, run'[r].child = "up", ~run'[r].killed
                 PROVE  FALSE
      BY DEF LooseOK, Loose
    <2>1. r # inner /\ Loose(r)
      BY <1>4, <1>8 DEF Loose
    <2> QED
      BY <1>1, <1>2, <2>1 DEF LooseOK
  <1> QED
    BY <1>9, <1>10, <1>11, <1>12, <1>13, <1>14 DEF IInv

(* A command ends with nothing running, or a start fails.                  *)
LEMMA ReturnInv ==
  ASSUME IInv, StopReturns \/ StartFails
  PROVE  IInv'
  <1>1. /\ inner \in Run \union {NoRun} /\ file \in Run \union {NoRun}
        /\ run \in [Run -> RunState] /\ CmdOK /\ LooseOK
    BY Types DEF IInv
  <1>2. /\ cmd' = Idle /\ cmd.pc \in {"stopped", "written"}
        /\ UNCHANGED <<inner, file, run, events, answer>>
        /\ shown' \in State
    BY Types DEF StopReturns, StartFails, At, State
  <1>3. inner = NoRun
    BY <1>1, <1>2 DEF CmdOK
  <1>4. cmd'.pc = "idle" /\ cmd'.op = "none" /\ cmd' \in CmdState
    BY <1>2 DEF Idle, CmdState
  <1>5. TypeOK'
    BY <1>2, <1>4 DEF IInv, TypeOK, CmdState
  <1>6. \A r \in Run : RecordOK(run'[r])
    BY <1>2 DEF IInv
  <1>7. CmdOK' /\ StarterOK' /\ HolderOK'
    BY <1>2, <1>3, <1>4 DEF CmdOK, StarterOK, HolderOK
  <1>8. LooseOK'
    BY <1>1, <1>2, <1>3, RunAssumption DEF LooseOK, Loose
  <1> QED
    BY <1>5, <1>6, <1>7, <1>8 DEF IInv

LEMMA WriteInv ==
  ASSUME IInv, WriteKeyFile
  PROVE  IInv'
  <1>1. /\ cmd \in CmdState /\ inner \in Run \union {NoRun}
        /\ CmdOK /\ StarterOK /\ LooseOK /\ cmd.run \in Run
    BY Types DEF IInv, WriteKeyFile, At
  <1>2. /\ cmd.op = "start" /\ cmd.pc = "stopped" /\ file' = cmd.run
        /\ cmd' = [cmd EXCEPT !.pc = "written"]
        /\ UNCHANGED <<run, inner, shown, events, answer>>
    BY DEF WriteKeyFile, At, Written, Goto
  <1>3. /\ cmd' \in CmdState /\ cmd'.pc = "written" /\ cmd'.op = cmd.op
        /\ cmd'.run = cmd.run
    BY <1>1, <1>2 DEF CmdState
  <1>4. inner = NoRun
    BY <1>1, <1>2 DEF CmdOK
  <1>5. CmdOK' /\ StarterOK' /\ HolderOK'
    BY <1>1, <1>2, <1>3, <1>4 DEF CmdOK, StarterOK, HolderOK
  <1>6. LooseOK'
    BY <1>1, <1>2, <1>3, <1>4 DEF LooseOK, Loose
  <1> QED
    BY <1>1, <1>2, <1>3, <1>5, <1>6, CommandStep

(* A child appears, when no other is loose.                                *)
LEMMA SpawnInv ==
  ASSUME IInv, Spawn
  PROVE  IInv'
  <1>1. /\ run \in [Run -> RunState] /\ cmd \in CmdState
        /\ inner \in Run \union {NoRun} /\ file \in Run \union {NoRun}
        /\ CmdOK /\ StarterOK /\ LooseOK /\ cmd.run \in Run
    BY Types DEF IInv, Spawn, At
  <1> DEFINE x == [run[cmd.run] EXCEPT !.child = "up"]
  <1>2. /\ cmd.op = "start" /\ cmd.pc = "written" /\ cmd' = [cmd EXCEPT !.pc = "spawned"]
        /\ run' = [run EXCEPT ![cmd.run] = x]
        /\ UNCHANGED <<inner, file, shown, events, answer>>
    BY DEF Spawn, At, Goto
  <1>3. run[cmd.run] = NewRun /\ file = cmd.run /\ inner = NoRun
    BY <1>1, <1>2 DEF StarterOK, CmdOK
  <1>4. /\ x \in RunState /\ x.child = "up" /\ Fresh(x) /\ x.read = NoRun
        /\ RecordOK(x)
    <2>1. NewRun \in RunState /\ RecordOK(NewRun) /\ Fresh(NewRun)
      BY NewRunType
    <2>2. x = [NewRun EXCEPT !.child = "up"]
      BY <1>3
    <2>3. /\ x \in RunState /\ x.child = "up" /\ x.read = NoRun /\ x.log = "off"
          /\ x.pipe = 0 /\ x.pongs = 0 /\ ~x.killed /\ ~x.cancel /\ ~x.conn
      BY <2>1, <2>2 DEF RunState, NewRun
    <2> HIDE DEF x
    <2> QED
      BY <2>3 DEF Fresh, RecordOK
  <1> HIDE DEF x
  <1>5. /\ cmd' \in CmdState /\ cmd'.pc = "spawned" /\ cmd'.op = cmd.op
        /\ cmd'.run = cmd.run
    BY <1>1, <1>2 DEF CmdState
  <1>6. \A r \in Run : run'[r] = IF r = cmd.run THEN x ELSE run[r]
    BY <1>1, <1>2
  <1>7. TypeOK'
    <2>1. run' \in [Run -> RunState]
      BY <1>1, <1>2, <1>4
    <2> QED
      BY <1>1, <1>2, <1>5, <2>1 DEF IInv, TypeOK, CmdState, RunState
  <1>8. \A r \in Run : RecordOK(run'[r])
    BY <1>4, <1>6 DEF IInv
  <1>9. CmdOK' /\ HolderOK'
    BY <1>2, <1>3, <1>5 DEF CmdOK, HolderOK
  <1>10. StarterOK'
    BY <1>1, <1>2, <1>3, <1>4, <1>5, <1>6 DEF StarterOK
  <1>11. LooseOK'
    <2> SUFFICES ASSUME NEW r \in Run, run'[r].child = "up", ~run'[r].killed
                 PROVE  r = cmd.run /\ run'[r].read \in {NoRun, r}
      BY <1>5 DEF LooseOK, Loose
    <2>1. r = cmd.run
      BY <1>1, <1>2, <1>3, <1>6, RunAssumption DEF LooseOK, Loose
    <2> QED
      BY <1>4, <1>6, <2>1
  <1> QED
    BY <1>7, <1>8, <1>9, <1>10, <1>11 DEF IInv

(* The new proxy becomes the running one, with its key file in place.      *)
LEMMA StartReturnsInv ==
  ASSUME IInv, StartReturns
  PROVE  IInv'
  <1>1. /\ run \in [Run -> RunState] /\ cmd \in CmdState
        /\ inner \in Run \union {NoRun} /\ file \in Run \union {NoRun}
        /\ CmdOK /\ StarterOK /\ LooseOK /\ cmd.run \in Run
    BY Types DEF IInv, StartReturns, At
  <1> DEFINE t == cmd.run
             x == [run[t] EXCEPT !.log = "run", !.exit = "run", !.emit = "run"]
  <1>2. /\ cmd.op = "start" /\ cmd.pc = "spawned" /\ cmd' = Idle /\ inner' = t
        /\ UNCHANGED <<file, shown, events, answer>>
        /\ run' = [run EXCEPT ![t] = x]
    BY <1>1 DEF StartReturns, At
  <1>3. /\ run[t].child # "none" /\ Fresh(run[t]) /\ file = t
        /\ run[t] \in RunState /\ RecordOK(run[t]) /\ t \in Run
    BY <1>1, <1>2 DEF StarterOK, IInv
  <1>4. /\ x \in RunState /\ x.child = run[t].child /\ x.log = "run"
        /\ x.killed = run[t].killed /\ x.cancel = run[t].cancel /\ x.read = run[t].read
        /\ x.pipe = run[t].pipe /\ x.pongs = run[t].pongs
    BY <1>3 DEF RunState
  <1> HIDE DEF x, t
  <1>5. RecordOK(x) /\ ~x.killed /\ ~x.cancel
    BY <1>3, <1>4 DEF RecordOK, Fresh
  <1>6. cmd'.pc = "idle" /\ cmd'.op = "none" /\ cmd' \in CmdState
    BY <1>2 DEF Idle, CmdState
  <1>7. \A r \in Run : run'[r] = IF r = t THEN x ELSE run[r]
    BY <1>1, <1>2
  <1>8. TypeOK'
    <2>1. run' \in [Run -> RunState]
      BY <1>1, <1>2, <1>4
    <2> QED
      BY <1>1, <1>2, <1>3, <1>6, <2>1 DEF IInv, TypeOK, CmdState, RunState
  <1>9. \A r \in Run : RecordOK(run'[r])
    BY <1>5, <1>7 DEF IInv
  <1>10. CmdOK' /\ StarterOK'
    BY <1>2, <1>6 DEF CmdOK, StarterOK
  <1>11. HolderOK'
    BY <1>2, <1>3, <1>4, <1>5, <1>6, <1>7 DEF HolderOK
  <1>12. LooseOK'
    <2> SUFFICES ASSUME NEW r \in Run, run'[r].child = "up", ~run'[r].killed
                 PROVE  r = t /\ run'[r].read \in {NoRun, r}
      BY <1>2 DEF LooseOK, Loose
    <2>1. Loose(r)
      BY <1>4, <1>7 DEF Loose
    <2>2. inner = NoRun
      BY <1>1, <1>2 DEF CmdOK
    <2>3. r = t /\ run[r].read \in {NoRun, r}
      BY <1>1, <2>1, <2>2, RunAssumption DEF LooseOK, t
    <2> QED
      BY <1>4, <1>7, <2>3
  <1> QED
    BY <1>8, <1>9, <1>10, <1>11, <1>12 DEF IInv
-----------------------------------------------------------------------------
LEMMA InvInit == Init => IInv
  <1> SUFFICES ASSUME Init PROVE IInv
    OBVIOUS
  <1>1. \A r \in Run : run[r] = NewRun
    BY DEF Init
  <1>2. run \in [Run -> RunState]
    BY NewRunType DEF Init
  <1>3. <<>> \in Seq(State) /\ Len(<<>>) = 0
    BY EmptySeq
  <1>4. cmd.pc = "idle" /\ cmd.op = "none" /\ cmd \in CmdState
    BY DEF Init, Idle, CmdState
  <1>5. TypeOK
    BY <1>2, <1>3, <1>4, BoundAssumption DEF Init, TypeOK, RunState, CmdState, State
  <1>6. CmdOK /\ StarterOK /\ HolderOK
    BY <1>4 DEF Init, CmdOK, StarterOK, HolderOK
  <1>7. LooseOK
    BY <1>1 DEF LooseOK, Loose, NewRun
  <1> QED
    BY <1>1, <1>5, <1>6, <1>7, NewRunType DEF IInv

LEMMA InvStep == IInv /\ [Next]_vars => IInv'
  <1> SUFFICES ASSUME IInv, [Next]_vars PROVE IInv'
    OBVIOUS
  <1>1. CASE Command
    BY <1>1, TakeInv, RemoveInv, KillInv, ReturnInv, WriteInv, SpawnInv,
       StartReturnsInv DEF Command
  <1> QED
    BY <1>1, ClickInv, ChildInv, TaskInv, DashboardInv DEF Next

LEMMA Invariance == Spec => []IInv
  BY InvInit, InvStep, PTL DEF Spec

(* Types: and the events under way keep to their bound, a start always     *)
(* knows its run and a stop the proxy it stops.                            *)
THEOREM TypeCorrect == Spec => []TypeOK
  <1>1. IInv => TypeOK
    BY DEF IInv
  <1> QED
    BY <1>1, Invariance, PTL

(* There is never a second proxy on the machine that no one will stop,     *)
(* however often Start and Stop are clicked and whenever a child dies.     *)
THEOREM NoProxyIsOrphaned == Spec => []NoOrphanProxy
  <1>1. IInv => NoOrphanProxy
    <2> SUFFICES ASSUME IInv, NEW r \in Run, Loose(r)
                 PROVE  inner = r \/ (cmd.op = "start" /\ cmd.run = r)
      BY DEF NoOrphanProxy
    <2>1. inner = r \/ (cmd.pc = "spawned" /\ cmd.run = r)
      BY DEF IInv, LooseOK
    <2>2. cmd.pc = "spawned" => cmd.op = "start"
      BY Types DEF IInv, CmdOK, CmdState
    <2> QED
      BY <2>1, <2>2
  <1> QED
    BY <1>1, Invariance, PTL

(* The key file has one name, and yet no proxy that is allowed to live     *)
(* reads the key of another run, or misses the file.                       *)
THEOREM KeysAreNotMixed == Spec => []ReadsOwnKey
  <1>1. IInv => ReadsOwnKey
    <2> SUFFICES ASSUME IInv, NEW r \in Run, Loose(r)
                 PROVE  /\ run[r].read \in {NoRun, r}
                        /\ run[r].read = NoRun /\ ~run[r].cancel => file = r
      BY DEF ReadsOwnKey
    <2>1. run[r].read \in {NoRun, r}
      BY DEF IInv, LooseOK
    <2> QED
      BY <2>1, LooseReads
  <1> QED
    BY <1>1, Invariance, PTL

(* Whatever order the log task and the exit task run in, a proxy that      *)
(* both have seen the end of does not count as connected.                  *)
THEOREM ExitsAreNoticed == Spec => []ExitIsNoticed
  <1>1. IInv => ExitIsNoticed
    BY DEF IInv, RecordOK, ExitIsNoticed
  <1> QED
    BY <1>1, Invariance, PTL
===============================================================================
