---------------------------- MODULE ProxyManager ----------------------------
(***************************************************************************)
(* The app's management of the proxy process                               *)
(* (crates/aion2-app/src/proxy.rs) and the dashboard that shows its status *)
(* (ui/src/App.vue).                                                       *)
(*                                                                         *)
(* start_proxy, stop_proxy and get_status share one mutex.  A start hands  *)
(* the key to the child through a file of a fixed name and leaves three    *)
(* tasks behind: one reads the child's log, one waits for its exit, one    *)
(* emits a status every second.  The dashboard enables one button at a     *)
(* time, takes the status from the events, and polls it as a fallback.     *)
(*                                                                         *)
(* Environment: the user, and the child process, which reads the key file  *)
(* some time after it was spawned, logs a pong now and then, and may exit. *)
(***************************************************************************)
EXTENDS Naturals, Sequences

CONSTANTS
  Run,       \* calls of start_proxy, each with a key of its own
  NoRun,     \* no proxy; no key file
  MaxPong,   \* bound: pongs a child logs
  MaxEvents  \* bound: status events under way

ASSUME RunAssumption == NoRun \notin Run
ASSUME BoundAssumption == MaxPong \in Nat /\ MaxEvents \in Nat \ {0}

VARIABLES
  cmd,     \* the command in progress: step, and the run it starts
  inner,   \* ProxyState: the running proxy
  file,    \* the run whose key is in the key file
  run,     \* every run's child and tasks
  shown,   \* the state the dashboard shows
  events,  \* status events on their way to the dashboard
  answer   \* answer of get_status on its way to the dashboard

vars == <<cmd, inner, file, run, shown, events, answer>>
-----------------------------------------------------------------------------
State == {"disconnected", "connecting", "connected"}

(* child: the process; killed: it was sent a signal; read: the run whose   *)
(* key it read; pongs, pipe: pongs logged and not yet processed; cancel:   *)
(* the watch channel; log, exit, emit: the tasks; conn: stats.connected.   *)
NewRun == [child |-> "none", killed |-> FALSE, read |-> NoRun, pongs |-> 0,
           pipe |-> 0, cancel |-> FALSE, log |-> "off", exit |-> "off",
           emit |-> "off", conn |-> FALSE]

Idle == [pc |-> "idle", op |-> "none", run |-> NoRun]

Init ==
  /\ cmd = Idle
  /\ inner = NoRun
  /\ file = NoRun
  /\ run = [r \in Run |-> NewRun]
  /\ shown = "disconnected"
  /\ events = <<>>
  /\ answer = "none"

At(op, pc) == cmd.op = op /\ cmd.pc = pc

Goto(pc) == cmd' = [cmd EXCEPT !.pc = pc]

Locked == cmd.pc \notin {"idle", "call"}
-----------------------------------------------------------------------------
(* The user.  The button that is shown depends on the state that is shown, *)
(* and is disabled while a command is in progress.                         *)
ClickStart ==
  /\ cmd = Idle /\ shown = "disconnected"
  /\ \E r \in Run : /\ run[r] = NewRun
                    /\ cmd' = [pc |-> "call", op |-> "start", run |-> r]
  /\ UNCHANGED <<inner, file, run, shown, events, answer>>

ClickStop ==
  /\ cmd = Idle /\ shown # "disconnected"
  /\ cmd' = [pc |-> "call", op |-> "stop", run |-> NoRun]
  /\ UNCHANGED <<inner, file, run, shown, events, answer>>
-----------------------------------------------------------------------------
(* What start_proxy and stop_proxy have in common: take the running proxy  *)
(* out, cancel its tasks, remove the key file, kill the child.             *)

LeavesRunning == {"none"}       \* mutant: a start does not stop what runs

StopsFirst == {"start", "stop"}

Unchecked == TRUE               \* mutant: without looking what was taken

Running == inner # NoRun

Take ==
  /\ cmd.pc = "call"
  /\ \/ /\ Running /\ cmd.op \in StopsFirst
        /\ run' = [run EXCEPT ![inner].cancel = TRUE]
        /\ Goto("remove")
     \/ /\ ~(Running /\ cmd.op \in StopsFirst)
        /\ Goto("stopped")
        /\ UNCHANGED run
  /\ UNCHANGED <<inner, file, shown, events, answer>>

RemoveKeyFile ==
  /\ cmd.pc = "remove"
  /\ file' = NoRun
  /\ Goto("kill")
  /\ UNCHANGED <<inner, run, shown, events, answer>>

Kill ==
  /\ cmd.pc = "kill"
  /\ run' = [run EXCEPT ![inner].killed = (@ \/ run[inner].child = "up")]
  /\ inner' = NoRun
  /\ Goto("stopped")
  /\ UNCHANGED <<file, shown, events, answer>>

StopReturns ==
  /\ At("stop", "stopped")
  /\ cmd' = Idle
  /\ shown' = "disconnected"
  /\ UNCHANGED <<inner, file, run, events, answer>>
-----------------------------------------------------------------------------
(* The rest of start_proxy.  Every error releases the mutex and leaves     *)
(* things as they are: the key file is not removed.                        *)
StartFails ==
  /\ cmd.op = "start" /\ cmd.pc \in {"stopped", "written"}
  /\ cmd' = Idle
  /\ UNCHANGED <<inner, file, run, shown, events, answer>>

WritesIfMissing(f, r) == IF f = NoRun THEN r ELSE f  \* mutant: no overwriting

Written(f, r) == r

WriteKeyFile ==
  /\ At("start", "stopped")
  /\ file' = Written(file, cmd.run)
  /\ Goto("written")
  /\ UNCHANGED <<inner, run, shown, events, answer>>

Spawn ==
  /\ At("start", "written")
  /\ run' = [run EXCEPT ![cmd.run].child = "up"]
  /\ Goto("spawned")
  /\ UNCHANGED <<inner, file, shown, events, answer>>

StartReturns ==
  /\ At("start", "spawned")
  /\ inner' = cmd.run
  /\ run' = [run EXCEPT ![cmd.run].log = "run", ![cmd.run].exit = "run",
                        ![cmd.run].emit = "run"]
  /\ cmd' = Idle
  /\ UNCHANGED <<file, shown, events, answer>>
-----------------------------------------------------------------------------
(* The child. *)
ReadsKey(r) ==
  /\ run[r].child = "up" /\ run[r].read = NoRun
  /\ run' = IF file = NoRun THEN [run EXCEPT ![r].child = "dead"]
                            ELSE [run EXCEPT ![r].read = file]
  /\ UNCHANGED <<cmd, inner, file, shown, events, answer>>

Pongs(r) ==
  /\ run[r].child = "up" /\ run[r].read # NoRun /\ run[r].pongs < MaxPong
  /\ run' = [run EXCEPT ![r].pongs = @ + 1, ![r].pipe = @ + 1]
  /\ UNCHANGED <<cmd, inner, file, shown, events, answer>>

Exits(r) ==
  /\ run[r].child = "up"
  /\ run' = [run EXCEPT ![r].child = "dead"]
  /\ UNCHANGED <<cmd, inner, file, shown, events, answer>>
-----------------------------------------------------------------------------
(* The tasks.  A select takes either branch when both are ready. *)
LogLine(r) ==
  /\ run[r].log = "run" /\ run[r].pipe > 0
  /\ run' = [run EXCEPT ![r].pipe = @ - 1, ![r].conn = TRUE]
  /\ UNCHANGED <<cmd, inner, file, shown, events, answer>>

StaysConnected(r) == run[r].conn  \* mutant: left to the task that waits

AfterEof(r) == FALSE

LogEof(r) ==
  /\ run[r].log = "run" /\ run[r].pipe = 0 /\ run[r].child = "dead"
  /\ run' = [run EXCEPT ![r].log = "done", ![r].conn = AfterEof(r)]
  /\ UNCHANGED <<cmd, inner, file, shown, events, answer>>

ExitSeen(r) ==
  /\ run[r].exit = "run" /\ run[r].child = "dead"
  /\ run' = [run EXCEPT ![r].exit = "done", ![r].conn = FALSE]
  /\ UNCHANGED <<cmd, inner, file, shown, events, answer>>

(* build_status *)
Status(r) == IF run[r].conn THEN "connected" ELSE "connecting"

Tick(r) ==
  /\ run[r].emit = "run" /\ Len(events) < MaxEvents
  /\ events' = Append(events, Status(r))
  /\ UNCHANGED <<cmd, inner, file, run, shown, answer>>

Cancelled(r) ==
  /\ run[r].cancel
  /\ \/ /\ run[r].log = "run"
        /\ run' = [run EXCEPT ![r].log = "done"]
     \/ /\ run[r].exit = "run"
        /\ run' = [run EXCEPT ![r].exit = "done"]
     \/ /\ run[r].emit = "run"
        /\ run' = [run EXCEPT ![r].emit = "done"]
  /\ UNCHANGED <<cmd, inner, file, shown, events, answer>>
-----------------------------------------------------------------------------
(* The dashboard. *)
TakesEvent ==
  /\ events # <<>>
  /\ shown' = Head(events)
  /\ events' = Tail(events)
  /\ UNCHANGED <<cmd, inner, file, run, answer>>

Repeats == shown                \* mutant: the poll brings nothing new

(* get_status, when it gets the mutex *)
CurrentStatus == IF inner = NoRun THEN "disconnected" ELSE Status(inner)

GetStatus ==
  /\ answer = "none" /\ ~Locked
  /\ answer' = CurrentStatus
  /\ UNCHANGED <<cmd, inner, file, run, shown, events>>

TakesAnswer ==
  /\ answer # "none"
  /\ shown' = answer
  /\ answer' = "none"
  /\ UNCHANGED <<cmd, inner, file, run, events>>
-----------------------------------------------------------------------------
Command == Take \/ RemoveKeyFile \/ Kill \/ StopReturns \/ StartFails
             \/ WriteKeyFile \/ Spawn \/ StartReturns

Child(r) == ReadsKey(r) \/ Pongs(r) \/ Exits(r)

Log(r) == LogLine(r) \/ LogEof(r)

Next ==
  \/ ClickStart \/ ClickStop \/ Command
  \/ \E r \in Run : Child(r) \/ Log(r) \/ ExitSeen(r) \/ Tick(r) \/ Cancelled(r)
  \/ TakesEvent \/ GetStatus \/ TakesAnswer

Spec == Init /\ [][Next]_vars

(* Commands end, tasks run when they are ready, the dashboard keeps        *)
(* polling, and a signal kills.                                            *)
Fairness ==
  /\ WF_vars(Command) /\ WF_vars(TakesEvent)
  /\ WF_vars(GetStatus) /\ WF_vars(TakesAnswer)
  /\ \A r \in Run : /\ WF_vars(Log(r)) /\ WF_vars(ExitSeen(r)) /\ WF_vars(Tick(r))
                    /\ WF_vars(Cancelled(r))
                    /\ WF_vars(run[r].killed /\ Exits(r))

FairSpec == Spec /\ Fairness
-----------------------------------------------------------------------------
TypeOK ==
  /\ cmd \in [pc : {"idle", "call", "remove", "kill", "stopped", "written", "spawned"},
              op : {"none", "start", "stop"}, run : Run \union {NoRun}]
  /\ inner \in Run \union {NoRun} /\ file \in Run \union {NoRun}
  /\ cmd.pc \in {"remove", "kill"} => inner # NoRun
  /\ cmd.op = "start" => cmd.run \in Run
  /\ run \in [Run -> [child : {"none", "up", "dead"}, killed : BOOLEAN,
                      read : Run \union {NoRun}, pongs : 0..MaxPong,
                      pipe : 0..MaxPong, cancel : BOOLEAN,
                      log : {"off", "run", "done"}, exit : {"off", "run", "done"},
                      emit : {"off", "run", "done"}, conn : BOOLEAN]]
  /\ shown \in State /\ events \in Seq(State) /\ Len(events) <= MaxEvents
  /\ answer \in State \union {"none"}

Loose(r) == run[r].child = "up" /\ ~run[r].killed

(* A proxy that runs and was not killed is the one the app knows, or the   *)
(* one it is just starting: there is never a second one on the machine,    *)
(* whatever the dashboard showed when the button was clicked.              *)
NoOrphanProxy ==
  \A r \in Run : Loose(r) => inner = r \/ (cmd.op = "start" /\ cmd.run = r)

(* The key file has one name for all runs.  A child finds it, and in it    *)
(* the key of its own run, unless it is being stopped when it looks.       *)
ReadsOwnKey ==
  \A r \in Run : Loose(r) =>
    /\ run[r].read \in {NoRun, r}
    /\ run[r].read = NoRun /\ ~run[r].cancel => file = r

(* The log task may still process pongs when the other one has seen the    *)
(* exit: after both, the run does not count as connected.                  *)
ExitIsNoticed ==
  \A r \in Run : (inner = r /\ ~run[r].cancel /\ run[r].log = "done"
                    /\ run[r].exit = "done") => ~run[r].conn

(* If the proxy is dead for good, the dashboard stops showing Connected    *)
(* for good.                                                               *)
DeathIsShown ==
  \A r \in Run : (<>[](inner = r /\ run[r].child = "dead"))
                    => (<>[](shown # "connected"))

(* If no proxy runs any more, the dashboard settles on Disconnected,       *)
(* although a last status may arrive after the stop.                       *)
StopIsShown ==
  (<>[](inner = NoRun /\ cmd = Idle)) => (<>[](shown = "disconnected"))
=============================================================================
