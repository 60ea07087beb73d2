--------------------------- MODULE RelayConnsProofs ---------------------------
(***************************************************************************)
(* Proofs about the relay's connection table, for any number of sessions,  *)
(* connections and tasks, and any capacities; and that the relay keeps the *)
(* order of a connection in both directions.                               *)
(***************************************************************************)
EXTENDS RelayConns, SequenceTheorems, TLAPS

(* A flow the proxy knows has been opened at least once. *)
KnownWasOpened == \A k \in Flow : phase[k] # "none" => gen[k] > 0

TypeInv == TypeOK /\ KnownWasOpened
-----------------------------------------------------------------------------
(* Removing one element of a sequence leaves a sequence, one shorter.      *)
LEMMA SkipNthType ==
  ASSUME NEW S, NEW q \in Seq(S), NEW i \in 1..Len(q)
  PROVE  /\ SkipNth(q, i) \in Seq(S)
         /\ Len(SkipNth(q, i)) = Len(q) - 1
  BY DEF SkipNth

(* A task may be replaced by any record of the right type with a data      *)
(* channel within its capacity.                                            *)
LEMMA TaskReplaced ==
  ASSUME TypeOK, NEW t \in Task, NEW x \in TaskState, Len(x.dq) <= DataCap,
         task' = [task EXCEPT ![t] = x]
  PROVE  /\ task' \in [Task -> TaskState]
         /\ \A u \in Task : Len(task'[u].dq) <= DataCap
  BY DEF TypeOK

(* Whatever is sent to a client, the session's channel keeps its type and  *)
(* its capacity.                                                           *)
LEMMA SendType ==
  ASSUME TypeOK, NEW t \in Task, NEW type \in {"Connected", "ConnectFailed", "Data", "Shutdown", "Reset"},
         NEW n \in 0..MaxDown, SendToClient(t, type, n)
  PROVE  /\ down' \in [Session -> Seq(Message)]
         /\ \A s \in Session : Len(down'[s]) <= TxCap
  <1> DEFINE s == task[t].flow[1]
             m == [type |-> type, task |-> t, n |-> n]
  <1>1. m \in Message
    BY DEF Message
  <1>2. CASE UNCHANGED down
    BY <1>2 DEF TypeOK
  <1>3. CASE TxRoom(s) /\ down' = [down EXCEPT ![s] = Append(@, m)] /\ s \in Session
    <2>1. Append(down[s], m) \in Seq(Message) /\ Len(Append(down[s], m)) = Len(down[s]) + 1
      BY <1>1, <1>3 DEF TypeOK
    <2> QED
      BY <1>3, <2>1, BoundAssumption DEF TypeOK, TxRoom
  <1>4. CASE down' = [down EXCEPT ![s] = Append(@, m)] /\ s \notin Session
    BY <1>4 DEF TypeOK
  <1> QED
    BY <1>2, <1>3, <1>4 DEF SendToClient
-----------------------------------------------------------------------------
(* The steps of handle_message. *)
LEMMA ConnectType ==
  ASSUME TypeInv, NEW k \in Flow, Connect(k)
  PROVE  TypeInv'
  <1> USE DEF TypeInv
  <1>1. PICK t \in Task : /\ task[t].c = "free"
                         /\ task' = [task EXCEPT ![t] = NewTask(k, gen'[k])]
    BY DEF Connect
  <1>2. gen'[k] \in 0..MaxGen /\ gen' \in [Flow -> 0..MaxGen] /\ gen'[k] > 0
    BY BoundAssumption DEF Connect, TypeOK
  <1>3. NewTask(k, gen'[k]) \in TaskState /\ Len(NewTask(k, gen'[k]).dq) <= DataCap
    BY <1>2, BoundAssumption DEF NewTask, TaskState
  <1>4. task' \in [Task -> TaskState] /\ \A u \in Task : Len(task'[u].dq) <= DataCap
    BY <1>1, <1>3, TaskReplaced
  <1>5. TypeOK'
    BY <1>2, <1>4, BoundAssumption DEF Connect, TypeOK
  <1>6. KnownWasOpened'
    BY <1>2 DEF Connect, KnownWasOpened, TypeOK
  <1> QED
    BY <1>5, <1>6

LEMMA DataType ==
  ASSUME TypeInv, NEW k \in Flow, Data(k)
  PROVE  TypeInv'
  <1> USE DEF TypeInv
  <1> DEFINE t == Lookup(k)
             p == [flow |-> k, gen |-> gen[k], n |-> sent'[k]]
  <1>1. sent' \in [Flow -> 0..MaxUp] /\ sent'[k] \in 1..MaxUp
    BY BoundAssumption DEF Data, TypeOK
  <1>2. p \in Payload
    <2>1. phase[k] = "open" /\ gen[k] \in 0..MaxGen
      BY DEF Data, TypeOK
    <2>2. gen[k] \in 1..MaxGen
      BY <2>1, BoundAssumption DEF KnownWasOpened
    <2> QED
      BY <1>1, <2>2 DEF Payload
  <1>3. task' \in [Task -> TaskState] /\ \A u \in Task : Len(task'[u].dq) <= DataCap
    <2>1. CASE UNCHANGED task
      BY <2>1 DEF TypeOK
    <2>2. CASE t # NoTask /\ DataRoom(t) /\ task' = [task EXCEPT ![t].dq = Append(@, p)]
      <3>1. t \in Task
        BY <2>2 DEF Lookup, TypeOK
      <3> DEFINE x == [task[t] EXCEPT !.dq = Append(@, p)]
      <3> HIDE DEF t, p
      <3>a. task[t] \in TaskState
        BY <3>1 DEF TypeOK
      <3>b. task[t].dq \in Seq(Payload)
        BY <3>a DEF TaskState
      <3>2. Append(task[t].dq, p) \in Seq(Payload)
            /\ Len(Append(task[t].dq, p)) <= DataCap
        BY <1>2, <2>2, <3>b, BoundAssumption DEF DataRoom
      <3>3. x \in TaskState /\ Len(x.dq) <= DataCap
        BY <3>a, <3>2 DEF TaskState
      <3>4. task' = [task EXCEPT ![t] = x]
        BY <2>2
      <3> QED
        BY <3>1, <3>3, <3>4, TaskReplaced
    <2> QED
      BY <2>1, <2>2 DEF Data
  <1>4. TypeOK'
    BY <1>1, <1>3 DEF Data, TypeOK
  <1>5. KnownWasOpened'
    BY DEF Data, KnownWasOpened
  <1> QED
    BY <1>4, <1>5

LEMMA ShutdownType ==
  ASSUME TypeInv, NEW k \in Flow, Shutdown(k)
  PROVE  TypeInv'
  <1> USE DEF TypeInv
  <1> DEFINE t == Lookup(k)
             n == Len(task[t].out) + Len(task[t].dq)
             x == [task[t] EXCEPT !.shut = TRUE, !.due = n]
  <1>1. task' \in [Task -> TaskState] /\ \A u \in Task : Len(task'[u].dq) <= DataCap
    <2>1. CASE UNCHANGED task
      BY <2>1 DEF TypeOK
    <2>2. CASE t # NoTask /\ task' = [task EXCEPT ![t].shut = TRUE, ![t].due = n]
      <3>1. t \in Task
        BY <2>2 DEF Lookup, TypeOK
      <3> HIDE DEF t
      <3>a. task[t] \in TaskState /\ Len(task[t].dq) <= DataCap
        BY <3>1 DEF TypeOK
      <3>b. task[t].out \in Seq(Payload) /\ task[t].dq \in Seq(Payload)
        BY <3>a DEF TaskState
      <3>c. Len(task[t].out) \in Nat /\ Len(task[t].dq) \in Nat
        BY <3>b, LenProperties
      <3>d. \A i, j \in Nat : i + j \in Nat
        OBVIOUS
      <3>2. n \in Nat
        BY <3>c, <3>d, Zenon
      <3> HIDE DEF n
      <3>3. x \in TaskState /\ Len(x.dq) <= DataCap
        BY <3>a, <3>2 DEF TaskState
      <3>4. task' = [task EXCEPT ![t] = x]
        BY <2>2, <3>1 DEF TypeOK
      <3> QED
        BY <3>1, <3>3, <3>4, TaskReplaced
    <2> QED
      BY <2>1, <2>2 DEF Shutdown
  <1>2. TypeOK'
    BY <1>1 DEF Shutdown, TypeOK
  <1>3. KnownWasOpened'
    BY DEF Shutdown, KnownWasOpened, TypeOK
  <1> QED
    BY <1>2, <1>3

LEMMA ResetType ==
  ASSUME TypeInv, NEW k \in Flow, Reset(k)
  PROVE  TypeInv'
  <1> USE DEF TypeInv
  <1> DEFINE t == Lookup(k)
             x == [task[t] EXCEPT !.rst = TRUE]
  <1>1. task' \in [Task -> TaskState] /\ \A u \in Task : Len(task'[u].dq) <= DataCap
    <2>1. CASE UNCHANGED task
      BY <2>1 DEF TypeOK
    <2>2. CASE t # NoTask /\ task' = [task EXCEPT ![t].rst = TRUE]
      <3>1. t \in Task
        BY <2>2 DEF Lookup, TypeOK
      <3> HIDE DEF t
      <3>a. task[t] \in TaskState /\ Len(task[t].dq) <= DataCap
        BY <3>1 DEF TypeOK
      <3>2. x \in TaskState /\ Len(x.dq) <= DataCap
        BY <3>a DEF TaskState
      <3>3. task' = [task EXCEPT ![t] = x]
        BY <2>2
      <3> QED
        BY <3>1, <3>2, <3>3, TaskReplaced
    <2> QED
      BY <2>1, <2>2 DEF Reset
  <1>2. TypeOK'
    BY <1>1 DEF Reset, TypeOK
  <1>3. KnownWasOpened'
    BY DEF Reset, KnownWasOpened, TypeOK
  <1> QED
    BY <1>2, <1>3
-----------------------------------------------------------------------------
(* The steps of a connection task change its record and perhaps send one   *)
(* message or change one entry of the table.                               *)
LEMMA TaskStepType ==
  ASSUME TypeInv, NEW t \in Task, NEW x \in TaskState, Len(x.dq) <= DataCap,
         task' = [task EXCEPT ![t] = x], UNCHANGED proxy,
         conns' \in [Flow -> Task \union {NoTask}],
         down' \in [Session -> Seq(Message)],
         \A s \in Session : Len(down'[s]) <= TxCap
  PROVE  TypeInv'
  <1>1. task' \in [Task -> TaskState] /\ \A u \in Task : Len(task'[u].dq) <= DataCap
    BY TaskReplaced DEF TypeInv
  <1>2. TypeOK'
    BY <1>1 DEF TypeInv, TypeOK, proxy
  <1>3. KnownWasOpened'
    BY DEF TypeInv, KnownWasOpened, proxy
  <1> QED
    BY <1>2, <1>3 DEF TypeInv

LEMMA ConnectStepType ==
  ASSUME TypeInv, NEW t \in Task,
         ConnectOk(t) \/ ConnectFails(t) \/ ConnectAborts(t) \/ Register(t)
  PROVE  TypeInv'
  <1>1. task[t] \in TaskState /\ Len(task[t].dq) <= DataCap
    BY DEF TypeInv, TypeOK
  <1>2. CASE ConnectOk(t)
    <2> DEFINE x == [task[t] EXCEPT !.c = "announced"]
    <2>1. x \in TaskState /\ Len(x.dq) <= DataCap /\ task' = [task EXCEPT ![t] = x]
      BY <1>1, <1>2 DEF ConnectOk, TaskState
    <2>2. /\ down' \in [Session -> Seq(Message)]
          /\ \A s \in Session : Len(down'[s]) <= TxCap
      BY <1>2, SendType, BoundAssumption DEF ConnectOk, TypeInv
    <2>3. conns' \in [Flow -> Task \union {NoTask}]
      BY <1>2 DEF ConnectOk, TypeInv, TypeOK
    <2> QED
      BY <1>2, <2>1, <2>2, <2>3, TaskStepType DEF ConnectOk
  <1>3. CASE ConnectFails(t)
    <2> DEFINE x == [task[t] EXCEPT !.c = "gone"]
    <2>1. x \in TaskState /\ Len(x.dq) <= DataCap /\ task' = [task EXCEPT ![t] = x]
      BY <1>1, <1>3 DEF ConnectFails, TaskState
    <2>2. /\ down' \in [Session -> Seq(Message)]
          /\ \A s \in Session : Len(down'[s]) <= TxCap
      BY <1>3, SendType, BoundAssumption DEF ConnectFails, TypeInv
    <2>3. conns' \in [Flow -> Task \union {NoTask}]
      BY <1>3 DEF ConnectFails, TypeInv, TypeOK
    <2> QED
      BY <1>3, <2>1, <2>2, <2>3, TaskStepType DEF ConnectFails
  <1>4. CASE ConnectAborts(t)
    <2> DEFINE x == [task[t] EXCEPT !.c = "gone"]
    <2>1. x \in TaskState /\ Len(x.dq) <= DataCap /\ task' = [task EXCEPT ![t] = x]
      BY <1>1, <1>4 DEF ConnectAborts, TaskState
    <2>2. /\ down' \in [Session -> Seq(Message)]
          /\ \A s \in Session : Len(down'[s]) <= TxCap
          /\ conns' \in [Flow -> Task \union {NoTask}]
      BY <1>4 DEF ConnectAborts, TypeInv, TypeOK
    <2> QED
      BY <1>4, <2>1, <2>2, TaskStepType DEF ConnectAborts
  <1>5. CASE Register(t)
    <2> DEFINE x == [task[t] EXCEPT !.c = "live", !.w = "run", !.r = "run"]
    <2>1. x \in TaskState /\ Len(x.dq) <= DataCap
      BY <1>1 DEF TaskState
    <2>2. task' = [task EXCEPT ![t] = x]
      BY <1>5 DEF Register, TypeInv, TypeOK
    <2>3. /\ down' \in [Session -> Seq(Message)]
          /\ \A s \in Session : Len(down'[s]) <= TxCap
          /\ conns' \in [Flow -> Task \union {NoTask}]
      BY <1>5 DEF Register, TypeInv, TypeOK
    <2> QED
      BY <1>5, <2>1, <2>2, <2>3, TaskStepType DEF Register
  <1> QED
    BY <1>2, <1>3, <1>4, <1>5

LEMMA ReaderStepType ==
  ASSUME TypeInv, NEW t \in Task,
         ReadData(t) \/ ReadEnds(t) \/ ReaderUnregister(t)
  PROVE  TypeInv'
  <1>1. task[t] \in TaskState /\ Len(task[t].dq) <= DataCap
    BY DEF TypeInv, TypeOK
  <1>2. CASE ReadData(t)
    <2> DEFINE x == [task[t] EXCEPT !.reads = @ + 1]
    <2>1. task[t].reads + 1 \in 0..MaxDown
      BY <1>1, <1>2, BoundAssumption DEF ReadData, TaskState
    <2>2. x \in TaskState /\ Len(x.dq) <= DataCap /\ task' = [task EXCEPT ![t] = x]
      BY <1>1, <1>2, <2>1 DEF ReadData, TaskState
    <2>3. /\ down' \in [Session -> Seq(Message)]
          /\ \A s \in Session : Len(down'[s]) <= TxCap
      BY <1>2, <2>1, SendType DEF ReadData, TypeInv
    <2>4. conns' \in [Flow -> Task \union {NoTask}]
      BY <1>2 DEF ReadData, TypeInv, TypeOK
    <2> QED
      BY <1>2, <2>2, <2>3, <2>4, TaskStepType DEF ReadData
  <1>3. CASE ReadEnds(t)
    <2> DEFINE x == [task[t] EXCEPT !.r = AfterEnd]
    <2>1. x \in TaskState /\ Len(x.dq) <= DataCap /\ task' = [task EXCEPT ![t] = x]
      BY <1>1, <1>3 DEF ReadEnds, TaskState, AfterEnd
    <2>2. PICK type \in {"Shutdown", "Reset"} : SendToClient(t, type, 0)
      BY <1>3 DEF ReadEnds
    <2>3. /\ down' \in [Session -> Seq(Message)]
          /\ \A s \in Session : Len(down'[s]) <= TxCap
      BY <2>2, SendType, BoundAssumption DEF TypeInv
    <2>4. conns' \in [Flow -> Task \union {NoTask}]
      BY <1>3 DEF ReadEnds, TypeInv, TypeOK
    <2> QED
      BY <1>3, <2>1, <2>3, <2>4, TaskStepType DEF ReadEnds
  <1>4. CASE ReaderUnregister(t)
    <2> DEFINE x == [task[t] EXCEPT !.r = "done"]
    <2>1. x \in TaskState /\ Len(x.dq) <= DataCap /\ task' = [task EXCEPT ![t] = x]
      BY <1>1, <1>4 DEF ReaderUnregister, TaskState
    <2>2. /\ down' \in [Session -> Seq(Message)]
          /\ \A s \in Session : Len(down'[s]) <= TxCap
          /\ conns' \in [Flow -> Task \union {NoTask}]
      BY <1>4 DEF ReaderUnregister, Unregister, TypeInv, TypeOK
    <2> QED
      BY <1>4, <2>1, <2>2, TaskStepType DEF ReaderUnregister
  <1> QED
    BY <1>2, <1>3, <1>4

LEMMA WriterStepType ==
  ASSUME TypeInv, NEW t \in Task, WriterStep(t)
  PROVE  TypeInv'
  <1>1. task[t] \in TaskState /\ Len(task[t].dq) <= DataCap
    BY DEF TypeInv, TypeOK
  <1>2. task[t].dq \in Seq(Payload) /\ task[t].out \in Seq(Payload)
    BY <1>1 DEF TaskState
  <1>3. ASSUME task[t].dq # <<>>
        PROVE  /\ Head(task[t].dq) \in Payload
               /\ Tail(task[t].dq) \in Seq(Payload)
               /\ Len(Tail(task[t].dq)) <= DataCap
    BY <1>1, <1>2, <1>3, HeadTailProperties, BoundAssumption
  <1>4. Len(<<>>) <= DataCap
    BY BoundAssumption
  <1>5. /\ down' \in [Session -> Seq(Message)]
        /\ \A s \in Session : Len(down'[s]) <= TxCap
        /\ conns' \in [Flow -> Task \union {NoTask}]
        /\ UNCHANGED proxy
    BY DEF TypeInv, TypeOK, WriterStep, WriteData, WriteFails, WriteClosed,
           PollsEmpty, WriteSignalled, PollsAgain, WriteShutdown,
           WriterUnregister, Unregister, WriterAborted
  <1>6. SUFFICES \E x \in TaskState : Len(x.dq) <= DataCap /\ task' = [task EXCEPT ![t] = x]
    BY <1>5, TaskStepType
  <1>7. CASE WriteData(t)
    <2> DEFINE x == [task[t] EXCEPT !.out = Append(@, Head(task[t].dq)), !.dq = Tail(@)]
    <2>1. Append(task[t].out, Head(task[t].dq)) \in Seq(Payload)
      BY <1>2, <1>3, <1>7 DEF WriteData
    <2>2. x \in TaskState /\ Len(x.dq) <= DataCap
      BY <1>1, <1>3, <1>7, <2>1 DEF WriteData, TaskState
    <2>3. task' = [task EXCEPT ![t] = x]
      BY <1>1, <1>7 DEF WriteData, Written, TypeInv, TypeOK, TaskState
    <2> QED
      BY <2>2, <2>3
  <1>8. CASE WriteFails(t)
    <2> DEFINE x == [task[t] EXCEPT !.w = "unregister", !.dq = Tail(@),
                                    !.fin = (task[t].w = "drain")]
    <2>1. x \in TaskState /\ Len(x.dq) <= DataCap
      BY <1>1, <1>3, <1>8 DEF WriteFails, TaskState
    <2>2. task' = [task EXCEPT ![t] = x]
      BY <1>1, <1>8 DEF WriteFails, TypeInv, TypeOK, TaskState
    <2> QED
      BY <2>1, <2>2
  <1>9. CASE WriteClosed(t)
    <2> DEFINE x == [task[t] EXCEPT !.w = "unregister"]
    <2>1. x \in TaskState /\ Len(x.dq) <= DataCap /\ task' = [task EXCEPT ![t] = x]
      BY <1>1, <1>9 DEF WriteClosed, TaskState
    <2> QED
      BY <2>1
  <1>10. CASE PollsEmpty(t)
    <2> DEFINE x == [task[t] EXCEPT !.w = "polled"]
    <2>1. x \in TaskState /\ Len(x.dq) <= DataCap /\ task' = [task EXCEPT ![t] = x]
      BY <1>1, <1>10 DEF PollsEmpty, TaskState
    <2> QED
      BY <2>1
  <1>11. CASE WriteSignalled(t)
    <2> DEFINE x == [task[t] EXCEPT !.w = "drain", !.shut = FALSE]
    <2>1. x \in TaskState /\ Len(x.dq) <= DataCap
      BY <1>1 DEF TaskState
    <2>2. task' = [task EXCEPT ![t] = x]
      BY <1>11 DEF WriteSignalled, TypeInv, TypeOK
    <2> QED
      BY <2>1, <2>2
  <1>12. CASE PollsAgain(t)
    <2> DEFINE x == [task[t] EXCEPT !.w = "run"]
    <2>1. x \in TaskState /\ Len(x.dq) <= DataCap /\ task' = [task EXCEPT ![t] = x]
      BY <1>1, <1>12 DEF PollsAgain, TaskState
    <2> QED
      BY <2>1
  <1>13. CASE WriteShutdown(t)
    <2> DEFINE x == [task[t] EXCEPT !.w = "unregister", !.fin = TRUE, !.drained = TRUE]
    <2>1. x \in TaskState /\ Len(x.dq) <= DataCap
      BY <1>1 DEF TaskState
    <2>2. task' = [task EXCEPT ![t] = x]
      BY <1>13 DEF WriteShutdown, TypeInv, TypeOK
    <2> QED
      BY <2>1, <2>2
  <1>14. CASE WriterUnregister(t) \/ WriterAborted(t)
    <2> DEFINE x == [task[t] EXCEPT !.w = "done", !.dq = <<>>, !.fin = TRUE]
    <2>a. PICK e : e = <<>> /\ e \in Seq(Payload)
      BY EmptySeq
    <2>b. [task[t] EXCEPT !.w = "done", !.dq = e, !.fin = TRUE] \in TaskState
      BY <1>1, <2>a DEF TaskState
    <2>c. x.dq = <<>>
      BY <1>1 DEF TaskState
    <2>1. x \in TaskState /\ Len(x.dq) <= DataCap
      BY <1>4, <2>a, <2>b, <2>c
    <2>2. task' = [task EXCEPT ![t] = x]
      BY <1>14 DEF WriterUnregister, WriterAborted, TypeInv, TypeOK
    <2> QED
      BY <2>1, <2>2
  <1> QED
    BY <1>7, <1>8, <1>9, <1>10, <1>11, <1>12, <1>13, <1>14 DEF WriterStep
-----------------------------------------------------------------------------
(* The environment's steps. *)
LEMMA EnvironmentType ==
  ASSUME TypeInv,
         \/ \E s \in Session : Deliver(s) \/ TunnelLost(s)
         \/ \E k \in Flow : Forget(k)
  PROVE  TypeInv'
  <1> USE DEF TypeInv
  <1>1. ASSUME NEW s \in Session, Deliver(s)
        PROVE  TypeInv'
    <2>1. PICK i \in 1..Len(down[s]) :
            LET m == down[s][i]
                k == task[m.task].flow
            IN  /\ down' = [down EXCEPT ![s] = SkipNth(@, i)]
                /\ told' = IF linked[s] THEN [told EXCEPT ![s] = Append(@, m)] ELSE told
                /\ phase' = [phase EXCEPT ![k] = ProxyPhase(@, m.type)]
                /\ UNCHANGED <<gen, sent, linked, conns, task>>
      BY <1>1 DEF Deliver
    <2>2. down[s] \in Seq(Message) /\ Len(down[s]) <= TxCap
      BY DEF TypeOK
    <2>3. /\ SkipNth(down[s], i) \in Seq(Message)
          /\ Len(SkipNth(down[s], i)) = Len(down[s]) - 1
      BY <2>2, SkipNthType
    <2>4. /\ down' \in [Session -> Seq(Message)]
          /\ \A r \in Session : Len(down'[r]) <= TxCap
      BY <2>1, <2>2, <2>3, BoundAssumption DEF TypeOK
    <2>5. phase' \in [Flow -> {"none", "opening", "open", "closing"}]
      BY <2>1 DEF TypeOK, ProxyPhase
    <2>7. told' \in [Session -> Seq(Message)]
      <3>1. Append(told[s], down[s][i]) \in Seq(Message)
        BY <2>2 DEF TypeOK
      <3> QED
        BY <2>1, <3>1 DEF TypeOK
    <2>6. ASSUME NEW k \in Flow, phase'[k] # "none"
          PROVE  phase[k] # "none"
      <3>1. \A type : ProxyPhase("none", type) = "none"
        BY DEF ProxyPhase
      <3>2. PICK l, type : phase' = [phase EXCEPT ![l] = ProxyPhase(@, type)]
        BY <2>1
      <3>3. phase'[k] = phase[k] \/ phase'[k] = ProxyPhase(phase[k], type)
        BY <3>2 DEF TypeOK
      <3> QED
        BY <2>6, <3>1, <3>3
    <2> QED
      BY <2>1, <2>4, <2>5, <2>6, <2>7 DEF TypeOK, KnownWasOpened
  <1>2. ASSUME NEW s \in Session, TunnelLost(s)
        PROVE  TypeInv'
    BY <1>2, BoundAssumption DEF TunnelLost, TypeOK, KnownWasOpened
  <1>3. ASSUME NEW k \in Flow, Forget(k)
        PROVE  TypeInv'
    BY <1>3 DEF Forget, TypeOK, KnownWasOpened
  <1> QED
    BY <1>1, <1>2, <1>3
-----------------------------------------------------------------------------
(* Every step of the system preserves the typing invariant.                *)
LEMMA TypeStep == TypeInv /\ [Next]_vars => TypeInv'
  <1> SUFFICES ASSUME TypeInv, [Next]_vars PROVE TypeInv'
    OBVIOUS
  <1>1. CASE UNCHANGED vars
    BY <1>1 DEF vars, proxy, TypeInv, TypeOK, KnownWasOpened
  <1>2. CASE Next
    BY <1>2, ConnectType, DataType, ShutdownType, ResetType, EnvironmentType,
       ConnectStepType, WriterStepType, ReaderStepType DEF Next
  <1> QED
    BY <1>1, <1>2

LEMMA TypeInit == Init => TypeInv
  <1> SUFFICES ASSUME Init PROVE TypeInv
    OBVIOUS
  <1>1. \A S : <<>> \in Seq(S) /\ Len(<<>>) = 0
    BY EmptySeq
  <1>2. FreeTask \in TaskState /\ FreeTask.dq = <<>>
    <2>1. NewTask(NoFlow, 0) \in TaskState
      BY BoundAssumption DEF NewTask, TaskState
    <2> QED
      BY <2>1 DEF FreeTask, NewTask, TaskState
  <1>3. \A t \in Task : task[t] = FreeTask
    BY DEF Init
  <1>4. task \in [Task -> TaskState]
    BY <1>2 DEF Init
  <1>5. \A t \in Task : Len(task[t].dq) <= DataCap
    BY <1>1, <1>2, <1>3, BoundAssumption
  <1>6. /\ down \in [Session -> Seq(Message)]
        /\ told \in [Session -> Seq(Message)]
        /\ \A s \in Session : Len(down[s]) <= TxCap
    BY <1>1, BoundAssumption DEF Init
  <1>7. TypeOK
    BY <1>4, <1>5, <1>6, BoundAssumption DEF Init, TypeOK
  <1>8. KnownWasOpened
    BY DEF Init, KnownWasOpened
  <1> QED
    BY <1>7, <1>8 DEF TypeInv

(* Types and capacities: no channel ever holds more than it was made for,  *)
(* with any number of flows, tasks and messages.                           *)
THEOREM TypeCorrect == Spec => []TypeOK
  <1>1. TypeInv => TypeOK
    BY DEF TypeInv
  <1> QED
    BY <1>1, TypeInit, TypeStep, PTL DEF Spec
-----------------------------------------------------------------------------
(***************************************************************************)
(* The inductive invariant of the connection table.  A task that is not    *)
(* live has neither half running, which is what makes the entry of a flow  *)
(* belong to the one task that inserted it; the writer's account (due) is  *)
(* kept as long as it can still write.                                     *)
(***************************************************************************)
TaskOK(x) ==
  /\ x.c # "free" => x.flow \in Flow
  /\ x.c # "live" => x.w = "off" /\ x.r = "off"
  /\ \A i \in 1..Len(x.dq) : x.dq[i].flow = x.flow
  /\ \A i \in 1..Len(x.out) : x.out[i].flow = x.flow
  /\ x.w \in {"off", "run", "polled", "drain"} =>
       x.due <= Len(x.out) + Len(x.dq) /\ ~x.drained
  /\ x.drained => x.due <= Len(x.out)

OwnerOK(k, x) ==
  /\ x.c = "live" /\ x.flow = k /\ x.r # "done"
  /\ x.w = "done" => x.r = "unregister"

SenderOK(s, x) == x.c # "free" /\ x.flow \in {s} \X ConnId

ConnInv ==
  /\ \A t \in Task : TaskOK(task[t])
  /\ \A k \in Flow : conns[k] # NoTask => OwnerOK(k, task[conns[k]])
  /\ \A s \in Session : \A i \in 1..Len(down[s]) : SenderOK(s, task[down[s][i].task])

IInv == TypeInv /\ ConnInv

(***************************************************************************)
(* What a step may do and keep the invariant: replace one task by one that *)
(* is in order, leave entries of the table alone, remove them or hand them *)
(* to that task, and send at most that task's messages.                    *)
(***************************************************************************)
LEMMA TaskStepInv ==
  ASSUME IInv, TypeInv', NEW t \in Task, NEW x, task' = [task EXCEPT ![t] = x],
         TaskOK(x), x.c # "free", task[t].c = "free" \/ x.flow = task[t].flow,
         \A k \in Flow : conns'[k] # NoTask =>
            IF conns'[k] = t THEN OwnerOK(k, x) ELSE conns'[k] = conns[k],
         \A s \in Session : \A i \in 1..Len(down'[s]) :
            \/ \E j \in 1..Len(down[s]) : down'[s][i] = down[s][j]
            \/ down'[s][i].task = t /\ SenderOK(s, x)
  PROVE  IInv'
  <1>1. /\ task \in [Task -> TaskState]
        /\ conns \in [Flow -> Task \union {NoTask}]
        /\ conns' \in [Flow -> Task \union {NoTask}]
        /\ down \in [Session -> Seq(Message)]
        /\ down' \in [Session -> Seq(Message)]
    BY DEF IInv, TypeInv, TypeOK
  <1>2. task'[t] = x /\ \A u \in Task \ {t} : task'[u] = task[u]
    BY <1>1
  <1>3. \A u \in Task : TaskOK(task'[u])
    BY <1>2 DEF IInv, ConnInv
  <1>4. ASSUME NEW k \in Flow, conns'[k] # NoTask
        PROVE  OwnerOK(k, task'[conns'[k]])
    <2>1. CASE conns'[k] = t
      BY <1>2, <1>4, <2>1
    <2>2. CASE conns'[k] # t
      BY <1>1, <1>2, <1>4, <2>2 DEF IInv, ConnInv
    <2> QED
      BY <2>1, <2>2
  <1>5. ASSUME NEW s \in Session, NEW i \in 1..Len(down'[s])
        PROVE  SenderOK(s, task'[down'[s][i].task])
    <2>1. CASE down'[s][i].task = t /\ SenderOK(s, x)
      BY <1>2, <2>1
    <2>2. ASSUME NEW j \in 1..Len(down[s]), down'[s][i] = down[s][j]
          PROVE  SenderOK(s, task'[down'[s][i].task])
      <3> DEFINE u == down[s][j].task
      <3>1. u \in Task
        <4>1. down[s][j] \in Message
          BY <1>1
        <4> QED
          BY <4>1 DEF Message
      <3>2. SenderOK(s, task[u])
        BY DEF IInv, ConnInv
      <3>3. CASE u = t
        BY <1>2, <2>2, <3>2, <3>3 DEF SenderOK
      <3>4. CASE u # t
        BY <1>2, <2>2, <3>1, <3>2, <3>4
      <3> QED
        BY <3>3, <3>4
    <2> QED
      BY <2>1, <2>2
  <1> QED
    BY <1>3, <1>4, <1>5 DEF IInv, ConnInv

(* A step that changes no task.                                            *)
LEMMA NoTaskStepInv ==
  ASSUME IInv, TypeInv', UNCHANGED task,
         \A k \in Flow : conns'[k] # NoTask => conns'[k] = conns[k],
         \A s \in Session : \A i \in 1..Len(down'[s]) :
            \E j \in 1..Len(down[s]) : down'[s][i] = down[s][j]
  PROVE  IInv'
  <1>1. \A k \in Flow : conns'[k] # NoTask => OwnerOK(k, task'[conns'[k]])
    BY DEF IInv, ConnInv
  <1>2. \A s \in Session : \A i \in 1..Len(down'[s]) : SenderOK(s, task'[down'[s][i].task])
    BY DEF IInv, ConnInv
  <1> QED
    BY <1>1, <1>2 DEF IInv, ConnInv

(* Only a live task has an entry, and no other than its own flow's.        *)
LEMMA OwnsOnlyItsFlow ==
  ASSUME IInv, NEW t \in Task, NEW k \in Flow, conns[k] = t
  PROVE  task[t].c = "live" /\ task[t].flow = k /\ OwnerOK(k, task[t])
  BY TaskAssumption DEF IInv, ConnInv, OwnerOK

(* What SendToClient may add to the queues.                                *)
LEMMA SendInv ==
  ASSUME IInv, NEW t \in Task, NEW type, NEW n, SendToClient(t, type, n),
         task[t].c # "free"
  PROVE  \A s \in Session : \A i \in 1..Len(down'[s]) :
            \/ \E j \in 1..Len(down[s]) : down'[s][i] = down[s][j]
            \/ /\ down'[s][i].task = t
               /\ task[t].flow \in {s} \X ConnId
  <1> DEFINE m == [type |-> type, task |-> t, n |-> n]
             r == task[t].flow[1]
  <1>1. task[t].flow \in Flow
    BY DEF IInv, ConnInv, TaskOK
  <1>2. r \in Session /\ task[t].flow \in {r} \X ConnId
    BY <1>1 DEF Flow
  <1>3. down \in [Session -> Seq(Message)]
    BY DEF IInv, TypeInv, TypeOK
  <1>4. CASE UNCHANGED down
    BY <1>4
  <1>5. CASE down' = [down EXCEPT ![r] = Append(@, m)]
    <2> TAKE s \in Session
    <2> TAKE i \in 1..Len(down'[s])
    <2> HIDE DEF m, r
    <2>1. CASE s # r
      BY <1>3, <1>5, <2>1
    <2>2. CASE s = r
      <3>1. down'[s] = Append(down[s], m) /\ down[s] \in Seq(Message)
        BY <1>3, <1>5, <2>2
      <3>2. (i \in 1..Len(down[s]) /\ down'[s][i] = down[s][i]) \/ down'[s][i] = m
        BY <3>1, AppendProperties
      <3> QED
        BY <1>2, <2>2, <3>2 DEF m
    <2> QED
      BY <2>1, <2>2
  <1> QED
    BY <1>4, <1>5 DEF SendToClient
-----------------------------------------------------------------------------
LEMMA ConnectInv ==
  ASSUME IInv, TypeInv', NEW k \in Flow, Connect(k)
  PROVE  IInv'
  <1>1. PICK t \in Task : /\ task[t].c = "free"
                         /\ task' = [task EXCEPT ![t] = NewTask(k, gen'[k])]
    BY DEF Connect
  <1> DEFINE x == NewTask(k, gen'[k])
  <1>2. x.c = "connecting" /\ x.flow = k /\ TaskOK(x)
    <2>1. x.dq = <<>> /\ x.out = <<>> /\ Len(x.dq) = 0 /\ Len(x.out) = 0
      BY DEF NewTask
    <2> QED
      BY <2>1 DEF NewTask, TaskOK
  <1>3. \A l \in Flow : conns[l] # t
    BY <1>1, OwnsOnlyItsFlow
  <1>4. UNCHANGED <<conns, down>>
    BY DEF Connect
  <1> HIDE DEF x
  <1> QED
    BY <1>1, <1>2, <1>3, <1>4, TaskStepInv DEF x

(* A payload is queued for the task of its own flow.                       *)
LEMMA DataInv ==
  ASSUME IInv, TypeInv', NEW k \in Flow, Data(k)
  PROVE  IInv'
  <1> DEFINE t == conns[k]
             p == [flow |-> k, gen |-> gen[k], n |-> sent'[k]]
             x == [task[t] EXCEPT !.dq = Append(@, p)]
  <1>1. CASE UNCHANGED task
    BY <1>1, NoTaskStepInv DEF Data
  <1>2. CASE t # NoTask /\ task' = [task EXCEPT ![t].dq = Append(@, p)]
    <2>1. t \in Task /\ OwnerOK(k, task[t]) /\ TaskOK(task[t])
      BY <1>2 DEF IInv, ConnInv, TypeInv, TypeOK
    <2>2. task[t] \in TaskState
      BY <2>1 DEF IInv, TypeInv, TypeOK
    <2>3. task[t].dq \in Seq(Payload) /\ task[t].out \in Seq(Payload)
          /\ task[t].due \in Nat
      BY <2>2 DEF TaskState
    <2>4. task' = [task EXCEPT ![t] = x]
      BY <1>2
    <2> DEFINE q == Append(task[t].dq, p)
    <2>5. p.flow = k
      OBVIOUS
    <2> HIDE DEF t, p
    <2>6. Len(q) = Len(task[t].dq) + 1 /\ \A i \in 1..Len(q) : q[i].flow = k
      BY <2>1, <2>3, <2>5 DEF TaskOK, OwnerOK
    <2>7. /\ x.dq = q /\ x.c = task[t].c /\ x.flow = task[t].flow
          /\ x.w = task[t].w /\ x.r = task[t].r /\ x.out = task[t].out
          /\ x.due = task[t].due /\ x.drained = task[t].drained
      BY <2>2 DEF TaskState
    <2> HIDE DEF x, q
    <2>8. TaskOK(x) /\ x.c # "free"
      <3> DEFINE a == Len(task[t].out)
                 b == Len(task[t].dq)
      <3>1. a \in Nat /\ b \in Nat /\ task[t].due \in Nat
        BY <2>3, LenProperties
      <3>2. Len(x.out) = a /\ Len(x.dq) = b + 1
        BY <2>6, <2>7
      <3>3. task[t].due <= a + b => task[t].due <= a + (b + 1)
        <4>1. \A d, i, j \in Nat : d <= i + j => d <= i + (j + 1)
          OBVIOUS
        <4> QED
          BY <3>1, <4>1, Zenon
      <3>4. \A i \in 1..Len(x.dq) : x.dq[i].flow = x.flow
        BY <2>1, <2>6, <2>7 DEF OwnerOK
      <3>5. /\ task[t].w \in {"off", "run", "polled", "drain"} =>
                 task[t].due <= a + b /\ ~task[t].drained
            /\ task[t].drained => task[t].due <= a
            /\ \A i \in 1..a : task[t].out[i].flow = task[t].flow
            /\ task[t].c = "live" /\ task[t].flow = k
        BY <2>1 DEF TaskOK, OwnerOK
      <3> HIDE DEF a, b
      <3> QED
        BY <2>7, <3>2, <3>3, <3>4, <3>5 DEF TaskOK
    <2>9. \A l \in Flow : conns[l] = t => OwnerOK(l, x)
      BY <2>1, <2>7, OwnsOnlyItsFlow DEF OwnerOK
    <2>10. UNCHANGED <<conns, down>>
      BY DEF Data
    <2> QED
      BY <2>1, <2>4, <2>7, <2>8, <2>9, <2>10, TaskStepInv
  <1> QED
    BY <1>1, <1>2 DEF Data, Lookup

(* The account is opened while the writer can still write.                 *)
LEMMA ShutdownInv ==
  ASSUME IInv, TypeInv', NEW k \in Flow, Shutdown(k)
  PROVE  IInv'
  <1> DEFINE t == conns[k]
             n == Len(task[t].out) + Len(task[t].dq)
             x == [task[t] EXCEPT !.shut = TRUE, !.due = n]
  <1>1. CASE UNCHANGED task
    BY <1>1, NoTaskStepInv DEF Shutdown
  <1>2. CASE /\ t # NoTask /\ Signallable(t)
             /\ task' = [task EXCEPT ![t].shut = TRUE, ![t].due = n]
    <2>1. t \in Task /\ OwnerOK(k, task[t]) /\ TaskOK(task[t])
      BY <1>2 DEF IInv, ConnInv, TypeInv, TypeOK
    <2>2. task[t] \in TaskState
      BY <2>1 DEF IInv, TypeInv, TypeOK
    <2>3. task' = [task EXCEPT ![t] = x]
      BY <1>2, <2>1 DEF IInv, TypeInv, TypeOK
    <2> HIDE DEF t, n
    <2>4. /\ x.dq = task[t].dq /\ x.c = task[t].c /\ x.flow = task[t].flow
          /\ x.w = task[t].w /\ x.r = task[t].r /\ x.out = task[t].out
          /\ x.due = n /\ x.drained = task[t].drained
      BY <2>2 DEF TaskState
    <2> HIDE DEF x
    <2>5. task[t].w \in {"run", "polled", "drain"}
      BY <1>2 DEF Signallable
    <2>6. n <= n
      <3>1. Len(task[t].out) \in Nat /\ Len(task[t].dq) \in Nat
        BY <2>2, LenProperties DEF TaskState
      <3> QED
        BY <3>1 DEF n
    <2>7. TaskOK(x) /\ x.c # "free"
      BY <2>1, <2>4, <2>5, <2>6 DEF TaskOK, OwnerOK, n
    <2>8. \A l \in Flow : conns[l] = t => OwnerOK(l, x)
      BY <2>1, <2>4, OwnsOnlyItsFlow DEF OwnerOK
    <2>9. UNCHANGED <<conns, down>>
      BY DEF Shutdown
    <2> QED
      BY <2>1, <2>3, <2>4, <2>7, <2>8, <2>9, TaskStepInv
  <1> QED
    BY <1>1, <1>2 DEF Shutdown, Lookup

LEMMA ResetInv ==
  ASSUME IInv, TypeInv', NEW k \in Flow, Reset(k)
  PROVE  IInv'
  <1> DEFINE t == conns[k]
             x == [task[t] EXCEPT !.rst = TRUE]
  <1>1. conns' = [conns EXCEPT ![k] = NoTask] /\ UNCHANGED down
    BY DEF Reset
  <1>2. \A l \in Flow : conns'[l] # NoTask => conns'[l] = conns[l] /\ l # k
    BY <1>1 DEF IInv, TypeInv, TypeOK
  <1>3. CASE UNCHANGED task
    BY <1>1, <1>2, <1>3, NoTaskStepInv
  <1>4. CASE t # NoTask /\ task' = [task EXCEPT ![t].rst = TRUE]
    <2>1. t \in Task /\ OwnerOK(k, task[t]) /\ TaskOK(task[t])
      BY <1>4 DEF IInv, ConnInv, TypeInv, TypeOK
    <2>2. task[t] \in TaskState
      BY <2>1 DEF IInv, TypeInv, TypeOK
    <2>3. task' = [task EXCEPT ![t] = x]
      BY <1>4
    <2> HIDE DEF t
    <2>4. /\ x.dq = task[t].dq /\ x.c = task[t].c /\ x.flow = task[t].flow
          /\ x.w = task[t].w /\ x.r = task[t].r /\ x.out = task[t].out
          /\ x.due = task[t].due /\ x.drained = task[t].drained
      BY <2>2 DEF TaskState
    <2> HIDE DEF x
    <2>5. TaskOK(x) /\ x.c # "free"
      BY <2>1, <2>4 DEF TaskOK, OwnerOK
    <2>6. \A l \in Flow : conns[l] = t => OwnerOK(l, x)
      BY <2>1, <2>4, OwnsOnlyItsFlow DEF OwnerOK
    <2>7. \A l \in Flow : conns'[l] # NoTask =>
            IF conns'[l] = t THEN OwnerOK(l, x) ELSE conns'[l] = conns[l]
      BY <1>2, <2>6
    <2>8. \A s \in Session : \A i \in 1..Len(down'[s]) :
            \E j \in 1..Len(down[s]) : down'[s][i] = down[s][j]
      BY <1>1
    <2> QED
      BY <2>1, <2>3, <2>4, <2>5, <2>7, <2>8, TaskStepInv
  <1>5. UNCHANGED task \/ (t # NoTask /\ task' = [task EXCEPT ![t].rst = TRUE])
    BY DEF Reset, Lookup
  <1> QED
    BY <1>3, <1>4, <1>5
-----------------------------------------------------------------------------
(* A step of a task itself: it may send a message of its own, and it       *)
(* leaves the table alone or removes the entry of its own flow.            *)
LEMMA OwnStepInv ==
  ASSUME IInv, TypeInv', NEW t \in Task, NEW x, task' = [task EXCEPT ![t] = x],
         TaskOK(x), x.c # "free", task[t].c # "free", x.flow = task[t].flow,
         \/ UNCHANGED conns /\ \A k \in Flow : OwnerOK(k, task[t]) => OwnerOK(k, x)
         \/ conns' = Unregister(task[t].flow),
         UNCHANGED down \/ \E type, n : SendToClient(t, type, n)
  PROVE  IInv'
  <1>1. \A s \in Session : \A i \in 1..Len(down'[s]) :
            \/ \E j \in 1..Len(down[s]) : down'[s][i] = down[s][j]
            \/ down'[s][i].task = t /\ SenderOK(s, x)
    <2>1. CASE UNCHANGED down
      BY <2>1
    <2>2. ASSUME NEW type, NEW n, SendToClient(t, type, n)
          PROVE  \A s \in Session : \A i \in 1..Len(down'[s]) :
                    \/ \E j \in 1..Len(down[s]) : down'[s][i] = down[s][j]
                    \/ /\ down'[s][i].task = t
                       /\ task[t].flow \in {s} \X ConnId
      BY <2>2, SendInv
    <2> QED
      BY <2>1, <2>2 DEF SenderOK
  <1>2. ASSUME NEW k \in Flow, conns'[k] # NoTask
        PROVE  IF conns'[k] = t THEN OwnerOK(k, x) ELSE conns'[k] = conns[k]
    <2>1. CASE /\ UNCHANGED conns
               /\ \A l \in Flow : OwnerOK(l, task[t]) => OwnerOK(l, x)
      BY <2>1, OwnsOnlyItsFlow
    <2>2. CASE conns' = Unregister(task[t].flow)
      <3>1. conns'[k] = conns[k] /\ k # task[t].flow
        BY <1>2, <2>2 DEF Unregister, IInv, TypeInv, TypeOK
      <3> QED
        BY <3>1, OwnsOnlyItsFlow
    <2> QED
      BY <2>1, <2>2
  <1> QED
    BY <1>1, <1>2, TaskStepInv

LEMMA ConnectStepInv ==
  ASSUME IInv, TypeInv', NEW t \in Task,
         ConnectOk(t) \/ ConnectFails(t) \/ ConnectAborts(t) \/ Register(t)
  PROVE  IInv'
  <1>1. task[t] \in TaskState /\ TaskOK(task[t])
    BY DEF IInv, ConnInv, TypeInv, TypeOK
  <1>2. ASSUME NEW c \in {"announced", "gone"}, task[t].c = "connecting",
               task' = [task EXCEPT ![t].c = c], UNCHANGED conns,
               UNCHANGED down \/ \E type, n : SendToClient(t, type, n)
        PROVE  IInv'
    <2> DEFINE x == [task[t] EXCEPT !.c = c]
    <2>1. task' = [task EXCEPT ![t] = x]
      BY <1>2
    <2>2. /\ x.dq = task[t].dq /\ x.c = c /\ x.flow = task[t].flow
          /\ x.w = task[t].w /\ x.r = task[t].r /\ x.out = task[t].out
          /\ x.due = task[t].due /\ x.drained = task[t].drained
      BY <1>1 DEF TaskState
    <2> HIDE DEF x
    <2>3. TaskOK(x) /\ x.c # "free"
      BY <1>1, <1>2, <2>2 DEF TaskOK
    <2>4. \A k \in Flow : ~OwnerOK(k, task[t])
      BY <1>2 DEF OwnerOK
    <2> QED
      BY <1>2, <2>1, <2>2, <2>3, <2>4, OwnStepInv
  <1>3. CASE ConnectOk(t) \/ ConnectFails(t) \/ ConnectAborts(t)
    BY <1>2, <1>3 DEF ConnectOk, ConnectFails, ConnectAborts
  <1>4. CASE Register(t)
    <2> DEFINE x == [task[t] EXCEPT !.c = "live", !.w = "run", !.r = "run"]
    <2>1. task' = [task EXCEPT ![t] = x]
      BY <1>4 DEF Register, IInv, TypeInv, TypeOK
    <2>2. /\ x.dq = task[t].dq /\ x.c = "live" /\ x.flow = task[t].flow
          /\ x.w = "run" /\ x.r = "run" /\ x.out = task[t].out
          /\ x.due = task[t].due /\ x.drained = task[t].drained
      BY <1>1 DEF TaskState
    <2> HIDE DEF x
    <2>3. task[t].c = "announced" /\ task[t].flow \in Flow /\ task[t].w = "off"
      BY <1>1, <1>4 DEF Register, TaskOK
    <2>4. TaskOK(x) /\ OwnerOK(task[t].flow, x)
      BY <1>1, <2>2, <2>3 DEF TaskOK, OwnerOK
    <2>5. conns' = [conns EXCEPT ![task[t].flow] = t] /\ UNCHANGED down
      BY <1>4 DEF Register
    <2>6. ASSUME NEW k \in Flow, conns'[k] # NoTask
          PROVE  IF conns'[k] = t THEN OwnerOK(k, x) ELSE conns'[k] = conns[k]
      <3>1. CASE k = task[t].flow
        BY <2>3, <2>4, <2>5, <3>1 DEF IInv, TypeInv, TypeOK
      <3>2. CASE k # task[t].flow
        <4>1. conns'[k] = conns[k]
          BY <2>5, <3>2 DEF IInv, TypeInv, TypeOK
        <4> QED
          BY <2>3, <4>1, OwnsOnlyItsFlow
      <3> QED
        BY <3>1, <3>2
    <2>7. \A s \in Session : \A i \in 1..Len(down'[s]) :
            \E j \in 1..Len(down[s]) : down'[s][i] = down[s][j]
      BY <2>5
    <2> QED
      BY <2>1, <2>2, <2>3, <2>4, <2>6, <2>7, TaskStepInv
  <1> QED
    BY <1>3, <1>4

LEMMA ReaderStepInv ==
  ASSUME IInv, TypeInv', NEW t \in Task,
         ReadData(t) \/ ReadEnds(t) \/ ReaderUnregister(t)
  PROVE  IInv'
  <1>1. task[t] \in TaskState /\ TaskOK(task[t])
    BY DEF IInv, ConnInv, TypeInv, TypeOK
  <1>2. task[t].c = "live"
    BY <1>1 DEF ReadData, ReadEnds, ReaderUnregister, TaskOK
  <1>3. CASE ReadData(t)
    <2> DEFINE x == [task[t] EXCEPT !.reads = @ + 1]
    <2>1. task' = [task EXCEPT ![t] = x]
      BY <1>3 DEF ReadData
    <2>2. /\ x.dq = task[t].dq /\ x.c = task[t].c /\ x.flow = task[t].flow
          /\ x.w = task[t].w /\ x.r = task[t].r /\ x.out = task[t].out
          /\ x.due = task[t].due /\ x.drained = task[t].drained
      BY <1>1 DEF TaskState
    <2> HIDE DEF x
    <2>3. TaskOK(x) /\ \A k \in Flow : OwnerOK(k, task[t]) => OwnerOK(k, x)
      BY <1>1, <2>2 DEF TaskOK, OwnerOK
    <2>4. UNCHANGED conns /\ \E type, n : SendToClient(t, type, n)
      BY <1>3 DEF ReadData
    <2> QED
      BY <1>2, <2>1, <2>2, <2>3, <2>4, OwnStepInv
  <1>4. CASE ReadEnds(t)
    <2> DEFINE x == [task[t] EXCEPT !.r = "unregister"]
    <2>1. task' = [task EXCEPT ![t] = x]
      BY <1>4 DEF ReadEnds, AfterEnd
    <2>2. /\ x.dq = task[t].dq /\ x.c = task[t].c /\ x.flow = task[t].flow
          /\ x.w = task[t].w /\ x.r = "unregister" /\ x.out = task[t].out
          /\ x.due = task[t].due /\ x.drained = task[t].drained
      BY <1>1 DEF TaskState
    <2> HIDE DEF x
    <2>3. TaskOK(x) /\ \A k \in Flow : OwnerOK(k, task[t]) => OwnerOK(k, x)
      BY <1>1, <1>2, <2>2 DEF TaskOK, OwnerOK
    <2>4. UNCHANGED conns /\ \E type, n : SendToClient(t, type, n)
      BY <1>4 DEF ReadEnds
    <2> QED
      BY <1>2, <2>1, <2>2, <2>3, <2>4, OwnStepInv
  <1>5. CASE ReaderUnregister(t)
    <2> DEFINE x == [task[t] EXCEPT !.r = "done"]
    <2>1. task' = [task EXCEPT ![t] = x]
      BY <1>5 DEF ReaderUnregister
    <2>2. /\ x.dq = task[t].dq /\ x.c = task[t].c /\ x.flow = task[t].flow
          /\ x.w = task[t].w /\ x.r = "done" /\ x.out = task[t].out
          /\ x.due = task[t].due /\ x.drained = task[t].drained
      BY <1>1 DEF TaskState
    <2> HIDE DEF x
    <2>3. TaskOK(x)
      BY <1>1, <1>2, <2>2 DEF TaskOK
    <2>4. conns' = Unregister(task[t].flow) /\ UNCHANGED down
      BY <1>5 DEF ReaderUnregister
    <2> QED
      BY <1>2, <2>1, <2>2, <2>3, <2>4, OwnStepInv
  <1> QED
    BY <1>3, <1>4, <1>5

(* The writer's own moves: a payload goes from the channel to the server,  *)
(* which the account does not notice; an end with nothing left closes it.  *)
LEMMA WriterStepInv ==
  ASSUME IInv, TypeInv', NEW t \in Task, WriterStep(t)
  PROVE  IInv'
  <1>0. task \in [Task -> TaskState]
    BY DEF IInv, TypeInv, TypeOK
  <1>1. task[t] \in TaskState /\ TaskOK(task[t])
    BY DEF IInv, ConnInv, TypeInv, TypeOK
  <1>2. task[t].c = "live" /\ task[t].w # "off"
    BY <1>1 DEF WriterStep, WriteData, WriteFails, WriteClosed, PollsEmpty,
       WriteSignalled, PollsAgain, WriteShutdown, WriterUnregister, WriterAborted, TaskOK
  <1>3. /\ task[t].dq \in Seq(Payload) /\ task[t].out \in Seq(Payload)
        /\ task[t].due \in Nat
    BY <1>1 DEF TaskState
  <1>4. ASSUME task[t].dq # <<>>
        PROVE  LET q == Tail(task[t].dq)
               IN  /\ Len(q) = Len(task[t].dq) - 1
                   /\ \A i \in 1..Len(q) : q[i].flow = task[t].flow
                   /\ Head(task[t].dq).flow = task[t].flow
    BY <1>1, <1>3, <1>4 DEF TaskOK
  <1>5. /\ UNCHANGED conns \/ conns' = Unregister(task[t].flow)
        /\ UNCHANGED down
    BY DEF WriterStep, WriteData, WriteFails, WriteClosed, PollsEmpty,
       WriteSignalled, PollsAgain, WriteShutdown, WriterUnregister, WriterAborted
  <1>6. CASE WriteData(t)
    <2> DEFINE h == Head(task[t].dq)
               q == Tail(task[t].dq)
               o == Append(task[t].out, h)
               x == [task[t] EXCEPT !.out = o, !.dq = q]
    <2>1. task' = [task EXCEPT ![t] = x]
      BY <1>0, <1>1, <1>6 DEF WriteData, Written, TaskState
    <2>2. /\ x.dq = q /\ x.c = task[t].c /\ x.flow = task[t].flow
          /\ x.w = task[t].w /\ x.r = task[t].r /\ x.out = o
          /\ x.due = task[t].due /\ x.drained = task[t].drained
      BY <1>1 DEF TaskState
    <2>3. task[t].w \in {"run", "drain"} /\ task[t].dq # <<>>
      BY <1>6 DEF WriteData
    <2>4. h \in Payload
      BY <1>3, <2>3, HeadTailProperties
    <2>5. Len(o) = Len(task[t].out) + 1 /\ \A i \in 1..Len(o) : o[i].flow = task[t].flow
      <3>1. Len(o) = Len(task[t].out) + 1
        BY <1>3, <2>4
      <3>2. \A i \in 1..Len(task[t].out) : o[i].flow = task[t].flow
        BY <1>1, <1>3, <2>4, AppendProperties DEF TaskOK
      <3>3. o[Len(task[t].out) + 1].flow = task[t].flow
        BY <1>3, <1>4, <2>3, <2>4, AppendProperties
      <3>4. Len(task[t].out) \in Nat
        BY <1>3, LenProperties
      <3> HIDE DEF o
      <3> QED
        BY <3>1, <3>2, <3>3, <3>4
    <2>6. Len(o) + Len(q) = Len(task[t].out) + Len(task[t].dq)
      <3>1. Len(task[t].out) \in Nat /\ Len(task[t].dq) \in Nat
        BY <1>3, LenProperties
      <3>2. \A i, j \in Nat : (i + 1) + (j - 1) = i + j
        OBVIOUS
      <3> QED
        BY <1>4, <2>3, <2>5, <3>1, <3>2, Zenon
    <2>7. /\ \A i \in 1..Len(q) : q[i].flow = task[t].flow
          /\ task[t].due <= Len(o) + Len(q) /\ ~task[t].drained
      BY <1>1, <1>4, <2>3, <2>6 DEF TaskOK
    <2> HIDE DEF x, o, q
    <2>8. TaskOK(x) /\ \A k \in Flow : OwnerOK(k, task[t]) => OwnerOK(k, x)
      BY <1>1, <1>2, <2>2, <2>3, <2>5, <2>7 DEF TaskOK, OwnerOK
    <2>9. UNCHANGED conns
      BY <1>6 DEF WriteData
    <2> QED
      BY <1>2, <1>5, <2>1, <2>2, <2>8, <2>9, OwnStepInv
  <1>7. CASE WriteFails(t)
    <2> DEFINE q == Tail(task[t].dq)
               x == [task[t] EXCEPT !.w = "unregister", !.dq = q,
                                    !.fin = (task[t].w = "drain")]
    <2>1. task' = [task EXCEPT ![t] = x]
      BY <1>0, <1>1, <1>7 DEF WriteFails, TaskState
    <2>2. /\ x.dq = q /\ x.c = task[t].c /\ x.flow = task[t].flow
          /\ x.w = "unregister" /\ x.r = task[t].r /\ x.out = task[t].out
          /\ x.due = task[t].due /\ x.drained = task[t].drained
      BY <1>1 DEF TaskState
    <2>3. \A i \in 1..Len(q) : q[i].flow = task[t].flow
      BY <1>4, <1>7 DEF WriteFails
    <2>4. task[t].w # "done" /\ UNCHANGED conns
      BY <1>7 DEF WriteFails
    <2> HIDE DEF x, q
    <2>5. TaskOK(x) /\ \A k \in Flow : OwnerOK(k, task[t]) => OwnerOK(k, x)
      BY <1>1, <1>2, <2>2, <2>3, <2>4 DEF TaskOK, OwnerOK
    <2> QED
      BY <1>2, <1>5, <2>1, <2>2, <2>4, <2>5, OwnStepInv
  <1>8. ASSUME NEW w \in {"run", "polled", "drain", "unregister"}, NEW sh \in BOOLEAN,
               task[t].w \in {"run", "polled"}, UNCHANGED conns,
               task' = [task EXCEPT ![t].w = w, ![t].shut = sh]
        PROVE  IInv'
    <2> DEFINE x == [task[t] EXCEPT !.w = w, !.shut = sh]
    <2>1. task' = [task EXCEPT ![t] = x]
      BY <1>8 DEF IInv, TypeInv, TypeOK
    <2>2. /\ x.dq = task[t].dq /\ x.c = task[t].c /\ x.flow = task[t].flow
          /\ x.w = w /\ x.r = task[t].r /\ x.out = task[t].out
          /\ x.due = task[t].due /\ x.drained = task[t].drained
      BY <1>1 DEF TaskState
    <2> HIDE DEF x
    <2>3. TaskOK(x) /\ \A k \in Flow : OwnerOK(k, task[t]) => OwnerOK(k, x)
      BY <1>1, <1>2, <1>8, <2>2 DEF TaskOK, OwnerOK
    <2> QED
      BY <1>2, <1>5, <1>8, <2>1, <2>2, <2>3, OwnStepInv
  <1>9. CASE WriteClosed(t) \/ PollsEmpty(t) \/ PollsAgain(t)
    <2>1. PICK w \in {"run", "polled", "unregister"} :
            /\ task[t].w \in {"run", "polled"} /\ UNCHANGED conns
            /\ task' = [task EXCEPT ![t].w = w]
      BY <1>9 DEF WriteClosed, PollsEmpty, PollsAgain
    <2>2. task' = [task EXCEPT ![t].w = w, ![t].shut = task[t].shut]
      <3>1. [task[t] EXCEPT !.w = w] = [task[t] EXCEPT !.w = w, !.shut = task[t].shut]
        BY <1>1 DEF TaskState
      <3> QED
        BY <2>1, <3>1 DEF IInv, TypeInv, TypeOK
    <2>3. task[t].shut \in BOOLEAN
      BY <1>1 DEF TaskState
    <2> QED
      BY <1>8, <2>1, <2>2, <2>3
  <1>10. CASE WriteSignalled(t)
    BY <1>8, <1>10 DEF WriteSignalled
  <1>11. CASE WriteShutdown(t)
    <2> DEFINE x == [task[t] EXCEPT !.w = "unregister", !.fin = TRUE, !.drained = TRUE]
    <2>1. task' = [task EXCEPT ![t] = x]
      BY <1>11 DEF WriteShutdown, IInv, TypeInv, TypeOK
    <2>2. /\ x.dq = task[t].dq /\ x.c = task[t].c /\ x.flow = task[t].flow
          /\ x.w = "unregister" /\ x.r = task[t].r /\ x.out = task[t].out
          /\ x.due = task[t].due /\ x.drained = TRUE
      BY <1>1 DEF TaskState
    <2>3. task[t].w = "drain" /\ task[t].dq = <<>> /\ UNCHANGED conns
      BY <1>11 DEF WriteShutdown, Drained
    <2>4. task[t].due <= Len(task[t].out)
      <3>1. Len(task[t].out) \in Nat /\ Len(task[t].dq) = 0
        BY <1>3, <2>3, LenProperties
      <3>2. task[t].due <= Len(task[t].out) + Len(task[t].dq)
        BY <1>1, <2>3 DEF TaskOK
      <3>3. \A i \in Nat : i + 0 = i
        OBVIOUS
      <3>4. Len(task[t].out) + Len(task[t].dq) = Len(task[t].out)
        BY <3>1, <3>3, Zenon
      <3> QED
        BY <3>2, <3>4, Zenon
    <2> HIDE DEF x
    <2>5. TaskOK(x) /\ \A k \in Flow : OwnerOK(k, task[t]) => OwnerOK(k, x)
      BY <1>1, <1>2, <2>2, <2>3, <2>4 DEF TaskOK, OwnerOK
    <2> QED
      BY <1>2, <1>5, <2>1, <2>2, <2>3, <2>5, OwnStepInv
  <1>12. CASE WriterUnregister(t) \/ WriterAborted(t)
    <2> DEFINE x == [task[t] EXCEPT !.w = "done", !.dq = <<>>, !.fin = TRUE]
    <2>1. task' = [task EXCEPT ![t] = x]
      BY <1>12 DEF WriterUnregister, WriterAborted, IInv, TypeInv, TypeOK
    <2>2. /\ x.dq = <<>> /\ x.c = task[t].c /\ x.flow = task[t].flow
          /\ x.w = "done" /\ x.r = task[t].r /\ x.out = task[t].out
          /\ x.due = task[t].due /\ x.drained = task[t].drained
      BY <1>1 DEF TaskState
    <2>3. Len(<<>>) = 0
      OBVIOUS
    <2>4. \/ conns' = Unregister(task[t].flow)
          \/ UNCHANGED conns /\ task[t].r \in {"unregister", "done"}
      BY <1>12 DEF WriterUnregister, WriterAborted
    <2> HIDE DEF x
    <2>5. TaskOK(x)
      BY <1>1, <1>2, <2>2, <2>3 DEF TaskOK
    <2>6. \/ conns' = Unregister(task[t].flow)
          \/ UNCHANGED conns /\ \A k \in Flow : OwnerOK(k, task[t]) => OwnerOK(k, x)
      BY <2>2, <2>4 DEF OwnerOK
    <2> QED
      BY <1>2, <1>5, <2>1, <2>2, <2>5, <2>6, OwnStepInv
  <1> QED
    BY <1>6, <1>7, <1>9, <1>10, <1>11, <1>12 DEF WriterStep

(* Delivery and the loss of the tunnel only take messages away.            *)
LEMMA EnvironmentInv ==
  ASSUME IInv, TypeInv',
         \/ \E s \in Session : Deliver(s) \/ TunnelLost(s)
         \/ \E k \in Flow : Forget(k)
  PROVE  IInv'
  <1>1. down \in [Session -> Seq(Message)]
    BY DEF IInv, TypeInv, TypeOK
  <1>2. ASSUME NEW r \in Session, Deliver(r)
        PROVE  IInv'
    <2>1. PICK n \in 1..Len(down[r]) :
            down' = [down EXCEPT ![r] = SkipNth(@, n)] /\ UNCHANGED <<conns, task>>
      BY <1>2 DEF Deliver
    <2>2. ASSUME NEW s \in Session, NEW i \in 1..Len(down'[s])
          PROVE  \E j \in 1..Len(down[s]) : down'[s][i] = down[s][j]
      <3>1. CASE s # r
        BY <1>1, <2>1, <3>1
      <3>2. CASE s = r
        <4>1. down'[s] = SkipNth(down[s], n) /\ down[s] \in Seq(Message)
          BY <1>1, <2>1, <3>2
        <4>2. Len(down[s]) \in Nat /\ Len(down'[s]) = Len(down[s]) - 1
          BY <2>1, <3>2, <4>1, LenProperties, SkipNthType
        <4>3. i \in 1..Len(down[s]) /\ i + 1 \in 1..Len(down[s])
          BY <4>2
        <4>4. down'[s][i] = down[s][i] \/ down'[s][i] = down[s][i + 1]
          BY <4>1, <4>2, <4>3 DEF SkipNth
        <4> QED
          BY <4>3, <4>4
      <3> QED
        BY <3>1, <3>2
    <2> QED
      BY <2>1, <2>2, NoTaskStepInv
  <1>3. ASSUME NEW r \in Session, TunnelLost(r)
        PROVE  IInv'
    <2>1. \A s \in Session : down'[s] = down[s] \/ Len(down'[s]) = 0
      BY <1>1, <1>3 DEF TunnelLost
    <2> QED
      BY <1>3, <2>1, NoTaskStepInv DEF TunnelLost
  <1>4. ASSUME NEW k \in Flow, Forget(k)
        PROVE  IInv'
    BY <1>4, NoTaskStepInv DEF Forget
  <1> QED
    BY <1>2, <1>3, <1>4
-----------------------------------------------------------------------------
LEMMA InvInit == Init => IInv
  <1> SUFFICES ASSUME Init PROVE IInv
    OBVIOUS
  <1>1. TaskOK(FreeTask)
    <2>1. FreeTask.dq = <<>> /\ FreeTask.out = <<>> /\ Len(<<>>) = 0
      BY DEF FreeTask, NewTask
    <2> QED
      BY <2>1 DEF FreeTask, NewTask, TaskOK
  <1>2. \A s \in Session : Len(down[s]) = 0
    BY DEF Init
  <1>3. ConnInv
    BY <1>1, <1>2 DEF Init, ConnInv
  <1> QED
    BY <1>3, TypeInit DEF IInv

LEMMA InvStep == IInv /\ [Next]_vars => IInv'
  <1> SUFFICES ASSUME IInv, [Next]_vars PROVE IInv'
    OBVIOUS
  <1>1. TypeInv'
    BY TypeStep DEF IInv
  <1>2. CASE UNCHANGED vars
    BY <1>1, <1>2, NoTaskStepInv DEF vars
  <1>3. CASE Next
    BY <1>1, <1>3, ConnectInv, DataInv, ShutdownInv, ResetInv, ConnectStepInv,
       WriterStepInv, ReaderStepInv, EnvironmentInv DEF Next
  <1> QED
    BY <1>2, <1>3

LEMMA Invariance == Spec => []IInv
  BY InvInit, InvStep, PTL DEF Spec

(* No server is given, and no session is sent, anything of another         *)
(* session's flow, however many sessions share a connection id.            *)
THEOREM SessionsIsolated == Spec => []SessionIsolation
  <1>1. IInv => SessionIsolation
    <2> SUFFICES ASSUME IInv PROVE SessionIsolation
      OBVIOUS
    <2>1. \A t \in Task : \A q \in {task[t].dq, task[t].out} :
            \A i \in 1..Len(q) : q[i].flow = task[t].flow
      BY DEF IInv, ConnInv, TaskOK
    <2>2. \A k \in Flow : conns[k] # NoTask => task[conns[k]].flow = k
      BY DEF IInv, ConnInv, OwnerOK
    <2>3. \A s \in Session : \A i \in 1..Len(down[s]) :
            task[down[s][i].task].flow \in {s} \X ConnId
      BY DEF IInv, ConnInv, SenderOK
    <2> QED
      BY <2>1, <2>2, <2>3 DEF SessionIsolation
  <1> QED
    BY <1>1, Invariance, PTL

(* The table never holds an entry whose task is through: each is still     *)
(* going to be removed by a half that runs.                                *)
THEOREM EntriesAreLive == Spec => []RegisteredIsLive
  <1>1. IInv => RegisteredIsLive
    BY DEF IInv, ConnInv, OwnerOK, RegisteredIsLive
  <1> QED
    BY <1>1, Invariance, PTL

(* A socket shut down after a drain has been given every payload that was  *)
(* accepted before the Shutdown, for any capacity of the data channel.     *)
THEOREM DrainIsComplete == Spec => []FinAfterDrain
  <1>1. IInv => FinAfterDrain
    <2> SUFFICES ASSUME IInv, NEW t \in Task, task[t].drained
                 PROVE  Len(task[t].out) >= task[t].due
      BY DEF FinAfterDrain
    <2>1. task[t] \in TaskState /\ task[t].due <= Len(task[t].out)
      BY DEF IInv, ConnInv, TaskOK, TypeInv, TypeOK
    <2>2. task[t].due \in Nat /\ Len(task[t].out) \in Nat
      BY <2>1, LenProperties DEF TaskState
    <2> QED
      BY <2>1, <2>2
  <1> QED
    BY <1>1, Invariance, PTL
-----------------------------------------------------------------------------
(***************************************************************************)
(* The order of a connection's payloads and reports.                       *)
(***************************************************************************)
(* All that a task has accepted: what the server has, then what waits.     *)
Accepted(x) == x.out \o x.dq

Increasing(q) == \A i, j \in 1..Len(q) : i < j => Before(q[i], q[j])

(* Nothing accepted is newer than payload n of incarnation g.              *)
UpTo(q, g, n) ==
  \A i \in 1..Len(q) : q[i].gen < g \/ (q[i].gen = g /\ q[i].n <= n)

Account(q, g, n) == Increasing(q) /\ UpTo(q, g, n)

(* The next payload of a flow is newer than all its tasks have accepted.   *)
InAccount(x, g, n) ==
  /\ Increasing(Accepted(x))
  /\ x.flow \in Flow => UpTo(Accepted(x), g[x.flow], n[x.flow])

UpInv == \A t \in Task : InAccount(task[t], gen, sent)

(***************************************************************************)
(* The greatest rank a task has announced, by where it stands.  A task     *)
(* that has not connected has announced nothing.                           *)
(***************************************************************************)
Announced(x) == IF x.c = "announced" THEN 0
                ELSE IF x.r = "run" THEN x.reads ELSE MaxDown + 1

Heard(x, m) == x.c \notin {"free", "connecting"} /\ Rank(m) <= Announced(x)

DownInv ==
  /\ DownstreamOrder
  /\ \A s \in Session : \A i \in 1..Len(Through(s)) :
       Heard(task[Through(s)[i].task], Through(s)[i])
-----------------------------------------------------------------------------
(* Accounts. *)

(* An account stays one when the flow moves on.                            *)
LEMMA AccountLater ==
  ASSUME NEW q \in Seq(Payload), NEW g \in Nat, NEW n \in Nat,
         NEW h \in Nat, NEW m \in Nat,
         g < h \/ (g = h /\ n <= m), Account(q, g, n)
  PROVE  Account(q, h, m)
  <1>1. \A i \in 1..Len(q) : q[i] \in Payload
    BY ElementOfSeq
  <1>2. \A i \in 1..Len(q) : q[i].gen \in Nat /\ q[i].n \in Nat
    BY <1>1 DEF Payload
  <1> QED
    BY <1>2 DEF Account, UpTo

(* The next payload of the flow may be accepted.                           *)
LEMMA AccountAppend ==
  ASSUME NEW q \in Seq(Payload), NEW n \in Nat, NEW p \in Payload,
         p.n = n + 1, Account(q, p.gen, n)
  PROVE  Account(Append(q, p), p.gen, n + 1)
  <1> DEFINE r == Append(q, p)
  <1>1. /\ Len(q) \in Nat /\ Len(r) = Len(q) + 1
        /\ \A i \in 1..Len(q) : r[i] = q[i] /\ q[i] \in Payload
        /\ r[Len(q) + 1] = p
    BY AppendProperties, LenProperties, ElementOfSeq
  <1>2. /\ p.gen \in Nat
        /\ \A i \in 1..Len(q) : q[i].gen \in Nat /\ q[i].n \in Nat
    BY <1>1 DEF Payload
  <1> HIDE DEF r
  <1>3. \A i \in 1..Len(q) : Before(q[i], p)
    BY <1>2 DEF Account, UpTo, Before
  <1>4. Increasing(r)
    <2> SUFFICES ASSUME NEW i \in 1..Len(r), NEW j \in 1..Len(r), i < j
                 PROVE  Before(r[i], r[j])
      BY DEF Increasing
    <2>1. i \in 1..Len(q) /\ (j \in 1..Len(q) \/ j = Len(q) + 1)
      BY <1>1
    <2> QED
      BY <1>1, <1>3, <2>1 DEF Account, Increasing
  <1>5. UpTo(r, p.gen, n + 1)
    <2> SUFFICES ASSUME NEW i \in 1..Len(r)
                 PROVE  r[i].gen < p.gen \/ (r[i].gen = p.gen /\ r[i].n <= n + 1)
      BY DEF UpTo
    <2>1. i \in 1..Len(q) \/ i = Len(q) + 1
      BY <1>1
    <2>2. CASE i = Len(q) + 1
      BY <1>1, <1>2, <2>2
    <2>3. CASE i \in 1..Len(q)
      BY <1>1, <1>2, <2>3 DEF Account, UpTo
    <2> QED
      BY <2>1, <2>2, <2>3
  <1> QED
    BY <1>4, <1>5 DEF Account, r

(* What is left of a sequence when elements are dropped is still in order. *)
LEMMA AccountThinned ==
  ASSUME NEW q \in Seq(Payload), NEW r \in Seq(Payload), NEW g, NEW n,
         Account(q, g, n),
         NEW f \in [1..Len(r) -> 1..Len(q)],
         \A i \in 1..Len(r) : r[i] = q[f[i]],
         \A i, j \in 1..Len(r) : i < j => f[i] < f[j]
  PROVE  Account(r, g, n)
  <1>1. Increasing(r)
    BY DEF Account, Increasing
  <1>2. UpTo(r, g, n)
    BY DEF Account, UpTo
  <1> QED
    BY <1>1, <1>2 DEF Account

(* The oldest element that waits joins what is before it.                  *)
LEMMA HeadMoves ==
  ASSUME NEW S, NEW o \in Seq(S), NEW d \in Seq(S), d # <<>>
  PROVE  Append(o, Head(d)) \o Tail(d) = o \o d
  <1> DEFINE h == Head(d)
             e == Tail(d)
  <1>1. /\ Len(o) \in Nat /\ Len(d) \in Nat
        /\ Len(o \o d) = Len(o) + Len(d)
        /\ \A i \in 1..(Len(o) + Len(d)) :
             (o \o d)[i] = IF i <= Len(o) THEN o[i] ELSE d[i - Len(o)]
    BY ConcatProperties, LenProperties
  <1>2. /\ h \in S /\ e \in Seq(S) /\ h = d[1]
        /\ Len(e) = Len(d) - 1 /\ Len(d) >= 1
        /\ \A i \in 1..Len(e) : e[i] = d[i + 1]
    BY <1>1, HeadTailProperties, EmptySeq
  <1> HIDE DEF h, e
  <1> DEFINE a == Append(o, h)
  <1>3. /\ a \in Seq(S) /\ Len(a) = Len(o) + 1
        /\ \A i \in 1..Len(o) : a[i] = o[i]
        /\ a[Len(o) + 1] = h
    BY <1>2, AppendProperties
  <1> HIDE DEF a, h, e
  <1>c. /\ a \o e \in Seq(S)
        /\ Len(a \o e) = Len(a) + Len(e)
        /\ \A i \in 1..(Len(a) + Len(e)) :
             (a \o e)[i] = IF i <= Len(a) THEN a[i] ELSE e[i - Len(a)]
    BY <1>2, <1>3, ConcatProperties
  <1>l. Len(a) + Len(e) = Len(o) + Len(d)
    BY <1>1, <1>2, <1>3
  <1>4. /\ a \o e \in Seq(S)
        /\ Len(a \o e) = Len(o) + Len(d)
        /\ \A i \in 1..(Len(o) + Len(d)) :
             (a \o e)[i] = IF i <= Len(o) + 1 THEN a[i] ELSE e[i - (Len(o) + 1)]
    BY <1>3, <1>c, <1>l
  <1>5. ASSUME NEW i \in 1..(Len(o) + Len(d))
        PROVE  (a \o e)[i] = (o \o d)[i]
    <2>1. CASE i <= Len(o)
      BY <1>1, <1>3, <1>4, <2>1
    <2>2. CASE i = Len(o) + 1
      <3>1. (a \o e)[i] = h /\ (o \o d)[i] = d[i - Len(o)] /\ i - Len(o) = 1
        BY <1>1, <1>3, <1>4, <2>2
      <3> QED
        BY <1>2, <3>1
    <2>3. CASE i > Len(o) + 1
      <3> DEFINE k == i - (Len(o) + 1)
      <3>1. k \in 1..Len(e) /\ k + 1 = i - Len(o)
        BY <1>1, <1>2, <2>3
      <3>2. (a \o e)[i] = e[k] /\ (o \o d)[i] = d[i - Len(o)]
        BY <1>1, <1>4, <2>3
      <3> HIDE DEF k
      <3>3. e[k] = d[k + 1]
        BY <1>2, <3>1
      <3>4. (o \o d)[i] = d[k + 1]
        BY <3>1, <3>2
      <3> QED
        BY <3>2, <3>3, <3>4, Zenon
    <2>4. i <= Len(o) \/ i = Len(o) + 1 \/ i > Len(o) + 1
      BY <1>1
    <2> QED
      BY <2>1, <2>2, <2>3, <2>4, Zenon
  <1>6. o \o d \in Seq(S)
    BY ConcatProperties
  <1> QED
    BY <1>1, <1>4, <1>5, <1>6, SeqEqual DEF a, h, e

(***************************************************************************)
(* What a writer does to its two sequences: nothing, hand the oldest       *)
(* waiting payload to the server, lose it, or lose all that waits.         *)
(***************************************************************************)
LEMMA AcceptedKept ==
  ASSUME NEW o \in Seq(Payload), NEW d \in Seq(Payload), NEW g, NEW n,
         Account(o \o d, g, n)
  PROVE  /\ Account(o \o <<>>, g, n)
         /\ d # <<>> => /\ Account(Append(o, Head(d)) \o Tail(d), g, n)
                        /\ Account(o \o Tail(d), g, n)
  <1>1. /\ Len(o) \in Nat /\ Len(d) \in Nat
        /\ Len(o \o d) = Len(o) + Len(d)
        /\ \A i \in 1..(Len(o) + Len(d)) :
             (o \o d)[i] = IF i <= Len(o) THEN o[i] ELSE d[i - Len(o)]
    BY ConcatProperties, LenProperties
  <1>t. o \o d \in Seq(Payload)
    BY ConcatProperties
  <1>2. Account(o \o <<>>, g, n)
    <2>1. o \o <<>> = o
      BY ConcatEmptySeq
    <2> DEFINE f == [i \in 1..Len(o) |-> i]
    <2>2. f \in [1..Len(o) -> 1..Len(o \o d)]
      BY <1>1
    <2>3. \A i \in 1..Len(o) : o[i] = (o \o d)[f[i]]
      BY <1>1
    <2>4. \A i, j \in 1..Len(o) : i < j => f[i] < f[j]
      OBVIOUS
    <2> HIDE DEF f
    <2>5. Account(o, g, n)
      BY <1>t, <2>2, <2>3, <2>4, AccountThinned
    <2> QED
      BY <2>1, <2>5
  <1>3. ASSUME d # <<>>
        PROVE  /\ Account(Append(o, Head(d)) \o Tail(d), g, n)
               /\ Account(o \o Tail(d), g, n)
    <2> DEFINE h == Head(d)
               e == Tail(d)
    <2>1. /\ h \in Payload /\ e \in Seq(Payload) /\ h = d[1]
          /\ Len(e) = Len(d) - 1 /\ Len(d) >= 1
          /\ \A i \in 1..Len(e) : e[i] = d[i + 1]
      BY <1>1, <1>3, HeadTailProperties, EmptySeq
    <2> HIDE DEF h, e
    <2>2. Append(o, h) \o e = o \o d
      BY <1>3, HeadMoves DEF h, e
    <2>3. Account(o \o e, g, n)
      <3>1. /\ Len(o \o e) = Len(o) + Len(e)
            /\ \A i \in 1..(Len(o) + Len(e)) :
                 (o \o e)[i] = IF i <= Len(o) THEN o[i] ELSE e[i - Len(o)]
        BY <2>1, ConcatProperties
      <3> DEFINE f == [i \in 1..Len(o \o e) |-> IF i <= Len(o) THEN i ELSE i + 1]
      <3>2. f \in [1..Len(o \o e) -> 1..Len(o \o d)]
        BY <1>1, <2>1, <3>1
      <3>3. ASSUME NEW i \in 1..Len(o \o e)
            PROVE  (o \o e)[i] = (o \o d)[f[i]]
        <4>1. CASE i <= Len(o)
          BY <1>1, <2>1, <3>1, <4>1
        <4>2. CASE i > Len(o)
          <5> DEFINE k == i - Len(o)
          <5>1. k \in 1..Len(e) /\ (i + 1) - Len(o) = k + 1
            BY <1>1, <2>1, <3>1, <4>2
          <5>2. (o \o e)[i] = e[k] /\ (o \o d)[i + 1] = d[k + 1]
            BY <1>1, <2>1, <3>1, <4>2, <5>1
          <5>3. f[i] = i + 1
            BY <4>2
          <5> HIDE DEF k, f
          <5>4. e[k] = d[k + 1]
            BY <2>1, <5>1
          <5> QED
            BY <5>2, <5>3, <5>4, Zenon
        <4>3. i <= Len(o) \/ i > Len(o)
          BY <1>1, <2>1, <3>1
        <4> HIDE DEF f
        <4> QED
          BY <4>1, <4>2, <4>3, Zenon
      <3>4. \A i, j \in 1..Len(o \o e) : i < j => f[i] < f[j]
        BY <1>1, <3>1
      <3>5. o \o e \in Seq(Payload)
        BY <2>1, ConcatProperties
      <3> HIDE DEF f
      <3> QED
        BY <1>t, <3>2, <3>3, <3>4, <3>5, AccountThinned
    <2> QED
      BY <2>2, <2>3 DEF h, e
  <1> QED
    BY <1>2, <1>3
(* The sequences joined, then extended.                                    *)
LEMMA ConcatAppend ==
  ASSUME NEW S, NEW o \in Seq(S), NEW d \in Seq(S), NEW p \in S
  PROVE  o \o Append(d, p) = Append(o \o d, p)
  <1> DEFINE e == Append(d, p)
             q == o \o d
  <1>1. /\ q \in Seq(S) /\ Len(q) = Len(o) + Len(d)
        /\ \A i \in 1..(Len(o) + Len(d)) :
             q[i] = IF i <= Len(o) THEN o[i] ELSE d[i - Len(o)]
    BY ConcatProperties
  <1>2. /\ e \in Seq(S) /\ Len(e) = Len(d) + 1 /\ e[Len(d) + 1] = p
        /\ \A i \in 1..Len(d) : e[i] = d[i]
    BY AppendProperties
  <1>4. /\ Append(q, p) \in Seq(S) /\ Len(Append(q, p)) = Len(q) + 1
        /\ Append(q, p)[Len(q) + 1] = p
        /\ \A i \in 1..Len(q) : Append(q, p)[i] = q[i]
    <2>1. q \in Seq(S)
      BY <1>1
    <2> HIDE DEF q
    <2> QED
      BY <2>1, AppendProperties
  <1> HIDE DEF e, q
  <1>3. /\ o \o e \in Seq(S) /\ Len(o \o e) = Len(o) + Len(e)
        /\ \A i \in 1..(Len(o) + Len(e)) :
             (o \o e)[i] = IF i <= Len(o) THEN o[i] ELSE e[i - Len(o)]
    BY <1>2, ConcatProperties
  <1>5. Len(o) \in Nat /\ Len(d) \in Nat
    BY LenProperties
  <1>6. Len(o \o e) = Len(Append(q, p)) /\ Len(o \o e) = Len(o) + Len(d) + 1
    BY <1>1, <1>2, <1>3, <1>4, <1>5
  <1>7. ASSUME NEW i \in 1..Len(o \o e)
        PROVE  (o \o e)[i] = Append(q, p)[i]
    <2>1. CASE i <= Len(o)
      <3>1. i \in 1..(Len(o) + Len(d)) /\ i \in 1..(Len(o) + Len(e))
        BY <1>2, <1>5, <1>6, <2>1
      <3> QED
        BY <1>1, <1>3, <1>4, <2>1, <3>1
    <2>2. CASE i > Len(o) /\ i <= Len(o) + Len(d)
      <3> DEFINE k == i - Len(o)
      <3>1. /\ k \in 1..Len(d) /\ ~(i <= Len(o))
            /\ i \in 1..(Len(o) + Len(d)) /\ i \in 1..(Len(o) + Len(e))
        BY <1>2, <1>5, <1>6, <2>2
      <3>2. (o \o e)[i] = e[k] /\ q[i] = d[k]
        BY <1>1, <1>3, <3>1
      <3> HIDE DEF k
      <3>3. e[k] = d[k]
        BY <1>2, <3>1
      <3> QED
        BY <1>1, <1>4, <3>1, <3>2, <3>3
    <2>3. CASE i = Len(o) + Len(d) + 1
      <3>1. i - Len(o) = Len(d) + 1 /\ ~(i <= Len(o)) /\ i \in 1..(Len(o) + Len(e))
            /\ i = Len(q) + 1
        BY <1>1, <1>2, <1>5, <2>3
      <3>2. (o \o e)[i] = e[Len(d) + 1]
        BY <1>3, <3>1
      <3> QED
        BY <1>2, <1>4, <3>1, <3>2
    <2>4. i <= Len(o) \/ (i > Len(o) /\ i <= Len(o) + Len(d)) \/ i = Len(o) + Len(d) + 1
      BY <1>5, <1>6
    <2> QED
      BY <2>1, <2>2, <2>3, <2>4, Zenon
  <1>8. o \o e = Append(q, p)
    BY <1>3, <1>4, <1>6, <1>7, SeqEqual
  <1> QED
    BY <1>8 DEF e, q
-----------------------------------------------------------------------------
(* Upstream. *)

(* A step that replaces a task by one of the same flow, whose account is   *)
(* in order, and opens no flow anew.                                       *)
LEMMA TaskStepUp ==
  ASSUME TypeOK, UpInv, NEW t \in Task, NEW x, task' = [task EXCEPT ![t] = x],
         UNCHANGED <<gen, sent>>, InAccount(x, gen, sent)
  PROVE  UpInv'
  <1> SUFFICES ASSUME NEW u \in Task PROVE InAccount(task'[u], gen', sent')
    BY DEF UpInv
  <1>1. task'[u] = IF u = t THEN x ELSE task[u]
    BY DEF TypeOK
  <1> QED
    BY <1>1 DEF UpInv, InAccount

(* A step of a task itself adds nothing to what it has accepted.           *)
LEMMA OwnStepUp ==
  ASSUME IInv, UpInv, NEW t \in Task,
         \/ ConnectOk(t) \/ ConnectFails(t) \/ ConnectAborts(t) \/ Register(t)
         \/ WriterStep(t) \/ ReadData(t) \/ ReadEnds(t) \/ ReaderUnregister(t)
  PROVE  UpInv'
  <1> DEFINE o == task[t].out
             d == task[t].dq
             x == task'[t]
  <1>1. /\ task \in [Task -> TaskState] /\ task[t] \in TaskState
        /\ o \in Seq(Payload) /\ d \in Seq(Payload)
    BY DEF IInv, TypeInv, TypeOK, TaskState
  <1>2. /\ task' = [task EXCEPT ![t] = x] /\ x.flow = task[t].flow
        /\ \/ x.out = o /\ x.dq \in {d, <<>>}
           \/ x.out = o /\ x.dq = Tail(d) /\ d # <<>>
           \/ x.out = Append(o, Head(d)) /\ x.dq = Tail(d) /\ d # <<>>
    <2>1. CASE ConnectOk(t) \/ ConnectFails(t) \/ ConnectAborts(t) \/ Register(t)
      BY <1>1, <2>1 DEF ConnectOk, ConnectFails, ConnectAborts, Register, TaskState
    <2>2. CASE WriteData(t) \/ WriteFails(t) \/ WriteClosed(t) \/ PollsEmpty(t)
      BY <1>1, <2>2 DEF WriteData, Written, WriteFails, WriteClosed, PollsEmpty, TaskState
    <2>3. CASE \/ WriteSignalled(t) \/ PollsAgain(t) \/ WriteShutdown(t)
               \/ WriterUnregister(t) \/ WriterAborted(t)
      BY <1>1, <2>3 DEF WriteSignalled, PollsAgain, WriteShutdown, WriterUnregister,
         WriterAborted, TaskState
    <2>4. CASE ReadData(t) \/ ReadEnds(t) \/ ReaderUnregister(t)
      BY <1>1, <2>4 DEF ReadData, ReadEnds, ReaderUnregister, TaskState
    <2> QED
      BY <2>1, <2>2, <2>3, <2>4 DEF WriterStep
  <1>3. UNCHANGED <<gen, sent>>
    BY DEF ConnectOk, ConnectFails, ConnectAborts, Register, WriterStep,
       WriteData, WriteFails, WriteClosed, PollsEmpty, WriteSignalled, PollsAgain,
       WriteShutdown, WriterUnregister, WriterAborted, ReadData, ReadEnds,
       ReaderUnregister, proxy
  <1>4. task[t].flow \in Flow
    <2>1. TaskOK(task[t])
      BY DEF IInv, ConnInv
    <2>2. task[t].c # "free"
      BY <2>1 DEF TaskOK, ConnectOk, ConnectFails, ConnectAborts, Register, WriterStep,
         WriteData, WriteFails, WriteClosed, PollsEmpty, WriteSignalled, PollsAgain,
         WriteShutdown, WriterUnregister, WriterAborted, ReadData, ReadEnds,
         ReaderUnregister
    <2> QED
      BY <2>1, <2>2 DEF TaskOK
  <1>5. Account(o \o d, gen[task[t].flow], sent[task[t].flow])
    BY <1>4 DEF UpInv, InAccount, Account, Accepted
  <1> HIDE DEF o, d, x
  <1>6. Account(Accepted(x), gen[x.flow], sent[x.flow])
    BY <1>1, <1>2, <1>5, AcceptedKept DEF Accepted
  <1>7. InAccount(x, gen, sent)
    BY <1>6 DEF InAccount, Account
  <1>8. TypeOK
    BY DEF IInv, TypeInv
  <1> QED
    BY <1>2, <1>3, <1>7, <1>8, TaskStepUp

(* A new incarnation is newer than all that any task has accepted.         *)
LEMMA ConnectUp ==
  ASSUME TypeInv, UpInv, NEW k \in Flow, Connect(k)
  PROVE  UpInv'
  <1>1. PICK t \in Task : task' = [task EXCEPT ![t] = NewTask(k, gen'[k])]
    BY DEF Connect
  <1>2. /\ gen \in [Flow -> Nat] /\ sent \in [Flow -> Nat]
        /\ gen' = [gen EXCEPT ![k] = @ + 1] /\ sent' = [sent EXCEPT ![k] = 0]
        /\ task \in [Task -> TaskState]
    BY BoundAssumption DEF Connect, TypeInv, TypeOK
  <1> SUFFICES ASSUME NEW u \in Task PROVE InAccount(task'[u], gen', sent')
    BY DEF UpInv
  <1>3. CASE u = t
    <2>1. task'[u].out = <<>> /\ task'[u].dq = <<>>
      BY <1>1, <1>2, <1>3 DEF NewTask
    <2>2. Accepted(task'[u]) = <<>> /\ Len(<<>>) = 0
      BY <2>1, ConcatEmptySeq, EmptySeq DEF Accepted
    <2> QED
      BY <2>2 DEF InAccount, Increasing, UpTo
  <1>4. CASE u # t
    <2> DEFINE l == task[u].flow
               q == Accepted(task[u])
    <2>1. task'[u] = task[u] /\ task[u] \in TaskState
      BY <1>1, <1>2, <1>4
    <2>2. q \in Seq(Payload)
      BY <2>1, ConcatProperties DEF Accepted, TaskState
    <2>3. Increasing(q) /\ (l \in Flow => UpTo(q, gen[l], sent[l]))
      BY DEF UpInv, InAccount
    <2> HIDE DEF q
    <2>4. CASE l = k
      <3>1. gen[l] \in Nat /\ sent[l] \in Nat /\ gen'[l] = gen[l] + 1 /\ sent'[l] = 0
        BY <1>2, <2>4
      <3>2. gen[l] < gen'[l] /\ gen'[l] \in Nat /\ sent'[l] \in Nat
        BY <3>1
      <3>3. Account(q, gen[l], sent[l])
        BY <2>3, <2>4 DEF Account
      <3>4. Account(q, gen'[l], sent'[l])
        BY <2>2, <3>1, <3>2, <3>3, AccountLater
      <3> QED
        BY <2>1, <3>4 DEF Account, InAccount, q
    <2>5. CASE l # k
      <3>1. l \in Flow => gen'[l] = gen[l] /\ sent'[l] = sent[l]
        BY <1>2, <2>5
      <3> QED
        BY <2>1, <2>3, <3>1 DEF InAccount, q
    <2> QED
      BY <2>4, <2>5
  <1> QED
    BY <1>3, <1>4

(* The payload that is sent next is the newest of its flow, and is queued  *)
(* for a task of its flow or dropped.                                      *)
LEMMA DataUp ==
  ASSUME IInv, UpInv, NEW k \in Flow, Data(k)
  PROVE  UpInv'
  <1> DEFINE p == [flow |-> k, gen |-> gen[k], n |-> sent'[k]]
  <1>1. /\ gen' = gen /\ gen \in [Flow -> Nat] /\ sent \in [Flow -> Nat]
        /\ sent' = [sent EXCEPT ![k] = @ + 1] /\ sent[k] < MaxUp
        /\ task \in [Task -> TaskState]
    BY BoundAssumption DEF Data, IInv, TypeInv, TypeOK
  <1>2. p \in Payload /\ p.gen = gen[k] /\ p.n = sent[k] + 1
    <2>1. gen[k] \in 1..MaxGen
      <3>1. phase[k] = "open" /\ gen[k] \in 0..MaxGen
        BY DEF Data, IInv, TypeInv, TypeOK
      <3>2. gen[k] > 0
        BY <3>1 DEF IInv, TypeInv, KnownWasOpened
      <3> QED
        BY <3>1, <3>2, BoundAssumption
    <2>2. sent'[k] \in 1..MaxUp /\ sent'[k] = sent[k] + 1
      BY <1>1, BoundAssumption
    <2> QED
      BY <2>1, <2>2 DEF Payload
  <1>3. ASSUME NEW u \in Task
        PROVE  /\ Accepted(task[u]) \in Seq(Payload)
               /\ task[u].out \in Seq(Payload) /\ task[u].dq \in Seq(Payload)
               /\ InAccount(task[u], gen, sent)
    BY <1>1, ConcatProperties DEF Accepted, TaskState, UpInv
  <1>4. ASSUME NEW u \in Task, task'[u] = task[u]
        PROVE  InAccount(task'[u], gen', sent')
    <2> DEFINE q == Accepted(task[u])
               l == task[u].flow
    <2>1. Increasing(q) /\ (l \in Flow => UpTo(q, gen[l], sent[l]))
      BY <1>3 DEF InAccount
    <2>2. q \in Seq(Payload)
      BY <1>3
    <2> HIDE DEF q
    <2>3. CASE l = k
      <3>1. Account(q, gen[k], sent[k])
        BY <2>1, <2>3 DEF Account
      <3>2. gen[k] \in Nat /\ sent[k] \in Nat /\ sent'[k] \in Nat /\ sent[k] <= sent'[k]
        BY <1>1
      <3>3. Account(q, gen[k], sent'[k])
        BY <2>2, <3>1, <3>2, AccountLater
      <3> QED
        BY <1>1, <1>4, <2>3, <3>3 DEF Account, InAccount, q
    <2>4. CASE l # k
      <3>1. l \in Flow => sent'[l] = sent[l]
        BY <1>1, <2>4
      <3> QED
        BY <1>1, <1>4, <2>1, <3>1 DEF InAccount, q
    <2> QED
      BY <2>3, <2>4
  <1>5. CASE UNCHANGED task
    BY <1>4, <1>5 DEF UpInv
  <1>6. CASE conns[k] # NoTask /\ task' = [task EXCEPT ![conns[k]].dq = Append(@, p)]
    <2> DEFINE t == conns[k]
    <2>1. t \in Task /\ task[t].flow = k
      BY <1>6 DEF IInv, ConnInv, OwnerOK, TypeInv, TypeOK
    <2> HIDE DEF t, p
    <2>2. /\ \A u \in Task \ {t} : task'[u] = task[u]
          /\ task'[t].flow = k /\ task'[t].out = task[t].out
          /\ task'[t].dq = Append(task[t].dq, p)
      BY <1>1, <1>6, <2>1 DEF t, TaskState
    <2>3. Accepted(task'[t]) = Append(Accepted(task[t]), p)
      <3>1. task[t].out \o Append(task[t].dq, p) = Append(task[t].out \o task[t].dq, p)
        <4>1. task[t].out \in Seq(Payload) /\ task[t].dq \in Seq(Payload) /\ p \in Payload
          BY <1>2, <1>3, <2>1
        <4>2. \A a, b \in Seq(Payload) : \A e \in Payload :
                a \o Append(b, e) = Append(a \o b, e)
          BY ConcatAppend
        <4> DEFINE a == task[t].out
                   b == task[t].dq
        <4> HIDE DEF a, b
        <4>3. a \in Seq(Payload) /\ b \in Seq(Payload) /\ p \in Payload
          BY <4>1 DEF a, b
        <4>4. a \o Append(b, p) = Append(a \o b, p)
          BY <4>2, <4>3, Zenon
        <4> QED
          BY <4>4, Zenon DEF a, b
      <3> QED
        BY <2>2, <3>1 DEF Accepted
    <2>4. Account(Accepted(task[t]), p.gen, sent[k])
      BY <1>2, <1>3, <2>1 DEF InAccount, Account
    <2>5. Account(Append(Accepted(task[t]), p), p.gen, sent[k] + 1)
      BY <1>1, <1>2, <1>3, <2>1, <2>4, AccountAppend
    <2>6. gen'[k] = p.gen /\ sent'[k] = sent[k] + 1
      BY <1>1, <1>2
    <2>7. InAccount(task'[t], gen', sent')
      BY <2>2, <2>3, <2>5, <2>6 DEF Account, InAccount
    <2> QED
      BY <1>4, <2>2, <2>7 DEF UpInv
  <1> QED
    BY <1>5, <1>6 DEF Data, Lookup

(* Every other message, and the environment, adds nothing.                 *)
LEMMA OtherUp ==
  ASSUME TypeOK, UpInv,
         \/ \E k \in Flow : Shutdown(k) \/ Reset(k) \/ Forget(k)
         \/ \E s \in Session : Deliver(s) \/ TunnelLost(s)
         \/ UNCHANGED vars
  PROVE  UpInv'
  <1>1. UNCHANGED <<gen, sent>>
    BY DEF Shutdown, Reset, Forget, Deliver, TunnelLost, vars, proxy
  <1>2. ASSUME NEW t \in Task
        PROVE  /\ task'[t].flow = task[t].flow
               /\ task'[t].out = task[t].out /\ task'[t].dq = task[t].dq
    <2>1. task \in [Task -> TaskState] /\ task[t] \in TaskState
      BY DEF TypeOK
    <2>2. CASE UNCHANGED task
      BY <2>2
    <2>3. ASSUME NEW u, NEW n,
                 \/ task' = [task EXCEPT ![u].shut = TRUE, ![u].due = n]
                 \/ task' = [task EXCEPT ![u].rst = TRUE]
          PROVE  /\ task'[t].flow = task[t].flow
                 /\ task'[t].out = task[t].out /\ task'[t].dq = task[t].dq
      <3>1. CASE u \notin Task
        BY <2>1, <2>3, <3>1
      <3>2. CASE u \in Task /\ u # t
        BY <2>1, <2>3, <3>2
      <3>3. CASE u = t /\ task' = [task EXCEPT ![u].rst = TRUE]
        BY <2>1, <3>3 DEF TaskState
      <3>4. CASE u = t /\ task' = [task EXCEPT ![u].shut = TRUE, ![u].due = n]
        <4>1. task'[t] = [task[t] EXCEPT !.shut = TRUE, !.due = n]
          BY <2>1, <3>4
        <4> QED
          BY <2>1, <4>1 DEF TaskState
      <3> QED
        BY <2>3, <3>1, <3>2, <3>3, <3>4
    <2>4. \/ UNCHANGED task
          \/ \E u, n : \/ task' = [task EXCEPT ![u].shut = TRUE, ![u].due = n]
                      \/ task' = [task EXCEPT ![u].rst = TRUE]
      <3>1. CASE \/ \E k \in Flow : Forget(k)
                 \/ \E r \in Session : Deliver(r) \/ TunnelLost(r)
                 \/ UNCHANGED vars
        BY <3>1 DEF Forget, Deliver, TunnelLost, vars
      <3>2. ASSUME NEW k \in Flow, Shutdown(k) \/ Reset(k)
            PROVE  \/ UNCHANGED task
                   \/ \E u, n : \/ task' = [task EXCEPT ![u].shut = TRUE, ![u].due = n]
                               \/ task' = [task EXCEPT ![u].rst = TRUE]
        BY <3>2, Zenon DEF Shutdown, Reset
      <3> QED
        BY <3>1, <3>2
    <2> QED
      BY <2>2, <2>3, <2>4
  <1> QED
    BY <1>1, <1>2 DEF UpInv, InAccount, Accepted

LEMMA UpInit == Init => UpInv
  <1> SUFFICES ASSUME Init, NEW t \in Task PROVE InAccount(task[t], gen, sent)
    BY DEF UpInv
  <1>1. task[t].out = <<>> /\ task[t].dq = <<>>
    BY DEF Init, FreeTask, NewTask
  <1>2. Accepted(task[t]) = <<>> /\ Len(<<>>) = 0
    BY <1>1, ConcatEmptySeq, EmptySeq DEF Accepted
  <1> QED
    BY <1>2 DEF InAccount, Increasing, UpTo

LEMMA UpStep == IInv /\ UpInv /\ [Next]_vars => UpInv'
  <1> SUFFICES ASSUME IInv, UpInv, [Next]_vars PROVE UpInv'
    OBVIOUS
  <1>1. TypeInv /\ TypeOK
    BY DEF IInv, TypeInv
  <1> QED
    BY <1>1, ConnectUp, DataUp, OwnStepUp, OtherUp DEF Next

(* What the server has been given of a flow, and what still waits, is in   *)
(* the order the proxy sent it, without repetition, across incarnations.   *)
THEOREM UpstreamIsOrdered == Spec => []UpstreamOrder
  <1>1. UpInv => UpstreamOrder
    BY DEF UpInv, InAccount, Increasing, Accepted, UpstreamOrder
  <1> QED
    BY <1>1, UpInit, UpStep, Invariance, PTL DEF Spec
-----------------------------------------------------------------------------
(* Downstream. *)

LEMMA RankType ==
  ASSUME NEW m \in Message
  PROVE  /\ Rank(m) \in 0..(MaxDown + 1)
         /\ m.type = "Connected" => Rank(m) = 0
         /\ m.type = "Data" => Rank(m) = m.n
         /\ m.type \in {"ConnectFailed", "Shutdown", "Reset"} => Rank(m) = MaxDown + 1
  BY BoundAssumption DEF Rank, Message

LEMMA ThroughType ==
  ASSUME TypeOK, NEW s \in Session
  PROVE  /\ Through(s) \in Seq(Message)
         /\ linked[s] => Through(s) = told[s] \o down[s]
         /\ ~linked[s] => Through(s) = told[s]
  <1>1. told[s] \in Seq(Message) /\ down[s] \in Seq(Message)
    BY DEF TypeOK
  <1>2. told[s] \o down[s] \in Seq(Message) /\ told[s] \o <<>> = told[s]
    BY <1>1, ConcatProperties, ConcatEmptySeq
  <1> QED
    BY <1>1, <1>2 DEF Through

(* What comes, or came, through a tunnel is what its task has announced.   *)
LEMMA SenderHeard ==
  ASSUME IInv, DownInv, NEW s \in Session, NEW i \in 1..Len(Through(s))
  PROVE  /\ Through(s)[i] \in Message /\ Through(s)[i].task \in Task
         /\ Heard(task[Through(s)[i].task], Through(s)[i])
  <1>1. Through(s) \in Seq(Message)
    BY ThroughType DEF IInv, TypeInv
  <1>2. Through(s)[i] \in Message
    BY <1>1
  <1> QED
    BY <1>2 DEF DownInv, Message

(* A step by which no task takes back what it announced, and nothing new   *)
(* goes through a tunnel.                                                  *)
LEMMA FewerDown ==
  ASSUME IInv, DownInv,
         \A u \in Task : \A m \in Message : Heard(task[u], m) => Heard(task'[u], m),
         \A s \in Session : \A i \in 1..Len(Through(s)') :
           i \in 1..Len(Through(s)) /\ Through(s)'[i] = Through(s)[i]
  PROVE  DownInv'
  <1>1. DownstreamOrder'
    <2> SUFFICES ASSUME NEW s \in Session, NEW i \in 1..Len(Through(s)'),
                        NEW j \in 1..Len(Through(s)'),
                        i < j, Through(s)'[i].task = Through(s)'[j].task
                 PROVE  Rank(Through(s)'[i]) < Rank(Through(s)'[j])
      BY DEF DownstreamOrder
    <2>1. /\ i \in 1..Len(Through(s)) /\ j \in 1..Len(Through(s))
          /\ Through(s)'[i] = Through(s)[i] /\ Through(s)'[j] = Through(s)[j]
      OBVIOUS
    <2> QED
      BY <2>1 DEF DownInv, DownstreamOrder
  <1>2. ASSUME NEW s \in Session, NEW i \in 1..Len(Through(s)')
        PROVE  Heard(task'[Through(s)'[i].task], Through(s)'[i])
    <2> DEFINE m == Through(s)[i]
    <2>1. i \in 1..Len(Through(s)) /\ Through(s)'[i] = m
      BY <1>2
    <2>2. m \in Message /\ m.task \in Task /\ Heard(task[m.task], m)
      BY <2>1, SenderHeard
    <2> HIDE DEF m
    <2> QED
      BY <2>1, <2>2
  <1> QED
    BY <1>1, <1>2 DEF DownInv

(* A step that sends nothing and by which a task takes nothing back.       *)
LEMMA QuietStepDown ==
  ASSUME IInv, DownInv, NEW t \in Task, NEW x, task' = [task EXCEPT ![t] = x],
         \A m \in Message : Heard(task[t], m) => Heard(x, m),
         UNCHANGED <<told, linked, down>>
  PROVE  DownInv'
  <1>1. ASSUME NEW u \in Task, NEW m \in Message, Heard(task[u], m)
        PROVE  Heard(task'[u], m)
    <2>1. task'[u] = IF u = t THEN x ELSE task[u]
      BY DEF IInv, TypeInv, TypeOK
    <2> QED
      BY <1>1, <2>1
  <1>2. ASSUME NEW s \in Session PROVE Through(s)' = Through(s)
    BY DEF Through
  <1> QED
    BY <1>1, <1>2, FewerDown

(* A step that sends a message of a rank its task had not yet announced.   *)
LEMMA SendStepDown ==
  ASSUME IInv, DownInv, NEW t \in Task, NEW x, task' = [task EXCEPT ![t] = x],
         \A n \in Message : Heard(task[t], n) => Heard(x, n),
         NEW s \in Session, NEW m \in Message, m.task = t,
         Through(s)' = Append(Through(s), m),
         \A r \in Session \ {s} : Through(r)' = Through(r),
         Heard(x, m), \A n \in Message : Heard(task[t], n) => Rank(n) < Rank(m)
  PROVE  DownInv'
  <1>1. task \in [Task -> TaskState] /\ Through(s) \in Seq(Message)
    BY ThroughType DEF IInv, TypeInv, TypeOK
  <1>3. /\ Len(Through(s)) \in Nat /\ Len(Through(s)') = Len(Through(s)) + 1
        /\ \A i \in 1..Len(Through(s)) : Through(s)'[i] = Through(s)[i]
        /\ Through(s)'[Len(Through(s)) + 1] = m
    BY <1>1, AppendProperties, LenProperties
  <1>4. ASSUME NEW r \in Session, NEW i \in 1..Len(Through(r)'), NEW j \in 1..Len(Through(r)'),
               i < j, Through(r)'[i].task = Through(r)'[j].task
        PROVE  Rank(Through(r)'[i]) < Rank(Through(r)'[j])
    <2>1. CASE i \in 1..Len(Through(r)) /\ j \in 1..Len(Through(r))
      <3>1. Through(r)'[i] = Through(r)[i] /\ Through(r)'[j] = Through(r)[j]
        BY <1>3, <2>1
      <3> QED
        BY <1>4, <2>1, <3>1 DEF DownInv, DownstreamOrder
    <2>2. CASE r = s /\ i \in 1..Len(Through(s)) /\ j = Len(Through(s)) + 1
      <3>1. Through(r)'[i] = Through(s)[i] /\ Through(r)'[j] = m
        BY <1>3, <2>2
      <3>2. /\ Through(s)[i] \in Message /\ Through(s)[i].task = t
            /\ Heard(task[t], Through(s)[i])
        BY <1>4, <2>2, <3>1, SenderHeard
      <3> QED
        BY <3>1, <3>2
    <2> QED
      BY <1>3, <1>4, <2>1, <2>2
  <1>5. ASSUME NEW r \in Session, NEW i \in 1..Len(Through(r)')
        PROVE  Heard(task'[Through(r)'[i].task], Through(r)'[i])
    <2>1. CASE i \in 1..Len(Through(r))
      <3> DEFINE n == Through(r)[i]
      <3>1. Through(r)'[i] = n
        BY <1>3, <2>1
      <3>2. n \in Message /\ n.task \in Task /\ Heard(task[n.task], n)
        BY <2>1, SenderHeard
      <3> HIDE DEF n
      <3>3. task'[n.task] = IF n.task = t THEN x ELSE task[n.task]
        BY <1>1, <3>2
      <3> QED
        BY <3>1, <3>2, <3>3
    <2>2. CASE r = s /\ i = Len(Through(s)) + 1
      BY <1>1, <1>3, <2>2
    <2> QED
      BY <1>3, <1>5, <2>1, <2>2
  <1> QED
    BY <1>4, <1>5 DEF DownInv, DownstreamOrder

(* A task takes nothing back of what it announced.                         *)
KeepsWord(old, new) == \A m \in Message : Heard(old, m) => Heard(new, m)

(* A message that the task now announces, and had not.                     *)
IsNews(old, new, type, n) ==
  \A m \in Message : (m.type = type /\ m.n = n) =>
    /\ Heard(new, m)
    /\ \A l \in Message : Heard(old, l) => Rank(l) < Rank(m)

(* A send does what one of the two lemmas says.                            *)
LEMMA SendDown ==
  ASSUME IInv, DownInv, NEW t \in Task, NEW x, task' = [task EXCEPT ![t] = x],
         task[t].c # "free", UNCHANGED proxy, KeepsWord(task[t], x),
         NEW type \in {"Connected", "ConnectFailed", "Data", "Shutdown", "Reset"},
         NEW n \in 0..MaxDown, SendToClient(t, type, n),
         IsNews(task[t], x, type, n)
  PROVE  DownInv'
  <1> DEFINE m == [type |-> type, task |-> t, n |-> n]
  <1>1. m \in Message /\ m.task = t /\ m.type = type /\ m.n = n
    BY DEF Message
  <1>2. PICK s \in Session : s = task[t].flow[1]
    BY DEF IInv, ConnInv, TaskOK, Flow
  <1>3. /\ told[s] \in Seq(Message) /\ down[s] \in Seq(Message)
        /\ down \in [Session -> Seq(Message)] /\ UNCHANGED <<told, linked>>
    BY DEF proxy, IInv, TypeInv, TypeOK
  <1>4. CASE UNCHANGED down
    BY <1>3, <1>4, QuietStepDown DEF KeepsWord
  <1>5. CASE down' = [down EXCEPT ![s] = Append(@, m)] /\ ~linked[s]
    <2> HIDE DEF m
    <2>1. ASSUME NEW r \in Session PROVE Through(r)' = Through(r)
      BY <1>3, <1>5 DEF Through
    <2>2. ASSUME NEW u \in Task, NEW l \in Message, Heard(task[u], l)
          PROVE  Heard(task'[u], l)
      <3>1. task'[u] = IF u = t THEN x ELSE task[u]
        BY DEF IInv, TypeInv, TypeOK
      <3> QED
        BY <2>2, <3>1 DEF KeepsWord
    <2> QED
      BY <2>1, <2>2, FewerDown
  <1>6. CASE down' = [down EXCEPT ![s] = Append(@, m)] /\ linked[s]
    <2>1. /\ \A l \in Message : Heard(task[t], l) => Heard(x, l)
          /\ Heard(x, m) /\ \A l \in Message : Heard(task[t], l) => Rank(l) < Rank(m)
      BY <1>1 DEF KeepsWord, IsNews
    <2> HIDE DEF m
    <2>2. Through(s)' = Append(Through(s), m)
      <3>1. down'[s] = Append(down[s], m)
        BY <1>3, <1>6
      <3>2. Through(s)' = told[s] \o Append(down[s], m)
        BY <1>3, <1>6, <3>1 DEF Through
      <3>3. told[s] \o Append(down[s], m) = Append(told[s] \o down[s], m)
        <4> DEFINE o == told[s]
                   d == down[s]
        <4>1. o \in Seq(Message) /\ d \in Seq(Message) /\ m \in Message
          BY <1>1, <1>3
        <4> HIDE DEF o, d
        <4>2. o \o Append(d, m) = Append(o \o d, m)
          BY <4>1, ConcatAppend
        <4> QED
          BY <4>2 DEF o, d
      <3>4. Through(s) = told[s] \o down[s]
        BY <1>6 DEF Through
      <3> QED
        BY <3>2, <3>3, <3>4
    <2>3. ASSUME NEW r \in Session \ {s} PROVE Through(r)' = Through(r)
      BY <1>3, <1>6 DEF Through
    <2> QED
      BY <1>1, <2>1, <2>2, <2>3, SendStepDown
  <1> QED
    BY <1>2, <1>4, <1>5, <1>6 DEF SendToClient

(* The connect task: Connected is the first message of its connection, and *)
(* ConnectFailed the only one.                                             *)
LEMMA ConnectStepDown ==
  ASSUME IInv, DownInv, NEW t \in Task,
         ConnectOk(t) \/ ConnectFails(t) \/ ConnectAborts(t) \/ Register(t)
  PROVE  DownInv'
  <1>1. /\ task \in [Task -> TaskState] /\ task[t] \in TaskState
        /\ TaskOK(task[t])
    BY DEF IInv, ConnInv, TypeInv, TypeOK
  <1>2. task[t].c = "connecting" => \A n \in Message : ~Heard(task[t], n)
    BY DEF Heard
  <1>3. CASE ConnectOk(t)
    <2> DEFINE x == [task[t] EXCEPT !.c = "announced"]
    <2>1. task' = [task EXCEPT ![t] = x] /\ task[t].c = "connecting"
          /\ SendToClient(t, "Connected", 0)
      BY <1>3 DEF ConnectOk
    <2>2. x.c = "announced"
      BY <1>1 DEF TaskState
    <2> HIDE DEF x
    <2>3. Announced(x) = 0
      BY <2>2 DEF Announced
    <2>4. \A m \in Message : m.type = "Connected" => Heard(x, m)
      BY <2>2, <2>3, RankType DEF Heard
    <2>5. 0 \in 0..MaxDown
      BY BoundAssumption
    <2> QED
      <3>1. IsNews(task[t], x, "Connected", 0)
        BY <1>2, <2>1, <2>4 DEF IsNews
      <3>2. KeepsWord(task[t], x)
        BY <1>2, <2>1 DEF KeepsWord
      <3>3. task[t].c # "free" /\ UNCHANGED proxy
        BY <1>3, <2>1 DEF ConnectOk
      <3> QED
        BY <2>1, <2>5, <3>1, <3>2, <3>3, SendDown
  <1>4. CASE ConnectFails(t)
    <2> DEFINE x == [task[t] EXCEPT !.c = "gone"]
    <2>1. task' = [task EXCEPT ![t] = x] /\ task[t].c = "connecting"
          /\ SendToClient(t, "ConnectFailed", 0)
      BY <1>4 DEF ConnectFails
    <2>2. x.c = "gone" /\ x.r = "off"
      BY <1>1, <2>1 DEF TaskState, TaskOK
    <2> HIDE DEF x
    <2>3. Announced(x) = MaxDown + 1
      BY <2>2 DEF Announced
    <2>4. \A m \in Message : Heard(x, m)
      BY <2>2, <2>3, RankType, BoundAssumption DEF Heard
    <2>5. 0 \in 0..MaxDown
      BY BoundAssumption
    <2> QED
      <3>1. IsNews(task[t], x, "ConnectFailed", 0)
        BY <1>2, <2>1, <2>4 DEF IsNews
      <3>2. KeepsWord(task[t], x)
        BY <1>2, <2>1 DEF KeepsWord
      <3>3. task[t].c # "free" /\ UNCHANGED proxy
        BY <1>4, <2>1 DEF ConnectFails
      <3> QED
        BY <2>1, <2>5, <3>1, <3>2, <3>3, SendDown
  <1>5. CASE ConnectAborts(t)
    <2>1. /\ task' = [task EXCEPT ![t] = [task[t] EXCEPT !.c = "gone"]]
          /\ UNCHANGED <<told, linked, down>> /\ task[t].c = "connecting"
      BY <1>5 DEF ConnectAborts, proxy
    <2> QED
      BY <1>2, <2>1, QuietStepDown
  <1>6. CASE Register(t)
    <2> DEFINE x == [task[t] EXCEPT !.c = "live", !.w = "run", !.r = "run"]
    <2>1. task' = [task EXCEPT ![t] = x]
      BY <1>1, <1>6 DEF Register
    <2>2. /\ x.c = "live" /\ x.r = "run" /\ x.reads = task[t].reads
          /\ task[t].reads \in Nat /\ task[t].c = "announced"
      BY <1>1, <1>6, BoundAssumption DEF TaskState, Register
    <2> HIDE DEF x
    <2>3. Announced(x) \in Nat /\ Announced(task[t]) = 0
      BY <2>2 DEF Announced
    <2>4. \A m \in Message : Heard(task[t], m) => Heard(x, m)
      BY <2>2, <2>3, RankType, BoundAssumption DEF Heard
    <2> QED
      BY <1>6, <2>1, <2>4, QuietStepDown DEF Register, proxy
  <1> QED
    BY <1>3, <1>4, <1>5, <1>6

(* The reader announces one payload after another, and then the end.       *)
LEMMA ReaderStepDown ==
  ASSUME IInv, DownInv, NEW t \in Task,
         ReadData(t) \/ ReadEnds(t) \/ ReaderUnregister(t)
  PROVE  DownInv'
  <1>1. /\ task \in [Task -> TaskState] /\ task[t] \in TaskState
        /\ TaskOK(task[t]) /\ task[t].reads \in 0..MaxDown
    BY DEF IInv, ConnInv, TypeInv, TypeOK, TaskState
  <1>2. task[t].c = "live"
    BY <1>1 DEF ReadData, ReadEnds, ReaderUnregister, TaskOK
  <1>3. CASE ReadData(t)
    <2> DEFINE n == task[t].reads + 1
               x == [task[t] EXCEPT !.reads = @ + 1]
    <2>1. /\ task' = [task EXCEPT ![t] = x] /\ task[t].r = "run"
          /\ SendToClient(t, "Data", n)
      BY <1>3 DEF ReadData
    <2>2. /\ x.c = "live" /\ x.r = "run" /\ x.reads = n /\ n \in 0..MaxDown
          /\ n = task[t].reads + 1
      BY <1>1, <1>2, <1>3, BoundAssumption DEF ReadData, TaskState
    <2> HIDE DEF x, n
    <2>3. Announced(x) = n /\ Announced(task[t]) = task[t].reads
      BY <1>2, <2>1, <2>2 DEF Announced
    <2>4. \A m \in Message : Heard(task[t], m) => Heard(x, m) /\ Rank(m) < n
      BY <1>1, <2>2, <2>3, RankType, BoundAssumption DEF Heard
    <2>5. \A m \in Message : m.type = "Data" /\ m.n = n => Heard(x, m) /\ Rank(m) = n
      BY <2>2, <2>3, RankType DEF Heard
    <2> QED
      <3>1. IsNews(task[t], x, "Data", n)
        BY <2>4, <2>5 DEF IsNews
      <3>2. KeepsWord(task[t], x)
        BY <2>4 DEF KeepsWord
      <3>3. task[t].c # "free" /\ UNCHANGED proxy
        BY <1>2, <1>3 DEF ReadData
      <3> QED
        BY <2>1, <2>2, <3>1, <3>2, <3>3, SendDown
  <1>4. CASE ReadEnds(t)
    <2> DEFINE x == [task[t] EXCEPT !.r = "unregister"]
    <2>1. task' = [task EXCEPT ![t] = x] /\ task[t].r = "run"
      BY <1>4 DEF ReadEnds, AfterEnd
    <2>2. PICK type \in {"Shutdown", "Reset"} : SendToClient(t, type, 0)
      BY <1>4 DEF ReadEnds
    <2>3. x.c = "live" /\ x.r = "unregister"
      BY <1>1, <1>2 DEF TaskState
    <2> HIDE DEF x
    <2>4. Announced(x) = MaxDown + 1 /\ Announced(task[t]) = task[t].reads
      BY <1>2, <2>1, <2>3 DEF Announced
    <2>5. \A m \in Message : /\ Heard(x, m)
                            /\ (Heard(task[t], m) => Rank(m) < MaxDown + 1)
                            /\ (m.type = type => Rank(m) = MaxDown + 1)
      BY <1>1, <2>3, <2>4, RankType, BoundAssumption DEF Heard
    <2>6. 0 \in 0..MaxDown
      BY BoundAssumption
    <2> QED
      <3>1. IsNews(task[t], x, type, 0)
        BY <2>5 DEF IsNews
      <3>2. KeepsWord(task[t], x)
        BY <2>5 DEF KeepsWord
      <3>3. task[t].c # "free" /\ UNCHANGED proxy
        BY <1>2, <1>4 DEF ReadEnds
      <3> QED
        BY <2>1, <2>2, <2>6, <3>1, <3>2, <3>3, SendDown
  <1>5. CASE ReaderUnregister(t)
    <2> DEFINE x == [task[t] EXCEPT !.r = "done"]
    <2>1. task' = [task EXCEPT ![t] = x] /\ UNCHANGED <<told, linked, down>>
      BY <1>5 DEF ReaderUnregister, proxy
    <2>2. x.c = "live" /\ x.r = "done"
      BY <1>1, <1>2 DEF TaskState
    <2> HIDE DEF x
    <2>3. \A m \in Message : Heard(x, m)
      BY <2>2, RankType, BoundAssumption DEF Heard, Announced
    <2> QED
      BY <2>1, <2>3, QuietStepDown
  <1> QED
    BY <1>3, <1>4, <1>5

(* No other step of a task, and no message of the proxy, is heard.         *)
LEMMA OtherTaskDown ==
  ASSUME IInv, DownInv,
         \/ \E t \in Task : WriterStep(t)
         \/ \E k \in Flow : Connect(k) \/ Data(k) \/ Shutdown(k) \/ Reset(k)
  PROVE  DownInv'
  <1>1. task \in [Task -> TaskState]
    BY DEF IInv, TypeInv, TypeOK
  <1>2. ASSUME NEW k \in Flow, Connect(k)
        PROVE  DownInv'
    <2>1. PICK t \in Task : task[t].c = "free" /\ \E x : task' = [task EXCEPT ![t] = x]
      BY <1>2 DEF Connect
    <2> QED
      BY <1>2, <2>1, QuietStepDown DEF Connect, Heard
  <1>3. ASSUME NEW t \in Task, UNCHANGED <<told, linked, down>>, NEW x, task' = [task EXCEPT ![t] = x],
               x.c = task[t].c, x.r = task[t].r, x.reads = task[t].reads
        PROVE  DownInv'
    <2>1. \A m \in Message : Heard(task[t], m) => Heard(x, m)
      BY <1>3 DEF Heard, Announced
    <2> QED
      BY <1>3, <2>1, QuietStepDown
  <1>4. ASSUME UNCHANGED <<told, linked, down>>, UNCHANGED task
        PROVE  DownInv'
    BY <1>4 DEF DownInv, DownstreamOrder, Through
  <1>5. ASSUME NEW t \in Task, WriterStep(t)
        PROVE  DownInv'
    <2> DEFINE x == task'[t]
    <2>1. task' = [task EXCEPT ![t] = x] /\ x.c = task[t].c /\ x.r = task[t].r
          /\ x.reads = task[t].reads
      <3>1. task[t] \in TaskState
        BY <1>1
      <3>2. CASE WriteData(t) \/ WriteFails(t) \/ WriteClosed(t) \/ PollsEmpty(t)
        BY <1>1, <3>1, <3>2 DEF WriteData, Written, WriteFails, WriteClosed, PollsEmpty,
           TaskState
      <3>3. CASE \/ WriteSignalled(t) \/ PollsAgain(t) \/ WriteShutdown(t)
                 \/ WriterUnregister(t) \/ WriterAborted(t)
        BY <1>1, <3>1, <3>3 DEF WriteSignalled, PollsAgain, WriteShutdown,
           WriterUnregister, WriterAborted, TaskState
      <3> QED
        BY <1>5, <3>2, <3>3 DEF WriterStep
    <2>2. UNCHANGED <<told, linked, down>>
      BY <1>5 DEF proxy, WriterStep, WriteData, WriteFails, WriteClosed, PollsEmpty,
         WriteSignalled, PollsAgain, WriteShutdown, WriterUnregister, WriterAborted
    <2> HIDE DEF x
    <2> QED
      BY <1>3, <2>1, <2>2
  <1>6. ASSUME NEW k \in Flow, Data(k) \/ Shutdown(k) \/ Reset(k)
        PROVE  DownInv'
    <2> DEFINE t == conns[k]
    <2>1. UNCHANGED <<told, linked, down>>
      BY <1>6 DEF Data, Shutdown, Reset
    <2>2. CASE UNCHANGED task
      BY <1>4, <2>1, <2>2
    <2>3. t # NoTask => t \in Task /\ task[t] \in TaskState
      BY DEF IInv, TypeInv, TypeOK
    <2>4. ASSUME t # NoTask, NEW p, task' = [task EXCEPT ![t].dq = Append(@, p)]
          PROVE  DownInv'
      <3> DEFINE x == [task[t] EXCEPT !.dq = Append(@, p)]
      <3>1. /\ task' = [task EXCEPT ![t] = x] /\ x.c = task[t].c /\ x.r = task[t].r
            /\ x.reads = task[t].reads
        BY <2>3, <2>4 DEF TaskState
      <3> HIDE DEF x, t
      <3> QED
        BY <1>3, <2>1, <2>3, <2>4, <3>1
    <2>5. ASSUME t # NoTask, NEW n, task' = [task EXCEPT ![t].shut = TRUE, ![t].due = n]
          PROVE  DownInv'
      <3> DEFINE x == [task[t] EXCEPT !.shut = TRUE, !.due = n]
      <3>1. /\ task' = [task EXCEPT ![t] = x] /\ x.c = task[t].c /\ x.r = task[t].r
            /\ x.reads = task[t].reads
        BY <1>1, <2>3, <2>5 DEF TaskState
      <3> HIDE DEF x, t
      <3> QED
        BY <1>3, <2>1, <2>3, <2>5, <3>1
    <2>6. ASSUME t # NoTask, task' = [task EXCEPT ![t].rst = TRUE]
          PROVE  DownInv'
      <3> DEFINE x == [task[t] EXCEPT !.rst = TRUE]
      <3>1. /\ task' = [task EXCEPT ![t] = x] /\ x.c = task[t].c /\ x.r = task[t].r
            /\ x.reads = task[t].reads
        BY <2>3, <2>6 DEF TaskState
      <3> HIDE DEF x, t
      <3> QED
        BY <1>3, <2>1, <2>3, <2>6, <3>1
    <2>7. CASE Data(k)
      BY <2>2, <2>4, <2>7 DEF Data, Lookup
    <2>8. CASE Shutdown(k)
      BY <2>2, <2>5, <2>8 DEF Shutdown, Lookup
    <2>9. CASE Reset(k)
      BY <2>2, <2>6, <2>9 DEF Reset, Lookup
    <2> QED
      BY <1>6, <2>7, <2>8, <2>9
  <1> QED
    BY <1>2, <1>5, <1>6

(* The first element of a sequence taken out, and the rest.                *)
LEMMA SkipFirst ==
  ASSUME NEW S, NEW q \in Seq(S), q # <<>>
  PROVE  q[1] = Head(q) /\ SkipNth(q, 1) = Tail(q)
  <1>1. /\ Len(q) \in Nat /\ Len(q) >= 1 /\ Tail(q) \in Seq(S) /\ q[1] = Head(q)
        /\ Len(Tail(q)) = Len(q) - 1 /\ \A i \in 1..Len(Tail(q)) : Tail(q)[i] = q[i + 1]
    BY HeadTailProperties, EmptySeq, LenProperties
  <1>2. SkipNth(q, 1) \in Seq(S) /\ Len(SkipNth(q, 1)) = Len(q) - 1
    <2>1. 1 \in 1..Len(q)
      BY <1>1
    <2> QED
      BY <2>1, SkipNthType
  <1>3. \A i \in 1..(Len(q) - 1) : SkipNth(q, 1)[i] = q[i + 1]
    BY <1>1 DEF SkipNth
  <1> QED
    BY <1>1, <1>2, <1>3, SeqEqual

(* A message delivered through the tunnel has come through it as it was    *)
(* about to, a datagram never did, and a lost tunnel loses only what had   *)
(* not come yet.                                                           *)
LEMMA EnvironmentDown ==
  ASSUME IInv, DownInv,
         \/ \E s \in Session : Deliver(s) \/ TunnelLost(s)
         \/ \E k \in Flow : Forget(k)
         \/ UNCHANGED vars
  PROVE  DownInv'
  <1>1. /\ TypeOK /\ down \in [Session -> Seq(Message)]
        /\ told \in [Session -> Seq(Message)] /\ linked \in [Session -> BOOLEAN]
    BY DEF IInv, TypeInv, TypeOK
  <1>2. UNCHANGED task
    BY DEF Deliver, TunnelLost, Forget, vars
  <1>3. SUFFICES ASSUME NEW s \in Session
                 PROVE  \/ Through(s)' = Through(s)
                        \/ Through(s)' = told[s]
    <2>1. ASSUME NEW s \in Session, NEW i \in 1..Len(Through(s)')
          PROVE  i \in 1..Len(Through(s)) /\ Through(s)'[i] = Through(s)[i]
      <3>1. CASE Through(s)' = Through(s)
        BY <2>1, <3>1
      <3>2. CASE Through(s)' = told[s] /\ linked[s]
        <4>1. Through(s) = told[s] \o down[s]
          BY <1>1, <3>2, ThroughType
        <4>2. i \in 1..Len(told[s]) /\ Through(s)'[i] = told[s][i]
          BY <2>1, <3>2
        <4>3. /\ Len(told[s]) \in Nat /\ Len(down[s]) \in Nat
              /\ Len(told[s] \o down[s]) = Len(told[s]) + Len(down[s])
              /\ \A j \in 1..(Len(told[s]) + Len(down[s])) :
                   (told[s] \o down[s])[j] = IF j <= Len(told[s]) THEN told[s][j]
                                             ELSE down[s][j - Len(told[s])]
          BY <1>1, ConcatProperties, LenProperties
        <4>4. i \in 1..(Len(told[s]) + Len(down[s])) /\ i <= Len(told[s])
          <5> DEFINE a == Len(told[s])
                     b == Len(down[s])
          <5>1. a \in Nat /\ b \in Nat /\ i \in 1..a
            BY <4>2, <4>3
          <5> HIDE DEF a, b
          <5>2. i \in 1..(a + b) /\ i <= a
            BY <5>1
          <5> QED
            BY <5>2 DEF a, b
        <4> QED
          BY <4>1, <4>2, <4>3, <4>4
      <3>3. CASE Through(s)' = told[s] /\ ~linked[s]
        BY <1>1, <2>1, <3>3, ThroughType
      <3> QED
        BY <1>3, <3>1, <3>2, <3>3
    <2> QED
      BY <1>2, <2>1, FewerDown
  <1>4. ASSUME NEW r \in Session, Deliver(r)
        PROVE  Through(s)' = Through(s)
    <2>1. PICK i \in 1..Len(down[r]) :
            /\ linked[r] => i = 1
            /\ down' = [down EXCEPT ![r] = SkipNth(@, i)]
            /\ told' = IF linked[r] THEN [told EXCEPT ![r] = Append(@, down[r][i])] ELSE told
            /\ UNCHANGED linked
      BY <1>4 DEF Deliver
    <2>2. CASE s # r \/ ~linked[r]
      BY <1>1, <2>1, <2>2 DEF Through
    <2>3. CASE s = r /\ linked[r]
      <3>1. down[s] \in Seq(Message) /\ told[s] \in Seq(Message) /\ down[s] # <<>>
        BY <1>1, <2>1, <2>3, EmptySeq
      <3>2. /\ told'[s] = Append(told[s], down[s][1]) /\ down'[s] = SkipNth(down[s], 1)
            /\ linked'[s]
        BY <1>1, <2>1, <2>3
      <3>3. Through(s)' = Append(told[s], Head(down[s])) \o Tail(down[s])
        BY <3>1, <3>2, SkipFirst DEF Through
      <3> QED
        BY <2>3, <3>1, <3>3, HeadMoves DEF Through
    <2> QED
      BY <2>2, <2>3
  <1>5. ASSUME NEW r \in Session, TunnelLost(r)
        PROVE  Through(s)' = Through(s) \/ Through(s)' = told[s]
    <2>1. CASE s = r
      <3>1. told'[s] = told[s] /\ ~linked'[s]
        BY <1>1, <1>5, <2>1 DEF TunnelLost
      <3> QED
        BY <1>1, <3>1, ConcatEmptySeq DEF Through
    <2>2. CASE s # r
      BY <1>1, <1>5, <2>2 DEF TunnelLost, Through
    <2> QED
      BY <2>1, <2>2
  <1>6. CASE (\E k \in Flow : Forget(k)) \/ UNCHANGED vars
    BY <1>6 DEF Forget, vars, proxy, Through
  <1> QED
    BY <1>4, <1>5, <1>6

LEMMA DownInit == Init => DownInv
  <1> SUFFICES ASSUME Init, NEW s \in Session PROVE Len(Through(s)) = 0
    BY DEF DownInv, DownstreamOrder
  <1>1. told[s] = <<>> /\ down[s] = <<>> /\ <<>> \in Seq(Message)
    BY EmptySeq DEF Init
  <1>2. Through(s) = <<>>
    BY <1>1, ConcatEmptySeq DEF Through
  <1> QED
    BY <1>2

LEMMA DownStep == IInv /\ DownInv /\ [Next]_vars => DownInv'
  <1> SUFFICES ASSUME IInv, DownInv, [Next]_vars PROVE DownInv'
    OBVIOUS
  <1> QED
    BY ConnectStepDown, ReaderStepDown, OtherTaskDown, EnvironmentDown DEF Next

(* Through its tunnel a proxy is told of each connection in the order it   *)
(* happened: Connected, the payloads in the order they were read, one end, *)
(* and nothing after it.  Once the tunnel is gone nothing is promised.     *)
THEOREM DownstreamIsOrdered == Spec => []DownstreamOrder
  <1>1. DownInv => DownstreamOrder
    BY DEF DownInv
  <1> QED
    BY <1>1, DownInit, DownStep, Invariance, PTL DEF Spec
===============================================================================
