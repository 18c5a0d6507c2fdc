--------------------------- MODULE WorkQueueProofs ---------------------------
(***************************************************************************)
(* What holds of WorkQueue for any sockets, task types and bounds.  The    *)
(* inductive invariant IInv says which tasks, workers and connections go   *)
(* together: ids and requests are those of one task, answers are apart,    *)
(* and a connection that waits for its answer can be closed by nothing     *)
(* else, which is why no task is ever cancelled.                           *)
(***************************************************************************)
EXTENDS WorkQueue, SequenceLemmas

Task == [taskid : Nat, tasktype : Types \cup {"done"}, sock : Socks, iovec : SUBSET Nat,
         conn : Nat, request : Nat]

\* A request is one task, and an id is one task's.  A task without an id has no answer; only
\* a finished task has one.
TasksDiffer ==
    /\ tasklist \in Seq(Task)
    /\ \A i \in DOMAIN tasklist :
         /\ tasklist[i].request \in 1..queued
         /\ tasklist[i].taskid # 1
         /\ tasklist[i].taskid = 0 => tasklist[i].tasktype # "done"
         /\ tasklist[i].tasktype # "done" => tasklist[i].iovec = {}
         /\ "fulllog" \notin Types /\ tasklist[i].tasktype = "done" => tasklist[i].iovec # {}
    /\ \A i, k \in DOMAIN tasklist :
         \/ tasklist[i].request = tasklist[k].request
         \/ tasklist[i].taskid = tasklist[k].taskid /\ tasklist[i].taskid # 0
         => i = k

\* A worker that is busy has an id for its task; only one that is about to push has an answer,
\* and until it is made there is none under the task's id.
WorkersOwn ==
    \A w \in Workers :
      /\ worker[w].pc \in {"make", "push"} =>
           worker[w].taskid \in 2..next_free_taskid /\ worker[w].tasktype \in Types
      /\ worker[w].pc # "push" => worker[w].iovec = {}
      /\ worker[w].pc = "make" => worker[w].taskid \notin memory
      /\ worker[w].pc = "push" => worker[w].iovec \subseteq {worker[w].taskid}
      /\ worker[w].pc = "push" /\ "fulllog" \notin Types => worker[w].iovec # {}

\* The answers on connections are nobody else's, and all answers that are held are allocated.
AnswersApart ==
    /\ \A s \in Socks :
         /\ conn[s].batch \subseteq memory
         /\ \A i \in DOMAIN tasklist : tasklist[i].iovec \cap conn[s].batch = {}
         /\ \A w \in Workers : worker[w].iovec \cap conn[s].batch = {}
         /\ \A r \in Socks : r # s => conn[r].batch \cap conn[s].batch = {}
    /\ \A i \in DOMAIN tasklist : tasklist[i].iovec \subseteq memory
    /\ \A w \in Workers : worker[w].iovec \subseteq memory
    /\ "fulllog" \notin Types =>
         \A a \in memory :
            \/ \E i \in DOMAIN tasklist : a \in tasklist[i].iovec
            \/ \E w \in Workers : a \in worker[w].iovec
            \/ \E s \in Socks : a \in conn[s].batch

\* A connection reads, waits for its answer, or writes it.
ConnectionState(c) ==
    /\ c.id = 0 => c = Closed
    /\ c.wantread => ~c.waiting /\ ~c.wantwrite /\ c.batch = {}
    /\ c.waiting => ~c.wantwrite /\ ~c.timeout /\ c.batch = {}

ConnectionStates ==
    \A s \in Socks : ConnectionState(conn[s]) /\ (s \in ready => conn[s].wantread)

\* Every request whose answer was not sent has its task in the list.
PendingQueued ==
    \A p \in pending : \E i \in DOMAIN tasklist :
      tasklist[i].request = p[2] /\ tasklist[i].conn = p[1]

\* The task a worker makes stays in the list until it is made: none is cancelled.
TasksStay ==
    \A w \in Busy : \E i \in DOMAIN tasklist : tasklist[i].taskid = worker[w].taskid

\* The requests no worker has taken yet; each may still take an id.
Untaken == {tasklist[i].request : i \in {k \in DOMAIN tasklist : tasklist[k].taskid = 0}}

IdsCounted == (next_free_taskid - 1) + Cardinality(Untaken) <= queued

\* A finished task is about to be taken or the event loop is about to be told of it.
Signalled ==
    /\ Done # {} =>
         \/ pipe
         \/ loop \in {"canread", "popresult"}
         \/ \E w \in Workers : worker[w].pc = "signal"
    /\ ready # {} => loop = "canread"

IInv ==
    /\ TypeOK
    /\ TasksDiffer
    /\ WorkersOwn
    /\ OneWorkerPerTask
    /\ AnswersApart
    /\ ConnectionStates
    /\ PendingQueued
    /\ TasksStay
    /\ IdsCounted
    /\ Signalled

-----------------------------------------------------------------------------

\* What an answer can be.
LEMMA AnswerProperties ==
    /\ {} \in Answer
    /\ \A id \in 2..next_free_taskid : {id} \in Answer
    /\ \A a \in Answer : a \subseteq 2..next_free_taskid
  BY DEF Answer

\* Answers are still answers when more ids have been given out.
LEMMA AnswerGrows ==
    ASSUME next_free_taskid \in Nat, next_free_taskid' \in Nat,
           next_free_taskid <= next_free_taskid'
    PROVE  Answer \subseteq Answer'
  BY DEF Answer

\* The server starts with no task, no connection and idle workers.
LEMMA InitInv == Init => IInv
<1> SUFFICES ASSUME Init PROVE IInv
  OBVIOUS
<1>1. tasklist = <<>> /\ DOMAIN tasklist = {} /\ tasklist \in Seq(Task)
  BY DEF Init
<1>2. TypeOK
  <2>1. TaskTypes /\ LoopTypes
    BY <1>1 DEF Init, TaskTypes, LoopTypes
  <2>2. HistoryTypes
    BY BoundsAssumption DEF Init, HistoryTypes
  <2>3. Idle \in WorkerType
    BY AnswerProperties DEF Init, Idle, WorkerType
  <2>4. Closed \in ConnectionType
    BY AnswerProperties DEF Init, Closed, ConnectionType
  <2>. QED
    BY <2>1, <2>2, <2>3, <2>4 DEF Init, TypeOK
<1>3. TasksDiffer /\ PendingQueued /\ TasksStay
  BY <1>1 DEF Init, TasksDiffer, PendingQueued, TasksStay, Busy, Idle
<1>4. WorkersOwn /\ OneWorkerPerTask
  BY <1>1 DEF Init, WorkersOwn, OneWorkerPerTask, Busy, Idle
<1>5. AnswersApart /\ ConnectionStates
  BY <1>1 DEF Init, AnswersApart, ConnectionStates, ConnectionState, Idle, Closed
<1>6. IdsCounted
  <2>1. Untaken = {}
    BY <1>1 DEF Untaken
  <2>. QED
    BY <2>1, FS_EmptySet DEF Init, IdsCounted
<1>7. Signalled
  BY <1>1 DEF Init, Signalled, Done
<1>. QED
  BY <1>2, <1>3, <1>4, <1>5, <1>6, <1>7 DEF IInv

\* A task that is given an id, or its answer, is a task.
LEMMA TaskEdited ==
    ASSUME NEW t \in Task
    PROVE  /\ \A n \in Nat : [t EXCEPT !.taskid = n] \in Task
           /\ \A a \in SUBSET Nat : [t EXCEPT !.iovec = a, !.tasktype = "done"] \in Task
  BY DEF Task

\* The two assignments of pushresult are to the one task.
LEMMA TaskAnswered ==
    ASSUME NEW s \in Seq(Task), NEW i \in DOMAIN s, NEW a
    PROVE  [s EXCEPT ![i].iovec = a, ![i].tasktype = "done"]
             = [s EXCEPT ![i] = [s[i] EXCEPT !.iovec = a, !.tasktype = "done"]]
  OBVIOUS

\* The requests no worker has taken can be counted.
LEMMA UntakenFinite ==
    ASSUME IInv
    PROVE  IsFiniteSet(Untaken) /\ Cardinality(Untaken) \in Nat
<1>1. Untaken \subseteq 1..queued /\ queued \in Nat
  BY BoundsAssumption DEF IInv, TypeOK, HistoryTypes, TasksDiffer, Untaken
<1>2. IsFiniteSet(1..queued)
  BY <1>1, FS_Interval
<1>. QED
  BY <1>1, <1>2, FS_Subset, FS_CardinalityType

-----------------------------------------------------------------------------
(* Workers. *)

\* A worker that has no task waits, wakes up or has told the event loop of an answer.
LEMMA IdleWorkerInv ==
    ASSUME IInv, NEW w \in Workers, NEW pc \in {"pop", "asleep"},
           worker[w].pc \in {"pop", "asleep", "signal"},
           worker' = [worker EXCEPT ![w].pc = pc],
           pipe' \in BOOLEAN, worker[w].pc = "signal" \/ pipe => pipe',
           UNCHANGED <<queue, loop, ready, conn, history, memory>>
    PROVE  IInv'
<1>1. worker[w] \in WorkerType
  BY DEF IInv, TypeOK
<1>2. /\ worker'[w].pc = pc /\ worker'[w].iovec = worker[w].iovec
      /\ \A v \in Workers : v # w => worker'[v] = worker[v]
  BY <1>1 DEF IInv, TypeOK, WorkerType
<1>3. TypeOK'
  <2>1. WorkerType' = WorkerType /\ ConnectionType' = ConnectionType
    BY DEF WorkerType, ConnectionType, Answer, queue, history
  <2>2. [worker[w] EXCEPT !.pc = pc] \in WorkerType
    BY <1>1 DEF WorkerType
  <2>3. worker' \in [Workers -> WorkerType]
    BY <2>2 DEF IInv, TypeOK
  <2>4. TaskTypes' /\ HistoryTypes' /\ LoopTypes'
    BY DEF IInv, TypeOK, TaskTypes, HistoryTypes, LoopTypes, queue, history
  <2>. QED
    BY <2>1, <2>3, <2>4 DEF IInv, TypeOK
<1>4. TasksDiffer' /\ PendingQueued' /\ ConnectionStates'
  BY DEF IInv, TasksDiffer, PendingQueued, ConnectionStates, queue, history
<1>5. Busy' = Busy /\ w \notin Busy
  BY <1>2 DEF Busy
<1>6. WorkersOwn'
  BY <1>2 DEF IInv, WorkersOwn, queue
<1>7. OneWorkerPerTask' /\ TasksStay'
  <2>1. \A v \in Busy : worker'[v] = worker[v]
    BY <1>2, <1>5 DEF Busy
  <2>. QED
    BY <1>5, <2>1 DEF IInv, OneWorkerPerTask, TasksStay, queue
<1>8. AnswersApart'
  <2>1. \A v \in Workers : worker'[v].iovec = worker[v].iovec
    BY <1>2
  <2>. QED
    BY <2>1 DEF IInv, AnswersApart, queue
<1>9. IdsCounted'
  BY DEF IInv, IdsCounted, Untaken, queue, history
<1>10. Signalled'
  BY <1>2 DEF IInv, TypeOK, LoopTypes, Signalled, Done, queue
<1>. QED
  BY <1>3, <1>4, <1>6, <1>7, <1>8, <1>9, <1>10 DEF IInv

\* poptask gives worker w the first outstanding task of its class, under a new id.
LEMMA PoptaskInv ==
    ASSUME IInv, NEW w \in Workers, poptask(w)
    PROVE  IInv'
<1> DEFINE n == next_free_taskid
           i == Min(Outstanding(w))
<1>1. i \in DOMAIN tasklist /\ tasklist[i].taskid = 0 /\ Class(tasklist[i].tasktype) = w
  <2>1. Outstanding(w) \subseteq Nat /\ Outstanding(w) # {}
    BY DEF Outstanding, IInv, TasksDiffer, poptask
  <2>2. i \in Outstanding(w)
    BY <2>1, MinProperties
  <2>. QED
    BY <2>2 DEF Outstanding
<1>2. /\ worker[w].pc = "pop"
      /\ next_free_taskid' = n + 1
      /\ tasklist' = [tasklist EXCEPT ![i].taskid = n + 1]
      /\ worker' = [worker EXCEPT ![w] = [pc |-> "make", taskid |-> n + 1,
                                          tasktype |-> tasklist[i].tasktype, iovec |-> {}]]
      /\ UNCHANGED <<pipe, loop, ready, conn, history, memory>>
  BY DEF poptask
<1>. HIDE DEF i
<1>3. n \in Nat /\ tasklist \in Seq(Task)
  BY BoundsAssumption DEF IInv, TypeOK, HistoryTypes, TasksDiffer
<1>4. /\ tasklist' \in Seq(Task)
      /\ DOMAIN tasklist' = DOMAIN tasklist
      /\ tasklist'[i] = [tasklist[i] EXCEPT !.taskid = n + 1]
      /\ \A k \in DOMAIN tasklist : k # i => tasklist'[k] = tasklist[k]
  <2>1. tasklist[i] \in Task /\ n + 1 \in Nat
    BY <1>1, <1>3
  <2>2. [tasklist[i] EXCEPT !.taskid = n + 1] \in Task
    BY <1>3, <2>1, TaskEdited
  <2>. QED
    BY <1>1, <1>2, <1>3, <2>2
<1>5. \A k \in DOMAIN tasklist :
        /\ tasklist'[k].taskid = IF k = i THEN n + 1 ELSE tasklist[k].taskid
        /\ tasklist'[k].tasktype = tasklist[k].tasktype
        /\ tasklist'[k].sock = tasklist[k].sock
        /\ tasklist'[k].iovec = tasklist[k].iovec
        /\ tasklist'[k].conn = tasklist[k].conn
        /\ tasklist'[k].request = tasklist[k].request
  <2>1. tasklist[i] \in Task
    BY <1>1, <1>3
  <2>. QED
    BY <1>4, <2>1 DEF Task
<1>6. /\ worker'[w].pc = "make" /\ worker'[w].taskid = n + 1
      /\ worker'[w].tasktype = tasklist[i].tasktype /\ worker'[w].iovec = {}
      /\ \A v \in Workers : v # w => worker'[v] = worker[v]
  BY <1>2 DEF IInv, TypeOK
<1>7. /\ tasklist[i].tasktype \in Types /\ tasklist[i].tasktype # "done"
      /\ tasklist[i].iovec = {}
  BY <1>1 DEF IInv, TypeOK, TaskTypes, TasksDiffer
<1>8. \A k \in DOMAIN tasklist : tasklist[k].taskid <= n
  BY <1>3 DEF IInv, TypeOK, TaskTypes
<1>9. IdsCounted' /\ n + 1 <= queued + 1
  <2> DEFINE r == tasklist[i].request
  <2>1. Untaken' = Untaken \ {r} /\ r \in Untaken
    <3>1. \A k \in DOMAIN tasklist : tasklist[k].request = r => k = i
      BY <1>1 DEF IInv, TasksDiffer
    <3>. QED
      BY <1>1, <1>3, <1>4, <1>5, <3>1 DEF Untaken
  <2>2. IsFiniteSet(Untaken) /\ Cardinality(Untaken) \in Nat
    BY UntakenFinite
  <2>3. Cardinality(Untaken \ {r}) = Cardinality(Untaken) - 1 /\ Cardinality(Untaken \ {r}) \in Nat
    BY <2>1, <2>2, FS_RemoveElement, FS_CardinalityType
  <2>4. queued \in Nat
    BY BoundsAssumption DEF IInv, TypeOK, HistoryTypes
  <2>. QED
    BY <1>2, <1>3, <2>1, <2>2, <2>3, <2>4 DEF IInv, IdsCounted, history
<1>10. TypeOK'
  <2>1. HistoryTypes'
    BY <1>2, <1>3, <1>9, BoundsAssumption DEF IInv, TypeOK, HistoryTypes, history
  <2>2. Answer \subseteq Answer'
    BY <1>2, <1>3, AnswerGrows
  <2>3. TaskTypes'
    BY <1>2, <1>3, <1>4, <1>5, <1>7 DEF IInv, TypeOK, TaskTypes
  <2>4. WorkerType \subseteq WorkerType'
    BY <1>2, <1>3, <2>2 DEF WorkerType
  <2>5. {} \in Answer'
    BY DEF Answer
  <2>6. [pc |-> "make", taskid |-> n + 1, tasktype |-> tasklist[i].tasktype, iovec |-> {}]
          \in WorkerType'
    BY <1>2, <1>3, <1>7, <2>5 DEF WorkerType
  <2>7. worker' \in [Workers -> WorkerType']
    BY <1>2, <2>4, <2>6 DEF IInv, TypeOK
  <2>8. ConnectionType \subseteq ConnectionType'
    BY <1>2, <2>2 DEF ConnectionType, history
  <2>. QED
    BY <1>2, <2>1, <2>3, <2>7, <2>8 DEF IInv, TypeOK, LoopTypes
<1>11. TasksDiffer'
  <2>1. \A k \in DOMAIN tasklist :
          /\ tasklist'[k].request \in 1..queued
          /\ tasklist'[k].taskid # 1
          /\ tasklist'[k].taskid = 0 => tasklist'[k].tasktype # "done"
          /\ tasklist'[k].tasktype # "done" => tasklist'[k].iovec = {}
          /\ "fulllog" \notin Types /\ tasklist'[k].tasktype = "done" => tasklist'[k].iovec # {}
    BY <1>3, <1>5, <1>7, <1>9 DEF IInv, TypeOK, HistoryTypes, TasksDiffer
  <2>2. ASSUME NEW j \in DOMAIN tasklist, NEW k \in DOMAIN tasklist,
               \/ tasklist'[j].request = tasklist'[k].request
               \/ tasklist'[j].taskid = tasklist'[k].taskid /\ tasklist'[j].taskid # 0
        PROVE  j = k
    <3>1. CASE tasklist'[j].request = tasklist'[k].request
      BY <1>5, <3>1 DEF IInv, TasksDiffer
    <3>2. CASE tasklist'[j].taskid = tasklist'[k].taskid /\ tasklist'[j].taskid # 0
      BY <1>3, <1>5, <1>8, <3>2 DEF IInv, TasksDiffer
    <3>. QED
      BY <2>2, <3>1, <3>2
  <2>. QED
    BY <1>2, <1>4, <2>1, <2>2 DEF TasksDiffer, history
<1>12. WorkersOwn'
  BY <1>2, <1>3, <1>6, <1>7 DEF IInv, TypeOK, HistoryTypes, WorkersOwn
<1>13. OneWorkerPerTask'
  <2>1. /\ Busy' = Busy \cup {w} /\ w \notin Busy
        /\ \A v \in Busy : /\ worker'[v] = worker[v]
                            /\ worker[v].taskid \in 2..n
    BY <1>2, <1>6 DEF IInv, WorkersOwn, Busy
  <2>2. ASSUME NEW v \in Busy'
        PROVE  /\ Class(worker'[v].tasktype) = v
               /\ \A u \in Busy' : worker'[u].taskid = worker'[v].taskid => u = v
               /\ \A j \in DOMAIN tasklist :
                    tasklist'[j].taskid = worker'[v].taskid =>
                      /\ tasklist'[j].tasktype = worker'[v].tasktype
                      /\ \A k \in DOMAIN tasklist : tasklist'[k].taskid = worker'[v].taskid => k = j
    <3>1. CASE v = w
      BY <1>1, <1>3, <1>5, <1>6, <1>8, <2>1, <3>1
    <3>2. CASE v # w
      BY <1>1, <1>3, <1>5, <1>6, <2>1, <2>2, <3>2 DEF IInv, OneWorkerPerTask
    <3>. QED
      BY <3>1, <3>2
  <2>3. ASSUME NEW j \in DOMAIN tasklist, tasklist'[j].taskid # 0, tasklist'[j].tasktype # "done"
        PROVE  \E v \in Busy' : worker'[v].taskid = tasklist'[j].taskid
    BY <1>5, <1>6, <2>1, <2>3 DEF IInv, OneWorkerPerTask
  <2>. QED
    BY <1>4, <2>2, <2>3 DEF OneWorkerPerTask
<1>17. TasksStay'
  <2> SUFFICES ASSUME NEW v \in Busy'
               PROVE  \E k \in DOMAIN tasklist : tasklist'[k].taskid = worker'[v].taskid
    BY <1>4 DEF TasksStay
  <2>1. CASE v = w
    BY <1>1, <1>5, <1>6, <2>1
  <2>2. CASE v # w
    <3>1. v \in Busy /\ worker'[v] = worker[v] /\ worker[v].taskid # 0
      BY <1>6, <2>2 DEF Busy, IInv, WorkersOwn
    <3>2. PICK k \in DOMAIN tasklist : tasklist[k].taskid = worker[v].taskid
      BY <3>1 DEF IInv, TasksStay
    <3>. QED
      BY <1>1, <1>5, <3>1, <3>2
  <2>. QED
    BY <2>1, <2>2
<1>14. AnswersApart' /\ PendingQueued'
  BY <1>1, <1>2, <1>4, <1>5, <1>6, <1>7 DEF IInv, AnswersApart, WorkersOwn, PendingQueued, history
<1>15. ConnectionStates'
  BY <1>2 DEF IInv, ConnectionStates
<1>16. Signalled'
  <2>1. Done' = Done
    BY <1>1, <1>4, <1>5 DEF Done
  <2>. QED
    BY <1>2, <1>6, <2>1 DEF IInv, Signalled
<1>. QED
  BY <1>9, <1>10, <1>11, <1>12, <1>13, <1>14, <1>15, <1>16, <1>17
  DEF IInv

\* poptask finds nothing to do: worker w waits.
LEMMA PoptaskWaitInv ==
    ASSUME IInv, NEW w \in Workers, poptask_wait(w)
    PROVE  IInv'
  BY IdleWorkerInv DEF poptask_wait, IInv, TypeOK, LoopTypes

\* The worker makes an answer: nobody has one under the task's id yet.
LEMMA MakeInv ==
    ASSUME IInv, NEW w \in Workers, make(w)
    PROVE  IInv'
<1> DEFINE id == worker[w].taskid
           iovec == IF worker[w].tasktype = "fulllog" THEN {} ELSE {id}
<1>1. /\ worker[w].pc = "make"
      /\ worker' = [worker EXCEPT ![w].pc = "push", ![w].iovec = iovec]
      /\ memory' = memory \cup iovec
      /\ UNCHANGED <<queue, pipe, loop, ready, conn, history>>
  BY DEF make
<1>2. id \in 2..next_free_taskid /\ id \notin memory /\ worker[w].tasktype \in Types
  BY <1>1 DEF IInv, WorkersOwn
<1>3. iovec \subseteq {id} /\ iovec \in Answer /\ ("fulllog" \notin Types => iovec # {})
  BY <1>2, AnswerProperties
<1>. HIDE DEF iovec
<1>4. worker[w] \in WorkerType
  BY DEF IInv, TypeOK
<1>5. /\ worker'[w].pc = "push" /\ worker'[w].taskid = id
      /\ worker'[w].tasktype = worker[w].tasktype /\ worker'[w].iovec = iovec
      /\ \A v \in Workers : v # w => worker'[v] = worker[v]
  BY <1>1, <1>4 DEF IInv, TypeOK, WorkerType
<1>6. TypeOK'
  <2>1. Answer' = Answer
    BY <1>1 DEF Answer, queue
  <2>2. WorkerType' = WorkerType /\ ConnectionType' = ConnectionType
    BY <1>1, <2>1 DEF WorkerType, ConnectionType, queue, history
  <2>3. [worker[w] EXCEPT !.pc = "push", !.iovec = iovec] \in WorkerType
    BY <1>3, <1>4 DEF WorkerType
  <2>4. worker' \in [Workers -> WorkerType]
    BY <1>1, <2>3 DEF IInv, TypeOK
  <2>5. TaskTypes'
    BY <1>1 DEF IInv, TypeOK, TaskTypes, queue
  <2>6. HistoryTypes' /\ LoopTypes'
    BY <1>1, <1>2, <1>3 DEF IInv, TypeOK, HistoryTypes, LoopTypes, queue, history
  <2>. QED
    BY <1>1, <2>2, <2>4, <2>5, <2>6 DEF IInv, TypeOK
<1>7. TasksDiffer' /\ PendingQueued' /\ ConnectionStates'
  BY <1>1 DEF IInv, TasksDiffer, PendingQueued, ConnectionStates, queue, history
<1>8. Busy' = Busy /\ w \in Busy
  BY <1>1, <1>5 DEF Busy
<1>9. WorkersOwn'
  <2>1. \A v \in Workers : v # w /\ worker[v].pc = "make" => worker[v].taskid # id
    BY <1>8 DEF IInv, OneWorkerPerTask, Busy
  <2>. QED
    <3> SUFFICES ASSUME NEW v \in Workers
                 PROVE  /\ worker'[v].pc \in {"make", "push"} =>
                             /\ worker'[v].taskid \in 2..next_free_taskid
                             /\ worker'[v].tasktype \in Types
                        /\ worker'[v].pc # "push" => worker'[v].iovec = {}
                        /\ worker'[v].pc = "make" => worker'[v].taskid \notin memory'
                        /\ worker'[v].pc = "push" => worker'[v].iovec \subseteq {worker'[v].taskid}
                        /\ worker'[v].pc = "push" /\ "fulllog" \notin Types => worker'[v].iovec # {}
      BY <1>1 DEF WorkersOwn, queue
    <3>1. CASE v = w
      BY <1>2, <1>3, <1>5, <3>1
    <3>2. CASE v # w
      <4>1. worker'[v] = worker[v]
        BY <1>5, <3>2
      <4>2. worker[v].pc = "make" => worker[v].taskid \notin memory'
        BY <1>1, <1>3, <2>1, <3>2 DEF IInv, WorkersOwn
      <4>. QED
        BY <4>1, <4>2 DEF IInv, WorkersOwn
    <3>. QED
      BY <3>1, <3>2
<1>10. OneWorkerPerTask' /\ TasksStay'
  <2>1. tasklist' = tasklist
    BY <1>1 DEF queue
  <2>2. \A v \in Busy : /\ worker'[v].taskid = worker[v].taskid
                         /\ worker'[v].tasktype = worker[v].tasktype
    BY <1>5 DEF Busy
  <2>3. ASSUME NEW v \in Busy
        PROVE  /\ Class(worker'[v].tasktype) = v
               /\ \A u \in Busy : worker'[u].taskid = worker'[v].taskid => u = v
               /\ \A i \in DOMAIN tasklist :
                    tasklist[i].taskid = worker'[v].taskid =>
                      /\ tasklist[i].tasktype = worker'[v].tasktype
                      /\ \A k \in DOMAIN tasklist : tasklist[k].taskid = worker'[v].taskid => k = i
    BY <2>2 DEF IInv, OneWorkerPerTask
  <2>4. \A i \in DOMAIN tasklist :
          tasklist[i].taskid # 0 /\ tasklist[i].tasktype # "done" =>
            \E v \in Busy : worker'[v].taskid = tasklist[i].taskid
    BY <2>2 DEF IInv, OneWorkerPerTask
  <2>. QED
    BY <1>8, <2>1, <2>2, <2>3, <2>4 DEF IInv, OneWorkerPerTask, TasksStay
<1>11. AnswersApart'
  <2>1. /\ \A i \in DOMAIN tasklist : id \notin tasklist[i].iovec
        /\ \A s \in Socks : id \notin conn[s].batch
    BY <1>2 DEF IInv, AnswersApart
  <2>2. tasklist' = tasklist /\ conn' = conn
    BY <1>1 DEF queue
  <2>3. worker[w].iovec = {}
    BY <1>1 DEF IInv, WorkersOwn
  <2>4. \A v \in Workers : \A s \in Socks : worker'[v].iovec \cap conn[s].batch = {}
    BY <1>3, <1>5, <2>1 DEF IInv, AnswersApart
  <2>5. \A v \in Workers : worker'[v].iovec \subseteq memory'
    BY <1>1, <1>5 DEF IInv, AnswersApart
  <2>6. "fulllog" \notin Types =>
          \A a \in memory' :
            \/ \E i \in DOMAIN tasklist : a \in tasklist[i].iovec
            \/ \E v \in Workers : a \in worker'[v].iovec
            \/ \E s \in Socks : a \in conn[s].batch
    BY <1>1, <1>5, <2>3 DEF IInv, AnswersApart
  <2>. QED
    BY <1>1, <2>2, <2>4, <2>5, <2>6 DEF IInv, AnswersApart
<1>12. IdsCounted' /\ Signalled'
  BY <1>1, <1>5 DEF IInv, IdsCounted, Untaken, Signalled, Done, queue, history
<1>. QED
  BY <1>6, <1>7, <1>9, <1>10, <1>11, <1>12 DEF IInv

\* The end of pushresult: the event loop is told.
LEMMA SignalInv ==
    ASSUME IInv, NEW w \in Workers, pushresult_signal(w)
    PROVE  IInv'
  BY IdleWorkerInv DEF pushresult_signal

\* pushresult finds the worker's task in the list, where it has been all the time.
LEMMA PushresultFinds ==
    ASSUME IInv, NEW w \in Workers, pushresult(w)
    PROVE  \E i \in DOMAIN tasklist :
             /\ tasklist[i].taskid = worker[w].taskid
             /\ tasklist' = [tasklist EXCEPT ![i].iovec = worker[w].iovec, ![i].tasktype = "done"]
             /\ UNCHANGED memory
<1> DEFINE I == {k \in 1..Len(tasklist) : tasklist[k].taskid = worker[w].taskid}
           j == SelectInSeq(tasklist, LAMBDA t : t.taskid = worker[w].taskid)
<1>1. w \in Busy /\ DOMAIN tasklist = 1..Len(tasklist) /\ Len(tasklist) \in Nat
  BY DEF pushresult, Busy, IInv, TasksDiffer
<1>2. I # {} /\ I \subseteq Nat
  BY <1>1 DEF IInv, TasksStay
<1>3. Min(I) \in I
  BY <1>2, MinProperties
<1>4. j = Min(I)
  BY <1>2 DEF SelectInSeq
<1>5. j \in I /\ j # 0
  BY <1>3, <1>4
<1>. HIDE DEF j
<1>6. /\ tasklist' = [tasklist EXCEPT ![j].iovec = worker[w].iovec, ![j].tasktype = "done"]
      /\ UNCHANGED memory
  BY <1>5 DEF pushresult, j
<1>. QED
  BY <1>1, <1>5, <1>6

\* pushresult hands the answer over to the task.
LEMMA PushresultInv ==
    ASSUME IInv, NEW w \in Workers, pushresult(w)
    PROVE  IInv'
<1> DEFINE id == worker[w].taskid
           iovec == worker[w].iovec
<1>1. PICK i \in DOMAIN tasklist :
         /\ tasklist[i].taskid = id
         /\ tasklist' = [tasklist EXCEPT ![i].iovec = iovec, ![i].tasktype = "done"]
         /\ UNCHANGED memory
  BY PushresultFinds
<1>2. /\ worker[w].pc = "push"
      /\ worker' = [worker EXCEPT ![w] = [Idle EXCEPT !.pc = "signal"]]
      /\ UNCHANGED <<next_free_taskid, pipe, loop, ready, conn, history>>
  BY DEF pushresult
<1>3. /\ id \in 2..next_free_taskid
      /\ iovec \subseteq {id}
      /\ "fulllog" \notin Types => iovec # {}
      /\ iovec \subseteq memory
      /\ iovec \in SUBSET Nat
  BY <1>2, BoundsAssumption DEF IInv, TypeOK, HistoryTypes, WorkersOwn, AnswersApart
<1>4. /\ tasklist \in Seq(Task)
      /\ tasklist' \in Seq(Task)
      /\ DOMAIN tasklist' = DOMAIN tasklist
      /\ tasklist'[i] = [tasklist[i] EXCEPT !.iovec = iovec, !.tasktype = "done"]
      /\ \A k \in DOMAIN tasklist : k # i => tasklist'[k] = tasklist[k]
  <2>1. tasklist \in Seq(Task)
    BY DEF IInv, TasksDiffer
  <2>2. tasklist[i] \in Task
    BY <2>1
  <2>3. [tasklist[i] EXCEPT !.iovec = iovec, !.tasktype = "done"] \in Task
    BY <1>3, <2>2, TaskEdited
  <2>4. tasklist' = [tasklist EXCEPT ![i] = [tasklist[i] EXCEPT !.iovec = iovec, !.tasktype = "done"]]
    BY <1>1, <2>1, TaskAnswered
  <2>. QED
    BY <2>1, <2>3, <2>4
<1>5. \A k \in DOMAIN tasklist :
        /\ tasklist'[k].taskid = tasklist[k].taskid
        /\ tasklist'[k].tasktype = IF k = i THEN "done" ELSE tasklist[k].tasktype
        /\ tasklist'[k].iovec = IF k = i THEN iovec ELSE tasklist[k].iovec
        /\ tasklist'[k].sock = tasklist[k].sock
        /\ tasklist'[k].conn = tasklist[k].conn
        /\ tasklist'[k].request = tasklist[k].request
  <2>1. tasklist[i] \in Task
    BY <1>4
  <2>. QED
    BY <1>4, <2>1, ZenonT(30) DEF Task
<1>6. /\ worker'[w].pc = "signal" /\ worker'[w].iovec = {}
      /\ \A v \in Workers : v # w => worker'[v] = worker[v]
  BY <1>2 DEF IInv, TypeOK, Idle
<1>7. Busy' = Busy \ {w} /\ w \in Busy
  BY <1>2, <1>6 DEF Busy
<1>8. /\ tasklist[i].tasktype # "done" /\ tasklist[i].iovec = {}
      /\ \A k \in DOMAIN tasklist : tasklist[k].taskid = id => k = i
      /\ \A v \in Busy : v # w => worker[v].taskid # id
  <2>1. worker[w].tasktype \in Types /\ "done" \notin Types
    BY <1>2, TypesAssumption DEF IInv, WorkersOwn
  <2>. QED
    BY <1>1, <1>7, <2>1 DEF IInv, OneWorkerPerTask, TasksDiffer
<1>9. TypeOK'
  <2>1. WorkerType' = WorkerType /\ ConnectionType' = ConnectionType
    BY <1>2 DEF WorkerType, ConnectionType, Answer, history
  <2>2. [Idle EXCEPT !.pc = "signal"] \in WorkerType
    <3>1. 0 \in 0..next_free_taskid
      BY BoundsAssumption DEF IInv, TypeOK, HistoryTypes
    <3>2. [Idle EXCEPT !.pc = "signal"]
            = [pc |-> "signal", taskid |-> 0, tasktype |-> "done", iovec |-> {}]
      BY DEF Idle
    <3>. QED
      BY <3>1, <3>2, AnswerProperties DEF WorkerType
  <2>3. worker' \in [Workers -> WorkerType]
    BY <1>2, <2>2 DEF IInv, TypeOK
  <2>4. TaskTypes'
    BY <1>1, <1>2, <1>3, <1>4, <1>5 DEF IInv, TypeOK, TaskTypes
  <2>5. HistoryTypes' /\ LoopTypes'
    BY <1>1, <1>2 DEF IInv, TypeOK, HistoryTypes, LoopTypes, history
  <2>. QED
    BY <1>2, <2>1, <2>3, <2>4, <2>5 DEF IInv, TypeOK
<1>10. TasksDiffer'
  BY <1>1, <1>2, <1>3, <1>4, <1>5 DEF IInv, TasksDiffer, history
<1>11. WorkersOwn'
  BY <1>1, <1>2, <1>6 DEF IInv, WorkersOwn
<1>12. OneWorkerPerTask' /\ TasksStay'
  <2>1. ASSUME NEW v \in Busy'
        PROVE  /\ Class(worker'[v].tasktype) = v
               /\ \A u \in Busy' : worker'[u].taskid = worker'[v].taskid => u = v
               /\ \A j \in DOMAIN tasklist :
                    tasklist'[j].taskid = worker'[v].taskid =>
                      /\ tasklist'[j].tasktype = worker'[v].tasktype
                      /\ \A k \in DOMAIN tasklist : tasklist'[k].taskid = worker'[v].taskid => k = j
               /\ \E j \in DOMAIN tasklist : tasklist'[j].taskid = worker'[v].taskid
    <3>1. /\ v \in Busy /\ v # w /\ worker'[v] = worker[v] /\ worker[v].taskid # id
          /\ \A u \in Busy' : u \in Busy /\ worker'[u] = worker[u]
      BY <1>6, <1>7, <1>8 DEF Busy
    <3>. QED
      BY <1>1, <1>5, <3>1 DEF IInv, OneWorkerPerTask, TasksStay
  <2>2. ASSUME NEW j \in DOMAIN tasklist, tasklist'[j].taskid # 0, tasklist'[j].tasktype # "done"
        PROVE  \E v \in Busy' : worker'[v].taskid = tasklist'[j].taskid
    <3>1. j # i /\ tasklist[j].taskid # 0 /\ tasklist[j].tasktype # "done"
      BY <1>5, <2>2
    <3>2. PICK v \in Busy : worker[v].taskid = tasklist[j].taskid
      BY <3>1 DEF IInv, OneWorkerPerTask
    <3>3. v # w
      BY <1>8, <3>1, <3>2
    <3>4. v \in Busy' /\ worker'[v] = worker[v]
      BY <1>6, <1>7, <3>3 DEF Busy
    <3>. QED
      BY <1>5, <3>2, <3>4
  <2>. QED
    BY <1>4, <2>1, <2>2 DEF OneWorkerPerTask, TasksStay
<1>13. AnswersApart'
  <2>1. ASSUME NEW k \in DOMAIN tasklist
        PROVE  /\ tasklist'[k].iovec \subseteq memory
               /\ \A s \in Socks : tasklist'[k].iovec \cap conn[s].batch = {}
    BY <1>3, <1>5 DEF IInv, AnswersApart
  <2>2. ASSUME NEW v \in Workers
        PROVE  /\ worker'[v].iovec \subseteq memory
               /\ \A s \in Socks : worker'[v].iovec \cap conn[s].batch = {}
    BY <1>6 DEF IInv, AnswersApart
  <2>3. ASSUME "fulllog" \notin Types, NEW a \in memory
        PROVE  \/ \E k \in DOMAIN tasklist : a \in tasklist'[k].iovec
               \/ \E v \in Workers : a \in worker'[v].iovec
               \/ \E s \in Socks : a \in conn[s].batch
    <3>1. CASE \E k \in DOMAIN tasklist : a \in tasklist[k].iovec
      BY <1>5, <1>8, <3>1
    <3>2. CASE \E v \in Workers : a \in worker[v].iovec
      BY <1>5, <1>6, <3>2
    <3>. QED
      BY <2>3, <3>1, <3>2 DEF IInv, AnswersApart
  <2>. QED
    BY <1>1, <1>2, <1>4, <2>1, <2>2, <2>3 DEF IInv, AnswersApart
<1>14. ConnectionStates' /\ PendingQueued'
  BY <1>2, <1>4, <1>5 DEF IInv, ConnectionStates, PendingQueued, history
<1>15. IdsCounted'
  <2>1. Untaken' = Untaken
    BY <1>4, <1>5 DEF Untaken
  <2>. QED
    BY <1>2, <2>1 DEF IInv, IdsCounted, history
<1>16. Signalled'
  BY <1>2, <1>6 DEF IInv, Signalled
<1>. QED
  BY <1>9, <1>10, <1>11, <1>12, <1>13, <1>14, <1>15, <1>16 DEF IInv

-----------------------------------------------------------------------------
(* The event loop and its connections. *)

\* The event loop goes on to its next loop or looks at a descriptor.
LEMMA LoopInv ==
    ASSUME IInv, UNCHANGED <<queue, worker, conn, history, memory>>,
           LoopTypes', Signalled',
           \A s \in Socks : s \in ready' => s \in ready \/ conn[s].wantread
    PROVE  IInv'
<1>1. TypeOK'
  BY DEF IInv, TypeOK, TaskTypes, HistoryTypes, WorkerType, ConnectionType, Answer, queue, history
<1>2. TasksDiffer' /\ PendingQueued' /\ ConnectionStates'
  BY DEF IInv, TasksDiffer, PendingQueued, ConnectionStates, queue, history
<1>3. Busy' = Busy
  BY DEF Busy
<1>4. WorkersOwn' /\ OneWorkerPerTask' /\ TasksStay' /\ AnswersApart'
  BY <1>3 DEF IInv, WorkersOwn, OneWorkerPerTask, TasksStay, AnswersApart, queue
<1>5. IdsCounted'
  BY DEF IInv, IdsCounted, Untaken, queue, history
<1>. QED
  BY <1>1, <1>2, <1>4, <1>5 DEF IInv

\* A connection is accepted, closed or set to write: it keeps its answer or releases it.
LEMMA ConnectionInv ==
    ASSUME IInv, NEW s \in Socks, NEW c \in ConnectionType',
           conn' = [conn EXCEPT ![s] = c], ConnectionState(c),
           \/ c.batch = conn[s].batch /\ UNCHANGED memory
           \/ c.batch = {} /\ memory' = memory \ conn[s].batch,
           UNCHANGED <<queue, worker, pipe, loop, queued, pending>>,
           ready' \subseteq ready \ {s},
           accepted' \in 0..MaxConns, accepted <= accepted'
    PROVE  IInv'
<1>1. TypeOK'
  <2>1. WorkerType' = WorkerType /\ ConnectionType \subseteq ConnectionType'
    BY BoundsAssumption DEF IInv, TypeOK, HistoryTypes, WorkerType, ConnectionType, Answer, queue
  <2>2. conn' \in [Socks -> ConnectionType']
    BY <2>1 DEF IInv, TypeOK
  <2>3. TaskTypes' /\ LoopTypes'
    BY DEF IInv, TypeOK, TaskTypes, LoopTypes, queue
  <2>4. HistoryTypes'
    <3>1. 1..accepted \subseteq 1..accepted'
      BY BoundsAssumption DEF IInv, TypeOK, HistoryTypes
    <3>2. pending' \subseteq (1..accepted') \X (1..queued')
      BY <3>1 DEF IInv, TypeOK, HistoryTypes
    <3>. QED
      BY <3>2 DEF IInv, TypeOK, HistoryTypes, queue
  <2>. QED
    BY <2>1, <2>2, <2>3, <2>4 DEF IInv, TypeOK
<1>2. conn'[s] = c /\ \A r \in Socks : r # s => conn'[r] = conn[r]
  BY DEF IInv, TypeOK
<1>3. TasksDiffer' /\ PendingQueued'
  BY DEF IInv, TasksDiffer, PendingQueued, queue
<1>4. ConnectionStates'
  BY <1>2 DEF IInv, ConnectionStates
<1>5. WorkersOwn'
  BY DEF IInv, WorkersOwn, queue
<1>6. OneWorkerPerTask' /\ TasksStay'
  BY DEF IInv, OneWorkerPerTask, TasksStay, Busy, queue
<1>7. AnswersApart'
  BY <1>2 DEF IInv, AnswersApart, queue
<1>8. IdsCounted' /\ Signalled'
  BY DEF IInv, IdsCounted, Untaken, Signalled, Done, queue
<1>. QED
  BY <1>1, <1>3, <1>4, <1>5, <1>6, <1>7, <1>8 DEF IInv

\* handle_dead of a connection that does not wait for a task closes it and no more.
LEMMA HandleDeadInv ==
    ASSUME IInv, NEW s \in Socks, ~conn[s].waiting, handle_dead(s),
           UNCHANGED <<next_free_taskid, worker, pipe, loop, history>>,
           ready' \subseteq ready \ {s}
    PROVE  IInv'
<1>1. /\ conn' = [conn EXCEPT ![s] = Closed]
      /\ UNCHANGED queue
      /\ memory' = memory \ conn[s].batch
  BY DEF handle_dead, queue
<1>2. Closed \in ConnectionType' /\ ConnectionState(Closed) /\ Closed.batch = {}
  <2>1. {} \in Answer' /\ 0 \in 0..accepted'
    BY BoundsAssumption DEF IInv, TypeOK, HistoryTypes, Answer, history
  <2>. QED
    BY <2>1 DEF Closed, ConnectionType, ConnectionState
<1>3. accepted' \in 0..MaxConns /\ accepted <= accepted'
  BY BoundsAssumption DEF IInv, TypeOK, HistoryTypes, history
<1>4. UNCHANGED <<queue, worker, pipe, loop, queued, pending>>
  BY <1>1 DEF history
<1>. QED
  BY <1>1, <1>2, <1>3, <1>4, ConnectionInv

\* A connection whose descriptor is ready reads and has no answer; it does not wait.
LEMMA ReadyReads ==
    ASSUME IInv, NEW s \in Socks, s \in ready
    PROVE  conn[s].wantread /\ ~conn[s].waiting /\ ~conn[s].wantwrite /\ conn[s].batch = {}
             /\ conn[s].id # 0
  BY DEF IInv, ConnectionStates, ConnectionState, Closed

\* A request that is answered at once.
LEMMA SimpleInv ==
    ASSUME IInv, NEW s \in Socks, handle_read_simple(s)
    PROVE  IInv'
<1>1. /\ s \in ready /\ ready' = ready \ {s}
      /\ UNCHANGED <<queue, worker, pipe, loop, accepted, queued, pending, memory>>
      /\ http_senddata(s)
  BY DEF handle_read_simple, CanRead
<1>2. conn[s].wantread /\ ~conn[s].waiting /\ conn[s].batch = {} /\ conn[s].id # 0
  BY <1>1, ReadyReads
<1>3. accepted' \in 0..MaxConns /\ accepted <= accepted'
  BY <1>1, BoundsAssumption DEF IInv, TypeOK, HistoryTypes
<1>4. ConnectionType' = ConnectionType
  BY <1>1 DEF ConnectionType, Answer, queue
<1>5. CASE conn' = [conn EXCEPT ![s] = Closed]
  <2>1. Closed \in ConnectionType' /\ ConnectionState(Closed) /\ Closed.batch = {}
    <3>1. {} \in Answer' /\ 0 \in 0..accepted'
      BY <1>3, BoundsAssumption DEF Answer
    <3>. QED
      BY <3>1 DEF Closed, ConnectionType, ConnectionState
  <2>. QED
    BY <1>1, <1>2, <1>3, <1>5, <2>1, ConnectionInv
<1>6. CASE conn' = [conn EXCEPT ![s].wantread = FALSE, ![s].wantwrite = TRUE,
                                ![s].timeout = FALSE]
  <2> DEFINE c == [conn[s] EXCEPT !.wantread = FALSE, !.wantwrite = TRUE, !.timeout = FALSE]
  <2>1. conn[s] \in ConnectionType
    BY DEF IInv, TypeOK
  <2>2. conn' = [conn EXCEPT ![s] = c]
    BY <1>6 DEF IInv, TypeOK
  <2>3. c \in ConnectionType'
    BY <1>4, <2>1 DEF ConnectionType
  <2>4. ConnectionState(c) /\ c.batch = {}
    BY <1>2, <2>1 DEF ConnectionState, ConnectionType
  <2>. HIDE DEF c
  <2>. QED
    BY <1>1, <1>2, <1>3, <2>2, <2>3, <2>4, ConnectionInv
<1>. QED
  BY <1>1, <1>5, <1>6 DEF http_senddata

\* A connection is accepted on a descriptor that is free.
LEMMA AcceptInv ==
    ASSUME IInv, NEW s \in Socks, handle_accept(s)
    PROVE  IInv'
<1> DEFINE c == [Closed EXCEPT !.id = accepted + 1, !.wantread = TRUE, !.timeout = TRUE]
<1>1. /\ ~IsOpen(s) /\ accepted < MaxConns /\ accepted' = accepted + 1
      /\ conn' = [conn EXCEPT ![s] = c]
      /\ UNCHANGED <<queue, worker, pipe, loop, ready, queued, pending, memory>>
  BY DEF handle_accept
<1>2. conn[s] = Closed /\ s \notin ready
  BY <1>1 DEF IInv, ConnectionStates, ConnectionState, IsOpen, Closed
<1>3. accepted \in Nat /\ accepted' \in 0..MaxConns /\ accepted <= accepted'
  BY <1>1, BoundsAssumption DEF IInv, TypeOK, HistoryTypes
<1>4. c \in ConnectionType' /\ ConnectionState(c) /\ c.batch = {}
  <2>1. {} \in Answer' /\ accepted + 1 \in 0..accepted' /\ accepted + 1 # 0
    BY <1>1, <1>3 DEF Answer
  <2>. QED
    BY <2>1 DEF Closed, ConnectionType, ConnectionState
<1>5. conn[s].batch = {}
  BY <1>2 DEF Closed
<1>6. ready' \subseteq ready \ {s}
  BY <1>1, <1>2
<1>. HIDE DEF c
<1>. QED
  BY <1>1, <1>3, <1>4, <1>5, <1>6, ConnectionInv

\* A request becomes a task at the end of the list and wakes the workers; its connection c
\* waits for the answer or goes on reading.
LEMMA PushtaskInv ==
    ASSUME IInv, NEW s \in Socks, NEW type \in Types, NEW c \in ConnectionType,
           s \in ready, ready' = ready \ {s}, queued < MaxRequests, pushtask(s, type),
           conn' = [conn EXCEPT ![s] = c], ConnectionState(c), c.batch = {},
           UNCHANGED <<pipe, loop, accepted, memory>>
    PROVE  IInv'
<1> DEFINE n == Len(tasklist)
           t == [taskid |-> 0, tasktype |-> type, sock |-> s, iovec |-> {},
                 conn |-> conn[s].id, request |-> queued + 1]
<1>1. /\ tasklist' = Append(tasklist, t)
      /\ worker' = pushtask_Wake
      /\ queued' = queued + 1
      /\ pending' = pending \cup {<<conn[s].id, queued + 1>>}
      /\ next_free_taskid' = next_free_taskid
  BY DEF pushtask
<1>2. /\ queued \in Nat /\ queued' \in 0..MaxRequests /\ accepted \in Nat
      /\ conn[s] \in ConnectionType /\ conn[s].id \in 1..accepted
      /\ next_free_taskid \in Nat \ {0}
  <2>1. conn[s] \in ConnectionType /\ conn[s].id # 0
    BY ReadyReads DEF IInv, TypeOK
  <2>. QED
    BY <1>1, <2>1, BoundsAssumption DEF IInv, TypeOK, HistoryTypes, ConnectionType
<1>3. t \in Task
  BY <1>2 DEF Task
<1>4. /\ tasklist \in Seq(Task) /\ n \in Nat /\ DOMAIN tasklist = 1..n
      /\ tasklist' \in Seq(Task) /\ DOMAIN tasklist' = 1..(n + 1)
      /\ tasklist'[n + 1] = t
      /\ \A k \in 1..n : tasklist'[k] = tasklist[k]
  <2>1. tasklist \in Seq(Task)
    BY DEF IInv, TasksDiffer
  <2>. QED
    BY <1>1, <1>3, <2>1, AppendProperties
<1>5. /\ t.taskid = 0 /\ t.tasktype = type /\ t.sock = s /\ t.iovec = {}
      /\ t.conn = conn[s].id /\ t.request = queued + 1
  OBVIOUS
<1>. HIDE DEF t, n
<1>6. \A w \in Workers :
        /\ worker'[w] = IF worker[w].pc = "asleep" THEN [worker[w] EXCEPT !.pc = "pop"]
                                                   ELSE worker[w]
        /\ worker[w] \in WorkerType
  BY <1>1 DEF pushtask_Wake, IInv, TypeOK
<1>7. \A w \in Workers :
        /\ worker'[w].pc = IF worker[w].pc = "asleep" THEN "pop" ELSE worker[w].pc
        /\ worker'[w].taskid = worker[w].taskid
        /\ worker'[w].tasktype = worker[w].tasktype
        /\ worker'[w].iovec = worker[w].iovec
  BY <1>6, ZenonT(30) DEF WorkerType
<1>8. Busy' = Busy
  BY <1>7 DEF Busy
<1>9. conn'[s] = c /\ \A r \in Socks : r # s => conn'[r] = conn[r]
  BY DEF IInv, TypeOK
<1>10. TypeOK'
  <2>1. WorkerType' = WorkerType /\ ConnectionType' = ConnectionType
    BY <1>1 DEF WorkerType, ConnectionType, Answer
  <2>2. worker' \in [Workers -> WorkerType]
    <3>1. \A w \in Workers : [worker[w] EXCEPT !.pc = "pop"] \in WorkerType
      BY <1>6 DEF WorkerType
    <3>. QED
      BY <1>1, <1>6, <3>1 DEF pushtask_Wake
  <2>3. conn' \in [Socks -> ConnectionType]
    BY DEF IInv, TypeOK
  <2>4. TaskTypes'
    BY <1>1, <1>2, <1>4, <1>5 DEF IInv, TypeOK, TaskTypes
  <2>5. HistoryTypes'
    BY <1>1, <1>2, BoundsAssumption DEF IInv, TypeOK, HistoryTypes
  <2>6. LoopTypes'
    BY DEF IInv, TypeOK, LoopTypes
  <2>. QED
    BY <2>1, <2>2, <2>3, <2>4, <2>5, <2>6 DEF TypeOK
<1>11. TasksDiffer'
  <2>1. \A k \in 1..(n + 1) :
          /\ tasklist'[k].request \in 1..queued'
          /\ tasklist'[k].taskid # 1
          /\ tasklist'[k].taskid = 0 => tasklist'[k].tasktype # "done"
          /\ tasklist'[k].tasktype # "done" => tasklist'[k].iovec = {}
          /\ "fulllog" \notin Types /\ tasklist'[k].tasktype = "done" => tasklist'[k].iovec # {}
    <3> TAKE k \in 1..(n + 1)
    <3>1. CASE k = n + 1
      BY <1>1, <1>2, <1>4, <1>5, <3>1, TypesAssumption
    <3>2. CASE k # n + 1
      <4>1. k \in 1..n /\ tasklist'[k] = tasklist[k]
        BY <1>4, <3>2
      <4>2. tasklist[k].request \in 1..queued'
        <5>1. tasklist[k].request \in 1..queued
          BY <1>4, <4>1 DEF IInv, TasksDiffer
        <5>2. queued' = queued + 1
          BY <1>1
        <5>. QED
          BY <1>2, <5>1, <5>2
      <4>. QED
        BY <1>4, <4>1, <4>2 DEF IInv, TasksDiffer
    <3>. QED
      BY <3>1, <3>2
  <2>2. ASSUME NEW j \in 1..(n + 1), NEW k \in 1..(n + 1),
               \/ tasklist'[j].request = tasklist'[k].request
               \/ tasklist'[j].taskid = tasklist'[k].taskid /\ tasklist'[j].taskid # 0
        PROVE  j = k
    <3>1. \A i \in 1..n : tasklist[i].request # queued + 1
      BY <1>2, <1>4 DEF IInv, TasksDiffer
    <3>2. CASE j = n + 1
      BY <1>2, <1>4, <1>5, <2>2, <3>1, <3>2
    <3>3. CASE k = n + 1
      BY <1>2, <1>4, <1>5, <2>2, <3>1, <3>3
    <3>4. CASE j # n + 1 /\ k # n + 1
      <4>1. /\ j \in 1..n /\ tasklist'[j] = tasklist[j]
            /\ k \in 1..n /\ tasklist'[k] = tasklist[k]
        BY <1>4, <3>4
      <4>. QED
        BY <1>4, <2>2, <4>1 DEF IInv, TasksDiffer
    <3>. QED
      BY <3>2, <3>3, <3>4
  <2>. QED
    BY <1>4, <2>1, <2>2 DEF TasksDiffer
<1>12. WorkersOwn'
  BY <1>1, <1>7 DEF IInv, WorkersOwn
<1>13. OneWorkerPerTask' /\ TasksStay'
  <2>1. \A w \in Busy : worker[w].taskid # 0
    BY DEF IInv, WorkersOwn, Busy
  <2>2. ASSUME NEW w \in Busy
        PROVE  /\ Class(worker'[w].tasktype) = w
               /\ \A u \in Busy : worker'[u].taskid = worker'[w].taskid => u = w
               /\ \A j \in 1..(n + 1) :
                    tasklist'[j].taskid = worker'[w].taskid =>
                      /\ tasklist'[j].tasktype = worker'[w].tasktype
                      /\ \A k \in 1..(n + 1) : tasklist'[k].taskid = worker'[w].taskid => k = j
               /\ \E j \in 1..(n + 1) : tasklist'[j].taskid = worker'[w].taskid
    <3>1. /\ worker'[w].tasktype = worker[w].tasktype
          /\ \A u \in Busy : worker'[u].taskid = worker[u].taskid
      BY <1>7 DEF Busy
    <3>2. \A j \in 1..(n + 1) : tasklist'[j].taskid = worker[w].taskid =>
            j \in 1..n /\ tasklist'[j] = tasklist[j]
      BY <1>4, <1>5, <2>1
    <3>3. PICK j \in 1..n : tasklist[j].taskid = worker[w].taskid
      BY <1>4 DEF IInv, TasksStay
    <3>4. j \in 1..(n + 1) /\ tasklist'[j] = tasklist[j]
      BY <1>4
    <3>5. ASSUME NEW i \in 1..(n + 1), tasklist'[i].taskid = worker[w].taskid
          PROVE  /\ tasklist'[i].tasktype = worker[w].tasktype
                 /\ \A k \in 1..(n + 1) : tasklist'[k].taskid = worker[w].taskid => k = i
      <4>1. i \in 1..n /\ tasklist'[i] = tasklist[i] /\ tasklist[i].taskid = worker[w].taskid
        BY <3>2, <3>5
      <4>2. /\ tasklist[i].tasktype = worker[w].tasktype
            /\ \A k \in 1..n : tasklist[k].taskid = worker[w].taskid => k = i
        BY <1>4, <4>1 DEF IInv, OneWorkerPerTask
      <4>. QED
        BY <3>2, <4>1, <4>2
    <3>6. Class(worker[w].tasktype) = w
            /\ \A u \in Busy : worker[u].taskid = worker[w].taskid => u = w
      BY DEF IInv, OneWorkerPerTask
    <3>. QED
      BY <3>1, <3>3, <3>4, <3>5, <3>6
  <2>3. ASSUME NEW j \in 1..(n + 1), tasklist'[j].taskid # 0, tasklist'[j].tasktype # "done"
        PROVE  \E w \in Busy : worker'[w].taskid = tasklist'[j].taskid
    <3>1. j \in 1..n /\ tasklist'[j] = tasklist[j]
      BY <1>4, <1>5, <2>3
    <3>. QED
      BY <1>4, <1>7, <2>3, <3>1 DEF IInv, OneWorkerPerTask, Busy
  <2>. QED
    BY <1>4, <1>8, <2>2, <2>3 DEF OneWorkerPerTask, TasksStay
<1>14. AnswersApart'
  <2>1. conn[s].batch = {}
    BY ReadyReads
  <2>2. \A r \in Socks : conn'[r].batch = conn[r].batch
    BY <1>9, <2>1
  <2>3. ASSUME NEW k \in 1..(n + 1)
        PROVE  /\ tasklist'[k].iovec \subseteq memory
               /\ \A r \in Socks : tasklist'[k].iovec \cap conn'[r].batch = {}
    BY <1>4, <1>5, <2>2 DEF IInv, AnswersApart
  <2>4. ASSUME "fulllog" \notin Types, NEW a \in memory
        PROVE  \/ \E k \in 1..(n + 1) : a \in tasklist'[k].iovec
               \/ \E w \in Workers : a \in worker'[w].iovec
               \/ \E r \in Socks : a \in conn'[r].batch
    <3>1. CASE \E k \in 1..n : a \in tasklist[k].iovec
      BY <1>4, <3>1
    <3>2. CASE ~ \E k \in 1..n : a \in tasklist[k].iovec
      BY <1>4, <1>7, <2>2, <2>4, <3>2 DEF IInv, AnswersApart
    <3>. QED
      BY <3>1, <3>2
  <2>. QED
    BY <1>4, <1>7, <2>2, <2>3, <2>4 DEF IInv, AnswersApart
<1>15. ConnectionStates'
  BY <1>9 DEF IInv, ConnectionStates
<1>16. PendingQueued'
  <2> SUFFICES ASSUME NEW p \in pending'
               PROVE  \E k \in 1..(n + 1) : tasklist'[k].request = p[2] /\ tasklist'[k].conn = p[1]
    BY <1>4 DEF PendingQueued
  <2>1. CASE p \in pending
    <3>1. PICK k \in 1..n : tasklist[k].request = p[2] /\ tasklist[k].conn = p[1]
      BY <1>4, <2>1 DEF IInv, PendingQueued
    <3>. QED
      BY <1>4, <3>1
  <2>2. CASE p = <<conn[s].id, queued + 1>>
    BY <1>4, <1>5, <2>2
  <2>. QED
    BY <1>1, <2>1, <2>2
<1>17. IdsCounted'
  <2>1. Untaken' = Untaken \cup {queued + 1} /\ queued + 1 \notin Untaken
    BY <1>2, <1>4, <1>5, SMTT(30) DEF IInv, TasksDiffer, Untaken
  <2>2. IsFiniteSet(Untaken) /\ Cardinality(Untaken) \in Nat
    BY UntakenFinite
  <2>3. Cardinality(Untaken') = Cardinality(Untaken) + 1
    BY <2>1, <2>2, FS_AddElement
  <2>. QED
    BY <1>1, <1>2, <2>2, <2>3 DEF IInv, IdsCounted
<1>18. Signalled'
  <2>1. Done' = Done
    BY <1>4, <1>5, TypesAssumption DEF Done
  <2>2. \A w \in Workers : worker[w].pc = "signal" => worker'[w].pc = "signal"
    BY <1>7
  <2>. QED
    BY <2>1, <2>2 DEF IInv, Signalled
<1>. QED
  BY <1>10, <1>11, <1>12, <1>13, <1>14, <1>15, <1>16, <1>17, <1>18 DEF IInv

\* The two kinds of request that become tasks.
LEMMA StatsInv ==
    ASSUME IInv, NEW s \in Socks, NEW type \in Types, http_handle_stats(s, type)
    PROVE  IInv'
<1> DEFINE c == [conn[s] EXCEPT !.timeout = FALSE]
<1>1. s \in ready /\ conn[s] \in ConnectionType /\ conn[s].batch = {} /\ conn[s].id # 0
        /\ conn[s].wantread /\ ~conn[s].waiting /\ ~conn[s].wantwrite
  BY ReadyReads DEF http_handle_stats, CanRead, IInv, TypeOK
<1>2. c \in ConnectionType /\ ConnectionState(c) /\ c.batch = {}
  BY <1>1 DEF ConnectionType, ConnectionState
<1>3. conn' = [conn EXCEPT ![s] = c]
  BY DEF http_handle_stats
<1>. HIDE DEF c
<1>. QED
  BY <1>1, <1>2, <1>3, PushtaskInv DEF http_handle_stats, CanRead

LEMMA FullscrapeInv ==
    ASSUME IInv, NEW s \in Socks, NEW type \in Types, http_handle_fullscrape(s, type)
    PROVE  IInv'
<1> DEFINE c == [conn[s] EXCEPT !.waiting = TRUE, !.timeout = FALSE, !.wantread = FALSE]
<1>1. s \in ready /\ conn[s] \in ConnectionType /\ conn[s].batch = {} /\ conn[s].id # 0
        /\ conn[s].wantread /\ ~conn[s].waiting /\ ~conn[s].wantwrite
  BY ReadyReads DEF http_handle_fullscrape, CanRead, IInv, TypeOK
<1>2. c \in ConnectionType /\ ConnectionState(c) /\ c.batch = {}
  BY <1>1 DEF ConnectionType, ConnectionState
<1>3. conn' = [conn EXCEPT ![s] = c]
  BY DEF http_handle_fullscrape, IInv, TypeOK
<1>. HIDE DEF c
<1>. QED
  BY <1>1, <1>2, <1>3, PushtaskInv DEF http_handle_fullscrape, CanRead

\* What sending a finished task's answer makes of the connection on its socket: c.  The answer
\* takes the place of what the connection held, or it is released; the one that is forgotten
\* is that of a connection which is closed because it is sent an answer of 0 vectors.
LEMMA SendProperties ==
    ASSUME IInv, NEW i \in Done, loop = "popresult", http_sendiovecdata(tasklist[i])
    PROVE  \E c \in ConnectionType :
             /\ conn' = [conn EXCEPT ![tasklist[i].sock] = c]
             /\ ConnectionState(c)
             /\ \/ c.batch = tasklist[i].iovec /\ memory' = memory \ conn[tasklist[i].sock].batch
                \/ c.batch = conn[tasklist[i].sock].batch /\ memory' = memory \ tasklist[i].iovec
                \/ c.batch = {} /\ tasklist[i].iovec = {} /\ memory' = memory
<1> DEFINE t == tasklist[i]
           s == t.sock
<1>1. /\ s \in Socks /\ t.iovec \subseteq {t.taskid} /\ t.taskid \in 2..next_free_taskid
      /\ t.tasktype = "done"
  BY BoundsAssumption, SMTT(30) DEF Done, IInv, TypeOK, TaskTypes, HistoryTypes, TasksDiffer
<1>2. t.iovec \in Answer
  <2>1. t.iovec = {} \/ t.iovec = {t.taskid}
    BY <1>1
  <2>. QED
    BY <1>1, <2>1, AnswerProperties
<1>3. t.iovec \cap conn[s].batch = {}
  BY <1>1 DEF Done, IInv, AnswersApart
<1>4. conn \in [Socks -> ConnectionType] /\ conn[s] \in ConnectionType /\ ConnectionState(conn[s])
  BY <1>1 DEF IInv, TypeOK, ConnectionStates
<1>. HIDE DEF t, s
<1>5. CASE ~IsOpen(s) /\ memory' = memory \ t.iovec /\ UNCHANGED conn
  <2>1. conn' = [conn EXCEPT ![s] = conn[s]]
    BY <1>4, <1>5
  <2>. QED
    BY <1>4, <1>5, <2>1 DEF t, s
<1>6. CASE t.iovec = {} /\ conn' = [conn EXCEPT ![s] = Closed] /\ UNCHANGED memory
  <2>1. Closed \in ConnectionType /\ ConnectionState(Closed) /\ Closed.batch = {}
    <3>1. {} \in Answer /\ 0 \in 0..accepted
      BY BoundsAssumption DEF IInv, TypeOK, HistoryTypes, Answer
    <3>. QED
      BY <3>1 DEF Closed, ConnectionType, ConnectionState
  <2>. QED
    BY <1>6, <2>1 DEF t, s
<1>7. CASE /\ t.iovec = {} /\ IsOpen(s) /\ UNCHANGED memory
           /\ conn' = [conn EXCEPT ![s].waiting = FALSE, ![s].wantread = FALSE,
                                   ![s].wantwrite = TRUE, ![s].timeout = FALSE]
  <2> DEFINE c == [conn[s] EXCEPT !.waiting = FALSE, !.wantread = FALSE,
                                  !.wantwrite = TRUE, !.timeout = FALSE]
  <2>1. conn' = [conn EXCEPT ![s] = c]
    BY <1>4, <1>7
  <2>2. c \in ConnectionType
    BY <1>4 DEF ConnectionType
  <2>3. ConnectionState(c) /\ c.batch = conn[s].batch
    BY <1>4, <1>7 DEF ConnectionState, ConnectionType, IsOpen
  <2>. HIDE DEF c
  <2>4. memory' = memory \ t.iovec
    BY <1>7
  <2>. QED
    BY <2>1, <2>2, <2>3, <2>4 DEF t, s
<1>8. CASE /\ IsOpen(s) /\ memory' = memory \ (conn[s].batch \ t.iovec)
           /\ conn' = [conn EXCEPT ![s].waiting = FALSE, ![s].wantread = FALSE,
                                   ![s].wantwrite = TRUE, ![s].timeout = TRUE,
                                   ![s].batch = t.iovec]
  <2> DEFINE c == [conn[s] EXCEPT !.waiting = FALSE, !.wantread = FALSE,
                                  !.wantwrite = TRUE, !.timeout = TRUE, !.batch = t.iovec]
  <2>1. conn' = [conn EXCEPT ![s] = c]
    BY <1>4, <1>8
  <2>2. c \in ConnectionType
    BY <1>2, <1>4 DEF ConnectionType
  <2>3. ConnectionState(c) /\ c.batch = t.iovec
    BY <1>4, <1>8 DEF ConnectionState, ConnectionType, IsOpen
  <2>. HIDE DEF c
  <2>4. memory' = memory \ conn[s].batch
    BY <1>3, <1>8
  <2>. QED
    BY <2>1, <2>2, <2>3, <2>4 DEF t, s
<1>9. http_sendiovecdata(t)
  BY DEF t
<1>. QED
  BY <1>5, <1>6, <1>7, <1>8, <1>9 DEF http_sendiovecdata, http_sendiovecdata_Batch, s

\* The event loop takes a finished task out of the list and sends its answer.
LEMMA PopresultInv ==
    ASSUME IInv, popresult
    PROVE  IInv'
<1> DEFINE i == Min(Done)
           t == tasklist[i]
           s == t.sock
           n == Len(tasklist)
           old == [j \in 1..(n - 1) |-> IF j < i THEN j ELSE j + 1]
<1>1. /\ loop = "popresult" /\ Done # {}
      /\ tasklist' = RemoveAt(tasklist, i)
      /\ http_sendiovecdata(t)
      /\ pending' = pending \ {<<t.conn, t.request>>}
      /\ UNCHANGED <<next_free_taskid, worker, pipe, loop, ready, accepted, queued>>
  BY DEF popresult
<1>2. tasklist \in Seq(Task) /\ n \in Nat /\ DOMAIN tasklist = 1..n
  BY DEF IInv, TasksDiffer
<1>3. i \in Done
  <2>1. Done \subseteq Nat
    BY <1>2 DEF Done
  <2>. QED
    BY <1>1, <2>1, MinProperties
<1>. HIDE DEF i
<1>4. i \in 1..n /\ t.tasktype = "done" /\ t.taskid \in 2..next_free_taskid /\ s \in Socks
        /\ t.iovec \subseteq {t.taskid} /\ next_free_taskid \in Nat
  BY <1>2, <1>3, BoundsAssumption DEF Done, IInv, TypeOK, TaskTypes, HistoryTypes, TasksDiffer
<1>5. /\ tasklist' \in Seq(Task) /\ Len(tasklist') = n - 1 /\ DOMAIN tasklist' = 1..(n - 1)
      /\ \A j \in 1..(n - 1) : tasklist'[j] = IF j < i THEN tasklist[j] ELSE tasklist[j + 1]
  <2>1. /\ RemoveAt(tasklist, i) \in Seq(Task) /\ Len(RemoveAt(tasklist, i)) = n - 1
        /\ \A j \in 1..(n - 1) :
              RemoveAt(tasklist, i)[j] = IF j < i THEN tasklist[j] ELSE tasklist[j + 1]
    BY <1>2, <1>4, RemoveAtProperties
  <2>2. DOMAIN RemoveAt(tasklist, i) = 1..(n - 1)
    BY <2>1
  <2>. QED
    BY <1>1, <2>1, <2>2
<1>6. /\ \A j \in 1..(n - 1) : /\ old[j] \in 1..n /\ old[j] # i
                               /\ tasklist'[j] = tasklist[old[j]]
      /\ \A j, k \in 1..(n - 1) : old[j] = old[k] => j = k
      /\ \A k \in 1..n : k # i => \E j \in 1..(n - 1) : old[j] = k
  <2>1. \A k \in 1..n : k # i => \E j \in 1..(n - 1) : old[j] = k
    <3> SUFFICES ASSUME NEW k \in 1..n, k # i PROVE \E j \in 1..(n - 1) : old[j] = k
      OBVIOUS
    <3>1. CASE k < i
      <4>1. k \in 1..(n - 1) /\ old[k] = k
        BY <1>2, <1>4, <3>1
      <4>. QED
        BY <4>1
    <3>2. CASE k > i
      <4>1. k - 1 \in 1..(n - 1) /\ old[k - 1] = k
        BY <1>2, <1>4, <3>2
      <4>. QED
        BY <4>1
    <3>. QED
      BY <1>4, <3>1, <3>2
  <2>. QED
    BY <1>2, <1>4, <1>5, <2>1
<1>. HIDE DEF t, s, n, old
<1>7. PICK c \in ConnectionType :
         /\ conn' = [conn EXCEPT ![s] = c]
         /\ ConnectionState(c)
         /\ \/ c.batch = t.iovec /\ memory' = memory \ conn[s].batch
            \/ c.batch = conn[s].batch /\ memory' = memory \ t.iovec
            \/ c.batch = {} /\ t.iovec = {} /\ memory' = memory
  BY <1>1, <1>3, SendProperties DEF t, s
<1>8. conn'[s] = c /\ \A r \in Socks : r # s => conn'[r] = conn[r]
  BY <1>4, <1>7 DEF IInv, TypeOK
<1>9. ready = {}
  BY <1>1 DEF IInv, Signalled
<1>10. /\ \A k \in 1..n : tasklist[k].request = t.request => k = i
       /\ \A k \in 1..n : tasklist[k].taskid = t.taskid => k = i
  BY <1>2, <1>4 DEF t, IInv, TasksDiffer
<1>11. TypeOK'
  <2>1. WorkerType' = WorkerType /\ ConnectionType' = ConnectionType
    BY <1>1 DEF WorkerType, ConnectionType, Answer
  <2>2. conn' \in [Socks -> ConnectionType]
    BY <1>7 DEF IInv, TypeOK
  <2>3. TaskTypes'
    BY <1>1, <1>2, <1>5, <1>6 DEF IInv, TypeOK, TaskTypes
  <2>4. HistoryTypes'
    BY <1>1, <1>7 DEF IInv, TypeOK, HistoryTypes
  <2>5. LoopTypes'
    BY <1>1 DEF IInv, TypeOK, LoopTypes
  <2>. QED
    BY <1>1, <2>1, <2>2, <2>3, <2>4, <2>5 DEF IInv, TypeOK
<1>12. TasksDiffer'
  <2>1. \A j \in 1..(n - 1) :
          /\ tasklist'[j].request \in 1..queued'
          /\ tasklist'[j].taskid # 1
          /\ tasklist'[j].taskid = 0 => tasklist'[j].tasktype # "done"
          /\ tasklist'[j].tasktype # "done" => tasklist'[j].iovec = {}
          /\ "fulllog" \notin Types /\ tasklist'[j].tasktype = "done" => tasklist'[j].iovec # {}
    BY <1>1, <1>2, <1>6 DEF IInv, TasksDiffer
  <2>2. ASSUME NEW j \in 1..(n - 1), NEW k \in 1..(n - 1),
               \/ tasklist'[j].request = tasklist'[k].request
               \/ tasklist'[j].taskid = tasklist'[k].taskid /\ tasklist'[j].taskid # 0
        PROVE  j = k
    <3>1. old[j] = old[k]
      BY <1>2, <1>6, <2>2, SMTT(30) DEF IInv, TasksDiffer
    <3>. QED
      BY <1>6, <3>1
  <2>. QED
    BY <1>5, <2>1, <2>2 DEF TasksDiffer
<1>13. WorkersOwn'
  <2>1. memory' \subseteq memory
    BY <1>7
  <2>. QED
    BY <1>1, <2>1 DEF IInv, WorkersOwn
<1>14. OneWorkerPerTask' /\ TasksStay'
  <2>1. Busy' = Busy
    BY <1>1 DEF Busy
  <2>2. ASSUME NEW w \in Busy
        PROVE  /\ Class(worker[w].tasktype) = w
               /\ \A u \in Busy : worker[u].taskid = worker[w].taskid => u = w
    BY DEF IInv, OneWorkerPerTask
  <2>3. ASSUME NEW w \in Busy, NEW j \in 1..(n - 1), tasklist'[j].taskid = worker[w].taskid
        PROVE  /\ tasklist'[j].tasktype = worker[w].tasktype
               /\ \A k \in 1..(n - 1) : tasklist'[k].taskid = worker[w].taskid => k = j
    <3>1. /\ old[j] \in 1..n /\ tasklist[old[j]].taskid = worker[w].taskid
          /\ tasklist'[j] = tasklist[old[j]]
      BY <1>6, <2>3
    <3>2. /\ tasklist[old[j]].tasktype = worker[w].tasktype
          /\ \A k \in 1..n : tasklist[k].taskid = worker[w].taskid => k = old[j]
      BY <1>2, <3>1 DEF IInv, OneWorkerPerTask
    <3>. QED
      BY <1>6, <3>1, <3>2
  <2>4. ASSUME NEW w \in Busy
        PROVE  \E j \in 1..(n - 1) : tasklist'[j].taskid = worker[w].taskid
    <3>1. PICK k \in 1..n : tasklist[k].taskid = worker[w].taskid
      BY <1>2 DEF IInv, TasksStay
    <3>2. tasklist[k].tasktype = worker[w].tasktype /\ worker[w].tasktype \in Types
      BY <1>2, <3>1 DEF IInv, OneWorkerPerTask, WorkersOwn, Busy
    <3>3. k # i
      BY <1>4, <3>2, TypesAssumption DEF t
    <3>4. PICK j \in 1..(n - 1) : old[j] = k
      BY <1>6, <3>3
    <3>. QED
      BY <1>6, <3>1, <3>4
  <2>5. ASSUME NEW j \in 1..(n - 1), tasklist'[j].taskid # 0, tasklist'[j].tasktype # "done"
        PROVE  \E w \in Busy : worker[w].taskid = tasklist'[j].taskid
    BY <1>2, <1>6, <2>5 DEF IInv, OneWorkerPerTask
  <2>. QED
    BY <1>1, <1>5, <2>1, <2>2, <2>3, <2>4, <2>5 DEF OneWorkerPerTask, TasksStay
<1>15. AnswersApart'
  <2>1. ASSUME NEW j \in 1..(n - 1)
        PROVE  /\ tasklist'[j].iovec \subseteq memory'
               /\ tasklist'[j].iovec \cap t.iovec = {}
               /\ \A r \in Socks : tasklist'[j].iovec \cap conn[r].batch = {}
               /\ \A r \in Socks : tasklist'[j].iovec \cap conn'[r].batch = {}
    <3>1. /\ old[j] \in 1..n /\ old[j] # i /\ tasklist'[j] = tasklist[old[j]]
      BY <1>6
    <3>2. /\ tasklist[old[j]].iovec \subseteq memory
          /\ \A r \in Socks : tasklist[old[j]].iovec \cap conn[r].batch = {}
      BY <1>2, <3>1 DEF IInv, AnswersApart
    <3>3. tasklist[old[j]].iovec \subseteq {tasklist[old[j]].taskid}
            /\ tasklist[old[j]].taskid # t.taskid
      BY <1>2, <1>10, <3>1 DEF IInv, TypeOK, TaskTypes
    <3>4. tasklist'[j].iovec \cap t.iovec = {}
      BY <1>4, <3>1, <3>3
    <3>5. tasklist'[j].iovec \subseteq memory'
      BY <1>4, <1>7, <3>1, <3>2, <3>4
    <3>. QED
      BY <1>4, <1>7, <1>8, <3>1, <3>2, <3>4, <3>5
  <2>2. ASSUME NEW w \in Workers
        PROVE  /\ worker[w].iovec \subseteq memory'
               /\ worker[w].iovec \cap t.iovec = {}
               /\ \A r \in Socks : worker[w].iovec \cap conn'[r].batch = {}
    <3>1. worker[w].iovec \cap t.iovec = {}
      <4>1. CASE worker[w].pc # "push"
        BY <4>1 DEF IInv, WorkersOwn
      <4>2. CASE worker[w].pc = "push"
        <5>1. w \in Busy /\ worker[w].tasktype \in Types /\ worker[w].iovec \subseteq {worker[w].taskid}
          BY <4>2 DEF IInv, WorkersOwn, Busy
        <5>2. worker[w].taskid # t.taskid
          BY <1>2, <1>4, <5>1, TypesAssumption DEF t, IInv, OneWorkerPerTask
        <5>. QED
          BY <1>4, <5>1, <5>2
      <4>. QED
        BY <4>1, <4>2
    <3>2. /\ worker[w].iovec \subseteq memory
          /\ \A r \in Socks : worker[w].iovec \cap conn[r].batch = {}
      BY DEF IInv, AnswersApart
    <3>. QED
      BY <1>4, <1>7, <1>8, <3>1, <3>2
  <2>3. /\ t.iovec \subseteq memory
        /\ \A r \in Socks : /\ t.iovec \cap conn[r].batch = {}
                            /\ conn[r].batch \subseteq memory
                            /\ \A q \in Socks : q # r => conn[q].batch \cap conn[r].batch = {}
    BY <1>2, <1>4 DEF t, IInv, AnswersApart
  <2>4. ASSUME NEW r \in Socks
        PROVE  /\ conn'[r].batch \subseteq memory'
               /\ \A q \in Socks : q # r => conn'[q].batch \cap conn'[r].batch = {}
    <3>1. CASE r = s
      BY <1>4, <1>7, <1>8, <2>3, <3>1
    <3>2. CASE r # s
      BY <1>4, <1>7, <1>8, <2>3, <3>2
    <3>. QED
      BY <3>1, <3>2
  <2>5. ASSUME "fulllog" \notin Types, NEW a \in memory'
        PROVE  \/ \E j \in 1..(n - 1) : a \in tasklist'[j].iovec
               \/ \E w \in Workers : a \in worker[w].iovec
               \/ \E r \in Socks : a \in conn'[r].batch
    <3>1. a \in memory /\ t.iovec # {}
      BY <1>2, <1>4, <1>7, <2>5 DEF t, IInv, TasksDiffer
    <3>2. CASE \E k \in 1..n : k # i /\ a \in tasklist[k].iovec
      <4>1. PICK k \in 1..n : k # i /\ a \in tasklist[k].iovec
        BY <3>2
      <4>2. PICK j \in 1..(n - 1) : old[j] = k
        BY <1>6, <4>1
      <4>. QED
        BY <1>6, <4>1, <4>2
    <3>3. CASE a \in t.iovec
      BY <1>4, <1>7, <1>8, <3>1, <3>3
    <3>4. CASE \E r \in Socks : a \in conn[r].batch
      <4>1. PICK r \in Socks : a \in conn[r].batch
        BY <3>4
      <4>2. CASE r = s
        BY <1>4, <1>7, <1>8, <3>1, <4>1, <4>2
      <4>3. CASE r # s
        BY <1>8, <4>1, <4>3
      <4>. QED
        BY <4>2, <4>3
    <3>. QED
      BY <1>2, <2>5, <3>1, <3>2, <3>3, <3>4 DEF t, IInv, AnswersApart
  <2>. QED
    BY <1>1, <1>5, <2>1, <2>2, <2>4, <2>5 DEF AnswersApart
<1>16. ConnectionStates'
  BY <1>1, <1>7, <1>8, <1>9 DEF IInv, ConnectionStates
<1>17. PendingQueued'
  <2> SUFFICES ASSUME NEW p \in pending'
               PROVE  \E j \in 1..(n - 1) : tasklist'[j].request = p[2] /\ tasklist'[j].conn = p[1]
    BY <1>5 DEF PendingQueued
  <2>1. p \in pending /\ p # <<t.conn, t.request>>
    BY <1>1
  <2>2. PICK k \in 1..n : tasklist[k].request = p[2] /\ tasklist[k].conn = p[1]
    BY <1>2, <2>1 DEF IInv, PendingQueued
  <2>3. p = <<p[1], p[2]>>
    BY <2>1 DEF IInv, TypeOK, HistoryTypes
  <2>4. k # i
    BY <2>1, <2>2, <2>3 DEF t
  <2>5. PICK j \in 1..(n - 1) : old[j] = k
    BY <1>6, <2>4
  <2>. QED
    BY <1>6, <2>2, <2>5
<1>18. IdsCounted'
  <2>1. \A k \in 1..n : tasklist[k].taskid = 0 => k # i
    BY <1>4 DEF t
  <2>2. Untaken' = Untaken
    <3>1. ASSUME NEW r \in Untaken PROVE r \in Untaken'
      <4>1. PICK k \in 1..n : tasklist[k].taskid = 0 /\ tasklist[k].request = r
        BY <1>2, <3>1 DEF Untaken
      <4>2. PICK j \in 1..(n - 1) : old[j] = k
        BY <1>6, <2>1, <4>1
      <4>. QED
        BY <1>5, <1>6, <4>1, <4>2 DEF Untaken
    <3>2. ASSUME NEW r \in Untaken' PROVE r \in Untaken
      <4>1. PICK j \in 1..(n - 1) : tasklist'[j].taskid = 0 /\ tasklist'[j].request = r
        BY <1>5, <3>2 DEF Untaken
      <4>. QED
        BY <1>2, <1>6, <4>1 DEF Untaken
    <3>. QED
      BY <3>1, <3>2
  <2>. QED
    BY <1>1, <2>2 DEF IInv, IdsCounted
<1>19. Signalled'
  BY <1>1 DEF IInv, Signalled
<1>. QED
  BY <1>11, <1>12, <1>13, <1>14, <1>15, <1>16, <1>17, <1>18, <1>19 DEF IInv

-----------------------------------------------------------------------------

\* Steps of the event loop that only move it along.
LEMMA LoopStepInv ==
    ASSUME IInv,
           \/ io_wait \/ io_wait_other \/ read_pipe \/ handle_accept_end \/ canread_end
           \/ popresult_end \/ canwrite_end \/ timeouted_end
           \/ \E s \in Socks : handle_read_more(s)
    PROVE  IInv'
<1>0. LoopTypes /\ Signalled
  BY DEF IInv, TypeOK
<1>1. CASE io_wait
  <2>1. \A s \in Socks : s \in ready' => conn[s].wantread
    BY <1>1, SocksAssumption DEF io_wait
  <2>2. LoopTypes' /\ Signalled'
    BY <1>0, <1>1 DEF io_wait, LoopTypes, Signalled
  <2>. QED
    BY <1>1, <2>1, <2>2, LoopInv DEF io_wait
<1>2. CASE io_wait_other
  <2>1. LoopTypes' /\ Signalled'
    BY <1>0, <1>2 DEF io_wait_other, LoopTypes, Signalled
  <2>. QED
    BY <1>2, <2>1, LoopInv DEF io_wait_other
<1>3. CASE read_pipe
  <2>1. LoopTypes' /\ Signalled'
    BY <1>0, <1>3 DEF read_pipe, LoopTypes, Signalled
  <2>. QED
    BY <1>3, <2>1, LoopInv DEF read_pipe
<1>4. CASE handle_accept_end
  <2>1. LoopTypes' /\ Signalled'
    BY <1>0, <1>4 DEF handle_accept_end, LoopTypes, Signalled, Done, queue
  <2>. QED
    BY <1>4, <2>1, LoopInv DEF handle_accept_end
<1>5. CASE canread_end
  <2>1. LoopTypes' /\ Signalled'
    BY <1>0, <1>5 DEF canread_end, LoopTypes, Signalled
  <2>. QED
    BY <1>5, <2>1, LoopInv DEF canread_end
<1>6. CASE popresult_end
  <2>1. LoopTypes' /\ Signalled'
    BY <1>0, <1>6 DEF popresult_end, LoopTypes, Signalled, Done, queue
  <2>. QED
    BY <1>6, <2>1, LoopInv DEF popresult_end
<1>7. CASE canwrite_end
  <2>1. LoopTypes' /\ Signalled'
    BY <1>0, <1>7 DEF canwrite_end, LoopTypes, Signalled, Done, queue
  <2>. QED
    BY <1>7, <2>1, LoopInv DEF canwrite_end
<1>8. CASE timeouted_end
  <2>1. LoopTypes' /\ Signalled'
    BY <1>0, <1>8 DEF timeouted_end, LoopTypes, Signalled, Done, queue
  <2>. QED
    BY <1>8, <2>1, LoopInv DEF timeouted_end
<1>9. CASE \E s \in Socks : handle_read_more(s)
  <2>1. PICK s \in Socks : handle_read_more(s)
    BY <1>9
  <2>2. LoopTypes' /\ Signalled'
    BY <1>0, <2>1 DEF handle_read_more, CanRead, LoopTypes, Signalled, Done, queue
  <2>. QED
    BY <2>1, <2>2, LoopInv DEF handle_read_more, CanRead, history
<1>. QED
  BY <1>1, <1>2, <1>3, <1>4, <1>5, <1>6, <1>7, <1>8, <1>9

\* A connection dies: at its end, when its answer is written or when its time is over.
LEMMA DeadInv ==
    ASSUME IInv, NEW s \in Socks, handle_read_eof(s) \/ handle_write(s) \/ timeouted(s)
    PROVE  IInv' /\ ~conn[s].waiting
<1>1. CASE handle_read_eof(s)
  BY <1>1, ReadyReads, HandleDeadInv DEF handle_read_eof, CanRead, history
<1>2. CASE handle_write(s)
  <2>1. ready' \subseteq ready \ {s} /\ ~conn[s].waiting
    BY <1>2 DEF handle_write, IInv, Signalled, ConnectionStates, ConnectionState
  <2>. QED
    BY <1>2, <2>1, HandleDeadInv DEF handle_write
<1>3. CASE timeouted(s)
  <2>1. ready' \subseteq ready \ {s} /\ ~conn[s].waiting
    BY <1>3 DEF timeouted, IInv, Signalled, ConnectionStates, ConnectionState
  <2>. QED
    BY <1>3, <2>1, HandleDeadInv DEF timeouted
<1>. QED
  BY <1>1, <1>2, <1>3

\* Every step preserves the invariant.
LEMMA NextInv == IInv /\ [Next]_vars => IInv'
<1> SUFFICES ASSUME IInv, [Next]_vars PROVE IInv'
  OBVIOUS
<1>1. CASE \E w \in Workers : Worker(w)
  BY <1>1, PoptaskInv, PoptaskWaitInv, MakeInv, PushresultInv, SignalInv DEF Worker
<1>2. CASE Turn
  <2>1. CASE \E s \in Socks : HandleRead(s)
    <3>1. PICK s \in Socks : HandleRead(s)
      BY <2>1
    <3>. QED
      BY <3>1, DeadInv, LoopStepInv, SimpleInv, StatsInv, FullscrapeInv DEF HandleRead
  <2>2. CASE popresult
    BY <2>2, PopresultInv
  <2>. QED
    BY <1>2, <2>1, <2>2, LoopStepInv DEF Turn
<1>3. CASE io_wait_other
  BY <1>3, LoopStepInv
<1>4. CASE \E s \in Socks : handle_accept(s) \/ handle_write(s) \/ timeouted(s)
  BY <1>4, AcceptInv, DeadInv
<1>5. CASE UNCHANGED vars
  <2>1. UNCHANGED <<queue, worker, pipe, loop, ready, conn, history, memory>>
    BY <1>5 DEF vars
  <2>2. LoopTypes' /\ Signalled'
    BY <2>1 DEF IInv, TypeOK, LoopTypes, Signalled, Done, queue
  <2>. QED
    BY <2>1, <2>2, LoopInv
<1>. QED
  BY <1>1, <1>2, <1>3, <1>4, <1>5 DEF Next

\* What the places hold.
LEMMA HoldersProperties ==
    /\ \A h \in Holders :
         \/ \E i \in DOMAIN tasklist : h = <<"task", i>> /\ Holds(h) = tasklist[i].iovec
         \/ \E w \in Workers : h = <<"worker", w>> /\ Holds(h) = worker[w].iovec
         \/ \E s \in Socks : h = <<"batch", s>> /\ Holds(h) = conn[s].batch
    /\ \A i \in DOMAIN tasklist : tasklist[i].iovec \subseteq Held
    /\ \A w \in Workers : worker[w].iovec \subseteq Held
    /\ \A s \in Socks : conn[s].batch \subseteq Held
<1>1. /\ \A i \in DOMAIN tasklist : Holds(<<"task", i>>) = tasklist[i].iovec
      /\ \A w \in Workers : Holds(<<"worker", w>>) = worker[w].iovec
      /\ \A s \in Socks : Holds(<<"batch", s>>) = conn[s].batch
  BY DEF Holds
<1>2. \A h \in Holders :
         \/ \E i \in DOMAIN tasklist : h = <<"task", i>>
         \/ \E w \in Workers : h = <<"worker", w>>
         \/ \E s \in Socks : h = <<"batch", s>>
  BY DEF Holders
<1>3. \A h \in Holders : Holds(h) \subseteq Held
  BY DEF Held
<1>4. /\ \A i \in DOMAIN tasklist : tasklist[i].iovec # {} => <<"task", i>> \in Holders
      /\ \A w \in Workers : worker[w].iovec # {} => <<"worker", w>> \in Holders
      /\ \A s \in Socks : conn[s].batch # {} => <<"batch", s>> \in Holders
  BY DEF Holders
<1>5. \A i \in DOMAIN tasklist : tasklist[i].iovec \subseteq Held
  BY <1>1, <1>3, <1>4
<1>6. \A w \in Workers : worker[w].iovec \subseteq Held
  BY <1>1, <1>3, <1>4
<1>7. \A s \in Socks : conn[s].batch \subseteq Held
  BY <1>1, <1>3, <1>4
<1>. QED
  BY <1>1, <1>2, <1>5, <1>6, <1>7

\* What a task or a worker holds is its own.
LEMMA OwnAnswers ==
    ASSUME IInv
    PROVE  /\ \A i, k \in DOMAIN tasklist : i # k => tasklist[i].iovec \cap tasklist[k].iovec = {}
           /\ \A w, v \in Workers : w # v => worker[w].iovec \cap worker[v].iovec = {}
           /\ \A i \in DOMAIN tasklist, w \in Workers : tasklist[i].iovec \cap worker[w].iovec = {}
<1>1. \A i \in DOMAIN tasklist :
        /\ tasklist[i].iovec \subseteq {tasklist[i].taskid}
        /\ tasklist[i].iovec # {} => tasklist[i].tasktype = "done" /\ tasklist[i].taskid # 0
  BY DEF IInv, TypeOK, TaskTypes, TasksDiffer
<1>2. \A w \in Workers :
        /\ worker[w].iovec \subseteq {worker[w].taskid}
        /\ worker[w].iovec # {} => w \in Busy /\ worker[w].tasktype \in Types
  BY DEF IInv, WorkersOwn, Busy
<1>3. \A i, k \in DOMAIN tasklist : i # k => tasklist[i].iovec \cap tasklist[k].iovec = {}
  BY <1>1 DEF IInv, TasksDiffer
<1>4. \A w, v \in Workers : w # v => worker[w].iovec \cap worker[v].iovec = {}
  <2> SUFFICES ASSUME NEW w \in Workers, NEW v \in Workers, w # v,
                      worker[w].iovec # {}, worker[v].iovec # {}
               PROVE  worker[w].taskid # worker[v].taskid
    BY <1>2
  <2>. QED
    BY <1>2 DEF IInv, OneWorkerPerTask
<1>5. \A i \in DOMAIN tasklist, w \in Workers : tasklist[i].iovec \cap worker[w].iovec = {}
  <2> SUFFICES ASSUME NEW i \in DOMAIN tasklist, NEW w \in Workers,
                      tasklist[i].iovec # {}, worker[w].iovec # {}
               PROVE  tasklist[i].taskid # worker[w].taskid
    BY <1>1, <1>2
  <2>. QED
    BY <1>1, <1>2, TypesAssumption DEF IInv, OneWorkerPerTask
<1>. QED
  BY <1>3, <1>4, <1>5

\* The invariant gives the places of answers: none is held twice.
LEMMA AnswersFollow == IInv => AnswersHeldOnce
<1> SUFFICES ASSUME IInv PROVE AnswersHeldOnce
  OBVIOUS
<1>1. Held \subseteq memory
  <2>1. \A h \in Holders : Holds(h) \subseteq memory
    BY HoldersProperties DEF IInv, AnswersApart
  <2>. QED
    BY <2>1 DEF Held
<1>2. ASSUME NEW g \in Holders, NEW h \in Holders, g # h
      PROVE  Holds(g) \cap Holds(h) = {}
  <2>0. AnswersApart
    BY DEF IInv
  <2>1. CASE \E i \in DOMAIN tasklist : g = <<"task", i>> /\ Holds(g) = tasklist[i].iovec
    <3>1. PICK i \in DOMAIN tasklist : g = <<"task", i>> /\ Holds(g) = tasklist[i].iovec
      BY <2>1
    <3>2. CASE \E k \in DOMAIN tasklist : h = <<"task", k>> /\ Holds(h) = tasklist[k].iovec
      BY <1>2, <3>1, <3>2, OwnAnswers
    <3>3. CASE \E w \in Workers : h = <<"worker", w>> /\ Holds(h) = worker[w].iovec
      BY <3>1, <3>3, OwnAnswers
    <3>4. CASE \E s \in Socks : h = <<"batch", s>> /\ Holds(h) = conn[s].batch
      BY <2>0, <3>1, <3>4 DEF AnswersApart
    <3>. QED
      BY <3>2, <3>3, <3>4, HoldersProperties
  <2>2. CASE \E w \in Workers : g = <<"worker", w>> /\ Holds(g) = worker[w].iovec
    <3>1. PICK w \in Workers : g = <<"worker", w>> /\ Holds(g) = worker[w].iovec
      BY <2>2
    <3>2. CASE \E k \in DOMAIN tasklist : h = <<"task", k>> /\ Holds(h) = tasklist[k].iovec
      BY <3>1, <3>2, OwnAnswers
    <3>3. CASE \E v \in Workers : h = <<"worker", v>> /\ Holds(h) = worker[v].iovec
      BY <1>2, <3>1, <3>3, OwnAnswers
    <3>4. CASE \E s \in Socks : h = <<"batch", s>> /\ Holds(h) = conn[s].batch
      BY <2>0, <3>1, <3>4 DEF AnswersApart
    <3>. QED
      BY <3>2, <3>3, <3>4, HoldersProperties
  <2>3. CASE \E s \in Socks : g = <<"batch", s>> /\ Holds(g) = conn[s].batch
    <3>1. PICK s \in Socks : g = <<"batch", s>> /\ Holds(g) = conn[s].batch
      BY <2>3
    <3>2. CASE \E k \in DOMAIN tasklist : h = <<"task", k>> /\ Holds(h) = tasklist[k].iovec
      BY <2>0, <3>1, <3>2 DEF AnswersApart
    <3>3. CASE \E v \in Workers : h = <<"worker", v>> /\ Holds(h) = worker[v].iovec
      BY <2>0, <3>1, <3>3 DEF AnswersApart
    <3>4. CASE \E r \in Socks : h = <<"batch", r>> /\ Holds(h) = conn[r].batch
      BY <1>2, <2>0, <3>1, <3>4 DEF AnswersApart
    <3>. QED
      BY <3>2, <3>3, <3>4, HoldersProperties
  <2>. QED
    BY <2>1, <2>2, <2>3, HoldersProperties
<1>3. "fulllog" \notin Types => memory \subseteq Held
  BY HoldersProperties DEF IInv, AnswersApart
<1>. QED
  BY <1>1, <1>2, <1>3 DEF AnswersHeldOnce

-----------------------------------------------------------------------------

\* The inductive invariant of the work queue holds in every behaviour.
THEOREM Invariance == Spec => []IInv
  BY InitInv, NextInv, PTL DEF Spec

\* The variables keep their types; there are never more ids than requests.
THEOREM TypeCorrect == Spec => []TypeOK
<1>1. IInv => TypeOK
  BY DEF IInv
<1>. QED
  BY <1>1, Invariance, PTL

\* A task that is being made is the task of one worker of its class.
THEOREM TasksGivenOnce == Spec => []OneWorkerPerTask
<1>1. IInv => OneWorkerPerTask
  BY DEF IInv
<1>. QED
  BY <1>1, Invariance, PTL

\* The event loop never sleeps over a finished task.
THEOREM NoLostResult == Spec => []NoResultStranded
<1>1. IInv => NoResultStranded
  BY DEF IInv, Signalled, NoResultStranded
<1>. QED
  BY <1>1, Invariance, PTL

\* Answers are held once, by what is allocated, and forgotten only where 0 vectors are sent.
THEOREM AnswersCorrect == Spec => []AnswersHeldOnce
<1>. QED
  BY AnswersFollow, Invariance, PTL

\* A request is in the list until its answer is sent, whatever other connections do.
THEOREM RequestsStay == Spec => []RequestKept
<1>1. IInv => RequestKept
  BY DEF IInv, PendingQueued, RequestKept
<1>. QED
  BY <1>1, Invariance, PTL

\* A worker finds its task in the list when it is done: no task is ever cancelled.
THEOREM NoTaskCancelled == Spec => []TasksStay
<1>1. IInv => TasksStay
  BY DEF IInv
<1>. QED
  BY <1>1, Invariance, PTL

\* Nothing but its answer ends a connection that waits for one.
LEMMA WaitingStep ==
    ASSUME IInv, [Next]_vars, NEW s \in Socks, conn[s].waiting, loop # "popresult"
    PROVE  conn'[s].id = conn[s].id
<1>0. conn \in [Socks -> ConnectionType]
  BY DEF IInv, TypeOK
<1>1. CASE \E w \in Workers : Worker(w)
  BY <1>1 DEF Worker, poptask, poptask_wait, make, pushresult, pushresult_signal
<1>2. CASE \E r \in Socks : HandleRead(r)
  <2>1. PICK r \in Socks : HandleRead(r)
    BY <1>2
  <2>2. r # s
    <3>1. r \in ready
      BY <2>1 DEF HandleRead, handle_read_eof, handle_read_more, handle_read_simple,
                  http_handle_stats, http_handle_fullscrape, CanRead
    <3>. QED
      BY <3>1, ReadyReads
  <2>3. CASE handle_read_eof(r) \/ handle_read_more(r) \/ handle_read_simple(r)
    BY <1>0, <2>2, <2>3
    DEF handle_read_eof, handle_read_more, handle_read_simple, handle_dead, http_senddata
  <2>4. CASE \E type \in Types : http_handle_stats(r, type)
    BY <1>0, <2>2, <2>4 DEF http_handle_stats
  <2>5. CASE \E type \in Types : http_handle_fullscrape(r, type)
    BY <1>0, <2>2, <2>5 DEF http_handle_fullscrape
  <2>. QED
    BY <2>1, <2>3, <2>4, <2>5 DEF HandleRead
<1>3. CASE Turn /\ ~ \E r \in Socks : HandleRead(r)
  BY <1>3 DEF Turn, io_wait, read_pipe, handle_accept_end, canread_end, popresult, popresult_end,
              canwrite_end, timeouted_end
<1>4. CASE io_wait_other
  BY <1>4 DEF io_wait_other
<1>5. CASE \E r \in Socks : handle_accept(r)
  <2>1. PICK r \in Socks : handle_accept(r)
    BY <1>5
  <2>2. ~conn[r].waiting
    BY <2>1 DEF handle_accept, IsOpen, IInv, ConnectionStates, ConnectionState, Closed
  <2>. QED
    BY <1>0, <2>1, <2>2 DEF handle_accept
<1>6. CASE \E r \in Socks : handle_write(r) \/ timeouted(r)
  <2>1. PICK r \in Socks : handle_write(r) \/ timeouted(r)
    BY <1>6
  <2>2. ~conn[r].waiting
    BY <2>1, DeadInv
  <2>. QED
    BY <1>0, <2>1, <2>2 DEF handle_write, timeouted, handle_dead
<1>7. CASE UNCHANGED vars
  BY <1>7 DEF vars
<1>. QED
  BY <1>1, <1>2, <1>3, <1>4, <1>5, <1>6, <1>7 DEF Next

\* A connection that waits for an answer is ended by nothing but an answer.
THEOREM WaitersStay == Spec => WaitingStaysOpen
<1>1. IInv /\ [Next]_vars =>
        [\A s \in Socks : conn[s].waiting /\ loop # "popresult" => conn'[s].id = conn[s].id]_conn
  BY WaitingStep
<1>. QED
  BY <1>1, Invariance, PTL DEF Spec, WaitingStaysOpen
=============================================================================
