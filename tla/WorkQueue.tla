----------------------------- MODULE WorkQueue ------------------------------
(***************************************************************************)
(* The work queue between the event loop and the worker threads.           *)
(*                                                                         *)
(* The event loop (opentracker.c, ot_http.c) answers simple requests at    *)
(* once and hands expensive ones to a worker: mutex_workqueue_pushtask     *)
(* queues a task that names the socket of the connection.  The worker of   *)
(* the task's class (ot_stats.c, ot_fullscrape.c) takes the task with      *)
(* poptask, computes an answer, stores it in the task with pushresult and  *)
(* writes a byte to a pipe the event loop listens on.  The event loop      *)
(* takes finished tasks with popresult and sends their answers on the      *)
(* sockets the tasks name.  A task knows its socket, a small number the    *)
(* kernel uses again once the connection is closed, and not the            *)
(* connection itself.                                                      *)
(*                                                                         *)
(* The critical sections of tasklist_mutex are atomic steps.  An answer is *)
(* the identity of the memory that holds it.  Allocations succeed.         *)
(***************************************************************************)
EXTENDS Integers, Sequences, SequencesExt, FiniteSets, FiniteSetsExt

CONSTANTS
    Socks,        \* file descriptors of TCP connections
    Types,        \* task types clients ask for in this build
    MaxConns,     \* bound: connections accepted
    MaxRequests   \* bound: tasks queued

\* The descriptors of the event loop that are not connections.
Pipe == "g_self_pipe"
Listener == "listener"

ASSUME SocksAssumption == Pipe \notin Socks /\ Listener \notin Socks

\* TASK_CLASS_MASK: which worker makes a task of a type.  "done" is TASK_DONE.
Class(type) == CASE type \in {"peers", "fulllog"} -> "stats"
                 [] type = "fullscrape"           -> "fullscrape"
                 [] type = "done"                 -> "done"

Workers == {Class(type) : type \in Types}

ASSUME TypesAssumption == Types \subseteq {"peers", "fulllog", "fullscrape"}
ASSUME BoundsAssumption == MaxConns \in Nat /\ MaxRequests \in Nat

VARIABLES
    tasklist,          \* the linked list of tasks
    next_free_taskid,  \* the last task id given out
    worker,            \* where each worker is, its task and the answer it has made
    pipe,              \* whether the self pipe holds a byte
    loop,              \* where server_mainloop is
    ready,             \* the descriptors io_canread has yet to return
    conn,              \* the connection on each descriptor: its http_data and libowfat's entry for it
    accepted,          \* history: connections accepted so far, the last one's number
    queued,            \* history: tasks queued so far
    pending,           \* history: <<connection, task>> for every task queued whose answer was not sent
    memory             \* history: the answers whose memory is allocated

queue == <<tasklist, next_free_taskid>>
history == <<accepted, queued, pending>>
vars == <<queue, worker, pipe, loop, ready, conn, history, memory>>

Idle == [pc |-> "pop", taskid |-> 0, tasktype |-> "done", iovec |-> {}]
Closed == [id |-> 0, waiting |-> FALSE, wantread |-> FALSE, wantwrite |-> FALSE,
           timeout |-> FALSE, batch |-> {}]

Init ==
    /\ tasklist = <<>>
    /\ next_free_taskid = 1
    /\ worker = [w \in Workers |-> Idle]
    /\ pipe = FALSE
    /\ loop = "io_wait"
    /\ ready = {}
    /\ conn = [s \in Socks |-> Closed]
    /\ accepted = 0 /\ queued = 0 /\ pending = {}
    /\ memory = {}

IsOpen(s) == conn[s].id # 0
Done == {i \in DOMAIN tasklist : tasklist[i].tasktype = "done"}

-----------------------------------------------------------------------------
(* The queue. *)

\* Mutant: pthread_cond_signal, one sleeping worker is woken.
pushtask_WakeOne ==
    IF \E w \in Workers : worker[w].pc = "asleep"
    THEN [worker EXCEPT ![CHOOSE w \in Workers : worker[w].pc = "asleep"].pc = "pop"]
    ELSE worker

\* The broadcast of mutex_workqueue_pushtask: every waiting worker looks again.
pushtask_Wake ==
    [w \in Workers |-> IF worker[w].pc = "asleep" THEN [worker[w] EXCEPT !.pc = "pop"]
                                                  ELSE worker[w]]

\* mutex_workqueue_pushtask, called by the event loop for socket s.
pushtask(s, type) ==
    /\ tasklist' = Append(tasklist, [taskid |-> 0, tasktype |-> type, sock |-> s, iovec |-> {},
                                     conn |-> conn[s].id, request |-> queued + 1])
    /\ worker' = pushtask_Wake
    /\ queued' = queued + 1
    /\ pending' = pending \cup {<<conn[s].id, queued + 1>>}
    /\ UNCHANGED next_free_taskid

\* mutex_workqueue_canceltask.  The loop that looks for the socket's task unlinks every
\* task it passes: what is left is what follows the first task of the socket.
canceltask(s) ==
    LET i == SelectInSeq(tasklist, LAMBDA t : t.sock = s)
    IN  IF i = 0 THEN <<>> ELSE SubSeq(tasklist, i + 1, Len(tasklist))

\* The memory canceltask gives back: the answer of the task it was looking for.
canceltask_Frees(s) ==
    LET i == SelectInSeq(tasklist, LAMBDA t : t.sock = s)
    IN  IF i = 0 THEN {} ELSE tasklist[i].iovec

\* The tasks mutex_workqueue_poptask does not pass over.
Outstanding(w) == {i \in DOMAIN tasklist : /\ Class(tasklist[i].tasktype) = w
                                           /\ tasklist[i].taskid = 0}

\* Mutant: the task ids are not counted up.
poptask_SameId(w) ==
    /\ worker[w].pc = "pop"
    /\ Outstanding(w) # {}
    /\ LET i == Min(Outstanding(w)) IN
       /\ tasklist' = [tasklist EXCEPT ![i].taskid = next_free_taskid]
       /\ worker' = [worker EXCEPT ![w] = [pc |-> "make", taskid |-> next_free_taskid,
                                           tasktype |-> tasklist[i].tasktype, iovec |-> {}]]
    /\ UNCHANGED <<next_free_taskid, pipe, loop, ready, conn, history, memory>>

\* mutex_workqueue_poptask finds a task for worker w.
poptask(w) ==
    /\ worker[w].pc = "pop"
    /\ Outstanding(w) # {}
    /\ LET i == Min(Outstanding(w)) IN
       /\ next_free_taskid' = next_free_taskid + 1
       /\ tasklist' = [tasklist EXCEPT ![i].taskid = next_free_taskid + 1]
       /\ worker' = [worker EXCEPT ![w] = [pc |-> "make", taskid |-> next_free_taskid + 1,
                                           tasktype |-> tasklist[i].tasktype, iovec |-> {}]]
    /\ UNCHANGED <<pipe, loop, ready, conn, history, memory>>

\* mutex_workqueue_poptask finds none and waits for pushtask's broadcast.
poptask_wait(w) ==
    /\ worker[w].pc = "pop"
    /\ Outstanding(w) = {}
    /\ worker' = [worker EXCEPT ![w].pc = "asleep"]
    /\ UNCHANGED <<queue, pipe, loop, ready, conn, history, memory>>

\* stats_make, fullscrape_make: a mode that is not compiled in makes an answer of 0 vectors.
make(w) ==
    /\ worker[w].pc = "make"
    /\ LET iovec == IF worker[w].tasktype = "fulllog" THEN {} ELSE {worker[w].taskid} IN
       /\ worker' = [worker EXCEPT ![w].pc = "push", ![w].iovec = iovec]
       /\ memory' = memory \cup iovec
    /\ UNCHANGED <<queue, pipe, loop, ready, conn, history>>

\* Mutant: the event loop is not told.
pushresult_Silent(w) ==
    /\ worker[w].pc = "push"
    /\ tasklist' = [i \in DOMAIN tasklist |->
                      IF tasklist[i].taskid = worker[w].taskid
                      THEN [tasklist[i] EXCEPT !.iovec = worker[w].iovec, !.tasktype = "done"]
                      ELSE tasklist[i]]
    /\ worker' = [worker EXCEPT ![w] = Idle]
    /\ UNCHANGED <<memory, next_free_taskid, pipe, loop, ready, conn, history>>

\* mutex_workqueue_pushresult up to its unlock; the worker frees the answer of a task
\* that is not in the list any more.
pushresult(w) ==
    /\ worker[w].pc = "push"
    /\ LET i == SelectInSeq(tasklist, LAMBDA t : t.taskid = worker[w].taskid) IN
       IF i # 0
       THEN /\ tasklist' = [tasklist EXCEPT ![i].iovec = worker[w].iovec, ![i].tasktype = "done"]
            /\ UNCHANGED memory
       ELSE /\ memory' = memory \ worker[w].iovec
            /\ UNCHANGED tasklist
    /\ worker' = [worker EXCEPT ![w] = [Idle EXCEPT !.pc = "signal"]]
    /\ UNCHANGED <<next_free_taskid, pipe, loop, ready, conn, history>>

\* The end of mutex_workqueue_pushresult, after its unlock: a byte for the event loop.
pushresult_signal(w) ==
    /\ worker[w].pc = "signal"
    /\ pipe' = TRUE
    /\ worker' = [worker EXCEPT ![w].pc = "pop"]
    /\ UNCHANGED <<queue, loop, ready, conn, history, memory>>

-----------------------------------------------------------------------------
(* Connections. *)

\* Mutant: the answer being sent is not released.
handle_dead_NoReset(s) ==
    /\ tasklist' = IF conn[s].waiting THEN canceltask(s) ELSE tasklist
    /\ UNCHANGED memory
    /\ conn' = [conn EXCEPT ![s] = Closed]

\* Mutant: the task is cancelled whether the connection waits for one or not.
handle_dead_Cancel(s) ==
    /\ tasklist' = canceltask(s)
    /\ memory' = memory \ (conn[s].batch \cup canceltask_Frees(s))
    /\ conn' = [conn EXCEPT ![s] = Closed]

\* handle_dead: release what the connection holds, cancel its task if it waits for one.
handle_dead(s) ==
    /\ tasklist' = IF conn[s].waiting THEN canceltask(s) ELSE tasklist
    /\ memory' = memory \ (conn[s].batch
                             \cup (IF conn[s].waiting THEN canceltask_Frees(s) ELSE {}))
    /\ conn' = [conn EXCEPT ![s] = Closed]

\* http_senddata for a short reply: it is written or fails and the connection is closed,
\* its batch not reset, or the rest of it is left for the event loop to write.
http_senddata(s) ==
    \/ conn' = [conn EXCEPT ![s] = Closed]
    \/ conn' = [conn EXCEPT ![s].wantread = FALSE, ![s].wantwrite = TRUE, ![s].timeout = FALSE]

\* Mutant: the answer is added to what the batch still holds.
http_sendiovecdata_Batch_NoReset(s, iovec) == conn[s].batch \cup iovec

\* The batch of a connection after http_sendiovecdata: the old one is reset.
http_sendiovecdata_Batch(s, iovec) == iovec

\* http_sendiovecdata with the answer of task t.
http_sendiovecdata(t) ==
    LET s == t.sock IN
    \/ /\ ~IsOpen(s)
       /\ memory' = memory \ t.iovec
       /\ UNCHANGED conn
    \/ /\ IsOpen(s)
       /\ t.iovec = {}
       /\ \/ conn' = [conn EXCEPT ![s] = Closed]
          \/ conn' = [conn EXCEPT ![s].waiting = FALSE, ![s].wantread = FALSE,
                                  ![s].wantwrite = TRUE, ![s].timeout = FALSE]
       /\ UNCHANGED memory
    \/ /\ IsOpen(s)
       /\ t.iovec # {}
       /\ LET batch == http_sendiovecdata_Batch(s, t.iovec) IN
          /\ conn' = [conn EXCEPT ![s].waiting = FALSE, ![s].wantread = FALSE,
                                  ![s].wantwrite = TRUE, ![s].timeout = TRUE,
                                  ![s].batch = batch]
          /\ memory' = memory \ (conn[s].batch \ batch)

-----------------------------------------------------------------------------
(* server_mainloop, in the order of its loops. *)

\* io_wait returns: a byte in the pipe is an event, clients cause the others.
io_wait ==
    /\ loop = "io_wait"
    /\ \E events \in SUBSET ({Listener} \cup {s \in Socks : conn[s].wantread}) :
         ready' = events \cup (IF pipe THEN {Pipe} ELSE {})
    /\ ready' # {}
    /\ loop' = "canread"
    /\ UNCHANGED <<queue, worker, pipe, conn, history, memory>>

\* io_wait is interrupted by SIGALRM, or a socket can be written.
io_wait_other ==
    /\ loop = "io_wait"
    /\ loop' = "canread"
    /\ UNCHANGED <<queue, worker, pipe, ready, conn, history, memory>>

read_pipe ==
    /\ loop = "canread"
    /\ Pipe \in ready
    /\ pipe' = FALSE
    /\ ready' = ready \ {Pipe}
    /\ UNCHANGED <<queue, worker, loop, conn, history, memory>>

\* handle_accept: one of the connections waiting to be accepted gets a free descriptor.
handle_accept(s) ==
    /\ loop = "canread"
    /\ Listener \in ready
    /\ ~IsOpen(s)
    /\ accepted < MaxConns
    /\ accepted' = accepted + 1
    /\ conn' = [conn EXCEPT ![s] = [Closed EXCEPT !.id = accepted + 1, !.wantread = TRUE,
                                                  !.timeout = TRUE]]
    /\ UNCHANGED <<queue, worker, pipe, loop, ready, queued, pending, memory>>

\* handle_accept has accepted all that wait.
handle_accept_end ==
    /\ loop = "canread"
    /\ Listener \in ready
    /\ ready' = ready \ {Listener}
    /\ UNCHANGED <<queue, worker, pipe, loop, conn, history, memory>>

\* handle_read is called for socket s.
CanRead(s) ==
    /\ loop = "canread"
    /\ s \in ready
    /\ ready' = ready \ {s}
    /\ UNCHANGED <<pipe, loop, accepted>>

\* The connection is at its end or broken.
handle_read_eof(s) ==
    /\ CanRead(s)
    /\ handle_dead(s)
    /\ UNCHANGED <<next_free_taskid, worker, queued, pending>>

\* The request is not complete yet.
handle_read_more(s) ==
    /\ CanRead(s)
    /\ UNCHANGED <<queue, worker, conn, queued, pending, memory>>

\* The request is one that is answered at once.
handle_read_simple(s) ==
    /\ CanRead(s)
    /\ http_senddata(s)
    /\ UNCHANGED <<queue, worker, queued, pending, memory>>

\* http_handle_stats with a mode of class TASK_STATS.
http_handle_stats(s, type) ==
    /\ CanRead(s)
    /\ Class(type) = "stats"
    /\ queued < MaxRequests
    /\ conn' = [conn EXCEPT ![s].timeout = FALSE]
    /\ pushtask(s, type)
    /\ UNCHANGED memory

\* Mutant: the connection's timeout stays armed.
http_handle_fullscrape_Timeout(s, type) ==
    /\ CanRead(s)
    /\ Class(type) = "fullscrape"
    /\ queued < MaxRequests
    /\ conn' = [conn EXCEPT ![s].waiting = TRUE, ![s].wantread = FALSE]
    /\ pushtask(s, type)
    /\ UNCHANGED memory

\* http_handle_fullscrape.
http_handle_fullscrape(s, type) ==
    /\ CanRead(s)
    /\ Class(type) = "fullscrape"
    /\ queued < MaxRequests
    /\ conn' = [conn EXCEPT ![s].waiting = TRUE, ![s].timeout = FALSE, ![s].wantread = FALSE]
    /\ pushtask(s, type)
    /\ UNCHANGED memory

canread_end ==
    /\ loop = "canread"
    /\ ready = {}
    /\ loop' = "popresult"
    /\ UNCHANGED <<queue, worker, pipe, ready, conn, history, memory>>

\* mutex_workqueue_popresult finds a finished task, its answer is sent.
popresult ==
    /\ loop = "popresult"
    /\ Done # {}
    /\ LET t == tasklist[Min(Done)] IN
       /\ tasklist' = RemoveAt(tasklist, Min(Done))
       /\ http_sendiovecdata(t)
       /\ pending' = pending \ {<<t.conn, t.request>>}
    /\ UNCHANGED <<next_free_taskid, worker, pipe, loop, ready, accepted, queued>>

popresult_end ==
    /\ loop = "popresult"
    /\ Done = {}
    /\ loop' = "canwrite"
    /\ UNCHANGED <<queue, worker, pipe, ready, conn, history, memory>>

\* handle_write: iob_send has nothing left to send, or fails.
handle_write(s) ==
    /\ loop = "canwrite"
    /\ conn[s].wantwrite
    /\ handle_dead(s)
    /\ UNCHANGED <<next_free_taskid, worker, pipe, loop, ready, history>>

canwrite_end ==
    /\ loop = "canwrite"
    /\ loop' = "timeouted"
    /\ UNCHANGED <<queue, worker, pipe, ready, conn, history, memory>>

\* io_timeouted returns a connection whose time is over.
timeouted(s) ==
    /\ loop = "timeouted"
    /\ conn[s].timeout
    /\ handle_dead(s)
    /\ UNCHANGED <<next_free_taskid, worker, pipe, loop, ready, history>>

timeouted_end ==
    /\ loop = "timeouted"
    /\ loop' = "io_wait"
    /\ UNCHANGED <<queue, worker, pipe, ready, conn, history, memory>>

-----------------------------------------------------------------------------

HandleRead(s) ==
    \/ handle_read_eof(s)
    \/ handle_read_more(s)
    \/ handle_read_simple(s)
    \/ \E type \in Types : http_handle_stats(s, type) \/ http_handle_fullscrape(s, type)

Worker(w) == poptask(w) \/ poptask_wait(w) \/ make(w) \/ pushresult(w) \/ pushresult_signal(w)

\* What the event loop does of its own accord once it is running.
Turn ==
    \/ io_wait
    \/ read_pipe
    \/ handle_accept_end
    \/ \E s \in Socks : HandleRead(s)
    \/ canread_end
    \/ popresult
    \/ popresult_end
    \/ canwrite_end
    \/ timeouted_end

Next ==
    \/ \E w \in Workers : Worker(w)
    \/ Turn
    \/ io_wait_other
    \/ \E s \in Socks : handle_accept(s) \/ handle_write(s) \/ timeouted(s)

Spec == Init /\ [][Next]_vars

(***************************************************************************)
(* Threads run when they can, and each of the event loop's loops runs over *)
(* what io_wait found: it ends.  io_wait must return when there is a byte  *)
(* in the pipe; nothing is assumed of the clients, which may never cause   *)
(* another event, nor of SIGALRM.                                          *)
(***************************************************************************)
FairSpec ==
    /\ Spec
    /\ \A w \in Workers : WF_vars(Worker(w))
    /\ WF_vars((loop = "io_wait" => pipe) /\ Turn)

-----------------------------------------------------------------------------

\* No answer or the answer to a task.
Answer == {{}} \cup {{id} : id \in 2..next_free_taskid}

TaskTypes ==
    \A i \in DOMAIN tasklist :
      /\ tasklist[i].taskid \in 0..next_free_taskid
      /\ tasklist[i].tasktype \in Types \cup {"done"}
      /\ tasklist[i].sock \in Socks
      /\ tasklist[i].iovec \subseteq {tasklist[i].taskid}

WorkerType == [pc : {"pop", "asleep", "make", "push", "signal"},
               taskid : 0..next_free_taskid, tasktype : Types \cup {"done"}, iovec : Answer]

ConnectionType == [id : 0..accepted, waiting : BOOLEAN, wantread : BOOLEAN,
                   wantwrite : BOOLEAN, timeout : BOOLEAN, batch : Answer]

HistoryTypes ==
    /\ next_free_taskid \in 1..(MaxRequests + 1)
    /\ accepted \in 0..MaxConns /\ queued \in 0..MaxRequests
    /\ pending \subseteq (1..accepted) \X (1..queued)
    /\ memory \subseteq 2..next_free_taskid

LoopTypes ==
    /\ pipe \in BOOLEAN
    /\ loop \in {"io_wait", "canread", "popresult", "canwrite", "timeouted"}
    /\ ready \subseteq Socks \cup {Pipe, Listener}

TypeOK ==
    /\ TaskTypes
    /\ worker \in [Workers -> WorkerType]
    /\ conn \in [Socks -> ConnectionType]
    /\ HistoryTypes
    /\ LoopTypes

Busy == {w \in Workers : worker[w].pc \in {"make", "push"}}

\* Every task in the list that has an id and no answer is the task of exactly one worker,
\* of the class of that worker, and no worker works on a finished task: poptask never gives
\* a task out twice, and none is given out and then left.
OneWorkerPerTask ==
    /\ \A w \in Busy :
         /\ Class(worker[w].tasktype) = w
         /\ \A v \in Busy : worker[v].taskid = worker[w].taskid => v = w
         /\ \A i \in DOMAIN tasklist :
              tasklist[i].taskid = worker[w].taskid =>
                /\ tasklist[i].tasktype = worker[w].tasktype
                /\ \A k \in DOMAIN tasklist : tasklist[k].taskid = worker[w].taskid => k = i
    /\ \A i \in DOMAIN tasklist :
         tasklist[i].taskid # 0 /\ tasklist[i].tasktype # "done" =>
           \E w \in Busy : worker[w].taskid = tasklist[i].taskid

\* While the event loop waits, a finished task has a byte in the pipe or a worker about to
\* write one: the byte is written after the task is marked, the event loop reads the pipe
\* before it looks for finished tasks, so it never sleeps over an answer.
NoResultStranded ==
    loop = "io_wait" /\ Done # {} => pipe \/ \E w \in Workers : worker[w].pc = "signal"

\* The places that hold an answer.
Holders ==
    {<<"task", i>> : i \in {k \in DOMAIN tasklist : tasklist[k].iovec # {}}}
      \cup {<<"worker", w>> : w \in {v \in Workers : worker[v].iovec # {}}}
      \cup {<<"batch", s>> : s \in {r \in Socks : conn[r].batch # {}}}

Holds(holder) ==
    CASE holder[1] = "task"   -> tasklist[holder[2]].iovec
      [] holder[1] = "worker" -> worker[holder[2]].iovec
      [] holder[1] = "batch"  -> conn[holder[2]].batch

Held == UNION {Holds(h) : h \in Holders}

\* An answer belongs to one worker, one task or one connection, from stats_make until it is
\* released, on every path: it is neither released twice nor sent after its release, and
\* nothing allocated is forgotten.  The exception is a mode that is accepted and not compiled
\* in: its answer of 0 vectors closes a connection without releasing the answer it may still
\* be sending to an earlier request (http_sendiovecdata, HTTPERROR_500).
AnswersHeldOnce ==
    /\ Held \subseteq memory
    /\ \A g, h \in Holders : g # h => Holds(g) \cap Holds(h) = {}
    /\ "fulllog" \notin Types => memory \subseteq Held

\* Every request of a connection that is still open is in the list until its answer is sent,
\* whatever other connections do: closing one of them does not take a task away.
RequestKept ==
    \A s \in Socks : IsOpen(s) =>
      \A p \in pending : p[1] = conn[s].id =>
        \E i \in DOMAIN tasklist : tasklist[i].request = p[2]

\* A connection that is marked as waiting for a task is closed by nothing but an answer that
\* is sent to its socket ("Clients waiting for us should not easily timeout"): nothing else
\* it could die of is watched.  It follows that handle_dead never calls canceltask.
WaitingStaysOpen ==
    [][\A s \in Socks : conn[s].waiting /\ loop # "popresult" => conn'[s].id = conn[s].id]_conn

\* A request that was queued is answered, or its connection is closed: with the byte in the
\* pipe and the broadcast of pushtask no answer waits for an unrelated event.
EventuallyAnswered ==
    \A c \in 1..MaxConns : \A r \in 1..MaxRequests :
      <<c, r>> \in pending /\ (\E s \in Socks : conn[s].id = c)
        ~> <<c, r>> \notin pending \/ (\A s \in Socks : conn[s].id # c)

-----------------------------------------------------------------------------
(* What comments of the code say and the code does not do. *)

\* ot_http.c, http_sendiovecdata: "If we came here, wait for the answer is over".  The
\* connection an answer is sent to is the one that waits for it.
AnswerEndsWait ==
    loop = "popresult" /\ Done # {} =>
      LET t == tasklist[Min(Done)] IN IsOpen(t.sock) => conn[t.sock].id = t.conn
=============================================================================
