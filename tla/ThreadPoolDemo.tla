--------------------------- MODULE ThreadPoolDemo ---------------------------
(***************************************************************************)
(* The thread-pool demo (simple-examples/thread-pool-demo): a main thread  *)
(* submits tasks to a pool, waits on a latch that every task counts down,  *)
(* stops the pool and checks the results.  In the low-level demo a worker  *)
(* writes its result itself; in the high-level one it posts a closure that *)
(* the main thread, the owner of the results, runs when it drains the      *)
(* queue.  Everything the tasks refer to lives on the main thread's stack. *)
(*                                                                         *)
(* ThreadPool and TaskQueue belong to the library: Submit and Post may     *)
(* fail, queued tasks are taken in order by whichever worker is free, and  *)
(* Stop returns when no worker runs a closure, dropping tasks still queued.*)
(***************************************************************************)
EXTENDS Naturals, Sequences, FiniteSets, SequencesExt

CONSTANTS
  kTaskCount,  \* the tasks of one demo
  Worker       \* the threads of the pool

ASSUME TaskAssumption == kTaskCount \in Nat \ {0}

Task == 1..kTaskCount

VARIABLES
  demo,           \* LowLevelThreadPoolDemo or HighLevelOwnerThreadDemo
  pc,             \* where the main thread is
  next,           \* main: the task to submit next
  submitted,      \* main: every Submit so far was accepted
  queue,          \* the pool: tasks accepted and not yet taken
  at,             \* each worker: idle, or where in its task it is
  task,           \* each worker: the task it runs, or ran last
  latch,          \* std::latch done / posted
  owner_queue,    \* the closures posted to the main thread
  post_failures,  \* std::atomic<int>
  results,        \* who has written each result: nobody, a worker, the owner
  ok              \* what the demo returns

demoVars == <<demo, pc, next, submitted, queue, at, task, latch, owner_queue,
          post_failures, results, ok>>

DemoTypeOK ==
  /\ demo \in {"low", "high"}
  /\ pc \in {"submit", "wait", "stop", "drain", "check", "returned"}
  /\ next \in 1..kTaskCount + 1
  /\ submitted \in BOOLEAN
  /\ queue \in Seq(Task)
  /\ at \in [Worker -> {"idle", "work", "post", "count_down", "leave"}]
  /\ task \in [Worker -> Task]
  /\ latch \in 0..kTaskCount
  /\ owner_queue \in Seq(Task)
  /\ post_failures \in 0..kTaskCount
  /\ results \in [Task -> {"nobody", "worker", "owner"}]
  /\ ok \in BOOLEAN

DemoInit ==
  /\ demo \in {"low", "high"}
  /\ pc = "submit"
  /\ next = 1
  /\ submitted = TRUE
  /\ queue = <<>>
  /\ at = [w \in Worker |-> "idle"]
  /\ task = [w \in Worker |-> 1]
  /\ latch = kTaskCount
  /\ owner_queue = <<>>
  /\ post_failures = 0
  /\ results = [i \in Task |-> "nobody"]
  /\ ok = FALSE

-----------------------------------------------------------------------------
(* The main thread *)

SubmitAccepted ==
  /\ pc = "submit"
  /\ next <= kTaskCount
  /\ queue' = Append(queue, next)
  /\ next' = next + 1
  /\ UNCHANGED <<demo, pc, submitted, at, task, latch, owner_queue,
                 post_failures, results, ok>>

\* Fault: nobody counts down for a task that was not accepted.
RejectedUncounted ==
  /\ pc = "submit"
  /\ next <= kTaskCount
  /\ submitted' = FALSE
  /\ next' = next + 1
  /\ UNCHANGED <<demo, pc, queue, at, task, latch, owner_queue, post_failures,
                 results, ok>>

\* A task that is not accepted is counted down by the main thread itself.
SubmitRejected ==
  /\ pc = "submit"
  /\ next <= kTaskCount
  /\ submitted' = FALSE
  /\ latch' = latch - 1
  /\ next' = next + 1
  /\ UNCHANGED <<demo, pc, queue, at, task, owner_queue, post_failures,
                 results, ok>>

SubmitDone ==
  /\ pc = "submit"
  /\ next > kTaskCount
  /\ pc' = "wait"
  /\ UNCHANGED <<demo, next, submitted, queue, at, task, latch, owner_queue,
                 post_failures, results, ok>>

Wait ==
  /\ pc = "wait"
  /\ latch = 0
  /\ pc' = "stop"
  /\ UNCHANGED <<demo, next, submitted, queue, at, task, latch, owner_queue,
                 post_failures, results, ok>>

\* Fault: the workers are not joined.
StopAtOnce ==
  /\ pc = "stop"
  /\ queue' = <<>>
  /\ pc' = IF demo = "high" THEN "drain" ELSE "check"
  /\ UNCHANGED <<demo, next, submitted, at, task, latch, owner_queue,
                 post_failures, results, ok>>

\* The workers come to the end of the closures they run and are joined.
Stop ==
  /\ pc = "stop"
  /\ \A w \in Worker : at[w] = "idle"
  /\ queue' = <<>>
  /\ pc' = IF demo = "high" THEN "drain" ELSE "check"
  /\ UNCHANGED <<demo, next, submitted, at, task, latch, owner_queue,
                 post_failures, results, ok>>

\* The closures run on the main thread; owner_queue keeps what was drained.
Drain ==
  /\ pc = "drain"
  /\ results' = [i \in Task |-> IF Contains(owner_queue, i) THEN "owner"
                                                            ELSE results[i]]
  /\ pc' = "check"
  /\ UNCHANGED <<demo, next, submitted, queue, at, task, latch, owner_queue,
                 post_failures, ok>>

Check ==
  /\ pc = "check"
  /\ ok' = /\ submitted
           /\ demo = "high" => post_failures = 0 /\ Len(owner_queue) = kTaskCount
           /\ \A i \in Task : results[i] # "nobody"
  /\ pc' = "returned"
  /\ UNCHANGED <<demo, next, submitted, queue, at, task, latch, owner_queue,
                 post_failures, results>>

-----------------------------------------------------------------------------
(* A worker *)

Take(w) ==
  /\ at[w] = "idle"
  /\ queue # <<>>
  /\ task' = [task EXCEPT ![w] = Head(queue)]
  /\ queue' = Tail(queue)
  /\ at' = [at EXCEPT ![w] = "work"]
  /\ UNCHANGED <<demo, pc, next, submitted, latch, owner_queue, post_failures,
                 results, ok>>

\* The low-level task writes its result where the main thread will read it.
WorkLow(w) ==
  /\ demo = "low"
  /\ at[w] = "work"
  /\ results' = [results EXCEPT ![task[w]] = "worker"]
  /\ at' = [at EXCEPT ![w] = "count_down"]
  /\ UNCHANGED <<demo, pc, next, submitted, queue, task, latch, owner_queue,
                 post_failures, ok>>

\* The high-level one keeps its value for the closure.
WorkHigh(w) ==
  /\ demo = "high"
  /\ at[w] = "work"
  /\ at' = [at EXCEPT ![w] = "post"]
  /\ UNCHANGED <<demo, pc, next, submitted, queue, task, latch, owner_queue,
                 post_failures, results, ok>>

Post(w) ==
  /\ at[w] = "post"
  /\ owner_queue' = Append(owner_queue, task[w])
  /\ at' = [at EXCEPT ![w] = "count_down"]
  /\ UNCHANGED <<demo, pc, next, submitted, queue, task, latch, post_failures,
                 results, ok>>

PostFails(w) ==
  /\ at[w] = "post"
  /\ post_failures' = post_failures + 1
  /\ at' = [at EXCEPT ![w] = "count_down"]
  /\ UNCHANGED <<demo, pc, next, submitted, queue, task, latch, owner_queue,
                 results, ok>>

\* Fault: the worker goes on counting.
CountTwice(w) ==
  /\ at[w] = "count_down"
  /\ latch' = latch - 1
  /\ at' \in {at, [at EXCEPT ![w] = "leave"]}
  /\ UNCHANGED <<demo, pc, next, submitted, queue, task, owner_queue,
                 post_failures, results, ok>>

\* The main thread may go on from here, while the worker is still in
\* count_down, which wakes it up.
CountDown(w) ==
  /\ at[w] = "count_down"
  /\ latch' = latch - 1
  /\ at' = [at EXCEPT ![w] = "leave"]
  /\ UNCHANGED <<demo, pc, next, submitted, queue, task, owner_queue,
                 post_failures, results, ok>>

\* count_down returns, and with it the closure.
Leave(w) ==
  /\ at[w] = "leave"
  /\ at' = [at EXCEPT ![w] = "idle"]
  /\ UNCHANGED <<demo, pc, next, submitted, queue, task, latch, owner_queue,
                 post_failures, results, ok>>

-----------------------------------------------------------------------------
MainStep ==
  \/ SubmitAccepted
  \/ SubmitRejected
  \/ SubmitDone
  \/ Wait
  \/ Stop
  \/ Drain
  \/ Check

WorkerStep(w) ==
  \/ Take(w)
  \/ WorkLow(w)
  \/ WorkHigh(w)
  \/ Post(w)
  \/ PostFails(w)
  \/ CountDown(w)
  \/ Leave(w)

Terminated == pc = "returned" /\ UNCHANGED demoVars

DemoNext == MainStep \/ (\E w \in Worker : WorkerStep(w)) \/ Terminated

DemoSpec == DemoInit /\ [][DemoNext]_demoVars

\* Every thread that can go on is scheduled.
FairDemoSpec ==
  /\ DemoSpec
  /\ WF_demoVars(MainStep)
  /\ \A w \in Worker : WF_demoVars(WorkerStep(w))

-----------------------------------------------------------------------------
(* Properties *)

\* Once the wait is over every task is through: none is queued, so that it
\* makes no difference whether Stop drops tasks or runs them, and no worker
\* will write a result or post a closure any more.  But it may still be in
\* count_down, and only once the pool is stopped does no thread refer to what
\* is on the stack of the demo, which is gone when the demo has returned.
NothingOutlivesTheStop ==
  /\ pc = "stop" => queue = <<>> /\ \A w \in Worker : at[w] \in {"idle", "leave"}
  /\ pc \in {"drain", "check", "returned"} =>
       queue = <<>> /\ \A w \in Worker : at[w] = "idle"

\* The self-check passes exactly when every task was accepted and, in the
\* high-level demo, posted; then every result was written by the thread the
\* demo says, once.
SelfCheckIsRight ==
  pc = "returned" =>
    /\ ok <=> submitted /\ post_failures = 0
    /\ ok => \A i \in Task :
               results[i] = IF demo = "high" THEN "owner" ELSE "worker"
    /\ IsInjective(owner_queue)

\* Latch and Stop together are enough: past the one every task is through, past
\* the other every worker, and what the demo reports of the tasks is so.
StopIsComplete == NothingOutlivesTheStop /\ SelfCheckIsRight

\* The demo ends, also when tasks are rejected or cannot be posted: the latch
\* is counted down once for each.
Returns == <>(pc = "returned")
=============================================================================
