----------------------------- MODULE ThreadPool -----------------------------
(***************************************************************************)
(* The thread pool of src/src/pool.c on top of the queue of SafeQueue.     *)
(*                                                                         *)
(* The workers are the consumers of the queue, numbered as in the code;    *)
(* the thread that creates, feeds and destroys the pool is one of its      *)
(* producers.  A task is the pointer given to thread_pool_push, and        *)
(* pool->worker is the callback that gets it.  The pool is stopped by      *)
(* clearing pool->running and then enqueueing one NULL per worker.         *)
(***************************************************************************)
EXTENDS SafeQueue

CONSTANTS NULL,   \* the null pointer
          Owner   \* the thread that creates, feeds and destroys the pool

PoolSize == Cardinality(Consumers)

ASSUME PoolAssumption ==
    /\ Owner \in Producers
    /\ NULL \in Items
    /\ Consumers = 0 .. PoolSize - 1
    /\ PoolSize > 0

Tasks == Items \ {NULL}

VARIABLES running,  \* pool->running
          worker,   \* worker[w]: where worker w is in thread_pool_worker
          stage,    \* where the owner is in the life of the pool
          idx,      \* the index of the loop the owner is in
          pushed,   \* history: the tasks given to thread_pool_push
          done      \* history: done[x] is how often the callback got x

poolVars == <<running, worker, stage, idx, pushed, done>>
vars     == <<queueVars, poolVars>>

WorkerStates == {"unborn", "loop", "dequeue", "task", "leaving", "exited"}
Stages == {"create", "open", "posting", "joining", "destroying", "freed"}

PoolInit ==
    /\ safe_queue_create
    /\ running = TRUE
    /\ worker = [w \in Consumers |-> "unborn"]
    /\ stage = "create"
    /\ idx = 0
    /\ pushed = {}
    /\ done = [x \in Tasks |-> 0]

-----------------------------------------------------------------------------
(* The loops of the owner, over the threads of the pool. *)
InLoop_posts_one_more == IF stage = "posting" THEN idx <= PoolSize ELSE idx < PoolSize

InLoop_posts_one_short == idx < IF stage = "posting" THEN PoolSize - 1 ELSE PoolSize

InLoop_joins_one_short == idx < IF stage = "joining" THEN PoolSize - 1 ELSE PoolSize

InLoop == idx < PoolSize

(* thread_pool_create: the loop that starts the workers.  A worker may run *)
(* before the next one is started.                                         *)
thread_pool_create ==
    /\ stage = "create"
    /\ IF InLoop
       THEN /\ worker' = [worker EXCEPT ![idx] = "loop"]
            /\ idx' = idx + 1
            /\ UNCHANGED stage
       ELSE /\ stage' = "open"
            /\ UNCHANGED <<worker, idx>>
    /\ UNCHANGED <<queueVars, running, pushed, done>>

thread_pool_push(t, x) ==
    /\ IF running
       THEN safe_queue_enqueue(t, x) /\ pushed' = pushed \cup {x}
       ELSE UNCHANGED <<queueVars, pushed>>
    /\ UNCHANGED <<running, worker, stage, idx, done>>

-----------------------------------------------------------------------------
(* thread_pool_destroy *)

thread_pool_destroy_late_flag ==
    /\ stage' = "posting"
    /\ idx' = 0
    /\ UNCHANGED <<queueVars, running, worker, pushed, done>>

thread_pool_destroy ==
    /\ running' = FALSE
    /\ stage' = "posting"
    /\ idx' = 0
    /\ UNCHANGED <<queueVars, worker, pushed, done>>

(* One NULL per worker, each by a whole safe_queue_enqueue. *)
destroy_post(t) ==
    /\ stage = "posting"
    /\ pc[t] = "idle"
    /\ IF InLoop
       THEN /\ safe_queue_enqueue(t, NULL)
            /\ idx' = idx + 1
            /\ UNCHANGED stage
       ELSE /\ stage' = "joining"
            /\ idx' = 0
            /\ UNCHANGED queueVars
    /\ UNCHANGED <<running, worker, pushed, done>>

(* pthread_join(pool->threads[i], NULL), in the order of the indices. *)
destroy_join ==
    /\ stage = "joining"
    /\ IF InLoop
       THEN worker[idx] = "exited" /\ idx' = idx + 1 /\ UNCHANGED stage
       ELSE stage' = "destroying" /\ UNCHANGED idx
    /\ UNCHANGED <<queueVars, running, worker, pushed, done>>

(* safe_queue_destroy takes the mutex once more; then the queue, the array *)
(* of threads and the pool are freed.                                      *)
safe_queue_destroy ==
    /\ stage = "destroying"
    /\ mutex = NoThread
    /\ stage' = "freed"
    /\ UNCHANGED <<queueVars, running, worker, idx, pushed, done>>

-----------------------------------------------------------------------------
(* thread_pool_worker *)

worker_dequeue(w) ==
    /\ worker[w] = "loop"
    /\ safe_queue_dequeue(w)
    /\ worker' = [worker EXCEPT ![w] = "dequeue"]
    /\ UNCHANGED <<running, stage, idx, pushed, done>>

(* What the comparison with NULL may say of an item: a slot that nobody    *)
(* has written may hold anything.                                          *)
NullTests(x) == IF x = Uninit THEN BOOLEAN ELSE {x = NULL}

worker_test_flag_only(w) ==
    /\ worker[w] = "dequeue"
    /\ pc[w] = "idle"
    /\ worker' = [worker EXCEPT ![w] = IF ~running THEN "leaving" ELSE "task"]
    /\ UNCHANGED <<queueVars, running, stage, idx, pushed, done>>

worker_test(w) ==
    /\ worker[w] = "dequeue"
    /\ pc[w] = "idle"
    /\ \E null \in NullTests(item[w]) :
          worker' = [worker EXCEPT ![w] = IF null /\ ~running THEN "leaving" ELSE "task"]
    /\ UNCHANGED <<queueVars, running, stage, idx, pushed, done>>

(* The callback returns, and the worker goes round its loop. *)
worker_return(w) ==
    /\ worker[w] = "task"
    /\ worker' = [worker EXCEPT ![w] = "loop"]
    /\ done' = [x \in Tasks |-> IF x = item[w] THEN done[x] + 1 ELSE done[x]]
    /\ UNCHANGED <<queueVars, running, stage, idx, pushed>>

(* After the loop the worker still reads arg->pool->debug. *)
worker_exit(w) ==
    /\ worker[w] = "leaving"
    /\ worker' = [worker EXCEPT ![w] = "exited"]
    /\ UNCHANGED <<queueVars, running, stage, idx, pushed, done>>

-----------------------------------------------------------------------------
(* The pool with one owner, which pushes each task at most once. *)

QueueStep ==
    /\ \/ \E p \in Producers : EnqueueStep(p)
       \/ \E c \in Consumers : DequeueStep(c)
       \/ \E t \in Threads : ResizeStep(t)
    /\ UNCHANGED poolVars

WorkerStep(w) ==
    \/ worker_dequeue(w)
    \/ worker_test(w)
    \/ worker_exit(w)

DestroyStep(t) ==
    \/ destroy_post(t)
    \/ destroy_join
    \/ safe_queue_destroy

OwnerCalls ==
    /\ stage = "open"
    /\ pc[Owner] = "idle"
    /\ \/ \E x \in Tasks \ pushed : thread_pool_push(Owner, x)
       \/ thread_pool_destroy

(* The pool is gone and its owner goes on without it. *)
PoolGone == stage = "freed" /\ UNCHANGED vars

PoolNext ==
    \/ PoolGone
    \/ thread_pool_create
    \/ OwnerCalls
    \/ DestroyStep(Owner)
    \/ \E w \in Consumers : WorkerStep(w) \/ worker_return(w)
    \/ QueueStep

PoolSpec == PoolInit /\ [][PoolNext]_vars

(* A thread that can run runs, and one that waits for a mutex that is      *)
(* freed again and again gets it.  The callback returns.  The owner may    *)
(* push and destroy or not.                                                *)
PoolFairness ==
    /\ WF_vars(thread_pool_create)
    /\ WF_vars(DestroyStep(Owner))
    /\ \A w \in Consumers :
          /\ WF_vars(WorkerStep(w))
          /\ WF_vars(worker_return(w))
          /\ WF_vars((dequeue_wait(w) \/ dequeue_take(w) \/ dequeue_return(w)) /\ UNCHANGED poolVars)
          /\ SF_vars(dequeue_lock(w) /\ UNCHANGED poolVars)
    /\ WF_vars((enqueue_grow(Owner) \/ safe_queue_resize(Owner)) /\ UNCHANGED poolVars)
    /\ WF_vars((enqueue_write(Owner) \/ enqueue_advance(Owner)) /\ UNCHANGED poolVars)
    /\ SF_vars((resize_lock(Owner) \/ enqueue_lock(Owner)) /\ UNCHANGED poolVars)

PoolFairSpec == PoolSpec /\ PoolFairness

-----------------------------------------------------------------------------
(* Properties *)

(* Every variable of the queue and of the pool has its type; a thread that *)
(* is not in its loop is not inside a queue operation.                     *)
PoolTypeOK ==
    /\ TypeOK
    /\ running \in BOOLEAN
    /\ worker \in [Consumers -> WorkerStates]
    /\ stage \in Stages
    /\ idx \in 0 .. PoolSize
    /\ pushed \in SUBSET Tasks
    /\ done \in [Tasks -> Nat]
    /\ \A w \in Consumers : worker[w] # "dequeue" => pc[w] = "idle"

(* The workers that have taken x out of the queue and not finished with it. *)
InHand(x) ==
    {w \in Consumers : /\ item[w] = x
                       /\ \/ worker[w] = "task"
                          \/ /\ worker[w] = "dequeue"
                             /\ pc[w] \in {"deq_resize", "deq_return", "idle"}}

Queued(x) == {k \in 1 .. size : Contents[k] = x}

Arriving(x) == {p \in Producers : pc[p] # "idle" /\ item[p] = x}

Underway(x) ==
    Cardinality(Arriving(x)) + Cardinality(Queued(x)) + Cardinality(InHand(x))

(* A task that was pushed is in exactly one place until it is done, and is *)
(* done once: it is on its way into the queue, in it, with one worker, or  *)
(* done.  Several workers compete for it and may sleep, wake and shut down *)
(* meanwhile.                                                              *)
TaskAccounted == \A x \in pushed : Underway(x) + done[x] = 1

(* Every NULL that thread_pool_destroy has enqueued ends exactly one       *)
(* worker: it is on its way, in the queue, with a worker that is about to  *)
(* see it, or has ended one.                                               *)
PillPerWorker ==
    stage \in {"posting", "joining"} =>
        Underway(NULL) + Cardinality({w \in Consumers : worker[w] \in {"leaving", "exited"}})
          = IF stage = "posting" THEN idx ELSE PoolSize

(* The callback gets a task, never a NULL and never the content of a slot  *)
(* nobody has written: handle_client would dereference it.                 *)
NoNullTask ==
    \A w \in Consumers : worker[w] = "task" => item[w] \in Tasks

(* When thread_pool_destroy frees the pool no worker can touch it any      *)
(* more, and every task that was ever pushed has been done.                *)
FreedIsQuiet ==
    stage = "freed" =>
        /\ \A w \in Consumers : worker[w] = "exited"
        /\ \A x \in pushed : done[x] = 1

(* thread_pool_destroy returns: the owner, which waits for the workers one *)
(* by one, is not left waiting for one that sleeps.                        *)
DestroyReturns == stage = "posting" ~> stage = "freed"

(* A task that was pushed is done, whether or not the pool is destroyed.   *)
TaskIsDone == \A x \in Tasks : x \in pushed ~> done[x] = 1
=============================================================================
