-------------------------- MODULE ThreadPoolProofs --------------------------
(***************************************************************************)
(* Theorems about ThreadPool, for any number of workers and of tasks; all  *)
(* but PoolTypeCorrect as long as the tasks and NULLs that wait at one     *)
(* time fit in a quarter of the queue's array.                             *)
(*                                                                         *)
(* The pool uses the queue as its specification says (PoolUsesQueue), so   *)
(* the theorems about the queue hold for the pool's queue.  On top of them *)
(* the proofs count: an item that was given to the queue is on its way,    *)
(* queued, in the hands of one worker or dealt with.                       *)
(***************************************************************************)
EXTENDS ThreadPool, SafeQueueRefinement, FunctionTheorems

(* The pool of an owner that never lets more than MaxBacklog items wait in *)
(* the queue or on their way into it.  Under LightLoad, that is a quarter  *)
(* of the array.                                                           *)
LightPool == PoolSpec /\ [](Backlog <= MaxBacklog)

-----------------------------------------------------------------------------
(* The inductive invariant *)

(* How many NULLs thread_pool_destroy has given to safe_queue_enqueue. *)
Posted ==
    CASE stage \in {"create", "open"} -> 0
      [] stage = "posting" -> idx
      [] OTHER -> PoolSize

(* The flag is cleared before the first NULL is enqueued. *)
FlagTells == running <=> stage \in {"create", "open"}

(* The owner is the only thread that enqueues: tasks while the pool is     *)
(* open, NULLs afterwards.                                                 *)
OwnerEnqueues ==
    \A p \in Producers : pc[p] # "idle" =>
        /\ p = Owner
        /\ \/ stage = "open" /\ item[p] \in Tasks
           \/ stage = "posting" /\ item[p] = NULL

(* Worker w has taken an item out of the queue and not finished with it. *)
Has(w) ==
    \/ worker[w] = "task"
    \/ worker[w] = "dequeue" /\ pc[w] \in {"deq_resize", "deq_return", "idle"}

HandsReal ==
    \A w \in Consumers : Has(w) => item[w] \in Items

(* The loops of the owner over the workers. *)
LoopsInOrder ==
    /\ stage = "create" => \A w \in Consumers : w >= idx => worker[w] = "unborn"
    /\ stage = "joining" => \A w \in Consumers : w < idx => worker[w] = "exited"
    /\ stage \in {"destroying", "freed"} => \A w \in Consumers : worker[w] = "exited"

(* What holds at any load, whoever feeds and destroys the pool. *)
PoolShape ==
    /\ QueueInv
    /\ PoolTypeOK
    /\ FlagTells
    /\ LoopsInOrder

(* What holds besides as long as no array is replaced. *)
PoolBase ==
    /\ PoolShape
    /\ LightInv
    /\ HandsReal
    /\ NoNullTask

(* The workers that have seen a NULL and left the loop. *)
Leaving == {w \in Consumers : worker[w] \in {"leaving", "exited"}}

(* How often x was given to the queue, and how often it was dealt with. *)
Given(x) == IF x = NULL THEN Posted ELSE IF x \in pushed THEN 1 ELSE 0

Ended(x) == IF x = NULL THEN Cardinality(Leaving) ELSE done[x]

Flow == \A x \in Items : Underway(x) + Ended(x) = Given(x)

(* The NULLs are behind all the tasks: once a worker has got one, no task  *)
(* is left in the queue.                                                   *)
NullsLast ==
    /\ \A j, k \in 1 .. size : j < k /\ Contents[j] = NULL => Contents[k] = NULL
    /\ (\E w \in Consumers : w \in Leaving \/ (Has(w) /\ item[w] = NULL)) =>
           \A k \in 1 .. size : Contents[k] = NULL

(* What holds whoever feeds and destroys the pool. *)
PoolCore == PoolBase /\ Flow /\ NullsLast

PoolInv == PoolCore /\ OwnerEnqueues

-----------------------------------------------------------------------------
(* The three kinds of steps inside the queue *)

(* The places of a consumer that is not looking for an item. *)
AfterTake == {"deq_resize", "deq_return", "idle"}

KeepsPlace(c) ==
    /\ pc[c] = "idle" => pc'[c] = "idle"
    /\ pc'[c] \in AfterTake <=> pc[c] \in AfterTake

QuietStep ==
    /\ size' = size /\ Contents' = Contents /\ item' = item
    /\ Busy' = Busy
    /\ \A c \in Consumers : KeepsPlace(c)

PutStep(p) ==
    /\ size' = size + 1
    /\ Contents' = Append(Contents, item[p])
    /\ item' = item
    /\ p \in Busy /\ Busy' = Busy \ {p}
    /\ \A c \in Consumers : KeepsPlace(c)

TakeStep(c) ==
    /\ size > 0 /\ size' = size - 1
    /\ Contents' = Tail(Contents)
    /\ item' = [item EXCEPT ![c] = Contents[1]]
    /\ Busy' = Busy
    /\ pc[c] = "deq_test" /\ pc' = [pc EXCEPT ![c] = "deq_return"]

LEMMA EnqueueKinds ==
    ASSUME LightLoad, QueueInv, LightInv, QueueInv', LightInv',
           NEW p \in Producers, EnqueueStep(p)
    PROVE  QuietStep \/ PutStep(p)
  <1> USE QueueAssumption DEF QueueInv, TypeOK, Threads
  <1>1. ~enqueue_grow(p)
    BY DEF LightInv, NoResize, enqueue_grow
  <1>2. CASE enqueue_lock(p)
    <2>1. /\ pc[p] = "enq_lock" /\ pc' = [pc EXCEPT ![p] = "enq_write"] /\ item' = item
          /\ size' = size /\ data' = data /\ front' = front /\ capacity' = capacity
      BY <1>2 DEF enqueue_lock, Goto, ring
    <2>2. Contents' = Contents
      BY <2>1 DEF Contents
    <2> QED
      BY <2>1, <2>2 DEF QuietStep, Busy, KeepsPlace
  <1>3. CASE enqueue_write(p)
    <2>1. /\ pc[p] = "enq_write" /\ pc' = [pc EXCEPT ![p] = "enq_advance"] /\ item' = item
          /\ size' = size
      BY <1>3 DEF enqueue_write, Goto
    <2>2. Contents' = Contents
      BY <1>3, WriteKeepsContents
    <2> QED
      BY <2>1, <2>2 DEF QuietStep, Busy, KeepsPlace
  <1>4. CASE enqueue_advance(p)
    <2>1. pc[p] = "enq_advance" /\ item' = item /\ size' = size + 1
      BY <1>4 DEF enqueue_advance
    <2>2. \/ pc' = [pc EXCEPT ![p] = "idle"]
          \/ \E c \in Consumers : /\ pc[c] = "deq_wait"
                                  /\ pc' = [pc EXCEPT ![p] = "idle", ![c] = "deq_lock"]
      BY <1>4 DEF enqueue_advance, pthread_cond_signal, Goto, SleepersWait
    <2>3. Contents' = Append(Contents, item[p])
      BY <1>4, AdvanceAppends, ContentsSeq, ContentsSeqNext
    <2>4. p \in Busy /\ Busy' = Busy \ {p}
      BY <2>1, <2>2 DEF Busy
    <2>5. \A c \in Consumers : KeepsPlace(c)
      BY <2>1, <2>2 DEF KeepsPlace, AfterTake
    <2> QED
      BY <2>1, <2>3, <2>4, <2>5 DEF PutStep
  <1> QED
    BY <1>1, <1>2, <1>3, <1>4 DEF EnqueueStep

LEMMA DequeueKinds ==
    ASSUME LightLoad, QueueInv, LightInv, QueueInv', LightInv',
           NEW c \in Consumers, DequeueStep(c)
    PROVE  QuietStep \/ TakeStep(c)
  <1> USE QueueAssumption DEF QueueInv, TypeOK, Threads
  <1>1. CASE dequeue_lock(c) \/ dequeue_wait(c) \/ spurious_wakeup(c) \/ dequeue_return(c)
    <2>1. size' = size /\ Contents' = Contents /\ item' = item
      BY <1>1 DEF dequeue_lock, dequeue_wait, spurious_wakeup, dequeue_return, ring, Contents
    <2>2. \/ pc[c] = "deq_lock" /\ pc' = [pc EXCEPT ![c] = "deq_test"]
          \/ pc[c] = "deq_test" /\ pc' = [pc EXCEPT ![c] = "deq_wait"]
          \/ pc[c] = "deq_wait" /\ pc' = [pc EXCEPT ![c] = "deq_lock"]
          \/ pc[c] = "deq_return" /\ pc' = [pc EXCEPT ![c] = "idle"]
      BY <1>1 DEF dequeue_lock, dequeue_wait, spurious_wakeup, dequeue_return, Goto, SleepersWait
    <2>3. Busy' = Busy
      BY <2>2 DEF Busy
    <2>4. \A d \in Consumers : KeepsPlace(d)
      BY <2>2 DEF KeepsPlace, AfterTake
    <2> QED
      BY <2>1, <2>3, <2>4 DEF QuietStep
  <1>2. CASE dequeue_take(c)
    <2>1. size > 0 /\ size' = size - 1 /\ ~Shrinks(size - 1)
      BY <1>2, Room DEF dequeue_take
    <2>2. pc[c] = "deq_test" /\ pc' = [pc EXCEPT ![c] = "deq_return"]
      BY <1>2, <2>1 DEF dequeue_take, Goto
    <2>3. Contents' = Tail(Contents)
      BY <1>2, TakeIsGet, ContentsSeq, ContentsSeqNext DEF Abstract!Get
    <2>4. item' = [item EXCEPT ![c] = Contents[1]]
      <3>1. 1 \in 1 .. size /\ front + (1 - 1) = front
        BY <2>1
      <3>2. front % capacity = front
        BY RingSlots
      <3>3. Contents[1] = data[front]
        BY <3>1, <3>2, ContentsSeq DEF IsContents
      <3> QED
        BY <1>2, <3>3 DEF dequeue_take
    <2>5. Busy' = Busy
      BY <2>2 DEF Busy
    <2> QED
      BY <2>1, <2>2, <2>3, <2>4, <2>5 DEF TakeStep
  <1> QED
    BY <1>1, <1>2 DEF DequeueStep

(* What QueueStep of the pool does. *)
LEMMA QueueStepKinds ==
    ASSUME LightLoad, QueueInv, LightInv, QueueInv', LightInv', QueueStep
    PROVE  /\ UNCHANGED poolVars
           /\ \/ QuietStep
              \/ \E p \in Producers : PutStep(p)
              \/ \E c \in Consumers : TakeStep(c)
  <1>1. \A t \in Threads : ~ResizeStep(t)
    BY DEF LightInv, NoResize, ResizeStep, resize_lock, safe_queue_resize
  <1> QED
    BY <1>1, EnqueueKinds, DequeueKinds DEF QueueStep

-----------------------------------------------------------------------------
(* The pool uses the queue as Next of SafeQueue says *)

LEMMA PoolSizeNat == PoolSize \in Nat
  BY QueueAssumption, FS_CardinalityType DEF PoolSize

LEMMA EnqueueCounts ==
    ASSUME QueueInv, NEW t \in Producers, NEW x, safe_queue_enqueue(t, x)
    PROVE  Backlog \in Nat /\ Backlog' = Backlog + 1
  <1>1. /\ size' = size /\ size \in Nat /\ pc[t] = "idle" /\ pc'[t] # "idle"
        /\ \A p \in Producers \ {t} : pc'[p] = pc[p]
    BY DEF safe_queue_enqueue, ring, Goto, QueueInv, TypeOK, Threads
  <1>2. Busy' = Busy \cup {t} /\ t \notin Busy
    BY <1>1 DEF Busy
  <1>3. Cardinality(Busy') = Cardinality(Busy) + 1
    BY <1>2, BusyFinite, FS_AddElement
  <1>4. Backlog = size + Cardinality(Busy) /\ Backlog' = size' + Cardinality(Busy')
    BY DEF Backlog, Busy
  <1> QED
    BY <1>1, <1>3, <1>4, BusyFinite

(* A call of safe_queue_enqueue that keeps within the bound is a step of   *)
(* the queue.                                                              *)
LEMMA EnqueueIsNext ==
    ASSUME QueueInv, NEW t \in Producers, NEW x \in Items, safe_queue_enqueue(t, x),
           (Backlog <= MaxBacklog)'
    PROVE  Next
  <1>1. Backlog < MaxBacklog
    BY EnqueueCounts, QueueAssumption
  <1> QED
    BY <1>1 DEF Next

LEMMA StepOfQueue ==
    ASSUME PoolShape, [PoolNext]_vars, (Backlog <= MaxBacklog)'
    PROVE  [Next]_queueVars
  <1> USE PoolAssumption
  <1>0. ASSUME NEW x \in Items, safe_queue_enqueue(Owner, x)
        PROVE  [Next]_queueVars
    BY <1>0, EnqueueIsNext DEF PoolShape
  <1>1. CASE \/ UNCHANGED vars \/ PoolGone \/ thread_pool_create \/ thread_pool_destroy
             \/ destroy_join \/ safe_queue_destroy
    BY <1>1 DEF PoolGone, vars, thread_pool_create, thread_pool_destroy, destroy_join,
                safe_queue_destroy
  <1>2. ASSUME NEW x \in Tasks \ pushed, thread_pool_push(Owner, x)
        PROVE  [Next]_queueVars
    BY <1>0, <1>2 DEF thread_pool_push, Tasks
  <1>3. CASE destroy_post(Owner)
    BY <1>0, <1>3 DEF destroy_post
  <1>4. ASSUME NEW w \in Consumers, WorkerStep(w) \/ worker_return(w)
        PROVE  [Next]_queueVars
    BY <1>4 DEF WorkerStep, worker_dequeue, worker_test, worker_exit, worker_return, Next
  <1>5. CASE QueueStep
    BY <1>5 DEF QueueStep, Next
  <1> QED
    BY <1>1, <1>2, <1>3, <1>4, <1>5 DEF PoolNext, OwnerCalls, DestroyStep

-----------------------------------------------------------------------------
(* Every step of the pool preserves PoolShape *)

(* A step outside the queue of the thread that creates and destroys the    *)
(* pool.                                                                   *)
PoolMove(t) ==
    \/ thread_pool_create
    \/ stage = "open" /\ thread_pool_destroy
    \/ destroy_post(t) /\ ~InLoop
    \/ destroy_join
    \/ safe_queue_destroy

LEMMA PoolMoves ==
    ASSUME PoolShape, NEW t, PoolMove(t)
    PROVE  /\ UNCHANGED <<queueVars, pushed, done>> /\ Posted' = Posted
           /\ \A w \in Consumers : \/ worker'[w] = worker[w]
                                   \/ worker[w] = "unborn" /\ worker'[w] = "loop"
  <1> USE PoolAssumption DEF PoolShape, PoolMove
  <1>1. PoolSize \in Nat
    BY PoolSizeNat
  <1>2. UNCHANGED <<queueVars, pushed, done>> /\ Posted' = Posted
    BY <1>1 DEF Posted, thread_pool_create, thread_pool_destroy, destroy_post, destroy_join,
                safe_queue_destroy, InLoop, PoolTypeOK
  <1>3. ASSUME thread_pool_create, InLoop
        PROVE  idx \in Consumers /\ worker[idx] = "unborn"
    BY <1>1, <1>3 DEF thread_pool_create, LoopsInOrder, InLoop, PoolTypeOK
  <1>4. \A w \in Consumers : \/ worker'[w] = worker[w]
                             \/ worker[w] = "unborn" /\ worker'[w] = "loop"
    BY <1>3 DEF PoolTypeOK, thread_pool_create, thread_pool_destroy, destroy_post,
                destroy_join, safe_queue_destroy
  <1> QED
    BY <1>2, <1>4

LEMMA SameQueueInv ==
    ASSUME QueueInv, UNCHANGED queueVars PROVE QueueInv'
  BY NextQueueInv

LEMMA PoolMoveShape ==
    ASSUME PoolShape, NEW t, PoolMove(t) PROVE PoolShape'
  <1> USE PoolAssumption, QueueAssumption DEF PoolShape, PoolMove
  <1>0. UNCHANGED queueVars /\ pc' = pc /\ PoolSize \in Nat
    BY PoolMoves, PoolSizeNat DEF queueVars
  <1>1. QueueInv'
    BY <1>0, SameQueueInv
  <1>2. PoolTypeOK'
    <2> USE DEF PoolTypeOK, InLoop, WorkerStates, Stages
    <2>0. TypeOK'
      BY <1>1 DEF QueueInv
    <2>1. CASE thread_pool_create
      <3>1. CASE InLoop
        <4>1. idx \in Consumers /\ worker[idx] = "unborn"
          BY <1>0, <2>1, <3>1 DEF thread_pool_create, LoopsInOrder
        <4>2. /\ worker' = [worker EXCEPT ![idx] = "loop"] /\ idx' = idx + 1
              /\ UNCHANGED <<running, stage, pushed, done>>
          BY <2>1, <3>1 DEF thread_pool_create
        <4>3. idx' \in 0 .. PoolSize
          BY <1>0, <3>1, <4>2
        <4> QED
          BY <1>0, <2>0, <4>1, <4>2, <4>3
      <3> QED
        BY <1>0, <2>0, <2>1, <3>1 DEF thread_pool_create
    <2>2. CASE ~thread_pool_create
      <3>1. UNCHANGED <<worker, pushed, done>>
        BY <2>2 DEF thread_pool_destroy, destroy_post, destroy_join, safe_queue_destroy
      <3>2. running' = running \/ running' = FALSE
        BY <2>2 DEF thread_pool_destroy, destroy_post, destroy_join, safe_queue_destroy
      <3>3. stage' \in Stages /\ (idx' = idx \/ idx' = 0 \/ (idx' = idx + 1 /\ idx < PoolSize))
        BY <2>2 DEF thread_pool_destroy, destroy_post, destroy_join, safe_queue_destroy
      <3>4. idx' \in 0 .. PoolSize
        BY <1>0, <3>3
      <3> QED
        BY <1>0, <2>0, <3>1, <3>2, <3>3, <3>4
    <2> QED
      BY <2>1, <2>2
  <1>3. FlagTells'
    BY DEF FlagTells, thread_pool_create, thread_pool_destroy, destroy_post, destroy_join,
           safe_queue_destroy
  <1>4. LoopsInOrder'
    BY <1>0 DEF LoopsInOrder, thread_pool_create, thread_pool_destroy, destroy_post, destroy_join,
                safe_queue_destroy, InLoop, PoolTypeOK
  <1> QED
    BY <1>1, <1>2, <1>3, <1>4

(* A call of safe_queue_enqueue that gives the queue a new task, or one    *)
(* more NULL.                                                              *)
PoolGives(x) ==
    /\ UNCHANGED <<running, worker, stage, done>>
    /\ \/ stage = "open" /\ x \in Tasks \ pushed /\ pushed' = pushed \cup {x} /\ idx' = idx
       \/ stage = "posting" /\ x = NULL /\ idx < PoolSize /\ idx' = idx + 1 /\ pushed' = pushed

LEMMA PoolGivesShape ==
    ASSUME PoolShape, NEW t \in Producers, NEW x \in Items, safe_queue_enqueue(t, x), PoolGives(x)
    PROVE  PoolShape'
  <1> USE PoolAssumption, QueueAssumption DEF PoolShape, PoolGives
  <1>1. QueueInv'
    BY safe_queue_enqueueInv
  <1>2. \A w \in Consumers : pc'[w] = pc[w]
    BY DEF safe_queue_enqueue, Goto, QueueInv, TypeOK, Threads
  <1>3. PoolTypeOK'
    BY <1>1, <1>2, PoolSizeNat DEF PoolTypeOK, QueueInv
  <1>4. FlagTells' /\ LoopsInOrder'
    BY DEF FlagTells, LoopsInOrder
  <1> QED
    BY <1>1, <1>3, <1>4

(* A worker between two operations of the queue. *)
LEMMA WorkerShape ==
    ASSUME PoolShape, NEW w \in Consumers, WorkerStep(w) \/ worker_return(w)
    PROVE  PoolShape'
  <1> USE PoolAssumption, QueueAssumption DEF PoolShape
  <1>0. UNCHANGED <<running, stage, idx, pushed>>
    BY DEF WorkerStep, worker_dequeue, worker_test, worker_exit, worker_return
  <1>1. QueueInv'
    <2>1. safe_queue_dequeue(w) \/ UNCHANGED queueVars
      BY DEF WorkerStep, worker_dequeue, worker_test, worker_exit, worker_return
    <2> QED
      BY <2>1, SameQueueInv, safe_queue_dequeueInv
  <1>2. \E to \in {"loop", "dequeue", "task", "leaving", "exited"} :
            /\ worker' = [worker EXCEPT ![w] = to]
            /\ worker[w] \in {"loop", "dequeue", "task", "leaving"}
            /\ \/ pc' = pc /\ (worker[w] = "dequeue" => pc[w] = "idle")
               \/ to = "dequeue" /\ pc' = [pc EXCEPT ![w] = "deq_lock"]
    BY DEF WorkerStep, worker_dequeue, worker_test, worker_exit, worker_return,
           safe_queue_dequeue, Goto, queueVars
  <1>3. PoolTypeOK'
    <2>1. worker' \in [Consumers -> WorkerStates]
      BY <1>2 DEF PoolTypeOK, WorkerStates
    <2>2. done' \in [Tasks -> Nat]
      BY DEF PoolTypeOK, WorkerStep, worker_dequeue, worker_test, worker_exit, worker_return
    <2>3. \A v \in Consumers : worker'[v] # "dequeue" => pc'[v] = "idle"
      BY <1>2 DEF PoolTypeOK, QueueInv, TypeOK, Threads
    <2> QED
      BY <1>0, <1>1, <2>1, <2>2, <2>3 DEF PoolTypeOK, QueueInv
  <1>4. FlagTells'
    BY <1>0 DEF FlagTells
  <1>5. LoopsInOrder'
    BY <1>0, <1>2 DEF LoopsInOrder, PoolTypeOK
  <1> QED
    BY <1>1, <1>3, <1>4, <1>5

(* A consumer that is not inside the queue is left alone. *)
LEMMA QueueStepConsumers ==
    ASSUME QueueInv, QueueStep, NEW c \in Consumers, pc[c] = "idle"
    PROVE  pc'[c] = "idle" /\ item'[c] = item[c]
  <1> USE QueueAssumption DEF QueueInv, TypeOK, Threads, Goto
  <1>1. ASSUME NEW p \in Producers, EnqueueStep(p) PROVE pc'[c] = "idle" /\ item'[c] = item[c]
    BY <1>1 DEF EnqueueStep, enqueue_grow, enqueue_lock, enqueue_write, enqueue_advance,
                pthread_cond_signal, SleepersWait
  <1>2. ASSUME NEW d \in Consumers, DequeueStep(d) PROVE pc'[c] = "idle" /\ item'[c] = item[c]
    BY <1>2 DEF DequeueStep, dequeue_lock, dequeue_wait, spurious_wakeup, dequeue_take,
                dequeue_return, SleepersWait
  <1>3. ASSUME NEW t \in Threads, ResizeStep(t) PROVE pc'[c] = "idle" /\ item'[c] = item[c]
    BY <1>3 DEF ResizeStep, resize_lock, safe_queue_resize
  <1> QED
    BY <1>1, <1>2, <1>3 DEF QueueStep

LEMMA QueueStepShape ==
    ASSUME PoolShape, QueueStep PROVE PoolShape'
  <1> USE QueueAssumption DEF PoolShape
  <1>0. UNCHANGED <<running, worker, stage, idx, pushed, done>>
    BY DEF QueueStep, poolVars
  <1>1. QueueInv'
    BY NextQueueInv DEF QueueStep, Next
  <1>2. \A c \in Consumers : pc[c] = "idle" => pc'[c] = "idle"
    BY QueueStepConsumers
  <1>3. PoolTypeOK'
    BY <1>0, <1>1, <1>2 DEF PoolTypeOK, QueueInv
  <1>4. FlagTells' /\ LoopsInOrder'
    BY <1>0 DEF FlagTells, LoopsInOrder
  <1> QED
    BY <1>1, <1>3, <1>4

(* A producer inside the queue keeps its item, and one that is not stays   *)
(* out.                                                                    *)
LEMMA QueueStepProducers ==
    ASSUME QueueInv, QueueStep, NEW p \in Producers
    PROVE  /\ item'[p] = item[p]
           /\ pc[p] = "idle" => pc'[p] = "idle"
  <1> USE QueueAssumption DEF QueueInv, TypeOK, Threads, Goto
  <1>1. ASSUME NEW q \in Producers, EnqueueStep(q)
        PROVE  item'[p] = item[p] /\ (pc[p] = "idle" => pc'[p] = "idle")
    BY <1>1 DEF EnqueueStep, enqueue_grow, enqueue_lock, enqueue_write, enqueue_advance,
                pthread_cond_signal, SleepersWait
  <1>2. ASSUME NEW c \in Consumers, DequeueStep(c)
        PROVE  item'[p] = item[p] /\ (pc[p] = "idle" => pc'[p] = "idle")
    BY <1>2 DEF DequeueStep, dequeue_lock, dequeue_wait, spurious_wakeup, dequeue_take,
                dequeue_return
  <1>3. ASSUME NEW t \in Threads, ResizeStep(t)
        PROVE  item'[p] = item[p] /\ (pc[p] = "idle" => pc'[p] = "idle")
    BY <1>3 DEF ResizeStep, resize_lock, safe_queue_resize
  <1> QED
    BY <1>1, <1>2, <1>3 DEF QueueStep

LEMMA InitShape ==
    ASSUME PoolInit PROVE PoolShape
  <1> USE PoolAssumption, QueueAssumption DEF PoolInit
  <1>1. QueueInv /\ PoolSize \in Nat
    BY InitQueueInv, PoolSizeNat DEF Init
  <1>2. PoolTypeOK
    BY <1>1 DEF PoolTypeOK, QueueInv, WorkerStates, Stages, safe_queue_create, Threads
  <1>3. FlagTells /\ LoopsInOrder
    BY DEF FlagTells, LoopsInOrder
  <1> QED
    BY <1>1, <1>2, <1>3 DEF PoolShape

LEMMA NextShape ==
    ASSUME PoolShape, [PoolNext]_vars PROVE PoolShape'
  <1> USE PoolAssumption
  <1>1. CASE UNCHANGED vars
    <2>1. UNCHANGED <<queueVars, pc, running, worker, stage, idx, pushed, done>>
      BY <1>1 DEF vars, queueVars, poolVars
    <2> QED
      BY <2>1, SameQueueInv DEF PoolShape, PoolTypeOK, QueueInv, FlagTells, LoopsInOrder
  <1>2. CASE thread_pool_create \/ destroy_join \/ safe_queue_destroy
    BY <1>2, PoolMoveShape DEF PoolMove
  <1>3. CASE OwnerCalls
    <2>1. CASE thread_pool_destroy
      BY <1>3, <2>1, PoolMoveShape DEF PoolMove, OwnerCalls
    <2>2. ASSUME NEW x \in Tasks \ pushed, thread_pool_push(Owner, x) PROVE PoolShape'
      <3>1. running /\ stage = "open"
        BY <1>3 DEF OwnerCalls, PoolShape, FlagTells
      <3> QED
        BY <2>2, <3>1, PoolGivesShape DEF thread_pool_push, PoolGives, Tasks
    <2> QED
      BY <1>3, <2>1, <2>2 DEF OwnerCalls
  <1>4. CASE destroy_post(Owner)
    <2>1. CASE InLoop
      BY <1>4, <2>1, PoolGivesShape DEF destroy_post, InLoop, PoolGives
    <2> QED
      BY <1>4, <2>1, PoolMoveShape DEF PoolMove
  <1> QED
    BY <1>1, <1>2, <1>3, <1>4, WorkerShape, QueueStepShape DEF PoolNext, PoolGone, DestroyStep

(* The variables of pool.c and queue.c keep their types, and a worker      *)
(* outside safe_queue_dequeue is not inside the queue, at any load.        *)
THEOREM PoolTypeCorrect == PoolSpec => []PoolTypeOK
  <1>1. PoolInit => PoolShape
    BY InitShape
  <1>2. PoolShape /\ [PoolNext]_vars => PoolShape'
    BY NextShape
  <1>3. PoolShape => PoolTypeOK
    BY DEF PoolShape
  <1> QED
    BY <1>1, <1>2, <1>3, PTL DEF PoolSpec

-----------------------------------------------------------------------------
(* Every step of the pool preserves PoolBase *)

LEMMA PoolMoveBase ==
    ASSUME PoolBase, NEW t, PoolMove(t), LightInv' PROVE PoolBase'
  <1>1. PoolShape'
    BY PoolMoveShape DEF PoolBase
  <1>2. /\ pc' = pc /\ item' = item
        /\ \A w \in Consumers : worker'[w] = worker[w] \/ worker'[w] = "loop"
    BY PoolMoves DEF PoolBase, queueVars
  <1>3. HandsReal' /\ NoNullTask'
    BY <1>2 DEF PoolBase, HandsReal, NoNullTask, Has
  <1> QED
    BY <1>1, <1>3 DEF PoolBase

LEMMA PoolGivesBase ==
    ASSUME PoolBase, NEW t \in Producers, NEW x \in Items, safe_queue_enqueue(t, x),
           PoolGives(x), LightInv'
    PROVE  PoolBase'
  <1>1. PoolShape'
    BY PoolGivesShape DEF PoolBase
  <1>2. worker' = worker /\ \A w \in Consumers : pc'[w] = pc[w] /\ item'[w] = item[w]
    BY QueueAssumption DEF safe_queue_enqueue, Goto, PoolBase, PoolShape, QueueInv, TypeOK, Threads,
                           PoolGives
  <1>3. HandsReal' /\ NoNullTask'
    BY <1>2 DEF PoolBase, HandsReal, NoNullTask, Has
  <1> QED
    BY <1>1, <1>3 DEF PoolBase

-----------------------------------------------------------------------------
(* Counting *)

LEMMA FlowFinite ==
    ASSUME NEW x
    PROVE  /\ IsFiniteSet(Arriving(x)) /\ Cardinality(Arriving(x)) \in Nat
           /\ IsFiniteSet(InHand(x)) /\ Cardinality(InHand(x)) \in Nat
           /\ size \in Nat => IsFiniteSet(Queued(x)) /\ Cardinality(Queued(x)) \in Nat
           /\ IsFiniteSet(Leaving) /\ Cardinality(Leaving) \in Nat
  <1>1. Arriving(x) \subseteq Producers /\ InHand(x) \subseteq Consumers /\ Leaving \subseteq Consumers
    BY DEF Arriving, InHand, Leaving
  <1>2. ASSUME size \in Nat
        PROVE  IsFiniteSet(Queued(x))
    <2>1. IsFiniteSet(1 .. size) /\ Queued(x) \subseteq 1 .. size
      BY <1>2, FS_Interval DEF Queued
    <2> QED
      BY <2>1, FS_Subset
  <1> QED
    BY <1>1, <1>2, FS_Subset, FS_CardinalityType, QueueAssumption

(* While the pool is open nobody has met a NULL, and none is on its way. *)
LEMMA NoEarlyNull ==
    ASSUME PoolTypeOK, Flow, stage \in {"create", "open"}
    PROVE  Arriving(NULL) = {} /\ Queued(NULL) = {} /\ InHand(NULL) = {} /\ Leaving = {}
  <1>1. Underway(NULL) + Cardinality(Leaving) = 0
    BY PoolAssumption DEF Flow, Given, Ended, Posted
  <1>2. size \in Nat
    BY DEF PoolTypeOK, TypeOK
  <1>3. /\ Cardinality(Arriving(NULL)) \in Nat /\ Cardinality(Queued(NULL)) \in Nat
        /\ Cardinality(InHand(NULL)) \in Nat /\ Cardinality(Leaving) \in Nat
    BY <1>2, FlowFinite
  <1>4. /\ Cardinality(Arriving(NULL)) = 0 /\ Cardinality(Queued(NULL)) = 0
        /\ Cardinality(InHand(NULL)) = 0 /\ Cardinality(Leaving) = 0
    BY <1>1, <1>3 DEF Underway
  <1> QED
    BY <1>2, <1>4, FlowFinite, FS_EmptySet

LEMMA HasInHand ==
    ASSUME NEW w \in Consumers, Has(w) PROVE w \in InHand(item[w])
  BY DEF Has, InHand

(* What a step of a worker outside the queue does. *)
WorkerMove(w) ==
    \/ /\ worker[w] = "loop" /\ pc[w] = "idle"
       /\ worker' = [worker EXCEPT ![w] = "dequeue"] /\ pc' = [pc EXCEPT ![w] = "deq_lock"]
       /\ done' = done
    \/ /\ worker[w] = "dequeue" /\ pc[w] = "idle" /\ item[w] = NULL
       /\ worker' = [worker EXCEPT ![w] = "leaving"] /\ pc' = pc
       /\ done' = done
    \/ /\ worker[w] = "dequeue" /\ pc[w] = "idle" /\ item[w] \in Tasks
       /\ worker' = [worker EXCEPT ![w] = "task"] /\ pc' = pc
       /\ done' = done
    \/ /\ worker[w] = "task" /\ item[w] \in Tasks
       /\ worker' = [worker EXCEPT ![w] = "loop"] /\ pc' = pc
       /\ done' = [done EXCEPT ![item[w]] = @ + 1]
    \/ /\ worker[w] = "leaving"
       /\ worker' = [worker EXCEPT ![w] = "exited"] /\ pc' = pc
       /\ done' = done

(* A worker that finds a NULL leaves: the flag is cleared before the first *)
(* NULL is enqueued.                                                       *)
LEMMA WorkerMoves ==
    ASSUME PoolBase, Flow, NEW w \in Consumers, WorkerStep(w) \/ worker_return(w)
    PROVE  /\ UNCHANGED <<ring, item, running, stage, idx, pushed>>
           /\ WorkerMove(w)
  <1>1. CASE worker_dequeue(w)
    BY <1>1 DEF worker_dequeue, safe_queue_dequeue, Goto, WorkerMove
  <1>2. CASE worker_exit(w)
    BY <1>2 DEF worker_exit, queueVars, ring, WorkerMove
  <1>3. CASE worker_return(w)
    <2>1. item[w] \in Tasks /\ done \in [Tasks -> Nat]
      BY <1>3 DEF worker_return, PoolBase, PoolShape, NoNullTask, PoolTypeOK
    <2>2. done' = [done EXCEPT ![item[w]] = @ + 1]
      BY <1>3, <2>1 DEF worker_return
    <2> QED
      BY <1>3, <2>1, <2>2 DEF worker_return, queueVars, ring, WorkerMove
  <1>4. CASE worker_test(w)
    <2>1. Has(w) /\ item[w] \in Items
      BY <1>4 DEF worker_test, Has, PoolBase, HandsReal
    <2>2. NullTests(item[w]) = {item[w] = NULL}
      BY <2>1, QueueAssumption DEF NullTests
    <2>3. item[w] = NULL => ~running
      <3>1. ASSUME item[w] = NULL, running PROVE FALSE
        <4>1. InHand(NULL) = {}
          BY <3>1, NoEarlyNull DEF PoolBase, PoolShape, FlagTells
        <4> QED
          BY <2>1, <3>1, <4>1, HasInHand
      <3> QED
        BY <3>1
    <2>4. worker' = [worker EXCEPT ![w] = IF item[w] = NULL THEN "leaving" ELSE "task"]
      BY <1>4, <2>2, <2>3 DEF worker_test
    <2>5. item[w] # NULL => item[w] \in Tasks
      BY <2>1 DEF Tasks
    <2> QED
      BY <1>4, <2>4, <2>5 DEF worker_test, queueVars, ring, WorkerMove
  <1> QED
    BY <1>1, <1>2, <1>3, <1>4 DEF WorkerStep

LEMMA WorkerBase ==
    ASSUME PoolBase, Flow, NEW w \in Consumers, WorkerStep(w) \/ worker_return(w), LightInv'
    PROVE  PoolBase'
  <1>1. PoolShape'
    BY WorkerShape DEF PoolBase
  <1>2. item' = item /\ WorkerMove(w)
    BY WorkerMoves
  <1>3. \A v \in Consumers :
            /\ Has(v)' => Has(v)
            /\ worker'[v] = "task" => worker[v] = "task" \/ item[v] \in Tasks
    BY <1>2 DEF Has, WorkerMove, Threads, PoolBase, PoolShape, PoolTypeOK, QueueInv, TypeOK
  <1>4. HandsReal' /\ NoNullTask'
    BY <1>2, <1>3 DEF PoolBase, HandsReal, NoNullTask
  <1> QED
    BY <1>1, <1>4 DEF PoolBase

LEMMA QueueStepBase ==
    ASSUME PoolBase, PoolShape', LightInv', UNCHANGED poolVars,
           \/ QuietStep
           \/ \E p \in Producers : PutStep(p)
           \/ \E c \in Consumers : TakeStep(c)
    PROVE  PoolBase'
  <1> USE PoolAssumption, QueueAssumption DEF PoolBase, PoolShape
  <1>0. /\ size \in Nat /\ pc \in [Threads -> EnqueuePCs \cup DequeuePCs]
        /\ item \in [Threads -> Slots]
        /\ UNCHANGED <<running, worker, stage, idx, pushed, done>>
    BY DEF QueueInv, TypeOK, poolVars
  <1>1. \A c \in Consumers : pc[c] = "idle" => pc'[c] = "idle" /\ item'[c] = item[c]
    BY <1>0 DEF QuietStep, PutStep, TakeStep, KeepsPlace, Threads
  <1>5. HandsReal'
    <2> SUFFICES ASSUME NEW w \in Consumers, Has(w)' PROVE item'[w] \in Items
      BY DEF HandsReal
    <2>1. CASE pc[w] \in AfterTake
      <3>1. Has(w) /\ item'[w] = item[w]
        BY <1>0, <2>1 DEF Has, AfterTake, QuietStep, PutStep, TakeStep, Threads
      <3> QED
        BY <3>1 DEF HandsReal
    <2>2. CASE pc[w] \notin AfterTake
      <3>1. pc'[w] \in AfterTake
        BY <1>0, <2>2 DEF Has, AfterTake, PoolTypeOK
      <3>2. pc'[w] = "deq_return"
        BY <1>0, <2>2, <3>1 DEF QuietStep, PutStep, TakeStep, KeepsPlace, Threads
      <3> QED
        BY <3>2 DEF LightInv, ReturnsEnqueued
    <2> QED
      BY <2>1, <2>2
  <1>6. NoNullTask'
    BY <1>0, <1>1 DEF NoNullTask, PoolTypeOK
  <1> QED
    BY <1>5, <1>6

-----------------------------------------------------------------------------
(* Every step of the pool preserves Flow *)

LEMMA PoolMoveFlow ==
    ASSUME PoolShape, Flow, NEW t, PoolMove(t) PROVE Flow'
  <1> SUFFICES ASSUME NEW x \in Items PROVE (Underway(x) + Ended(x) = Given(x))'
    BY DEF Flow
  <1>0. /\ size' = size /\ pc' = pc /\ item' = item /\ Contents' = Contents
        /\ pushed' = pushed /\ done' = done /\ Posted' = Posted
        /\ \A w \in Consumers : \/ worker'[w] = worker[w]
                                \/ worker[w] = "unborn" /\ worker'[w] = "loop"
    BY PoolMoves DEF queueVars, Contents
  <1>1. Arriving(x)' = Arriving(x) /\ Queued(x)' = Queued(x) /\ InHand(x)' = InHand(x)
    BY <1>0 DEF Arriving, Queued, InHand
  <1>2. Leaving' = Leaving
    BY <1>0 DEF Leaving
  <1> QED
    BY <1>0, <1>1, <1>2 DEF Flow, Underway, Ended, Given

LEMMA PoolGivesFlow ==
    ASSUME LightLoad, PoolBase, Flow, NEW t \in Producers, NEW x \in Items,
           safe_queue_enqueue(t, x), PoolGives(x)
    PROVE  Flow'
  <1> USE PoolAssumption, QueueAssumption DEF PoolBase, PoolShape, PoolGives
  <1>0. /\ size' = size /\ size \in Nat /\ Contents' = Contents
        /\ pc[t] = "idle" /\ pc' = [pc EXCEPT ![t] = "enq_lock"]
        /\ item' = [item EXCEPT ![t] = x]
        /\ pc \in [Threads -> EnqueuePCs \cup DequeuePCs] /\ item \in [Threads -> Slots]
    <2>1. size # capacity
      BY Room DEF QueueInv, TypeOK
    <2> QED
      BY <2>1 DEF safe_queue_enqueue, ring, Goto, QueueInv, TypeOK, Contents
  <1>1. \A y : Queued(y)' = Queued(y) /\ InHand(y)' = InHand(y)
    BY <1>0 DEF Queued, InHand, Threads
  <1>2. /\ Arriving(x)' = Arriving(x) \cup {t} /\ t \notin Arriving(x)
        /\ \A y : y # x => Arriving(y)' = Arriving(y)
    BY <1>0 DEF Arriving, Threads
  <1>3. Cardinality(Arriving(x)') = Cardinality(Arriving(x)) + 1
    BY <1>2, FlowFinite, FS_AddElement
  <1>4. Leaving' = Leaving /\ \A y : Ended(y)' = Ended(y)
    BY DEF Leaving, Ended
  <1>5. /\ Given(x)' = Given(x) + 1
        /\ \A y \in Items : y # x => Given(y)' = Given(y)
    BY DEF Given, Posted, Tasks
  <1> SUFFICES ASSUME NEW y \in Items PROVE (Underway(y) + Ended(y) = Given(y))'
    BY DEF Flow
  <1>6. CASE y # x
    BY <1>1, <1>2, <1>4, <1>5, <1>6 DEF Flow, Underway
  <1>7. CASE y = x
    <2>1. /\ Cardinality(Arriving(x)) \in Nat /\ Cardinality(Queued(x)) \in Nat
          /\ Cardinality(InHand(x)) \in Nat /\ Ended(x) \in Nat
      BY <1>0, FlowFinite DEF Ended, PoolTypeOK, Tasks
    <2>2. Underway(x)' = Underway(x) + 1
      BY <1>1, <1>3, <2>1 DEF Underway
    <2>3. Underway(x) + Ended(x) = Given(x) /\ Underway(x) \in Nat
      BY <2>1 DEF Flow, Underway
    <2> QED
      BY <1>4, <1>5, <1>7, <2>1, <2>2, <2>3
  <1> QED
    BY <1>6, <1>7

(* A step that takes worker w from the hands of x and counts x as ended,   *)
(* or changes nothing of both.                                             *)
LEMMA EndFlow ==
    ASSUME PoolTypeOK, Flow, NEW w \in Consumers, NEW x \in Items, w \in InHand(x),
           \A y \in Items : /\ Arriving(y)' = Arriving(y) /\ Queued(y)' = Queued(y)
                            /\ Given(y)' = Given(y)
                            /\ y # x => InHand(y)' = InHand(y) /\ Ended(y)' = Ended(y),
           InHand(x)' = InHand(x) \ {w}, Ended(x)' = Ended(x) + 1
    PROVE  Flow'
  <1> SUFFICES ASSUME NEW y \in Items PROVE (Underway(y) + Ended(y) = Given(y))'
    BY DEF Flow
  <1>1. CASE y # x
    BY <1>1 DEF Flow, Underway
  <1>2. CASE y = x
    <2>1. /\ Cardinality(Arriving(x)) \in Nat /\ Cardinality(Queued(x)) \in Nat
          /\ Cardinality(InHand(x)) \in Nat /\ Ended(x) \in Nat
      BY FlowFinite DEF Ended, PoolTypeOK, TypeOK, Tasks
    <2>2. Cardinality(InHand(x)') = Cardinality(InHand(x)) - 1
      BY FlowFinite, FS_RemoveElement
    <2>3. Underway(x)' = Underway(x) - 1
      BY <2>1, <2>2 DEF Underway
    <2>4. Underway(x) + Ended(x) = Given(x) /\ Underway(x) \in Nat
      BY <2>1 DEF Flow, Underway
    <2> QED
      BY <1>2, <2>1, <2>3, <2>4
  <1> QED
    BY <1>1, <1>2

LEMMA WorkerFlow ==
    ASSUME PoolBase, Flow, NEW w \in Consumers,
           UNCHANGED <<ring, item, running, stage, idx, pushed>>, WorkerMove(w)
    PROVE  Flow'
  <1> USE QueueAssumption DEF PoolBase, PoolShape
  <1>0. /\ size' = size /\ Contents' = Contents
        /\ pc \in [Threads -> EnqueuePCs \cup DequeuePCs]
        /\ worker \in [Consumers -> WorkerStates] /\ done \in [Tasks -> Nat]
    BY DEF ring, QueueInv, TypeOK, PoolTypeOK, Contents
  <1>1. \A y : Arriving(y)' = Arriving(y) /\ Queued(y)' = Queued(y) /\ Given(y)' = Given(y)
    BY <1>0 DEF Arriving, Queued, Given, Posted, WorkerMove, Threads
  <1>2. CASE /\ worker[w] = "dequeue" /\ pc[w] = "idle" /\ item[w] = NULL
             /\ worker' = [worker EXCEPT ![w] = "leaving"] /\ pc' = pc /\ done' = done
    <2>1. /\ w \in InHand(NULL) /\ InHand(NULL)' = InHand(NULL) \ {w}
          /\ \A y : y # NULL => InHand(y)' = InHand(y)
      BY <1>0, <1>2 DEF InHand
    <2>2. w \notin Leaving /\ Leaving' = Leaving \cup {w}
      BY <1>0, <1>2 DEF Leaving
    <2>3. Ended(NULL)' = Ended(NULL) + 1 /\ \A y : y # NULL => Ended(y)' = Ended(y)
      BY <1>2, <2>2, FlowFinite, FS_AddElement DEF Ended
    <2> QED
      BY <1>1, <2>1, <2>3, EndFlow, PoolAssumption
  <1>3. CASE /\ worker[w] = "task" /\ item[w] \in Tasks
             /\ worker' = [worker EXCEPT ![w] = "loop"] /\ pc' = pc
             /\ done' = [done EXCEPT ![item[w]] = @ + 1]
    <2>1. /\ w \in InHand(item[w]) /\ InHand(item[w])' = InHand(item[w]) \ {w}
          /\ \A y : y # item[w] => InHand(y)' = InHand(y)
      BY <1>0, <1>3 DEF InHand
    <2>2. Leaving' = Leaving
      BY <1>0, <1>3 DEF Leaving
    <2>3. /\ Ended(item[w])' = Ended(item[w]) + 1
          /\ \A y \in Items : y # item[w] => Ended(y)' = Ended(y)
      BY <1>0, <1>3, <2>2 DEF Ended, Tasks
    <2>4. item[w] \in Items
      BY <1>3 DEF Tasks
    <2> QED
      BY <1>1, <2>1, <2>3, <2>4, EndFlow
  <1>4. CASE \/ /\ worker[w] = "loop" /\ pc[w] = "idle" /\ done' = done
                /\ worker' = [worker EXCEPT ![w] = "dequeue"] /\ pc' = [pc EXCEPT ![w] = "deq_lock"]
             \/ /\ worker[w] = "dequeue" /\ pc[w] = "idle" /\ done' = done
                /\ worker' = [worker EXCEPT ![w] = "task"] /\ pc' = pc
             \/ /\ worker[w] = "leaving" /\ done' = done
                /\ worker' = [worker EXCEPT ![w] = "exited"] /\ pc' = pc
    <2>1. \A y : InHand(y)' = InHand(y)
      BY <1>0, <1>4 DEF InHand, Threads
    <2>2. Leaving' = Leaving
      BY <1>0, <1>4 DEF Leaving
    <2> QED
      BY <1>1, <1>4, <2>1, <2>2 DEF Flow, Underway, Ended
  <1> QED
    BY <1>2, <1>3, <1>4 DEF WorkerMove

(* The head of the queue is gone: an item is queued as often as before,    *)
(* not counting the head.                                                  *)
LEMMA QueuedTail ==
    ASSUME IsContents, IsContents', size \in Nat \ {0}, size' = size - 1,
           Contents' = Tail(Contents), NEW x
    PROVE  Cardinality(Queued(x)') = Cardinality(Queued(x) \ {1})
  <1>1. /\ Len(Contents) = size /\ Contents \in Seq(Items) /\ Contents # <<>>
    BY EmptySeq DEF IsContents
  <1>2. \A k \in 1 .. size - 1 : Contents'[k] = Contents[k + 1]
    BY <1>1, HeadTailProperties
  <1> DEFINE S == Queued(x) \ {1}
             T == Queued(x)'
             f == [k \in S |-> k - 1]
  <1>3. IsFiniteSet(S)
    BY FlowFinite, FS_RemoveElement
  <1>4. f \in [S -> T]
    <2>1. ASSUME NEW k \in S PROVE k - 1 \in T
      <3>1. k \in 1 .. size /\ k # 1 /\ Contents[k] = x
        BY DEF Queued
      <3>2. k - 1 \in 1 .. size - 1 /\ (k - 1) + 1 = k
        BY <3>1
      <3>3. Contents'[k - 1] = x
        BY <1>2, <3>1, <3>2
      <3> QED
        BY <3>2, <3>3 DEF Queued
    <2> QED
      BY <2>1
  <1>5. \A a, b \in S : f[a] = f[b] => a = b
    BY DEF Queued
  <1>6. \A t \in T : \E k \in S : f[k] = t
    <2> TAKE t \in T
    <2>1. t \in 1 .. size - 1 /\ Contents[t + 1] = x
      BY <1>2 DEF Queued
    <2>2. t + 1 \in S /\ f[t + 1] = t
      BY <2>1 DEF Queued
    <2> QED
      BY <2>2
  <1>7. ExistsBijection(S, T)
    <2> HIDE DEF S, T, f
    <2>1. f \in Bijection(S, T)
      BY <1>4, <1>5, <1>6, Fun_IsBij
    <2> QED
      BY <2>1 DEF ExistsBijection
  <1> QED
    BY <1>3, <1>7, FS_Bijection

LEMMA QuietFlow ==
    ASSUME PoolBase, Flow, UNCHANGED poolVars, QuietStep
    PROVE  Flow'
  <1> SUFFICES ASSUME NEW x \in Items PROVE (Underway(x) + Ended(x) = Given(x))'
    BY DEF Flow
  <1>0. UNCHANGED <<running, worker, stage, idx, pushed, done>>
    BY DEF poolVars
  <1>1. Queued(x)' = Queued(x)
    BY DEF Queued, QuietStep
  <1>2. Arriving(x)' = Arriving(x)
    <2>1. \A p \in Producers : pc[p] # "idle" <=> pc'[p] # "idle"
      BY DEF QuietStep, Busy
    <2> QED
      BY <2>1 DEF Arriving, QuietStep
  <1>3. InHand(x)' = InHand(x)
    BY <1>0 DEF InHand, QuietStep, KeepsPlace, AfterTake
  <1>4. Ended(x)' = Ended(x) /\ Given(x)' = Given(x)
    BY <1>0 DEF Ended, Leaving, Given, Posted
  <1> QED
    BY <1>1, <1>2, <1>3, <1>4 DEF Flow, Underway

LEMMA PutFlow ==
    ASSUME PoolBase, IsContents, IsContents', Flow, UNCHANGED poolVars,
           NEW p \in Producers, PutStep(p)
    PROVE  Flow'
  <1> SUFFICES ASSUME NEW x \in Items PROVE (Underway(x) + Ended(x) = Given(x))'
    BY DEF Flow
  <1>0. UNCHANGED <<running, worker, stage, idx, pushed, done>> /\ size \in Nat
    BY DEF poolVars, PoolBase, PoolShape, QueueInv, TypeOK
  <1>1. /\ Arriving(x)' = Arriving(x) \ {p}
        /\ p \in Arriving(x) <=> item[p] = x
    <2>1. \A q \in Producers : pc'[q] # "idle" <=> pc[q] # "idle" /\ q # p
      BY DEF PutStep, Busy
    <2>2. pc[p] # "idle"
      BY DEF PutStep, Busy
    <2> QED
      BY <2>1, <2>2 DEF Arriving, PutStep
  <1>2. Queued(x)' = Queued(x) \cup (IF item[p] = x THEN {size + 1} ELSE {})
    <2>1. /\ Contents \in Seq(Items) /\ Len(Contents) = size
          /\ Contents' = Append(Contents, item[p]) /\ size' = size + 1
      BY DEF IsContents, PutStep
    <2>2. /\ \A k \in 1 .. size : Contents'[k] = Contents[k]
          /\ Contents'[size + 1] = item[p]
      BY <1>0, <2>1, AppendProperties
    <2>3. 1 .. size' = (1 .. size) \cup {size + 1}
      BY <1>0, <2>1
    <2> QED
      BY <2>2, <2>3 DEF Queued
  <1>3. InHand(x)' = InHand(x)
    BY <1>0 DEF InHand, PutStep, KeepsPlace, AfterTake
  <1>4. Ended(x)' = Ended(x) /\ Given(x)' = Given(x)
    BY <1>0 DEF Ended, Leaving, Given, Posted
  <1>5. CASE item[p] = x
    <2>1. Cardinality(Arriving(x)') = Cardinality(Arriving(x)) - 1
      BY <1>1, <1>5, FlowFinite, FS_RemoveElement
    <2>2. size + 1 \notin Queued(x)
      BY <1>0 DEF Queued
    <2>3. Cardinality(Queued(x)') = Cardinality(Queued(x)) + 1
      BY <1>0, <1>2, <1>5, <2>2, FlowFinite, FS_AddElement
    <2>4. /\ Cardinality(Arriving(x)) \in Nat /\ Cardinality(Queued(x)) \in Nat
          /\ Cardinality(InHand(x)) \in Nat
      BY <1>0, FlowFinite
    <2>5. Underway(x)' = Underway(x)
      BY <1>3, <2>1, <2>3, <2>4 DEF Underway
    <2> QED
      BY <1>4, <2>5 DEF Flow
  <1>6. CASE item[p] # x
    <2>1. Arriving(x)' = Arriving(x) /\ Queued(x)' = Queued(x)
      BY <1>1, <1>2, <1>6
    <2> QED
      BY <1>3, <1>4, <2>1 DEF Flow, Underway
  <1> QED
    BY <1>5, <1>6

LEMMA TakeFlow ==
    ASSUME PoolBase, IsContents, IsContents', Flow, UNCHANGED poolVars,
           NEW c \in Consumers, TakeStep(c)
    PROVE  Flow'
  <1> USE QueueAssumption
  <1> SUFFICES ASSUME NEW x \in Items PROVE (Underway(x) + Ended(x) = Given(x))'
    BY DEF Flow
  <1>0. /\ UNCHANGED <<running, worker, stage, idx, pushed, done>>
        /\ size \in Nat \ {0} /\ size' = size - 1 /\ worker[c] = "dequeue"
        /\ pc \in [Threads -> EnqueuePCs \cup DequeuePCs] /\ item \in [Threads -> Slots]
    BY DEF poolVars, PoolBase, PoolShape, QueueInv, TypeOK, PoolTypeOK, TakeStep
  <1>1. Arriving(x)' = Arriving(x)
    BY <1>0 DEF Arriving, TakeStep, Threads
  <1>2. Cardinality(Queued(x)') = Cardinality(Queued(x) \ {1})
    BY <1>0, QueuedTail DEF TakeStep
  <1>3. /\ c \notin InHand(x)
        /\ InHand(x)' = InHand(x) \cup (IF Contents[1] = x THEN {c} ELSE {})
    BY <1>0 DEF InHand, TakeStep, Threads
  <1>4. Ended(x)' = Ended(x) /\ Given(x)' = Given(x)
    BY <1>0 DEF Ended, Leaving, Given, Posted
  <1>5. 1 \in Queued(x) <=> Contents[1] = x
    BY <1>0 DEF Queued
  <1>6. CASE Contents[1] = x
    <2>1. Cardinality(Queued(x)') = Cardinality(Queued(x)) - 1
      BY <1>0, <1>2, <1>5, <1>6, FlowFinite, FS_RemoveElement
    <2>2. Cardinality(InHand(x)') = Cardinality(InHand(x)) + 1
      BY <1>3, <1>6, FlowFinite, FS_AddElement
    <2>3. /\ Cardinality(Arriving(x)) \in Nat /\ Cardinality(Queued(x)) \in Nat
          /\ Cardinality(InHand(x)) \in Nat
      BY <1>0, FlowFinite
    <2>4. Underway(x)' = Underway(x)
      BY <1>1, <2>1, <2>2, <2>3 DEF Underway
    <2> QED
      BY <1>4, <2>4 DEF Flow
  <1>7. CASE Contents[1] # x
    <2>1. Queued(x) \ {1} = Queued(x) /\ InHand(x)' = InHand(x)
      BY <1>3, <1>5, <1>7
    <2> QED
      BY <1>1, <1>2, <1>4, <2>1 DEF Flow, Underway
  <1> QED
    BY <1>6, <1>7

-----------------------------------------------------------------------------
(* Every step of the pool preserves NullsLast *)

(* A step that leaves the queue's contents alone and gives no worker a     *)
(* NULL that had none.                                                     *)
LEMMA SameNulls ==
    ASSUME NullsLast, size' = size, Contents' = Contents,
           \A w \in Consumers :
              (w \in Leaving' \/ (Has(w)' /\ item'[w] = NULL)) =>
                  (w \in Leaving \/ (Has(w) /\ item[w] = NULL))
    PROVE  NullsLast'
  BY DEF NullsLast

LEMMA PutNulls ==
    ASSUME PoolBase, IsContents, IsContents', Flow, NullsLast, UNCHANGED poolVars,
           NEW p \in Producers, PutStep(p), item[p] # NULL => stage = "open"
    PROVE  NullsLast'
  <1>0. /\ UNCHANGED <<running, worker, stage, idx, pushed, done>>
        /\ size \in Nat /\ size' = size + 1 /\ item' = item
    BY DEF poolVars, PoolBase, PoolShape, QueueInv, TypeOK, PutStep
  <1>1. /\ \A k \in 1 .. size : Contents'[k] = Contents[k]
        /\ Contents'[size + 1] = item[p]
    <2>1. /\ Contents \in Seq(Items) /\ Len(Contents) = size
          /\ Contents' = Append(Contents, item[p])
      BY DEF IsContents, PutStep
    <2> QED
      BY <1>0, <2>1, AppendProperties
  <1>2. \A w \in Consumers : Has(w)' <=> Has(w)
    BY <1>0 DEF Has, PutStep, KeepsPlace, AfterTake
  <1>3. Leaving' = Leaving
    BY <1>0 DEF Leaving
  <1>4. 1 .. size' = (1 .. size) \cup {size + 1} /\ \A k \in 1 .. size : ~(size + 1 < k)
    BY <1>0
  <1>5. CASE item[p] = NULL
    BY <1>0, <1>1, <1>2, <1>3, <1>4, <1>5 DEF NullsLast
  <1>6. CASE item[p] # NULL
    <2>2. Queued(NULL) = {} /\ InHand(NULL) = {} /\ Leaving = {}
      BY <1>6, NoEarlyNull DEF PoolBase, PoolShape
    <2>3. \A k \in 1 .. size : Contents[k] # NULL
      BY <2>2 DEF Queued
    <2>4. \A w \in Consumers : ~(Has(w) /\ item[w] = NULL)
      BY <2>2, HasInHand
    <2>5. \A k \in 1 .. size' : Contents'[k] # NULL
      BY <1>1, <1>4, <1>6, <2>3
    <2> QED
      BY <1>0, <1>2, <1>3, <2>2, <2>4, <2>5 DEF NullsLast
  <1> QED
    BY <1>5, <1>6

LEMMA TakeNulls ==
    ASSUME PoolBase, IsContents, IsContents', NullsLast, UNCHANGED poolVars,
           NEW c \in Consumers, TakeStep(c)
    PROVE  NullsLast'
  <1> USE QueueAssumption
  <1>0. /\ UNCHANGED <<running, worker, stage, idx, pushed, done>>
        /\ size \in Nat \ {0} /\ size' = size - 1
        /\ pc \in [Threads -> EnqueuePCs \cup DequeuePCs] /\ item \in [Threads -> Slots]
    BY DEF poolVars, PoolBase, PoolShape, QueueInv, TypeOK, TakeStep
  <1>1. \A k \in 1 .. size' : Contents'[k] = Contents[k + 1] /\ k + 1 \in 1 .. size
    <2>1. /\ Contents \in Seq(Items) /\ Len(Contents) = size /\ Contents # <<>>
          /\ Contents' = Tail(Contents)
      BY <1>0, EmptySeq DEF IsContents, TakeStep
    <2> QED
      BY <1>0, <2>1, HeadTailProperties
  <1>2. Leaving' = Leaving
    BY <1>0 DEF Leaving
  <1>3. \A w \in Consumers \ {c} : item'[w] = item[w] /\ (Has(w)' <=> Has(w))
    BY <1>0 DEF Has, TakeStep, Threads
  <1>4. item'[c] = Contents[1] /\ 1 \in 1 .. size
    BY <1>0 DEF TakeStep, Threads
  <1>5. \A j, k \in 1 .. size' : j < k /\ Contents'[j] = NULL => Contents'[k] = NULL
    BY <1>0, <1>1 DEF NullsLast
  <1>6. ASSUME NEW w \in Consumers, w \in Leaving' \/ (Has(w)' /\ item'[w] = NULL),
               NEW k \in 1 .. size'
        PROVE  Contents'[k] = NULL
    <2>1. CASE w # c \/ w \in Leaving
      BY <1>1, <1>2, <1>3, <1>6, <2>1 DEF NullsLast
    <2>2. CASE w = c /\ w \notin Leaving
      <3>1. Contents[1] = NULL /\ 1 < k + 1
        BY <1>2, <1>4, <1>6, <2>2
      <3> QED
        BY <1>1, <1>4, <3>1 DEF NullsLast
    <2> QED
      BY <2>1, <2>2
  <1> QED
    BY <1>5, <1>6 DEF NullsLast

LEMMA QuietNulls ==
    ASSUME NullsLast, UNCHANGED poolVars, QuietStep
    PROVE  NullsLast'
  <1>1. \A w \in Consumers : Has(w)' <=> Has(w)
    BY DEF Has, poolVars, QuietStep, KeepsPlace, AfterTake
  <1> QED
    BY <1>1, SameNulls DEF QuietStep, Leaving, poolVars

LEMMA PoolMoveNulls ==
    ASSUME PoolShape, NullsLast, NEW t, PoolMove(t) PROVE NullsLast'
  <1>1. size' = size /\ Contents' = Contents /\ pc' = pc /\ item' = item
    BY PoolMoves DEF queueVars, Contents
  <1>2. \A w \in Consumers : (Has(w)' <=> Has(w)) /\ (w \in Leaving' <=> w \in Leaving)
    BY <1>1, PoolMoves DEF Has, Leaving
  <1> QED
    BY <1>1, <1>2, SameNulls

LEMMA PoolGivesNulls ==
    ASSUME PoolBase, NullsLast, NEW t \in Producers, NEW x \in Items, safe_queue_enqueue(t, x),
           worker' = worker
    PROVE  NullsLast'
  <1> USE PoolAssumption, QueueAssumption
  <1>1. size' = size /\ Contents' = Contents
    BY DEF safe_queue_enqueue, ring, Contents
  <1>2. \A w \in Consumers : pc'[w] = pc[w] /\ item'[w] = item[w]
    BY DEF safe_queue_enqueue, Goto, PoolBase, PoolShape, QueueInv, TypeOK, Threads
  <1> QED
    BY <1>1, <1>2, SameNulls DEF Has, Leaving

LEMMA WorkerNulls ==
    ASSUME PoolBase, NullsLast, NEW w \in Consumers,
           UNCHANGED <<ring, item, running, stage, idx, pushed>>, WorkerMove(w)
    PROVE  NullsLast'
  <1>1. size' = size /\ Contents' = Contents /\ item' = item
    BY DEF ring, Contents
  <1>2. /\ pc \in [Threads -> EnqueuePCs \cup DequeuePCs] /\ Consumers \subseteq Threads
        /\ worker \in [Consumers -> WorkerStates]
    BY DEF PoolBase, PoolShape, QueueInv, TypeOK, PoolTypeOK, Threads
  <1>3. \A v \in Consumers : v # w => (Has(v)' <=> Has(v)) /\ (v \in Leaving' <=> v \in Leaving)
    BY <1>2 DEF WorkerMove, Has, Leaving
  <1>4. /\ Has(w)' => Has(w)
        /\ w \in Leaving' => w \in Leaving \/ (Has(w) /\ item[w] = NULL)
    BY <1>2 DEF WorkerMove, Has, Leaving
  <1> QED
    BY <1>1, <1>3, <1>4, SameNulls

-----------------------------------------------------------------------------
(* Every step of the pool preserves PoolCore *)

LEMMA InitCore ==
    ASSUME LightLoad, PoolInit PROVE PoolCore
  <1> USE PoolAssumption, QueueAssumption DEF PoolInit
  <1>1. PoolShape /\ LightInv
    BY InitShape, InitLight DEF Init
  <1>2. size = 0 /\ pc = [t \in Threads |-> "idle"] /\ Posted = 0
    BY DEF safe_queue_create, Posted
  <1>3. HandsReal /\ NoNullTask
    BY DEF HandsReal, NoNullTask, Has
  <1>4. Flow
    <2> SUFFICES ASSUME NEW x \in Items PROVE Underway(x) + Ended(x) = Given(x)
      BY DEF Flow
    <2>1. Arriving(x) = {} /\ InHand(x) = {} /\ Leaving = {}
      BY <1>2 DEF Arriving, InHand, Leaving, Threads
    <2>2. Queued(x) = {}
      BY <1>2 DEF Queued
    <2>3. Underway(x) = 0
      BY <2>1, <2>2, FS_EmptySet DEF Underway
    <2>4. Ended(x) = 0 /\ Given(x) = 0
      BY <1>2, <2>1, FS_EmptySet DEF Ended, Given, Tasks
    <2> QED
      BY <2>3, <2>4
  <1>5. NullsLast
    BY <1>2 DEF NullsLast
  <1> QED
    BY <1>1, <1>3, <1>4, <1>5 DEF PoolCore, PoolBase

LEMMA SameCore ==
    ASSUME PoolCore, UNCHANGED vars PROVE PoolCore'
  <1>1. UNCHANGED <<size, data, front, rear, capacity, mutex, cond_var, pc, item, newcap,
                    running, worker, stage, idx, pushed, done>>
    BY DEF vars, queueVars, poolVars
  <1>2. UNCHANGED poolVars /\ QuietStep
    BY <1>1 DEF QuietStep, Contents, Busy, KeepsPlace, poolVars
  <1>3. LightInv'
    BY <1>1 DEF PoolCore, PoolBase, LightInv, NoResize, Backlog, RingConsistent, RealItems,
                ReturnsEnqueued
  <1>4. PoolShape'
    BY <1>1, SameQueueInv DEF vars, PoolCore, PoolBase, PoolShape, PoolTypeOK, QueueInv, FlagTells,
                              LoopsInOrder
  <1> QED
    BY <1>2, <1>3, <1>4, QueueStepBase, QuietFlow, QuietNulls DEF PoolCore

LEMMA PoolMoveCore ==
    ASSUME PoolCore, NEW t, PoolMove(t), LightInv' PROVE PoolCore'
  BY PoolMoveBase, PoolMoveFlow, PoolMoveNulls DEF PoolCore, PoolBase

LEMMA PoolGivesCore ==
    ASSUME LightLoad, PoolCore, NEW t \in Producers, NEW x \in Items, safe_queue_enqueue(t, x),
           PoolGives(x), LightInv'
    PROVE  PoolCore'
  <1>1. worker' = worker
    BY DEF PoolGives
  <1> QED
    BY <1>1, PoolGivesBase, PoolGivesFlow, PoolGivesNulls DEF PoolCore

LEMMA WorkerCore ==
    ASSUME PoolCore, NEW w \in Consumers, WorkerStep(w) \/ worker_return(w), LightInv'
    PROVE  PoolCore'
  BY WorkerMoves, WorkerBase, WorkerFlow, WorkerNulls DEF PoolCore

(* A producer that is inside safe_queue_enqueue with a task goes on only   *)
(* while the pool is open.                                                 *)
LEMMA QueueStepCore ==
    ASSUME LightLoad, PoolCore, QueueStep, LightInv',
           \A p \in Producers : pc'[p] # pc[p] /\ item[p] # NULL => stage = "open"
    PROVE  PoolCore'
  <1> USE DEF PoolCore
  <1>1. PoolShape'
    BY QueueStepShape DEF PoolBase
  <1>2. IsContents /\ IsContents'
    BY <1>1, ContentsSeq, ContentsSeqNext DEF PoolBase, PoolShape
  <1>3. /\ UNCHANGED poolVars
        /\ \/ QuietStep
           \/ \E p \in Producers : PutStep(p)
           \/ \E c \in Consumers : TakeStep(c)
    BY <1>1, QueueStepKinds DEF PoolBase, PoolShape
  <1>4. PoolBase'
    BY <1>1, <1>3, QueueStepBase
  <1>5. CASE QuietStep
    BY <1>3, <1>4, <1>5, QuietFlow, QuietNulls
  <1>6. ASSUME NEW p \in Producers, PutStep(p) PROVE PoolCore'
    <2>1. pc'[p] # pc[p]
      BY <1>6 DEF PutStep, Busy
    <2> QED
      BY <1>2, <1>3, <1>4, <1>6, <2>1, PutFlow, PutNulls
  <1>7. ASSUME NEW c \in Consumers, TakeStep(c) PROVE PoolCore'
    BY <1>2, <1>3, <1>4, <1>7, TakeFlow, TakeNulls
  <1> QED
    BY <1>3, <1>5, <1>6, <1>7

-----------------------------------------------------------------------------
(* The invariant of the pool with one owner *)

LEMMA InitPool ==
    ASSUME LightLoad, PoolInit PROVE PoolInv
  <1>1. OwnerEnqueues
    BY DEF PoolInit, safe_queue_create, OwnerEnqueues, Threads
  <1> QED
    BY <1>1, InitCore DEF PoolInv

LEMMA NextPool ==
    ASSUME LightLoad, PoolInv, [PoolNext]_vars, (Backlog <= MaxBacklog)' PROVE PoolInv'
  <1> USE PoolAssumption DEF PoolInv
  <1>1. LightInv'
    BY StepOfQueue, NextLight DEF PoolCore, PoolBase, PoolShape
  <1>2. /\ pc \in [Threads -> EnqueuePCs \cup DequeuePCs] /\ item \in [Threads -> Slots]
        /\ Producers \subseteq Threads /\ Producers \cap Consumers = {}
    BY QueueAssumption DEF PoolCore, PoolBase, PoolShape, QueueInv, TypeOK, Threads
  <1>3. CASE UNCHANGED vars
    <2>1. UNCHANGED <<pc, item, stage>>
      BY <1>3 DEF vars, queueVars, poolVars
    <2> QED
      BY <1>3, <2>1, SameCore DEF OwnerEnqueues
  <1>4. ASSUME PoolMove(Owner), thread_pool_destroy => pc[Owner] = "idle" PROVE PoolInv'
    <2>1. pc' = pc /\ item' = item
      BY <1>4, PoolMoves DEF PoolCore, PoolBase, queueVars
    <2>2. OwnerEnqueues'
      BY <1>4, <2>1 DEF OwnerEnqueues, PoolMove, thread_pool_create, thread_pool_destroy,
                        destroy_post, destroy_join, safe_queue_destroy
    <2> QED
      BY <1>1, <1>4, <2>2, PoolMoveCore
  <1>5. ASSUME NEW x \in Items, safe_queue_enqueue(Owner, x), PoolGives(x) PROVE PoolInv'
    <2>1. OwnerEnqueues'
      BY <1>2, <1>5 DEF OwnerEnqueues, safe_queue_enqueue, Goto, PoolGives
    <2> QED
      BY <1>1, <1>5, <2>1, PoolGivesCore
  <1>6. CASE thread_pool_create \/ destroy_join \/ safe_queue_destroy
    <2>1. ~thread_pool_destroy
      BY <1>6 DEF thread_pool_create, destroy_join, safe_queue_destroy, thread_pool_destroy
    <2> QED
      BY <1>4, <1>6, <2>1 DEF PoolMove
  <1>7. CASE OwnerCalls
    <2>1. CASE thread_pool_destroy
      BY <1>4, <1>7, <2>1 DEF OwnerCalls, PoolMove
    <2>2. ASSUME NEW x \in Tasks \ pushed, thread_pool_push(Owner, x) PROVE PoolInv'
      <3>1. running /\ stage = "open"
        BY <1>7 DEF OwnerCalls, PoolCore, PoolBase, PoolShape, FlagTells
      <3> QED
        BY <1>5, <2>2, <3>1 DEF thread_pool_push, Tasks, PoolGives
    <2> QED
      BY <1>7, <2>1, <2>2 DEF OwnerCalls
  <1>8. CASE destroy_post(Owner)
    <2>1. CASE InLoop
      BY <1>5, <1>8, <2>1 DEF destroy_post, InLoop, PoolGives
    <2>2. CASE ~InLoop
      BY <1>4, <1>8, <2>2 DEF destroy_post, PoolMove
    <2> QED
      BY <2>1, <2>2
  <1>9. ASSUME NEW w \in Consumers, WorkerStep(w) \/ worker_return(w) PROVE PoolInv'
    <2>1. /\ item' = item /\ stage' = stage
          /\ \A p \in Producers : pc'[p] = pc[p]
      BY <1>2, <1>9 DEF WorkerStep, worker_dequeue, worker_test, worker_exit, worker_return,
                        safe_queue_dequeue, Goto, queueVars
    <2> QED
      BY <1>1, <1>9, <2>1, WorkerCore DEF OwnerEnqueues
  <1>10. CASE QueueStep
    <2>1. PoolCore'
      BY <1>1, <1>10, QueueStepCore, QueueStepProducers DEF OwnerEnqueues, PoolCore, PoolBase, PoolShape
    <2>2. OwnerEnqueues'
      BY <1>10, QueueStepProducers DEF OwnerEnqueues, PoolCore, PoolBase, PoolShape, QueueStep, poolVars
    <2> QED
      BY <2>1, <2>2
  <1> QED
    BY <1>3, <1>6, <1>7, <1>8, <1>9, <1>10 DEF PoolNext, PoolGone, DestroyStep

(* The pool keeps its invariant, for any number of workers and of tasks.   *)
THEOREM PoolInvariant ==
    ASSUME LightLoad PROVE LightPool => []PoolInv
  <1>1. PoolInit => PoolInv
    BY InitPool
  <1>2. PoolInv /\ [PoolNext]_vars /\ (Backlog <= MaxBacklog)' => PoolInv'
    BY NextPool
  <1> QED
    BY <1>1, <1>2, PTL DEF LightPool, PoolSpec

(* pool.c uses queue.c as the specification of the queue allows: one       *)
(* operation per thread at a time, producers only enqueue, workers only    *)
(* dequeue, and never more than MaxBacklog items are on their way or in    *)
(* the queue.                                                              *)
THEOREM PoolUsesQueue ==
    ASSUME LightLoad PROVE LightPool => Spec
  <1>1. PoolInit => Init
    BY DEF PoolInit, Init
  <1>2. PoolInv /\ [PoolNext]_vars /\ (Backlog <= MaxBacklog)' => [Next]_queueVars
    BY StepOfQueue DEF PoolInv, PoolCore, PoolBase
  <1> QED
    BY <1>1, <1>2, PoolInvariant, PTL DEF LightPool, PoolSpec, Spec

(* What the workers of pool.c see of queue.c is the queue that queue.h     *)
(* promises: first in, first out.                                          *)
THEOREM PoolFifo ==
    ASSUME LightLoad PROVE LightPool => Fifo
  BY PoolUsesQueue, LightFifo, PTL

(* pool->worker is never called with a NULL: thread_pool_worker tests for  *)
(* NULL and for the flag together, and the flag is cleared before the      *)
(* first NULL goes into the queue.                                         *)
THEOREM WorkersGetTasks ==
    ASSUME LightLoad PROVE LightPool => []NoNullTask
  BY PoolInvariant, PTL DEF PoolInv, PoolCore, PoolBase

(* A task given to thread_pool_push is never lost and never done twice,    *)
(* however the workers interleave and whenever the pool is destroyed.      *)
THEOREM TasksAccounted ==
    ASSUME LightLoad PROVE LightPool => []TaskAccounted
  <1>1. PoolInv => TaskAccounted
    <2> SUFFICES ASSUME PoolInv, NEW x \in pushed PROVE Underway(x) + done[x] = 1
      BY DEF TaskAccounted
    <2>1. x \in Items /\ x # NULL
      BY DEF PoolInv, PoolCore, PoolBase, PoolShape, PoolTypeOK, Tasks
    <2> QED
      BY <2>1 DEF PoolInv, PoolCore, Flow, Ended, Given
  <1> QED
    BY <1>1, PoolInvariant, PTL

(* Each NULL of thread_pool_destroy ends exactly one worker: no worker     *)
(* takes two, and none is taken by the callback.                           *)
THEOREM PillsAccounted ==
    ASSUME LightLoad PROVE LightPool => []PillPerWorker
  <1>1. PoolInv => PillPerWorker
    <2> SUFFICES ASSUME PoolInv, stage \in {"posting", "joining"}
                 PROVE  Underway(NULL) + Cardinality(Leaving)
                            = IF stage = "posting" THEN idx ELSE PoolSize
      BY DEF PillPerWorker, Leaving
    <2>1. Underway(NULL) + Cardinality(Leaving) = Posted
      BY PoolAssumption DEF PoolInv, PoolCore, Flow, Ended, Given
    <2> QED
      BY <2>1 DEF Posted
  <1> QED
    BY <1>1, PoolInvariant, PTL

(* When thread_pool_destroy frees the pool every worker has returned from  *)
(* thread_pool_worker and every task ever pushed has been done: the NULLs  *)
(* are behind the tasks, so the last worker to leave left no task behind.  *)
THEOREM FreedPoolIsQuiet ==
    ASSUME LightLoad PROVE LightPool => []FreedIsQuiet
  <1>1. PoolInv => FreedIsQuiet
    <2> SUFFICES ASSUME PoolInv, stage = "freed"
                 PROVE  /\ \A w \in Consumers : worker[w] = "exited"
                        /\ \A x \in pushed : done[x] = 1
      BY DEF FreedIsQuiet
    <2>1. \A w \in Consumers : worker[w] = "exited"
      BY DEF PoolInv, PoolCore, PoolBase, PoolShape, LoopsInOrder
    <2>2. 0 \in Consumers /\ 0 \in Leaving
      <3>1. 0 \in Consumers
        BY PoolAssumption, QueueAssumption, FS_CardinalityType DEF PoolSize
      <3> QED
        BY <2>1, <3>1 DEF Leaving
    <2> SUFFICES ASSUME NEW x \in pushed PROVE done[x] = 1
      BY <2>1
    <2>3. x \in Tasks /\ done[x] \in Nat
      BY DEF PoolInv, PoolCore, PoolBase, PoolShape, PoolTypeOK
    <2>4. Arriving(x) = {}
      BY <2>3 DEF PoolInv, OwnerEnqueues, Arriving
    <2>5. Queued(x) = {}
      BY <2>2, <2>3 DEF PoolInv, PoolCore, NullsLast, Queued, Tasks
    <2>6. InHand(x) = {}
      BY <2>1 DEF InHand
    <2>7. Underway(x) = 0
      BY <2>4, <2>5, <2>6, FS_EmptySet DEF Underway
    <2>8. Underway(x) + done[x] = 1
      BY <2>3 DEF PoolInv, PoolCore, Flow, Ended, Given, Tasks
    <2> QED
      BY <2>3, <2>7, <2>8
  <1> QED
    BY <1>1, PoolInvariant, PTL
=============================================================================
