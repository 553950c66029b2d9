----------------------------- MODULE SafeQueue -----------------------------
(***************************************************************************)
(* The queue of src/src/queue.c: a ring buffer behind one mutex and one    *)
(* condition variable.                                                     *)
(*                                                                         *)
(* A thread runs one operation at a time; pc[t] says where it is in it.    *)
(* Every pthread call that can block, and every read or write made outside *)
(* the mutex, is a step of its own:                                        *)
(*                                                                         *)
(*   safe_queue_enqueue   the unlocked test size = capacity (line 37)      *)
(*   enqueue_grow         the unlocked read of capacity * 2 (line 38)      *)
(*     resize_lock        safe_queue_resize waits for the mutex            *)
(*     safe_queue_resize  the copy into the new array, and the unlock      *)
(*   enqueue_lock         waits for the mutex (line 41)                    *)
(*   enqueue_write        stores the item in the array                     *)
(*   enqueue_advance      moves rear, counts, signals and unlocks          *)
(*                                                                         *)
(*   safe_queue_dequeue   the call                                         *)
(*   dequeue_lock         waits for the mutex (first time, or after a wait)*)
(*   dequeue_wait         the queue is empty: unlock and sleep             *)
(*   dequeue_take         takes the front item, decides whether to shrink  *)
(*     resize_lock        safe_queue_resize locks the mutex again          *)
(*   dequeue_return       unlocks and returns the item                     *)
(*                                                                         *)
(* The mutex is initialised with default attributes: in glibc and musl, a  *)
(* thread that locks it while holding it waits for ever, which is what the *)
(* guard of resize_lock says.                                              *)
(*                                                                         *)
(* A definition named after an action with a suffix (enqueue_lock_without_ *)
(* mutex) is that action with a slip in it; it is used by no specification *)
(* and is there to show which property such a slip would break.            *)
(***************************************************************************)
EXTENDS Integers, FiniteSets

CONSTANTS Producers,        \* threads that enqueue
          Consumers,        \* threads that dequeue
          Items,            \* the pointers that are enqueued
          InitialCapacity,  \* INITIAL_CAPACITY (128 in the code)
          NoThread,         \* "the mutex is free"
          Uninit,           \* what malloc leaves in a slot nobody has written
          MaxBacklog        \* bound: the items in the queue or on their way in

Threads == Producers \cup Consumers

ASSUME QueueAssumption ==
    /\ IsFiniteSet(Producers)
    /\ IsFiniteSet(Consumers)
    /\ Producers \cap Consumers = {}
    /\ NoThread \notin Threads
    /\ Uninit \notin Items
    /\ InitialCapacity \in Nat \ {0}
    /\ MaxBacklog \in Nat

VARIABLES data,      \* the array: 0 .. capacity - 1
          size,      \* items in the queue
          capacity,  \* length of the array
          front,     \* index of the oldest item
          rear,      \* index of the next free slot
          mutex,     \* the thread that holds the mutex, or NoThread
          cond_var,  \* the threads asleep in pthread_cond_wait
          pc,        \* pc[t]: where thread t is in its operation
          item,      \* item[t]: the argument of enqueue, the result of dequeue
          newcap     \* newcap[t]: the argument of safe_queue_resize

ring      == <<data, size, capacity, front, rear>>
queueVars == <<data, size, capacity, front, rear, mutex, cond_var, pc, item, newcap>>

Slots == Items \cup {Uninit}

EnqueuePCs == {"idle", "enq_grow", "enq_resize", "enq_copy", "enq_lock", "enq_write",
               "enq_advance"}
DequeuePCs == {"idle", "deq_lock", "deq_wait", "deq_test", "deq_resize", "deq_copy",
               "deq_return"}

Goto(t, label) == pc' = [pc EXCEPT ![t] = label]

(* safe_queue_create *)
safe_queue_create ==
    /\ data = [i \in 0 .. InitialCapacity - 1 |-> Uninit]
    /\ size = 0
    /\ capacity = InitialCapacity
    /\ front = 0
    /\ rear = 0
    /\ mutex = NoThread
    /\ cond_var = {}
    /\ pc = [t \in Threads |-> "idle"]
    /\ item = [t \in Threads |-> Uninit]
    /\ newcap = [t \in Threads |-> 0]

-----------------------------------------------------------------------------
(* safe_queue_resize *)

resize_lock(t) ==
    /\ pc[t] \in {"enq_resize", "deq_resize"}
    /\ mutex = NoThread
    /\ mutex' = t
    /\ Goto(t, IF pc[t] = "enq_resize" THEN "enq_copy" ELSE "deq_copy")
    /\ UNCHANGED <<ring, cond_var, item, newcap>>

(* The copy loop runs from front until it meets rear, so it copies as many *)
(* items as rear is ahead of front; that is none when the array is full.   *)
Copied_one_less ==
    LET n == (rear + capacity - front) % capacity
    IN  IF n = 0 THEN 0 ELSE n - 1

Copied == (rear + capacity - front) % capacity

safe_queue_resize(t) ==
    /\ pc[t] \in {"enq_copy", "deq_copy"}
    /\ data' = [j \in 0 .. newcap[t] - 1 |->
                  IF j < Copied THEN data[(front + j) % capacity] ELSE Uninit]
    /\ front' = 0
    /\ rear' = size
    /\ capacity' = newcap[t]
    /\ mutex' = NoThread
    /\ Goto(t, IF pc[t] = "enq_copy" THEN "enq_lock" ELSE "deq_return")
    /\ UNCHANGED <<size, cond_var, item, newcap>>

-----------------------------------------------------------------------------
(* safe_queue_enqueue *)

(* size and capacity are read without the mutex.  Reading them one after   *)
(* the other gives no other outcome: if a resize replaces the array in     *)
(* between, the old size is not the new capacity.                          *)
safe_queue_enqueue_no_growth(t, x) ==
    /\ pc[t] = "idle"
    /\ item' = [item EXCEPT ![t] = x]
    /\ Goto(t, "enq_lock")
    /\ UNCHANGED <<ring, mutex, cond_var, newcap>>

safe_queue_enqueue(t, x) ==
    /\ pc[t] = "idle"
    /\ item' = [item EXCEPT ![t] = x]
    /\ Goto(t, IF size = capacity THEN "enq_grow" ELSE "enq_lock")
    /\ UNCHANGED <<ring, mutex, cond_var, newcap>>

enqueue_grow(t) ==
    /\ pc[t] = "enq_grow"
    /\ newcap' = [newcap EXCEPT ![t] = 2 * capacity]
    /\ Goto(t, "enq_resize")
    /\ UNCHANGED <<ring, mutex, cond_var, item>>

enqueue_lock_without_mutex(t) ==
    /\ pc[t] = "enq_lock"
    /\ Goto(t, "enq_write")
    /\ UNCHANGED <<ring, mutex, cond_var, item, newcap>>

enqueue_lock(t) ==
    /\ pc[t] = "enq_lock"
    /\ mutex = NoThread
    /\ mutex' = t
    /\ Goto(t, "enq_write")
    /\ UNCHANGED <<ring, cond_var, item, newcap>>

(* queue->data[queue->rear] = item *)
enqueue_write(t) ==
    /\ pc[t] = "enq_write"
    /\ data' = [data EXCEPT ![rear] = item[t]]
    /\ Goto(t, "enq_advance")
    /\ UNCHANGED <<size, capacity, front, rear, mutex, cond_var, item, newcap>>

(* pthread_cond_signal wakes one sleeper, if there is one; it then has to  *)
(* get the mutex back.                                                     *)
pthread_cond_signal_forgotten(t) ==
    /\ UNCHANGED cond_var
    /\ Goto(t, "idle")

pthread_cond_signal(t) ==
    \/ /\ cond_var = {}
       /\ UNCHANGED cond_var
       /\ Goto(t, "idle")
    \/ \E c \in cond_var :
          /\ cond_var' = cond_var \ {c}
          /\ pc' = [pc EXCEPT ![t] = "idle", ![c] = "deq_lock"]

enqueue_advance(t) ==
    /\ pc[t] = "enq_advance"
    /\ rear' = (rear + 1) % capacity
    /\ size' = size + 1
    /\ pthread_cond_signal(t)
    /\ mutex' = NoThread
    /\ UNCHANGED <<data, capacity, front, item, newcap>>

-----------------------------------------------------------------------------
(* safe_queue_dequeue *)

safe_queue_dequeue(t) ==
    /\ pc[t] = "idle"
    /\ Goto(t, "deq_lock")
    /\ UNCHANGED <<ring, mutex, cond_var, item, newcap>>

dequeue_lock(t) ==
    /\ pc[t] = "deq_lock"
    /\ mutex = NoThread
    /\ mutex' = t
    /\ Goto(t, "deq_test")
    /\ UNCHANGED <<ring, cond_var, item, newcap>>

dequeue_wait(t) ==
    /\ pc[t] = "deq_test"
    /\ size = 0
    /\ mutex' = NoThread
    /\ cond_var' = cond_var \cup {t}
    /\ Goto(t, "deq_wait")
    /\ UNCHANGED <<ring, item, newcap>>

(* POSIX lets pthread_cond_wait return without a signal. *)
spurious_wakeup(t) ==
    /\ t \in cond_var
    /\ cond_var' = cond_var \ {t}
    /\ Goto(t, "deq_lock")
    /\ UNCHANGED <<ring, mutex, item, newcap>>

Shrinks(n) == n > 0 /\ n = capacity \div 4

dequeue_take_unchecked(t) ==
    /\ pc[t] = "deq_test"
    /\ item' = [item EXCEPT ![t] = data[front]]
    /\ front' = (front + 1) % capacity
    /\ size' = size - 1
    /\ Goto(t, "deq_return")
    /\ UNCHANGED <<data, capacity, rear, mutex, cond_var, newcap>>

dequeue_take(t) ==
    /\ pc[t] = "deq_test"
    /\ size # 0
    /\ item' = [item EXCEPT ![t] = data[front]]
    /\ front' = (front + 1) % capacity
    /\ size' = size - 1
    /\ IF Shrinks(size - 1)
       THEN /\ newcap' = [newcap EXCEPT ![t] = capacity \div 2]
            /\ Goto(t, "deq_resize")
       ELSE /\ UNCHANGED newcap
            /\ Goto(t, "deq_return")
    /\ UNCHANGED <<data, capacity, rear, mutex, cond_var>>

dequeue_return(t) ==
    /\ pc[t] = "deq_return"
    /\ mutex' = NoThread
    /\ Goto(t, "idle")
    /\ UNCHANGED <<ring, cond_var, item, newcap>>

-----------------------------------------------------------------------------
(* The queue on its own: every producer enqueues again and again, every    *)
(* consumer dequeues again and again.                                      *)

ResizeStep(t) ==
    \/ resize_lock(t)
    \/ safe_queue_resize(t)

EnqueueStep(t) ==
    \/ enqueue_grow(t)
    \/ enqueue_lock(t)
    \/ enqueue_write(t)
    \/ enqueue_advance(t)

DequeueStep(t) ==
    \/ dequeue_lock(t)
    \/ dequeue_wait(t)
    \/ spurious_wakeup(t)
    \/ dequeue_take(t)
    \/ dequeue_return(t)

(* The items in the queue and the ones a producer is about to put there. *)
Backlog == size + Cardinality({p \in Producers : pc[p] # "idle"})

Init == safe_queue_create

Next ==
    \/ \E p \in Producers :
          \/ Backlog < MaxBacklog /\ \E x \in Items : safe_queue_enqueue(p, x)
          \/ EnqueueStep(p)
    \/ \E c \in Consumers :
          \/ safe_queue_dequeue(c)
          \/ DequeueStep(c)
    \/ \E t \in Threads : ResizeStep(t)

Spec == Init /\ [][Next]_queueVars

(* Fairness: a thread that can take a step takes it, and one that waits for *)
(* a mutex that is freed again and again gets it.  A consumer that has      *)
(* finished with an item asks for the next one (the loop of pool.c).        *)
QueueFairness ==
    /\ \A p \in Producers :
          /\ WF_queueVars(enqueue_grow(p) \/ safe_queue_resize(p))
          /\ WF_queueVars(enqueue_write(p) \/ enqueue_advance(p))
          /\ SF_queueVars(resize_lock(p) \/ enqueue_lock(p))
    /\ \A c \in Consumers :
          /\ WF_queueVars(safe_queue_dequeue(c) \/ safe_queue_resize(c))
          /\ WF_queueVars(dequeue_wait(c) \/ dequeue_take(c) \/ dequeue_return(c))
          /\ SF_queueVars(resize_lock(c) \/ dequeue_lock(c))

FairSpec == Spec /\ QueueFairness

-----------------------------------------------------------------------------
(* Properties *)

(* Every variable has its type; a producer is only ever inside             *)
(* safe_queue_enqueue and a consumer inside safe_queue_dequeue.            *)
TypeOK ==
    /\ capacity \in Nat \ {0}
    /\ data \in [0 .. capacity - 1 -> Slots]
    /\ size \in Nat
    /\ front \in 0 .. capacity - 1
    /\ rear \in Nat
    /\ mutex \in Threads \cup {NoThread}
    /\ cond_var \in SUBSET Consumers
    /\ pc \in [Threads -> EnqueuePCs \cup DequeuePCs]
    /\ \A p \in Producers : pc[p] \in EnqueuePCs
    /\ \A c \in Consumers : pc[c] \in DequeuePCs
    /\ item \in [Threads -> Slots]
    /\ newcap \in [Threads -> Nat]

(* The labels at which a thread is between pthread_mutex_lock and          *)
(* pthread_mutex_unlock of the queue.                                      *)
Holding == {"enq_copy", "enq_write", "enq_advance",
            "deq_test", "deq_resize", "deq_copy", "deq_return"}

(* The mutex is held by exactly the thread that is inside a critical       *)
(* section of queue.c: no operation leaves it locked behind itself, none   *)
(* (pthread_cond_wait included) runs its critical section without it.      *)
LockDiscipline ==
    \A t \in Threads : mutex = t <=> pc[t] \in Holding

(* front, rear, size and capacity agree: the array never holds more than   *)
(* its capacity, and rear is size slots after front.  enqueue tests for    *)
(* room before it takes the mutex and a resize may run in between, so this *)
(* is about the order of steps of several threads.                         *)
RingConsistent ==
    /\ size <= capacity
    /\ rear = (front + size) % capacity

(* The queue's contents, the oldest first. *)
Contents == [i \in 1 .. size |-> data[(front + i - 1) % capacity]]

(* What a resize of a full array loses is the oldest part of the contents: *)
(* an item that was put in behind an intact one is intact, and before the  *)
(* first growth (safe_queue_resize from line 38) nothing is lost.          *)
LossIsOldest ==
    \A i \in 1 .. size :
        Contents[i] = Uninit => /\ capacity > InitialCapacity
                               /\ \A j \in 1 .. i : Contents[j] = Uninit

(* The consumers that are awake inside safe_queue_dequeue and will look at *)
(* the queue before they return or sleep.                                  *)
Looking == {c \in Consumers : pc[c] \in {"deq_lock", "deq_test"}}

(* No wakeup is lost: while a consumer sleeps in pthread_cond_wait, every  *)
(* item in the queue has an awake consumer coming for it, although         *)
(* consumers that were never asleep compete for the items and              *)
(* pthread_cond_wait may return without a signal.                          *)
NoLostWakeup ==
    cond_var # {} => size <= Cardinality(Looking)

(* The inductive invariant behind TypeOK, LockDiscipline and NoLostWakeup: *)
(* the sleepers are the threads inside pthread_cond_wait, and an array is  *)
(* never replaced by an empty one.  No shrink gets past its second lock of *)
(* the mutex, which is why only a growth can replace the array.            *)
SleepersWait == cond_var = {c \in Consumers : pc[c] = "deq_wait"}

ResizesToSome ==
    \A t \in Threads :
        pc[t] \in {"enq_resize", "enq_copy", "deq_resize", "deq_copy"} => newcap[t] > 0

NeverShrinks == \A t \in Threads : pc[t] # "deq_copy"

QueueInv ==
    /\ TypeOK
    /\ NeverShrinks
    /\ LockDiscipline
    /\ SleepersWait
    /\ ResizesToSome
    /\ NoLostWakeup

(* queue.c implements the queue that queue.h promises: items come out once *)
(* each and in the order they went in.                                     *)
Abstract == INSTANCE FifoQueue
                WITH Nothing <- Uninit,
                     q <- Contents,
                     got <- [c \in Consumers |-> item[c]]

Fifo == Abstract!Spec

(* safe_queue_dequeue blocks only while the queue is empty: a consumer     *)
(* that holds the mutex and finds an item returns with it.                 *)
DequeueReturns ==
    \A c \in Consumers :
        (pc[c] = "deq_test" /\ size > 0) ~> (pc[c] = "idle")

(* What safe_queue_dequeue returns is an item that was enqueued, never the *)
(* content of a slot nobody has written.                                   *)
ReturnsEnqueued ==
    \A c \in Consumers : pc[c] = "deq_return" => item[c] \in Items

(* The load under which queue.c is a queue: with at most a quarter of the  *)
(* initial capacity in it or on its way in, neither resize is ever called. *)
LightLoad == MaxBacklog <= InitialCapacity \div 4

(* The inductive invariant, on top of QueueInv, under LightLoad. *)
NoResize ==
    /\ capacity = InitialCapacity
    /\ \A t \in Threads :
          pc[t] \notin {"enq_grow", "enq_resize", "enq_copy", "deq_resize", "deq_copy"}

RealItems ==
    /\ \A i \in 0 .. size - 1 : data[(front + i) % capacity] \in Items
    /\ \A p \in Producers :
          /\ pc[p] # "idle" => item[p] \in Items
          /\ pc[p] = "enq_advance" => data[rear] = item[p]

LightInv ==
    /\ NoResize
    /\ Backlog <= MaxBacklog
    /\ RingConsistent
    /\ RealItems
    /\ ReturnsEnqueued
=============================================================================
