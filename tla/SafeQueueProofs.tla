-------------------------- MODULE SafeQueueProofs --------------------------
(***************************************************************************)
(* Theorems about SafeQueue, for any number of producers and consumers,    *)
(* any initial capacity and any bound on the backlog.                      *)
(***************************************************************************)
EXTENDS SafeQueue, FiniteSetTheorems, TLAPS

-----------------------------------------------------------------------------
(* Arithmetic of the ring, and the set of consumers that look at the queue *)

(* x % c for an x that is less than twice around the ring. *)
LEMMA ModOnce ==
    ASSUME NEW c \in Nat \ {0}, NEW x \in 0 .. 2 * c - 1
    PROVE  x % c = IF x < c THEN x ELSE x - c
  OBVIOUS

LEMMA ModRange ==
    ASSUME NEW c \in Nat \ {0}, NEW x \in Nat
    PROVE  x % c \in 0 .. c - 1
  OBVIOUS

LEMMA LookingFinite ==
    IsFiniteSet(Looking) /\ Cardinality(Looking) \in Nat
  <1>1. Looking \subseteq Consumers
    BY DEF Looking
  <1> QED
    BY <1>1, FS_Subset, FS_CardinalityType, QueueAssumption

(* A step that leaves size, the sleepers and the set of consumers that are *)
(* looking alone cannot lose a wakeup.                                     *)
LEMMA SameLooking ==
    ASSUME NoLostWakeup, size' = size, cond_var' = cond_var, Looking' = Looking
    PROVE  NoLostWakeup'
  BY DEF NoLostWakeup

(* A consumer that starts to look for an item covers one more item. *)
LEMMA MoreLooking ==
    ASSUME NEW c \in Consumers, NEW n \in Nat, n <= Cardinality(Looking),
           c \notin Looking, Looking' = Looking \cup {c}
    PROVE  n <= Cardinality(Looking') /\ n + 1 <= Cardinality(Looking')
  <1>1. Cardinality(Looking \cup {c}) = Cardinality(Looking) + 1
    BY LookingFinite, FS_AddElement
  <1> QED
    BY <1>1, LookingFinite

(* A consumer that has taken an item no longer covers one. *)
LEMMA FewerLooking ==
    ASSUME NEW c \in Looking, NEW n \in Nat, n <= Cardinality(Looking),
           Looking' = Looking \ {c}
    PROVE  n - 1 <= Cardinality(Looking')
  <1>1. Cardinality(Looking \ {c}) = Cardinality(Looking) - 1
    BY LookingFinite, FS_RemoveElement
  <1> QED
    BY <1>1, LookingFinite

-----------------------------------------------------------------------------
(* Every step of the queue preserves QueueInv *)

LEMMA InitQueueInv ==
    ASSUME Init PROVE QueueInv
  <1> USE QueueAssumption DEF Init, safe_queue_create
  <1>1. TypeOK
    BY DEF TypeOK, Slots, EnqueuePCs, DequeuePCs, Threads
  <1>2. LockDiscipline
    BY DEF LockDiscipline, Holding, Threads
  <1>3. SleepersWait /\ ResizesToSome /\ NeverShrinks /\ NoLostWakeup
    BY DEF SleepersWait, ResizesToSome, NeverShrinks, NoLostWakeup, Threads
  <1> QED
    BY <1>1, <1>2, <1>3 DEF QueueInv

LEMMA resize_lockInv ==
    ASSUME NEW t \in Threads, QueueInv, resize_lock(t) PROVE QueueInv'
  <1> USE QueueAssumption DEF QueueInv, resize_lock, Goto, ring, Threads, TypeOK
  <1>1. TypeOK'
    BY DEF Slots, EnqueuePCs, DequeuePCs
  <1>2. LockDiscipline'
    BY DEF LockDiscipline, Holding
  <1>3. SleepersWait' /\ ResizesToSome' /\ NeverShrinks'
    BY DEF SleepersWait, ResizesToSome, NeverShrinks, LockDiscipline, Holding
  <1>4. NoLostWakeup'
    BY SameLooking DEF Looking
  <1> QED
    BY <1>1, <1>2, <1>3, <1>4

LEMMA safe_queue_resizeInv ==
    ASSUME NEW t \in Threads, QueueInv, safe_queue_resize(t) PROVE QueueInv'
  <1> USE QueueAssumption DEF QueueInv, Threads, TypeOK
  <1>1. /\ capacity' \in Nat \ {0}
        /\ capacity' = newcap[t]
    BY DEF safe_queue_resize, ResizesToSome
  <1>2. \A j \in Nat : (front + j) % capacity \in 0 .. capacity - 1
    BY ModRange
  <1>3. data' \in [0 .. capacity' - 1 -> Slots]
    BY <1>1, <1>2 DEF safe_queue_resize, Slots
  <1>4. /\ size' = size /\ front' = 0 /\ rear' = size
        /\ cond_var' = cond_var /\ item' = item /\ newcap' = newcap
        /\ mutex' = NoThread
    BY DEF safe_queue_resize
  <1>5. /\ t \in Producers
        /\ pc[t] = "enq_copy"
        /\ pc' = [pc EXCEPT ![t] = "enq_lock"]
    BY DEF safe_queue_resize, Goto, NeverShrinks, DequeuePCs
  <1>6. TypeOK'
    BY <1>1, <1>3, <1>4, <1>5 DEF Slots, EnqueuePCs, DequeuePCs
  <1>7. LockDiscipline'
    BY <1>4, <1>5 DEF LockDiscipline, Holding
  <1>8. SleepersWait' /\ ResizesToSome' /\ NeverShrinks'
    BY <1>4, <1>5 DEF SleepersWait, ResizesToSome, NeverShrinks
  <1>9. NoLostWakeup'
    BY <1>4, <1>5, SameLooking DEF Looking, EnqueuePCs, DequeuePCs
  <1> QED
    BY <1>6, <1>7, <1>8, <1>9

LEMMA safe_queue_enqueueInv ==
    ASSUME NEW t \in Producers, NEW x \in Items, QueueInv, safe_queue_enqueue(t, x) PROVE QueueInv'
  <1> USE QueueAssumption DEF QueueInv, safe_queue_enqueue, Goto, ring, Threads, TypeOK
  <1>1. TypeOK'
    BY DEF Slots, EnqueuePCs, DequeuePCs
  <1>2. LockDiscipline'
    BY DEF LockDiscipline, Holding
  <1>3. SleepersWait' /\ ResizesToSome' /\ NeverShrinks'
    BY DEF SleepersWait, ResizesToSome, NeverShrinks
  <1>4. NoLostWakeup'
    BY SameLooking DEF Looking, EnqueuePCs, DequeuePCs
  <1> QED
    BY <1>1, <1>2, <1>3, <1>4

LEMMA enqueue_growInv ==
    ASSUME NEW t \in Producers, QueueInv, enqueue_grow(t) PROVE QueueInv'
  <1> USE QueueAssumption DEF QueueInv, enqueue_grow, Goto, ring, Threads, TypeOK
  <1>1. TypeOK'
    BY DEF Slots, EnqueuePCs, DequeuePCs
  <1>2. LockDiscipline'
    BY DEF LockDiscipline, Holding
  <1>3. SleepersWait' /\ ResizesToSome' /\ NeverShrinks'
    BY DEF SleepersWait, ResizesToSome, NeverShrinks
  <1>4. NoLostWakeup'
    BY SameLooking DEF Looking, EnqueuePCs, DequeuePCs
  <1> QED
    BY <1>1, <1>2, <1>3, <1>4

LEMMA enqueue_lockInv ==
    ASSUME NEW t \in Producers, QueueInv, enqueue_lock(t) PROVE QueueInv'
  <1> USE QueueAssumption DEF QueueInv, enqueue_lock, Goto, ring, Threads, TypeOK
  <1>1. TypeOK'
    BY DEF Slots, EnqueuePCs, DequeuePCs
  <1>2. LockDiscipline'
    BY DEF LockDiscipline, Holding
  <1>3. SleepersWait' /\ ResizesToSome' /\ NeverShrinks'
    BY DEF SleepersWait, ResizesToSome, NeverShrinks
  <1>4. NoLostWakeup'
    BY SameLooking DEF Looking, EnqueuePCs, DequeuePCs
  <1> QED
    BY <1>1, <1>2, <1>3, <1>4

LEMMA enqueue_writeInv ==
    ASSUME NEW t \in Producers, QueueInv, enqueue_write(t) PROVE QueueInv'
  <1> USE QueueAssumption DEF QueueInv, enqueue_write, Goto, ring, Threads, TypeOK
  <1>1. TypeOK'
    BY DEF Slots, EnqueuePCs, DequeuePCs
  <1>2. LockDiscipline'
    BY DEF LockDiscipline, Holding
  <1>3. SleepersWait' /\ ResizesToSome' /\ NeverShrinks'
    BY DEF SleepersWait, ResizesToSome, NeverShrinks
  <1>4. NoLostWakeup'
    BY SameLooking DEF Looking, EnqueuePCs, DequeuePCs
  <1> QED
    BY <1>1, <1>2, <1>3, <1>4

LEMMA dequeue_lockInv ==
    ASSUME NEW t \in Consumers, QueueInv, dequeue_lock(t) PROVE QueueInv'
  <1> USE QueueAssumption DEF QueueInv, dequeue_lock, Goto, ring, Threads, TypeOK
  <1>1. TypeOK'
    BY DEF Slots, EnqueuePCs, DequeuePCs
  <1>2. LockDiscipline'
    BY DEF LockDiscipline, Holding
  <1>3. SleepersWait' /\ ResizesToSome' /\ NeverShrinks'
    BY DEF SleepersWait, ResizesToSome, NeverShrinks
  <1>4. NoLostWakeup'
    BY SameLooking DEF Looking, EnqueuePCs, DequeuePCs
  <1> QED
    BY <1>1, <1>2, <1>3, <1>4

LEMMA dequeue_returnInv ==
    ASSUME NEW t \in Consumers, QueueInv, dequeue_return(t) PROVE QueueInv'
  <1> USE QueueAssumption DEF QueueInv, dequeue_return, Goto, ring, Threads, TypeOK
  <1>1. TypeOK'
    BY DEF Slots, EnqueuePCs, DequeuePCs
  <1>2. LockDiscipline'
    BY DEF LockDiscipline, Holding
  <1>3. SleepersWait' /\ ResizesToSome' /\ NeverShrinks'
    BY DEF SleepersWait, ResizesToSome, NeverShrinks
  <1>4. NoLostWakeup'
    BY SameLooking DEF Looking, EnqueuePCs, DequeuePCs
  <1> QED
    BY <1>1, <1>2, <1>3, <1>4

LEMMA safe_queue_dequeueInv ==
    ASSUME NEW t \in Consumers, QueueInv, safe_queue_dequeue(t) PROVE QueueInv'
  <1> USE QueueAssumption DEF QueueInv, safe_queue_dequeue, Goto, ring, Threads, TypeOK
  <1>1. TypeOK'
    BY DEF Slots, EnqueuePCs, DequeuePCs
  <1>2. LockDiscipline'
    BY DEF LockDiscipline, Holding, SleepersWait
  <1>3. SleepersWait' /\ ResizesToSome' /\ NeverShrinks'
    BY DEF SleepersWait, ResizesToSome, NeverShrinks
  <1>4. NoLostWakeup'
    <2>1. t \notin Looking /\ Looking' = Looking \cup {t}
      BY DEF Looking, SleepersWait
    <2>2. CASE cond_var = {}
      BY <2>2 DEF NoLostWakeup
    <2>3. CASE cond_var # {}
      BY <2>1, <2>3, MoreLooking DEF NoLostWakeup
    <2> QED
      BY <2>2, <2>3
  <1> QED
    BY <1>1, <1>2, <1>3, <1>4

LEMMA dequeue_waitInv ==
    ASSUME NEW t \in Consumers, QueueInv, dequeue_wait(t) PROVE QueueInv'
  <1> USE QueueAssumption DEF QueueInv, dequeue_wait, Goto, ring, Threads, TypeOK
  <1>1. TypeOK'
    BY DEF Slots, EnqueuePCs, DequeuePCs
  <1>2. LockDiscipline'
    BY DEF LockDiscipline, Holding, SleepersWait
  <1>3. SleepersWait' /\ ResizesToSome' /\ NeverShrinks'
    BY DEF SleepersWait, ResizesToSome, NeverShrinks
  <1>4. NoLostWakeup'
    <2>1. IsFiniteSet(Looking \ {t}) /\ Looking' = Looking \ {t}
      BY LookingFinite, FS_RemoveElement DEF Looking
    <2> QED
      BY <2>1, FS_CardinalityType DEF NoLostWakeup
  <1> QED
    BY <1>1, <1>2, <1>3, <1>4

LEMMA spurious_wakeupInv ==
    ASSUME NEW t \in Consumers, QueueInv, spurious_wakeup(t) PROVE QueueInv'
  <1> USE QueueAssumption DEF QueueInv, spurious_wakeup, Goto, ring, Threads, TypeOK
  <1>1. TypeOK'
    BY DEF Slots, EnqueuePCs, DequeuePCs
  <1>2. LockDiscipline'
    BY DEF LockDiscipline, Holding, SleepersWait
  <1>3. SleepersWait' /\ ResizesToSome' /\ NeverShrinks'
    BY DEF SleepersWait, ResizesToSome, NeverShrinks
  <1>4. NoLostWakeup'
    <2>1. t \notin Looking /\ Looking' = Looking \cup {t}
      BY DEF Looking, SleepersWait
    <2>2. CASE cond_var = {}
      BY <2>2 DEF NoLostWakeup
    <2>3. CASE cond_var # {}
      BY <2>1, <2>3, MoreLooking DEF NoLostWakeup
    <2> QED
      BY <2>2, <2>3
  <1> QED
    BY <1>1, <1>2, <1>3, <1>4

LEMMA dequeue_takeInv ==
    ASSUME NEW t \in Consumers, QueueInv, dequeue_take(t) PROVE QueueInv'
  <1> USE QueueAssumption DEF QueueInv, dequeue_take, Goto, ring, Threads, TypeOK
  <1>0. /\ (front + 1) % capacity \in 0 .. capacity - 1
        /\ Shrinks(size - 1) => capacity \div 2 \in Nat \ {0}
        /\ capacity \div 2 \in Nat
    BY ModRange DEF Shrinks
  <1>1. TypeOK'
    <2>1. /\ capacity' \in Nat \ {0}
          /\ data' \in [0 .. capacity' - 1 -> Slots]
          /\ size' \in Nat
          /\ front' \in 0 .. capacity' - 1
          /\ rear' \in Nat
          /\ mutex' \in Threads \cup {NoThread}
          /\ cond_var' \in SUBSET Consumers
      BY <1>0
    <2>2. item' \in [Threads -> Slots]
      BY <1>0
    <2>3. newcap' \in [Threads -> Nat]
      BY <1>0
    <2>4. /\ pc' \in [Threads -> EnqueuePCs \cup DequeuePCs]
          /\ \A p \in Producers : pc'[p] \in EnqueuePCs
          /\ \A c \in Consumers : pc'[c] \in DequeuePCs
      BY DEF EnqueuePCs, DequeuePCs
    <2> QED
      BY <2>1, <2>2, <2>3, <2>4
  <1>2. LockDiscipline'
    BY DEF LockDiscipline, Holding, SleepersWait
  <1>3. SleepersWait' /\ ResizesToSome' /\ NeverShrinks'
    BY <1>0 DEF SleepersWait, ResizesToSome, NeverShrinks
  <1>4. NoLostWakeup'
    <2>1. t \in Looking /\ Looking' = Looking \ {t}
      BY DEF Looking
    <2>2. cond_var # {} => size - 1 <= Cardinality(Looking')
      BY <2>1, FewerLooking DEF NoLostWakeup
    <2> QED
      BY <2>2 DEF NoLostWakeup
  <1> QED
    BY <1>1, <1>2, <1>3, <1>4

(* The signal of enqueue_advance wakes a sleeper, if there is one, for the *)
(* item it has added; no other step adds an item.                          *)
LEMMA enqueue_advanceInv ==
    ASSUME NEW t \in Producers, QueueInv, enqueue_advance(t) PROVE QueueInv'
  <1> USE QueueAssumption DEF QueueInv, Threads, TypeOK
  <1>1. /\ pc[t] = "enq_advance" /\ mutex' = NoThread
        /\ data' = data /\ capacity' = capacity /\ front' = front
        /\ item' = item /\ newcap' = newcap
        /\ size' = size + 1
        /\ rear' = (rear + 1) % capacity
        /\ rear' \in Nat
    BY ModRange DEF enqueue_advance
  <1>2. CASE cond_var = {} /\ cond_var' = cond_var /\ Goto(t, "idle")
    <2>1. TypeOK'
      BY <1>1, <1>2 DEF Slots, EnqueuePCs, DequeuePCs, Goto
    <2>2. LockDiscipline'
      BY <1>1, <1>2 DEF LockDiscipline, Holding, Goto
    <2>3. SleepersWait' /\ ResizesToSome' /\ NeverShrinks'
      BY <1>1, <1>2 DEF SleepersWait, ResizesToSome, NeverShrinks, Goto
    <2> QED
      BY <1>2, <2>1, <2>2, <2>3 DEF NoLostWakeup
  <1>3. ASSUME NEW c \in cond_var,
               cond_var' = cond_var \ {c},
               pc' = [pc EXCEPT ![t] = "idle", ![c] = "deq_lock"]
        PROVE  QueueInv'
    <2>0. c \in Consumers /\ pc[c] = "deq_wait" /\ c # t
      BY <1>1, <1>3 DEF SleepersWait
    <2>1. TypeOK'
      BY <1>1, <1>3, <2>0 DEF Slots, EnqueuePCs, DequeuePCs
    <2>2. LockDiscipline'
      BY <1>1, <1>3, <2>0 DEF LockDiscipline, Holding
    <2>3. SleepersWait' /\ ResizesToSome' /\ NeverShrinks'
      BY <1>1, <1>3, <2>0 DEF SleepersWait, ResizesToSome, NeverShrinks
    <2>4. c \notin Looking /\ Looking' = Looking \cup {c}
      BY <1>1, <1>3, <2>0 DEF Looking
    <2>5. NoLostWakeup'
      BY <1>1, <1>3, <2>0, <2>4, MoreLooking DEF NoLostWakeup
    <2> QED
      BY <2>1, <2>2, <2>3, <2>5
  <1> QED
    BY <1>2, <1>3 DEF enqueue_advance, pthread_cond_signal

LEMMA NextQueueInv ==
    ASSUME QueueInv, [Next]_queueVars PROVE QueueInv'
  <1>1. CASE UNCHANGED queueVars
    BY <1>1 DEF QueueInv, queueVars, TypeOK, LockDiscipline, SleepersWait,
                ResizesToSome, NeverShrinks, NoLostWakeup, Looking
  <1>2. ASSUME NEW p \in Producers, NEW x \in Items, safe_queue_enqueue(p, x)
        PROVE  QueueInv'
    BY <1>2, safe_queue_enqueueInv
  <1>3. ASSUME NEW p \in Producers, EnqueueStep(p)
        PROVE  QueueInv'
    BY <1>3, enqueue_growInv, enqueue_lockInv, enqueue_writeInv, enqueue_advanceInv
       DEF EnqueueStep
  <1>4. ASSUME NEW c \in Consumers, safe_queue_dequeue(c) \/ DequeueStep(c)
        PROVE  QueueInv'
    BY <1>4, safe_queue_dequeueInv, dequeue_lockInv, dequeue_waitInv,
       spurious_wakeupInv, dequeue_takeInv, dequeue_returnInv
       DEF DequeueStep
  <1>5. ASSUME NEW t \in Threads, ResizeStep(t)
        PROVE  QueueInv'
    BY <1>5, resize_lockInv, safe_queue_resizeInv DEF ResizeStep
  <1> QED
    BY <1>1, <1>2, <1>3, <1>4, <1>5 DEF Next

(* QueueInv holds in every reachable state, whatever the number of threads *)
(* and however full the queue gets.                                        *)
THEOREM QueueInvariant == Spec => []QueueInv
  <1>1. Init => QueueInv
    BY InitQueueInv
  <1>2. QueueInv /\ [Next]_queueVars => QueueInv'
    BY NextQueueInv
  <1> QED
    BY <1>1, <1>2, PTL DEF Spec

(* The variables of queue.c keep their types: in particular every index    *)
(* that dequeue reads is inside the array, across every growth.            *)
THEOREM TypeCorrect == Spec => []TypeOK
  BY QueueInvariant, PTL DEF QueueInv

(* The mutex of queue.c is held by exactly the thread in a critical        *)
(* section.                                                                *)
THEOREM LockCorrect == Spec => []LockDiscipline
  BY QueueInvariant, PTL DEF QueueInv

(* pthread_cond_signal, once per enqueue, is enough: no consumer sleeps    *)
(* while there is an item that no awake consumer is coming for.            *)
THEOREM WakeupsKept == Spec => []NoLostWakeup
  BY QueueInvariant, PTL DEF QueueInv

-----------------------------------------------------------------------------
(* Under LightLoad no array is ever replaced, and queue.c is a FIFO queue *)

(* The slots of the ring: i slots after front, for i up to once around. *)
LEMMA RingSlots ==
    ASSUME NEW c \in Nat \ {0}, NEW f \in 0 .. c - 1
    PROVE  /\ \A i \in 0 .. c - 1 : (f + i) % c \in 0 .. c - 1
           /\ \A i, j \in 0 .. c - 1 : i # j => (f + i) % c # (f + j) % c
           /\ \A i \in 0 .. c - 1 : (((f + i) % c) + 1) % c = (f + i + 1) % c
           /\ \A i \in 0 .. c - 1 : (((f + 1) % c) + i) % c = (f + (i + 1)) % c
           /\ f % c = f
  <1>1. \A x \in 0 .. 2 * c - 1 : x % c = IF x < c THEN x ELSE x - c
    BY ModOnce
  <1>2. \A i \in 0 .. c - 1 : (f + i) % c \in 0 .. c - 1
    BY ModRange
  <1>3. ASSUME NEW i \in 0 .. c - 1, NEW j \in 0 .. c - 1, i # j
        PROVE  (f + i) % c # (f + j) % c
    <2>1. f + i \in 0 .. 2 * c - 1 /\ f + j \in 0 .. 2 * c - 1
      OBVIOUS
    <2> QED
      BY <1>1, <1>3, <2>1
  <1>4. ASSUME NEW i \in 0 .. c - 1
        PROVE  (((f + i) % c) + 1) % c = (f + i + 1) % c
    <2>1. f + i \in 0 .. 2 * c - 1 /\ f + i + 1 \in 0 .. 2 * c - 1
      OBVIOUS
    <2>2. (f + i) % c = IF f + i < c THEN f + i ELSE f + i - c
      BY <1>1, <2>1
    <2>3. ((f + i) % c) + 1 \in 0 .. 2 * c - 1
      BY <2>1, <2>2
    <2> QED
      BY <1>1, <2>1, <2>2, <2>3
  <1>5. ASSUME NEW i \in 0 .. c - 1
        PROVE  (((f + 1) % c) + i) % c = (f + (i + 1)) % c
    <2>1. f + 1 \in 0 .. 2 * c - 1 /\ f + (i + 1) \in 0 .. 2 * c - 1
      OBVIOUS
    <2>2. (f + 1) % c = IF f + 1 < c THEN f + 1 ELSE 0
      BY <1>1, <2>1
    <2>3. ((f + 1) % c) + i \in 0 .. 2 * c - 1
      BY <2>1, <2>2
    <2> QED
      BY <1>1, <2>1, <2>2, <2>3
  <1>6. f % c = f
    BY <1>1
  <1> QED
    BY <1>2, <1>3, <1>4, <1>5, <1>6

(* The producers inside safe_queue_enqueue. *)
Busy == {p \in Producers : pc[p] # "idle"}

LEMMA BusyFinite ==
    IsFiniteSet(Busy) /\ Cardinality(Busy) \in Nat
  <1>1. Busy \subseteq Producers
    BY DEF Busy
  <1> QED
    BY <1>1, FS_Subset, FS_CardinalityType, QueueAssumption

(* Under LightLoad there is room for the items in the queue and one more, *)
(* and a dequeue leaves fewer than a quarter of the array.                *)
LEMMA Room ==
    ASSUME LightLoad, QueueInv, LightInv
    PROVE  /\ size <= capacity \div 4
           /\ size < capacity
           /\ size > 0 => ~Shrinks(size - 1)
  <1>1. Backlog = size + Cardinality(Busy)
    BY DEF Backlog, Busy
  <1> QED
    BY <1>1, BusyFinite, QueueAssumption
       DEF LightLoad, LightInv, NoResize, QueueInv, TypeOK, Shrinks

LEMMA InitLight ==
    ASSUME LightLoad, Init PROVE LightInv
  <1> USE QueueAssumption DEF Init, safe_queue_create
  <1>1. NoResize
    BY DEF NoResize
  <1>2. Backlog <= MaxBacklog
    <2>1. Busy = {}
      BY DEF Busy, Threads
    <2>2. Cardinality(Busy) = 0
      BY <2>1, FS_EmptySet
    <2>3. Backlog = size + Cardinality(Busy)
      BY DEF Backlog, Busy
    <2> QED
      BY <2>2, <2>3
  <1>3. RingConsistent
    BY RingSlots DEF RingConsistent
  <1>4. RealItems /\ ReturnsEnqueued
    BY DEF RealItems, ReturnsEnqueued, Threads
  <1> QED
    BY <1>1, <1>2, <1>3, <1>4 DEF LightInv

(* A step that leaves the ring alone and moves no thread to a place where  *)
(* it is about to move rear or to return.                                  *)
QuietMove(t) ==
    \/ pc'[t] = pc[t]
    \/ pc'[t] \in {"idle", "deq_lock", "deq_wait", "deq_test"}
    \/ t \in Producers /\ pc[t] # "idle" /\ pc'[t] = "enq_write"

LEMMA QuietLight ==
    ASSUME LightInv, ring' = ring, item' = item, Busy' = Busy,
           \A t \in Threads : QuietMove(t)
    PROVE  LightInv'
  <1>0. data' = data /\ size' = size /\ capacity' = capacity /\ front' = front /\ rear' = rear
    BY DEF ring
  <1>1. NoResize'
    BY <1>0 DEF LightInv, NoResize, QuietMove
  <1>2. (Backlog <= MaxBacklog)'
    BY <1>0 DEF LightInv, Backlog, Busy
  <1>3. RingConsistent'
    BY <1>0 DEF LightInv, RingConsistent
  <1>4. RealItems'
    <2>1. \A p \in Producers : /\ pc'[p] # "idle" => pc[p] # "idle"
                               /\ pc'[p] = "enq_advance" => pc[p] = "enq_advance"
      BY DEF Busy, QuietMove, Threads
    <2>2. \A i \in 0 .. size' - 1 : data'[(front' + i) % capacity'] \in Items
      BY <1>0 DEF LightInv, RealItems
    <2>3. \A p \in Producers : /\ pc'[p] # "idle" => item'[p] \in Items
                               /\ pc'[p] = "enq_advance" => data'[rear'] = item'[p]
      BY <1>0, <2>1 DEF LightInv, RealItems
    <2> QED
      BY <2>2, <2>3 DEF RealItems
  <1>5. ReturnsEnqueued'
    BY <1>0 DEF LightInv, ReturnsEnqueued, Threads, QuietMove
  <1> QED
    BY <1>1, <1>2, <1>3, <1>4, <1>5 DEF LightInv

LEMMA safe_queue_enqueueLight ==
    ASSUME NEW t \in Producers, NEW x \in Items, LightLoad, QueueInv, LightInv,
           Backlog < MaxBacklog, safe_queue_enqueue(t, x)
    PROVE  LightInv'
  <1>0. size < capacity /\ size # capacity /\ size \in Nat /\ capacity \in Nat \ {0}
    BY Room DEF QueueInv, TypeOK
  <1> USE QueueAssumption DEF QueueInv, TypeOK, Threads
  <1>1. /\ size' = size /\ front' = front /\ rear' = rear
        /\ capacity' = capacity /\ data' = data
        /\ pc' = [pc EXCEPT ![t] = "enq_lock"]
        /\ pc[t] = "idle"
        /\ item' = [item EXCEPT ![t] = x]
    BY <1>0 DEF safe_queue_enqueue, ring, Goto
  <1>2. NoResize'
    BY <1>1 DEF LightInv, NoResize
  <1>3. (Backlog <= MaxBacklog)'
    <2>1. Busy' = Busy \cup {t} /\ t \notin Busy
      BY <1>1 DEF Busy
    <2>2. Cardinality(Busy') = Cardinality(Busy) + 1
      BY <2>1, BusyFinite, FS_AddElement
    <2>3. Backlog = size + Cardinality(Busy) /\ Backlog' = size' + Cardinality(Busy')
      BY DEF Backlog, Busy
    <2> QED
      BY <1>1, <2>2, <2>3, BusyFinite
  <1>4. RingConsistent'
    BY <1>1 DEF LightInv, RingConsistent
  <1>5. RealItems' /\ ReturnsEnqueued'
    BY <1>1 DEF LightInv, RealItems, ReturnsEnqueued
  <1> QED
    BY <1>2, <1>3, <1>4, <1>5 DEF LightInv

LEMMA enqueue_writeLight ==
    ASSUME NEW t \in Producers, LightLoad, QueueInv, LightInv, enqueue_write(t)
    PROVE  LightInv'
  <1>0. size < capacity /\ size # capacity /\ size \in Nat /\ capacity \in Nat \ {0}
    BY Room DEF QueueInv, TypeOK
  <1> USE QueueAssumption DEF QueueInv, TypeOK, Threads
  <1>1. /\ size' = size /\ front' = front /\ rear' = rear
        /\ capacity' = capacity /\ item' = item
        /\ data' = [data EXCEPT ![rear] = item[t]]
        /\ pc' = [pc EXCEPT ![t] = "enq_advance"]
        /\ pc[t] = "enq_write"
    BY DEF enqueue_write, Goto
  <1>2. NoResize'
    BY <1>1 DEF LightInv, NoResize
  <1>3. (Backlog <= MaxBacklog)'
    <2>1. Busy' = Busy
      BY <1>1 DEF Busy
    <2> QED
      BY <1>1, <2>1 DEF LightInv, Backlog, Busy
  <1>4. RingConsistent'
    BY <1>1 DEF LightInv, RingConsistent
  <1>5. \A i \in 0 .. size - 1 : data'[(front + i) % capacity] = data[(front + i) % capacity]
    <2>1. ASSUME NEW i \in 0 .. size - 1
          PROVE  /\ (front + i) % capacity \in 0 .. capacity - 1
                 /\ (front + i) % capacity # (front + size) % capacity
      <3>1. i \in 0 .. capacity - 1 /\ size \in 0 .. capacity - 1 /\ i # size
        BY <1>0
      <3>2. \A a, b \in 0 .. capacity - 1 :
                a # b => (front + a) % capacity # (front + b) % capacity
        BY RingSlots
      <3>3. (front + i) % capacity \in 0 .. capacity - 1
        BY <3>1, RingSlots
      <3> QED
        BY <3>1, <3>2, <3>3
    <2> QED
      BY <1>1, <2>1 DEF LightInv, RingConsistent
  <1>6. rear \in 0 .. capacity - 1
    BY <1>0, RingSlots DEF LightInv, RingConsistent
  <1>7. mutex = t /\ \A p \in Producers \ {t} : pc[p] # "enq_advance"
    BY <1>1 DEF LockDiscipline, Holding
  <1>8. RealItems'
    BY <1>1, <1>5, <1>6, <1>7 DEF LightInv, RealItems
  <1>9. ReturnsEnqueued'
    BY <1>1 DEF LightInv, ReturnsEnqueued
  <1> QED
    BY <1>2, <1>3, <1>4, <1>8, <1>9 DEF LightInv

LEMMA enqueue_advanceLight ==
    ASSUME NEW t \in Producers, LightLoad, QueueInv, LightInv, enqueue_advance(t)
    PROVE  LightInv'
  <1>0. size < capacity /\ size \in Nat /\ capacity \in Nat \ {0}
    BY Room DEF QueueInv, TypeOK
  <1> USE QueueAssumption DEF QueueInv, TypeOK, Threads
  <1>1. /\ size' = size + 1 /\ front' = front /\ data' = data
        /\ capacity' = capacity /\ item' = item
        /\ rear' = (rear + 1) % capacity
        /\ pc[t] = "enq_advance"
    BY DEF enqueue_advance
  <1>2. /\ pc' \in [Threads -> EnqueuePCs \cup DequeuePCs]
        /\ pc'[t] = "idle"
        /\ \A p \in Producers \ {t} : pc'[p] = pc[p]
        /\ \A c \in Consumers : pc'[c] = pc[c] \/ pc'[c] = "deq_lock"
    BY enqueue_advanceInv DEF enqueue_advance, pthread_cond_signal, Goto
  <1>3. NoResize'
    BY <1>1, <1>2 DEF LightInv, NoResize
  <1>4. (Backlog <= MaxBacklog)'
    <2>1. Busy' = Busy \ {t} /\ t \in Busy
      BY <1>1, <1>2 DEF Busy
    <2>2. Cardinality(Busy \ {t}) = Cardinality(Busy) - 1
      BY <2>1, BusyFinite, FS_RemoveElement
    <2>3. Backlog = size + Cardinality(Busy) /\ Backlog' = size' + Cardinality(Busy')
      BY DEF Backlog, Busy
    <2> QED
      BY <1>1, <2>1, <2>2, <2>3, BusyFinite DEF LightInv
  <1>5. RingConsistent'
    <2>1. \A i \in 0 .. capacity - 1 :
              (((front + i) % capacity) + 1) % capacity = (front + i + 1) % capacity
      BY RingSlots
    <2>2. size \in 0 .. capacity - 1 /\ front + (size + 1) = front + size + 1
      BY <1>0
    <2> QED
      BY <1>0, <1>1, <2>1, <2>2 DEF LightInv, RingConsistent
  <1>6. RealItems'
    <2>1. ASSUME NEW i \in 0 .. size' - 1
          PROVE  data'[(front' + i) % capacity'] \in Items
      <3>1. CASE i \in 0 .. size - 1
        BY <3>1, <1>1 DEF LightInv, RealItems
      <3>2. CASE i = size
        <4>1. data[rear] \in Items
          BY <1>1 DEF LightInv, RealItems
        <4> QED
          BY <3>2, <4>1, <1>1 DEF LightInv, RingConsistent
      <3> QED
        BY <3>1, <3>2, <1>0, <1>1
    <2>2. \A p \in Producers : pc'[p] # "enq_advance"
      BY <1>1, <1>2 DEF LockDiscipline, Holding
    <2> QED
      BY <1>1, <1>2, <2>1, <2>2 DEF LightInv, RealItems
  <1>7. ReturnsEnqueued'
    BY <1>1, <1>2 DEF LightInv, ReturnsEnqueued
  <1> QED
    BY <1>3, <1>4, <1>5, <1>6, <1>7 DEF LightInv

LEMMA dequeue_takeLight ==
    ASSUME NEW t \in Consumers, LightLoad, QueueInv, LightInv, dequeue_take(t)
    PROVE  LightInv'
  <1>0. /\ size < capacity /\ size \in Nat \ {0} /\ capacity \in Nat \ {0}
        /\ ~Shrinks(size - 1)
    BY Room DEF QueueInv, TypeOK, dequeue_take
  <1> USE QueueAssumption DEF QueueInv, TypeOK, Threads
  <1>1. /\ size' = size - 1 /\ rear' = rear /\ data' = data
        /\ capacity' = capacity
        /\ item' = [item EXCEPT ![t] = data[front]]
        /\ front' = (front + 1) % capacity
        /\ pc[t] = "deq_test"
        /\ pc' = [pc EXCEPT ![t] = "deq_return"]
    BY <1>0 DEF dequeue_take, Goto
  <1>2. NoResize'
    BY <1>1 DEF LightInv, NoResize
  <1>3. (Backlog <= MaxBacklog)'
    <2>1. Busy' = Busy
      BY <1>1 DEF Busy
    <2>2. Backlog = size + Cardinality(Busy) /\ Backlog' = size' + Cardinality(Busy')
      BY DEF Backlog, Busy
    <2> QED
      BY <1>0, <1>1, <2>1, <2>2, BusyFinite DEF LightInv
  <1>4. \A i \in 0 .. capacity - 1 :
            (((front + 1) % capacity) + i) % capacity = (front + (i + 1)) % capacity
    BY RingSlots
  <1>5. RingConsistent'
    <2>1. PICK m \in 0 .. capacity - 1 : size = m + 1
      <3>1. size - 1 \in 0 .. capacity - 1 /\ size = (size - 1) + 1
        BY <1>0
      <3> QED
        BY <3>1
    <2>2. size' = m /\ m <= capacity
      BY <1>0, <1>1, <2>1
    <2>3. rear = (front + (m + 1)) % capacity
      BY <2>1 DEF LightInv, RingConsistent
    <2>4. rear = (front' + m) % capacity
      BY <1>1, <1>4, <2>3
    <2> QED
      BY <1>1, <2>2, <2>4 DEF RingConsistent
  <1>6. RealItems'
    <2>1. ASSUME NEW i \in 0 .. size' - 1
          PROVE  data'[(front' + i) % capacity'] \in Items
      <3>1. i \in 0 .. capacity - 1 /\ i + 1 \in 0 .. size - 1
        BY <1>0, <1>1
      <3>2. data[(front + (i + 1)) % capacity] \in Items
        BY <3>1 DEF LightInv, RealItems
      <3> QED
        BY <1>1, <1>4, <3>1, <3>2
    <2>2. \A p \in Producers : item'[p] = item[p] /\ pc'[p] = pc[p]
      BY <1>1
    <2> QED
      BY <1>1, <2>1, <2>2 DEF LightInv, RealItems
  <1>7. ReturnsEnqueued'
    <2>1. front % capacity = front
      BY RingSlots
    <2>2. 0 \in 0 .. size - 1 /\ front + 0 = front
      BY <1>0
    <2>3. data[front] \in Items
      BY <2>1, <2>2 DEF LightInv, RealItems
    <2> QED
      BY <1>1, <2>3 DEF LightInv, ReturnsEnqueued
  <1> QED
    BY <1>2, <1>3, <1>5, <1>6, <1>7 DEF LightInv

LEMMA NextLight ==
    ASSUME LightLoad, QueueInv, LightInv, [Next]_queueVars PROVE LightInv'
  <1>1. CASE UNCHANGED queueVars
    BY <1>1 DEF queueVars, LightInv, NoResize, Backlog, RingConsistent, RealItems,
                ReturnsEnqueued
  <1>2. ASSUME NEW p \in Producers, Backlog < MaxBacklog,
               NEW x \in Items, safe_queue_enqueue(p, x)
        PROVE  LightInv'
    BY <1>2, safe_queue_enqueueLight
  <1>3. ASSUME NEW p \in Producers, EnqueueStep(p) PROVE LightInv'
    <2>1. ~enqueue_grow(p)
      BY DEF LightInv, NoResize, enqueue_grow, Threads
    <2>2. CASE enqueue_lock(p)
      <3>1. ring' = ring /\ item' = item
        BY <2>2 DEF enqueue_lock, ring
      <3>2. pc[p] = "enq_lock" /\ pc' = [pc EXCEPT ![p] = "enq_write"]
        BY <2>2 DEF enqueue_lock, Goto
      <3>3. Busy' = Busy
        BY <3>2 DEF Busy, QueueInv, TypeOK, Threads
      <3>4. \A t \in Threads : QuietMove(t)
        BY <3>2 DEF QueueInv, TypeOK, QuietMove
      <3> QED
        BY <3>1, <3>3, <3>4, QuietLight
    <2> QED
      BY <1>3, <2>1, <2>2, enqueue_writeLight, enqueue_advanceLight DEF EnqueueStep
  <1>4. ASSUME NEW c \in Consumers, safe_queue_dequeue(c) \/ DequeueStep(c)
        PROVE  LightInv'
    <2>1. CASE \/ safe_queue_dequeue(c) \/ dequeue_lock(c) \/ dequeue_wait(c)
               \/ spurious_wakeup(c) \/ dequeue_return(c)
      <3>1. ring' = ring /\ item' = item
        BY <2>1 DEF safe_queue_dequeue, dequeue_lock, dequeue_wait, spurious_wakeup,
                    dequeue_return, ring
      <3>2. \E l \in {"idle", "deq_lock", "deq_wait", "deq_test"} :
                pc' = [pc EXCEPT ![c] = l]
        BY <2>1 DEF safe_queue_dequeue, dequeue_lock, dequeue_wait, spurious_wakeup,
                    dequeue_return, Goto
      <3>3. Busy' = Busy
        BY <3>2, QueueAssumption DEF Busy, QueueInv, TypeOK, Threads
      <3>4. \A t \in Threads : QuietMove(t)
        BY <3>2 DEF QueueInv, TypeOK, QuietMove
      <3> QED
        BY <3>1, <3>3, <3>4, QuietLight
    <2> QED
      BY <1>4, <2>1, dequeue_takeLight DEF DequeueStep
  <1>5. ASSUME NEW t \in Threads PROVE ~ResizeStep(t)
    BY DEF LightInv, NoResize, ResizeStep, resize_lock, safe_queue_resize
  <1> QED
    BY <1>1, <1>2, <1>3, <1>4, <1>5 DEF Next

THEOREM LightInvariant ==
    ASSUME LightLoad PROVE Spec => [](QueueInv /\ LightInv)
  <1>1. Init => LightInv
    BY InitLight
  <1>2. QueueInv /\ LightInv /\ [Next]_queueVars => LightInv'
    BY NextLight
  <1> QED
    BY <1>1, <1>2, QueueInvariant, PTL DEF Spec

(* With at most a quarter of the array in use, safe_queue_dequeue never    *)
(* returns the content of a slot that nobody has written.                  *)
THEOREM LightReturnsEnqueued ==
    ASSUME LightLoad PROVE Spec => []ReturnsEnqueued
  BY LightInvariant, PTL DEF LightInv

(* With at most a quarter of the array in use, the ring stays consistent,  *)
(* for any number of producers.                                            *)
THEOREM LightRingConsistent ==
    ASSUME LightLoad PROVE Spec => []RingConsistent
  BY LightInvariant, PTL DEF LightInv

-----------------------------------------------------------------------------
(* One producer, at any load: what a growth loses *)

(* The pool has one thread that enqueues. *)
OneProducer == \A p, q \in Producers : p = q

(* LossIsOldest, slot by slot. *)
SlotsKept ==
    \A i \in 0 .. size - 1 :
        data[(front + i) % capacity] = Uninit =>
            /\ capacity > InitialCapacity
            /\ \A j \in 0 .. i : data[(front + j) % capacity] = Uninit

(* Where the producer is, the capacity it has read is the capacity, and    *)
(* past the test and the growth there is room.                             *)
HasRoom(p) ==
    /\ pc[p] \in {"enq_resize", "enq_copy"} => newcap[p] = 2 * capacity
    /\ pc[p] \in {"enq_lock", "enq_write", "enq_advance"} => size < capacity
    /\ pc[p] # "idle" => item[p] \in Items
    /\ pc[p] = "enq_advance" => data[rear] = item[p]

GrowInv ==
    /\ RingConsistent
    /\ capacity >= InitialCapacity
    /\ SlotsKept
    /\ \A p \in Producers : HasRoom(p)

LEMMA SlotsAreContents ==
    ASSUME TypeOK, SlotsKept PROVE LossIsOldest
  <1> SUFFICES ASSUME NEW i \in 1 .. size, Contents[i] = Uninit
               PROVE  /\ capacity > InitialCapacity
                      /\ \A j \in 1 .. i : Contents[j] = Uninit
    BY DEF LossIsOldest
  <1>1. \A k \in 1 .. size : Contents[k] = data[(front + (k - 1)) % capacity]
    <2> TAKE k \in 1 .. size
    <2>1. front + k - 1 = front + (k - 1)
      BY DEF TypeOK
    <2> QED
      BY <2>1 DEF Contents
  <1>2. i - 1 \in 0 .. size - 1 /\ data[(front + (i - 1)) % capacity] = Uninit
    BY <1>1 DEF TypeOK
  <1>3. /\ capacity > InitialCapacity
        /\ \A j \in 0 .. i - 1 : data[(front + j) % capacity] = Uninit
    BY <1>2 DEF SlotsKept
  <1>4. ASSUME NEW j \in 1 .. i PROVE Contents[j] = Uninit
    <2>1. j \in 1 .. size /\ j - 1 \in 0 .. i - 1
      BY DEF TypeOK
    <2> QED
      BY <1>1, <1>3, <2>1
  <1> QED
    BY <1>3, <1>4

LEMMA InitGrow ==
    ASSUME Init PROVE GrowInv
  <1> USE QueueAssumption DEF Init, safe_queue_create
  <1>1. (0 + 0) % InitialCapacity = 0
    BY ModOnce
  <1>2. RingConsistent /\ SlotsKept
    BY <1>1 DEF RingConsistent, SlotsKept
  <1>3. \A p \in Producers : HasRoom(p)
    BY DEF HasRoom, Threads
  <1> QED
    BY <1>2, <1>3 DEF GrowInv

(* A step that leaves the array alone. *)
LEMMA QuietGrow ==
    ASSUME GrowInv, UNCHANGED ring, \A p \in Producers : HasRoom(p)' PROVE GrowInv'
  BY DEF GrowInv, ring, RingConsistent, SlotsKept

LEMMA enqueue_writeGrow ==
    ASSUME NEW t \in Producers, OneProducer, QueueInv, GrowInv, enqueue_write(t) PROVE GrowInv'
  <1> USE QueueAssumption DEF QueueInv, TypeOK, Threads
  <1>1. /\ size' = size /\ front' = front /\ rear' = rear
        /\ capacity' = capacity /\ item' = item /\ newcap' = newcap
        /\ data' = [data EXCEPT ![rear] = item[t]]
        /\ pc' = [pc EXCEPT ![t] = "enq_advance"] /\ pc[t] = "enq_write"
    BY DEF enqueue_write, Goto
  <1>2. size < capacity /\ item[t] \in Items
    BY <1>1 DEF GrowInv, HasRoom
  <1>3. rear \in 0 .. capacity - 1
    <2>1. size \in 0 .. capacity - 1
      BY <1>2
    <2> QED
      BY <2>1, RingSlots DEF GrowInv, RingConsistent
  <1>4. \A i \in 0 .. size - 1 : data'[(front + i) % capacity] = data[(front + i) % capacity]
    <2> TAKE i \in 0 .. size - 1
    <2>1. i \in 0 .. capacity - 1 /\ size \in 0 .. capacity - 1 /\ i # size
      BY <1>2
    <2>2. \A a, b \in 0 .. capacity - 1 :
              a # b => (front + a) % capacity # (front + b) % capacity
      BY RingSlots
    <2>3. (front + i) % capacity \in 0 .. capacity - 1
      BY <2>1, RingSlots
    <2>4. (front + i) % capacity # rear
      BY <2>1, <2>2 DEF GrowInv, RingConsistent
    <2> QED
      BY <1>1, <2>3, <2>4
  <1>5. RingConsistent' /\ SlotsKept'
    <2>1. ASSUME NEW i \in 0 .. size - 1, NEW j \in 0 .. i PROVE j \in 0 .. size - 1
      OBVIOUS
    <2> QED
      BY <1>1, <1>4, <2>1 DEF GrowInv, RingConsistent, SlotsKept
  <1>6. \A p \in Producers : HasRoom(p)'
    BY <1>1, <1>2, <1>3 DEF OneProducer, HasRoom
  <1> QED
    BY <1>1, <1>5, <1>6 DEF GrowInv

LEMMA enqueue_advanceGrow ==
    ASSUME NEW t \in Producers, OneProducer, QueueInv, GrowInv, enqueue_advance(t) PROVE GrowInv'
  <1> USE QueueAssumption DEF QueueInv, TypeOK, Threads
  <1>1. /\ size' = size + 1 /\ front' = front /\ data' = data
        /\ capacity' = capacity /\ rear' = (rear + 1) % capacity /\ pc[t] = "enq_advance"
    BY DEF enqueue_advance
  <1>2. size < capacity /\ data[rear] # Uninit
    BY <1>1 DEF GrowInv, HasRoom
  <1>3. pc'[t] = "idle"
    BY DEF enqueue_advance, pthread_cond_signal, Goto
  <1>4. RingConsistent'
    <2>1. \A i \in 0 .. capacity - 1 :
              (((front + i) % capacity) + 1) % capacity = (front + i + 1) % capacity
      BY RingSlots
    <2>2. size \in 0 .. capacity - 1 /\ front + (size + 1) = front + size + 1
      BY <1>2
    <2> QED
      BY <1>1, <1>2, <2>1, <2>2 DEF GrowInv, RingConsistent
  <1>5. SlotsKept'
    <2> SUFFICES ASSUME NEW i \in 0 .. size, data[(front + i) % capacity] = Uninit
                 PROVE  /\ capacity > InitialCapacity
                        /\ \A j \in 0 .. i : data[(front + j) % capacity] = Uninit
      <3>1. 0 .. size' - 1 = 0 .. size
        BY <1>1
      <3> QED
        BY <1>1, <3>1 DEF SlotsKept
    <2>1. i # size
      BY <1>2 DEF GrowInv, RingConsistent
    <2>2. i \in 0 .. size - 1
      BY <2>1
    <2> QED
      BY <2>2 DEF GrowInv, SlotsKept
  <1>6. \A p \in Producers : HasRoom(p)'
    BY <1>3 DEF OneProducer, HasRoom
  <1> QED
    BY <1>1, <1>4, <1>5, <1>6 DEF GrowInv

LEMMA dequeue_takeGrow ==
    ASSUME NEW t \in Consumers, QueueInv, GrowInv, dequeue_take(t) PROVE GrowInv'
  <1> USE QueueAssumption DEF QueueInv, TypeOK, Threads
  <1>1. /\ size \in Nat \ {0} /\ size' = size - 1 /\ rear' = rear /\ data' = data
        /\ capacity' = capacity /\ front' = (front + 1) % capacity
        /\ \A p \in Producers : item'[p] = item[p] /\ pc'[p] = pc[p] /\ newcap'[p] = newcap[p]
    BY DEF dequeue_take, Goto
  <1>2. \A i \in 0 .. capacity - 1 :
            (((front + 1) % capacity) + i) % capacity = (front + (i + 1)) % capacity
    BY RingSlots
  <1>3. size <= capacity /\ rear = (front + size) % capacity
    BY DEF GrowInv, RingConsistent
  <1>4. RingConsistent'
    <2>1. PICK m \in 0 .. capacity - 1 : size = m + 1
      <3>1. size - 1 \in 0 .. capacity - 1 /\ size = (size - 1) + 1
        BY <1>1, <1>3
      <3> QED
        BY <3>1
    <2>2. size' = m /\ m <= capacity
      BY <1>1, <2>1
    <2>3. rear = (front' + m) % capacity
      BY <1>1, <1>2, <1>3, <2>1
    <2> QED
      BY <1>1, <2>2, <2>3 DEF RingConsistent
  <1>5. \A i \in 0 .. size' - 1 : data'[(front' + i) % capacity'] = data[(front + (i + 1)) % capacity]
    <2> TAKE i \in 0 .. size' - 1
    <2>1. i \in 0 .. capacity - 1
      BY <1>1, <1>3
    <2> QED
      BY <1>1, <1>2, <2>1
  <1>6. SlotsKept'
    <2> SUFFICES ASSUME NEW i \in 0 .. size' - 1, data'[(front' + i) % capacity'] = Uninit
                 PROVE  /\ capacity' > InitialCapacity
                        /\ \A j \in 0 .. i : data'[(front' + j) % capacity'] = Uninit
      BY DEF SlotsKept
    <2>0. i + 1 \in 0 .. size - 1
      BY <1>1
    <2>1. data[(front + (i + 1)) % capacity] = Uninit
      BY <1>5
    <2>2. /\ capacity > InitialCapacity
          /\ \A j \in 0 .. i + 1 : data[(front + j) % capacity] = Uninit
      BY <2>0, <2>1 DEF GrowInv, SlotsKept
    <2>3. ASSUME NEW j \in 0 .. i PROVE data'[(front' + j) % capacity'] = Uninit
      <3>1. j \in 0 .. size' - 1
        BY <1>1
      <3>2. j + 1 \in 0 .. i + 1
        BY <1>1
      <3>3. data[(front + (j + 1)) % capacity] = Uninit
        BY <2>2, <3>2
      <3> QED
        BY <1>5, <3>1, <3>3
    <2> QED
      BY <1>1, <2>2, <2>3
  <1>7. \A p \in Producers : HasRoom(p)'
    BY <1>1 DEF GrowInv, HasRoom
  <1> QED
    BY <1>1, <1>4, <1>6, <1>7 DEF GrowInv

(* How far rear is ahead of front in a ring of c slots with n items. *)
LEMMA CopyCount ==
    ASSUME NEW c \in Nat \ {0}, NEW f \in 0 .. c - 1, NEW n \in 0 .. c
    PROVE  (((f + n) % c) + c - f) % c = IF n = c THEN 0 ELSE n
  <1>1. \A x \in 0 .. 2 * c - 1 : x % c = IF x < c THEN x ELSE x - c
    BY ModOnce
  <1>2. (f + n) % c = IF f + n < c THEN f + n ELSE f + n - c
    <2>1. f + n \in 0 .. 2 * c - 1
      OBVIOUS
    <2> QED
      BY <1>1, <2>1
  <1>3. CASE f + n < c
    <2>1. ((f + n) % c) + c - f = n + c /\ n + c \in 0 .. 2 * c - 1 /\ n # c
      BY <1>2, <1>3
    <2>2. (n + c) % c = n
      BY <1>1, <2>1
    <2> QED
      BY <2>1, <2>2
  <1>4. CASE ~(f + n < c)
    <2>1. ((f + n) % c) + c - f = n /\ n \in 0 .. 2 * c - 1
      BY <1>2, <1>4
    <2>2. n % c = IF n < c THEN n ELSE n - c
      BY <1>1, <2>1
    <2> QED
      BY <2>1, <2>2
  <1> QED
    BY <1>3, <1>4

(* A growth keeps everything, or, when the array is full, nothing. *)
LEMMA safe_queue_resizeGrow ==
    ASSUME NEW t \in Threads, OneProducer, QueueInv, GrowInv, safe_queue_resize(t) PROVE GrowInv'
  <1> USE QueueAssumption DEF QueueInv, TypeOK, Threads
  <1>1. t \in Producers /\ pc[t] = "enq_copy" /\ newcap[t] = 2 * capacity
    BY DEF safe_queue_resize, NeverShrinks, EnqueuePCs, DequeuePCs, GrowInv, HasRoom
  <1>2. /\ size' = size /\ front' = 0 /\ rear' = size /\ capacity' = 2 * capacity
        /\ data' = [j \in 0 .. capacity' - 1 |->
                      IF j < Copied THEN data[(front + j) % capacity] ELSE Uninit]
        /\ pc'[t] = "enq_lock" /\ item' = item
    BY <1>1 DEF safe_queue_resize, Goto
  <1>3. size <= capacity /\ rear = (front + size) % capacity /\ capacity >= InitialCapacity
    BY DEF GrowInv, RingConsistent
  <1>4. \A i \in 0 .. size : (0 + i) % capacity' = i
    <2> TAKE i \in 0 .. size
    <2>1. capacity' \in Nat \ {0} /\ 0 + i = i /\ i \in 0 .. 2 * capacity' - 1 /\ i < capacity'
      BY <1>2, <1>3
    <2> QED
      BY <2>1, ModOnce
  <1>5. RingConsistent'
    <2>1. size \in 0 .. size /\ size <= capacity'
      BY <1>2, <1>3
    <2>2. (0 + size) % capacity' = size
      BY <1>4, <2>1
    <2> QED
      BY <1>2, <2>1, <2>2 DEF RingConsistent
  <1>6. Copied = IF size = capacity THEN 0 ELSE size
    <2>1. size \in 0 .. capacity
      BY <1>3
    <2> QED
      BY <1>3, <2>1, CopyCount DEF Copied
  <1>7. \A i \in 0 .. size - 1 :
            data'[(front' + i) % capacity'] = IF i < Copied THEN data[(front + i) % capacity] ELSE Uninit
    <2> TAKE i \in 0 .. size - 1
    <2>1. i \in 0 .. size /\ i \in 0 .. capacity' - 1
      BY <1>2, <1>3
    <2>2. (0 + i) % capacity' = i
      BY <1>4, <2>1
    <2> QED
      BY <1>2, <2>1, <2>2
  <1>8. capacity' > InitialCapacity
    BY <1>2, <1>3
  <1>9. SlotsKept'
    <2> SUFFICES ASSUME NEW i \in 0 .. size - 1, data'[(front' + i) % capacity'] = Uninit,
                        NEW j \in 0 .. i
                 PROVE  data'[(front' + j) % capacity'] = Uninit
      BY <1>2, <1>8 DEF SlotsKept
    <2>1. j \in 0 .. size - 1
      OBVIOUS
    <2>2. CASE size = capacity
      BY <1>6, <1>7, <2>1, <2>2
    <2>3. CASE size # capacity
      <3>1. data[(front + i) % capacity] = Uninit
        BY <1>6, <1>7, <2>3
      <3>2. data[(front + j) % capacity] = Uninit
        BY <3>1 DEF GrowInv, SlotsKept
      <3> QED
        BY <1>6, <1>7, <2>1, <2>3, <3>2
    <2> QED
      BY <2>2, <2>3
  <1>10. HasRoom(t)'
    <2>1. item[t] \in Items
      BY <1>1 DEF GrowInv, HasRoom
    <2>2. size' < capacity'
      BY <1>2, <1>3
    <2> QED
      BY <1>2, <2>1, <2>2 DEF HasRoom
  <1> QED
    BY <1>1, <1>2, <1>3, <1>5, <1>9, <1>10 DEF GrowInv, OneProducer

LEMMA NextGrow ==
    ASSUME OneProducer, QueueInv, GrowInv, [Next]_queueVars PROVE GrowInv'
  <1> USE QueueAssumption DEF QueueInv, TypeOK, Threads
  <1>0. \A p \in Producers : HasRoom(p)
    BY DEF GrowInv
  <1>1. CASE UNCHANGED queueVars
    <2>1. UNCHANGED ring /\ UNCHANGED <<size, capacity, data, rear, pc, item, newcap>>
      BY <1>1 DEF queueVars, ring
    <2> QED
      BY <1>0, <2>1, QuietGrow DEF HasRoom
  <1>2. ASSUME NEW p \in Producers, NEW x \in Items, safe_queue_enqueue(p, x) PROVE GrowInv'
    <2>1. /\ UNCHANGED ring /\ size' = size /\ capacity' = capacity
          /\ pc'[p] = (IF size = capacity THEN "enq_grow" ELSE "enq_lock") /\ item'[p] = x
      BY <1>2 DEF safe_queue_enqueue, Goto, ring
    <2>2. size <= capacity
      BY DEF GrowInv, RingConsistent
    <2>3. HasRoom(p)'
      BY <2>1, <2>2 DEF HasRoom
    <2> QED
      BY <2>1, <2>3, QuietGrow DEF OneProducer
  <1>3. ASSUME NEW p \in Producers, enqueue_grow(p) \/ enqueue_lock(p) \/ resize_lock(p)
        PROVE  GrowInv'
    <2>1. /\ UNCHANGED ring /\ size' = size /\ capacity' = capacity /\ item' = item
          /\ \/ pc[p] = "enq_grow" /\ pc'[p] = "enq_resize" /\ newcap'[p] = 2 * capacity
             \/ pc[p] = "enq_lock" /\ pc'[p] = "enq_write"
             \/ pc[p] = "enq_resize" /\ pc'[p] = "enq_copy" /\ newcap'[p] = newcap[p]
      BY <1>3 DEF enqueue_grow, enqueue_lock, resize_lock, Goto, ring, EnqueuePCs
    <2>2. HasRoom(p)'
      BY <1>0, <2>1 DEF HasRoom
    <2> QED
      BY <2>1, <2>2, QuietGrow DEF OneProducer
  <1>4. ASSUME NEW c \in Consumers,
               \/ safe_queue_dequeue(c) \/ dequeue_lock(c) \/ dequeue_wait(c)
               \/ spurious_wakeup(c) \/ dequeue_return(c) \/ resize_lock(c)
        PROVE  GrowInv'
    <2>1. /\ UNCHANGED ring /\ UNCHANGED <<size, capacity, data, rear, item, newcap>>
          /\ \A p \in Producers : pc'[p] = pc[p]
      BY <1>4 DEF safe_queue_dequeue, dequeue_lock, dequeue_wait, spurious_wakeup,
                  dequeue_return, resize_lock, Goto, ring
    <2> QED
      BY <1>0, <2>1, QuietGrow DEF HasRoom
  <1> QED
    BY <1>1, <1>2, <1>3, <1>4, enqueue_writeGrow, enqueue_advanceGrow, dequeue_takeGrow,
       safe_queue_resizeGrow
       DEF Next, EnqueueStep, DequeueStep, ResizeStep

(* With one producer the array never overflows and its indices stay right, *)
(* whatever the load and however often it grows.                           *)
THEOREM GrowInvariant ==
    ASSUME OneProducer PROVE Spec => []GrowInv
  <1>1. Init => GrowInv
    BY InitGrow
  <1>2. QueueInv /\ GrowInv /\ [Next]_queueVars => GrowInv'
    BY NextGrow
  <1> QED
    BY <1>1, <1>2, QueueInvariant, PTL DEF Spec

(* With one producer front, rear, size and capacity of queue.c agree at    *)
(* any load, through every growth.                                         *)
THEOREM OneProducerRing ==
    ASSUME OneProducer PROVE Spec => []RingConsistent
  BY GrowInvariant, PTL DEF GrowInv

(* With one producer, what the growths of queue.c lose is the oldest part  *)
(* of the queue: safe_queue_resize copies a full array not at all and any  *)
(* other as it is.                                                         *)
THEOREM OneProducerLoss ==
    ASSUME OneProducer PROVE Spec => []LossIsOldest
  <1>1. QueueInv /\ GrowInv => LossIsOldest
    BY SlotsAreContents DEF QueueInv, GrowInv
  <1> QED
    BY <1>1, GrowInvariant, QueueInvariant, PTL
=============================================================================
