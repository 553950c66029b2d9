------------------------ MODULE SafeQueueRefinement ------------------------
(***************************************************************************)
(* Under LightLoad, queue.c implements FifoQueue: enqueue_advance is Put,  *)
(* dequeue_take is Get, and every other step leaves the abstract queue     *)
(* alone.  The mapping is the one of Abstract in SafeQueue.                *)
(***************************************************************************)
EXTENDS SafeQueueProofs, SequenceTheorems

(* Contents is a sequence of enqueued items. *)
IsContents ==
    /\ Contents \in Seq(Items)
    /\ Len(Contents) = size
    /\ \A i \in 1 .. size : Contents[i] = data[(front + (i - 1)) % capacity]

LEMMA ContentsSeq == QueueInv /\ LightInv => IsContents
  <1> SUFFICES ASSUME QueueInv, LightInv PROVE IsContents
    OBVIOUS
  <1> USE DEF QueueInv, TypeOK
  <1>1. ASSUME NEW i \in 1 .. size
        PROVE  /\ Contents[i] = data[(front + (i - 1)) % capacity]
               /\ Contents[i] \in Items
    <2>1. i - 1 \in 0 .. size - 1 /\ front + i - 1 = front + (i - 1)
      OBVIOUS
    <2>2. Contents[i] = data[(front + i - 1) % capacity]
      BY DEF Contents
    <2>3. data[(front + (i - 1)) % capacity] \in Items
      BY <2>1 DEF LightInv, RealItems
    <2> QED
      BY <2>1, <2>2, <2>3
  <1>2. Contents \in [1 .. size -> Items]
    BY <1>1 DEF Contents
  <1>3. Contents \in Seq(Items)
    BY <1>2, SeqDef
  <1>4. Len(Contents) = size
    BY <1>2, <1>3, LenProperties
  <1> QED
    BY <1>1, <1>3, <1>4 DEF IsContents

LEMMA ContentsSeqNext == QueueInv' /\ LightInv' => IsContents'
  BY ContentsSeq, PTL

(* A step that leaves every occupied slot alone. *)
LEMMA SameContents ==
    ASSUME size' = size, front' = front, capacity' = capacity,
           \A i \in 1 .. size : data'[(front + i - 1) % capacity] = data[(front + i - 1) % capacity]
    PROVE  Contents' = Contents
  BY DEF Contents

(* The store of enqueue goes to a slot that is not occupied. *)
LEMMA WriteKeepsContents ==
    ASSUME NEW p \in Producers, LightLoad, QueueInv, LightInv, enqueue_write(p)
    PROVE  Contents' = Contents
  <1>1. size' = size /\ front' = front /\ capacity' = capacity
    BY DEF enqueue_write
  <1>2. /\ size \in Nat /\ capacity \in Nat \ {0} /\ front \in 0 .. capacity - 1
        /\ size < capacity
    BY Room DEF QueueInv, TypeOK
  <1>3. \A a, b \in 0 .. capacity - 1 :
            a # b => (front + a) % capacity # (front + b) % capacity
    BY <1>2, RingSlots
  <1>4. ASSUME NEW i \in 1 .. size
        PROVE  /\ (front + i - 1) % capacity # rear
               /\ (front + i - 1) % capacity \in 0 .. capacity - 1
    <2>1. /\ i - 1 \in 0 .. capacity - 1 /\ size \in 0 .. capacity - 1 /\ i - 1 # size
          /\ front + (i - 1) = front + i - 1
      BY <1>2
    <2>2. (front + (i - 1)) % capacity # (front + size) % capacity
      BY <1>3, <2>1
    <2>3. (front + (i - 1)) % capacity \in 0 .. capacity - 1
      BY <1>2, <2>1, RingSlots
    <2> QED
      BY <2>1, <2>2, <2>3 DEF LightInv, RingConsistent
  <1>5. \A i \in 1 .. size : data'[(front + i - 1) % capacity] = data[(front + i - 1) % capacity]
    BY <1>4 DEF enqueue_write, QueueInv, TypeOK
  <1> QED
    BY <1>1, <1>5, SameContents

LEMMA TakeIsGet ==
    ASSUME NEW t \in Consumers, LightLoad, QueueInv, LightInv, QueueInv', LightInv',
           IsContents, IsContents', dequeue_take(t)
    PROVE  Abstract!Get(t)
  <1>0. /\ size \in Nat \ {0} /\ capacity \in Nat \ {0} /\ front \in 0 .. capacity - 1
        /\ size < capacity
    BY Room DEF QueueInv, TypeOK, dequeue_take
  <1>1. /\ size' = size - 1 /\ data' = data /\ capacity' = capacity
        /\ front' = (front + 1) % capacity
        /\ item' = [item EXCEPT ![t] = data[front]]
    BY DEF dequeue_take
  <1>2. Contents # <<>>
    BY <1>0, EmptySeq DEF IsContents
  <1>3. Head(Contents) = data[front]
    <2>1. Head(Contents) = Contents[1]
      OBVIOUS
    <2>2. 1 \in 1 .. size /\ front + (1 - 1) = front
      BY <1>0
    <2>3. front % capacity = front
      BY <1>0, RingSlots
    <2> QED
      BY <2>1, <2>2, <2>3 DEF IsContents
  <1>4. Contents' = Tail(Contents)
    <2>1. /\ Contents' \in Seq(Items) /\ Len(Contents') = size'
          /\ \A i \in 1 .. size' : Contents'[i] = data'[(front' + (i - 1)) % capacity']
      BY DEF IsContents
    <2>2. /\ Tail(Contents) \in Seq(Items) /\ Len(Tail(Contents)) = size - 1
          /\ \A i \in 1 .. size - 1 : Tail(Contents)[i] = Contents[i + 1]
      BY <1>2, HeadTailProperties DEF IsContents
    <2>3. ASSUME NEW i \in 1 .. size - 1
          PROVE  Contents'[i] = Tail(Contents)[i]
      <3>1. \A j \in 0 .. capacity - 1 :
                (((front + 1) % capacity) + j) % capacity = (front + (j + 1)) % capacity
        BY <1>0, RingSlots
      <3>2. /\ i - 1 \in 0 .. capacity - 1 /\ i + 1 \in 1 .. size
            /\ (i - 1) + 1 = i /\ (i + 1) - 1 = i
        BY <1>0
      <3>3. Contents'[i] = data[(((front + 1) % capacity) + (i - 1)) % capacity]
        BY <1>1, <2>1
      <3>4. Contents'[i] = data[(front + i) % capacity]
        BY <3>1, <3>2, <3>3
      <3>5. Contents[i + 1] = data[(front + i) % capacity]
        BY <3>2 DEF IsContents
      <3> QED
        BY <2>2, <3>4, <3>5
    <2> QED
      BY <1>1, <2>1, <2>2, <2>3, SeqEqual
  <1>5. [c \in Consumers |-> item[c]]'
          = [[c \in Consumers |-> item[c]] EXCEPT ![t] = Head(Contents)]
    BY <1>1, <1>3, QueueAssumption DEF QueueInv, TypeOK, Threads
  <1> QED
    BY <1>2, <1>4, <1>5 DEF Abstract!Get

LEMMA AdvanceAppends ==
    ASSUME NEW t \in Producers, LightLoad, QueueInv, LightInv, QueueInv', LightInv',
           IsContents, IsContents', enqueue_advance(t)
    PROVE  item[t] \in Items /\ Contents' = Append(Contents, item[t])
  <1>0. /\ size \in Nat /\ capacity \in Nat \ {0} /\ front \in 0 .. capacity - 1
    BY DEF QueueInv, TypeOK
  <1>1. /\ size' = size + 1 /\ data' = data /\ capacity' = capacity
        /\ front' = front /\ item' = item
        /\ pc[t] = "enq_advance"
    BY DEF enqueue_advance
  <1>2. item[t] \in Items /\ data[(front + size) % capacity] = item[t]
    BY <1>1 DEF LightInv, RealItems, RingConsistent
  <1>3. Contents' = Append(Contents, item[t])
    <2>1. /\ Contents' \in Seq(Items) /\ Len(Contents') = size'
          /\ \A i \in 1 .. size' : Contents'[i] = data'[(front' + (i - 1)) % capacity']
      BY DEF IsContents
    <2>2. /\ Contents \in Seq(Items) /\ Len(Contents) = size
          /\ \A i \in 1 .. size : Contents[i] = data[(front + (i - 1)) % capacity]
      BY DEF IsContents
    <2>3. /\ Append(Contents, item[t]) \in Seq(Items)
          /\ Len(Append(Contents, item[t])) = size + 1
          /\ \A i \in 1 .. size : Append(Contents, item[t])[i] = Contents[i]
          /\ Append(Contents, item[t])[size + 1] = item[t]
      BY <1>0, <1>2, <2>2, AppendProperties
    <2>4. ASSUME NEW i \in 1 .. size + 1
          PROVE  Contents'[i] = Append(Contents, item[t])[i]
      <3>1. CASE i \in 1 .. size
        <4>1. i \in 1 .. size'
          BY <3>1, <1>0, <1>1
        <4>2. Contents'[i] = data[(front + (i - 1)) % capacity]
          BY <4>1, <1>1, <2>1
        <4> QED
          BY <3>1, <4>2, <2>2, <2>3
      <3>2. CASE i = size + 1
        <4>1. i - 1 = size /\ i \in 1 .. size'
          BY <3>2, <1>0, <1>1
        <4>2. Contents'[i] = data[(front + size) % capacity]
          BY <4>1, <1>1, <2>1
        <4> QED
          BY <3>2, <4>2, <1>2, <2>3
      <3>3. i \in 1 .. size \/ i = size + 1
        BY <1>0
      <3> QED
        BY <3>1, <3>2, <3>3
    <2> QED
      BY <1>0, <1>1, <2>1, <2>3, <2>4, SeqEqual
  <1> QED
    BY <1>2, <1>3

LEMMA AdvanceIsPut ==
    ASSUME NEW t \in Producers, LightLoad, QueueInv, LightInv, QueueInv', LightInv',
           IsContents, IsContents', enqueue_advance(t)
    PROVE  \E x \in Items : Abstract!Put(x)
  <1>1. item' = item
    BY DEF enqueue_advance
  <1> QED
    BY <1>1, AdvanceAppends DEF Abstract!Put

(* Every step of queue.c is a step of the abstract queue, or none. *)
LEMMA StepRefines ==
    ASSUME LightLoad, QueueInv, LightInv, QueueInv', LightInv', IsContents, IsContents',
           [Next]_queueVars
    PROVE  [Abstract!Next]_(Abstract!fifoVars)
  <1> DEFINE got == [c \in Consumers |-> item[c]]
  <1>0. ASSUME Contents' = Contents, got' = got
        PROVE  [Abstract!Next]_(Abstract!fifoVars)
    BY <1>0 DEF Abstract!fifoVars
  <1>1. ASSUME ring' = ring, item' = item
        PROVE  [Abstract!Next]_(Abstract!fifoVars)
    <2>1. Contents' = Contents
      BY <1>1 DEF ring, Contents
    <2> QED
      BY <1>0, <1>1, <2>1
  <1>2. CASE UNCHANGED queueVars
    BY <1>1, <1>2 DEF queueVars, ring
  <1>3. ASSUME NEW p \in Producers, NEW x \in Items, safe_queue_enqueue(p, x)
        PROVE  [Abstract!Next]_(Abstract!fifoVars)
    <2>1. Contents' = Contents
      BY <1>3 DEF safe_queue_enqueue, ring, Contents
    <2>2. got' = got
      BY <1>3, QueueAssumption DEF safe_queue_enqueue, QueueInv, TypeOK, Threads
    <2> QED
      BY <1>0, <2>1, <2>2
  <1>4. ASSUME NEW p \in Producers, enqueue_write(p)
        PROVE  [Abstract!Next]_(Abstract!fifoVars)
    <2>1. item' = item
      BY <1>4 DEF enqueue_write
    <2> QED
      BY <1>0, <1>4, <2>1, WriteKeepsContents
  <1>5. ASSUME NEW p \in Producers, EnqueueStep(p)
        PROVE  [Abstract!Next]_(Abstract!fifoVars)
    <2>1. CASE enqueue_grow(p) \/ enqueue_lock(p)
      BY <2>1, <1>1 DEF enqueue_grow, enqueue_lock
    <2>2. CASE enqueue_advance(p)
      BY <2>2, AdvanceIsPut DEF Abstract!Next
    <2> QED
      BY <1>4, <1>5, <2>1, <2>2 DEF EnqueueStep
  <1>6. ASSUME NEW c \in Consumers, safe_queue_dequeue(c) \/ DequeueStep(c)
        PROVE  [Abstract!Next]_(Abstract!fifoVars)
    <2>1. CASE dequeue_take(c)
      BY <2>1, TakeIsGet DEF Abstract!Next
    <2>2. CASE ~dequeue_take(c)
      BY <1>1, <1>6, <2>2 DEF DequeueStep, safe_queue_dequeue, dequeue_lock, dequeue_wait,
                              spurious_wakeup, dequeue_return
    <2> QED
      BY <2>1, <2>2
  <1>7. ASSUME NEW t \in Threads PROVE ~ResizeStep(t)
    BY DEF LightInv, NoResize, ResizeStep, resize_lock, safe_queue_resize
  <1> QED
    BY <1>2, <1>3, <1>5, <1>6, <1>7 DEF Next

(* queue.c is the queue that queue.h promises while at most a quarter of   *)
(* the initial capacity is in use: for any number of producers and         *)
(* consumers, every item comes out once and in the order it went in.       *)
THEOREM LightFifo ==
    ASSUME LightLoad PROVE Spec => Fifo
  <1>1. Init => Abstract!Init
    <2>1. ASSUME Init PROVE Contents = <<>>
      <3>1. QueueInv /\ LightInv /\ size = 0
        BY <2>1, InitQueueInv, InitLight DEF Init, safe_queue_create
      <3> QED
        BY <3>1, ContentsSeq, EmptySeq DEF IsContents
    <2>2. ASSUME Init PROVE [c \in Consumers |-> item[c]] = [c \in Consumers |-> Uninit]
      BY <2>2 DEF Init, safe_queue_create, Threads
    <2> QED
      BY <2>1, <2>2 DEF Abstract!Init
  <1>2. /\ QueueInv /\ LightInv /\ IsContents
        /\ QueueInv' /\ LightInv' /\ IsContents'
        /\ [Next]_queueVars
        => [Abstract!Next]_(Abstract!fifoVars)
    BY StepRefines
  <1> QED
    BY <1>1, <1>2, LightInvariant, ContentsSeq, PTL DEF Spec, Fifo, Abstract!Spec
=============================================================================
