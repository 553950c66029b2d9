----------------------------- MODULE FifoQueue -----------------------------
(***************************************************************************)
(* What queue.h promises: a queue into which items are put and out of      *)
(* which every item comes once, in the order it was put in.  There are no  *)
(* threads, no lock and no ring buffer here.  SafeQueue, the model of      *)
(* queue.c, is shown to implement this specification while its ring buffer *)
(* is not resized (see Fifo in SafeQueue).                                 *)
(***************************************************************************)
EXTENDS Sequences

CONSTANTS Items,      \* what can be put into the queue
          Consumers,  \* who takes items out of it
          Nothing     \* what a consumer holds before its first item

VARIABLES q,          \* the items in the queue, the oldest first
          got         \* got[c]: the last item consumer c took

fifoVars == <<q, got>>

Init ==
    /\ q = <<>>
    /\ got = [c \in Consumers |-> Nothing]

Put(item) ==
    /\ q' = Append(q, item)
    /\ UNCHANGED got

Get(c) ==
    /\ q # <<>>
    /\ got' = [got EXCEPT ![c] = Head(q)]
    /\ q' = Tail(q)

Next ==
    \/ \E item \in Items : Put(item)
    \/ \E c \in Consumers : Get(c)

Spec == Init /\ [][Next]_fifoVars
=============================================================================
