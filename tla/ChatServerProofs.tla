-------------------------- MODULE ChatServerProofs --------------------------
(***************************************************************************)
(* Theorems about ChatServer, for any number of clients, of lines they     *)
(* send, of accepts that fail, and any size of the socket buffers.         *)
(*                                                                         *)
(* The threads that run, and the client whose thread is not yet started,   *)
(* are as many as the array has entries; until add_chat_client has         *)
(* returned another client's pointer, or accept has failed twice, each of  *)
(* them owns one entry.                                                    *)
(***************************************************************************)
EXTENDS ChatServer, FiniteSetTheorems, SequenceTheorems, TLAPS

(* The threads of clients that run, and whether one more is to be started. *)
Running == {t \in Threads : thread[t] \notin {"none", "exited"}}

Adding == acceptor.at \in {"count", "cell", "spawn"}

(* The local variables of the accepting thread. *)
AcceptorOK ==
    IF acceptor.at = "accept" THEN acceptor = Idle
    ELSE /\ acceptor.who \in Threads /\ thread[acceptor.who] = "none"
         /\ acceptor.at = "add" =>
               IF acceptor.who \in Conns
               THEN acceptor.fd \in Fds /\ fds[acceptor.fd] = acceptor.who
               ELSE acceptor.fd = Bad
         /\ Adding => acceptor.added \in Ptrs
         /\ acceptor.at = "cell" => acceptor.n \in Ptrs
         /\ acceptor.at = "spawn" /\ ~raced => acceptor.got = acceptor.added

(* Who was not accepted yet has no thread and no descriptor. *)
Fresh ==
    /\ \A k \in Conns : conn[k] \in {"away", "pending", "pending_closed"} =>
          thread[k] = "none" /\ acceptor.who # k /\ \A f \in Fds : fds[f] # k
    /\ \A t \in 1 .. MaxFailures : t > failed => thread[t] = "none" /\ acceptor.who # t

OneFd == \A f, g \in Fds : fds[f] = fds[g] /\ fds[f] # Nobody => f = g

(* There is an entry for each thread that runs or is about to be started. *)
Counted == count = Cardinality(Running) + IF Adding THEN 1 ELSE 0

(* The array, while the server is there. *)
Distinct == \A i, j \in 1 .. count : clients[i] = clients[j] => i = j

Intact ==
    /\ Distinct
    /\ Listed = {p \in Ptrs : Live(p)}
    /\ \A p \in Listed : socket[p] = Bad \/ fds[socket[p]] # Nobody
    /\ \A p, q \in Listed : socket[p] = socket[q] => p = q \/ socket[p] = Bad
    /\ acceptor.at = "add" /\ acceptor.fd # Bad => \A p \in Listed : socket[p] # acceptor.fd

(* Thread t was started for the ChatClient at p. *)
Owns(t, p) ==
    /\ p \in Listed
    /\ IF t \in Conns THEN socket[p] \in Fds /\ fds[socket[p]] = t ELSE socket[p] = Bad

Owned ==
    /\ \A t \in Running : Owns(t, ptr[t])
    /\ Adding => Owns(acceptor.who, acceptor.added)
    /\ \A p \in Listed : \/ \E t \in Running : ptr[t] = p
                         \/ Adding /\ acceptor.added = p

ChatInv ==
    /\ TypeOK /\ AcceptorOK /\ Fresh /\ OneFd /\ Counted
    /\ FreedOnlyByRace
    /\ life = "serving" => Intact /\ (~raced /\ failed < 2 => Owned)

-----------------------------------------------------------------------------
(* The constants *)

LEMMA Sizes ==
    /\ N \in Nat /\ N + MaxFailures \in Nat
    /\ IsFiniteSet(Threads) /\ IsFiniteSet(Ptrs) /\ Cardinality(Ptrs) = N + MaxFailures
    /\ Nobody \notin Threads /\ Conns \subseteq Threads /\ Bad \notin Fds /\ 0 \notin Fds
    /\ Null \notin Ptrs /\ Bad # 0
  <1>1. N \in Nat /\ IsFiniteSet(Conns) /\ MaxFailures \in Nat
    BY ChatAssumption, FS_CardinalityType DEF N
  <1>2. IsFiniteSet(1 .. MaxFailures) /\ IsFiniteSet(1 .. N + MaxFailures)
    BY <1>1, FS_Interval
  <1>3. Cardinality(1 .. N + MaxFailures) = N + MaxFailures
    <2>1. \A m \in Nat : Cardinality(1 .. m) = m
      BY FS_Interval
    <2> QED
      BY <1>1, <2>1
  <1>4. IsFiniteSet(Threads)
    BY <1>1, <1>2, FS_Union DEF Threads
  <1> QED
    BY <1>1, <1>2, <1>3, <1>4, ChatAssumption DEF Threads, Ptrs, Fds, Bad, Null

(* The entries of an array without repetition are as many as its cells. *)
LEMMA DistinctCount ==
    ASSUME NEW c, NEW n \in Nat, \A i, j \in 1 .. n : c[i] = c[j] => i = j
    PROVE  /\ IsFiniteSet({c[j] : j \in 1 .. n})
           /\ Cardinality({c[j] : j \in 1 .. n}) = n
  <1> DEFINE f == [j \in 1 .. n |-> c[j]]
             T == {c[j] : j \in 1 .. n}
  <1>1. f \in Bijection(1 .. n, T)
    <2>1. f \in [1 .. n -> T]
      OBVIOUS
    <2>2. \A i, j \in 1 .. n : f[i] = f[j] => i = j
      OBVIOUS
    <2>3. \A x \in T : \E j \in 1 .. n : f[j] = x
      OBVIOUS
    <2> QED
      BY <2>1, <2>2, <2>3 DEF Bijection, Injection, Surjection, IsInjective
  <1>2. IsFiniteSet(1 .. n) /\ Cardinality(1 .. n) = n
    BY FS_Interval
  <1> QED
    BY <1>1, <1>2, FS_Bijection DEF ExistsBijection

LEMMA CountNat == ASSUME TypeOK PROVE count \in Nat
  BY Sizes DEF TypeOK

LEMMA ListedCount ==
    ASSUME TypeOK, Intact
    PROVE  IsFiniteSet(Listed) /\ Cardinality(Listed) = count /\ Listed \subseteq Ptrs
  <1>1. count \in Nat
    BY Sizes DEF TypeOK
  <1> QED
    BY <1>1, DistinctCount DEF Intact, Distinct, Listed

-----------------------------------------------------------------------------
(* A step that leaves the array, the descriptors and the accepting thread  *)
(* alone, and starts and ends no thread.                                   *)
Waiting == {"away", "pending", "pending_closed"}

LEMMA SameList ==
    ASSUME ChatInv, TypeOK', UNCHANGED <<listVars, fds, acceptor, failed, ptr, life, raced>>,
           \A t \in Threads : /\ thread'[t] = "none" <=> thread[t] = "none"
                              /\ thread'[t] = "exited" <=> thread[t] = "exited",
           \A k \in Conns : conn'[k] \in Waiting => conn[k] \in Waiting,
           ub' = FALSE
    PROVE  ChatInv'
  <1>1. Running' = Running /\ Adding' = Adding /\ Listed' = Listed
    BY DEF Running, Adding, Listed, listVars
  <1>2. AcceptorOK'
    BY <1>1 DEF ChatInv, AcceptorOK, TypeOK
  <1>3. Fresh'
    BY Sizes DEF ChatInv, Fresh, Waiting, Threads
  <1>4. OneFd' /\ FreedOnlyByRace' /\ Counted'
    BY <1>1 DEF ChatInv, OneFd, FreedOnlyByRace, Counted, listVars
  <1>5. life = "serving" => Intact'
    BY <1>1 DEF ChatInv, Intact, Distinct, Live, listVars
  <1>6. life = "serving" /\ ~raced /\ failed < 2 => Owned'
    BY <1>1 DEF ChatInv, Owned, Owns, listVars
  <1> QED
    BY <1>2, <1>3, <1>4, <1>5, <1>6 DEF ChatInv

-----------------------------------------------------------------------------
(* The clients *)

LEMMA connectInv == ASSUME ChatInv, ~ub, NEW k \in Conns, connect(k) PROVE ChatInv'
  <1>1. conn' \in [Conns -> {"away", "pending", "pending_closed", "open", "closed"}]
    BY DEF ChatInv, TypeOK, connect
  <1>2. TypeOK'
    BY <1>1 DEF ChatInv, TypeOK, connect, serverVars, listVars, threadVars, flagVars
  <1>3. \A l \in Conns : conn'[l] \in Waiting => conn[l] \in Waiting
    BY DEF ChatInv, TypeOK, connect, Waiting
  <1> QED
    BY <1>2, <1>3, SameList DEF ChatInv, TypeOK, connect, serverVars, threadVars, flagVars

LEMMA hang_upInv == ASSUME ChatInv, ~ub, NEW k \in Conns, hang_up(k) PROVE ChatInv'
  <1>1. conn' \in [Conns -> {"away", "pending", "pending_closed", "open", "closed"}]
    BY DEF ChatInv, TypeOK, hang_up
  <1>2. TypeOK'
    BY <1>1 DEF ChatInv, TypeOK, hang_up, serverVars, listVars, threadVars, flagVars
  <1>3. \A l \in Conns : conn'[l] \in Waiting => conn[l] \in Waiting
    BY DEF ChatInv, TypeOK, hang_up, Waiting
  <1> QED
    BY <1>2, <1>3, SameList DEF ChatInv, TypeOK, hang_up, serverVars, threadVars, flagVars

LEMMA sayInv ==
    ASSUME ChatInv, ~ub, NEW k \in Conns, NEW line \in Messages, say(k, line) PROVE ChatInv'
  <1>1. said[k] \in Seq(Messages) /\ taken[k] \in Nat /\ taken[k] <= Len(said[k])
    BY DEF ChatInv, TypeOK
  <1>2. Append(said[k], line) \in Seq(Messages) /\ Len(Append(said[k], line)) = Len(said[k]) + 1
    BY <1>1, AppendProperties
  <1>3. said' = [said EXCEPT ![k] = Append(said[k], line)]
    BY DEF say
  <1>4. said' \in [Conns -> Seq(Messages)]
    BY <1>2, <1>3 DEF ChatInv, TypeOK
  <1>5. \A l \in Conns : taken[l] <= Len(said'[l])
    <2>1. Len(said[k]) \in Nat
      BY <1>1, LenProperties
    <2> QED
      BY <1>1, <1>2, <1>3, <2>1 DEF ChatInv, TypeOK
  <1>6. TypeOK'
    BY <1>4, <1>5 DEF ChatInv, TypeOK, say, serverVars, listVars, threadVars, flagVars
  <1> QED
    BY <1>6, SameList DEF ChatInv, TypeOK, say, serverVars, threadVars, flagVars

LEMMA receive_messageInv ==
    ASSUME ChatInv, ~ub, NEW k \in Conns, receive_message(k) PROVE ChatInv'
  <1>1. unread' \in [Conns -> 0 .. SendBuffer]
    BY ChatAssumption DEF ChatInv, TypeOK, receive_message
  <1>2. TypeOK'
    BY <1>1 DEF ChatInv, TypeOK, receive_message, serverVars, listVars, threadVars, flagVars
  <1> QED
    BY <1>2, SameList DEF ChatInv, TypeOK, receive_message, serverVars, threadVars, flagVars

-----------------------------------------------------------------------------
(* handle_chat_client, but for the removal *)

Labels == {"recv", "reply", "broadcast", "sending", "remove"}

(* A thread that runs goes on. *)
LEMMA GotoInv ==
    ASSUME ChatInv, TypeOK', NEW t \in Threads, NEW label \in Labels, thread[t] \in Labels,
           Goto(t, label),
           UNCHANGED <<listVars, fds, acceptor, failed, ptr, conn, life, ub, raced>>, ~ub
    PROVE  ChatInv'
  <1>1. \A s \in Threads : thread'[s] = IF s = t THEN label ELSE thread[s]
    BY DEF Goto, ChatInv, TypeOK
  <1>2. \A s \in Threads : /\ thread'[s] = "none" <=> thread[s] = "none"
                           /\ thread'[s] = "exited" <=> thread[s] = "exited"
    BY <1>1 DEF Labels
  <1> QED
    BY <1>2, SameList DEF ChatInv, TypeOK

LEMMA GotoType ==
    ASSUME TypeOK, NEW t \in Threads, NEW label \in Labels, Goto(t, label)
    PROVE  thread' \in [Threads -> {"none", "recv", "reply", "broadcast", "sending", "remove",
                                    "exited"}]
  BY DEF Goto, TypeOK, Labels

LEMMA PeerType == ASSUME TypeOK, NEW p PROVE Peer(p) \in Conns \cup {Nobody}
  BY DEF TypeOK, Peer

LEMMA LinesType ==
    ASSUME TypeOK, NEW k \in Conns, NEW n \in Nat
    PROVE  Lines(k, n) \in Seq(Sent)
  <1>1. taken[k] \in Nat
    BY DEF TypeOK
  <1>2. \A i \in 1 .. n : [from |-> k, n |-> taken[k] + i] \in Sent
    BY <1>1 DEF Sent
  <1>3. Lines(k, n) \in [1 .. n -> Sent]
    BY <1>2 DEF Lines
  <1> QED
    BY <1>3, SeqDef

(* What recv_lines does, with its local variables named. *)
LEMMA recv_linesFacts ==
    ASSUME ChatInv, NEW t \in Threads, recv_lines(t)
    PROVE  \E k \in Conns : /\ k = Peer(ptr[t])
             /\ \E n \in 1 .. Len(said[k]) - taken[k], renames \in BOOLEAN :
                   /\ renames => said[k][taken[k] + 1] = Rename
                   /\ taken' = [taken EXCEPT ![k] = @ + n]
                   /\ batch' = [batch EXCEPT ![t] = IF renames THEN <<>> ELSE Lines(k, n)]
                   /\ merged' = IF renames THEN merged \cup {<<k, taken[k] + i>> : i \in 2 .. n}
                                           ELSE merged
                   /\ Goto(t, IF renames THEN "reply" ELSE "broadcast")
  <1>1. PICK k \in Conns : k = Peer(ptr[t])
    BY PeerType DEF recv_lines, ChatInv
  <1>2. \E n \in 1 .. Len(said[k]) - taken[k], renames \in BOOLEAN :
           /\ renames => said[k][taken[k] + 1] = Rename
           /\ taken' = [taken EXCEPT ![k] = @ + n]
           /\ batch' = [batch EXCEPT ![t] = IF renames THEN <<>> ELSE Lines(k, n)]
           /\ merged' = IF renames THEN merged \cup {<<k, taken[k] + i>> : i \in 2 .. n} ELSE merged
           /\ Goto(t, IF renames THEN "reply" ELSE "broadcast")
    <2>1. CASE said[k][taken[k] + 1] = Rename
      <3>1. \E n \in 1 .. Len(said[k]) - taken[k] :
               /\ taken' = [taken EXCEPT ![k] = @ + n]
               /\ batch' = [batch EXCEPT ![t] = <<>>]
               /\ merged' = merged \cup {<<k, taken[k] + i>> : i \in 2 .. n}
               /\ Goto(t, "reply")
        <4>1. PICK n \in 1 .. Len(said[k]) - taken[k] :
                 /\ taken' = [taken EXCEPT ![k] = @ + n]
                 /\ batch' = [batch EXCEPT ![t] = <<>>]
                 /\ merged' = merged \cup {<<Peer(ptr[t]), taken[Peer(ptr[t])] + i>> : i \in 2 .. n}
                 /\ Goto(t, "reply")
          BY <1>1, <2>1 DEF recv_lines
        <4>2. {<<Peer(ptr[t]), taken[Peer(ptr[t])] + i>> : i \in 2 .. n}
              = {<<k, taken[k] + i>> : i \in 2 .. n}
          BY <1>1
        <4> QED
          BY <4>1, <4>2
      <3> QED
        BY <2>1, <3>1
    <2>2. CASE said[k][taken[k] + 1] # Rename
      <3>1. \E n \in 1 .. Len(said[k]) - taken[k] :
               /\ taken' = [taken EXCEPT ![k] = @ + n]
               /\ batch' = [batch EXCEPT ![t] = Lines(k, n)]
               /\ merged' = merged
               /\ Goto(t, "broadcast")
        BY <1>1, <2>2 DEF recv_lines
      <3> QED
        BY <3>1
    <2> QED
      BY <2>1, <2>2
  <1> QED
    BY <1>1, <1>2

LEMMA recv_linesInv == ASSUME ChatInv, ~ub, NEW t \in Threads, recv_lines(t) PROVE ChatInv'
  <1>1. PICK k \in Conns : /\ k = Peer(ptr[t])
           /\ \E n \in 1 .. Len(said[k]) - taken[k], renames \in BOOLEAN :
                 /\ taken' = [taken EXCEPT ![k] = @ + n]
                 /\ batch' = [batch EXCEPT ![t] = IF renames THEN <<>> ELSE Lines(k, n)]
                 /\ merged' = IF renames THEN merged \cup {<<k, taken[k] + i>> : i \in 2 .. n}
                                         ELSE merged
                 /\ Goto(t, IF renames THEN "reply" ELSE "broadcast")
    BY recv_linesFacts
  <1>2. PICK n \in 1 .. Len(said[k]) - taken[k], renames \in BOOLEAN :
           /\ taken' = [taken EXCEPT ![k] = @ + n]
           /\ batch' = [batch EXCEPT ![t] = IF renames THEN <<>> ELSE Lines(k, n)]
           /\ merged' = IF renames THEN merged \cup {<<k, taken[k] + i>> : i \in 2 .. n} ELSE merged
           /\ Goto(t, IF renames THEN "reply" ELSE "broadcast")
    BY <1>1
  <1>3. /\ thread[t] = "recv"
        /\ UNCHANGED <<listVars, mutex, fds, acceptor, failed, ptr, next, conn, said, inbox, unread,
                       life, ub, raced>>
    BY DEF recv_lines, At
  <1>4. taken[k] \in Nat /\ Len(said[k]) \in Nat /\ n \in Nat /\ taken[k] + n <= Len(said[k])
    BY LenProperties DEF ChatInv, TypeOK
  <1>5. taken' \in [Conns -> Nat] /\ \A l \in Conns : taken'[l] <= Len(said[l])
    BY <1>2, <1>4 DEF ChatInv, TypeOK
  <1>6. batch' \in [Threads -> Seq(Sent)]
    <2>1. Lines(k, n) \in Seq(Sent) /\ <<>> \in Seq(Sent)
      BY <1>4, LinesType, EmptySeq DEF ChatInv
    <2> QED
      BY <1>2, <2>1 DEF ChatInv, TypeOK
  <1>7. merged' \subseteq Conns \X Nat
    BY <1>2, <1>4 DEF ChatInv, TypeOK
  <1>8. PICK label \in Labels : Goto(t, label)
    BY <1>2 DEF Labels
  <1>9. TypeOK'
    <2>1. thread' \in [Threads -> {"none", "recv", "reply", "broadcast", "sending", "remove",
                                   "exited"}]
      BY <1>8, GotoType DEF ChatInv
    <2> QED
      BY <1>3, <1>5, <1>6, <1>7, <2>1 DEF ChatInv, TypeOK, listVars
  <1> QED
    BY <1>3, <1>8, <1>9, GotoInv DEF Labels

LEMMA recv_endInv == ASSUME ChatInv, ~ub, NEW t \in Threads, recv_end(t) PROVE ChatInv'
  <1>1. /\ thread[t] = "recv" /\ Goto(t, "remove")
        /\ UNCHANGED <<listVars, clientVars, mutex, fds, acceptor, failed, ptr, batch, next,
                       flagVars>>
    BY DEF recv_end, At, AfterEnd
  <1>2. TypeOK'
    <2>1. thread' \in [Threads -> {"none", "recv", "reply", "broadcast", "sending", "remove",
                                   "exited"}]
      BY <1>1, GotoType DEF ChatInv, Labels
    <2> QED
      BY <1>1, <2>1 DEF ChatInv, TypeOK, listVars, clientVars, flagVars
  <1> QED
    BY <1>1, <1>2, GotoInv DEF Labels, clientVars, flagVars

LEMMA sendType ==
    ASSUME TypeOK, NEW k, NEW lines \in Seq(Sent), k \in Conns \cup {Nobody}, send(k, lines)
    PROVE  unread' \in [Conns -> 0 .. SendBuffer] /\ inbox' \in [Conns -> Seq(Sent)]
  <1>1. CASE k # Nobody /\ conn[k] = "open"
    <2>1. /\ k \in Conns /\ unread[k] < SendBuffer
          /\ unread' = [unread EXCEPT ![k] = @ + 1]
          /\ inbox' = [inbox EXCEPT ![k] = inbox[k] \o lines]
      BY <1>1 DEF send
    <2>2. unread[k] \in 0 .. SendBuffer /\ inbox[k] \in Seq(Sent) /\ SendBuffer \in Nat
      BY <2>1, ChatAssumption DEF TypeOK
    <2>3. unread[k] + 1 \in 0 .. SendBuffer
      BY <2>1, <2>2
    <2>4. inbox[k] \o lines \in Seq(Sent)
      BY <2>2, ConcatProperties
    <2> QED
      BY <2>1, <2>3, <2>4 DEF TypeOK
  <1>2. CASE ~(k # Nobody /\ conn[k] = "open")
    BY <1>2 DEF send, TypeOK
  <1> QED
    BY <1>1, <1>2

LEMMA renameInv == ASSUME ChatInv, ~ub, NEW t \in Threads, rename(t) PROVE ChatInv'
  <1>1. /\ thread[t] = "reply" /\ Goto(t, "recv")
        /\ UNCHANGED <<listVars, mutex, fds, acceptor, failed, ptr, batch, next, conn, said, taken,
                       flagVars>>
    BY DEF rename, At
  <1>2. unread' \in [Conns -> 0 .. SendBuffer] /\ inbox' \in [Conns -> Seq(Sent)]
    <2>1. [from |-> Nobody, n |-> 0] \in Sent
      BY DEF Sent
    <2>2. <<[from |-> Nobody, n |-> 0]>> \in Seq(Sent)
      BY <2>1
    <2>3. Peer(ptr[t]) \in Conns \cup {Nobody}
      BY PeerType DEF ChatInv
    <2> QED
      BY <2>2, <2>3, sendType DEF rename, ChatInv
  <1>3. TypeOK'
    <2>1. thread' \in [Threads -> {"none", "recv", "reply", "broadcast", "sending", "remove",
                                   "exited"}]
      BY <1>1, GotoType DEF ChatInv, Labels
    <2> QED
      BY <1>1, <1>2, <2>1 DEF ChatInv, TypeOK, listVars, flagVars
  <1> QED
    BY <1>1, <1>3, GotoInv DEF Labels, flagVars

LEMMA broadcast_lockInv ==
    ASSUME ChatInv, ~ub, NEW t \in Threads, broadcast_lock(t) PROVE ChatInv'
  <1>1. /\ thread[t] = "broadcast" /\ Goto(t, "sending") /\ mutex' = t
        /\ UNCHANGED <<listVars, clientVars, fds, acceptor, failed, ptr, batch, next, flagVars>>
    BY DEF broadcast_lock, At, pthread_mutex_lock
  <1>2. TypeOK'
    <2>1. thread' \in [Threads -> {"none", "recv", "reply", "broadcast", "sending", "remove",
                                   "exited"}]
      BY <1>1, GotoType DEF ChatInv, Labels
    <2> QED
      BY <1>1, <2>1 DEF ChatInv, TypeOK, listVars, clientVars, flagVars
  <1> QED
    BY <1>1, <1>2, GotoInv DEF Labels, clientVars, flagVars

LEMMA broadcast_sendInv ==
    ASSUME ChatInv, ~ub, NEW t \in Threads, broadcast_send(t) PROVE ChatInv'
  <1>1. unread' \in [Conns -> 0 .. SendBuffer] /\ inbox' \in [Conns -> Seq(Sent)]
    <2>1. batch[t] \in Seq(Sent) /\ Peer(clients[next[t]]) \in Conns \cup {Nobody}
      BY PeerType DEF ChatInv, TypeOK
    <2> QED
      BY <2>1, sendType DEF broadcast_send, ChatInv
  <1>2. next' \in [Threads -> Nat]
    BY DEF broadcast_send, ChatInv, TypeOK
  <1>3. TypeOK'
    BY <1>1, <1>2 DEF broadcast_send, ChatInv, TypeOK, listVars, flagVars
  <1> QED
    BY <1>3, SameList DEF broadcast_send, ChatInv, TypeOK, flagVars

LEMMA broadcast_endInv ==
    ASSUME ChatInv, ~ub, NEW t \in Threads, broadcast_end(t) PROVE ChatInv'
  <1>1. /\ thread[t] = "sending" /\ Goto(t, "recv") /\ mutex' = Nobody
        /\ batch' = [batch EXCEPT ![t] = <<>>] /\ next' = [next EXCEPT ![t] = 1]
        /\ UNCHANGED <<listVars, clientVars, fds, acceptor, failed, ptr, flagVars>>
    BY DEF broadcast_end, pthread_mutex_unlock
  <1>2. batch' \in [Threads -> Seq(Sent)] /\ next' \in [Threads -> Nat]
    <2>1. <<>> \in Seq(Sent)
      BY EmptySeq
    <2> QED
      BY <1>1, <2>1 DEF ChatInv, TypeOK
  <1>3. TypeOK'
    <2>1. thread' \in [Threads -> {"none", "recv", "reply", "broadcast", "sending", "remove",
                                   "exited"}]
      BY <1>1, GotoType DEF ChatInv, Labels
    <2> QED
      BY <1>1, <1>2, <2>1 DEF ChatInv, TypeOK, listVars, clientVars, flagVars
  <1> QED
    BY <1>1, <1>3, GotoInv DEF Labels, clientVars, flagVars

-----------------------------------------------------------------------------
(* The accepting thread *)

LEMMA acceptInv ==
    ASSUME ChatInv, ~ub, life = "serving", NEW k \in Conns, accept(k) PROVE ChatInv'
  <1> USE Sizes
  <1>1. PICK f \in Fds : /\ fds[f] = Nobody
                         /\ fds' = [fds EXCEPT ![f] = k]
                         /\ acceptor' = [Idle EXCEPT !.at = "add", !.who = k, !.fd = f]
    BY DEF accept
  <1>2. /\ acceptor.at = "accept" /\ conn[k] \in Waiting
        /\ conn' = [conn EXCEPT ![k] = IF @ = "pending" THEN "open" ELSE "closed"]
        /\ UNCHANGED <<clients, count, socket, thread, ptr, batch, next, mutex, failed, life, ub,
                       raced, merged, said, taken, inbox, unread>>
    BY DEF accept, Waiting, listVars, threadVars, flagVars
  <1>3. /\ acceptor'.at = "add" /\ acceptor'.who = k /\ acceptor'.fd = f
        /\ acceptor' \in Acceptors
    BY <1>1 DEF Idle, Acceptors
  <1>4. \A g \in Fds : fds'[g] = IF g = f THEN k ELSE fds[g]
    BY <1>1 DEF ChatInv, TypeOK
  <1>5. \A l \in Conns : conn'[l] \in Waiting => l # k /\ conn[l] \in Waiting
    BY <1>2 DEF ChatInv, TypeOK, Waiting
  <1>6. TypeOK'
    <2>1. fds' \in [Fds -> Conns \cup {Nobody}]
      BY <1>1 DEF ChatInv, TypeOK
    <2>2. conn' \in [Conns -> {"away", "pending", "pending_closed", "open", "closed"}]
      BY <1>2 DEF ChatInv, TypeOK
    <2> QED
      BY <1>2, <1>3, <2>1, <2>2 DEF ChatInv, TypeOK
  <1>7. AcceptorOK'
    <2>1. k \in Threads /\ thread'[k] = "none" /\ fds'[f] = k /\ ~Adding'
      BY <1>2, <1>3, <1>4 DEF ChatInv, Fresh, Waiting, Adding
    <2> QED
      BY <1>3, <2>1 DEF AcceptorOK
  <1>8. Fresh'
    <2>1. \A l \in Conns : conn'[l] \in Waiting =>
             thread'[l] = "none" /\ acceptor'.who # l /\ \A g \in Fds : fds'[g] # l
      BY <1>2, <1>3, <1>4, <1>5 DEF ChatInv, Fresh, Waiting
    <2>2. \A t \in 1 .. MaxFailures : t > failed => thread'[t] = "none" /\ acceptor'.who # t
      BY <1>2, <1>3, ChatAssumption DEF ChatInv, Fresh
    <2> QED
      BY <1>2, <2>1, <2>2 DEF Fresh, Waiting
  <1>9. OneFd'
    BY <1>2, <1>4 DEF ChatInv, OneFd, Fresh, Waiting
  <1>10. Running' = Running /\ ~Adding /\ ~Adding' /\ Listed' = Listed
    BY <1>2, <1>3 DEF Running, Adding, Listed
  <1>11. Counted' /\ FreedOnlyByRace'
    BY <1>2, <1>10 DEF ChatInv, Counted, FreedOnlyByRace
  <1>12. \A p \in Listed : socket[p] # f
    BY <1>1 DEF ChatInv, Intact, Fds, Bad
  <1>13. Intact'
    <2>1. \A p \in Listed : socket[p] = Bad \/ fds'[socket[p]] # Nobody
      <3>1. \A p \in Listed : socket[p] # Bad => socket[p] \in Fds
        BY DEF ChatInv, Intact, Live, TypeOK
      <3> QED
        BY <1>4, <3>1 DEF ChatInv, Intact
    <2> QED
      BY <1>2, <1>3, <1>10, <1>12, <2>1 DEF ChatInv, Intact, Distinct, Live
  <1>14. ASSUME ~raced, failed < 2 PROVE Owned'
    <2>1. \A t, p : Owns(t, p) => Owns(t, p)'
      BY <1>2, <1>4, <1>10, <1>12 DEF Owns
    <2> QED
      BY <1>2, <1>10, <1>14, <2>1 DEF ChatInv, Owned
  <1> QED
    BY <1>2, <1>6, <1>7, <1>8, <1>9, <1>11, <1>13, <1>14 DEF ChatInv

LEMMA accept_failsInv ==
    ASSUME ChatInv, ~ub, life = "serving", accept_fails PROVE ChatInv'
  <1> USE Sizes
  <1>1. /\ acceptor.at = "accept" /\ failed < MaxFailures /\ failed' = failed + 1
        /\ acceptor' = [Idle EXCEPT !.at = "add", !.who = failed + 1, !.fd = Bad]
        /\ UNCHANGED <<clients, count, socket, thread, ptr, batch, next, mutex, fds, conn, life, ub,
                       raced, merged, said, taken, inbox, unread>>
    BY DEF accept_fails, listVars, threadVars, flagVars, clientVars
  <1>2. failed + 1 \in 1 .. MaxFailures /\ failed \in Nat
    BY <1>1, ChatAssumption DEF ChatInv, TypeOK
  <1>3. failed + 1 \in Threads /\ failed + 1 \notin Conns
    BY <1>2, ChatAssumption DEF Threads
  <1>4. /\ acceptor'.at = "add" /\ acceptor'.who = failed + 1 /\ acceptor'.fd = Bad
        /\ acceptor' \in Acceptors
    BY <1>1, <1>3 DEF Idle, Acceptors
  <1>5. TypeOK'
    <2>1. failed' \in 0 .. MaxFailures
      BY <1>1, <1>2, ChatAssumption
    <2> QED
      BY <1>1, <1>4, <2>1 DEF ChatInv, TypeOK
  <1>6. AcceptorOK'
    <2>1. thread'[failed + 1] = "none" /\ ~Adding'
      BY <1>1, <1>2, <1>4 DEF ChatInv, Fresh, Adding
    <2> QED
      BY <1>3, <1>4, <2>1 DEF AcceptorOK
  <1>7. Fresh'
    <2>1. \A t \in 1 .. MaxFailures : t > failed' => thread'[t] = "none" /\ acceptor'.who # t
      BY <1>1, <1>2, <1>4 DEF ChatInv, Fresh
    <2> QED
      BY <1>1, <1>3, <1>4, <2>1 DEF ChatInv, Fresh
  <1>8. Running' = Running /\ ~Adding /\ ~Adding' /\ Listed' = Listed
    BY <1>1, <1>4 DEF Running, Adding, Listed
  <1>9. Counted' /\ FreedOnlyByRace' /\ OneFd'
    BY <1>1, <1>8 DEF ChatInv, Counted, FreedOnlyByRace, OneFd
  <1>10. Intact'
    BY <1>1, <1>4, <1>8 DEF ChatInv, Intact, Distinct, Live
  <1>11. ASSUME ~raced', failed' < 2 PROVE Owned'
    <2>1. ~raced /\ failed < 2
      BY <1>1, <1>2, <1>11
    <2> QED
      BY <1>1, <1>8, <2>1 DEF ChatInv, Owned, Owns
  <1> QED
    BY <1>1, <1>5, <1>6, <1>7, <1>9, <1>10, <1>11 DEF ChatInv

LEMMA RunningFinite ==
    IsFiniteSet(Running) /\ Cardinality(Running) \in Nat
  BY Sizes, FS_Subset, FS_CardinalityType DEF Running

(* There is room for one entry more, because there is an address for it. *)
LEMMA RoomInArray ==
    ASSUME TypeOK, Intact, NEW p \in Ptrs, ~Live(p)
    PROVE  p \notin Listed /\ count + 1 \in 1 .. N + MaxFailures
  <1>1. p \notin Listed
    BY DEF Intact
  <1>2. IsFiniteSet(Listed) /\ Cardinality(Listed) = count /\ Listed \subseteq Ptrs
    BY ListedCount
  <1>3. Cardinality(Listed \cup {p}) = count + 1
    BY <1>1, <1>2, FS_AddElement
  <1>4. Cardinality(Listed \cup {p}) <= N + MaxFailures
    BY <1>2, Sizes, FS_Subset
  <1>5. count \in Nat
    BY Sizes DEF TypeOK
  <1> QED
    BY <1>1, <1>3, <1>4, <1>5, Sizes

LEMMA add_chat_clientInv ==
    ASSUME ChatInv, ~ub, life = "serving", add_chat_client PROVE ChatInv'
  <1> USE Sizes
  <1>1. PICK p \in Ptrs : /\ ~Live(p)
                          /\ socket' = [socket EXCEPT ![p] = acceptor.fd]
                          /\ clients' = [clients EXCEPT ![count + 1] = p]
                          /\ acceptor' = [acceptor EXCEPT !.at = "count", !.added = p]
    BY DEF add_chat_client
  <1>2. /\ acceptor.at = "add" /\ count' = count + 1
        /\ UNCHANGED <<thread, ptr, batch, next, mutex, fds, conn, failed, life, ub, raced, merged,
                       said, taken, inbox, unread>>
    BY DEF add_chat_client, threadVars, flagVars, clientVars
  <1>3. TypeOK /\ Intact /\ AcceptorOK /\ count \in Nat
    <2>1. TypeOK /\ Intact /\ AcceptorOK
      BY DEF ChatInv
    <2> QED
      BY <2>1, CountNat
  <1>4. p \notin Listed /\ count + 1 \in 1 .. N + MaxFailures
    BY <1>1, <1>3, RoomInArray
  <1>5. /\ acceptor'.at = "count" /\ acceptor'.added = p
        /\ acceptor'.who = acceptor.who /\ acceptor'.fd = acceptor.fd
        /\ acceptor' \in Acceptors
    <2>1. acceptor \in Acceptors
      BY <1>3 DEF TypeOK
    <2> QED
      BY <1>1, <2>1 DEF Acceptors
  <1>6. /\ acceptor.who \in Threads /\ thread[acceptor.who] = "none"
        /\ IF acceptor.who \in Conns
           THEN acceptor.fd \in Fds /\ fds[acceptor.fd] = acceptor.who
           ELSE acceptor.fd = Bad
    BY <1>2, <1>3 DEF AcceptorOK
  <1>7. /\ \A j \in Ptrs : clients'[j] = IF j = count + 1 THEN p ELSE clients[j]
        /\ \A q \in Ptrs : socket'[q] = IF q = p THEN acceptor.fd ELSE socket[q]
    BY <1>1, <1>3 DEF TypeOK
  <1>8. \A j \in 1 .. count : j \in Ptrs /\ j # count + 1
    BY <1>3, <1>4 DEF Ptrs
  <1>9. count + 1 \in Ptrs /\ count + 1 \in 1 .. count + 1
    BY <1>3, <1>4 DEF Ptrs
  <1>10. Listed' = Listed \cup {p}
    <2>1. \A j \in 1 .. count : clients'[j] = clients[j]
      BY <1>7, <1>8
    <2>2. 1 .. count + 1 = (1 .. count) \cup {count + 1}
      BY <1>3
    <2> QED
      BY <1>2, <1>7, <1>9, <2>1, <2>2 DEF Listed
  <1>11. Listed \subseteq Ptrs /\ \A q \in Listed : q # p /\ socket'[q] = socket[q]
    BY <1>3, <1>4, <1>7 DEF Intact
  <1>12. TypeOK'
    <2>1. clients' \in [Ptrs -> Ptrs \cup {Null}] /\ socket' \in [Ptrs -> Fds \cup {0, Bad}]
      BY <1>1, <1>3, <1>6 DEF TypeOK
    <2>2. \A j \in 1 .. count + 1 : clients'[j] # Null
      <3>1. \A j \in 1 .. count : clients'[j] # Null
        BY <1>3, <1>7, <1>8 DEF TypeOK
      <3>2. clients'[count + 1] # Null
        BY <1>7, <1>9
      <3> QED
        BY <1>3, <3>1, <3>2
    <2>3. count + 1 \in 0 .. N + MaxFailures
      BY <1>4
    <2> QED
      BY <1>2, <1>3, <1>5, <2>1, <2>2, <2>3 DEF TypeOK
  <1>13. AcceptorOK'
    BY <1>2, <1>5, <1>6 DEF AcceptorOK, Adding
  <1>14. Fresh' /\ OneFd' /\ FreedOnlyByRace'
    BY <1>2, <1>5 DEF ChatInv, Fresh, OneFd, FreedOnlyByRace
  <1>15. Running' = Running /\ ~Adding /\ Adding'
    BY <1>2, <1>5 DEF Running, Adding
  <1>16. Counted'
    BY <1>2, <1>15, RunningFinite DEF ChatInv, Counted
  <1>17. Intact'
    <2>1. Distinct'
      <3>1. \A j \in 1 .. count : clients[j] \in Listed /\ clients'[j] = clients[j]
        BY <1>7, <1>8 DEF Listed
      <3>2. clients'[count + 1] = p
        BY <1>7, <1>9
      <3>3. ASSUME NEW i \in 1 .. count + 1, NEW j \in 1 .. count + 1, clients'[i] = clients'[j]
            PROVE  i = j
        BY <1>3, <1>4, <3>1, <3>2, <3>3 DEF Intact, Distinct
      <3> QED
        BY <1>2, <3>3 DEF Distinct
    <2>2. Listed' = {q \in Ptrs : Live(q)'}
      BY <1>3, <1>6, <1>7, <1>10, <1>11 DEF Intact, Live, Fds
    <2>3. \A q \in Listed' : socket'[q] = Bad \/ fds'[socket'[q]] # Nobody
      BY <1>2, <1>3, <1>6, <1>7, <1>10, <1>11 DEF Intact
    <2>4. \A q, r \in Listed' : socket'[q] = socket'[r] => q = r \/ socket'[q] = Bad
      BY <1>2, <1>3, <1>6, <1>7, <1>10, <1>11 DEF Intact
    <2> QED
      BY <1>5, <2>1, <2>2, <2>3, <2>4 DEF Intact
  <1>18. ASSUME ~raced, failed < 2 PROVE Owned'
    <2>1. Owned
      BY <1>18 DEF ChatInv
    <2>2. ASSUME NEW t, NEW q, Owns(t, q) PROVE Owns(t, q)'
      BY <1>2, <1>10, <1>11, <2>2 DEF Owns
    <2>3. Owns(acceptor.who, p)'
      <3>1. socket'[p] = acceptor.fd /\ p \in Listed' /\ fds' = fds
        BY <1>2, <1>7, <1>10
      <3>2. PICK t \in Threads : t = acceptor.who
        BY <1>6
      <3>3. Owns(t, p)'
        BY <1>6, <3>1, <3>2 DEF Owns
      <3> QED
        BY <1>5, <3>2, <3>3
    <2>4. \A t \in Running' : Owns(t, ptr[t])'
      BY <1>2, <1>15, <2>1, <2>2 DEF Owned
    <2>5. \A q \in Listed' : \/ \E t \in Running' : ptr'[t] = q
                             \/ Adding' /\ acceptor'.added = q
      BY <1>2, <1>5, <1>10, <1>15, <2>1 DEF Owned
    <2> QED
      BY <1>2, <1>5, <1>15, <2>3, <2>4, <2>5 DEF Owned
  <1> QED
    BY <1>2, <1>12, <1>13, <1>14, <1>16, <1>17, <1>18 DEF ChatInv

(* The other steps of the accepting thread touch neither the array nor the *)
(* descriptors.                                                            *)
LEMMA SameArray ==
    ASSUME ChatInv, life = "serving", UNCHANGED <<listVars, fds>>, acceptor'.at # "add"
    PROVE  Listed' = Listed /\ Intact'
  <1>1. Listed' = Listed
    BY DEF Listed, listVars
  <1> QED
    BY <1>1 DEF ChatInv, Intact, Distinct, Live, listVars

LEMMA add_read_countInv ==
    ASSUME ChatInv, ~ub, life = "serving", add_read_count PROVE ChatInv'
  <1> USE Sizes
  <1>1. /\ acceptor.at = "count" /\ acceptor' = [acceptor EXCEPT !.at = "cell", !.n = count]
        /\ UNCHANGED <<clients, count, socket, thread, ptr, batch, next, mutex, fds, conn, failed,
                       life, ub, raced, merged, said, taken, inbox, unread>>
    BY DEF add_read_count, listVars, threadVars, flagVars, clientVars
  <1>2. count \in Ptrs
    <2>1. count = Cardinality(Running) + 1
      BY <1>1 DEF ChatInv, Counted, Adding
    <2>2. count <= N + MaxFailures
      BY DEF ChatInv, TypeOK
    <2> QED
      BY <2>1, <2>2, RunningFinite DEF Ptrs
  <1>3. /\ acceptor'.at = "cell" /\ acceptor'.added = acceptor.added /\ acceptor'.n = count
        /\ acceptor'.who = acceptor.who /\ acceptor' \in Acceptors
    <2>1. acceptor \in Acceptors
      BY DEF ChatInv, TypeOK
    <2> QED
      BY <1>1, <1>2, <2>1 DEF Acceptors
  <1>4. TypeOK'
    BY <1>1, <1>3 DEF ChatInv, TypeOK
  <1>5. AcceptorOK'
    BY <1>1, <1>2, <1>3 DEF ChatInv, AcceptorOK, Adding
  <1>6. Fresh' /\ OneFd' /\ FreedOnlyByRace'
    BY <1>1, <1>3 DEF ChatInv, Fresh, OneFd, FreedOnlyByRace
  <1>7. Running' = Running /\ Adding /\ Adding' /\ Counted'
    BY <1>1, <1>3 DEF ChatInv, Running, Adding, Counted
  <1>8. Listed' = Listed /\ Intact'
    BY <1>1, <1>3, SameArray DEF listVars
  <1>9. ASSUME ~raced, failed < 2 PROVE Owned'
    BY <1>1, <1>3, <1>7, <1>8, <1>9 DEF ChatInv, Owned, Owns
  <1> QED
    BY <1>1, <1>4, <1>5, <1>6, <1>7, <1>8, <1>9 DEF ChatInv

LEMMA add_returnInv ==
    ASSUME ChatInv, ~ub, life = "serving", add_return PROVE ChatInv'
  <1> USE Sizes
  <1>1. /\ acceptor.at = "cell"
        /\ acceptor' = [acceptor EXCEPT !.at = "spawn", !.got = clients[acceptor.n]]
        /\ raced' = (raced \/ clients[acceptor.n] # acceptor.added)
        /\ UNCHANGED <<clients, count, socket, thread, ptr, batch, next, mutex, fds, conn, failed,
                       life, ub, merged, said, taken, inbox, unread>>
    BY DEF add_return, listVars, threadVars, clientVars
  <1>2. clients[acceptor.n] \in Ptrs \cup {Null}
    BY <1>1 DEF ChatInv, TypeOK, AcceptorOK
  <1>3. /\ acceptor'.at = "spawn" /\ acceptor'.added = acceptor.added
        /\ acceptor'.got = clients[acceptor.n]
        /\ acceptor'.who = acceptor.who /\ acceptor' \in Acceptors
    <2>1. acceptor \in Acceptors
      BY DEF ChatInv, TypeOK
    <2> QED
      BY <1>1, <1>2, <2>1 DEF Acceptors
  <1>4. TypeOK'
    <2>1. raced' \in BOOLEAN
      BY <1>1
    <2> QED
      BY <1>1, <1>3, <2>1 DEF ChatInv, TypeOK
  <1>5. AcceptorOK'
    BY <1>1, <1>3 DEF ChatInv, AcceptorOK, Adding
  <1>6. Fresh' /\ OneFd' /\ FreedOnlyByRace'
    BY <1>1, <1>3 DEF ChatInv, Fresh, OneFd, FreedOnlyByRace
  <1>7. Running' = Running /\ Adding /\ Adding' /\ Counted'
    BY <1>1, <1>3 DEF ChatInv, Running, Adding, Counted
  <1>8. Listed' = Listed /\ Intact'
    BY <1>1, <1>3, SameArray DEF listVars
  <1>9. ASSUME ~raced', failed < 2 PROVE Owned'
    <2>1. ~raced
      BY <1>1, <1>9
    <2>2. Owned
      BY <1>9, <2>1 DEF ChatInv
    <2> QED
      BY <1>1, <1>3, <1>7, <1>8, <2>2 DEF Owned, Owns
  <1> QED
    BY <1>1, <1>4, <1>5, <1>6, <1>7, <1>8, <1>9 DEF ChatInv

LEMMA spawnInv ==
    ASSUME ChatInv, ~ub, life = "serving", spawn PROVE ChatInv'
  <1> USE Sizes
  <1>1. PICK t \in Threads : t = acceptor.who /\ thread[t] = "none"
    BY DEF ChatInv, AcceptorOK, spawn
  <1>2. /\ acceptor.at = "spawn" /\ acceptor' = Idle
        /\ thread' = [thread EXCEPT ![t] = "recv"]
        /\ ptr' = [ptr EXCEPT ![t] = acceptor.got]
        /\ UNCHANGED <<clients, count, socket, batch, next, mutex, fds, conn, failed,
                       life, ub, raced, merged, said, taken, inbox, unread>>
    BY <1>1 DEF spawn, listVars, flagVars, clientVars
  <1>3. acceptor'.at = "accept" /\ acceptor'.who = Nobody /\ acceptor' \in Acceptors
    BY <1>2 DEF Idle, Acceptors
  <1>4. acceptor.got \in Ptrs \cup {Null}
    BY DEF ChatInv, TypeOK, Acceptors
  <1>5. /\ \A s \in Threads : thread'[s] = IF s = t THEN "recv" ELSE thread[s]
        /\ \A s \in Threads : ptr'[s] = IF s = t THEN acceptor.got ELSE ptr[s]
    BY <1>2 DEF ChatInv, TypeOK
  <1>6. TypeOK'
    <2>1. /\ ptr' \in [Threads -> Ptrs \cup {Null}]
          /\ thread' \in [Threads -> {"none", "recv", "reply", "broadcast", "sending", "remove",
                                      "exited"}]
      BY <1>2, <1>4 DEF ChatInv, TypeOK
    <2> QED
      BY <1>2, <1>3, <2>1 DEF ChatInv, TypeOK
  <1>7. AcceptorOK' /\ OneFd' /\ FreedOnlyByRace'
    BY <1>2, <1>3 DEF ChatInv, AcceptorOK, OneFd, FreedOnlyByRace
  <1>8. Fresh'
    <2>1. \A k \in Conns : conn[k] \in {"away", "pending", "pending_closed"} =>
             k # t /\ thread'[k] = "none" /\ acceptor'.who # k
      BY <1>1, <1>3, <1>5 DEF ChatInv, Fresh
    <2>2. \A s \in 1 .. MaxFailures : s > failed => s # t /\ thread'[s] = "none" /\ acceptor'.who # s
      BY <1>1, <1>3, <1>5 DEF ChatInv, Fresh, Threads
    <2> QED
      BY <1>2, <2>1, <2>2 DEF ChatInv, Fresh
  <1>9. Running' = Running \cup {t} /\ t \notin Running /\ Adding /\ ~Adding'
    BY <1>1, <1>2, <1>3, <1>5 DEF Running, Adding
  <1>10. Counted'
    <2>1. Cardinality(Running \cup {t}) = Cardinality(Running) + 1
      BY <1>9, RunningFinite, FS_AddElement
    <2> QED
      BY <1>2, <1>9, <2>1, RunningFinite DEF ChatInv, Counted
  <1>11. Listed' = Listed /\ Intact'
    BY <1>2, <1>3, SameArray DEF listVars
  <1>12. ASSUME ~raced, failed < 2 PROVE Owned'
    <2>1. Owned /\ acceptor.got = acceptor.added
      BY <1>2, <1>12 DEF ChatInv, AcceptorOK
    <2>2. ASSUME NEW s, NEW q, Owns(s, q) PROVE Owns(s, q)'
      BY <1>2, <1>11, <2>2 DEF Owns
    <2>3. ASSUME NEW s \in Running' PROVE Owns(s, ptr[s])'
      <3>1. PICK q : q = ptr'[s]
        OBVIOUS
      <3>2. Owns(s, q)
        BY <1>1, <1>5, <1>9, <2>1, <2>3, <3>1 DEF Owned, Running
      <3> QED
        BY <2>2, <3>1, <3>2
    <2>4. \A q \in Listed' : \E s \in Running' : ptr'[s] = q
      <3>1. \A s \in Running : ptr'[s] = ptr[s]
        BY <1>5, <1>9 DEF Running
      <3>2. ptr'[t] = acceptor.added
        BY <1>5, <2>1
      <3> QED
        BY <1>9, <1>11, <2>1, <3>1, <3>2 DEF Owned
    <2> QED
      BY <1>9, <2>3, <2>4 DEF Owned
  <1> QED
    BY <1>2, <1>6, <1>7, <1>8, <1>10, <1>11, <1>12 DEF ChatInv

-----------------------------------------------------------------------------
(* The removal *)

(* A cell of an array without repetition is overwritten with the last one: *)
(* the entries are the old ones but for the one that was in the cell.      *)
LEMMA MoveLast ==
    ASSUME NEW c, NEW d, NEW n \in Nat \ {0}, NEW j \in 1 .. n,
           \A i, h \in 1 .. n : c[i] = c[h] => i = h,
           \A i \in 1 .. n : d[i] = IF i = j THEN c[n] ELSE c[i]
    PROVE  /\ {d[i] : i \in 1 .. n - 1} = {c[i] : i \in 1 .. n} \ {c[j]}
           /\ \A i, h \in 1 .. n - 1 : d[i] = d[h] => i = h
  <1>1. \A i \in 1 .. n - 1 : i \in 1 .. n /\ i # n
    OBVIOUS
  <1>2. n \in 1 .. n
    OBVIOUS
  <1>3. ASSUME NEW i \in 1 .. n - 1 PROVE d[i] \in {c[h] : h \in 1 .. n} \ {c[j]}
    <2>1. CASE i = j
      BY <1>1, <1>2, <2>1
    <2>2. CASE i # j
      BY <1>1, <2>2
    <2> QED
      BY <2>1, <2>2
  <1>4. ASSUME NEW h \in 1 .. n, c[h] # c[j] PROVE \E i \in 1 .. n - 1 : d[i] = c[h]
    <2>1. CASE h = n
      <3>1. j \in 1 .. n - 1 /\ d[j] = c[h]
        BY <1>2, <1>4, <2>1
      <3> QED
        BY <3>1
    <2>2. CASE h # n
      <3>1. h \in 1 .. n - 1 /\ d[h] = c[h]
        BY <1>4, <2>2
      <3> QED
        BY <3>1
    <2> QED
      BY <2>1, <2>2
  <1>5. ASSUME NEW i \in 1 .. n - 1, NEW h \in 1 .. n - 1, d[i] = d[h] PROVE i = h
    BY <1>1, <1>2, <1>5
  <1> QED
    BY <1>3, <1>4, <1>5

(* Only one thread, and one entry, stand for accepts that failed. *)
LEMMA OneBad ==
    ASSUME ChatInv, failed < 2, NEW s \in Threads, s \notin Conns,
           thread[s] # "none" \/ acceptor.who = s
    PROVE  s = 1
  <1>1. s \in 1 .. MaxFailures /\ failed \in Nat
    BY ChatAssumption DEF Threads, ChatInv, TypeOK
  <1>2. ~(s > failed)
    BY <1>1 DEF ChatInv, Fresh
  <1> QED
    BY <1>1, <1>2, ChatAssumption

(* Until then, two threads do not own the same entry, nor two entries with *)
(* the same socket.                                                        *)
LEMMA OwnersDiffer ==
    ASSUME ChatInv, failed < 2, NEW s, NEW t, NEW p, NEW q,
           s \in Threads, t \in Threads,
           thread[s] # "none" \/ acceptor.who = s,
           thread[t] # "none" \/ acceptor.who = t,
           Owns(s, p), Owns(t, q), socket[p] = socket[q]
    PROVE  s = t
  <1>1. CASE s \in Conns
    BY <1>1, Sizes DEF Owns
  <1>2. CASE s \notin Conns
    <2>1. t \notin Conns
      BY <1>2, Sizes DEF Owns
    <2> QED
      BY <1>2, <2>1, OneBad
  <1> QED
    BY <1>1, <1>2

LEMMA remove_chat_clientInv ==
    ASSUME ChatInv, ~ub, life = "serving", NEW t \in Threads, remove_chat_client(t)
    PROVE  ChatInv'
  <1> USE Sizes
  <1>1. /\ thread[t] = "remove" /\ Live(ptr[t]) /\ count' = count - 1
        /\ fds' = [f \in Fds |-> IF f = socket[ptr[t]] THEN Nobody ELSE fds[f]]
        /\ ptr' = [ptr EXCEPT ![t] = Null]
        /\ thread' = [thread EXCEPT ![t] = "exited"]
        /\ UNCHANGED <<conn, said, taken, inbox, unread, mutex, acceptor, failed, batch, next, life,
                       ub, raced, merged>>
    BY DEF remove_chat_client, At, Goto, clientVars, flagVars
  <1>2. PICK j \in 1 .. count : /\ socket[clients[j]] = socket[ptr[t]]
                                /\ socket' = [socket EXCEPT ![clients[j]] = 0]
                                /\ clients' = [clients EXCEPT ![j] = clients[count]]
    BY DEF remove_chat_client, Entry, Moved
  <1>3. TypeOK /\ Intact /\ AcceptorOK /\ count \in Nat
    <2>1. TypeOK /\ Intact /\ AcceptorOK
      BY DEF ChatInv
    <2> QED
      BY <2>1, CountNat
  <1>4. PICK out \in Listed, s \in Fds \cup {Bad} :
           out = clients[j] /\ s = socket[ptr[t]] /\ s = socket[out] /\ ptr[t] \in Listed
    <2>1. clients[j] \in Listed
      BY DEF Listed
    <2>2. ptr[t] \in Ptrs
      BY <1>1, <1>3 DEF Live, TypeOK
    <2>3. ptr[t] \in Listed
      BY <1>1, <1>3, <2>2 DEF Intact
    <2>4. socket[ptr[t]] \in Fds \cup {Bad}
      BY <1>1, <1>3, <2>2 DEF Live, TypeOK
    <2> QED
      BY <1>2, <2>1, <2>3, <2>4
  <1>5. Listed \subseteq Ptrs /\ 1 .. count \subseteq Ptrs /\ count \in Nat \ {0}
    <2>1. count \in 0 .. N + MaxFailures
      BY <1>3 DEF TypeOK
    <2> QED
      BY <1>3, <2>1 DEF Intact, Ptrs
  <1>6. \A q \in Ptrs : socket'[q] = IF q = out THEN 0 ELSE socket[q]
    BY <1>2, <1>3, <1>4, <1>5 DEF TypeOK
  <1>7. \A i \in 1 .. count : clients'[i] = IF i = j THEN clients[count] ELSE clients[i]
    BY <1>2, <1>3, <1>5 DEF TypeOK
  <1>8. Listed' = Listed \ {out} /\ Distinct'
    <2>1. \A i, h \in 1 .. count : clients[i] = clients[h] => i = h
      BY <1>3 DEF Intact, Distinct
    <2>2. /\ {clients'[i] : i \in 1 .. count - 1} = {clients[i] : i \in 1 .. count} \ {clients[j]}
          /\ \A i, h \in 1 .. count - 1 : clients'[i] = clients'[h] => i = h
      BY <1>5, <1>7, <2>1, MoveLast
    <2> QED
      BY <1>1, <1>4, <2>2 DEF Listed, Distinct
  <1>9. \A f \in Fds : fds'[f] = IF f = s THEN Nobody ELSE fds[f]
    BY <1>1, <1>4
  <1>10. /\ \A r \in Threads : thread'[r] = IF r = t THEN "exited" ELSE thread[r]
         /\ \A r \in Threads : ptr'[r] = IF r = t THEN Null ELSE ptr[r]
    BY <1>1, <1>3 DEF TypeOK
  <1>11. \A q \in Listed' : socket'[q] = socket[q] /\ (socket[q] = Bad \/ socket[q] # s)
    BY <1>3, <1>4, <1>5, <1>6, <1>8 DEF Intact
  <1>12. TypeOK'
    <2>1. /\ fds' \in [Fds -> Conns \cup {Nobody}]
          /\ ptr' \in [Threads -> Ptrs \cup {Null}]
          /\ socket' \in [Ptrs -> Fds \cup {0, Bad}]
      BY <1>1, <1>2, <1>3 DEF TypeOK
    <2>2. thread' \in [Threads -> {"none", "recv", "reply", "broadcast", "sending", "remove",
                                   "exited"}]
      BY <1>1, <1>3 DEF TypeOK
    <2>3. count \in Ptrs
      BY <1>5
    <2>4. clients' \in [Ptrs -> Ptrs \cup {Null}]
      BY <1>2, <1>3, <2>3 DEF TypeOK
    <2>5. count' \in 0 .. N + MaxFailures
      BY <1>1, <1>5, <2>3 DEF Ptrs
    <2>6. \A i \in 1 .. count' : clients'[i] # Null
      <3>1. \A i \in 1 .. count' : i \in 1 .. count
        BY <1>1, <1>5
      <3>2. \A i \in 1 .. count : clients[i] # Null
        BY <1>3 DEF TypeOK
      <3>3. count \in 1 .. count
        BY <1>5
      <3> QED
        BY <1>7, <3>1, <3>2, <3>3
    <2> QED
      BY <1>1, <1>3, <2>1, <2>2, <2>4, <2>5, <2>6 DEF TypeOK
  <1>13. AcceptorOK'
    <2>1. CASE acceptor.at = "accept"
      BY <1>1, <1>3, <2>1 DEF AcceptorOK
    <2>2. CASE acceptor.at # "accept"
      <3>1. acceptor.who # t /\ thread'[acceptor.who] = "none" /\ acceptor.who \in Threads
        BY <1>1, <1>3, <1>10, <2>2 DEF AcceptorOK
      <3>2. acceptor.at = "add" /\ acceptor.who \in Conns =>
               acceptor.fd \in Fds /\ fds'[acceptor.fd] = acceptor.who
        BY <1>3, <1>4, <1>9, <2>2 DEF AcceptorOK, Intact
      <3> QED
        BY <1>1, <1>3, <2>2, <3>1, <3>2 DEF AcceptorOK, Adding
    <2> QED
      BY <2>1, <2>2
  <1>14. Fresh'
    <2>1. \A k \in Conns : conn[k] \in {"away", "pending", "pending_closed"} =>
             k # t /\ thread'[k] = "none" /\ acceptor.who # k /\ \A f \in Fds : fds'[f] # k
      BY <1>1, <1>9, <1>10 DEF ChatInv, Fresh
    <2>2. \A r \in 1 .. MaxFailures : r > failed => thread'[r] = "none" /\ acceptor.who # r
      BY <1>1, <1>10 DEF ChatInv, Fresh, Threads
    <2> QED
      BY <1>1, <2>1, <2>2 DEF Fresh
  <1>15. OneFd' /\ FreedOnlyByRace'
    BY <1>1, <1>9 DEF ChatInv, OneFd, FreedOnlyByRace
  <1>16. Running' = Running \ {t} /\ t \in Running /\ Adding' = Adding
    BY <1>1, <1>10 DEF Running, Adding
  <1>17. Counted'
    <2>1. Cardinality(Running \ {t}) = Cardinality(Running) - 1
      BY <1>16, RunningFinite, FS_RemoveElement
    <2>2. count = Cardinality(Running) + IF Adding THEN 1 ELSE 0
      BY DEF ChatInv, Counted
    <2>3. count' = Cardinality(Running') + IF Adding' THEN 1 ELSE 0
      BY <1>1, <1>16, <2>1, <2>2, RunningFinite
    <2> QED
      BY <2>3 DEF Counted
  <1>18. Intact'
    <2>1. Listed' = {q \in Ptrs : Live(q)'}
      BY <1>3, <1>5, <1>6, <1>8 DEF Intact, Live
    <2>2. \A q \in Listed' : socket'[q] = Bad \/ fds'[socket'[q]] # Nobody
      <3>1. \A q \in Listed : socket[q] = Bad \/ socket[q] \in Fds
        BY <1>3 DEF Intact, Live, TypeOK
      <3> QED
        BY <1>3, <1>8, <1>9, <1>11, <3>1 DEF Intact
    <2>3. \A q, r \in Listed' : socket'[q] = socket'[r] => q = r \/ socket'[q] = Bad
      BY <1>3, <1>8, <1>11 DEF Intact
    <2>4. acceptor.at = "add" /\ acceptor.fd # Bad => \A q \in Listed' : socket'[q] # acceptor.fd
      BY <1>3, <1>8, <1>11 DEF Intact
    <2> QED
      BY <1>1, <1>8, <2>1, <2>2, <2>3, <2>4 DEF Intact
  <1>19. ASSUME ~raced, failed < 2 PROVE Owned'
    <2>1. Owned
      BY <1>19 DEF ChatInv
    <2>2. Owns(t, ptr[t]) /\ thread[t] # "none"
      BY <1>1, <1>16, <2>1 DEF Owned
    <2>3. ASSUME NEW r \in Threads, r # t, thread[r] # "none" \/ acceptor.who = r,
                 NEW q, Owns(r, q)
          PROVE  socket[q] # s /\ q # out /\ Owns(r, q)'
      <3>1. socket[q] # s
        BY <1>4, <1>19, <2>2, <2>3, OwnersDiffer
      <3>2. q \in Listed /\ q # out
        BY <1>4, <2>3, <3>1 DEF Owns
      <3>3. q \in Listed' /\ socket'[q] = socket[q]
        BY <1>8, <1>11, <3>2
      <3> QED
        BY <1>9, <2>3, <3>1, <3>2, <3>3 DEF Owns
    <2>4. \A r \in Running' : Owns(r, ptr[r])'
      <3> TAKE r \in Running'
      <3>1. PICK q : q = ptr[r]
        OBVIOUS
      <3>2. r \in Running /\ r # t /\ r \in Threads /\ thread[r] # "none" /\ ptr'[r] = q
        BY <1>10, <1>16, <3>1 DEF Running
      <3>3. Owns(r, q)
        BY <2>1, <3>1, <3>2 DEF Owned
      <3>4. Owns(r, q)'
        BY <2>3, <3>2, <3>3
      <3> QED
        BY <3>2, <3>4
    <2>5. ASSUME Adding PROVE Owns(acceptor.who, acceptor.added)'
      <3>1. PICK r, q : r = acceptor.who /\ q = acceptor.added
        OBVIOUS
      <3>2. r \in Threads /\ r # t
        BY <1>1, <1>3, <2>5, <3>1 DEF AcceptorOK, Adding
      <3>3. Owns(r, q)
        BY <2>1, <2>5, <3>1 DEF Owned
      <3>4. Owns(r, q)'
        BY <2>3, <3>1, <3>2, <3>3
      <3> QED
        BY <1>1, <3>1, <3>4
    <2>6. ASSUME NEW q \in Listed'
          PROVE  (\E r \in Running' : ptr'[r] = q) \/ (Adding' /\ acceptor'.added = q)
      <3>1. q \in Listed /\ q # out
        BY <1>8
      <3>2. ptr[t] = out
        <4>1. CASE Adding /\ acceptor.added = out
          <5>1. PICK r : r = acceptor.who /\ r \in Threads /\ r # t
            BY <1>1, <1>3, <4>1 DEF AcceptorOK, Adding
          <5>2. Owns(r, out)
            BY <2>1, <4>1, <5>1 DEF Owned
          <5> QED
            BY <2>3, <5>1, <5>2
        <4>2. CASE \E r \in Running : ptr[r] = out
          <5>1. PICK r \in Running : ptr[r] = out
            BY <4>2
          <5>2. Owns(r, out) /\ r \in Threads /\ thread[r] # "none"
            BY <2>1, <5>1 DEF Owned, Running
          <5>3. r = t
            BY <2>3, <5>2
          <5> QED
            BY <5>1, <5>3
        <4> QED
          BY <1>4, <2>1, <4>1, <4>2 DEF Owned
      <3>3. CASE Adding /\ acceptor.added = q
        BY <1>1, <1>16, <3>3
      <3>4. CASE \E r \in Running : ptr[r] = q
        <4>1. PICK r \in Running : ptr[r] = q
          BY <3>4
        <4>2. r # t /\ r \in Threads
          BY <3>1, <3>2, <4>1 DEF Running
        <4> QED
          BY <1>10, <1>16, <4>1, <4>2
      <3> QED
        BY <2>1, <3>1, <3>3, <3>4 DEF Owned
    <2> QED
      BY <1>16, <2>4, <2>5, <2>6 DEF Owned
  <1> QED
    BY <1>1, <1>12, <1>13, <1>14, <1>15, <1>17, <1>18, <1>19 DEF ChatInv

-----------------------------------------------------------------------------
(* Undefined behaviour, and the end of the process *)

LEMMA use_after_freeInv ==
    ASSUME ChatInv, life = "serving", NEW t \in Threads, use_after_free(t) PROVE ChatInv'
  <1>1. /\ thread[t] \in {"recv", "reply", "broadcast", "remove"} /\ ~Live(ptr[t])
        /\ ub' = TRUE
        /\ UNCHANGED <<clients, count, socket, thread, ptr, batch, next, mutex, fds, acceptor, conn,
                       failed, life, raced, merged, said, taken, inbox, unread>>
    BY DEF use_after_free, listVars, threadVars, clientVars
  <1>2. TypeOK'
    BY <1>1 DEF ChatInv, TypeOK
  <1>3. raced \/ ~(failed < 2)
    <2>1. t \in Running
      BY <1>1 DEF Running
    <2>2. ASSUME Owned PROVE FALSE
      BY <1>1, <2>1, <2>2 DEF Owned, Owns, ChatInv, Intact
    <2> QED
      BY <2>2 DEF ChatInv
  <1>4. FreedOnlyByRace'
    <2>1. failed \in Nat
      BY ChatAssumption DEF ChatInv, TypeOK
    <2> QED
      BY <1>1, <1>3, <2>1 DEF FreedOnlyByRace
  <1>5. /\ Running' = Running /\ Adding' = Adding /\ Listed' = Listed
    BY <1>1 DEF Running, Adding, Listed
  <1>6. AcceptorOK' /\ Fresh' /\ OneFd' /\ Counted'
    BY <1>1, <1>5 DEF ChatInv, AcceptorOK, Fresh, OneFd, Counted
  <1>7. Intact'
    BY <1>1, <1>5 DEF ChatInv, Intact, Distinct, Live
  <1>8. ~(~raced /\ failed < 2)
    BY <1>3
  <1> QED
    BY <1>1, <1>2, <1>4, <1>6, <1>7, <1>8 DEF ChatInv

(* Once the server is destroyed, only clients and the end of the process   *)
(* go on.                                                                  *)
LEMMA Destroyed ==
    ASSUME ChatInv, TypeOK', life' # "serving", FreedOnlyByRace',
           UNCHANGED <<count, thread, fds, acceptor, conn, failed, raced>>
    PROVE  ChatInv'
  <1>1. Running' = Running /\ Adding' = Adding
    BY DEF Running, Adding
  <1>2. AcceptorOK' /\ Fresh' /\ OneFd' /\ Counted'
    BY <1>1 DEF ChatInv, AcceptorOK, Fresh, OneFd, Counted
  <1> QED
    BY <1>2 DEF ChatInv

LEMMA destroy_chat_serverInv == ASSUME ChatInv, ~ub, destroy_chat_server PROVE ChatInv'
  <1>1. socket' \in [Ptrs -> Fds \cup {0, Bad}]
    BY DEF destroy_chat_server
  <1>2. TypeOK'
    BY <1>1 DEF destroy_chat_server, ChatInv, TypeOK, threadVars, clientVars
  <1>3. FreedOnlyByRace'
    BY DEF destroy_chat_server, FreedOnlyByRace
  <1> QED
    BY <1>2, <1>3, Destroyed DEF destroy_chat_server, threadVars, clientVars

LEMMA exitInv == ASSUME ChatInv, ~ub, exit PROVE ChatInv'
  <1>1. TypeOK'
    BY DEF exit, ChatInv, TypeOK, listVars, threadVars, clientVars
  <1>2. FreedOnlyByRace'
    BY DEF exit, FreedOnlyByRace
  <1> QED
    BY <1>1, <1>2, Destroyed DEF exit, listVars, threadVars, clientVars

LEMMA late_stepInv == ASSUME ChatInv, ~ub, late_step PROVE ChatInv'
  <1>1. /\ life = "destroyed" /\ ub' = TRUE
        /\ UNCHANGED <<clients, count, socket, thread, ptr, batch, next, mutex, fds, acceptor, conn,
                       failed, life, raced, merged, said, taken, inbox, unread>>
    BY DEF late_step, listVars, threadVars, clientVars
  <1>2. TypeOK'
    BY <1>1 DEF ChatInv, TypeOK
  <1>3. \/ count > 0 \/ acceptor.who # Nobody
        \/ \E k \in Conns : conn[k] \notin {"away", "closed"}
    <2>1. CASE \E t \in Threads : thread[t] \notin {"none", "exited"}
      <3>1. Running # {}
        BY <2>1 DEF Running
      <3>2. Cardinality(Running) # 0
        BY <3>1, RunningFinite, FS_EmptySet
      <3> QED
        BY <3>2, RunningFinite DEF ChatInv, Counted
    <2>2. CASE acceptor.at # "accept"
      BY <2>2, Sizes DEF ChatInv, AcceptorOK
    <2>3. CASE \E k \in Conns : conn[k] \in {"pending", "pending_closed"}
      BY <2>3
    <2> QED
      BY <2>1, <2>2, <2>3 DEF late_step
  <1>4. FreedOnlyByRace'
    BY <1>1, <1>3 DEF FreedOnlyByRace
  <1> QED
    BY <1>1, <1>2, <1>4, Destroyed

-----------------------------------------------------------------------------
LEMMA InitChat == ASSUME Init PROVE ChatInv
  <1> USE Sizes
  <1>1. acceptor = Idle /\ acceptor.at = "accept" /\ acceptor.who = Nobody /\ acceptor \in Acceptors
    BY DEF Init, Idle, Acceptors
  <1>2. TypeOK
    <2>1. <<>> \in Seq(Sent) /\ <<>> \in Seq(Messages) /\ Len(<<>>) = 0
      BY EmptySeq
    <2>2. 0 \in 0 .. SendBuffer /\ 0 \in 0 .. MaxFailures /\ 0 \in 0 .. N + MaxFailures
      BY ChatAssumption
    <2>3. /\ said \in [Conns -> Seq(Messages)] /\ taken \in [Conns -> Nat]
          /\ \A k \in Conns : taken[k] <= Len(said[k])
          /\ inbox \in [Conns -> Seq(Sent)] /\ batch \in [Threads -> Seq(Sent)]
      BY <2>1 DEF Init
    <2>4. /\ clients \in [Ptrs -> Ptrs \cup {Null}] /\ socket \in [Ptrs -> Fds \cup {0, Bad}]
          /\ count \in 0 .. N + MaxFailures /\ \A j \in 1 .. count : clients[j] # Null
          /\ fds \in [Fds -> Conns \cup {Nobody}] /\ mutex \in Threads \cup {Nobody}
      BY <2>2 DEF Init
    <2>5. /\ thread \in [Threads -> {"none", "recv", "reply", "broadcast", "sending", "remove",
                                     "exited"}]
          /\ ptr \in [Threads -> Ptrs \cup {Null}] /\ next \in [Threads -> Nat]
          /\ conn \in [Conns -> {"away", "pending", "pending_closed", "open", "closed"}]
          /\ unread \in [Conns -> 0 .. SendBuffer] /\ failed \in 0 .. MaxFailures
      BY <2>2 DEF Init
    <2>6. /\ life \in {"serving", "destroyed", "exited"} /\ ub \in BOOLEAN /\ raced \in BOOLEAN
          /\ merged \subseteq Conns \X Nat
      BY DEF Init
    <2> QED
      BY <1>1, <2>3, <2>4, <2>5, <2>6 DEF TypeOK
  <1>3. Running = {} /\ ~Adding /\ Listed = {}
    BY <1>1 DEF Init, Running, Adding, Listed
  <1>4. AcceptorOK /\ Fresh /\ OneFd /\ FreedOnlyByRace
    BY <1>1 DEF Init, AcceptorOK, Fresh, OneFd, FreedOnlyByRace, Threads
  <1>5. Counted
    BY <1>3, FS_EmptySet DEF Init, Counted
  <1>6. Intact
    BY <1>1, <1>3 DEF Init, Intact, Distinct, Live
  <1>7. Owned
    BY <1>3 DEF Owned
  <1> QED
    BY <1>2, <1>4, <1>5, <1>6, <1>7 DEF ChatInv

LEMMA NextChat == ASSUME ChatInv, [Next]_chatVars PROVE ChatInv'
  <1>1. CASE Next
    <2>1. ASSUME life = "serving", ~ub, Accepting PROVE ChatInv'
      BY <2>1, acceptInv, accept_failsInv, add_chat_clientInv, add_read_countInv, add_returnInv,
         spawnInv DEF Accepting
    <2>2. ASSUME life = "serving", ~ub, NEW t \in Threads, handle_chat_client(t) PROVE ChatInv'
      BY <2>2, recv_linesInv, recv_endInv, renameInv, broadcast_lockInv, broadcast_sendInv,
         broadcast_endInv, remove_chat_clientInv, use_after_freeInv DEF handle_chat_client
    <2> QED
      BY <1>1, <2>1, <2>2, receive_messageInv, hang_upInv, sayInv, connectInv,
         destroy_chat_serverInv, late_stepInv, exitInv DEF Next
  <1>2. CASE UNCHANGED chatVars
    <2>1. UNCHANGED <<clients, count, socket, thread, ptr, batch, next, mutex, fds, acceptor, conn,
                      failed, life, ub, raced, merged, said, taken, inbox, unread>>
      BY <1>2 DEF chatVars, serverVars, listVars, threadVars, clientVars, flagVars
    <2>2. Running' = Running /\ Adding' = Adding /\ Listed' = Listed
      BY <2>1 DEF Running, Adding, Listed
    <2>3. TypeOK' /\ AcceptorOK' /\ Fresh'
      BY <2>1, <2>2 DEF ChatInv, TypeOK, AcceptorOK, Fresh
    <2>4. OneFd' /\ Counted' /\ FreedOnlyByRace'
      BY <2>1, <2>2 DEF ChatInv, OneFd, Counted, FreedOnlyByRace
    <2>5. life = "serving" => Intact'
      BY <2>1, <2>2 DEF ChatInv, Intact, Distinct, Live
    <2>6. life = "serving" /\ ~raced /\ failed < 2 => Owned'
      BY <2>1, <2>2 DEF ChatInv, Owned, Owns
    <2> QED
      BY <2>1, <2>3, <2>4, <2>5, <2>6 DEF ChatInv
  <1> QED
    BY <1>1, <1>2

(* Accepting, serving, broadcasting and removing clients keep the          *)
(* invariant, among which: the array has one entry for each thread that    *)
(* runs or is about to be started.                                         *)
THEOREM ChatInvariant == Spec => []ChatInv
  BY InitChat, NextChat, PTL DEF Spec

(* Every variable has its type; no cell of the array is used that it does  *)
(* not have, also by the two reads without the mutex.                      *)
THEOREM ChatTypeCorrect == Spec => []TypeOK
  <1>1. ChatInv => TypeOK
    BY DEF ChatInv
  <1> QED
    BY <1>1, ChatInvariant, PTL

(* The array of clients stays intact while threads add, remove and send    *)
(* and descriptors are closed and given out again: its entries are         *)
(* distinct, they are the clients that are not freed, and no two have the  *)
(* same open descriptor.                                                   *)
THEOREM ChatListIntact == Spec => []ListIntact
  <1>1. ChatInv => ListIntact
    <2> SUFFICES ASSUME ChatInv, life = "serving"
                 PROVE  /\ Cardinality(Listed) = count
                        /\ Intact
      BY DEF ListIntact, Intact
    <2> QED
      BY ListedCount DEF ChatInv
  <1> QED
    BY <1>1, ChatInvariant, PTL

(* A thread uses memory that was freed only after add_chat_client has      *)
(* returned another client's pointer, after accept has failed twice, or    *)
(* after the server was destroyed under clients.                           *)
THEOREM ChatFreedOnlyByRace == Spec => []FreedOnlyByRace
  <1>1. ChatInv => FreedOnlyByRace
    BY DEF ChatInv
  <1> QED
    BY <1>1, ChatInvariant, PTL

(* Otherwise every thread serves the connection it was started for, and a  *)
(* client in the array has a thread or is about to get one.                *)
THEOREM ChatOwnThread == Spec => []OwnThread
  <1>1. ASSUME ChatInv PROVE OwnThread
    <2> SUFFICES ASSUME ~raced, failed < 2, life = "serving"
                 PROVE  /\ \A k \in Conns :
                              thread[k] \in {"recv", "reply", "broadcast", "remove"} =>
                                  Peer(ptr[k]) = k
                        /\ \A k \in Conns :
                              (\E p \in Listed : Peer(p) = k) =>
                                  \/ thread[k] \notin {"none", "exited"}
                                  \/ acceptor.who = k
      BY DEF OwnThread
    <2>1. Owned
      BY <1>1 DEF ChatInv
    <2>2. ASSUME NEW k \in Conns, thread[k] \in {"recv", "reply", "broadcast", "remove"}
          PROVE  Peer(ptr[k]) = k
      <3>1. k \in Running
        BY <2>2, Sizes DEF Running
      <3> QED
        BY <2>1, <3>1 DEF Owned, Owns, Peer
    <2>3. ASSUME NEW k \in Conns, NEW p \in Listed, Peer(p) = k
          PROVE  thread[k] \notin {"none", "exited"} \/ acceptor.who = k
      <3>1. socket[p] \in Fds /\ fds[socket[p]] = k
        BY <2>3, Sizes DEF Peer
      <3>2. CASE \E t \in Running : ptr[t] = p
        <4>1. PICK t \in Running : ptr[t] = p
          BY <3>2
        <4>2. Owns(t, p)
          BY <2>1, <4>1 DEF Owned
        <4>3. t = k
          BY <3>1, <4>2, Sizes DEF Owns
        <4> QED
          BY <4>1, <4>3 DEF Running
      <3>3. CASE Adding /\ acceptor.added = p
        <4>1. Owns(acceptor.who, p)
          BY <2>1, <3>3 DEF Owned
        <4> QED
          BY <3>1, <4>1, Sizes DEF Owns
      <3> QED
        BY <2>1, <3>2, <3>3 DEF Owned
    <2> QED
      BY <2>2, <2>3
  <1> QED
    BY <1>1, ChatInvariant, PTL

-----------------------------------------------------------------------------
(* The order of broadcasts.  A batch that is being sent has reached some   *)
(* clients and not yet the others: in the inboxes it has reached it is the *)
(* end, but for answers to /rename, which are sent without the mutex.      *)

Broadcasts(t) == thread[t] \in {"broadcast", "sending"}

Holds(t, m) == \E i \in 1 .. Len(batch[t]) : batch[t][i] = m

Got(k, m) == \E x \in 1 .. Len(inbox[k]) : inbox[k][x] = m

(* No inbox and no batch has a line that was not read yet. *)
OldLines ==
    \A k \in Conns : \A x \in 1 .. Len(inbox[k]) :
        inbox[k][x].from # Nobody => inbox[k][x].n <= taken[inbox[k][x].from]

Batches ==
    \A t \in Threads : Broadcasts(t) => \A i \in 1 .. Len(batch[t]) :
        /\ batch[t][i].from \in Conns
        /\ batch[t][i].n <= taken[batch[t][i].from]
        /\ \A j \in 1 .. Len(batch[t]) : i < j => batch[t][i].n < batch[t][j].n

(* A line is read by one thread, once. *)
Apart ==
    \A t, u \in Threads : Broadcasts(t) /\ Broadcasts(u) /\ t # u =>
        \A i \in 1 .. Len(batch[t]) : ~Holds(u, batch[t][i])

Unsent ==
    /\ \A t \in Threads : thread[t] # "sending" => next[t] = 1
    /\ \A t \in Threads : thread[t] = "broadcast" =>
          \A k \in Conns : \A i \in 1 .. Len(batch[t]) : ~Got(k, batch[t][i])

(* What follows a line of the batch is of the batch, in its order. *)
AtEnd(t) ==
    \A k \in Conns : \A x, y \in 1 .. Len(inbox[k]) :
        x < y /\ Holds(t, inbox[k][x]) =>
            \/ inbox[k][y].from = Nobody
            \/ Holds(t, inbox[k][y]) /\ inbox[k][x].n < inbox[k][y].n

PeerAt(j) == Peer(clients[j])

NotYet(t) ==
    \A j \in next[t] .. count : PeerAt(j) # Nobody =>
        \A i \in 1 .. Len(batch[t]) : ~Got(PeerAt(j), batch[t][i])

Sending ==
    \A t \in Threads : thread[t] = "sending" =>
        /\ mutex = t /\ next[t] >= 1
        /\ AtEnd(t)
        /\ life = "serving" => NotYet(t)

(* The lines of k come back: those that did not are in the batch of its    *)
(* thread, which has not passed the entry of k yet.                        *)
Done(k, n) ==
    \/ said[k][n] = Rename
    \/ <<k, n>> \in merged
    \/ Got(k, [from |-> k, n |-> n])

Ahead(k) == thread[k] = "sending" => \E j \in next[k] .. count : clients[j] = ptr[k]

Back ==
    \A k \in Conns :
        /\ thread[k] = "none" => taken[k] = 0
        /\ thread[k] \notin {"none", "exited"} /\ conn[k] = "open" => \A n \in 1 .. taken[k] :
              \/ Done(k, n)
              \/ Broadcasts(k) /\ Holds(k, [from |-> k, n |-> n]) /\ Ahead(k)

OrderInv ==
    /\ OldLines /\ Batches /\ Apart /\ Unsent /\ Sending
    /\ SameOrder
    /\ life = "serving" /\ ~raced /\ failed < 2 => Back

LEMMA InboxKept == ASSUME SameOrder, inbox' = inbox PROVE SameOrder'
  <1> SUFFICES ASSUME NEW k \in Conns, NEW l \in Conns, NEW x \in 1 .. Len(inbox'[k]),
                      NEW y \in 1 .. Len(inbox'[k]), x < y,
                      inbox'[k][x].from # Nobody, inbox'[k][y].from # Nobody,
                      NEW v \in 1 .. Len(inbox'[l]), NEW w \in 1 .. Len(inbox'[l]), v < w,
                      inbox'[l][v] = inbox'[k][y], inbox'[l][w] = inbox'[k][x]
               PROVE  FALSE
    BY DEF SameOrder, Before
  <1> QED
    BY DEF SameOrder, Before

(* A step that sends nothing, reads no line, and starts and ends no        *)
(* broadcast; while somebody holds the mutex the array does not change.    *)
QuietStep ==
    /\ UNCHANGED <<inbox, taken, batch, next, mutex, merged>>
    /\ life' = "serving" => life = "serving"
    /\ raced => raced'
    /\ failed' < 2 => failed < 2
    /\ \A t \in Threads :
          /\ thread'[t] = "broadcast" <=> thread[t] = "broadcast"
          /\ thread'[t] = "sending" <=> thread[t] = "sending"
          /\ thread'[t] = "none" => thread[t] = "none"
          /\ thread[t] = "exited" => thread'[t] = "exited"
    /\ \A k \in Conns :
          /\ conn'[k] = "open" => conn[k] = "open" \/ thread[k] = "none"
          /\ \A n \in 1 .. taken[k] : said'[k][n] = said[k][n]
    /\ life' = "serving" /\ mutex # Nobody =>
          /\ UNCHANGED <<clients, count>>
          /\ \A j \in 1 .. count : PeerAt(j)' = PeerAt(j)
          /\ \A t \in Threads : thread[t] = "sending" => ptr'[t] = ptr[t]

LEMMA QuietOrder == ASSUME TypeOK, OrderInv, QuietStep PROVE OrderInv'
  <1>1. UNCHANGED <<inbox, taken, batch, next, mutex, merged>>
    BY DEF QuietStep
  <1>2. \A t \in Threads : /\ thread'[t] = "broadcast" <=> thread[t] = "broadcast"
                           /\ thread'[t] = "sending" <=> thread[t] = "sending"
                           /\ Broadcasts(t)' <=> Broadcasts(t)
    BY DEF QuietStep, Broadcasts
  <1>3. OldLines' /\ SameOrder'
    BY <1>1, InboxKept DEF OrderInv, OldLines
  <1>4. Batches' /\ Apart' /\ Unsent'
    <2>1. Batches'
      BY <1>1, <1>2 DEF OrderInv, Batches
    <2>2. Apart'
      BY <1>1, <1>2 DEF OrderInv, Apart, Holds
    <2>3. Unsent'
      BY <1>1, <1>2 DEF OrderInv, Unsent, Got
    <2> QED
      BY <2>1, <2>2, <2>3
  <1>5. Sending'
    <2> SUFFICES ASSUME NEW t \in Threads, thread'[t] = "sending"
                 PROVE  /\ mutex' = t /\ next'[t] >= 1
                        /\ AtEnd(t)'
                        /\ life' = "serving" => NotYet(t)'
      BY DEF Sending
    <2>1. /\ thread[t] = "sending" /\ mutex = t /\ next[t] >= 1 /\ AtEnd(t)
          /\ life = "serving" => NotYet(t)
      BY <1>2 DEF OrderInv, Sending
    <2>2. AtEnd(t)'
      BY <1>1, <2>1 DEF AtEnd, Holds
    <2>3. ASSUME life' = "serving" PROVE NotYet(t)'
      <3>1. /\ UNCHANGED <<clients, count>>
            /\ \A j \in 1 .. count : PeerAt(j)' = PeerAt(j)
        BY <2>1, <2>3, Sizes DEF QuietStep
      <3>2. NotYet(t)
        BY <2>1, <2>3 DEF QuietStep
      <3>3. \A j \in next[t] .. count : j \in 1 .. count
        BY <2>1, CountNat DEF TypeOK
      <3> QED
        BY <1>1, <3>1, <3>2, <3>3 DEF NotYet, Got
    <2> QED
      BY <1>1, <2>1, <2>2, <2>3
  <1>6. ASSUME life' = "serving", ~raced', failed' < 2 PROVE Back'
    <2>1. Back
      BY <1>6 DEF OrderInv, QuietStep
    <2> SUFFICES ASSUME NEW k \in Conns
                 PROVE  /\ thread'[k] = "none" => taken'[k] = 0
                        /\ thread'[k] \notin {"none", "exited"} /\ conn'[k] = "open" =>
                              \A n \in 1 .. taken'[k] :
                                  \/ Done(k, n)'
                                  \/ /\ Broadcasts(k)' /\ Holds(k, [from |-> k, n |-> n])'
                                     /\ Ahead(k)'
      BY DEF Back
    <2>2. k \in Threads
      BY Sizes
    <2>3. thread'[k] = "none" => taken'[k] = 0
      BY <1>1, <2>1, <2>2 DEF QuietStep, Back
    <2>4. ASSUME thread'[k] \notin {"none", "exited"}, conn'[k] = "open", NEW n \in 1 .. taken'[k]
          PROVE  Done(k, n)' \/ (Broadcasts(k)' /\ Holds(k, [from |-> k, n |-> n])' /\ Ahead(k)')
      <3>1. n \in 1 .. taken[k] /\ thread[k] # "none" /\ thread[k] # "exited"
        <4>1. n \in 1 .. taken[k]
          BY <1>1, <2>4
        <4>2. taken[k] # 0
          BY <4>1
        <4> QED
          BY <2>1, <2>2, <2>4, <4>1, <4>2 DEF QuietStep, Back
      <3>2. conn[k] = "open"
        BY <2>4, <3>1 DEF QuietStep
      <3>3. CASE Done(k, n)
        <4>1. said'[k][n] = said[k][n]
          BY <3>1 DEF QuietStep
        <4> QED
          BY <1>1, <3>3, <4>1 DEF Done, Got
      <3>4. CASE Broadcasts(k) /\ Holds(k, [from |-> k, n |-> n]) /\ Ahead(k)
        <4>1. Broadcasts(k)' /\ Holds(k, [from |-> k, n |-> n])'
          BY <1>1, <1>2, <2>2, <3>4 DEF Holds
        <4>2. ASSUME thread'[k] = "sending" PROVE Ahead(k)'
          <5>1. thread[k] = "sending" /\ mutex = k /\ mutex # Nobody
            BY <1>2, <2>2, <4>2, Sizes DEF OrderInv, Sending
          <5>2. UNCHANGED <<clients, count>> /\ ptr'[k] = ptr[k]
            BY <1>6, <2>2, <5>1 DEF QuietStep
          <5> QED
            BY <1>1, <3>4, <5>1, <5>2 DEF Ahead
        <4> QED
          BY <4>1, <4>2 DEF Ahead
      <3> QED
        BY <2>1, <3>1, <3>2, <3>3, <3>4 DEF Back
    <2> QED
      BY <2>3, <2>4
  <1> QED
    BY <1>3, <1>4, <1>5, <1>6 DEF OrderInv

(* A thread moves on, to a place outside of a broadcast. *)
LEMMA GotoQuiet ==
    ASSUME TypeOK, NEW t \in Threads, NEW label, Goto(t, label),
           thread[t] \notin {"broadcast", "sending", "exited"},
           label \notin {"broadcast", "sending", "none"}
    PROVE  \A u \in Threads :
              /\ thread'[u] = "broadcast" <=> thread[u] = "broadcast"
              /\ thread'[u] = "sending" <=> thread[u] = "sending"
              /\ thread'[u] = "none" => thread[u] = "none"
              /\ thread[u] = "exited" => thread'[u] = "exited"
  BY DEF Goto, TypeOK

LEMMA acceptQuiet ==
    ASSUME ChatInv, life = "serving", NEW k \in Conns, accept(k) PROVE QuietStep
  <1>1. PICK f \in Fds : fds[f] = Nobody /\ fds' = [fds EXCEPT ![f] = k]
    BY DEF accept
  <1>2. /\ conn[k] \in {"pending", "pending_closed"}
        /\ conn' = [conn EXCEPT ![k] = IF @ = "pending" THEN "open" ELSE "closed"]
        /\ UNCHANGED <<clients, count, socket, thread, ptr, batch, next, mutex, failed, life, raced,
                       merged, said, taken, inbox>>
    BY DEF accept, listVars, threadVars, flagVars
  <1>3. \A l \in Conns : conn'[l] = "open" => conn[l] = "open" \/ thread[l] = "none"
    BY <1>2 DEF ChatInv, TypeOK, Fresh
  <1>4. \A j \in 1 .. count : PeerAt(j)' = PeerAt(j)
    <2> TAKE j \in 1 .. count
    <2>1. PICK p : p = clients[j] /\ p \in Listed
      BY DEF Listed
    <2>2. socket[p] = Bad \/ fds[socket[p]] # Nobody
      BY <2>1 DEF ChatInv, Intact
    <2>3. socket[p] # f
      BY <1>1, <2>2, Sizes
    <2>4. socket[p] \in Fds => fds'[socket[p]] = fds[socket[p]]
      BY <1>1, <2>3 DEF ChatInv, TypeOK
    <2> QED
      BY <1>2, <2>1, <2>4 DEF PeerAt, Peer
  <1> QED
    BY <1>2, <1>3, <1>4 DEF QuietStep

LEMMA acceptingQuiet ==
    ASSUME ChatInv, life = "serving", Accepting PROVE QuietStep
  <1>1. CASE \E k \in Conns : accept(k)
    BY <1>1, acceptQuiet
  <1>2. CASE accept_fails
    <2>1. failed \in Nat
      BY ChatAssumption DEF ChatInv, TypeOK
    <2>2. failed' < 2 => failed < 2
      BY <1>2, <2>1 DEF accept_fails
    <2> QED
      BY <1>2, <2>2 DEF accept_fails, QuietStep, PeerAt, Peer, listVars, threadVars, clientVars,
         flagVars
  <1>3. CASE add_chat_client
    BY <1>3 DEF add_chat_client, QuietStep, threadVars, clientVars, flagVars
  <1>4. CASE add_read_count
    BY <1>4 DEF add_read_count, QuietStep, PeerAt, Peer, listVars, threadVars, clientVars, flagVars
  <1>5. CASE add_return
    BY <1>5 DEF add_return, QuietStep, PeerAt, Peer, listVars, threadVars, clientVars
  <1>6. CASE spawn
    <2>1. PICK t \in Threads : t = acceptor.who /\ thread[t] = "none"
      BY <1>6 DEF ChatInv, AcceptorOK, spawn
    <2>2. Goto(t, "recv") /\ ptr' = [ptr EXCEPT ![t] = acceptor.got]
      BY <1>6, <2>1 DEF spawn, Goto
    <2>3. \A u \in Threads : /\ thread'[u] = "broadcast" <=> thread[u] = "broadcast"
                             /\ thread'[u] = "sending" <=> thread[u] = "sending"
                             /\ thread'[u] = "none" => thread[u] = "none"
                             /\ thread[u] = "exited" => thread'[u] = "exited"
      BY <2>1, <2>2, GotoQuiet DEF ChatInv
    <2>4. \A u \in Threads : thread[u] = "sending" => ptr'[u] = ptr[u]
      BY <2>1, <2>2 DEF ChatInv, TypeOK
    <2> QED
      BY <1>6, <2>3, <2>4 DEF spawn, QuietStep, PeerAt, Peer, listVars, clientVars, flagVars
  <1> QED
    BY <1>1, <1>2, <1>3, <1>4, <1>5, <1>6 DEF Accepting

LEMMA threadQuiet ==
    ASSUME ChatInv, NEW t \in Threads, recv_end(t) \/ remove_chat_client(t) \/ use_after_free(t)
    PROVE  QuietStep
  <1>1. CASE recv_end(t)
    <2>1. /\ thread[t] = "recv" /\ Goto(t, "remove")
          /\ UNCHANGED <<listVars, clientVars, mutex, fds, acceptor, failed, ptr, batch, next,
                         flagVars>>
      BY <1>1 DEF recv_end, At, AfterEnd
    <2>2. \A u \in Threads : /\ thread'[u] = "broadcast" <=> thread[u] = "broadcast"
                             /\ thread'[u] = "sending" <=> thread[u] = "sending"
                             /\ thread'[u] = "none" => thread[u] = "none"
                             /\ thread[u] = "exited" => thread'[u] = "exited"
      BY <2>1, GotoQuiet DEF ChatInv
    <2> QED
      BY <2>1, <2>2 DEF QuietStep, PeerAt, Peer, listVars, clientVars, flagVars
  <1>2. CASE remove_chat_client(t)
    <2>1. /\ thread[t] = "remove" /\ Goto(t, "exited") /\ mutex = Nobody
          /\ UNCHANGED <<clientVars, mutex, acceptor, failed, batch, next, flagVars>>
      BY <1>2 DEF remove_chat_client, At
    <2>2. \A u \in Threads : /\ thread'[u] = "broadcast" <=> thread[u] = "broadcast"
                             /\ thread'[u] = "sending" <=> thread[u] = "sending"
                             /\ thread'[u] = "none" => thread[u] = "none"
                             /\ thread[u] = "exited" => thread'[u] = "exited"
      BY <2>1, GotoQuiet DEF ChatInv
    <2> QED
      BY <2>1, <2>2 DEF QuietStep, clientVars, flagVars
  <1>3. CASE use_after_free(t)
    BY <1>3 DEF use_after_free, QuietStep, PeerAt, Peer, listVars, threadVars, clientVars
  <1> QED
    BY <1>1, <1>2, <1>3

LEMMA clientQuiet ==
    ASSUME ChatInv, NEW k \in Conns,
           \/ connect(k) \/ hang_up(k) \/ receive_message(k)
           \/ \E line \in Messages : say(k, line)
    PROVE  QuietStep
  <1>1. CASE connect(k)
    BY <1>1 DEF connect, ChatInv, TypeOK, QuietStep, PeerAt, Peer, serverVars, listVars, threadVars,
       flagVars
  <1>2. CASE hang_up(k)
    BY <1>2 DEF hang_up, ChatInv, TypeOK, QuietStep, PeerAt, Peer, serverVars, listVars, threadVars,
       flagVars
  <1>3. CASE receive_message(k)
    BY <1>3 DEF receive_message, QuietStep, PeerAt, Peer, serverVars, listVars, threadVars, flagVars
  <1>4. ASSUME NEW line \in Messages, say(k, line) PROVE QuietStep
    <2>1. \A l \in Conns : \A n \in 1 .. taken[l] : said'[l][n] = said[l][n]
      <3> TAKE l \in Conns
      <3> TAKE n \in 1 .. taken[l]
      <3>1. /\ said[l] \in Seq(Messages) /\ Len(said[l]) \in Nat
            /\ taken[l] \in Nat /\ taken[l] <= Len(said[l])
        BY LenProperties DEF ChatInv, TypeOK
      <3>2. n \in 1 .. Len(said[l])
        BY <3>1
      <3>3. Append(said[l], line)[n] = said[l][n]
        BY <3>1, <3>2, AppendProperties
      <3> QED
        BY <1>4, <3>3 DEF say, ChatInv, TypeOK
    <2> QED
      BY <1>4, <2>1 DEF say, QuietStep, PeerAt, Peer, serverVars, listVars, threadVars, flagVars
  <1> QED
    BY <1>1, <1>2, <1>3, <1>4

LEMMA endQuiet == ASSUME destroy_chat_server \/ late_step \/ exit PROVE QuietStep
  <1>1. CASE destroy_chat_server
    BY <1>1 DEF destroy_chat_server, QuietStep, threadVars, clientVars
  <1>2. CASE late_step
    BY <1>2 DEF late_step, QuietStep, listVars, threadVars, clientVars
  <1>3. CASE exit
    BY <1>3 DEF exit, QuietStep, listVars, threadVars, clientVars
  <1> QED
    BY <1>1, <1>2, <1>3

-----------------------------------------------------------------------------
(* The steps of a broadcast *)

LEMMA recv_linesOrder ==
    ASSUME ChatInv, ChatInv', OrderInv, life = "serving", NEW t \in Threads, recv_lines(t)
    PROVE  OrderInv'
  <1>1. PICK k \in Conns : /\ k = Peer(ptr[t])
           /\ \E n \in 1 .. Len(said[k]) - taken[k], renames \in BOOLEAN :
                 /\ renames => said[k][taken[k] + 1] = Rename
                 /\ taken' = [taken EXCEPT ![k] = @ + n]
                 /\ batch' = [batch EXCEPT ![t] = IF renames THEN <<>> ELSE Lines(k, n)]
                 /\ merged' = IF renames THEN merged \cup {<<k, taken[k] + i>> : i \in 2 .. n}
                                         ELSE merged
                 /\ Goto(t, IF renames THEN "reply" ELSE "broadcast")
    BY recv_linesFacts
  <1>2. PICK n \in 1 .. Len(said[k]) - taken[k], renames \in BOOLEAN :
           /\ renames => said[k][taken[k] + 1] = Rename
           /\ taken' = [taken EXCEPT ![k] = @ + n]
           /\ batch' = [batch EXCEPT ![t] = IF renames THEN <<>> ELSE Lines(k, n)]
           /\ merged' = IF renames THEN merged \cup {<<k, taken[k] + i>> : i \in 2 .. n} ELSE merged
           /\ Goto(t, IF renames THEN "reply" ELSE "broadcast")
    BY <1>1
  <1>3. /\ thread[t] = "recv"
        /\ UNCHANGED <<clients, count, socket, mutex, fds, failed, ptr, next, conn, said, inbox,
                       life, raced>>
    BY DEF recv_lines, At, listVars
  <1>4. taken[k] \in Nat /\ n \in Nat /\ n >= 1
    BY LenProperties DEF ChatInv, TypeOK
  <1>5. \A l \in Conns : /\ taken[l] \in Nat /\ taken'[l] \in Nat
                         /\ taken[l] <= taken'[l]
                         /\ taken'[l] = IF l = k THEN taken[k] + n ELSE taken[l]
    <2>1. taken \in [Conns -> Nat] /\ taken' = [taken EXCEPT ![k] = taken[k] + n]
      BY <1>2 DEF ChatInv, TypeOK
    <2>2. \A l \in Conns : taken'[l] = IF l = k THEN taken[k] + n ELSE taken[l]
      BY <2>1
    <2> QED
      BY <1>4, <2>1, <2>2
  <1>6. \A u \in Threads : /\ u # t => thread'[u] = thread[u] /\ batch'[u] = batch[u]
                           /\ thread'[t] = IF renames THEN "reply" ELSE "broadcast"
                           /\ batch'[t] = IF renames THEN <<>> ELSE Lines(k, n)
    BY <1>2 DEF Goto, ChatInv, TypeOK
  <1>7. \A i \in 1 .. Len(Lines(k, n)) : /\ i \in 1 .. n
                                         /\ Lines(k, n)[i].from = k
                                         /\ Lines(k, n)[i].n = taken[k] + i
    <2>1. Lines(k, n) = [i \in 1 .. n |-> [from |-> k, n |-> taken[k] + i]]
      BY DEF Lines
    <2>2. Len(Lines(k, n)) = n
      BY <1>4, <2>1
    <2> QED
      BY <2>1, <2>2
  <1>8. \A l \in Conns : /\ Len(inbox[l]) \in Nat
                         /\ \A x \in 1 .. Len(inbox[l]) : inbox[l][x] \in Sent
    BY LenProperties, ElementOfSeq DEF ChatInv, TypeOK
  <1>9. \A u \in Threads : /\ Len(batch[u]) \in Nat
                           /\ \A i \in 1 .. Len(batch[u]) : batch[u][i] \in Sent
    BY LenProperties, ElementOfSeq DEF ChatInv, TypeOK
  <1>10. OldLines'
    <2> SUFFICES ASSUME NEW l \in Conns, NEW x \in 1 .. Len(inbox[l]), inbox[l][x].from # Nobody
                 PROVE  inbox[l][x].n <= taken'[inbox[l][x].from]
      BY <1>3 DEF OldLines
    <2>1. PICK m \in Sent : m = inbox[l][x]
      BY <1>8
    <2>2. m.from \in Conns /\ m.n \in Nat /\ m.n <= taken[m.from]
      BY <2>1 DEF OrderInv, OldLines, Sent
    <2> QED
      BY <1>5, <2>1, <2>2
  <1>11. \A u \in Threads : u # t => Broadcasts(u)' = Broadcasts(u)
    BY <1>6 DEF Broadcasts
  <1>12. \A u \in Threads : u # t /\ Broadcasts(u) => \A i \in 1 .. Len(batch[u]) :
            /\ batch[u][i].from \in Conns /\ batch[u][i].n \in Nat
            /\ batch[u][i].n <= taken[batch[u][i].from]
    BY <1>9 DEF OrderInv, Batches, Sent
  <1>13. Batches'
    <2> SUFFICES ASSUME NEW u \in Threads, Broadcasts(u)', NEW i \in 1 .. Len(batch'[u])
                 PROVE  /\ batch'[u][i].from \in Conns
                        /\ batch'[u][i].n <= taken'[batch'[u][i].from]
                        /\ \A j \in 1 .. Len(batch'[u]) : i < j => batch'[u][i].n < batch'[u][j].n
      BY DEF Batches
    <2>1. CASE u = t
      <3>1. ~renames /\ batch'[u] = Lines(k, n)
        BY <1>6, <2>1 DEF Broadcasts
      <3> QED
        BY <1>4, <1>5, <1>7, <3>1
    <2>2. CASE u # t
      <3>1. Broadcasts(u) /\ batch'[u] = batch[u]
        BY <1>6, <1>11, <2>2
      <3>2. \A j \in 1 .. Len(batch[u]) : i < j => batch[u][i].n < batch[u][j].n
        BY <3>1 DEF OrderInv, Batches
      <3>3. PICK f \in Conns, m \in Nat : f = batch[u][i].from /\ m = batch[u][i].n /\ m <= taken[f]
        BY <1>12, <2>2, <3>1
      <3> QED
        BY <1>5, <3>1, <3>2, <3>3
    <2> QED
      BY <2>1, <2>2
  <1>14. \A u \in Threads : u # t /\ Broadcasts(u) =>
            \A i \in 1 .. Len(batch[u]), j \in 1 .. Len(Lines(k, n)) : batch[u][i] # Lines(k, n)[j]
    <2> TAKE u \in Threads
    <2> SUFFICES ASSUME u # t, Broadcasts(u), NEW i \in 1 .. Len(batch[u]),
                        NEW j \in 1 .. Len(Lines(k, n)), batch[u][i] = Lines(k, n)[j]
                 PROVE  FALSE
      OBVIOUS
    <2>1. batch[u][i].from = k /\ batch[u][i].n = taken[k] + j /\ j \in 1 .. n
      BY <1>7
    <2>2. batch[u][i].n <= taken[k]
      BY <1>12, <2>1
    <2> QED
      BY <1>4, <2>1, <2>2
  <1>15. Apart'
    <2> SUFFICES ASSUME NEW u \in Threads, NEW v \in Threads, Broadcasts(u)', Broadcasts(v)', u # v,
                        NEW i \in 1 .. Len(batch'[u]), NEW j \in 1 .. Len(batch'[v]),
                        batch'[v][j] = batch'[u][i]
                 PROVE  FALSE
      BY DEF Apart, Holds
    <2>1. CASE u = t
      <3>1. ~renames /\ batch'[u] = Lines(k, n) /\ batch'[v] = batch[v] /\ Broadcasts(v) /\ v # t
        BY <1>6, <1>11, <2>1 DEF Broadcasts
      <3> QED
        BY <1>14, <3>1
    <2>2. CASE v = t
      <3>1. ~renames /\ batch'[v] = Lines(k, n) /\ batch'[u] = batch[u] /\ Broadcasts(u) /\ u # t
        BY <1>6, <1>11, <2>2 DEF Broadcasts
      <3> QED
        BY <1>14, <3>1
    <2>3. CASE u # t /\ v # t
      BY <1>6, <1>11, <2>3 DEF OrderInv, Apart, Holds
    <2> QED
      BY <2>1, <2>2, <2>3
  <1>16. Unsent'
    <2>1. \A u \in Threads : thread'[u] # "sending" => next'[u] = 1
      BY <1>3, <1>6 DEF OrderInv, Unsent
    <2>2. ASSUME NEW u \in Threads, thread'[u] = "broadcast", NEW l \in Conns,
                 NEW i \in 1 .. Len(batch'[u]), NEW x \in 1 .. Len(inbox[l]),
                 inbox[l][x] = batch'[u][i]
          PROVE  FALSE
      <3>1. CASE u = t
        <4>1. batch'[u] = Lines(k, n)
          BY <1>6, <2>2, <3>1
        <4>2. inbox[l][x].from = k /\ inbox[l][x].n = taken[k] + i /\ i \in 1 .. n
          BY <1>7, <2>2, <4>1
        <4>3. inbox[l][x].n <= taken[k]
          BY <4>2, Sizes DEF OrderInv, OldLines
        <4> QED
          BY <1>4, <4>2, <4>3
      <3>2. CASE u # t
        BY <1>6, <2>2, <3>2 DEF OrderInv, Unsent, Got
      <3> QED
        BY <3>1, <3>2
    <2> QED
      BY <1>3, <2>1, <2>2 DEF Unsent, Got
  <1>17. Sending'
    <2> SUFFICES ASSUME NEW u \in Threads, thread'[u] = "sending"
                 PROVE  mutex' = u /\ next'[u] >= 1 /\ AtEnd(u)' /\ NotYet(u)'
      BY DEF Sending
    <2>1. u # t /\ batch'[u] = batch[u] /\ thread[u] = "sending"
      BY <1>6
    <2>2. mutex = u /\ next[u] >= 1 /\ AtEnd(u) /\ NotYet(u)
      BY <2>1 DEF OrderInv, Sending
    <2>3. AtEnd(u)'
      BY <1>3, <2>1, <2>2 DEF AtEnd, Holds
    <2>4. NotYet(u)'
      BY <1>3, <2>1, <2>2 DEF NotYet, PeerAt, Peer, Got
    <2> QED
      BY <1>3, <2>2, <2>3, <2>4
  <1>18. SameOrder'
    BY <1>3, InboxKept DEF OrderInv
  <1>19. ASSUME ~raced, failed < 2 PROVE Back'
    <2>1. Back /\ Owned
      BY <1>19 DEF OrderInv, ChatInv
    <2>2. t = k
      <3>1. t \in Running
        BY <1>3 DEF Running
      <3>2. Owns(t, ptr[t])
        BY <2>1, <3>1 DEF Owned
      <3> QED
        BY <1>1, <3>2, Sizes DEF Owns, Peer
    <2>3. \A l \in Conns, m \in Nat : Done(l, m) => Done(l, m)'
      BY <1>2, <1>3 DEF Done, Got
    <2> SUFFICES ASSUME NEW l \in Conns
                 PROVE  /\ thread'[l] = "none" => taken'[l] = 0
                        /\ thread'[l] \notin {"none", "exited"} /\ conn'[l] = "open" =>
                              \A m \in 1 .. taken'[l] :
                                  \/ Done(l, m)'
                                  \/ /\ Broadcasts(l)' /\ Holds(l, [from |-> l, n |-> m])'
                                     /\ Ahead(l)'
      BY DEF Back
    <2>4. CASE l # k
      <3>1. /\ taken'[l] = taken[l] /\ thread'[l] = thread[l] /\ batch'[l] = batch[l]
            /\ Broadcasts(l)' = Broadcasts(l) /\ taken[l] \in Nat
        BY <1>5, <1>6, <1>11, <2>2, <2>4, Sizes
      <3>2. \A m : Holds(l, m)' = Holds(l, m)
        BY <3>1 DEF Holds
      <3>3. Ahead(l)' = Ahead(l)
        BY <1>3, <3>1 DEF Ahead
      <3> QED
        BY <1>3, <2>1, <2>3, <3>1, <3>2, <3>3 DEF Back
    <2>5. CASE l = k
      <3>1. thread'[l] # "none" /\ thread'[l] # "sending" /\ Ahead(l)'
        BY <1>6, <2>2, <2>5 DEF Ahead
      <3>2. ASSUME conn[l] = "open", NEW m \in 1 .. taken'[l]
            PROVE  Done(l, m)' \/ (Broadcasts(l)' /\ Holds(l, [from |-> l, n |-> m])')
        <4>1. m \in Nat /\ m <= taken[k] + n /\ m >= 1
          BY <1>4, <1>5, <2>5
        <4>2. CASE m <= taken[k]
          <5>1. m \in 1 .. taken[l] /\ thread[l] = "recv" /\ ~Broadcasts(l)
            BY <1>3, <1>4, <2>2, <2>5, <4>1, <4>2 DEF Broadcasts
          <5>2. Done(l, m)
            BY <2>1, <3>2, <5>1 DEF Back
          <5> QED
            BY <2>3, <4>1, <5>2
        <4>3. CASE m > taken[k] /\ renames
          <5>1. CASE m = taken[k] + 1
            BY <1>2, <1>3, <2>5, <4>3, <5>1 DEF Done
          <5>2. CASE m # taken[k] + 1
            <6>1. PICK i \in 2 .. n : m = taken[k] + i
              <7>1. m - taken[k] \in 2 .. n /\ m = taken[k] + (m - taken[k])
                BY <1>4, <4>1, <4>3, <5>2
              <7> QED
                BY <7>1
            <6>2. <<l, m>> \in merged'
              BY <1>2, <2>5, <4>3, <6>1
            <6> QED
              BY <6>2 DEF Done
          <5> QED
            BY <5>1, <5>2
        <4>4. CASE m > taken[k] /\ ~renames
          <5>1. batch'[l] = Lines(k, n) /\ thread'[l] = "broadcast"
            BY <1>6, <2>2, <2>5, <4>4
          <5>2. PICK i \in 1 .. n : m = taken[k] + i
            <6>1. m - taken[k] \in 1 .. n /\ m = taken[k] + (m - taken[k])
              BY <1>4, <4>1, <4>4
            <6> QED
              BY <6>1
          <5>3. Lines(k, n)[i] = [from |-> l, n |-> m] /\ Len(Lines(k, n)) = n
            BY <1>4, <2>5, <5>2 DEF Lines
          <5> QED
            BY <5>1, <5>2, <5>3 DEF Broadcasts, Holds
        <4> QED
          BY <1>4, <4>1, <4>2, <4>3, <4>4
      <3> QED
        BY <1>3, <3>1, <3>2
    <2> QED
      BY <2>4, <2>5
  <1> QED
    BY <1>3, <1>10, <1>13, <1>15, <1>16, <1>17, <1>18, <1>19 DEF OrderInv

(* What send does to the inboxes. *)
Sends(l, lines) ==
    /\ Len(inbox'[l]) = Len(inbox[l]) + Len(lines)
    /\ \A x \in 1 .. Len(inbox[l]) : inbox'[l][x] = inbox[l][x]
    /\ \A x \in 1 .. Len(lines) : inbox'[l][Len(inbox[l]) + x] = lines[x]

LEMMA sendInbox ==
    ASSUME TypeOK, NEW k \in Conns \cup {Nobody}, NEW lines \in Seq(Sent), send(k, lines)
    PROVE  \A l \in Conns :
              IF l = k /\ conn[l] = "open" THEN Sends(l, lines) ELSE inbox'[l] = inbox[l]
  <1> TAKE l \in Conns
  <1>1. k = Nobody \/ k \in Conns
    OBVIOUS
  <1>2. CASE k # Nobody /\ conn[k] = "open"
    <2>1. inbox' = [inbox EXCEPT ![k] = inbox[k] \o lines] /\ k \in Conns /\ inbox[k] \in Seq(Sent)
      BY <1>1, <1>2 DEF send, TypeOK
    <2>2. Len(inbox[k]) \in Nat /\ Len(lines) \in Nat
      BY <2>1, LenProperties
    <2>3. /\ Len(inbox[k] \o lines) = Len(inbox[k]) + Len(lines)
          /\ \A i \in 1 .. Len(inbox[k]) + Len(lines) :
                (inbox[k] \o lines)[i] =
                    IF i <= Len(inbox[k]) THEN inbox[k][i] ELSE lines[i - Len(inbox[k])]
      BY <2>1, ConcatProperties
    <2>4. CASE l = k
      <3>1. inbox'[l] = inbox[k] \o lines
        BY <2>1, <2>4 DEF TypeOK
      <3>2. \A x \in 1 .. Len(inbox[l]) : inbox'[l][x] = inbox[l][x]
        BY <2>2, <2>3, <2>4, <3>1
      <3>3. \A x \in 1 .. Len(lines) : inbox'[l][Len(inbox[l]) + x] = lines[x]
        <4> TAKE x \in 1 .. Len(lines)
        <4>1. /\ Len(inbox[k]) + x \in 1 .. Len(inbox[k]) + Len(lines)
              /\ ~(Len(inbox[k]) + x <= Len(inbox[k]))
              /\ Len(inbox[k]) + x - Len(inbox[k]) = x
          BY <2>2
        <4>2. (inbox[k] \o lines)[Len(inbox[k]) + x] = lines[Len(inbox[k]) + x - Len(inbox[k])]
          BY <2>3, <4>1
        <4> QED
          BY <2>4, <3>1, <4>1, <4>2
      <3> QED
        BY <1>2, <2>3, <2>4, <3>1, <3>2, <3>3 DEF Sends
    <2>5. CASE l # k
      BY <2>1, <2>5 DEF TypeOK
    <2> QED
      BY <2>4, <2>5
  <1>3. CASE ~(k # Nobody /\ conn[k] = "open")
    <2>1. inbox' = inbox
      BY <1>3 DEF send
    <2>2. ~(l = k /\ conn[l] = "open")
      BY <1>3, ChatAssumption
    <2> QED
      BY <2>1, <2>2
  <1> QED
    BY <1>2, <1>3

(* The elements of an inbox after send, and what it has then. *)
LEMMA Places ==
    ASSUME TypeOK, NEW l \in Conns, NEW lines \in Seq(Sent), Sends(l, lines),
           NEW x \in 1 .. Len(inbox'[l])
    PROVE  \/ x \in 1 .. Len(inbox[l]) /\ inbox'[l][x] = inbox[l][x]
           \/ /\ x > Len(inbox[l]) /\ x - Len(inbox[l]) \in 1 .. Len(lines)
              /\ inbox'[l][x] = lines[x - Len(inbox[l])]
  <1>1. Len(inbox[l]) \in Nat /\ Len(lines) \in Nat
    BY LenProperties DEF TypeOK
  <1>2. CASE x <= Len(inbox[l])
    BY <1>1, <1>2 DEF Sends
  <1>3. CASE x > Len(inbox[l])
    <2>1. x - Len(inbox[l]) \in 1 .. Len(lines) /\ x = Len(inbox[l]) + (x - Len(inbox[l]))
      BY <1>1, <1>3 DEF Sends
    <2>2. \A i \in 1 .. Len(lines) : inbox'[l][Len(inbox[l]) + i] = lines[i]
      BY DEF Sends
    <2> QED
      BY <1>3, <2>1, <2>2
  <1> QED
    BY <1>1, <1>2, <1>3 DEF Sends

LEMMA SendsKeeps ==
    ASSUME TypeOK, NEW l \in Conns, NEW lines \in Seq(Sent), Sends(l, lines), NEW m, Got(l, m)
    PROVE  Got(l, m)'
  <1>1. Len(inbox[l]) \in Nat /\ Len(lines) \in Nat
    BY LenProperties DEF TypeOK
  <1>2. PICK x \in 1 .. Len(inbox[l]) : inbox[l][x] = m
    BY DEF Got
  <1>3. x \in 1 .. Len(inbox'[l]) /\ inbox'[l][x] = m
    BY <1>1, <1>2 DEF Sends
  <1> QED
    BY <1>3 DEF Got

(* The answer to a /rename is sent in between. *)
LEMMA renameOrder ==
    ASSUME ChatInv, OrderInv, life = "serving", NEW t \in Threads, rename(t) PROVE OrderInv'
  <1> DEFINE reply == [from |-> Nobody, n |-> 0]
             lines == <<reply>>
             k     == Peer(ptr[t])
  <1>1. /\ thread[t] = "reply" /\ Goto(t, "recv") /\ send(k, lines)
        /\ UNCHANGED <<clients, count, socket, mutex, fds, failed, ptr, batch, next, conn, said,
                       taken, life, raced, merged>>
    BY DEF rename, At, listVars, flagVars
  <1>2. /\ k \in Conns \cup {Nobody} /\ lines \in Seq(Sent) /\ Len(lines) = 1
        /\ reply.from = Nobody /\ lines[1] = reply
    <2>1. reply \in Sent
      BY DEF Sent
    <2> QED
      BY <2>1, PeerType DEF ChatInv
  <1> HIDE DEF reply, lines, k
  <1>3. \A u \in Threads : /\ thread'[u] = "broadcast" <=> thread[u] = "broadcast"
                           /\ thread'[u] = "sending" <=> thread[u] = "sending"
                           /\ Broadcasts(u)' <=> Broadcasts(u)
                           /\ thread'[u] = IF u = t THEN "recv" ELSE thread[u]
    BY <1>1 DEF Goto, Broadcasts, ChatInv, TypeOK
  <1>4. \A l \in Conns : inbox'[l] = inbox[l] \/ Sends(l, lines)
    BY <1>1, <1>2, sendInbox DEF ChatInv
  <1>5. \A l \in Conns : \A x \in 1 .. Len(inbox'[l]) :
           \/ x \in 1 .. Len(inbox[l]) /\ inbox'[l][x] = inbox[l][x]
           \/ x > Len(inbox[l]) /\ inbox'[l][x].from = Nobody
    <2> TAKE l \in Conns
    <2> TAKE x \in 1 .. Len(inbox'[l])
    <2>1. CASE inbox'[l] = inbox[l]
      BY <2>1
    <2>2. CASE Sends(l, lines)
      <3>1. x - Len(inbox[l]) \in 1 .. Len(lines) => x - Len(inbox[l]) = 1
        BY <1>2
      <3> QED
        BY <1>2, <2>2, <3>1, Places DEF ChatInv
    <2> QED
      BY <1>4, <2>1, <2>2
  <1>6. \A l \in Conns : Len(inbox[l]) \in Nat /\ Len(inbox'[l]) \in Nat
    <2> TAKE l \in Conns
    <2>1. Len(inbox[l]) \in Nat
      BY LenProperties DEF ChatInv, TypeOK
    <2> QED
      BY <1>2, <1>4, <2>1 DEF Sends
  <1>7. \A l \in Conns : \A m : m.from # Nobody => (Got(l, m)' => Got(l, m))
    BY <1>5 DEF Got
  <1>8. \A l \in Conns : \A m : Got(l, m) => Got(l, m)'
    <2> TAKE l \in Conns
    <2>1. CASE inbox'[l] = inbox[l]
      BY <2>1 DEF Got
    <2>2. CASE Sends(l, lines)
      BY <1>2, <2>2, SendsKeeps DEF ChatInv
    <2> QED
      BY <1>4, <2>1, <2>2
  <1>9. OldLines'
    BY <1>1, <1>5 DEF OrderInv, OldLines
  <1>10. Batches' /\ Apart'
    <2>1. Batches'
      BY <1>1, <1>3 DEF OrderInv, Batches
    <2>2. Apart'
      BY <1>1, <1>3 DEF OrderInv, Apart, Holds
    <2> QED
      BY <2>1, <2>2
  <1>11. \A u \in Threads : Broadcasts(u) => \A i \in 1 .. Len(batch[u]) : batch[u][i].from # Nobody
    BY Sizes DEF OrderInv, Batches
  <1>12. Unsent'
    <2>1. \A u \in Threads : thread'[u] # "sending" => next'[u] = 1
      BY <1>1, <1>3 DEF OrderInv, Unsent
    <2>2. ASSUME NEW u \in Threads, thread'[u] = "broadcast", NEW l \in Conns,
                 NEW i \in 1 .. Len(batch'[u])
          PROVE  ~Got(l, batch[u][i])'
      <3>1. PICK m : m = batch[u][i]
        OBVIOUS
      <3>2. thread[u] = "broadcast" /\ m.from # Nobody /\ batch' = batch
        BY <1>1, <1>3, <1>11, <2>2, <3>1 DEF Broadcasts
      <3>3. ~Got(l, m)
        BY <2>2, <3>1, <3>2 DEF OrderInv, Unsent
      <3>4. ~Got(l, m)'
        BY <1>7, <3>2, <3>3
      <3> QED
        BY <3>1, <3>2, <3>4 DEF Got
    <2> QED
      BY <2>1, <2>2 DEF Unsent
  <1>13. Sending'
    <2> SUFFICES ASSUME NEW u \in Threads, thread'[u] = "sending"
                 PROVE  mutex' = u /\ next'[u] >= 1 /\ AtEnd(u)' /\ NotYet(u)'
      BY DEF Sending
    <2>1. /\ thread[u] = "sending" /\ mutex = u /\ next[u] >= 1 /\ AtEnd(u) /\ NotYet(u)
          /\ Broadcasts(u)
      BY <1>3 DEF OrderInv, Sending, Broadcasts
    <2>2. ASSUME NEW l \in Conns, NEW x \in 1 .. Len(inbox'[l]), NEW y \in 1 .. Len(inbox'[l]),
                 x < y, Holds(u, inbox[l][x])'
          PROVE  \/ inbox'[l][y].from = Nobody
                 \/ Holds(u, inbox[l][y])' /\ inbox'[l][x].n < inbox'[l][y].n
      <3>1. CASE y > Len(inbox[l]) /\ inbox'[l][y].from = Nobody
        BY <3>1
      <3>2. CASE y \in 1 .. Len(inbox[l]) /\ inbox'[l][y] = inbox[l][y]
        <4>1. x \in 1 .. Len(inbox[l]) /\ inbox'[l][x] = inbox[l][x]
          BY <1>5, <1>6, <2>2, <3>2
        <4>2. Holds(u, inbox[l][x])
          BY <1>1, <2>2, <4>1 DEF Holds
        <4>3. \/ inbox[l][y].from = Nobody
              \/ Holds(u, inbox[l][y]) /\ inbox[l][x].n < inbox[l][y].n
          BY <2>1, <2>2, <3>2, <4>1, <4>2 DEF AtEnd
        <4> QED
          BY <1>1, <3>2, <4>1, <4>3 DEF Holds
      <3> QED
        BY <1>5, <3>1, <3>2
    <2>3. ASSUME NEW j \in next[u] .. count, PeerAt(j) # Nobody, NEW i \in 1 .. Len(batch[u])
          PROVE  ~Got(PeerAt(j), batch[u][i])'
      <3>1. PICK l, m : l = PeerAt(j) /\ m = batch[u][i]
        OBVIOUS
      <3>2. l \in Conns /\ ~Got(l, m) /\ m.from # Nobody
        BY <1>11, <2>1, <2>3, <3>1, PeerType DEF NotYet, PeerAt, ChatInv
      <3>3. ~Got(l, m)'
        BY <1>7, <3>2
      <3>4. PeerAt(j)' = PeerAt(j) /\ batch' = batch
        BY <1>1 DEF PeerAt, Peer
      <3> QED
        BY <3>1, <3>3, <3>4 DEF Got
    <2>4. NotYet(u)'
      <3>1. \A j : PeerAt(j)' = PeerAt(j)
        BY <1>1 DEF PeerAt, Peer
      <3> QED
        BY <1>1, <2>3, <3>1 DEF NotYet, Got
    <2> QED
      BY <1>1, <2>1, <2>2, <2>4 DEF AtEnd
  <1>14. SameOrder'
    <2> SUFFICES ASSUME NEW a \in Conns, NEW b \in Conns, NEW x \in 1 .. Len(inbox'[a]),
                        NEW y \in 1 .. Len(inbox'[a]), x < y,
                        inbox'[a][x].from # Nobody, inbox'[a][y].from # Nobody,
                        NEW v \in 1 .. Len(inbox'[b]), NEW w \in 1 .. Len(inbox'[b]), v < w,
                        inbox'[b][v] = inbox'[a][y], inbox'[b][w] = inbox'[a][x]
                 PROVE  FALSE
      BY DEF SameOrder, Before
    <2>1. /\ x \in 1 .. Len(inbox[a]) /\ inbox'[a][x] = inbox[a][x]
          /\ y \in 1 .. Len(inbox[a]) /\ inbox'[a][y] = inbox[a][y]
          /\ v \in 1 .. Len(inbox[b]) /\ inbox'[b][v] = inbox[b][v]
          /\ w \in 1 .. Len(inbox[b]) /\ inbox'[b][w] = inbox[b][w]
      BY <1>5
    <2>2. Before(b, inbox[a][y], inbox[a][x])
      BY <2>1 DEF Before
    <2> QED
      BY <2>1, <2>2 DEF OrderInv, SameOrder
  <1>15. ASSUME ~raced, failed < 2 PROVE Back'
    <2>1. Back
      BY <1>15 DEF OrderInv
    <2>2. \A l \in Conns : \A m : Done(l, m) => Done(l, m)'
      BY <1>1, <1>8 DEF Done
    <2>3. \A l \in Conns : /\ \A m : Holds(l, m)' = Holds(l, m)
                           /\ Ahead(l) => Ahead(l)'
      BY <1>1, <1>3, Sizes DEF Holds, Ahead
    <2>4. \A l \in Conns : /\ thread'[l] = "none" => thread[l] = "none"
                           /\ thread'[l] \notin {"none", "exited"} =>
                                 thread[l] \notin {"none", "exited"}
                           /\ Broadcasts(l)' <=> Broadcasts(l)
      BY <1>1, <1>3, Sizes
    <2> QED
      BY <1>1, <2>1, <2>2, <2>3, <2>4 DEF Back
  <1> QED
    BY <1>1, <1>9, <1>10, <1>12, <1>13, <1>14, <1>15 DEF OrderInv

LEMMA broadcast_lockOrder ==
    ASSUME ChatInv, OrderInv, life = "serving", NEW t \in Threads, broadcast_lock(t)
    PROVE  OrderInv'
  <1>1. /\ thread[t] = "broadcast" /\ Goto(t, "sending") /\ mutex = Nobody /\ mutex' = t
        /\ UNCHANGED <<clients, count, socket, fds, failed, ptr, batch, next, conn, said, taken,
                       inbox, life, raced, merged>>
    BY DEF broadcast_lock, At, pthread_mutex_lock, listVars, clientVars, flagVars
  <1>2. \A u \in Threads : thread'[u] = IF u = t THEN "sending" ELSE thread[u]
    BY <1>1 DEF Goto, ChatInv, TypeOK
  <1>3. \A u \in Threads : thread[u] # "sending" /\ (Broadcasts(u)' <=> Broadcasts(u))
    BY <1>1, <1>2, Sizes DEF OrderInv, Sending, Broadcasts
  <1>4. OldLines' /\ SameOrder'
    BY <1>1, InboxKept DEF OrderInv, OldLines
  <1>5. Batches'
    BY <1>1, <1>3 DEF OrderInv, Batches
  <1>6. Apart'
    BY <1>1, <1>3 DEF OrderInv, Apart, Holds
  <1>7. Unsent'
    BY <1>1, <1>2, <1>3 DEF OrderInv, Unsent, Got
  <1>8. next[t] = 1 /\ \A l \in Conns : \A i \in 1 .. Len(batch[t]) : ~Got(l, batch[t][i])
    BY <1>1 DEF OrderInv, Unsent
  <1>9. Sending'
    <2>1. \A u \in Threads : thread'[u] = "sending" => u = t
      BY <1>2, <1>3
    <2>2. AtEnd(t)'
      BY <1>1, <1>8 DEF AtEnd, Holds, Got
    <2>3. \A j : PeerAt(j)' = PeerAt(j) /\ PeerAt(j) \in Conns \cup {Nobody}
      BY <1>1, PeerType DEF PeerAt, Peer, ChatInv
    <2>4. NotYet(t)'
      BY <1>1, <1>8, <2>3 DEF NotYet, Got
    <2> QED
      BY <1>1, <1>8, <2>1, <2>2, <2>4 DEF Sending
  <1>10. ASSUME ~raced, failed < 2 PROVE Back'
    <2>1. Back /\ Owned
      BY <1>10 DEF OrderInv, ChatInv
    <2>2. \A l \in Conns : Ahead(l)'
      <3> TAKE l \in Conns
      <3> SUFFICES ASSUME thread'[l] = "sending" PROVE Ahead(l)'
        BY DEF Ahead
      <3>1. l = t
        BY <1>2, <1>3, Sizes
      <3>2. t \in Running
        BY <1>1 DEF Running
      <3>3. ptr[t] \in Listed
        BY <2>1, <3>2 DEF Owned, Owns
      <3>4. PICK j \in 1 .. count : clients[j] = ptr[t]
        BY <3>3 DEF Listed
      <3> QED
        BY <1>1, <1>8, <3>1, <3>4 DEF Ahead
    <2>3. \A l \in Conns : /\ \A m : Done(l, m)' = Done(l, m) /\ Holds(l, m)' = Holds(l, m)
                           /\ Broadcasts(l)' <=> Broadcasts(l)
      BY <1>1, <1>3, Sizes DEF Done, Got, Holds
    <2>4. \A l \in Conns : /\ thread'[l] = "none" => thread[l] = "none"
                           /\ thread'[l] \notin {"none", "exited"} =>
                                 thread[l] \notin {"none", "exited"}
      BY <1>1, <1>2, Sizes
    <2> QED
      BY <1>1, <2>1, <2>2, <2>3, <2>4 DEF Back
  <1> QED
    BY <1>1, <1>4, <1>5, <1>6, <1>7, <1>9, <1>10 DEF OrderInv

LEMMA broadcast_endOrder ==
    ASSUME ChatInv, OrderInv, life = "serving", NEW t \in Threads, broadcast_end(t)
    PROVE  OrderInv'
  <1>1. /\ thread[t] = "sending" /\ Goto(t, "recv") /\ mutex' = Nobody /\ ~(next[t] <= count)
        /\ batch' = [batch EXCEPT ![t] = <<>>] /\ next' = [next EXCEPT ![t] = 1]
        /\ UNCHANGED <<clients, count, socket, fds, failed, ptr, conn, said, taken, inbox, life,
                       raced, merged>>
    BY DEF broadcast_end, pthread_mutex_unlock, InLoop, listVars, clientVars, flagVars
  <1>2. \A u \in Threads : /\ thread'[u] = IF u = t THEN "recv" ELSE thread[u]
                           /\ u # t => batch'[u] = batch[u]
                           /\ next'[u] = IF u = t THEN 1 ELSE next[u]
    BY <1>1 DEF Goto, ChatInv, TypeOK
  <1>3. \A u \in Threads : /\ u # t => thread[u] # "sending"
                           /\ Broadcasts(u)' => u # t /\ Broadcasts(u)
                           /\ u # t => (Broadcasts(u)' <=> Broadcasts(u))
    BY <1>1, <1>2 DEF OrderInv, Sending, Broadcasts
  <1>4. OldLines' /\ SameOrder'
    BY <1>1, InboxKept DEF OrderInv, OldLines
  <1>5. Batches'
    BY <1>1, <1>2, <1>3 DEF OrderInv, Batches
  <1>6. Apart'
    BY <1>2, <1>3 DEF OrderInv, Apart, Holds
  <1>7. Unsent'
    BY <1>1, <1>2, <1>3 DEF OrderInv, Unsent, Got
  <1>8. Sending'
    BY <1>2, <1>3 DEF Sending
  <1>9. ASSUME ~raced, failed < 2 PROVE Back'
    <2>1. Back
      BY <1>9 DEF OrderInv
    <2>2. \A l \in Conns : \A m : Done(l, m)' = Done(l, m)
      BY <1>1 DEF Done, Got
    <2> SUFFICES ASSUME NEW l \in Conns
                 PROVE  /\ thread'[l] = "none" => taken'[l] = 0
                        /\ thread'[l] \notin {"none", "exited"} /\ conn'[l] = "open" =>
                              \A m \in 1 .. taken'[l] :
                                  \/ Done(l, m)'
                                  \/ /\ Broadcasts(l)' /\ Holds(l, [from |-> l, n |-> m])'
                                     /\ Ahead(l)'
      BY DEF Back
    <2>3. CASE l = t
      <3>1. ~Ahead(l)
        <4>1. next[t] \in Nat /\ count \in Nat
          BY CountNat DEF ChatInv, TypeOK
        <4>2. \A j \in next[t] .. count : FALSE
          BY <1>1, <4>1
        <4> QED
          BY <1>1, <2>3, <4>2 DEF Ahead
      <3> QED
        BY <1>1, <1>2, <2>1, <2>2, <2>3, <3>1 DEF Back
    <2>4. CASE l # t
      <3>1. /\ thread'[l] = thread[l] /\ batch'[l] = batch[l] /\ next'[l] = next[l]
            /\ Broadcasts(l)' <=> Broadcasts(l)
        BY <1>2, <1>3, <2>4, Sizes
      <3>2. \A m : Holds(l, m)' = Holds(l, m)
        BY <3>1 DEF Holds
      <3>3. Ahead(l)' = Ahead(l)
        BY <1>1, <3>1 DEF Ahead
      <3> QED
        BY <1>1, <2>1, <2>2, <3>1, <3>2, <3>3 DEF Back
    <2> QED
      BY <2>3, <2>4
  <1> QED
    BY <1>1, <1>4, <1>5, <1>6, <1>7, <1>8, <1>9 DEF OrderInv

(* The entries of the array have different connections behind them. *)
LEMMA PeersDiffer ==
    ASSUME ChatInv, life = "serving", NEW i \in 1 .. count, NEW j \in 1 .. count, i # j,
           PeerAt(i) # Nobody
    PROVE  PeerAt(i) # PeerAt(j)
  <1>1. SUFFICES ASSUME PeerAt(i) = PeerAt(j) PROVE FALSE
    OBVIOUS
  <1>2. PICK p \in Listed, q \in Listed : p = clients[i] /\ q = clients[j]
    BY DEF Listed
  <1>3. socket[p] \in Fds /\ socket[q] \in Fds /\ fds[socket[p]] = fds[socket[q]]
        /\ fds[socket[p]] # Nobody
    BY <1>1, <1>2 DEF PeerAt, Peer
  <1>4. socket[p] = socket[q] /\ socket[p] # Bad
    BY <1>3, Sizes DEF ChatInv, OneFd
  <1>5. p = q
    BY <1>4 DEF ChatInv, Intact
  <1> QED
    BY <1>2, <1>5 DEF ChatInv, Intact, Distinct

LEMMA broadcast_sendOrder ==
    ASSUME ChatInv, OrderInv, life = "serving", NEW t \in Threads, broadcast_send(t)
    PROVE  OrderInv'
  <1> DEFINE k == PeerAt(next[t])
  <1>1. /\ thread[t] = "sending" /\ next[t] <= count /\ send(k, batch[t])
        /\ next' = [next EXCEPT ![t] = next[t] + 1]
        /\ UNCHANGED <<clients, count, socket, mutex, fds, failed, thread, ptr, batch, conn, said,
                       taken, life, raced, merged>>
    BY DEF broadcast_send, InLoop, PeerAt, listVars, flagVars
  <1>2. /\ mutex = t /\ next[t] >= 1 /\ AtEnd(t) /\ NotYet(t) /\ Broadcasts(t)
        /\ next[t] \in Nat /\ count \in Nat /\ next[t] \in 1 .. count /\ next[t] \in next[t] .. count
        /\ batch[t] \in Seq(Sent) /\ Len(batch[t]) \in Nat /\ k \in Conns \cup {Nobody}
    BY <1>1, CountNat, PeerType, LenProperties DEF OrderInv, Sending, Broadcasts, ChatInv, TypeOK,
       PeerAt
  <1>3. /\ \A u \in Threads : u # t => thread[u] # "sending" /\ next'[u] = next[u]
        /\ next'[t] = next[t] + 1
    BY <1>1, <1>2 DEF OrderInv, Sending, ChatInv, TypeOK
  <1>4. k # Nobody => \A i \in 1 .. Len(batch[t]) : ~Got(k, batch[t][i])
    BY <1>2 DEF NotYet
  <1>5. \A j \in next[t] + 1 .. count : PeerAt(j) # Nobody => PeerAt(j) # k
    <2> TAKE j \in next[t] + 1 .. count
    <2>1. j \in 1 .. count /\ j # next[t]
      BY <1>2
    <2> QED
      BY <1>2, <2>1, PeersDiffer
  <1>6. \A j : PeerAt(j)' = PeerAt(j) /\ PeerAt(j) \in Conns \cup {Nobody}
    BY <1>1, PeerType DEF PeerAt, Peer, ChatInv
  <1> HIDE DEF k
  <1>7. \A l \in Conns : /\ l = k /\ conn[l] = "open" => Sends(l, batch[t])
                         /\ inbox'[l] = inbox[l] \/ (l = k /\ Sends(l, batch[t]))
    BY <1>1, <1>2, sendInbox DEF ChatInv
  <1>8. \A l \in Conns : \A x \in 1 .. Len(inbox'[l]) :
           \/ x \in 1 .. Len(inbox[l]) /\ inbox'[l][x] = inbox[l][x]
           \/ /\ l = k /\ x > Len(inbox[l]) /\ x - Len(inbox[l]) \in 1 .. Len(batch[t])
              /\ inbox'[l][x] = batch[t][x - Len(inbox[l])]
    <2> TAKE l \in Conns
    <2> TAKE x \in 1 .. Len(inbox'[l])
    <2>1. CASE inbox'[l] = inbox[l]
      BY <2>1
    <2>2. CASE l = k /\ Sends(l, batch[t])
      BY <1>2, <2>2, Places DEF ChatInv
    <2> QED
      BY <1>7, <2>1, <2>2
  <1>9. \A l \in Conns : Len(inbox[l]) \in Nat /\ Len(inbox'[l]) \in Nat
    <2> TAKE l \in Conns
    <2>1. Len(inbox[l]) \in Nat
      BY LenProperties DEF ChatInv, TypeOK
    <2> QED
      BY <1>2, <1>7, <2>1 DEF Sends
  <1>10. \A l \in Conns : \A m : Got(l, m)' => Got(l, m) \/ (l = k /\ Holds(t, m))
    BY <1>8 DEF Got, Holds
  <1>11. \A l \in Conns : \A m : Got(l, m) => Got(l, m)'
    <2> TAKE l \in Conns
    <2>1. CASE inbox'[l] = inbox[l]
      BY <2>1 DEF Got
    <2>2. CASE Sends(l, batch[t])
      BY <1>2, <2>2, SendsKeeps DEF ChatInv
    <2> QED
      BY <1>7, <2>1, <2>2
  <1>12. \A i, j \in 1 .. Len(batch[t]) :
            /\ batch[t][i].n \in Nat /\ batch[t][i].from \in Conns
            /\ batch[t][i].n <= taken[batch[t][i].from]
            /\ i < j => batch[t][i].n < batch[t][j].n
    <2>1. \A i \in 1 .. Len(batch[t]) : batch[t][i] \in Sent
      BY <1>2, ElementOfSeq
    <2>2. \A i \in 1 .. Len(batch[t]) : batch[t][i].n \in Nat
      BY <2>1 DEF Sent
    <2> QED
      BY <1>2, <2>2 DEF OrderInv, Batches
  <1>13. OldLines'
    BY <1>1, <1>8, <1>12 DEF OrderInv, OldLines
  <1>14. Batches' /\ Apart'
    <2>1. \A u \in Threads : Broadcasts(u)' <=> Broadcasts(u)
      BY <1>1 DEF Broadcasts
    <2>2. Batches'
      BY <1>1, <2>1 DEF OrderInv, Batches
    <2>3. Apart'
      BY <1>1, <2>1 DEF OrderInv, Apart, Holds
    <2> QED
      BY <2>2, <2>3
  <1>15. Unsent'
    <2>1. \A u \in Threads : thread'[u] # "sending" => next'[u] = 1
      BY <1>1, <1>3 DEF OrderInv, Unsent
    <2>2. ASSUME NEW u \in Threads, thread[u] = "broadcast", NEW l \in Conns,
                 NEW i \in 1 .. Len(batch[u])
          PROVE  ~Got(l, batch[u][i])'
      <3>1. PICK m : m = batch[u][i]
        OBVIOUS
      <3>2. u # t /\ Broadcasts(u) /\ ~Got(l, m)
        BY <1>1, <2>2, <3>1 DEF OrderInv, Unsent, Broadcasts
      <3>3. ~Holds(t, m)
        BY <1>2, <3>1, <3>2 DEF OrderInv, Apart
      <3>4. ~Got(l, m)'
        BY <1>10, <3>2, <3>3
      <3> QED
        BY <1>1, <3>1, <3>4 DEF Got
    <2> QED
      BY <1>1, <2>1, <2>2 DEF Unsent
  <1>16. AtEnd(t)'
    <2> SUFFICES ASSUME NEW l \in Conns, NEW x \in 1 .. Len(inbox'[l]), NEW y \in 1 .. Len(inbox'[l]),
                        x < y, Holds(t, inbox[l][x])'
                 PROVE  \/ inbox'[l][y].from = Nobody
                        \/ Holds(t, inbox[l][y])' /\ inbox'[l][x].n < inbox'[l][y].n
      BY DEF AtEnd
    <2>1. CASE y \in 1 .. Len(inbox[l]) /\ inbox'[l][y] = inbox[l][y]
      <3>1. x \in 1 .. Len(inbox[l]) /\ inbox'[l][x] = inbox[l][x]
        BY <1>8, <1>9, <2>1
      <3>2. Holds(t, inbox[l][x])
        BY <1>1, <3>1 DEF Holds
      <3>3. \/ inbox[l][y].from = Nobody
            \/ Holds(t, inbox[l][y]) /\ inbox[l][x].n < inbox[l][y].n
        BY <1>2, <2>1, <3>1, <3>2 DEF AtEnd
      <3> QED
        BY <1>1, <2>1, <3>1, <3>3 DEF Holds
    <2>2. CASE /\ l = k /\ y > Len(inbox[l]) /\ y - Len(inbox[l]) \in 1 .. Len(batch[t])
               /\ inbox'[l][y] = batch[t][y - Len(inbox[l])]
      <3>1. CASE x \in 1 .. Len(inbox[l]) /\ inbox'[l][x] = inbox[l][x]
        <4>1. PICK i \in 1 .. Len(batch[t]) : batch[t][i] = inbox[l][x]
          BY <1>1, <3>1 DEF Holds
        <4>2. Got(k, batch[t][i])
          BY <2>2, <3>1, <4>1 DEF Got
        <4> QED
          BY <1>4, <2>2, <4>2, ChatAssumption
      <3>2. CASE /\ x > Len(inbox[l]) /\ x - Len(inbox[l]) \in 1 .. Len(batch[t])
                 /\ inbox'[l][x] = batch[t][x - Len(inbox[l])]
        <4>1. x - Len(inbox[l]) < y - Len(inbox[l])
          BY <1>9, <2>2, <3>2
        <4> QED
          BY <1>1, <1>12, <2>2, <3>2, <4>1 DEF Holds
      <3> QED
        BY <1>8, <3>1, <3>2
    <2> QED
      BY <1>8, <2>1, <2>2
  <1>17. NotYet(t)'
    <2> SUFFICES ASSUME NEW j \in next[t] + 1 .. count, PeerAt(j) # Nobody,
                        NEW i \in 1 .. Len(batch[t])
                 PROVE  ~Got(PeerAt(j), batch[t][i])'
      BY <1>1, <1>3, <1>6 DEF NotYet
    <2>1. PICK l, m : l \in Conns /\ l = PeerAt(j) /\ m = batch[t][i]
      BY <1>6
    <2>2. j \in next[t] .. count /\ l # k
      BY <1>2, <1>5, <2>1
    <2>3. ~Got(l, m)
      BY <1>2, <2>1, <2>2 DEF NotYet
    <2>4. ~Got(l, m)'
      BY <1>10, <2>1, <2>2, <2>3
    <2> QED
      BY <1>1, <1>6, <2>1, <2>4 DEF Got
  <1>18. Sending'
    <2>1. \A u \in Threads : thread'[u] = "sending" => u = t
      BY <1>1, <1>3
    <2>2. next[t] + 1 >= 1
      BY <1>2
    <2> QED
      BY <1>1, <1>2, <1>3, <1>16, <1>17, <2>1, <2>2 DEF Sending
  <1>19. SameOrder'
    (* Lines a and b arrive in one inbox in this order, in another in the other. *)
    <2> DEFINE Swapped(a, b, x, y, v, w) ==
                  /\ x < y /\ v < w
                  /\ inbox'[a][x].from # Nobody /\ inbox'[a][y].from # Nobody
                  /\ inbox'[b][v] = inbox'[a][y] /\ inbox'[b][w] = inbox'[a][x]
               New(l, x) == /\ l = k /\ x > Len(inbox[l]) /\ x - Len(inbox[l]) \in 1 .. Len(batch[t])
                            /\ inbox'[l][x] = batch[t][x - Len(inbox[l])]
               Old(l, x) == x \in 1 .. Len(inbox[l]) /\ inbox'[l][x] = inbox[l][x]
    <2>1. \A l \in Conns : \A x \in 1 .. Len(inbox'[l]) : Old(l, x) \/ New(l, x)
      BY <1>8
    <2>2. \A l \in Conns : \A x, y \in 1 .. Len(inbox'[l]) : x < y /\ Old(l, y) => Old(l, x)
      BY <1>8, <1>9
    <2>3. \A l \in Conns : \A x \in 1 .. Len(inbox'[l]) : New(l, x) => Holds(t, inbox'[l][x])
      BY DEF Holds
    <2>4. \A l \in Conns : \A x \in 1 .. Len(inbox'[l]) :
             l = k /\ Holds(t, inbox'[l][x]) => New(l, x)
      <3> SUFFICES ASSUME NEW l \in Conns, NEW x \in 1 .. Len(inbox'[l]), l = k,
                          Holds(t, inbox'[l][x]), Old(l, x)
                   PROVE  FALSE
        BY <2>1
      <3>1. PICK i \in 1 .. Len(batch[t]) : batch[t][i] = inbox[l][x]
        BY DEF Holds
      <3>2. Got(k, batch[t][i])
        BY <3>1 DEF Got
      <3> QED
        BY <1>4, <3>2, ChatAssumption
    <2>5. \A l \in Conns : \A x, y \in 1 .. Len(inbox'[l]) : New(l, x) /\ New(l, y) /\ x < y =>
             inbox'[l][x].n \in Nat /\ inbox'[l][y].n \in Nat /\ inbox'[l][x].n < inbox'[l][y].n
      <3> SUFFICES ASSUME NEW l \in Conns, NEW x \in 1 .. Len(inbox'[l]),
                          NEW y \in 1 .. Len(inbox'[l]), New(l, x), New(l, y), x < y
                   PROVE  /\ inbox'[l][x].n \in Nat /\ inbox'[l][y].n \in Nat
                          /\ inbox'[l][x].n < inbox'[l][y].n
        OBVIOUS
      <3>1. x - Len(inbox[l]) < y - Len(inbox[l])
        BY <1>9
      <3> QED
        BY <1>12, <3>1
    <2>6. ASSUME NEW a \in Conns, NEW b \in Conns, NEW x \in 1 .. Len(inbox'[a]),
                 NEW y \in 1 .. Len(inbox'[a]), NEW v \in 1 .. Len(inbox'[b]),
                 NEW w \in 1 .. Len(inbox'[b]), Swapped(a, b, x, y, v, w), New(a, y)
          PROVE  FALSE
      <3>1. Holds(t, inbox'[b][v]) /\ inbox'[b][w].from # Nobody
        BY <2>3, <2>6
      <3>2. Holds(t, inbox'[b][w]) /\ inbox'[b][v].n < inbox'[b][w].n
        <4>1. Holds(t, inbox[b][v])'
          BY <1>1, <3>1 DEF Holds
        <4>2. Holds(t, inbox[b][w])' /\ inbox'[b][v].n < inbox'[b][w].n
          BY <1>16, <2>6, <3>1, <4>1 DEF AtEnd
        <4> QED
          BY <1>1, <4>2 DEF Holds
      <3>3. New(a, x)
        BY <2>4, <2>6, <3>2
      <3>4. PICK m, n \in Nat : m = inbox'[a][x].n /\ n = inbox'[a][y].n /\ m < n
        BY <2>5, <2>6, <3>3
      <3>5. n < m
        BY <2>6, <3>2, <3>4
      <3> QED
        BY <3>4, <3>5
    <2>7. ASSUME NEW a \in Conns, NEW b \in Conns, NEW x \in 1 .. Len(inbox'[a]),
                 NEW y \in 1 .. Len(inbox'[a]), NEW v \in 1 .. Len(inbox'[b]),
                 NEW w \in 1 .. Len(inbox'[b]), Swapped(a, b, x, y, v, w)
          PROVE  FALSE
      <3>1. CASE New(a, y)
        BY <2>6, <2>7, <3>1
      <3>2. CASE New(b, w)
        <4>1. Swapped(b, a, v, w, x, y)
          BY <2>7
        <4> QED
          BY <2>6, <3>2, <4>1
      <3>3. CASE Old(a, y) /\ Old(b, w)
        <4>1. Old(a, x) /\ Old(b, v)
          BY <2>2, <2>7, <3>3
        <4>2. Before(b, inbox[a][y], inbox[a][x])
          BY <2>7, <3>3, <4>1 DEF Before
        <4> QED
          BY <2>7, <3>3, <4>1, <4>2 DEF OrderInv, SameOrder
      <3> QED
        BY <2>1, <3>1, <3>2, <3>3
    <2> QED
      BY <2>7 DEF SameOrder, Before
  <1>20. ASSUME ~raced, failed < 2 PROVE Back'
    <2>1. Back /\ Owned
      BY <1>20 DEF OrderInv, ChatInv
    <2>2. \A l \in Conns : \A m : /\ Done(l, m) => Done(l, m)'
                                  /\ Holds(l, m)' = Holds(l, m)
      BY <1>1, <1>11 DEF Done, Holds
    <2>3. \A l \in Conns : Broadcasts(l)' <=> Broadcasts(l)
      BY <1>1 DEF Broadcasts
    <2> SUFFICES ASSUME NEW l \in Conns, thread[l] \notin {"none", "exited"}, conn[l] = "open",
                        NEW m \in 1 .. taken[l],
                        Broadcasts(l) /\ Holds(l, [from |-> l, n |-> m]) /\ Ahead(l)
                 PROVE  Done(l, m)' \/ Ahead(l)'
      BY <1>1, <2>1, <2>2, <2>3 DEF Back
    <2>4. CASE l # t
      BY <1>1, <1>3, <2>4, Sizes DEF Ahead
    <2>5. CASE l = t /\ clients[next[t]] = ptr[t]
      <3>1. Owns(t, ptr[t])
        BY <1>1, <2>1 DEF Owned, Running
      <3>2. k = t
        BY <2>5, <3>1, Sizes DEF Owns, k, PeerAt, Peer
      <3>3. Sends(l, batch[t])
        BY <1>7, <2>5, <3>2
      <3>4. PICK i \in 1 .. Len(batch[t]) : batch[t][i] = [from |-> l, n |-> m]
        BY <2>5 DEF Holds
      <3>5. /\ Len(inbox[l]) + i \in 1 .. Len(inbox'[l])
            /\ inbox'[l][Len(inbox[l]) + i] = [from |-> l, n |-> m]
        <4>1. inbox'[l][Len(inbox[l]) + i] = batch[t][i] /\ Len(inbox[l]) \in Nat
          BY <1>9, <3>3 DEF Sends
        <4>2. Len(inbox'[l]) = Len(inbox[l]) + Len(batch[t]) /\ Len(batch[t]) \in Nat
          BY <1>2, <3>3 DEF Sends
        <4>3. Len(inbox[l]) + i \in 1 .. Len(inbox'[l])
          <5>1. PICK a, b \in Nat : a = Len(inbox[l]) /\ b = Len(batch[t])
            BY <4>1, <4>2
          <5>2. \A j \in 1 .. b : a + j \in 1 .. a + b
            OBVIOUS
          <5> QED
            BY <4>2, <5>1, <5>2
        <4> QED
          BY <3>4, <4>1, <4>3
      <3>6. Got(l, [from |-> l, n |-> m])'
        BY <3>5 DEF Got
      <3> QED
        BY <3>6 DEF Done
    <2>6. CASE l = t /\ clients[next[t]] # ptr[t]
      <3>1. PICK j \in next[t] .. count : clients[j] = ptr[t]
        BY <1>1, <2>6 DEF Ahead
      <3>2. j \in next[t] + 1 .. count
        BY <1>2, <2>6, <3>1
      <3> QED
        BY <1>1, <1>3, <2>6, <3>1, <3>2 DEF Ahead
    <2> QED
      BY <2>4, <2>5, <2>6
  <1> QED
    BY <1>1, <1>13, <1>14, <1>15, <1>18, <1>19, <1>20 DEF OrderInv

-----------------------------------------------------------------------------
LEMMA InitOrder == ASSUME Init PROVE OrderInv
  <1>1. \A t \in Threads : thread[t] = "none" /\ next[t] = 1 /\ ~Broadcasts(t)
    BY DEF Init, Broadcasts
  <1>2. \A k \in Conns : inbox[k] = <<>> /\ Len(inbox[k]) = 0 /\ taken[k] = 0
    BY DEF Init
  <1>3. OldLines /\ SameOrder
    BY <1>2 DEF OldLines, SameOrder
  <1>4. Batches /\ Apart /\ Unsent /\ Sending
    BY <1>1 DEF Batches, Apart, Unsent, Sending
  <1>5. Back
    BY <1>1, <1>2, Sizes DEF Back
  <1> QED
    BY <1>3, <1>4, <1>5 DEF OrderInv

LEMMA NextOrder ==
    ASSUME ChatInv, ChatInv', OrderInv, [Next]_chatVars PROVE OrderInv'
  <1>1. TypeOK
    BY DEF ChatInv
  <1>2. CASE UNCHANGED chatVars
    <2>1. QuietStep
      BY <1>2 DEF QuietStep, PeerAt, Peer, chatVars, serverVars, listVars, threadVars, clientVars,
         flagVars
    <2> QED
      BY <1>1, <2>1, QuietOrder
  <1>3. CASE Next
    <2>1. ASSUME life = "serving", Accepting PROVE OrderInv'
      BY <1>1, <2>1, acceptingQuiet, QuietOrder
    <2>2. ASSUME life = "serving", NEW t \in Threads, handle_chat_client(t) PROVE OrderInv'
      BY <1>1, <2>2, recv_linesOrder, renameOrder, broadcast_lockOrder, broadcast_sendOrder,
         broadcast_endOrder, threadQuiet, QuietOrder DEF handle_chat_client
    <2>3. ASSUME NEW k \in Conns,
                 \/ connect(k) \/ hang_up(k) \/ receive_message(k)
                 \/ \E line \in Messages : say(k, line)
          PROVE  OrderInv'
      BY <1>1, <2>3, clientQuiet, QuietOrder
    <2>4. ASSUME destroy_chat_server \/ late_step \/ exit PROVE OrderInv'
      BY <1>1, <2>4, endQuiet, QuietOrder
    <2> QED
      BY <1>3, <2>1, <2>2, <2>3, <2>4 DEF Next
  <1> QED
    BY <1>2, <1>3

(* A broadcast that is under way is the end of what its receivers have,    *)
(* and every line the server has read is on its way back to its sender.    *)
THEOREM OrderInvariant == Spec => []OrderInv
  <1>1. Init => ChatInv /\ OrderInv
    BY InitChat, InitOrder
  <1>2. (ChatInv /\ OrderInv) /\ [Next]_chatVars => (ChatInv /\ OrderInv)'
    BY NextChat, NextOrder
  <1> QED
    BY <1>1, <1>2, PTL DEF Spec

(* All clients see the broadcasts in one order, although every client has  *)
(* a thread of its own that broadcasts, and also after add_chat_client has *)
(* returned a wrong pointer: handle_chat_client holds the mutex through    *)
(* its loop over the array.                                                *)
THEOREM ChatSameOrder == Spec => []SameOrder
  <1>1. OrderInv => SameOrder
    BY DEF OrderInv
  <1> QED
    BY <1>1, OrderInvariant, PTL

(* A line that was read comes back to the client that sent it, unless it   *)
(* is a /rename or arrived behind one, and as long as the threads have     *)
(* their own clients.                                                      *)
THEOREM ChatLinesComeBack == Spec => []LinesComeBack
  <1>1. OrderInv => LinesComeBack
    <2> SUFFICES ASSUME OrderInv, ~raced, failed < 2, life = "serving", NEW k \in Conns,
                        thread[k] = "recv", conn[k] = "open", NEW n \in 1 .. taken[k]
                 PROVE  Done(k, n)
      BY DEF LinesComeBack, Done, Got
    <2> QED
      BY DEF OrderInv, Back, Broadcasts
  <1> QED
    BY <1>1, OrderInvariant, PTL
=============================================================================
