----------------------------- MODULE ChatServer -----------------------------
(***************************************************************************)
(* The chat server of src/src/chat-server.c and its clients, the programs  *)
(* of src/chat-client/src/chat-client.c.  One thread of the server         *)
(* accepts, one thread per client reads what the client sends and          *)
(* broadcasts it.                                                          *)
(*                                                                         *)
(* Shared are the array of pointers to ChatClient, the mutex, the heap and *)
(* the table of file descriptors.  An operation under the mutex is one     *)
(* step when nothing it touches is read without the mutex; a broadcast is  *)
(* one step per send, because a send can block.  The thread of a           *)
(* connection is named after the connection it was started for.            *)
(*                                                                         *)
(* malloc may return any address that is not in use, so a stale pointer    *)
(* may come to point to a new client.  Reading through a pointer to freed  *)
(* memory sets ub: what follows is undefined, and the model stops there.   *)
(***************************************************************************)
EXTENDS Integers, Sequences, FiniteSets

CONSTANTS Conns,       \* the connections, one per client program
          Nobody,      \* no connection, no thread
          Messages,    \* what a user types: lines of chat
          Rename,      \* the line "/rename ..." (a member of Messages)
          Quotas,      \* bound: how many lines each client sends, a set of choices
          MaxFailures, \* bound: calls of accept that fail
          MaxStops,    \* bound: 1 if the server may be shut down, else 0
          SendBuffer   \* sends a socket buffers for a client that does not read

N == Cardinality(Conns)

Fds  == 1 .. N                     \* descriptors accept can return
Bad  == -1                         \* what accept returns when it fails
Ptrs == 1 .. N + MaxFailures       \* addresses malloc can return
Null == 0

ASSUME ChatAssumption ==
    /\ IsFiniteSet(Conns)
    /\ Conns \cap (1 .. MaxFailures) = {}
    /\ Nobody \notin Conns \cup (1 .. MaxFailures)
    /\ Rename \in Messages
    /\ Quotas \subseteq [Conns -> Nat] /\ MaxFailures \in Nat /\ MaxStops \in {0, 1}
    /\ SendBuffer \in Nat \ {0}

(* The threads of handle_chat_client: those of connections, and those that *)
(* are started when accept fails.                                          *)
Threads == Conns \cup (1 .. MaxFailures)

VARIABLES clients,   \* server->clients: the array, stale cells included
          count,     \* server->client_count
          socket,    \* socket[p]: the descriptor in the ChatClient at p, or 0 if p is free
          mutex,     \* the thread that broadcasts, or Nobody
          fds,       \* fds[f]: the connection behind descriptor f, or Nobody
          acceptor,  \* where the accepting thread is, and its local variables
          failed,    \* how often accept has failed
          thread,    \* thread[t]: where the thread of client t is
          ptr,       \* ptr[t]: its pointer to its ChatClient
          batch,     \* batch[t]: what it has read and not dealt with
          next,      \* next[t]: the index of its broadcast loop
          conn,      \* conn[k]: "away", "pending", "open" or "closed" by the client
          said,      \* said[k]: the lines client k has sent
          taken,     \* taken[k]: how many of them the server has read
          inbox,     \* inbox[k]: all that was sent to client k, in order
          unread,    \* unread[k]: how much of it the client has not read
          life,      \* the server: "serving", "destroyed" or "exited"
          ub,        \* freed memory was used
          raced,     \* history: add_chat_client has returned another client's pointer
          merged     \* history: the lines that were read behind a /rename, in one recv

listVars   == <<clients, count, socket>>
threadVars == <<thread, ptr, batch, next>>
clientVars == <<conn, said, taken, inbox, unread>>
flagVars   == <<life, ub, raced, merged>>
serverVars == <<listVars, threadVars, mutex, fds, acceptor, failed, flagVars>>
chatVars   == <<serverVars, clientVars>>

Idle == [at |-> "accept", who |-> Nobody, fd |-> 0, added |-> Null, n |-> 0, got |-> Null]

(* init_chat_server, before anybody has connected *)
Init ==
    /\ clients = [j \in Ptrs |-> Null]
    /\ count = 0
    /\ socket = [p \in Ptrs |-> 0]
    /\ mutex = Nobody
    /\ fds = [f \in Fds |-> Nobody]
    /\ acceptor = Idle
    /\ failed = 0
    /\ thread = [t \in Threads |-> "none"]
    /\ ptr = [t \in Threads |-> Null]
    /\ batch = [t \in Threads |-> <<>>]
    /\ next = [t \in Threads |-> 1]
    /\ conn = [k \in Conns |-> "away"]
    /\ said = [k \in Conns |-> <<>>]
    /\ taken = [k \in Conns |-> 0]
    /\ inbox = [k \in Conns |-> <<>>]
    /\ unread = [k \in Conns |-> 0]
    /\ life = "serving" /\ ub = FALSE /\ raced = FALSE /\ merged = {}

Live(p) == p # Null /\ socket[p] # 0

-----------------------------------------------------------------------------
(* _start_chat_server, the accepting thread *)

(* accept returns the lowest descriptor that is free. *)
accept(k) ==
    /\ acceptor.at = "accept"
    /\ conn[k] \in {"pending", "pending_closed"}
    /\ \E f \in Fds :
          /\ fds[f] = Nobody
          /\ \A g \in 1 .. f - 1 : fds[g] # Nobody
          /\ fds' = [fds EXCEPT ![f] = k]
          /\ acceptor' = [Idle EXCEPT !.at = "add", !.who = k, !.fd = f]
    /\ conn' = [conn EXCEPT ![k] = IF @ = "pending" THEN "open" ELSE "closed"]
    /\ UNCHANGED <<listVars, threadVars, mutex, failed, flagVars, said, taken, inbox, unread>>

(* The result of accept is not tested: -1 is added like a socket. *)
accept_fails ==
    /\ acceptor.at = "accept"
    /\ failed < MaxFailures
    /\ failed' = failed + 1
    /\ acceptor' = [Idle EXCEPT !.at = "add", !.who = failed + 1, !.fd = Bad]
    /\ UNCHANGED <<listVars, threadVars, clientVars, mutex, fds, flagVars>>

(* add_chat_client, up to the unlock *)
add_chat_client ==
    /\ acceptor.at = "add"
    /\ mutex = Nobody
    /\ \E p \in Ptrs :
          /\ ~Live(p)
          /\ socket' = [socket EXCEPT ![p] = acceptor.fd]
          /\ clients' = [clients EXCEPT ![count + 1] = p]
          /\ acceptor' = [acceptor EXCEPT !.at = "count", !.added = p]
    /\ count' = count + 1
    /\ UNCHANGED <<threadVars, clientVars, mutex, fds, failed, flagVars>>

(* return server->clients[server->client_count - 1]: two reads without the *)
(* mutex.                                                                  *)
add_read_count ==
    /\ acceptor.at = "count"
    /\ acceptor' = [acceptor EXCEPT !.at = "cell", !.n = count]
    /\ UNCHANGED <<listVars, threadVars, clientVars, mutex, fds, failed, flagVars>>

add_return ==
    /\ acceptor.at = "cell"
    /\ acceptor' = [acceptor EXCEPT !.at = "spawn", !.got = clients[acceptor.n]]
    /\ raced' = (raced \/ clients[acceptor.n] # acceptor.added)
    /\ UNCHANGED <<listVars, threadVars, clientVars, mutex, fds, failed, life, ub, merged>>

spawn ==
    /\ acceptor.at = "spawn"
    /\ thread' = [thread EXCEPT ![acceptor.who] = "recv"]
    /\ ptr' = [ptr EXCEPT ![acceptor.who] = acceptor.got]
    /\ acceptor' = Idle
    /\ UNCHANGED <<listVars, clientVars, mutex, fds, failed, batch, next, flagVars>>

-----------------------------------------------------------------------------
(* handle_chat_client *)

At(t, here) == thread[t] = here /\ Live(ptr[t])

Goto(t, label) == thread' = [thread EXCEPT ![t] = label]

(* The connection behind the descriptor of a ChatClient. *)
Peer(p) == IF socket[p] \in Fds THEN fds[socket[p]] ELSE Nobody

(* A thread whose pointer has been freed under it reads freed memory. *)
use_after_free(t) ==
    /\ thread[t] \in {"recv", "reply", "broadcast", "remove"}
    /\ ~Live(ptr[t])
    /\ ub' = TRUE
    /\ UNCHANGED <<listVars, threadVars, clientVars, mutex, fds, acceptor, failed, life, raced,
                   merged>>

(* The next n lines of client k, as they are in the buffer of recv. *)
Lines(k, n) == [i \in 1 .. n |-> [from |-> k, n |-> taken[k] + i]]

(* recv returns any number of the lines that have arrived: TCP keeps their *)
(* order and not their boundaries.  A batch that starts with /rename is a  *)
(* change of name, whatever follows in it; any other is broadcast.         *)
recv_lines(t) ==
    LET k == Peer(ptr[t])
    IN  /\ At(t, "recv")
        /\ k # Nobody
        /\ \E n \in 1 .. Len(said[k]) - taken[k] :
              LET renames == said[k][taken[k] + 1] = Rename
              IN  /\ taken' = [taken EXCEPT ![k] = @ + n]
                  /\ batch' = [batch EXCEPT ![t] = IF renames THEN <<>> ELSE Lines(k, n)]
                  /\ merged' = IF renames THEN merged \cup {<<k, taken[k] + i>> : i \in 2 .. n}
                                          ELSE merged
                  /\ Goto(t, IF renames THEN "reply" ELSE "broadcast")
        /\ UNCHANGED <<listVars, mutex, fds, acceptor, failed, ptr, next, conn, said, inbox, unread,
                       life, ub, raced>>

(* recv fails, or the client has closed and everything is read: the client *)
(* is removed and the thread exits.                                        *)
AfterEnd_exit == "exited"

AfterEnd == "remove"

recv_end(t) ==
    LET k == Peer(ptr[t])
    IN  /\ At(t, "recv")
        /\ k # Nobody => conn[k] = "closed" /\ taken[k] = Len(said[k])
        /\ Goto(t, AfterEnd)
        /\ UNCHANGED <<listVars, clientVars, mutex, fds, acceptor, failed, ptr, batch, next,
                       flagVars>>

(* send to a connection: it waits for room in the socket's buffer, and has *)
(* no effect on a descriptor that is bad or a client that has closed.      *)
send(k, lines) ==
    IF k # Nobody /\ conn[k] = "open"
    THEN /\ unread[k] < SendBuffer
         /\ unread' = [unread EXCEPT ![k] = @ + 1]
         /\ inbox' = [inbox EXCEPT ![k] = @ \o lines]
    ELSE UNCHANGED <<unread, inbox>>

(* The name is changed, or is too long; the client is told which. *)
rename(t) ==
    /\ At(t, "reply")
    /\ send(Peer(ptr[t]), <<[from |-> Nobody, n |-> 0]>>)
    /\ Goto(t, "recv")
    /\ UNCHANGED <<listVars, mutex, fds, acceptor, failed, ptr, batch, next, conn, said, taken,
                   flagVars>>

pthread_mutex_lock_none(t) == UNCHANGED mutex

pthread_mutex_lock(t) == mutex = Nobody /\ mutex' = t

(* client->name is read for the message, then the mutex is taken. *)
broadcast_lock(t) ==
    /\ At(t, "broadcast")
    /\ pthread_mutex_lock(t)
    /\ Goto(t, "sending")
    /\ UNCHANGED <<listVars, clientVars, fds, acceptor, failed, ptr, batch, next, flagVars>>

InLoop_one_short(t) == next[t] < count

InLoop(t) == next[t] <= count

broadcast_send(t) ==
    /\ thread[t] = "sending"
    /\ InLoop(t)
    /\ send(Peer(clients[next[t]]), batch[t])
    /\ next' = [next EXCEPT ![t] = @ + 1]
    /\ UNCHANGED <<listVars, mutex, fds, acceptor, failed, thread, ptr, batch, conn, said, taken,
                   flagVars>>

pthread_mutex_unlock_none == UNCHANGED mutex

pthread_mutex_unlock == mutex' = Nobody

broadcast_end(t) ==
    /\ thread[t] = "sending"
    /\ ~InLoop(t)
    /\ pthread_mutex_unlock
    /\ batch' = [batch EXCEPT ![t] = <<>>]
    /\ next' = [next EXCEPT ![t] = 1]
    /\ Goto(t, "recv")
    /\ UNCHANGED <<listVars, clientVars, fds, acceptor, failed, ptr, flagVars>>

(* An entry with the socket of client t, and what is moved to its place. *)
Entry_any(j, t) == TRUE

Entry(j, t) == socket[clients[j]] = socket[ptr[t]]

Moved_none(j) == clients[j]

Moved_past_end(j) == clients[count + 1]

Moved(j) == clients[count]

(* remove_chat_client: the descriptor is closed, and the first entry with  *)
(* that socket is freed and replaced by the last one.  There is one, since *)
(* a ChatClient that is not freed is in the array (ListIntact).  Then the  *)
(* thread exits.                                                           *)
remove_chat_client(t) ==
    /\ At(t, "remove")
    /\ mutex = Nobody
    /\ fds' = [f \in Fds |-> IF f = socket[ptr[t]] THEN Nobody ELSE fds[f]]
    /\ \E j \in 1 .. count :
          /\ Entry(j, t)
          /\ \A h \in 1 .. j - 1 : ~Entry(h, t)
          /\ socket' = [socket EXCEPT ![clients[j]] = 0]
          /\ clients' = [clients EXCEPT ![j] = Moved(j)]
    /\ count' = count - 1
    /\ ptr' = [ptr EXCEPT ![t] = Null]
    /\ Goto(t, "exited")
    /\ UNCHANGED <<clientVars, mutex, acceptor, failed, batch, next, flagVars>>

-----------------------------------------------------------------------------
(* The end of the process *)

(* cleanup of main.c calls destroy_chat_server, which stops no thread and  *)
(* does not take the mutex: every ChatClient, the array and the server are *)
(* freed under whoever uses them.                                          *)
destroy_chat_server ==
    /\ MaxStops > 0
    /\ life = "serving"
    /\ life' = "destroyed"
    /\ socket' = [p \in Ptrs |-> 0]
    /\ UNCHANGED <<clients, count, threadVars, clientVars, mutex, fds, acceptor, failed, ub, raced,
                   merged>>

(* Until exit, a thread that goes on reads what was freed; the accepting   *)
(* thread does so when accept returns.                                     *)
late_step ==
    /\ life = "destroyed"
    /\ \/ \E t \in Threads : thread[t] \notin {"none", "exited"}
       \/ acceptor.at # "accept"
       \/ \E k \in Conns : conn[k] \in {"pending", "pending_closed"}
    /\ ub' = TRUE
    /\ UNCHANGED <<listVars, threadVars, clientVars, mutex, fds, acceptor, failed, life, raced,
                   merged>>

exit ==
    /\ life = "destroyed"
    /\ life' = "exited"
    /\ UNCHANGED <<listVars, threadVars, clientVars, mutex, fds, acceptor, failed, ub, raced, merged>>

-----------------------------------------------------------------------------
(* The clients, chat-client.c *)

connect(k) ==
    /\ conn[k] = "away"
    /\ conn' = [conn EXCEPT ![k] = "pending"]
    /\ UNCHANGED <<serverVars, said, taken, inbox, unread>>

(* rename_user sends the first line, the loop of main what the user types; *)
(* no line ends with a newline.                                            *)
say(k, line) ==
    /\ conn[k] \in {"pending", "open"}
    /\ said[k] = <<>> => line = Rename
    /\ said' = [said EXCEPT ![k] = Append(@, line)]
    /\ \E q \in Quotas : \A j \in Conns : Len(said'[j]) <= q[j]
    /\ UNCHANGED <<serverVars, conn, taken, inbox, unread>>

(* The thread that reads is started when the name has been sent. *)
receive_message(k) ==
    /\ said[k] # <<>>
    /\ unread[k] > 0
    /\ unread' = [unread EXCEPT ![k] = 0]
    /\ UNCHANGED <<serverVars, conn, said, taken, inbox>>

hang_up(k) ==
    /\ conn[k] \in {"pending", "open"}
    /\ conn' = [conn EXCEPT ![k] = IF @ = "pending" THEN "pending_closed" ELSE "closed"]
    /\ UNCHANGED <<serverVars, said, taken, inbox, unread>>

-----------------------------------------------------------------------------
Accepting ==
    \/ \E k \in Conns : accept(k)
    \/ accept_fails
    \/ add_chat_client
    \/ add_read_count
    \/ add_return
    \/ spawn

handle_chat_client(t) ==
    \/ recv_lines(t)
    \/ recv_end(t)
    \/ rename(t)
    \/ broadcast_lock(t)
    \/ broadcast_send(t)
    \/ broadcast_end(t)
    \/ remove_chat_client(t)
    \/ use_after_free(t)

Next ==
    /\ ~ub
    /\ \/ /\ life = "serving"
          /\ \/ Accepting
             \/ \E t \in Threads : handle_chat_client(t)
             \/ \E k \in Conns : receive_message(k) \/ hang_up(k)
             \/ \E k \in Conns, line \in Messages : say(k, line)
       \/ life # "exited" /\ \E k \in Conns : connect(k)
       \/ destroy_chat_server \/ late_step \/ exit

Spec == Init /\ [][Next]_chatVars

(* Threads run, a thread that waits for a mutex that is freed again and    *)
(* again gets it, and a client that has given its name reads what it is    *)
(* sent.  Nobody has to give a name.                                       *)
Fair(A) == life = "serving" /\ A

ChatFairness ==
    /\ WF_chatVars(Fair((\E k \in Conns : accept(k)) \/ add_read_count \/ add_return \/ spawn))
    /\ SF_chatVars(Fair(add_chat_client))
    /\ \A t \in Threads :
          /\ WF_chatVars(Fair(recv_lines(t) \/ recv_end(t) \/ rename(t) \/ broadcast_send(t)
                                            \/ broadcast_end(t)))
          /\ SF_chatVars(Fair(broadcast_lock(t) \/ remove_chat_client(t)))
    /\ \A k \in Conns : WF_chatVars(Fair(receive_message(k)))

FairSpec == Spec /\ ChatFairness

-----------------------------------------------------------------------------
(* Properties *)

Listed == {clients[j] : j \in 1 .. count}

Acceptors ==
    [at : {"accept", "add", "count", "cell", "spawn"}, who : Threads \cup {Nobody},
     fd : Fds \cup {0, Bad}, added : Ptrs \cup {Null}, n : Ptrs \cup {0}, got : Ptrs \cup {Null}]

Sent == [from : Conns \cup {Nobody}, n : Nat]

(* Every variable has its type, and the part of the array that is in use   *)
(* holds pointers.                                                         *)
TypeOK ==
    /\ clients \in [Ptrs -> Ptrs \cup {Null}]
    /\ count \in 0 .. N + MaxFailures
    /\ \A j \in 1 .. count : clients[j] # Null
    /\ mutex \in Threads \cup {Nobody}
    /\ socket \in [Ptrs -> Fds \cup {0, Bad}]
    /\ fds \in [Fds -> Conns \cup {Nobody}]
    /\ acceptor \in Acceptors
    /\ failed \in 0 .. MaxFailures
    /\ thread \in [Threads -> {"none", "recv", "reply", "broadcast", "sending", "remove", "exited"}]
    /\ ptr \in [Threads -> Ptrs \cup {Null}]
    /\ batch \in [Threads -> Seq(Sent)]
    /\ next \in [Threads -> Nat]
    /\ conn \in [Conns -> {"away", "pending", "pending_closed", "open", "closed"}]
    /\ said \in [Conns -> Seq(Messages)]
    /\ taken \in [Conns -> Nat]
    /\ \A k \in Conns : taken[k] <= Len(said[k])
    /\ inbox \in [Conns -> Seq(Sent)]
    /\ unread \in [Conns -> 0 .. SendBuffer]
    /\ life \in {"serving", "destroyed", "exited"} /\ ub \in BOOLEAN /\ raced \in BOOLEAN
    /\ merged \subseteq Conns \X Nat

(* The array of clients stays intact while threads add, remove and send    *)
(* and descriptors are closed and given out again: its entries are         *)
(* distinct, they are exactly the clients that are not freed, and no two   *)
(* of them have the same descriptor, which has to be an open one.          *)
ListIntact ==
    life = "serving" =>
        /\ Cardinality(Listed) = count
        /\ Listed = {p \in Ptrs : Live(p)}
        /\ \A p \in Listed : socket[p] = Bad \/ fds[socket[p]] # Nobody
        /\ \A p, q \in Listed : socket[p] = socket[q] => p = q \/ socket[p] = Bad

(* A thread uses memory that another one has freed only after a removal    *)
(* has slipped in between the unlock and the return of add_chat_client, so *)
(* that it returned another client's pointer; after accept has failed      *)
(* twice, so that two entries have the descriptor -1; or after the server  *)
(* was destroyed while a client was there or on its way in.                *)
FreedOnlyByRace ==
    ub => \/ raced
          \/ failed >= 2
          \/ /\ life = "destroyed"
             /\ \/ count > 0 \/ acceptor.who # Nobody
                \/ \E k \in Conns : conn[k] \notin {"away", "closed"}

(* Otherwise every thread serves the connection it was started for, and    *)
(* the ChatClient of a connection that is listed has a thread, or the      *)
(* accepting thread is about to start it.                                  *)
OwnThread ==
    ~raced /\ failed < 2 /\ life = "serving" =>
        /\ \A k \in Conns :
              thread[k] \in {"recv", "reply", "broadcast", "remove"} => Peer(ptr[k]) = k
        /\ \A k \in Conns :
              (\E p \in Listed : Peer(p) = k) =>
                  \/ thread[k] \notin {"none", "exited"}
                  \/ acceptor.who = k

(* All clients see the broadcasts in the same order: two lines that two    *)
(* clients have both received reached them in the same order, although     *)
(* every client has a thread of its own that broadcasts.                   *)
Before(k, a, b) ==
    \E x, y \in 1 .. Len(inbox[k]) : x < y /\ inbox[k][x] = a /\ inbox[k][y] = b

SameOrder ==
    \A k, l \in Conns : \A x, y \in 1 .. Len(inbox[k]) :
        /\ x < y
        /\ inbox[k][x].from # Nobody /\ inbox[k][y].from # Nobody
        => ~Before(l, inbox[k][y], inbox[k][x])

(* A line that the server has read comes back to the client that sent it,  *)
(* unless it is a /rename or arrived in one segment behind one: then it    *)
(* becomes a part of the name.  As in OwnThread, the pointers have to be   *)
(* right: a second thread with the same one may have read the line.        *)
LinesComeBack ==
    ~raced /\ failed < 2 /\ life = "serving" =>
        \A k \in Conns :
            thread[k] = "recv" /\ conn[k] = "open" =>
                \A n \in 1 .. taken[k] :
                    \/ said[k][n] = Rename
                    \/ <<k, n>> \in merged
                    \/ \E x \in 1 .. Len(inbox[k]) : inbox[k][x] = [from |-> k, n |-> n]

(* A broadcast waits, with the mutex, for room to send to a client that is *)
(* still at the prompt for its name and does not read.                     *)
Stalled ==
    \E t \in Threads, k \in Conns :
        /\ mutex = t /\ InLoop(t) /\ Peer(clients[next[t]]) = k
        /\ conn[k] = "open" /\ said[k] = <<>> /\ unread[k] = SendBuffer

(* A client that hangs up is removed, unless add_chat_client has returned  *)
(* another client's pointer, or a client that never gives its name stops   *)
(* the server for good.                                                    *)
GoneIsRemoved ==
    \/ \A k \in Conns : conn[k] = "closed" ~> (raced \/ \A f \in Fds : fds[f] # k)
    \/ <>[]Stalled

(* Every broadcast ends and frees the mutex, whatever clients come, go and *)
(* say meanwhile.  The only thing that can stop one for good is a client   *)
(* that stays connected and never gives its name.                          *)
BroadcastEnds == []<>(mutex = Nobody) \/ <>[]Stalled
=============================================================================
