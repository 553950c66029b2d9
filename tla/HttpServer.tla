----------------------------- MODULE HttpServer -----------------------------
(***************************************************************************)
(* The web server: src/src/main.c and src/src/http-server.c on top of the  *)
(* thread pool.                                                            *)
(*                                                                         *)
(* Main starts the chat server, creates the server and its pool, and then  *)
(* accepts connections and pushes them to the pool, whose callback is      *)
(* handle_client.  SIGINT and SIGTERM run cleanup on the main thread: it   *)
(* starts wherever Main is, Main never goes on, and cleanup stops the pool *)
(* before it exits.  So Main and Handler are two threads of the model and  *)
(* one thread of the program, of which Main is frozen once sig is set.     *)
(*                                                                         *)
(* A connection stands for the HandlerArg that main allocates for it.      *)
(* request_parse uses strtok, which keeps its position in one static       *)
(* variable (see RequestParse); here a parse that overlapped with another  *)
(* use of strtok may give any path, or none, which is a null pointer.      *)
(*                                                                         *)
(* The signal may also interrupt Main while it holds a lock of the C       *)
(* library: inside malloc, where the allocator has one lock (musl, in the  *)
(* image), or while it prints to stderr.  No other thread gets past malloc *)
(* and free, or prints an error, any more.                                 *)
(*                                                                         *)
(* The chat server runs in the same process.  Here it matters while main   *)
(* starts it and while cleanup destroys it; what its own threads may do    *)
(* wrong while it serves is the subject of ChatServer.                     *)
(*                                                                         *)
(* Bounds: one signal; every connection is made once.                      *)
(***************************************************************************)
EXTENDS ThreadPool, Sequences

CONSTANT Handler      \* the main thread while it runs the signal handler

INSTANCE Headers

Main  == Owner
Conns == Tasks

Paths  == {"/", "other"}
Bodies == {"home page", "not found"}

ASSUME ServerAssumption ==
    /\ Producers = {Main, Handler} /\ Main # Handler
    /\ NULL \notin Paths \cup Bodies

VARIABLES proc,      \* the process: "running", "exited", "failed" or "crashed"
          boot,      \* how far main has got
          accepted,  \* the connection Main has accepted and not pushed, or NULL
          sig,       \* the signal has been delivered
          held,      \* the lock of the C library that Main held then, or "no"
          cleaning,  \* where Handler is in cleanup
          conn,      \* conn[c]: the server's end of the connection
          client,    \* client[c]: what the client has done
          path,      \* path[c]: the path it asks for, or NULL: no path that can be parsed
          step,      \* step[w]: where worker w is in handle_client
          clobbered, \* the connections whose parse overlapped another use of strtok
          answer     \* answer[c]: the response the client got, or NULL

mainVars   == <<boot, accepted>>
sigVars    == <<sig, held, cleaning>>
connVars   == <<conn, client, path, answer>>
workVars   == <<step, clobbered>>
serverVars == <<proc, mainVars, sigVars, connVars, workVars>>
allVars    == <<queueVars, poolVars, serverVars>>

Boots == {"start", "chat_alloc", "chat", "config", "server", "pool"}

ServerInit ==
    /\ PoolInit
    /\ proc = "running"
    /\ boot = "start"
    /\ accepted = NULL
    /\ sig = FALSE /\ held = "no"
    /\ cleaning = "no"
    /\ conn = [c \in Conns |-> "none"]
    /\ client = [c \in Conns |-> "away"]
    /\ path = [c \in Conns |-> NULL]
    /\ step = [w \in Consumers |-> "none"]
    /\ clobbered = {}
    /\ answer = [c \in Conns |-> NULL]

-----------------------------------------------------------------------------
(* main *)

MainRuns == proc = "running" /\ ~sig

(* Each of these is visible to cleanup through a global pointer. *)
main_step(from, to) ==
    /\ MainRuns
    /\ boot = from
    /\ boot' = to
    /\ UNCHANGED <<queueVars, poolVars, proc, accepted, sigVars, connVars, workVars>>

main_chat_alloc == main_step("start", "chat_alloc")

start_chat_server == main_step("chat_alloc", "chat")

server_config_create == main_step("chat", "config")

server_create == main_step("config", "server")

server_listen == main_step("server", "pool")

main_boot ==
    \/ main_chat_alloc \/ start_chat_server \/ server_config_create
    \/ server_create \/ server_listen

(* Any of the calls that check their result may fail: main exits. *)
main_fail ==
    /\ MainRuns
    /\ boot \in {"chat_alloc", "chat", "config", "server"}
    /\ proc' = "failed"
    /\ UNCHANGED <<queueVars, poolVars, mainVars, sigVars, connVars, workVars>>

(* server_start: the pool.  server->pool is set when thread_pool_create    *)
(* returns.                                                                *)
server_start ==
    /\ MainRuns
    /\ boot = "pool"
    /\ thread_pool_create
    /\ UNCHANGED serverVars

(* Main is back at accept.  A call that fails changes nothing: main prints *)
(* an error and goes on with the next one.                                 *)
Accepting ==
    /\ boot = "pool" /\ stage = "open"
    /\ accepted = NULL /\ pc[Main] = "idle"

server_accept(c) ==
    /\ MainRuns
    /\ Accepting
    /\ conn[c] = "pending"
    /\ accepted' = c
    /\ conn' = [conn EXCEPT ![c] = "open"]
    /\ UNCHANGED <<queueVars, poolVars, proc, boot, sigVars, client, path, answer, workVars>>

server_push ==
    /\ MainRuns
    /\ accepted # NULL
    /\ thread_pool_push(Main, accepted)
    /\ accepted' = NULL
    /\ UNCHANGED <<proc, boot, sigVars, connVars, workVars>>

-----------------------------------------------------------------------------
(* cleanup, the signal handler *)

(* Main allocates while it starts, and a HandlerArg for every connection. *)
Allocating == stage = "create" \/ accepted # NULL

(* The locks of the C library Main may hold when the signal arrives, that  *)
(* of stderr if accept has just failed.                                    *)
LibraryLocks == {"no"} \cup (IF Allocating THEN {"heap"} ELSE {})
                       \cup (IF Accepting THEN {"stderr"} ELSE {})

signal_arrives ==
    /\ MainRuns
    /\ sig' = TRUE
    /\ held' \in LibraryLocks
    /\ cleaning' = "server"
    /\ UNCHANGED <<queueVars, poolVars, proc, mainVars, connVars, workVars>>

(* server_stop(server), when server is not NULL.  It shuts the listening   *)
(* socket down, which resets the connections that wait to be accepted, and *)
(* calls thread_pool_destroy(server->pool), which follows a null pointer   *)
(* until thread_pool_create has returned.                                  *)
cleanup_server ==
    /\ proc = "running"
    /\ cleaning = "server"
    /\ IF boot \notin {"server", "pool"}
       THEN /\ cleaning' = "rest"
            /\ UNCHANGED <<queueVars, poolVars, proc, conn>>
       ELSE IF stage = "create"
       THEN /\ proc' = "crashed"
            /\ UNCHANGED <<queueVars, poolVars, cleaning, conn>>
       ELSE /\ thread_pool_destroy
            /\ cleaning' = "stop"
            /\ conn' = [c \in Conns |-> IF conn[c] = "pending" THEN "closed" ELSE conn[c]]
            /\ UNCHANGED proc
    /\ UNCHANGED <<mainVars, sig, held, client, path, answer, workVars>>

(* The rest of thread_pool_destroy; its last part frees. *)
server_stop ==
    /\ proc = "running"
    /\ cleaning = "stop"
    /\ held = "heap" => stage # "destroying"
    /\ \/ DestroyStep(Handler) /\ UNCHANGED cleaning
       \/ stage = "freed" /\ cleaning' = "rest" /\ UNCHANGED <<queueVars, poolVars>>
    /\ UNCHANGED <<proc, mainVars, sig, held, connVars, workVars>>

(* server_destroy, the middlewares, destroy_chat_server and exit(0).  The  *)
(* chat server is allocated before it is initialised: in between,          *)
(* destroy_chat_server reads an uninitialised struct.  After that its      *)
(* threads run until exit has ended them, and what they use is freed: see  *)
(* destroy_chat_server and late_step of ChatServer.  With the heap         *)
(* locked the first free waits for ever.                                   *)
cleanup_rest ==
    /\ proc = "running"
    /\ cleaning = "rest"
    /\ \/ boot = "start" /\ proc' = "exited"
       \/ boot = "chat_alloc" /\ proc' = "crashed"
       \/ boot # "start" /\ held # "heap" /\ proc' \in {"exited", "crashed"}
    /\ UNCHANGED <<queueVars, poolVars, mainVars, sigVars, connVars, workVars>>

-----------------------------------------------------------------------------
(* The middlewares of main, in their order.  A handler fills in the        *)
(* response and says whether the next one is to be called.                 *)

server_middlewares_create == <<>>

server_middlewares_add(middlewares, name) == Append(middlewares, name)

Middlewares ==
    LET logger == server_middlewares_add(server_middlewares_create, "Logger")
        home   == server_middlewares_add(logger, "Home Page")
    IN  server_middlewares_add(home, "404")

response_create == [status |-> 200, headers |-> headers_create, body |-> NULL]

Passed(response) == [turn_over |-> TRUE, response |-> response]

Answered(response, status, type, body) ==
    [turn_over |-> FALSE,
     response  |-> [status  |-> status,
                    headers |-> headers_set(response.headers, "Content-Type", type),
                    body    |-> body]]

middleware_logger_handler(p, response) == Passed(response)

middleware_homepage_handler_turns_over(p, response) ==
    Passed(Answered(response, 200, "text/html", "home page").response)

middleware_homepage_handler(p, response) ==
    IF p = "/" THEN Answered(response, 200, "text/html", "home page") ELSE Passed(response)

middleware_404_handler(p, response) == Answered(response, 404, "text/plain", "not found")

handler(m, p, response) ==
    CASE m = "Logger"    -> middleware_logger_handler(p, response)
      [] m = "Home Page" -> middleware_homepage_handler(p, response)
      [] m = "404"       -> middleware_404_handler(p, response)

(* The loop of handle_client over the middlewares: Called[k][p] is what a  *)
(* request for p has come to after k of them.                              *)
CallNext(m, p, so_far) ==
    IF so_far.turn_over THEN handler(m, p, so_far.response) ELSE so_far

Called[k \in 0 .. Len(Middlewares)] ==
    [p \in Paths |-> IF k = 0 THEN Passed(response_create)
                             ELSE CallNext(Middlewares[k], p, Called[k - 1][p])]

Response == [p \in Paths |-> Called[Len(Middlewares)][p].response]

(* What is sent: the status, the header lines with their names in lower    *)
(* case, and the body, which is empty when there is none.                  *)
response_to_string(response) ==
    [response EXCEPT !.body = IF @ = NULL THEN "" ELSE @]

-----------------------------------------------------------------------------
(* handle_client, the callback of the pool.  Every part of it allocates or *)
(* frees.                                                                  *)

Handles(w, here) == proc = "running" /\ held # "heap" /\ worker[w] = "task" /\ step[w] = here

(* The connections whose request is being parsed. *)
Parsing == {item[w] : w \in {v \in Consumers : step[v] = "parse"}}

close_client(w) ==
    /\ conn' = [conn EXCEPT ![item[w]] = "closed"]
    /\ step' = [step EXCEPT ![w] = "none"]
    /\ worker_return(w)

(* free(arg) and the request buffer, which may not be had: an error is     *)
(* printed.  An argument that is not a HandlerArg is a null pointer or     *)
(* garbage.                                                                *)
handle_begin(w) ==
    /\ Handles(w, "none")
    /\ IF item[w] \notin Conns
       THEN proc' = "crashed" /\ UNCHANGED <<queueVars, poolVars, conn, step>>
       ELSE /\ UNCHANGED proc
            /\ \/ step' = [step EXCEPT ![w] = "read"] /\ UNCHANGED <<queueVars, poolVars, conn>>
               \/ held # "stderr" /\ close_client(w)
    /\ UNCHANGED <<mainVars, sigVars, client, path, answer, clobbered>>

(* One read, which blocks until the client has sent something or hung up.  *)
(* In the second case an error is printed.                                 *)
handle_read(w) ==
    /\ Handles(w, "read")
    /\ client[item[w]] # "quiet"
    /\ IF client[item[w]] = "gone"
       THEN held # "stderr" /\ close_client(w) /\ UNCHANGED clobbered
       ELSE /\ step' = [step EXCEPT ![w] = "parse"]
            /\ clobbered' = IF Parsing = {} THEN clobbered
                                            ELSE clobbered \cup Parsing \cup {item[w]}
            /\ UNCHANGED <<queueVars, poolVars, conn>>
    /\ UNCHANGED <<proc, mainVars, sigVars, client, path, answer>>

(* What request_parse makes of the path, NULL if it follows a null pointer *)
(* instead.  Of a request that was cut off there may be the path, its      *)
(* beginning, or nothing to follow a pointer to.                           *)
Parsed(c) ==
    IF c \in clobbered \/ client[c] = "part" THEN Paths \cup {NULL} ELSE {path[c]}

handle_parse(w) ==
    /\ Handles(w, "parse")
    /\ \E p \in Parsed(item[w]) :
          IF p = NULL
          THEN proc' = "crashed" /\ UNCHANGED step
          ELSE step' = [step EXCEPT ![w] = p] /\ UNCHANGED proc
    /\ UNCHANGED <<queueVars, poolVars, mainVars, sigVars, connVars, clobbered>>

(* The middlewares, write and close.  SIGPIPE is ignored: a client that    *)
(* has left by now loses its answer and nothing else happens.              *)
handle_write(w) ==
    /\ \E p \in Paths :
          /\ Handles(w, p)
          /\ \/ answer' = [answer EXCEPT ![item[w]] = response_to_string(Response[p])]
             \/ UNCHANGED answer
    /\ close_client(w)
    /\ UNCHANGED <<proc, mainVars, sigVars, client, path, clobbered>>

handle_client(w) ==
    \/ handle_begin(w)
    \/ handle_read(w)
    \/ handle_parse(w)
    \/ handle_write(w)

-----------------------------------------------------------------------------
(* The clients, and the other use of strtok in the process *)

client_does(c, from, to) ==
    /\ proc = "running"
    /\ client[c] = from /\ conn[c] # "closed"
    /\ client' = [client EXCEPT ![c] = to]
    /\ UNCHANGED <<queueVars, poolVars, proc, mainVars, sigVars, answer, workVars>>

client_connect(c) ==
    /\ boot = "pool" /\ cleaning \in {"no", "server"}
    /\ client_does(c, "away", "quiet")
    /\ conn' = [conn EXCEPT ![c] = "pending"]
    /\ UNCHANGED path

(* All that the read is going to find: a whole request, the first of two   *)
(* segments (the second one comes too late), or nothing.  A whole request  *)
(* on which request_parse follows a null pointer even if it is alone (see  *)
(* Parsable of RequestParse) is one that asks for NULL.  What a request    *)
(* that was cut off asks for makes no difference: see Parsed.              *)
client_speaks(c) ==
    /\ \/ /\ client_does(c, "quiet", "sent")
          /\ \E p \in Paths \cup {NULL} : path' = [path EXCEPT ![c] = p]
       \/ client_does(c, "quiet", "part") /\ UNCHANGED path
       \/ client_does(c, "quiet", "gone") /\ UNCHANGED path
    /\ UNCHANGED conn

(* handle_chat_client cuts a new name at the newline with strtok. *)
chat_rename ==
    /\ proc = "running"
    /\ ~ Parsing \subseteq clobbered
    /\ clobbered' = clobbered \cup Parsing
    /\ UNCHANGED <<queueVars, poolVars, proc, mainVars, sigVars, connVars, step>>

-----------------------------------------------------------------------------
ServerQueueStep ==
    /\ proc = "running"
    /\ \/ ~sig /\ (EnqueueStep(Main) \/ ResizeStep(Main))
       \/ EnqueueStep(Handler) \/ ResizeStep(Handler)
       \/ \E w \in Consumers : DequeueStep(w) \/ ResizeStep(w)
    /\ UNCHANGED <<poolVars, serverVars>>

ServerWorkerStep(w) ==
    proc = "running" /\ WorkerStep(w) /\ UNCHANGED serverVars

(* The process has ended. *)
ProcessEnded == proc # "running" /\ UNCHANGED allVars

ServerNext ==
    \/ main_boot \/ main_fail \/ server_start \/ server_push
    \/ \E c \in Conns : server_accept(c)
    \/ signal_arrives \/ cleanup_server \/ server_stop \/ cleanup_rest
    \/ \E w \in Consumers : ServerWorkerStep(w) \/ handle_client(w)
    \/ \E c \in Conns : client_connect(c) \/ client_speaks(c)
    \/ chat_rename
    \/ ServerQueueStep
    \/ ProcessEnded

ServerSpec == ServerInit /\ [][ServerNext]_allVars

(* Threads run, a mutex that is freed again and again is got in the end,   *)
(* main gets through its start and its accept loop, and a client does not  *)
(* keep a connection open for ever without a word.  A signal, or a         *)
(* connection, need not come.                                              *)
Step(A) == proc = "running" /\ A /\ UNCHANGED <<poolVars, serverVars>>

ServerFairness ==
    /\ WF_allVars(main_boot \/ server_start \/ server_push \/ \E c \in Conns : server_accept(c))
    /\ WF_allVars(cleanup_server \/ server_stop \/ cleanup_rest)
    /\ \A c \in Conns : WF_allVars(client_speaks(c))
    /\ \A w \in Consumers :
          /\ WF_allVars(ServerWorkerStep(w))
          /\ WF_allVars(handle_client(w))
          /\ WF_allVars(Step(dequeue_wait(w) \/ dequeue_take(w) \/ dequeue_return(w)))
          /\ SF_allVars(Step(dequeue_lock(w)))
    /\ WF_allVars(Step(~sig /\ (enqueue_write(Main) \/ enqueue_advance(Main))))
    /\ SF_allVars(Step(~sig /\ enqueue_lock(Main)))
    /\ WF_allVars(Step(enqueue_write(Handler) \/ enqueue_advance(Handler)))
    /\ SF_allVars(Step(enqueue_lock(Handler)))

ServerFairSpec == ServerSpec /\ ServerFairness

-----------------------------------------------------------------------------
(* Properties *)

(* Every variable has its type, and a worker is inside handle_client only  *)
(* while the pool has called it back.                                      *)
ServerTypeOK ==
    /\ PoolTypeOK
    /\ proc \in {"running", "exited", "failed", "crashed"}
    /\ boot \in Boots
    /\ accepted \in Conns \cup {NULL}
    /\ sig \in BOOLEAN /\ held \in {"no", "heap", "stderr"}
    /\ cleaning \in {"no", "server", "stop", "rest"}
    /\ conn \in [Conns -> {"none", "pending", "open", "closed"}]
    /\ client \in [Conns -> {"away", "quiet", "part", "sent", "gone"}]
    /\ path \in [Conns -> Paths \cup {NULL}]
    /\ step \in [Consumers -> {"none", "read", "parse"} \cup Paths]
    /\ clobbered \in SUBSET Conns
    /\ answer \in [Conns -> {response_to_string(Response[p]) : p \in Paths} \cup {NULL}]
    /\ \A w \in Consumers : step[w] # "none" => worker[w] = "task"

(* A client whose request came in one piece, and whose parse no other use  *)
(* of strtok overlapped, gets what it asked for: for "/" the home page as  *)
(* HTML, for anything else the 404 page as text, with the status to match. *)
OwnAnswer ==
    \A c \in Conns \ clobbered :
        answer[c] # NULL /\ client[c] # "part" =>
            <<answer[c].status, headers_get(answer[c].headers, "Content-Type"), answer[c].body>> =
                IF path[c] = "/" THEN <<200, "text/html", "home page">>
                                 ELSE <<404, "text/plain", "not found">>

(* When cleanup is through with the server, every connection that was      *)
(* accepted has been closed, except at most one: the one Main had accepted *)
(* and not yet put into the queue when the signal interrupted it.          *)
StopLosesAtMostOne ==
    cleaning = "rest" => Cardinality({c \in Conns : conn[c] = "open"}) <= 1

(* A crash has one of three causes.  A worker parses a request that was    *)
(* cut off, that it cannot parse, or in whose parse another thread used    *)
(* strtok.  The signal arrived before there was a pool to destroy.  Or     *)
(* the chat server, once it is allocated, is destroyed: by then the pool,  *)
(* if there was one, is gone and all its workers have left.                *)
CrashHasCause ==
    proc = "crashed" =>
        \/ \E w \in Consumers :
              /\ step[w] = "parse"
              /\ \/ item[w] \in clobbered
                 \/ client[item[w]] = "part" \/ path[item[w]] = NULL
        \/ cleaning = "server" /\ boot \in {"server", "pool"} /\ stage = "create"
        \/ /\ cleaning = "rest" /\ boot # "start"
           /\ stage = "create" \/ \A w \in Consumers : worker[w] = "exited"

(* A connection that waits in the backlog is accepted, served and closed,  *)
(* unless the server is stopped or crashes first.                          *)
ConnectionEnds ==
    \A c \in Conns :
        conn[c] = "pending" ~> (conn[c] = "closed" \/ sig \/ proc # "running")

(* The signal handler gets to exit(0) (or crashes) unless it interrupted   *)
(* Main inside a critical section of the queue, of the allocator, or of    *)
(* the output to stderr.                                                   *)
StopsUnlessLocked ==
    (sig /\ mutex # Main /\ held = "no" /\ proc = "running") ~> proc # "running"

(* SIGTERM ends the process; the signals that meet a locked heap or a      *)
(* locked stderr, which are no locks of this code, are not counted.        *)
StopsOnSignal == sig ~> (proc # "running" \/ held # "no")
=============================================================================
