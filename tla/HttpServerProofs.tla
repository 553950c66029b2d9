-------------------------- MODULE HttpServerProofs --------------------------
(***************************************************************************)
(* Theorems about HttpServer, for any number of workers and connections.   *)
(* The types and OwnAnswer hold at any load; the two theorems about the    *)
(* shutdown as long as the connections and NULLs that wait at one time fit *)
(* in a quarter of the queue's array.                                      *)
(*                                                                         *)
(* The server does not use the pool as PoolSpec says: the signal may come  *)
(* while Main is inside thread_pool_push, and thread_pool_destroy then     *)
(* runs with the push unfinished.  What ThreadPoolProofs shows of every    *)
(* step of the pool (PoolShape, PoolCore) holds all the same, because Main *)
(* does not go on: no connection gets into the queue behind a NULL.        *)
(***************************************************************************)
EXTENDS HttpServer, ThreadPoolProofs

(* The server that never lets more than MaxBacklog connections and NULLs   *)
(* wait in the queue or on their way into it.                              *)
LightServer == ServerSpec /\ [](Backlog <= MaxBacklog)

-----------------------------------------------------------------------------
(* What the middlewares of main answer *)

LEMMA MiddlewaresList ==
    /\ Len(Middlewares) = 3
    /\ Middlewares[1] = "Logger" /\ Middlewares[2] = "Home Page" /\ Middlewares[3] = "404"
  BY DEF Middlewares, server_middlewares_add, server_middlewares_create

CallStep(f, k) ==
    [p \in Paths |-> IF k = 0 THEN Passed(response_create)
                             ELSE CallNext(Middlewares[k], p, f[k - 1][p])]

CalledBody(f) == [k \in 0 .. Len(Middlewares) |-> CallStep(f, k)]

LEMMA CalledChosen == Called = CHOOSE f : f = CalledBody(f)
  BY DEF Called, CalledBody, CallStep

HomePage == Answered(response_create, 200, "text/html", "home page")

NotFound == Answered(response_create, 404, "text/plain", "not found")

(* What each middleware makes of a request that nobody has answered yet, *)
(* and of one that was answered.                                         *)
LEMMA Calls ==
    ASSUME NEW p \in Paths
    PROVE  /\ CallNext("Logger", p, Passed(response_create)) = Passed(response_create)
           /\ CallNext("Home Page", p, Passed(response_create))
                = IF p = "/" THEN HomePage ELSE Passed(response_create)
           /\ CallNext("404", p, Passed(response_create)) = NotFound
           /\ CallNext("404", p, HomePage) = HomePage
  <1>1. /\ Passed(response_create).turn_over = TRUE /\ HomePage.turn_over = FALSE
        /\ Passed(response_create).response = response_create
    BY DEF Passed, Answered, HomePage
  <1>2. \A m : CallNext(m, p, Passed(response_create)) = handler(m, p, response_create)
    BY <1>1 DEF CallNext
  <1>3. handler("Logger", p, response_create) = Passed(response_create)
    BY DEF handler, middleware_logger_handler
  <1>4. handler("Home Page", p, response_create)
            = IF p = "/" THEN HomePage ELSE Passed(response_create)
    BY DEF handler, middleware_homepage_handler, HomePage
  <1>5. handler("404", p, response_create) = NotFound
    BY DEF handler, middleware_404_handler, NotFound
  <1>6. CallNext("404", p, HomePage) = HomePage
    BY <1>1 DEF CallNext
  <1> QED
    BY <1>2, <1>3, <1>4, <1>5, <1>6

LEMMA CallSteps ==
    ASSUME NEW f, NEW p \in Paths
    PROVE  /\ CallStep(f, 0)[p] = Passed(response_create)
           /\ CallStep(f, 1)[p] = CallNext("Logger", p, f[0][p])
           /\ CallStep(f, 2)[p] = CallNext("Home Page", p, f[1][p])
           /\ CallStep(f, 3)[p] = CallNext("404", p, f[2][p])
  <1>1. CallStep(f, 0)[p] = Passed(response_create)
    BY DEF CallStep
  <1>2. \A k \in 1 .. 3 : CallStep(f, k)[p] = CallNext(Middlewares[k], p, f[k - 1][p])
    BY DEF CallStep
  <1>3. CallStep(f, 1)[p] = CallNext(Middlewares[1], p, f[0][p])
    BY <1>2
  <1>4. CallStep(f, 2)[p] = CallNext(Middlewares[2], p, f[1][p])
    BY <1>2
  <1>5. CallStep(f, 3)[p] = CallNext(Middlewares[3], p, f[2][p])
    BY <1>2
  <1> QED
    BY <1>1, <1>3, <1>4, <1>5, MiddlewaresList

(* What the loop comes to: logger passes, the home page answers for "/",   *)
(* and the 404 page for anything else.                                     *)
IsRun(g) ==
    \A p \in Paths :
        /\ g[0][p] = Passed(response_create)
        /\ g[1][p] = Passed(response_create)
        /\ g[2][p] = IF p = "/" THEN HomePage ELSE Passed(response_create)
        /\ g[3][p] = IF p = "/" THEN HomePage ELSE NotFound

LEMMA RunIsLoop ==
    ASSUME NEW g, IsRun(g), g = [k \in 0 .. 3 |-> g[k]],
           \A k \in 0 .. 3 : g[k] = [p \in Paths |-> g[k][p]]
    PROVE  g = CalledBody(g)
  <1>1. \A p \in Paths : /\ CallStep(g, 0)[p] = g[0][p] /\ CallStep(g, 1)[p] = g[1][p]
                         /\ CallStep(g, 2)[p] = g[2][p] /\ CallStep(g, 3)[p] = g[3][p]
    <2> TAKE p \in Paths
    <2>1. /\ CallStep(g, 0)[p] = Passed(response_create)
          /\ CallStep(g, 1)[p] = CallNext("Logger", p, g[0][p])
          /\ CallStep(g, 2)[p] = CallNext("Home Page", p, g[1][p])
          /\ CallStep(g, 3)[p] = CallNext("404", p, g[2][p])
      BY CallSteps
    <2> QED
      BY <2>1, Calls DEF IsRun
  <1>2. ASSUME NEW k \in 0 .. 3 PROVE CallStep(g, k) = g[k]
    <2>1. k = 0 \/ k = 1 \/ k = 2 \/ k = 3
      OBVIOUS
    <2>2. \A p \in Paths : CallStep(g, k)[p] = g[k][p]
      BY <1>1, <2>1
    <2>3. CallStep(g, k) = [p \in Paths |-> CallStep(g, k)[p]]
      BY DEF CallStep
    <2> QED
      BY <2>2, <2>3
  <1>3. CalledBody(g) = [k \in 0 .. 3 |-> CallStep(g, k)]
    BY MiddlewaresList DEF CalledBody
  <1> QED
    BY <1>2, <1>3

(* The loop defines a function, so Called is that function. *)
LEMMA CalledLoop == Called = CalledBody(Called)
  <1> DEFINE first  == [p \in Paths |-> Passed(response_create)]
             second == [p \in Paths |-> IF p = "/" THEN HomePage ELSE Passed(response_create)]
             third  == [p \in Paths |-> IF p = "/" THEN HomePage ELSE NotFound]
             g == [k \in 0 .. 3 |-> IF k <= 1 THEN first ELSE IF k = 2 THEN second ELSE third]
  <1>1. g[0] = first /\ g[1] = first /\ g[2] = second /\ g[3] = third
    OBVIOUS
  <1>2. IsRun(g)
    <2> HIDE DEF g
    <2> QED
      BY <1>1 DEF IsRun
  <1>3. \A k \in 0 .. 3 : g[k] = [p \in Paths |-> g[k][p]]
    OBVIOUS
  <1>4. g = [k \in 0 .. 3 |-> g[k]]
    OBVIOUS
  <1>5. \E f : f = CalledBody(f)
    <2> HIDE DEF g
    <2> QED
      BY <1>2, <1>3, <1>4, RunIsLoop
  <1> QED
    BY <1>5, CalledChosen

(* The first middleware that answers decides. *)
LEMMA Responses ==
    /\ Response["/"] = HomePage.response
    /\ Response["other"] = NotFound.response
  <1>1. /\ Called[0] = CallStep(Called, 0) /\ Called[1] = CallStep(Called, 1)
        /\ Called[2] = CallStep(Called, 2) /\ Called[3] = CallStep(Called, 3)
    <2>1. \A k \in 0 .. 3 : Called[k] = CallStep(Called, k)
      BY CalledLoop, MiddlewaresList DEF CalledBody
    <2> QED
      BY <2>1
  <1>2. ASSUME NEW p \in Paths PROVE Called[3][p] = IF p = "/" THEN HomePage ELSE NotFound
    <2>1. /\ Called[0][p] = Passed(response_create)
          /\ Called[1][p] = CallNext("Logger", p, Called[0][p])
          /\ Called[2][p] = CallNext("Home Page", p, Called[1][p])
          /\ Called[3][p] = CallNext("404", p, Called[2][p])
      BY <1>1, CallSteps
    <2> QED
      BY <2>1, Calls
  <1> QED
    BY <1>2, MiddlewaresList DEF Response, Paths

LEMMA headers_getOnly ==
    ASSUME NEW v
    PROVE  headers_get(headers_set(headers_create, "Content-Type", v), "Content-Type") = v
  <1> DEFINE h == headers_set(headers_create, "Content-Type", v)
             found == {i \in 1 .. Len(h) : h[i].name = tolower("Content-Type")}
             one == CHOOSE i \in found : \A j \in found : i <= j
  <1>1. Len(h) = 1 /\ h[1].name = tolower("Content-Type") /\ h[1].value = v
    BY DEF headers_set, headers_create
  <1>2. found = {1}
    BY <1>1
  <1>3. one = 1
    BY <1>2
  <1>4. headers_get(h, "Content-Type") = IF found = {} THEN NULL ELSE h[one].value
    BY DEF headers_get
  <1> QED
    BY <1>1, <1>2, <1>3, <1>4

Says(sent, status, type, body) ==
    <<sent.status, headers_get(sent.headers, "Content-Type"), sent.body>> = <<status, type, body>>

LEMMA SentAnswer ==
    ASSUME NEW status, NEW type, NEW body, body # NULL
    PROVE  Says(response_to_string(Answered(response_create, status, type, body).response),
                status, type, body)
  <1> DEFINE h == headers_set(headers_create, "Content-Type", type)
  <1>1. response_to_string(Answered(response_create, status, type, body).response)
            = [status |-> status, headers |-> h, body |-> body]
    BY DEF response_to_string, Answered, response_create
  <1>2. headers_get(h, "Content-Type") = type
    BY headers_getOnly
  <1> HIDE DEF h
  <1>3. Says([status |-> status, headers |-> h, body |-> body], status, type, body)
    BY <1>2 DEF Says
  <1> QED
    BY <1>1, <1>3

(* What handle_client sends for a path. *)
LEMMA Sent ==
    ASSUME NEW p \in Paths
    PROVE  IF p = "/" THEN Says(response_to_string(Response[p]), 200, "text/html", "home page")
                      ELSE Says(response_to_string(Response[p]), 404, "text/plain", "not found")
  <1>1. "home page" # NULL /\ "not found" # NULL
    BY ServerAssumption DEF Bodies
  <1>2. CASE p = "/"
    <2>1. Response[p] = Answered(response_create, 200, "text/html", "home page").response
      BY <1>2, Responses DEF HomePage
    <2> QED
      BY <1>1, <1>2, <2>1, SentAnswer
  <1>3. CASE p = "other"
    <2>1. Response[p] = Answered(response_create, 404, "text/plain", "not found").response
      BY <1>3, Responses DEF NotFound
    <2> QED
      BY <1>1, <1>3, <2>1, SentAnswer
  <1> QED
    BY <1>2, <1>3 DEF Paths

-----------------------------------------------------------------------------
(* The invariant at any load *)

(* How far main, the signal handler and the pool have got. *)
LifeInOrder ==
    /\ sig <=> cleaning # "no"
    /\ boot # "pool" => stage = "create"
    /\ cleaning \in {"no", "server"} => stage \in {"create", "open"}
    /\ cleaning = "stop" => stage \notin {"create", "open"}
    /\ cleaning = "rest" => stage \in {"create", "freed"}
    /\ accepted # NULL => stage # "create" /\ pc[Main] = "idle"
    /\ stage = "create" => pushed = {}

(* A connection is accepted once and pushed once. *)
PushedOnce ==
    /\ accepted \notin pushed
    /\ \A c \in Conns :
          /\ conn[c] = "pending" => client[c] # "away"
          /\ client[c] = "away" \/ conn[c] = "pending" => c # accepted /\ c \notin pushed

(* Whatever is in the array or in the hands of a thread was pushed, or is  *)
(* no connection.                                                          *)
Known == pushed \cup {NULL, Uninit}

ItemsKnown ==
    /\ \A t \in Threads : item[t] \in Known
    /\ \A i \in 0 .. capacity - 1 : data[i] \in Known

(* A worker past the read of handle_client has its client's request, and   *)
(* past the parse the path of it, unless the parse was disturbed.          *)
StepOwn(w) ==
    /\ step[w] # "none" => item[w] \in Conns
    /\ step[w] \in {"parse"} \cup Paths => client[item[w]] \in {"sent", "part"}
    /\ step[w] \in Paths /\ item[w] \notin clobbered /\ client[item[w]] # "part" =>
           step[w] = path[item[w]]

StepsOwn == \A w \in Consumers : StepOwn(w)

(* An answer is the one for the path that the client asked for, unless the *)
(* parse was disturbed.                                                    *)
AnswersOwn ==
    \A c \in Conns :
        answer[c] # NULL =>
            /\ client[c] \in {"sent", "part"}
            /\ c \notin clobbered /\ client[c] # "part" =>
                   path[c] \in Paths /\ answer[c] = response_to_string(Response[path[c]])

ServerShape ==
    /\ PoolShape
    /\ ServerTypeOK
    /\ LifeInOrder
    /\ PushedOnce
    /\ ItemsKnown
    /\ StepsOwn
    /\ AnswersOwn

LEMMA OwnAnswerHolds ==
    ASSUME AnswersOwn PROVE OwnAnswer
  <1> SUFFICES ASSUME NEW c \in Conns \ clobbered, answer[c] # NULL /\ client[c] # "part"
               PROVE  <<answer[c].status, headers_get(answer[c].headers, "Content-Type"),
                        answer[c].body>>
                        = IF path[c] = "/" THEN <<200, "text/html", "home page">>
                                           ELSE <<404, "text/plain", "not found">>
    BY DEF OwnAnswer
  <1>1. path[c] \in Paths /\ answer[c] = response_to_string(Response[path[c]])
    BY DEF AnswersOwn
  <1>2. IF path[c] = "/" THEN Says(answer[c], 200, "text/html", "home page")
                         ELSE Says(answer[c], 404, "text/plain", "not found")
    BY <1>1, Sent
  <1> QED
    BY <1>2 DEF Says

-----------------------------------------------------------------------------
(* What the server does to its pool *)

ServerPoolStep ==
    \/ UNCHANGED vars
    \/ PoolMove(Handler)
    \/ safe_queue_enqueue(Main, accepted) /\ accepted \in Conns /\ PoolGives(accepted)
    \/ safe_queue_enqueue(Handler, NULL) /\ PoolGives(NULL)
    \/ \E w \in Consumers : WorkerStep(w) \/ worker_return(w)
    \/ QueueStep /\ (sig => pc'[Main] = pc[Main])

LEMMA PoolStepShape ==
    ASSUME PoolShape, ServerPoolStep PROVE PoolShape'
  <1> USE ServerAssumption, PoolAssumption
  <1>1. CASE UNCHANGED vars
    <2>1. UNCHANGED <<queueVars, pc, running, worker, stage, idx, pushed, done>>
      BY <1>1 DEF vars, queueVars, poolVars
    <2> QED
      BY <2>1, SameQueueInv DEF PoolShape, PoolTypeOK, QueueInv, FlagTells, LoopsInOrder
  <1>2. CASE \/ safe_queue_enqueue(Main, accepted) /\ accepted \in Conns /\ PoolGives(accepted)
             \/ safe_queue_enqueue(Handler, NULL) /\ PoolGives(NULL)
    BY <1>2, PoolGivesShape DEF Conns, Tasks, Main
  <1> QED
    BY <1>1, <1>2, PoolMoveShape, WorkerShape, QueueStepShape DEF ServerPoolStep

(* Steps of other threads inside the queue leave a frozen Main alone. *)
LEMMA MainStays ==
    ASSUME QueueInv, ServerQueueStep, sig PROVE pc'[Main] = pc[Main]
  <1> USE ServerAssumption, QueueAssumption DEF QueueInv, TypeOK, Threads, Goto, Main
  <1>1. CASE EnqueueStep(Handler)
    BY <1>1 DEF EnqueueStep, enqueue_grow, enqueue_lock, enqueue_write, enqueue_advance,
                pthread_cond_signal
  <1>2. ASSUME NEW c \in Consumers, DequeueStep(c) PROVE pc'[Main] = pc[Main]
    BY <1>2 DEF DequeueStep, dequeue_lock, dequeue_wait, spurious_wakeup, dequeue_take,
                dequeue_return
  <1>3. ASSUME NEW t \in Threads, t # Main, ResizeStep(t) PROVE pc'[Main] = pc[Main]
    BY <1>3 DEF ResizeStep, resize_lock, safe_queue_resize
  <1> QED
    BY <1>1, <1>2, <1>3 DEF ServerQueueStep

LEMMA ServerPoolSteps ==
    ASSUME ServerShape, [ServerNext]_allVars PROVE ServerPoolStep
  <1> USE ServerAssumption, PoolAssumption DEF ServerPoolStep
  <1>1. CASE \/ UNCHANGED allVars \/ main_boot \/ main_fail \/ signal_arrives \/ cleanup_rest
             \/ ProcessEnded \/ chat_rename
             \/ \E c \in Conns : server_accept(c) \/ client_connect(c) \/ client_speaks(c)
    BY <1>1 DEF allVars, vars, main_boot, main_step, main_chat_alloc, start_chat_server,
                server_config_create, server_create, server_listen, main_fail, signal_arrives,
                cleanup_rest, ProcessEnded, chat_rename, server_accept, client_connect,
                client_speaks, client_does
  <1>2. CASE server_start
    BY <1>2 DEF server_start, PoolMove
  <1>3. CASE server_push
    <2>1. accepted \in Conns /\ accepted \notin pushed /\ stage = "open" /\ running
      BY <1>3 DEF server_push, MainRuns, ServerShape, ServerTypeOK, LifeInOrder, PushedOnce,
                  PoolShape, FlagTells
    <2> QED
      BY <1>3, <2>1 DEF server_push, thread_pool_push, PoolGives, Conns
  <1>4. CASE cleanup_server
    <2>1. CASE thread_pool_destroy /\ stage # "create"
      BY <1>4, <2>1 DEF cleanup_server, PoolMove, ServerShape, LifeInOrder
    <2> QED
      BY <1>4, <2>1 DEF cleanup_server, vars
  <1>5. CASE server_stop
    <2>1. CASE destroy_post(Handler)
      BY <2>1 DEF destroy_post, PoolMove, PoolGives, InLoop
    <2> QED
      BY <1>5, <2>1 DEF server_stop, DestroyStep, PoolMove, vars
  <1>6. ASSUME NEW w \in Consumers, ServerWorkerStep(w) \/ handle_client(w) PROVE ServerPoolStep
    BY <1>6 DEF ServerWorkerStep, handle_client, handle_begin, handle_read, handle_parse,
                handle_write, close_client, vars
  <1>7. CASE ServerQueueStep
    <2>1. QueueStep
      BY <1>7 DEF ServerQueueStep, QueueStep, Threads, Main
    <2> QED
      BY <1>7, <2>1, MainStays DEF ServerShape, PoolShape
  <1> QED
    BY <1>1, <1>2, <1>3, <1>4, <1>5, <1>6, <1>7 DEF ServerNext

-----------------------------------------------------------------------------
(* Every step of the server preserves ServerShape *)

LEMMA PushedGrows ==
    ASSUME ServerPoolStep PROVE pushed \subseteq pushed' /\ Known \subseteq Known'
  BY DEF ServerPoolStep, vars, poolVars, PoolMove, PoolGives, thread_pool_create,
         thread_pool_destroy, destroy_post, destroy_join, safe_queue_destroy, WorkerStep,
         worker_dequeue, worker_test, worker_exit, worker_return, QueueStep, Known

LEMMA QueueStepKnown ==
    ASSUME QueueInv, ItemsKnown, QueueStep PROVE ItemsKnown'
  <1> USE QueueAssumption DEF QueueInv, TypeOK, Threads, ring
  <1>0. Known' = Known /\ Uninit \in Known
    BY DEF QueueStep, poolVars, Known
  <1>1. CASE item' = item /\ UNCHANGED ring
    BY <1>0, <1>1 DEF ItemsKnown
  <1>2. ASSUME NEW p \in Producers, EnqueueStep(p) PROVE ItemsKnown'
    <2>1. CASE enqueue_write(p)
      BY <1>0, <2>1 DEF enqueue_write, ItemsKnown
    <2>2. CASE enqueue_advance(p)
      BY <1>0, <2>2 DEF enqueue_advance, ItemsKnown
    <2> QED
      BY <1>1, <1>2, <2>1, <2>2 DEF EnqueueStep, enqueue_grow, enqueue_lock
  <1>3. ASSUME NEW c \in Consumers, DequeueStep(c) PROVE ItemsKnown'
    <2>1. CASE dequeue_take(c)
      BY <1>0, <2>1 DEF dequeue_take, ItemsKnown
    <2> QED
      BY <1>1, <1>3, <2>1 DEF DequeueStep, dequeue_lock, dequeue_wait, spurious_wakeup,
                              dequeue_return
  <1>4. ASSUME NEW t \in Threads, ResizeStep(t) PROVE ItemsKnown'
    <2>1. CASE safe_queue_resize(t)
      <3>1. \A j \in Nat : (front + j) % capacity \in 0 .. capacity - 1
        BY ModRange
      <3>2. ASSUME NEW j \in 0 .. capacity' - 1 PROVE data'[j] \in Known
        <4>1. data'[j] = IF j < Copied THEN data[(front + j) % capacity] ELSE Uninit
          BY <2>1, <3>2 DEF safe_queue_resize
        <4>2. j \in Nat
          OBVIOUS
        <4> QED
          BY <1>0, <3>1, <4>1, <4>2 DEF ItemsKnown
      <3>3. item' = item
        BY <2>1 DEF safe_queue_resize
      <3> QED
        BY <1>0, <3>2, <3>3 DEF ItemsKnown
    <2> QED
      BY <1>1, <1>4, <2>1 DEF ResizeStep, resize_lock
  <1> QED
    BY <1>2, <1>3, <1>4 DEF QueueStep

LEMMA NextKnown ==
    ASSUME QueueInv, ItemsKnown, ServerPoolStep PROVE ItemsKnown'
  <1>0. Known \subseteq Known'
    BY PushedGrows
  <1>1. ASSUME NEW t \in Producers, NEW x \in Items, safe_queue_enqueue(t, x), PoolGives(x)
        PROVE  ItemsKnown'
    <2>1. x \in Known'
      BY <1>1 DEF PoolGives, Known
    <2>2. /\ UNCHANGED <<capacity, data>>
          /\ \A s \in Threads : item'[s] = item[s] \/ item'[s] = x
      BY <1>1 DEF safe_queue_enqueue, ring, QueueInv, TypeOK
    <2> QED
      BY <1>0, <2>1, <2>2 DEF ItemsKnown
  <1>2. CASE UNCHANGED <<capacity, data, item>>
    BY <1>0, <1>2 DEF ItemsKnown
  <1>3. CASE UNCHANGED vars \/ PoolMove(Handler) \/ \E w \in Consumers : WorkerStep(w) \/ worker_return(w)
    <2>1. UNCHANGED <<capacity, data, item>>
      BY <1>3 DEF vars, PoolMove, thread_pool_create, thread_pool_destroy, destroy_post,
                  destroy_join, safe_queue_destroy, WorkerStep, worker_dequeue, worker_test,
                  worker_exit, worker_return, queueVars, ring, safe_queue_dequeue
    <2> QED
      BY <1>2, <2>1
  <1> QED
    BY <1>1, <1>3, QueueStepKnown, ServerAssumption, PoolAssumption
       DEF ServerPoolStep, Conns, Tasks, Main

LEMMA NextLife ==
    ASSUME ServerShape, [ServerNext]_allVars PROVE LifeInOrder'
  <1> USE ServerAssumption, PoolAssumption, QueueAssumption
      DEF ServerShape, LifeInOrder, mainVars, sigVars, MainRuns
  <1>0. /\ pc \in [Threads -> EnqueuePCs \cup DequeuePCs] /\ Main \in Threads
        /\ stage \in Stages
    BY DEF PoolShape, PoolTypeOK, QueueInv, TypeOK, Threads, Main
  <1>1. CASE UNCHANGED allVars \/ ProcessEnded
    BY <1>1 DEF ProcessEnded, allVars, serverVars, queueVars, poolVars
  <1>2. CASE main_boot
    BY <1>2 DEF main_boot, main_step, main_chat_alloc, start_chat_server, server_config_create,
                server_create, server_listen, queueVars, poolVars
  <1>3. CASE main_fail \/ cleanup_rest \/ chat_rename
    BY <1>3 DEF main_fail, cleanup_rest, chat_rename, queueVars, poolVars
  <1>4. CASE server_start
    BY <1>4 DEF server_start, thread_pool_create, serverVars, queueVars
  <1>5. CASE server_push
    BY <1>5 DEF server_push, thread_pool_push, serverVars, ServerTypeOK
  <1>6. ASSUME NEW c \in Conns, server_accept(c) PROVE LifeInOrder'
    BY <1>6 DEF server_accept, Accepting, queueVars, poolVars
  <1>7. CASE signal_arrives
    BY <1>7 DEF signal_arrives, queueVars, poolVars
  <1>8. CASE cleanup_server
    BY <1>8 DEF cleanup_server, thread_pool_destroy, queueVars, poolVars
  <1>9. CASE server_stop
    <2>1. CASE destroy_post(Handler)
      BY <1>0, <1>9, <2>1 DEF server_stop, destroy_post, safe_queue_enqueue, Goto, Main, queueVars
    <2>2. CASE destroy_join \/ safe_queue_destroy
      BY <1>9, <2>2 DEF server_stop, destroy_join, safe_queue_destroy, queueVars
    <2> QED
      BY <1>9, <2>1, <2>2 DEF server_stop, DestroyStep, queueVars, poolVars
  <1>10. ASSUME NEW w \in Consumers, ServerWorkerStep(w) PROVE LifeInOrder'
    BY <1>0, <1>10 DEF ServerWorkerStep, WorkerStep, worker_dequeue, worker_test, worker_exit,
                       safe_queue_dequeue, Goto, serverVars, queueVars, Main
  <1>11. ASSUME NEW w \in Consumers, handle_client(w) PROVE LifeInOrder'
    BY <1>11 DEF handle_client, handle_begin, handle_read, handle_parse, handle_write,
                 close_client, worker_return, queueVars, poolVars
  <1>12. ASSUME NEW c \in Conns, client_connect(c) \/ client_speaks(c) PROVE LifeInOrder'
    BY <1>12 DEF client_connect, client_speaks, client_does, queueVars, poolVars
  <1>13. CASE ServerQueueStep
    <2>1. QueueStep
      BY <1>13 DEF ServerQueueStep, QueueStep, Threads, Main
    <2>2. pc[Main] = "idle" => pc'[Main] = "idle"
      BY <2>1, QueueStepProducers DEF PoolShape, Main
    <2> QED
      BY <1>13, <2>2 DEF ServerQueueStep, serverVars, poolVars
  <1> QED
    BY <1>1, <1>2, <1>3, <1>4, <1>5, <1>6, <1>7, <1>8, <1>9, <1>10, <1>11, <1>12, <1>13
       DEF ServerNext

LEMMA NextPushed ==
    ASSUME ServerShape, [ServerNext]_allVars PROVE PushedOnce'
  <1> USE ServerAssumption, PoolAssumption
      DEF ServerShape, PushedOnce, mainVars, connVars, MainRuns
  <1>0. /\ conn \in [Conns -> {"none", "pending", "open", "closed"}]
        /\ client \in [Conns -> {"away", "quiet", "part", "sent", "gone"}]
        /\ pushed \subseteq Conns /\ NULL \notin Conns /\ accepted \in Conns \cup {NULL}
    BY DEF ServerTypeOK, PoolTypeOK, Conns, Tasks
  <1>1. CASE UNCHANGED allVars \/ ProcessEnded
    BY <1>1 DEF ProcessEnded, allVars, serverVars, poolVars
  <1>2. CASE main_boot \/ main_fail \/ cleanup_rest \/ chat_rename \/ signal_arrives
    BY <1>2 DEF main_boot, main_step, main_chat_alloc, start_chat_server, server_config_create,
                server_create, server_listen, poolVars, main_fail, cleanup_rest, chat_rename,
                signal_arrives
  <1>3. CASE server_start
    BY <1>3 DEF server_start, thread_pool_create, serverVars
  <1>4. CASE server_push
    <2>1. /\ accepted' = NULL /\ accepted \in Conns /\ conn' = conn /\ client' = client
          /\ pushed' = pushed \/ pushed' = pushed \cup {accepted}
      BY <1>0, <1>4 DEF server_push, thread_pool_push
    <2> QED
      BY <1>0, <2>1
  <1>5. ASSUME NEW c \in Conns, server_accept(c) PROVE PushedOnce'
    BY <1>0, <1>5 DEF server_accept, poolVars
  <1>6. CASE cleanup_server
    BY <1>0, <1>6 DEF cleanup_server, thread_pool_destroy, poolVars
  <1>7. CASE server_stop
    BY <1>7 DEF server_stop, DestroyStep, destroy_post, destroy_join, safe_queue_destroy, poolVars
  <1>8. ASSUME NEW w \in Consumers, ServerWorkerStep(w) PROVE PushedOnce'
    BY <1>8 DEF ServerWorkerStep, WorkerStep, worker_dequeue, worker_test, worker_exit, serverVars
  <1>9. ASSUME NEW w \in Consumers, handle_client(w) PROVE PushedOnce'
    <2>1. /\ UNCHANGED <<pushed, accepted, client>>
          /\ \A c \in Conns : conn'[c] = conn[c] \/ conn'[c] = "closed"
      BY <1>0, <1>9 DEF handle_client, handle_begin, handle_read, handle_parse, handle_write,
                        close_client, worker_return, poolVars
    <2> QED
      BY <1>0, <2>1
  <1>10. ASSUME NEW c \in Conns, client_connect(c) PROVE PushedOnce'
    BY <1>0, <1>10 DEF client_connect, client_does, poolVars
  <1>11. ASSUME NEW c \in Conns, client_speaks(c) PROVE PushedOnce'
    <2>1. /\ UNCHANGED <<pushed, accepted, conn>>
          /\ \A d \in Conns : client'[d] = client[d] \/ (client[d] = "quiet" /\ client'[d] # "away")
      BY <1>0, <1>11 DEF client_speaks, client_does, poolVars
    <2> QED
      BY <1>0, <2>1
  <1>12. CASE ServerQueueStep
    BY <1>12 DEF ServerQueueStep, serverVars, poolVars
  <1> QED
    BY <1>1, <1>2, <1>3, <1>4, <1>5, <1>6, <1>7, <1>8, <1>9, <1>10, <1>11, <1>12 DEF ServerNext

(* A worker that has called handle_client keeps its connection until       *)
(* handle_client returns.                                                  *)
LEMMA BusyKeepsItem ==
    ASSUME PoolShape, ServerPoolStep, NEW v \in Consumers, worker[v] = "task"
    PROVE  /\ item'[v] = item[v]
           /\ worker'[v] = "task" \/ worker_return(v)
  <1> USE ServerAssumption, PoolAssumption, QueueAssumption
  <1>0. /\ pc[v] = "idle" /\ item \in [Threads -> Slots] /\ Consumers \subseteq Threads
        /\ worker \in [Consumers -> WorkerStates]
    BY DEF PoolShape, PoolTypeOK, TypeOK, Threads
  <1>1. CASE UNCHANGED vars
    BY <1>1 DEF vars, queueVars, poolVars
  <1>2. CASE PoolMove(Handler)
    BY <1>2, PoolMoves DEF queueVars
  <1>3. ASSUME NEW t \in Producers, NEW x, safe_queue_enqueue(t, x), PoolGives(x)
        PROVE  item'[v] = item[v] /\ worker'[v] = "task"
    BY <1>0, <1>3 DEF safe_queue_enqueue, PoolGives
  <1>4. ASSUME NEW w \in Consumers, WorkerStep(w)
        PROVE  item'[v] = item[v] /\ worker'[v] = "task"
    BY <1>0, <1>4 DEF WorkerStep, worker_dequeue, worker_test, worker_exit, safe_queue_dequeue,
                      queueVars
  <1>5. ASSUME NEW w \in Consumers, worker_return(w)
        PROVE  item'[v] = item[v] /\ (worker'[v] = "task" \/ worker_return(v))
    <2>1. item' = item /\ (w # v => worker'[v] = "task")
      BY <1>0, <1>5 DEF worker_return, queueVars
    <2> QED
      BY <1>5, <2>1
  <1>6. CASE QueueStep
    <2>1. item'[v] = item[v]
      BY <1>0, <1>6, QueueStepConsumers DEF PoolShape
    <2> QED
      BY <1>6, <2>1 DEF QueueStep, poolVars
  <1> QED
    BY <1>1, <1>2, <1>3, <1>4, <1>5, <1>6 DEF ServerPoolStep, Main

(* What a step of handle_client does. *)
Closes(w) == close_client(w) /\ proc' = proc /\ clobbered' = clobbered

Goes(w, to) ==
    /\ step' = [step EXCEPT ![w] = to] /\ proc' = proc
    /\ UNCHANGED <<vars, conn, answer>>

Handled(w) ==
    \/ proc' = "crashed" /\ UNCHANGED <<vars, conn, step, answer, clobbered>>
    \/ Closes(w) /\ answer' = answer
    \/ step[w] = "none" /\ Goes(w, "read") /\ clobbered' = clobbered
    \/ /\ step[w] = "read" /\ client[item[w]] \in {"part", "sent"}
       /\ Goes(w, "parse")
       /\ clobbered \subseteq clobbered' /\ clobbered' \subseteq Conns
    \/ /\ step[w] = "parse" /\ clobbered' = clobbered
       /\ \E p \in Paths :
             /\ item[w] \in clobbered \/ client[item[w]] = "part" \/ p = path[item[w]]
             /\ Goes(w, p)
    \/ \E p \in Paths :
          /\ step[w] = p /\ Closes(w)
          /\ answer' = [answer EXCEPT ![item[w]] = response_to_string(Response[p])]

LEMMA HandleMoves ==
    ASSUME ServerShape, NEW w \in Consumers, handle_client(w)
    PROVE  /\ UNCHANGED <<boot, accepted, sig, held, cleaning, client, path>>
           /\ (worker[w] = "task" /\ item[w] \in Conns) \/ proc' = "crashed"
           /\ Handled(w)
  <1> USE ServerAssumption, PoolAssumption, QueueAssumption
      DEF ServerShape, mainVars, sigVars, connVars, Handles, vars
  <1>0. /\ client \in [Conns -> {"away", "quiet", "part", "sent", "gone"}]
        /\ path \in [Conns -> Paths \cup {NULL}]
        /\ step \in [Consumers -> {"none", "read", "parse"} \cup Paths]
        /\ clobbered \subseteq Conns
        /\ \A v \in Consumers : step[v] # "none" => item[v] \in Conns
    BY DEF ServerTypeOK, StepsOwn, StepOwn
  <1>1. CASE handle_begin(w)
    BY <1>1 DEF handle_begin, Handled, Closes, Goes
  <1>2. CASE handle_read(w)
    <2>1. item[w] \in Conns
      BY <1>0, <1>2 DEF handle_read
    <2>2. client[item[w]] # "away"
      <3>1. item[w] \in pushed
        <4>1. item[w] \in Known /\ NULL \notin Conns /\ Uninit \notin Conns
          BY DEF ItemsKnown, Threads, Conns, Tasks
        <4> QED
          BY <2>1, <4>1 DEF Known
      <3> QED
        BY <2>1, <3>1 DEF PushedOnce
    <2>3. CASE client[item[w]] = "gone"
      BY <1>2, <2>1, <2>3 DEF handle_read, Handled, Closes
    <2>4. CASE client[item[w]] # "gone"
      <3>1. client[item[w]] \in {"part", "sent"}
        BY <1>0, <1>2, <2>1, <2>2, <2>4 DEF handle_read
      <3>2. Parsing \subseteq Conns
        BY <1>0 DEF Parsing
      <3> QED
        BY <1>0, <1>2, <2>1, <2>4, <3>1, <3>2 DEF handle_read, Handled, Goes
    <2> QED
      BY <2>3, <2>4
  <1>3. CASE handle_parse(w)
    <2>1. item[w] \in Conns
      BY <1>0, <1>3 DEF handle_parse
    <2>2. PICK p \in Parsed(item[w]) :
              IF p = NULL THEN proc' = "crashed" /\ UNCHANGED step
                          ELSE step' = [step EXCEPT ![w] = p] /\ UNCHANGED proc
      BY <1>3 DEF handle_parse
    <2>3. /\ p # NULL => p \in Paths
          /\ item[w] \in clobbered \/ client[item[w]] = "part" \/ p = path[item[w]]
      BY <1>0, <2>1 DEF Parsed, Paths
    <2>4. CASE p = NULL
      BY <1>3, <2>1, <2>2, <2>4 DEF handle_parse, Handled
    <2>5. CASE p # NULL
      <3>1. Goes(w, p) /\ clobbered' = clobbered /\ step[w] = "parse"
        BY <1>3, <2>2, <2>5 DEF handle_parse, Goes
      <3> QED
        BY <1>3, <2>1, <2>3, <2>5, <3>1 DEF handle_parse, Handled
    <2> QED
      BY <2>4, <2>5
  <1>4. CASE handle_write(w)
    <2>1. Closes(w)
      BY <1>4 DEF handle_write, Closes
    <2>2. PICK p \in Paths :
              /\ Handles(w, p)
              /\ \/ answer' = [answer EXCEPT ![item[w]] = response_to_string(Response[p])]
                 \/ UNCHANGED answer
      BY <1>4 DEF handle_write
    <2>3. item[w] \in Conns
      BY <1>0, <2>2 DEF Paths
    <2> QED
      BY <1>4, <2>1, <2>2, <2>3 DEF handle_write, Handled
  <1> QED
    BY <1>1, <1>2, <1>3, <1>4 DEF handle_client

(* Outside handle_client no step is made in it, and answers stay. *)
LEMMA OutsideHandle ==
    ASSUME ServerShape, [ServerNext]_allVars, \A w \in Consumers : ~handle_client(w)
    PROVE  /\ step' = step /\ answer' = answer
           /\ clobbered \subseteq clobbered' /\ clobbered' \subseteq Conns
           /\ \A c \in Conns :
                 \/ client'[c] = client[c] /\ path'[c] = path[c]
                 \/ client[c] \in {"away", "quiet"}
  <1> USE DEF ServerShape, serverVars, mainVars, sigVars, connVars, workVars
  <1>0. /\ client \in [Conns -> {"away", "quiet", "part", "sent", "gone"}]
        /\ path \in [Conns -> Paths \cup {NULL}] /\ clobbered \subseteq Conns
        /\ Parsing \subseteq Conns
    BY DEF ServerTypeOK, StepsOwn, StepOwn, Parsing
  <1>1. CASE UNCHANGED serverVars
    BY <1>0, <1>1
  <1>2. CASE UNCHANGED allVars \/ ProcessEnded \/ server_start \/ ServerQueueStep
             \/ \E w \in Consumers : ServerWorkerStep(w)
    <2>1. UNCHANGED serverVars
      BY <1>2 DEF allVars, ProcessEnded, server_start, ServerQueueStep, ServerWorkerStep
    <2> QED
      BY <1>1, <2>1
  <1>3. CASE \/ main_boot \/ main_fail \/ server_push \/ signal_arrives \/ cleanup_server
             \/ server_stop \/ cleanup_rest \/ \E c \in Conns : server_accept(c)
    BY <1>0, <1>3 DEF main_boot, main_step, main_chat_alloc, start_chat_server,
                      server_config_create, server_create, server_listen, main_fail, server_push,
                      signal_arrives, cleanup_server, server_stop, cleanup_rest, server_accept
  <1>4. CASE chat_rename
    BY <1>0, <1>4 DEF chat_rename
  <1>5. ASSUME NEW c \in Conns, client_connect(c)
        PROVE  /\ step' = step /\ answer' = answer /\ clobbered' = clobbered /\ path' = path
               /\ \A d \in Conns : client'[d] = client[d] \/
                     (client[d] = "away" /\ client'[d] = "quiet")
    BY <1>0, <1>5 DEF client_connect, client_does
  <1>6. ASSUME NEW c \in Conns, client_speaks(c)
        PROVE  /\ step' = step /\ answer' = answer /\ clobbered' = clobbered
               /\ \A d \in Conns : \/ client'[d] = client[d] /\ path'[d] = path[d]
                                   \/ client[d] = "quiet"
    BY <1>0, <1>6 DEF client_speaks, client_does
  <1> QED
    BY <1>0, <1>2, <1>3, <1>4, <1>5, <1>6 DEF ServerNext

LEMMA NextSteps ==
    ASSUME ServerShape, [ServerNext]_allVars PROVE StepsOwn'
  <1> SUFFICES ASSUME NEW v \in Consumers
               PROVE  StepOwn(v)'
    BY DEF StepsOwn
  <1> USE DEF ServerShape, StepsOwn, StepOwn, Conns
  <1>0. /\ step \in [Consumers -> {"none", "read", "parse"} \cup Paths]
        /\ clobbered \subseteq Conns
        /\ "none" \notin Paths /\ "read" \notin Paths /\ "parse" \notin Paths
    BY DEF ServerTypeOK, Paths
  <1>1. step[v] # "none" => item'[v] = item[v] /\ item[v] \in Conns
    BY ServerPoolSteps, BusyKeepsItem DEF ServerTypeOK
  <1>2. CASE \A w \in Consumers : ~handle_client(w)
    <2>1. step'[v] = step[v] /\ clobbered \subseteq clobbered'
      BY <1>2, OutsideHandle
    <2>2. CASE step[v] = "none"
      BY <1>0, <2>1, <2>2
    <2>3. CASE step[v] # "none"
      <3>1. \/ client'[item[v]] = client[item[v]] /\ path'[item[v]] = path[item[v]]
            \/ client[item[v]] \in {"away", "quiet"}
        BY <1>1, <1>2, <2>3, OutsideHandle
      <3> QED
        BY <1>0, <1>1, <2>1, <2>3, <3>1
    <2> QED
      BY <2>2, <2>3
  <1>3. ASSUME NEW w \in Consumers, handle_client(w), v # w
        PROVE  StepOwn(v)'
    <2>1. client' = client /\ path' = path /\ Handled(w)
      BY <1>3, HandleMoves
    <2>2. step'[v] = step[v] /\ clobbered \subseteq clobbered'
      BY <1>0, <1>3, <2>1 DEF Handled, Closes, Goes, close_client
    <2> QED
      BY <1>0, <1>1, <2>1, <2>2
  <1>4. ASSUME handle_client(v)
        PROVE  StepOwn(v)'
    <2>1. client' = client /\ path' = path /\ Handled(v)
      BY <1>4, HandleMoves
    <2>2. (worker[v] = "task" /\ item[v] \in Conns) \/ proc' = "crashed"
      BY <1>4, HandleMoves
    <2>3. CASE proc' = "crashed" /\ UNCHANGED <<vars, conn, step, answer, clobbered>>
      <3>1. item' = item
        BY <2>3 DEF vars, queueVars
      <3> QED
        BY <1>0, <2>1, <2>3, <3>1
    <2>4. CASE Closes(v)
      BY <1>0, <2>4 DEF Closes, close_client
    <2>5. ASSUME NEW to, Goes(v, to)
          PROVE  item' = item /\ step'[v] = to /\ item[v] \in Conns
      <3>1. proc' # "crashed"
        BY <1>4, <2>5 DEF Goes, handle_client, handle_begin, handle_read, handle_parse,
                          handle_write, Handles
      <3> QED
        BY <1>0, <2>2, <2>5, <3>1 DEF Goes, vars, queueVars
    <2> QED
      BY <1>0, <2>1, <2>3, <2>4, <2>5 DEF Handled
  <1> QED
    BY <1>2, <1>3, <1>4

LEMMA NextAnswers ==
    ASSUME ServerShape, [ServerNext]_allVars PROVE AnswersOwn'
  <1> SUFFICES ASSUME NEW c \in Conns, answer'[c] # NULL
               PROVE  /\ client'[c] \in {"sent", "part"}
                      /\ c \notin clobbered' /\ client'[c] # "part" =>
                             path'[c] \in Paths /\ answer'[c] = response_to_string(Response[path'[c]])
    BY DEF AnswersOwn, Conns
  <1> USE DEF ServerShape
  <1>0. answer \in [Conns -> {response_to_string(Response[p]) : p \in Paths} \cup {NULL}]
    BY DEF ServerTypeOK
  <1>1. CASE \A w \in Consumers : ~handle_client(w)
    <2>1. /\ answer'[c] = answer[c] /\ clobbered \subseteq clobbered'
          /\ \/ client'[c] = client[c] /\ path'[c] = path[c]
             \/ client[c] \in {"away", "quiet"}
      BY <1>1, OutsideHandle
    <2> QED
      BY <2>1 DEF AnswersOwn
  <1>2. ASSUME NEW w \in Consumers, handle_client(w)
        PROVE  /\ client'[c] \in {"sent", "part"}
               /\ c \notin clobbered' /\ client'[c] # "part" =>
                      path'[c] \in Paths /\ answer'[c] = response_to_string(Response[path'[c]])
    <2>1. client' = client /\ path' = path /\ Handled(w)
      BY <1>2, HandleMoves
    <2>2. clobbered \subseteq clobbered'
      BY <2>1 DEF Handled, Closes
    <2>3. CASE answer'[c] = answer[c]
      BY <2>1, <2>2, <2>3 DEF AnswersOwn
    <2>4. CASE answer'[c] # answer[c]
      <3>1. PICK p \in Paths :
                /\ step[w] = p
                /\ answer' = [answer EXCEPT ![item[w]] = response_to_string(Response[p])]
        BY <2>1, <2>4 DEF Handled, Goes
      <3>2. item[w] = c /\ answer'[c] = response_to_string(Response[p])
        BY <1>0, <2>4, <3>1
      <3>3. StepOwn(w)
        BY DEF StepsOwn
      <3> QED
        BY <2>1, <2>2, <3>1, <3>2, <3>3 DEF StepOwn
    <2> QED
      BY <2>3, <2>4
  <1> QED
    BY <1>1, <1>2

(* No step but the last one of handle_client ends it. *)
LEMMA StepsAreBusy ==
    ASSUME ServerShape, [ServerNext]_allVars, NEW v \in Consumers, step'[v] # "none"
    PROVE  worker'[v] = "task"
  <1> USE DEF ServerShape
  <1>0. /\ worker \in [Consumers -> WorkerStates]
        /\ step \in [Consumers -> {"none", "read", "parse"} \cup Paths]
        /\ step[v] # "none" => worker[v] = "task"
    BY DEF ServerTypeOK, PoolTypeOK
  <1>1. CASE \A w \in Consumers : ~handle_client(w)
    <2>1. step[v] # "none"
      BY <1>1, OutsideHandle
    <2>2. worker[v] = "task"
      BY <1>0, <2>1
    <2>3. CASE UNCHANGED worker
      BY <2>2, <2>3
    <2>4. CASE server_start
      BY <2>2, <2>4, PoolMoves DEF server_start, PoolMove
    <2>5. ASSUME NEW w \in Consumers, ServerWorkerStep(w) PROVE worker'[v] = "task"
      BY <1>0, <2>2, <2>5 DEF ServerWorkerStep, WorkerStep, worker_dequeue, worker_test, worker_exit
    <2>6. UNCHANGED worker \/ server_start \/ \E w \in Consumers : ServerWorkerStep(w)
      BY <1>1 DEF ServerNext, allVars, poolVars, main_boot, main_step, main_chat_alloc,
                  start_chat_server, server_config_create, server_create, server_listen, main_fail,
                  server_push, thread_pool_push, signal_arrives, cleanup_server,
                  thread_pool_destroy, server_stop, DestroyStep, destroy_post, destroy_join,
                  safe_queue_destroy, cleanup_rest, server_accept, client_connect, client_speaks,
                  client_does, chat_rename, ServerQueueStep, ProcessEnded
    <2> QED
      BY <2>3, <2>4, <2>5, <2>6
  <1>2. ASSUME NEW w \in Consumers, handle_client(w) PROVE worker'[v] = "task"
    <2>1. Handled(w)
      BY <1>2, HandleMoves
    <2>2. CASE Closes(w)
      BY <1>0, <2>2 DEF Closes, close_client, worker_return
    <2>3. CASE ~Closes(w)
      <3>1. worker' = worker /\ (v = w \/ step'[v] = step[v])
        BY <1>0, <2>1, <2>3 DEF Handled, Goes, vars, poolVars
      <3>2. v = w => worker[v] = "task"
        BY <1>2 DEF handle_client, handle_begin, handle_read, handle_parse, handle_write, Handles
      <3> QED
        BY <1>0, <3>1, <3>2
    <2> QED
      BY <2>2, <2>3
  <1> QED
    BY <1>1, <1>2

(* The types of the variables of main and of the signal handler. *)
MainTypeOK ==
    /\ proc \in {"running", "exited", "failed", "crashed"}
    /\ boot \in Boots
    /\ accepted \in Conns \cup {NULL}
    /\ sig \in BOOLEAN /\ held \in {"no", "heap", "stderr"}
    /\ cleaning \in {"no", "server", "stop", "rest"}

LEMMA NextMainType ==
    ASSUME ServerShape, [ServerNext]_allVars PROVE MainTypeOK'
  <1> USE DEF serverVars, mainVars, sigVars, Boots
  <1>0. MainTypeOK
    BY DEF ServerShape, ServerTypeOK, MainTypeOK
  <1>1. CASE UNCHANGED <<proc, boot, accepted, sig, held, cleaning>>
    BY <1>0, <1>1 DEF MainTypeOK, Conns, Tasks
  <1>2. CASE \/ UNCHANGED allVars \/ ProcessEnded \/ server_start \/ chat_rename \/ ServerQueueStep
             \/ \E w \in Consumers : ServerWorkerStep(w)
             \/ \E c \in Conns : client_connect(c) \/ client_speaks(c)
    <2>1. UNCHANGED <<proc, boot, accepted, sig, held, cleaning>>
      BY <1>2 DEF allVars, ProcessEnded, server_start, chat_rename, ServerQueueStep,
                  ServerWorkerStep, client_connect, client_speaks, client_does
    <2> QED
      BY <1>1, <2>1
  <1>3. CASE main_boot
    BY <1>0, <1>3 DEF main_boot, main_step, main_chat_alloc, start_chat_server,
                      server_config_create, server_create, server_listen, MainTypeOK, Conns, Tasks
  <1>4. CASE \/ main_fail \/ server_push \/ cleanup_server \/ server_stop \/ cleanup_rest
             \/ \E c \in Conns : server_accept(c)
    BY <1>0, <1>4 DEF main_fail, server_push, cleanup_server, server_stop, cleanup_rest,
                      server_accept, MainTypeOK, Conns, Tasks
  <1>5. CASE signal_arrives
    BY <1>0, <1>5 DEF signal_arrives, LibraryLocks, MainTypeOK, Conns, Tasks
  <1>6. ASSUME NEW w \in Consumers, handle_client(w) PROVE MainTypeOK'
    <2>1. /\ UNCHANGED <<boot, accepted, sig, held, cleaning>> /\ Handled(w)
      BY <1>6, HandleMoves
    <2>2. proc' \in {proc, "crashed"}
      BY <2>1 DEF Handled, Goes, Closes
    <2> QED
      BY <1>0, <2>1, <2>2 DEF MainTypeOK, Conns, Tasks
  <1> QED
    BY <1>2, <1>3, <1>4, <1>5, <1>6 DEF ServerNext

(* The types of the variables of the connections. *)
ConnTypeOK ==
    /\ conn \in [Conns -> {"none", "pending", "open", "closed"}]
    /\ client \in [Conns -> {"away", "quiet", "part", "sent", "gone"}]
    /\ path \in [Conns -> Paths \cup {NULL}]
    /\ step \in [Consumers -> {"none", "read", "parse"} \cup Paths]
    /\ clobbered \in SUBSET Conns
    /\ answer \in [Conns -> {response_to_string(Response[p]) : p \in Paths} \cup {NULL}]

LEMMA NextConnType ==
    ASSUME ServerShape, [ServerNext]_allVars PROVE ConnTypeOK'
  <1> USE DEF serverVars, mainVars, sigVars, connVars, workVars
  <1>0. ConnTypeOK
    BY DEF ServerShape, ServerTypeOK, ConnTypeOK
  <1>1. CASE \A w \in Consumers : ~handle_client(w)
    <2>1. step' = step /\ answer' = answer /\ clobbered' \in SUBSET Conns
      BY <1>1, OutsideHandle
    <2>2. CASE UNCHANGED <<conn, client, path>>
      BY <1>0, <2>1, <2>2 DEF ConnTypeOK, Conns, Tasks
    <2>3. ASSUME NEW c \in Conns, server_accept(c) PROVE ConnTypeOK'
      BY <1>0, <2>1, <2>3 DEF server_accept, ConnTypeOK, Conns, Tasks
    <2>4. CASE cleanup_server
      BY <1>0, <2>1, <2>4 DEF cleanup_server, ConnTypeOK, Conns, Tasks
    <2>5. ASSUME NEW c \in Conns, client_connect(c) \/ client_speaks(c) PROVE ConnTypeOK'
      BY <1>0, <2>1, <2>5 DEF client_connect, client_speaks, client_does, ConnTypeOK, Conns, Tasks
    <2>6. \/ UNCHANGED <<conn, client, path>> \/ cleanup_server
          \/ \E c \in Conns : server_accept(c) \/ client_connect(c) \/ client_speaks(c)
      BY <1>1 DEF ServerNext, allVars, main_boot, main_step, main_chat_alloc, start_chat_server,
                  server_config_create, server_create, server_listen, main_fail, server_start,
                  server_push, signal_arrives, server_stop, cleanup_rest, chat_rename,
                  ServerWorkerStep, ServerQueueStep, ProcessEnded
    <2> QED
      BY <2>2, <2>3, <2>4, <2>5, <2>6
  <1>2. ASSUME NEW w \in Consumers, handle_client(w) PROVE ConnTypeOK'
    <2>1. UNCHANGED <<client, path>> /\ Handled(w)
      BY <1>2, HandleMoves
    <2>2. conn' \in [Conns -> {"none", "pending", "open", "closed"}]
      BY <1>0, <2>1 DEF Handled, Goes, Closes, close_client, ConnTypeOK
    <2>3. step' \in [Consumers -> {"none", "read", "parse"} \cup Paths]
      BY <1>0, <2>1 DEF Handled, Goes, Closes, close_client, ConnTypeOK
    <2>4. clobbered' \in SUBSET Conns
      BY <1>0, <2>1 DEF Handled, Closes, ConnTypeOK
    <2>5. answer' \in [Conns -> {response_to_string(Response[p]) : p \in Paths} \cup {NULL}]
      BY <1>0, <2>1 DEF Handled, Goes, ConnTypeOK
    <2> QED
      BY <1>0, <2>1, <2>2, <2>3, <2>4, <2>5 DEF ConnTypeOK, Conns, Tasks
  <1> QED
    BY <1>1, <1>2

LEMMA InitServer ==
    ASSUME ServerInit PROVE ServerShape
  <1> USE ServerAssumption, PoolAssumption, QueueAssumption DEF ServerInit
  <1>1. PoolShape
    BY InitShape
  <1>2. ServerTypeOK
    BY <1>1 DEF ServerTypeOK, PoolShape, Boots
  <1>3. LifeInOrder /\ PushedOnce
    <2>1. stage = "create" /\ pushed = {}
      BY DEF PoolInit
    <2>2. LifeInOrder
      BY <2>1 DEF LifeInOrder
    <2>3. PushedOnce
      BY <2>1 DEF PushedOnce, Conns, Tasks
    <2> QED
      BY <2>2, <2>3
  <1>4. ItemsKnown
    BY DEF ItemsKnown, Known, PoolInit, safe_queue_create
  <1>5. StepsOwn /\ AnswersOwn
    BY DEF StepsOwn, StepOwn, AnswersOwn, Paths
  <1> QED
    BY <1>1, <1>2, <1>3, <1>4, <1>5 DEF ServerShape

LEMMA NextServer ==
    ASSUME ServerShape, [ServerNext]_allVars PROVE ServerShape'
  <1>1. ServerPoolStep
    BY ServerPoolSteps
  <1>2. PoolShape'
    BY <1>1, PoolStepShape DEF ServerShape
  <1>3. ItemsKnown'
    BY <1>1, NextKnown DEF ServerShape, PoolShape
  <1>4. ServerTypeOK'
    BY <1>2, NextMainType, NextConnType, StepsAreBusy
       DEF ServerTypeOK, MainTypeOK, ConnTypeOK, PoolShape
  <1> QED
    BY <1>2, <1>3, <1>4, NextLife, NextPushed, NextSteps, NextAnswers DEF ServerShape

(* The server keeps its invariant, at any load. *)
THEOREM ServerInvariant == ServerSpec => []ServerShape
  <1>1. ServerInit => ServerShape
    BY InitServer
  <1>2. ServerShape /\ [ServerNext]_allVars => ServerShape'
    BY NextServer
  <1> QED
    BY <1>1, <1>2, PTL DEF ServerSpec

(* The variables of main.c and http-server.c keep their types, and a       *)
(* worker is inside handle_client only while the pool has called it back,  *)
(* for any number of workers and connections and at any load.              *)
THEOREM ServerTypeCorrect == ServerSpec => []ServerTypeOK
  BY ServerInvariant, PTL DEF ServerShape

(* A client whose request came in one piece, and whose parse no other use  *)
(* of strtok overlapped, gets from handle_client what it asked for, with   *)
(* the status and the type to match, whichever worker serves it and        *)
(* whatever the others do meanwhile.                                       *)
THEOREM AnswersAreOwn == ServerSpec => []OwnAnswer
  <1>1. ServerShape => OwnAnswer
    BY OwnAnswerHolds DEF ServerShape
  <1> QED
    BY <1>1, ServerInvariant, PTL

-----------------------------------------------------------------------------
(* The invariant at a light load *)

(* The signal handler enqueues NULLs while it posts them, and Main the     *)
(* connections it accepted.                                                *)
Producing ==
    /\ pc[Handler] # "idle" => item[Handler] = NULL /\ stage = "posting"
    /\ pc[Main] # "idle" => item[Main] \in Conns /\ stage # "create"

(* The connections that are open are the one that Main holds and the ones  *)
(* that were pushed and that no worker has finished with.                  *)
ConnsOpen ==
    \A c \in Conns :
        conn[c] = "open" <=> c = accepted \/ (c \in pushed /\ done[c] = 0)

LightShape ==
    /\ ServerShape
    /\ PoolCore
    /\ Producing
    /\ ConnsOpen
    /\ CrashHasCause

LEMMA StepOfServerQueue ==
    ASSUME PoolShape, ServerPoolStep, (Backlog <= MaxBacklog)' PROVE [Next]_queueVars
  <1> USE ServerAssumption, PoolAssumption
  <1>0. ASSUME NEW t \in Producers, NEW x \in Items, safe_queue_enqueue(t, x) PROVE [Next]_queueVars
    BY <1>0, EnqueueIsNext DEF PoolShape
  <1>1. CASE UNCHANGED vars \/ PoolMove(Handler)
    BY <1>1, PoolMoves DEF vars
  <1>2. ASSUME NEW w \in Consumers, WorkerStep(w) \/ worker_return(w) PROVE [Next]_queueVars
    BY <1>2 DEF WorkerStep, worker_dequeue, worker_test, worker_exit, worker_return, Next
  <1>3. CASE QueueStep
    BY <1>3 DEF QueueStep, Next
  <1> QED
    BY <1>0, <1>1, <1>2, <1>3 DEF ServerPoolStep, Conns, Tasks, Main

LEMMA NextCore ==
    ASSUME LightLoad, ServerShape, PoolCore, Producing, ServerPoolStep, (Backlog <= MaxBacklog)'
    PROVE  PoolCore'
  <1> USE ServerAssumption, PoolAssumption
  <1>0. PoolShape /\ LightInv
    BY DEF PoolCore, PoolBase
  <1>1. LightInv'
    BY <1>0, StepOfServerQueue, NextLight DEF PoolShape
  <1>2. CASE \/ safe_queue_enqueue(Main, accepted) /\ accepted \in Conns /\ PoolGives(accepted)
             \/ safe_queue_enqueue(Handler, NULL) /\ PoolGives(NULL)
    BY <1>1, <1>2, PoolGivesCore DEF Conns, Tasks, Main
  <1>3. CASE QueueStep /\ (sig => pc'[Main] = pc[Main])
    <2>1. ASSUME NEW p \in Producers, pc'[p] # pc[p], item[p] # NULL PROVE stage = "open"
      <3>1. pc[p] # "idle"
        BY <1>0, <1>3, <2>1, QueueStepProducers DEF PoolShape
      <3>2. p = Main
        BY <2>1, <3>1 DEF Producing
      <3>3. ~sig /\ stage # "create"
        BY <1>3, <2>1, <3>1, <3>2 DEF Producing
      <3> QED
        BY <3>3 DEF ServerShape, LifeInOrder
    <2> QED
      BY <1>1, <1>3, <2>1, QueueStepCore
  <1> QED
    BY <1>1, <1>2, <1>3, SameCore, PoolMoveCore, WorkerCore DEF ServerPoolStep

LEMMA NextProducing ==
    ASSUME PoolShape, Producing, ServerPoolStep PROVE Producing'
  <1> USE ServerAssumption, PoolAssumption, QueueAssumption DEF Main
  <1>0. /\ pc \in [Threads -> EnqueuePCs \cup DequeuePCs] /\ item \in [Threads -> Slots]
        /\ Main \in Threads /\ Handler \in Threads /\ Main \notin Consumers /\ Handler \notin Consumers
    BY DEF PoolShape, QueueInv, TypeOK, Threads
  <1>1. CASE UNCHANGED vars
    BY <1>1 DEF vars, queueVars, poolVars, Producing, Conns, Tasks
  <1>2. CASE PoolMove(Handler)
    <2>1. pc' = pc /\ item' = item
      BY <1>2, PoolMoves DEF queueVars
    <2> QED
      BY <1>2, <2>1 DEF PoolMove, thread_pool_create, thread_pool_destroy, destroy_post,
                        destroy_join, safe_queue_destroy, Producing, Conns, Tasks
  <1>3. CASE safe_queue_enqueue(Main, accepted) /\ accepted \in Conns /\ PoolGives(accepted)
    BY <1>0, <1>3 DEF safe_queue_enqueue, Goto, PoolGives, Producing, Conns, Tasks
  <1>4. CASE safe_queue_enqueue(Handler, NULL) /\ PoolGives(NULL)
    BY <1>0, <1>4 DEF safe_queue_enqueue, Goto, PoolGives, Producing, Conns, Tasks
  <1>5. ASSUME NEW w \in Consumers, WorkerStep(w) \/ worker_return(w) PROVE Producing'
    <2>1. item' = item /\ stage' = stage /\ \A p \in Producers : pc'[p] = pc[p]
      BY <1>0, <1>5 DEF WorkerStep, worker_dequeue, worker_test, worker_exit, worker_return,
                        safe_queue_dequeue, Goto, queueVars
    <2> QED
      BY <2>1 DEF Producing, Conns, Tasks
  <1>6. CASE QueueStep
    <2>1. \A p \in Producers : item'[p] = item[p] /\ (pc[p] = "idle" => pc'[p] = "idle")
      BY <1>6, QueueStepProducers DEF PoolShape
    <2> QED
      BY <1>6, <2>1 DEF QueueStep, poolVars, Producing, Conns, Tasks
  <1> QED
    BY <1>1, <1>2, <1>3, <1>4, <1>5, <1>6 DEF ServerPoolStep

LEMMA NextOpen ==
    ASSUME LightShape, [ServerNext]_allVars PROVE ConnsOpen'
  <1> USE ServerAssumption, PoolAssumption
      DEF LightShape, serverVars, mainVars, connVars, workVars, MainRuns
  <1>0. /\ conn \in [Conns -> {"none", "pending", "open", "closed"}] /\ ServerShape
        /\ pushed \subseteq Conns /\ NULL \notin Conns /\ accepted \in Conns \cup {NULL}
        /\ done \in [Conns -> Nat] /\ Conns' = Conns
    BY DEF ServerShape, ServerTypeOK, PoolTypeOK, Conns, Tasks
  <1>1. CASE UNCHANGED <<conn, accepted, pushed, done>>
    BY <1>1 DEF ConnsOpen, Conns, Tasks
  <1>2. ASSUME NEW c \in Conns, server_accept(c) PROVE ConnsOpen'
    BY <1>0, <1>2 DEF server_accept, Accepting, poolVars, ConnsOpen, ServerShape, PushedOnce
  <1>3. CASE server_push
    <2>1. accepted \in Conns /\ accepted \notin pushed
      BY <1>0, <1>3 DEF server_push, ServerShape, PushedOnce
    <2>2. done[accepted] = 0
      <3>1. Underway(accepted) + done[accepted] = 0
        BY <1>0, <2>1 DEF PoolCore, Flow, Given, Ended, Conns, Tasks
      <3>2. Underway(accepted) \in Nat
        BY FlowFinite DEF Underway, ServerShape, ServerTypeOK, PoolTypeOK, TypeOK
      <3> QED
        BY <1>0, <2>1, <3>1, <3>2
    <2>3. running
      BY <1>3, <2>1 DEF server_push, ServerShape, LifeInOrder, PoolShape, FlagTells
    <2>4. /\ accepted' = NULL /\ pushed' = pushed \cup {accepted}
          /\ conn' = conn /\ done' = done
      BY <1>3, <2>3 DEF server_push, thread_pool_push
    <2> QED
      BY <1>0, <2>1, <2>2, <2>4 DEF ConnsOpen
  <1>4. CASE cleanup_server
    <2>1. /\ UNCHANGED <<accepted, pushed, done>>
          /\ conn' = conn \/ conn' = [c \in Conns |-> IF conn[c] = "pending" THEN "closed" ELSE conn[c]]
      BY <1>4 DEF cleanup_server, thread_pool_destroy, poolVars
    <2> QED
      BY <1>0, <2>1 DEF ConnsOpen
  <1>5. ASSUME NEW c \in Conns, client_connect(c) PROVE ConnsOpen'
    <2>1. client[c] = "away" /\ conn' = [conn EXCEPT ![c] = "pending"] /\ UNCHANGED <<accepted, pushed, done>>
      BY <1>5 DEF client_connect, client_does, poolVars
    <2>2. c # accepted /\ c \notin pushed
      BY <2>1 DEF ServerShape, PushedOnce
    <2> QED
      BY <1>0, <2>1, <2>2 DEF ConnsOpen
  <1>6. ASSUME NEW w \in Consumers, handle_client(w) PROVE ConnsOpen'
    <2>1. accepted' = accepted /\ Handled(w)
      BY <1>6, HandleMoves
    <2>2. CASE Closes(w)
      <3>1. /\ worker[w] = "task" /\ item[w] \in Conns
            /\ conn' = [conn EXCEPT ![item[w]] = "closed"]
            /\ done' = [x \in Conns |-> IF x = item[w] THEN done[x] + 1 ELSE done[x]]
            /\ pushed' = pushed
        BY <2>2 DEF Closes, close_client, worker_return, PoolCore, PoolBase, NoNullTask, Conns
      <3>2. item[w] # accepted
        <4>1. item[w] \in pushed
          <5>1. item[w] \in Known /\ NULL \notin Conns /\ Uninit \notin Conns
            BY QueueAssumption DEF ServerShape, ItemsKnown, Threads, Conns, Tasks
          <5> QED
            BY <3>1, <5>1 DEF Known
        <4> QED
          BY <4>1 DEF ServerShape, PushedOnce
      <3>3. done'[item[w]] # 0 /\ \A c \in Conns : c # item[w] => done'[c] = done[c]
        BY <1>0, <3>1
      <3> QED
        BY <1>0, <2>1, <3>1, <3>2, <3>3 DEF ConnsOpen
    <2>3. CASE ~Closes(w)
      BY <1>1, <2>1, <2>3 DEF Handled, Goes, vars, poolVars
    <2> QED
      BY <2>2, <2>3
  <1>7. CASE \/ UNCHANGED allVars \/ ProcessEnded \/ main_boot \/ main_fail \/ server_start
             \/ signal_arrives \/ server_stop \/ cleanup_rest \/ chat_rename \/ ServerQueueStep
             \/ \E c \in Conns : client_speaks(c)
             \/ \E w \in Consumers : ServerWorkerStep(w)
    <2>1. UNCHANGED <<conn, accepted, pushed, done>>
      BY <1>7 DEF allVars, ProcessEnded, main_boot, main_step, main_chat_alloc,
                  start_chat_server, server_config_create, server_create, server_listen, main_fail,
                  server_start, thread_pool_create, signal_arrives, server_stop, DestroyStep,
                  destroy_post, destroy_join, safe_queue_destroy, cleanup_rest, chat_rename,
                  ServerQueueStep, client_speaks, client_does, ServerWorkerStep, WorkerStep,
                  worker_dequeue, worker_test, worker_exit, poolVars
    <2> QED
      BY <1>1, <2>1
  <1> QED
    BY <1>2, <1>3, <1>4, <1>5, <1>6, <1>7 DEF ServerNext

(* Every step but the last is one of a running process. *)
LEMMA OnlyRunning ==
    ASSUME [ServerNext]_allVars, proc # "running" PROVE UNCHANGED allVars
  BY DEF ServerNext, MainRuns, main_boot, main_step, main_chat_alloc, start_chat_server,
         server_config_create, server_create, server_listen, main_fail, server_start,
         server_push, server_accept, signal_arrives, cleanup_server, server_stop, cleanup_rest,
         ServerWorkerStep, handle_client, handle_begin, handle_read, handle_parse, handle_write,
         Handles, client_connect, client_speaks, client_does, chat_rename, ServerQueueStep,
         ProcessEnded

(* handle_client crashes only in a parse, and not in that of a request     *)
(* which came whole, can be parsed, and was not disturbed.                 *)
LEMMA HandleCrash ==
    ASSUME LightShape, NEW w \in Consumers, handle_client(w), proc' = "crashed"
    PROVE  CrashHasCause'
  <1> USE DEF LightShape, Handles
  <1>1. worker[w] = "task" /\ item[w] \in Conns /\ proc = "running"
    BY DEF handle_client, handle_begin, handle_read, handle_parse, handle_write, PoolCore,
           PoolBase, NoNullTask, Conns
  <1>2. handle_parse(w)
    BY <1>1 DEF handle_client, handle_begin, handle_read, handle_write
  <1>3. NULL \in Parsed(item[w]) /\ step[w] = "parse" /\ UNCHANGED <<step, item, clobbered, client, path>>
    BY <1>1, <1>2 DEF handle_parse, connVars, queueVars
  <1>4. item[w] \in clobbered \/ client[item[w]] = "part" \/ path[item[w]] = NULL
    BY <1>3 DEF Parsed
  <1> QED
    BY <1>3, <1>4 DEF CrashHasCause

LEMMA NextCause ==
    ASSUME LightShape, [ServerNext]_allVars PROVE CrashHasCause'
  <1> USE DEF LightShape
  <1>1. CASE UNCHANGED allVars
    BY <1>1 DEF allVars, queueVars, poolVars, serverVars, mainVars, sigVars, connVars, workVars,
                CrashHasCause
  <1> SUFFICES ASSUME proc = "running", ServerNext, proc' = "crashed" PROVE CrashHasCause'
    BY <1>1, OnlyRunning DEF CrashHasCause
  <1>2. CASE cleanup_server
    BY <1>2 DEF cleanup_server, mainVars, poolVars, CrashHasCause
  <1>3. CASE cleanup_rest
    <2>1. /\ cleaning = "rest" /\ boot # "start"
          /\ UNCHANGED <<cleaning, boot, stage, worker>>
      BY <1>3 DEF cleanup_rest, mainVars, sigVars, poolVars
    <2>2. stage = "create" \/ stage = "freed"
      BY <2>1 DEF ServerShape, LifeInOrder
    <2>3. stage = "freed" => \A w \in Consumers : worker[w] = "exited"
      BY DEF ServerShape, PoolShape, LoopsInOrder
    <2> QED
      BY <2>1, <2>2, <2>3 DEF CrashHasCause
  <1>4. CASE \E w \in Consumers : handle_client(w)
    BY <1>4, HandleCrash
  <1>5. cleanup_server \/ cleanup_rest \/ \E w \in Consumers : handle_client(w)
    BY DEF ServerNext, serverVars, main_boot, main_step, main_chat_alloc, start_chat_server,
           server_config_create, server_create, server_listen, main_fail, server_start,
           server_push, server_accept, signal_arrives, server_stop, ServerWorkerStep,
           client_connect, client_speaks, client_does, chat_rename, ServerQueueStep,
           ProcessEnded
  <1> QED
    BY <1>2, <1>3, <1>4, <1>5

LEMMA InitLightServer ==
    ASSUME LightLoad, ServerInit PROVE LightShape
  <1> USE ServerAssumption, PoolAssumption DEF ServerInit
  <1>1. ServerShape /\ PoolCore
    BY InitServer, InitCore
  <1>2. Producing
    BY DEF PoolInit, safe_queue_create, Producing, Threads, Main
  <1>3. ConnsOpen
    BY DEF PoolInit, ConnsOpen, Conns, Tasks
  <1>4. CrashHasCause
    BY DEF CrashHasCause
  <1> QED
    BY <1>1, <1>2, <1>3, <1>4 DEF LightShape

(* The server keeps its invariant through any interleaving of Main, the    *)
(* signal handler and the workers, for any number of both.                 *)
THEOREM LightServerInvariant ==
    ASSUME LightLoad PROVE LightServer => []LightShape
  <1>1. ServerInit => LightShape
    BY InitLightServer
  <1>2. LightShape /\ [ServerNext]_allVars /\ (Backlog <= MaxBacklog)' => LightShape'
    <2> SUFFICES ASSUME LightShape, [ServerNext]_allVars, (Backlog <= MaxBacklog)'
                 PROVE  LightShape'
      OBVIOUS
    <2>1. ServerShape /\ PoolShape /\ ServerPoolStep
      BY ServerPoolSteps DEF LightShape, ServerShape
    <2>2. ServerShape' /\ PoolCore' /\ Producing'
      BY <2>1, NextServer, NextCore, NextProducing DEF LightShape
    <2> QED
      BY <2>2, NextOpen, NextCause DEF LightShape
  <1> QED
    BY <1>1, <1>2, PTL DEF LightServer, ServerSpec

(* The web server crashes only in the parse of a request that was cut off, *)
(* cannot be parsed, or was disturbed by another use of strtok, in cleanup *)
(* before there is a pool, or when the chat server is destroyed under its  *)
(* threads, after the last worker has left: no callback ever gets a NULL.  *)
THEOREM ServerCrashes ==
    ASSUME LightLoad PROVE LightServer => []CrashHasCause
  BY LightServerInvariant, PTL DEF LightShape

(* Once the pool is freed, a connection that was pushed and not served is  *)
(* the one that Main was putting into the queue when the signal came.      *)
LEMMA FreedLeavesArriving ==
    ASSUME LightShape, stage = "freed", NEW c \in pushed, done[c] = 0
    PROVE  pc[Main] # "idle" /\ c = item[Main]
  <1> USE ServerAssumption, PoolAssumption DEF LightShape, PoolCore, PoolBase, PoolShape
  <1>1. \A w \in Consumers : worker[w] = "exited"
    BY DEF LoopsInOrder
  <1>2. c \in Tasks /\ c \in Items /\ c # NULL
    BY DEF PoolTypeOK, Tasks
  <1>3. InHand(c) = {}
    BY <1>1 DEF InHand
  <1>4. Queued(c) = {}
    <2>1. 0 \in Consumers
      BY PoolSizeNat
    <2>2. 0 \in Leaving
      BY <1>1, <2>1 DEF Leaving
    <2> QED
      BY <1>2, <2>1, <2>2 DEF NullsLast, Queued
  <1>5. Underway(c) = 1
    <2>1. Underway(c) + done[c] = 1
      BY <1>2 DEF Flow, Ended, Given
    <2>2. Underway(c) \in Nat
      BY FlowFinite DEF Underway, PoolTypeOK, TypeOK
    <2> QED
      BY <2>1, <2>2
  <1>6. Arriving(c) # {}
    <2>1. ASSUME Arriving(c) = {} PROVE FALSE
      <3>1. Underway(c) = 0
        BY <1>3, <1>4, <2>1, FS_EmptySet DEF Underway
      <3> QED
        BY <1>5, <3>1
    <2> QED
      BY <2>1
  <1> QED
    BY <1>2, <1>6 DEF Arriving, Producing

(* cleanup leaves at most one connection accepted and not closed: the one  *)
(* Main held, or was putting into the queue, when the signal came.         *)
(* Everything that was in the queue has been served, since the NULLs that  *)
(* stop the workers are behind it.                                         *)
THEOREM StopLosesOne ==
    ASSUME LightLoad PROVE LightServer => []StopLosesAtMostOne
  <1>1. LightShape => StopLosesAtMostOne
    <2> SUFFICES ASSUME LightShape, cleaning = "rest"
                 PROVE  Cardinality({c \in Conns : conn[c] = "open"}) <= 1
      BY DEF StopLosesAtMostOne
    <2> DEFINE open == {c \in Conns : conn[c] = "open"}
    <2>1. stage = "create" \/ stage = "freed"
      BY DEF LightShape, ServerShape, LifeInOrder
    <2>2. accepted # NULL => pc[Main] = "idle"
      BY DEF LightShape, ServerShape, LifeInOrder
    <2>3. accepted = NULL => accepted \notin Conns
      BY DEF Conns, Tasks
    <2>4. \E x : open \subseteq {x}
      <3>1. CASE stage = "create"
        <4>1. accepted = NULL /\ pushed = {}
          BY <3>1 DEF LightShape, ServerShape, LifeInOrder
        <4> QED
          BY <2>3, <4>1 DEF LightShape, ConnsOpen
      <3>2. CASE stage = "freed" /\ pc[Main] = "idle"
        <4>1. \A c \in open : c = accepted
          BY <3>2, FreedLeavesArriving DEF LightShape, ConnsOpen
        <4> QED
          BY <4>1
      <3>3. CASE stage = "freed" /\ pc[Main] # "idle"
        <4>1. \A c \in open : c = item[Main]
          BY <2>2, <2>3, <3>3, FreedLeavesArriving DEF LightShape, ConnsOpen
        <4> QED
          BY <4>1
      <3> QED
        BY <2>1, <3>1, <3>2, <3>3
    <2>5. PICK x : open \subseteq {x}
      BY <2>4
    <2>6. IsFiniteSet({x}) /\ Cardinality({x}) = 1
      BY FS_Singleton
    <2>7. Cardinality(open) <= Cardinality({x})
      BY <2>5, <2>6, FS_Subset
    <2> QED
      BY <2>6, <2>7
  <1> QED
    BY <1>1, LightServerInvariant, PTL
=============================================================================
