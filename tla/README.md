# A TLA+ model of the course project's servers

This directory specifies, model-checks and proves properties of the programs in
this repository: the phase 1 web server, chat server and chat client in C
(`src/src`, `src/chat-client`), and the account system, the chat room and the
cluster of the phase 2 server in TypeScript (`src/phase2`). Paths below start at
`src/`, the root of the repository. `PROJECT.json` maps every definition that
models code to the lines it models.

## 1. Inventory

| Part | State | Operations | Interacts with |
|---|---|---|---|
| Queue `src/src/queue.c` | ring buffer (`data`, `size`, `capacity`, `front`, `rear`), mutex, condition variable | create, enqueue, dequeue, resize, destroy | called by the pool from all threads |
| Thread pool `src/src/pool.c` | `running`, the worker threads, a queue | create, push, worker loop, destroy | queue; callback `handle_client` |
| Web server `src/src/http-server.c`, `main.c` | globals `config`, `server`, `chat_server`; sockets | start, accept loop, `handle_client`, stop; signal handler `cleanup` | pool, parser, middlewares, chat server |
| Parser `src/src/request.c` | the hidden static variable of `strtok` | `request_parse` | called by all workers at once; the chat server uses `strtok` too |
| Middlewares, headers, responses | a list of handlers, a request counter; per-request data | add, call in order; set, get, format | called by `handle_client` |
| Chat server `src/src/chat-server.c` | array of client pointers, counters, mutex, heap, descriptors | accept, add, remove, receive, rename, broadcast, destroy | one thread per client; started by main |
| Chat client `src/chat-client` | one socket, two threads | send, receive | the chat server |
| Accounts, phase 2 (`register`, `login`, `logout`, `data/user.ts`) | `data/user.json`, cookies | register, log in, log out, check the token | the file is shared by all worker processes |
| Chat room, phase 2 (`chat`, `chat-status`, `gpt`, `data/chat.ts`) | `data/chat.json`, polls under way | post, render, long poll, GPT answer | accounts; the page polls and reloads |
| Cluster primary, phase 2 (`index.ts`) | workers, `leaving` | fork, replace, disconnect, force quit | the workers |
| Connections, context, router, phase 2 | per-connection buffers and listeners | parse, route, write headers, chunks | all handlers |
| Socket chat, phase 2 (`chat/index.ts`, `client`) | list of clients | welcome, receive, remove | event loop |

What is hard here:

* **Threads.** The queue tests its size without the mutex and resizes under
  it; `strtok` is shared by all threads; `add_chat_client` reads the array after
  it has unlocked it.
* **Signals.** `cleanup` runs on the main thread wherever main is, inside the
  queue and the allocator too.
* **Shutdown.** One NULL per worker has to end exactly one worker, behind all the
  work that is queued.
* **Blocking calls with a lock held.** The chat server sends under its mutex.
* **Shared files.** The phase 2 workers read, change and rewrite whole files; a
  file that is read half-written ends the process that reads it.
* **Long polls.** A page learns of a message only through the length a worker
  remembers when the poll begins.
* **State used after an `await`.** `register` and `login` look a user up before
  they wait for a digest and write afterwards.

What makes each part correct: the queue is a FIFO queue that loses no wakeup; the
pool runs every task once and shuts down; the server answers every client with
the page it asked for and stops on a signal; a parse finds the parts of its own
request; the chat server's list is intact, its threads never use freed memory and
all clients see one order; accounts are neither lost nor registered twice, and a
session ends with its logout; the chat room keeps its messages, an open page comes
to show them, and a shutdown ends.

## 2. Modules

| Module | Models | Uses |
|---|---|---|
| `FifoQueue` | what `queue.h` promises, without threads | |
| `SafeQueue` | `queue.c` | instance of `FifoQueue` |
| `SafeQueueProofs` | theorems about `SafeQueue` | extends it |
| `SafeQueueRefinement` | proof that it implements `FifoQueue` | extends `SafeQueueProofs` |
| `ThreadPool` | `pool.c` | extends `SafeQueue` |
| `ThreadPoolProofs` | theorems about `ThreadPool` | extends it and `SafeQueueRefinement` |
| `Headers` | `headers.c`, as operators | |
| `HttpServer` | `http-server.c`, `main.c`, `response.c`, the installed middlewares | extends `ThreadPool`, instance of `Headers` |
| `HttpServerProofs` | theorems about `HttpServer` | extends it and `ThreadPoolProofs` |
| `RequestParse` | `request.c` and `strtok` | instance of `Headers` |
| `ChatServer` | `chat-server.c` and `chat-client.c` | |
| `Accounts` | the account handlers and `data/user.ts` | |
| `ChatRoom` | `/chat`, `/chat-status`, `data/chat.ts`, `gpt.ts`, the script of `chat.html`, the primary of the cluster | |
| `RequestParseProofs`, `ChatServerProofs`, `AccountsProofs`, `ChatRoomProofs` | theorems about the module they are named after | extend it |
| `MC...` | symmetry sets, initial files and bounds for TLC | extend the module they are named after; a run without one uses the module itself |

Definitions keep the names of the code. A definition with a suffix after the name
of another one (`enqueue_lock_without_mutex`, `InLoop_posts_one_short`) is a slip of
that one. No specification uses it; `PROJECT.json` names for each property the
slip that breaks it.

**SafeQueue.** `pc[t]` is the place of thread `t`. Steps are split where a thread
can block and where it touches shared state without the mutex: the test of line
37, the read of `capacity` of line 38, the lock, the store, the rest of the
critical section. A resize copies `Copied` items, which is 0 for a full array, and
leaves the rest of the new array unwritten (`Uninit`). The mutex has the default
type: locking it twice waits for ever. `pthread_cond_wait` may wake up without a
signal. `MaxBacklog` bounds the items in the queue and on their way in.

**ThreadPool.** The queue's consumers become the workers with their loop
(`worker[w]`), the owner creates, pushes and destroys (`stage`, `idx`). A task is
a non-null pointer. `done` and `pushed` are history.

**HttpServer.** Main and its signal handler are two producers of the queue; once
`sig` is set Main never moves again, and what it holds it keeps: the mutex of the
queue and one of the C library's locks (`held`): that of the heap, where the
allocator has one (musl, in the Alpine image), or that of `stderr`, where main
prints when `accept` has failed. Whoever allocates, or prints an error, then waits
for ever. `boot` says how much of main's start has happened, so that the handler
meets every combination of global pointers. The middlewares are operators on a
response, called one after the other along the list main builds (`Called`). A client
picks its path when it speaks; it sends its request whole, in two segments of which
the server reads the first, or not at all. A whole request may also be one on which
the parser follows a null pointer (path `NULL`). An answer may be lost at the write,
when the client has left. A parse that overlaps another use of `strtok` may give any
path or a null pointer; `RequestParse` shows which requests and which overlaps do
so. The end of `cleanup` destroys the chat server under its threads, which may crash
the process (`ChatServer` shows how) as well as let it exit. The stream mode of `handle_client` is left out: no
installed middleware sets `body_stream`.

**RequestParse.** One step per `strtok` call; a token is a pair of a buffer's
owner and a part of the request. A request (`Forms`) has up to two header lines,
whose names may differ in case only, and may have a body; the whole first line, its
path, or the value of the last header may be missing. A null pointer is followed by
`strlen`, `strdup` or `value[0]`, and ends the process (`Follow`). Without headers
the offset of the body stays at the empty line, which is stored as the body
(`"blank"`). A worker parses one request after the other.

**ChatServer.** The acceptor and one thread per connection; a failed `accept` has
a thread too, as in the code. `socket[p]` is the descriptor in the struct at
address `p`, 0 when `p` is free; `malloc` returns any free address and `accept`
the lowest free descriptor, so that both are reused. A use of freed memory ends
the behaviour with `ub`. `send` blocks when the client's buffer is full. The
clients are the programs of `chat-client.c`: the first line is a `/rename`, the
thread that reads starts only after it, lines have no newline, so `recv` returns any
number of them as one text.
`destroy_chat_server` may come at any moment, and the process ends some steps
later.

**Accounts.** A worker runs a handler from one await to the next (`busy`). Reads
of the file, its truncation and its filling are separate steps of different
processes; two that write at once may leave the file `Broken`. Reading an empty or
broken file ends the worker; the primary replaces it unless it is `leaving`. SIGINT
to the primary disconnects the workers, which exit when they have no request left;
Ctrl-C kills them wherever they are, also between truncation and write (`cut`). The
server is started again on the file as it is, and the browsers still have their
cookies. GET requests and forms that are refused end in `enter`. `raced` (the
requests whose `set_user` was inside with another one), `registered`, `revoked`,
`together` and `cut` are history. `Contents` is what the file holds and what workers
inside `set_user` are going to write.

**ChatRoom.** A worker is inside at most one `add_chat` (`job`); everything else
it does is one read of the file. A page loads, polls (`pull`, then `wait`), posts,
and is `dead` once a fetch has failed. A poll is the pair of timers of
`changed()`, which outlives its answer (`Settled`). The network is a connection
per page, to any worker while the primary listens, to the same worker after that.
A worker ends when it reads a file that it cannot parse, when a POST comes in two
pieces, when OpenAI fails, by Ctrl-C, or at the end of a graceful shutdown.
`told`, `raced` (the messages whose `add_chat` was inside with another one), `cut`
and `missed` are history; `Contents` is as in `Accounts`.

## 3. Runs

All bounds are in the `.cfg` files.

| Run | Instance | Shows |
|---|---|---|
| SafeQueueHeavy | one producer, an array that fills and grows | types, lock discipline, no lost wakeup, consistent indices, what is lost is the oldest part |
| ThreadPool | 3 workers, 2 tasks, with fairness | each task runs once and is run in the end, each worker gets one NULL, nothing is used after it is freed; the queue implements `FifoQueue` (`Fifo`); shutdown ends |
| HttpServer, HttpServerLive | 2 workers; 2 connections, 1 for liveness; one signal at any time | right answers, at most one connection lost at shutdown, a crash has one of three named causes; connections end, the process stops unless the signal met a lock |
| RequestParse | 2 workers, any sequence of requests | a parse on its own is right whatever ran before, and follows a null pointer only on a request without a line, without a path, with a header without a value, or with a body and no headers |
| ChatServer | 2 clients, 2 failures of `accept`, destruction at any time, any reuse of addresses and descriptors | the array stays intact; freed memory is used only in one of three named cases; otherwise every connection has its own thread |
| ChatServerLive | 2 clients, a rename and a line each, or a rename and two lines of one while the other never gives its name; any coalescing | one order for all, lines come back to their sender; broadcasts end and clients that leave are removed, unless a client without a name, which does not read, stops a broadcast for good |
| Accounts | 2 workers that crash, are killed and disconnected, 2 browsers, 2 names, 2 requests each, 1 new start | the file is unreadable only while it is written, after Ctrl-C in the middle of a write (and then for ever), or after two writes at once; a confirmed account stays and a token that was logged out does not come back, whatever other requests overwrite one another, unless their own `set_user` met another one or the whole file is lost; a name has two owners only if they registered it together; no request hangs |
| ChatRoom | 2 workers, 1 page, 2 posts, both questions to GPT, a shutdown of any kind and one restart | a message that was accepted stays unless its own `add_chat` met another one or the whole log is lost, and without such meetings pages show the beginning of the log; the file is unreadable only while it is written, after Ctrl-C in the middle of a write (and then for ever), or after two writes at once; an open page catches up; a shutdown ends |

The bounds are enough for the interesting cases: the load that fills a
queue of capacity 2 and makes it grow twice does for it what 128 entries do for
the real one (SafeQueueShrink has the real capacity of 128, with 33 items);
two workers and one sleeper are enough to lose a wakeup; two clients are enough
for a removal between the unlock and the return of `add_chat_client`, two failures
for two entries with descriptor -1. Where clients talk, two broadcasts of one are
enough to fill the buffer of the other, and one of each to be in two orders.
Accounts starts with one name taken and one free, or with one name for each browser,
and nobody logged in (`MCStored`), so that two requests are enough for a login and its logout on top of
an older account while another browser registers or logs in; the start after a
Ctrl-C meets the tokens, cookies and half-written file of the run before. In
the chat room one page is enough, since the answers of GPT are added by the worker
the question went to: they meet the page's own posts and polls on the other worker,
which gives overlapping writes, reads of a half-written file, and messages between
two polls. The
liveness of the queue is checked where it is used: `TaskIsDone` of the pool and
`ConnectionEnds` of the web server fail when a signal of the queue is forgotten.

Deadlock is checked for the pool. It is not
checked where the system may stop: under heavy load the queue really locks up
(SafeQueueShrink), a crash or the bounds of the environment end a behaviour
(`RequestParse`, `ChatServer`, `Accounts`, `ChatRoom`), and
the web server really deadlocks in the case of HttpServerSigterm, which the
passing run includes and `StopsUnlessLocked` delimits.

### Disagreements with the code's own statements

Each of these runs checks one property that a header, a test or a workflow of the
repository states, and ends in a counterexample.

* **SafeQueueShrink** - a dequeue that leaves exactly a quarter of the capacity
  resizes with the mutex held and waits for itself (`queue.c:62`).
* **HttpServerSigterm** - a signal inside the critical section of enqueue leaves
  the process hanging (`main.c:20`).
* **RequestParseTwo** - two parses at once mix their requests up (`request.c:13`).

What the passing properties leave out by name is also what the code does:

* Growing a full array copies nothing (`queue.c:22`: `i != rear` is false at once),
  so the queue then returns slots nobody has written. `LossIsOldest` says what is
  lost and what is kept. The capacity is 128 at first, so only a
  server with that many connections waiting meets this.
* Two producers that both test for room before either locks overfill the array
  (`queue.c:37`). The pool has one producer at a time; `RingConsistent` is checked
  for one.
* Two workers inside `set_user`, or `add_chat`, at the same time write each other's
  changes away, accounts, logouts and messages included (`data/user.ts:16`,
  `data/chat.ts:16`): what was stored by a request in `raced` may be gone.
  `AccountsKept`, `LoggedOutStays`, `OneOwner` and `LogKept` hold, also after such
  races, for all that was stored without one.
* Two registrations of one name that are both past the lookup are both confirmed
  (`dynamic/register.ts:41`): the condition `together` of `OneOwner`.
* Two workers that write `user.json` or `chat.json` at once may leave the longer
  text under the shorter one; Ctrl-C in the middle of a write leaves the file empty
  (`data/user.ts:38`, `data/chat.ts:63`). No worker can read such a file, and each
  that tries ends; an empty one stays so through every later start, and all accounts
  or messages are lost: `EmptyWhileWritten` and `UnreadableOnly`, and `Lost` in
  `AccountsKept` and `LogKept`.
* A message written between the rendering of a page and its poll, or between a 304
  and the next poll, is in the length the poll begins with (`data/chat.ts:22`):
  the page shows it only after a later message. A page whose fetch fails never
  polls again (`chat.html:49`). Both are exceptions of `CatchesUp`.
* A browser that keeps its page open keeps the server from ending after SIGINT,
  since every poll is followed by the next on the same connection, and a forced
  exit leaves such workers behind: `ShutdownEnds` starts when no browser is
  connected.
* A request that arrives in two segments is parsed as far as it got
  (`http-server.c:44`). The parser follows a null pointer on a request without a line
  or a path, on a header without a value, and often on a body without headers, which it
  takes for a header line (`request.c:11`, `:18`, `:27`, `:21`); a request with
  neither headers nor body gets the empty line as its body (`request.c:36`). These
  are the exceptions of `OwnAnswer`, `CrashHasCause` and `ParsedAloneIsOwn`.
* `cleanup` crashes when it comes before there is a pool, and may crash when it
  destroys the chat server under its threads (`main.c:20`, `main.c:28`): the other
  causes in `CrashHasCause`.
* A signal that interrupts main inside the allocator, or while it prints that
  `accept` failed (`http-server.c:172`), may block the handler or a worker for ever:
  the condition `held` of `StopsUnlessLocked`.
* A chat client that is at the prompt for its name does not read, and the server
  sends with the mutex held (`chat-server.c:195`): `Stalled` in `BroadcastEnds` and
  `GoneIsRemoved`.
* A line read behind a `/rename` becomes part of the name (`chat-server.c:166`):
  the exception of `LinesComeBack`.
* `add_chat_client` reads the array after unlocking it, `accept` may fail, and the
  chat server is destroyed under its threads: the conditions of `FreedOnlyByRace`
  and `OwnThread`.

### Fairness

A thread that can take a step takes one (weak fairness per thread), as a
preemptive scheduler guarantees. A thread that waits for a mutex that is released
again and again gets it (strong fairness of the lock steps): POSIX does not
promise this, the schedulers the programs run under provide it in practice.
Accepting threads accept, and `accept` does not fail for ever. For liveness the
environment has to do its part, too: HTTP clients say something or leave, chat
clients that have given their name read, as `chat-client.c` does; without this the
code really blocks (a silent client keeps a worker, a chat client that does not read
stops all the others). Nobody has to give a name, and a signal, a request, a
shutdown need never come. The event loop of a phase 2 worker passes over no request
for ever (strong fairness of each handler in `Accounts`, since the worker is free again and
again; nothing is assumed of forks there); in `ChatRoom` its timers fire, the primary
forks, and OpenAI answers or fails; `CatchesUp` needs only the timeout of a
poll, not its interval.

## 4. Proofs

TLAPS checks the modules named `...Proofs` and `SafeQueueRefinement`. Every theorem
holds for any size of the constants: any number of threads, workers, clients,
names, messages, requests and failures. The assumptions on the constants say only
that they are finite where the code counts them, that distinguished values
(`NULL`, `None`, `Nobody`, `Empty`, ...) are distinct from ordinary ones, that a pool
has a worker, and that Main and the signal handler are the web server's producers. Each inductive invariant below was model-checked as an
invariant before it was proved.

**Queue** (`SafeQueueProofs`, `SafeQueueRefinement`).

* `QueueInvariant`: `Spec => []QueueInv`, with `TypeCorrect`, `LockCorrect`
  and `WakeupsKept` as consequences. It holds under any load, resizes included.
  `QueueInv` adds to the three properties that the sleepers are exactly the
  threads inside `pthread_cond_wait`, that a resize has a positive new capacity,
  and that a dequeue never gets past the lock of its resize (it waits for
  itself). The heart is `NoLostWakeup`: while somebody sleeps there are at least
  as many awake consumers on their way as items. An enqueue adds an item and wakes
  one; a consumer goes to sleep only when there are no items; one that takes an
  item leaves together with it. The proof counts finite sets of consumers.
* `LightInvariant`: if `MaxBacklog` is at most a quarter of
  `InitialCapacity` (`LightLoad`), `Spec => []LightInv`: no resize is ever
  called, the backlog keeps its bound, the indices agree, and all slots in use hold
  items. `LightReturnsEnqueued` and `LightRingConsistent` follow.
* `GrowInvariant`: with one producer (`OneProducer`) and at any load,
  `Spec => []GrowInv`, with `OneProducerRing` and `OneProducerLoss` as
  consequences: `RingConsistent` and `LossIsOldest` through every growth. `HasRoom`
  says that the test of line 37 still holds when the producer stores, because nobody
  else can take the room, and that a growth doubles the capacity it saw. A full array
  copies nothing (`CopyCount`), so all its slots become unwritten ones at once; any
  other array would copy all of its items. A dequeue never gets as far as its own
  resize. With two producers `RingConsistent` is false (section 3).
* `LightFifo`: under `LightLoad`, `Spec => Fifo`. The refinement mapping takes
  the ring's contents, oldest first, for the abstract queue and each consumer's
  last item for what it got. `enqueue_advance` is `Put`, `dequeue_take` is `Get`,
  everything else stutters. The store into the array happens before `rear` moves,
  outside the contents: there it matters that the ring is not full.

**Pool** (`ThreadPoolProofs`). `PoolShape`, the types with `QueueInv`, the flag
`running` and the workers below `idx` that are joined (`LoopsInOrder`), holds at any
load; `PoolTypeCorrect` follows. For the rest, nothing in `pool.c` bounds what is
pushed, and beyond a quarter of the array the queue locks up or forgets (section 3),
so these theorems are about the pool of an owner that keeps the backlog light:
`LightPool == PoolSpec /\ [](Backlog <= MaxBacklog)`, with `LightLoad`. In the run
`ThreadPool` and in a web server with fewer than 32 connections waiting this holds.

* `PoolUsesQueue`: `LightPool => Spec` of `SafeQueue`: each step of the pool is a
  step of the queue's specification or leaves the queue alone. `PoolFifo` follows
  with `LightFifo`.
* `PoolInvariant`: `LightPool => []PoolInv`, where `PoolInv` is `PoolShape`,
  `LightInv`, and
  * `Flow`: for each item, how often it was given to the queue is how often it is on
    its way in, queued, in a worker's hands, or dealt with. For tasks this is
    `TaskAccounted`, for NULL it is `PillPerWorker`;
  * `NullsLast`: in the queue no task is behind a NULL, and once a worker has a NULL
    there are no tasks left in it. Without it, `FreedIsQuiet` could not be
    concluded: all workers might have left with a task still queued;
  * `OwnerEnqueues`: only the owner enqueues, tasks while the pool is open and NULLs
    afterwards. Without it a push could put a task behind a NULL. The other parts
    (`PoolCore`) do not depend on who the producers are, and the web server uses
    them.

  Its consequences are `WorkersGetTasks`, `TasksAccounted`, `PillsAccounted` and
  `FreedPoolIsQuiet`. The steps inside the queue fall into three kinds (nothing
  moves, a put, a take), and the counting is done once for each kind.

**Web server** (`HttpServerProofs`). The server is not an instance of `PoolSpec`: its
pool has two producers, Main and the handler that interrupts it, and Main may be
stopped for ever inside an enqueue. The proofs take each step of the server to one of a
few kinds of steps of the pool (`ServerPoolStep`), for which the lemmas of `ThreadPoolProofs` do the
work.

* `ServerInvariant`: `ServerSpec => []ServerShape`, at any load, with
  `ServerTypeCorrect` and `AnswersAreOwn`. `ServerShape` adds to `PoolShape` and the
  types the order of main's start and of `cleanup` (`LifeInOrder`), that a connection
  is pushed once, that whatever is in the array or in a thread's hands was pushed, or
  is NULL or unwritten (`ItemsKnown`: so what a worker reads from is a connection
  somebody made), that a worker past the parse has the path of its own client unless
  the parse was disturbed (`StepsOwn`), and the same of an answer (`AnswersOwn`).
* `LightServerInvariant`: while the backlog stays light (`LightServer`),
  `LightServer => []LightShape`. It adds `PoolCore`; `Producing`: the handler
  enqueues NULLs and Main connections, which keeps connections from getting behind
  a NULL, since Main does not move any more when the handler does; `ConnsOpen`: the
  open connections are the one Main holds and the pushed ones not served; and
  `CrashHasCause` itself. `ServerCrashes` holds because the callback only gets
  connections, so a worker crashes nowhere but in the parse, and because the chat
  server's turn comes when the workers are joined; `StopLosesOne` (`StopLosesAtMostOne`) because
  by `Flow` and `NullsLast` an unserved connection of a freed pool can only be on its
  way in, in the hands of Main, which has one.

**Parser** (`RequestParseProofs`). `ParseInvariant` gives `ParseTypeCorrect` and
`AloneIsOwn`. `ParseInv` says where the static variable of `strtok` may point
(`Static`), that two workers that parse at once are known to overlap (`Known`),
that only their buffers are cut up by others, and that a worker that overlaps
nobody and has not crashed has found its own parts so far (`OwnSoFar`) and finds the
static variable where its last call left it (`LastOwn`); a worker that overlapped
nobody has crashed only on a request that cannot be parsed (`Crashes`). The forms of
requests are those of the model.

**Chat server** (`ChatServerProofs`). `ChatInvariant` gives `ChatTypeCorrect`,
`ChatListIntact`, `ChatFreedOnlyByRace` and `ChatOwnThread`. `ChatInv` adds the
state of the accepting thread (`AcceptorOK`), that a connection that was never
accepted has no descriptor (`Fresh`), one descriptor per connection (`OneFd`), and
`Counted`: the array has as many entries as there are running threads, and one more
while `add_chat_client` is between its unlock and the start of the thread. With it
the array never outgrows the addresses there are. Until the race of
`add_chat_client` or a second failure of `accept`, every running thread owns one
entry and every entry has its owner (`Owned`); this is what a removal needs to take
the right entry. `OrderInvariant` builds on it and gives `ChatSameOrder` and
`ChatLinesComeBack`: the lines of a batch that is being sent are the end of every
inbox they have reached, in their order (`AtEnd`), and have not reached the clients
behind `next` (`NotYet`, which needs that no two entries have one connection); a line
that has not come back is in the batch of its sender's thread, whose loop has not
passed the sender's entry (`Back`). The first of the two also holds after the races.
The proof of the second one showed that it needs the threads to have their own
clients: with three clients a second thread may have a line that the first has not
seen, so the property now says so.

**Accounts** (`AccountsProofs`). `AccountsInvariant` gives `AccountsTypeCorrect`,
`FileEmptyWhileWritten`, `RegisteredKept`, `TokensStayOut` and `NamesHaveOneOwner`.
`AccountsInv` says that all tokens anywhere are older than the next one
(`TokensOld`), that a handler inside `set_user` whose request is not in `raced` is
the only one there (`Alone`), and that the file, and the data of every handler
inside, have every account registered without a race and no token revoked without
one (`Sound`, `SoundData`). This needs no condition on the other requests: a handler
that races has read the file, or overwrites it with what it read, before or after an
unraced one was inside, never meanwhile. `CutOff` says that nobody is inside once
Ctrl-C has cut the file off, so nobody can fill it again.

**Chat room** (`ChatRoomProofs`). `RoomInvariant` gives `RoomTypeCorrect`,
`LogReadable` and `MessagesKept`. The file, and the data of every worker inside
`add_chat`, hold every message that was accepted without a race (`Kept`, `Holds`),
with and without races of others, until the log is lost; nobody is inside once it was
cut off (`CutOff`). Until the first race at most one worker is inside, its data
are the log it read with one message added, and this covers everything accepted
and shown: no page is rendered past it meanwhile (`Careful`).

**Only model-checked.** All liveness (`DestroyReturns`, `TaskIsDone`,
`ConnectionEnds`, `StopsUnlessLocked`, `GoneIsRemoved`, `BroadcastEnds`, `Answered`,
`CatchesUp`, `ShutdownEnds`): fairness is out of the prover's reach. Every invariant
of a passing run, and the refinement `Fifo`, is stated by a theorem: `RingConsistent`
and `LossIsOldest` for one producer or a light load; `Fifo`, `ReturnsEnqueued` and
what the pool and the web server promise about tasks, NULLs, crashes and the
shutdown for a light load; everything else without a condition.

## 5. Not modelled

* The middlewares main does not install (`serve-static.c`, `test.c`), the stream
  mode of `handle_client`, `headers_delete` and `stop_chat_server`: nothing in the
  program reaches them.
* The bytes and sizes of texts: pages, messages, names, and the buffers that hold
  them; the settings read from the environment; what is printed with DEBUG set; TLS.
* Requests that begin with empty lines and go on behind them.
* Failing `malloc` and `pthread_create`, except where the code tests for it; a
  second signal, whose `cleanup` runs inside the first.
* The logger's counter and its times, which are only printed.
* Of phase 2: static files, chunks and the two demonstration handlers, which keep
  no state; requests pipelined on one connection, which no client here sends; the
  socket chat, whose handlers run to the end in one thread.

`PROJECT.json` lists each part with its reason, and under `hazards` what it leaves
open.

## 6. Plan

1. Queue, pool, web server, parser, headers, chat server and client, accounts, chat
   room and cluster: modelled and checked.
2. Proofs of every invariant the runs check, and of the refinement: done.
3. Worth adding: a proof that the queue with one producer implements, at any load, a
   queue that may forget its oldest items when it grows.
4. If the code grows there: an abstract chat that both chat servers implement, and
   connections that carry several requests at once.
