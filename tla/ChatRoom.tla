------------------------------ MODULE ChatRoom ------------------------------
(***************************************************************************)
(* The chat room of phase2: the handlers of /chat and /chat-status on top  *)
(* of the file data/chat.json, the script of the page chat.html that polls *)
(* for news, the answers of GPT, and the cluster of worker processes that  *)
(* runs them.                                                              *)
(*                                                                         *)
(* A worker runs one handler or timer at a time; the workers share nothing *)
(* but the file.  writeFileSync empties the file and then fills it, so     *)
(* another worker may read it empty; two that write at once may leave the  *)
(* longer text under the shorter one.  JSON.parse throws on both, nothing  *)
(* catches it, and the worker process ends with all its connections and    *)
(* timers.  The .catch of chat_status sees none of this: the reads are     *)
(* made before its promise exists, or in the callbacks of timers.          *)
(*                                                                         *)
(* All users are logged in (module Accounts).  The i-th message posted is  *)
(* the number i, and GPT's answer to it -i.                                *)
(***************************************************************************)
EXTENDS Integers, FiniteSets, SequencesExt

CONSTANTS Workers,    \* the worker processes
          Pages,      \* the browser tabs
          None,       \* no worker, no page, no job
          Empty,      \* the file between its truncation and its filling
          Broken,     \* the file when two texts were written over each other
          Questions,  \* the posted messages that start with @gpt
          MaxPosts,   \* bound: messages posted
          MaxStarts   \* bound: how often the server is started again

Messages == -MaxPosts .. MaxPosts
Log      == Seq(Messages)
Jobs     == [at : {"truncate", "write"}, msg : Messages, data : Log]

ASSUME ChatRoomAssumption ==
    /\ IsFiniteSet(Workers) /\ Workers # {}
    /\ None \notin Workers \cup Pages \cup Jobs
    /\ Empty # Broken /\ Empty \notin Log /\ Broken \notin Log
    /\ MaxPosts \in Nat /\ MaxStarts \in Nat
    /\ Questions \subseteq 1 .. MaxPosts

VARIABLES file,       \* data/chat.json: a sequence of messages, Empty or Broken
          up,         \* the workers that run
          life,       \* the primary: "running", "leaving" (its flag is set) or "gone"
          starts,     \* how often the server was started again
          job,        \* job[w]: the add_chat that worker w is inside, or None
          polls,      \* the timers that changed() has set, each with its page
          gpt,        \* the calls of gpt_reply under way
          conn,       \* conn[b]: the worker that has the connection of page b, or None
          page,       \* page[b]: what page b shows and waits for, and (history) whether
                      \* the file was written when the page had no poll under way
          posted,     \* how many messages were posted
          told,       \* history: the messages whose add_chat has returned
          raced,      \* history: the messages that were inside add_chat with another one
          cut         \* history: a worker was killed while the file was empty

vars == <<file, up, life, starts, job, polls, gpt, conn, page, posted, told, raced, cut>>

primary == <<up, life, starts>>
history == <<told, raced, cut>>

Blank == [at |-> "closed", shown |-> <<>>, missed |-> FALSE, msg |-> 0]

Init ==
    /\ file = <<>>
    /\ up = Workers
    /\ life = "running" /\ starts = 0
    /\ job = [w \in Workers |-> None]
    /\ polls = {} /\ gpt = {}
    /\ conn = [b \in Pages |-> None]
    /\ page = [b \in Pages |-> Blank]
    /\ posted = 0
    /\ told = {} /\ raced = {} /\ cut = FALSE

At(b) == page[b].at

-----------------------------------------------------------------------------
(* The pieces handlers are made of *)

(* A worker runs to the end what it has started: all of it is synchronous. *)
Free_in_write(w) == job[w] # None => job[w].at = "write"

Free(w) == job[w] = None

(* retrieve returns what the file holds, or throws. *)
Readable == file \notin {Empty, Broken}

retrieve_nothing == <<>>

retrieve == file

Reads(w) == w # None /\ Free(w) /\ Readable

(* The page has sent a request, and its worker gets to it. *)
Served(b, here) == At(b) = here /\ Reads(conn[b])

(* The end of the processes in W.  The browser shows an error instead of a *)
(* page it was loading; the promise of a fetch is rejected, which nothing  *)
(* in the script handles: that page never polls again.                     *)
Crash(W) ==
    /\ up' = up \ W
    /\ job' = [w \in Workers |-> IF w \in W THEN None ELSE job[w]]
    /\ polls' = {p \in polls : p.w \notin W}
    /\ gpt' = {g \in gpt : g.w \notin W}
    /\ conn' = [b \in Pages |-> IF conn[b] \in W THEN None ELSE conn[b]]
    /\ page' = [b \in Pages |->
                  IF conn[b] \notin W THEN page[b]
                  ELSE IF At(b) \in {"load", "post"} THEN Blank
                  ELSE [page[b] EXCEPT !.at = "dead"]]
    /\ UNCHANGED <<file, starts, posted, told, raced>>

(* The messages inside add_chat. *)
Adding == {job[w].msg : w \in {v \in Workers : job[v] # None}}

(* add_chat: the file is read and the message appended; it stays to be     *)
(* written.                                                                *)
add_chat(w, m) ==
    /\ job' = [job EXCEPT ![w] = [at |-> "truncate", msg |-> m, data |-> Append(retrieve, m)]]
    /\ raced' = raced \cup IF Adding = {} THEN {} ELSE Adding \cup {m}
    /\ UNCHANGED <<file, primary, polls, posted, told, cut>>

-----------------------------------------------------------------------------
(* The browser and its user *)

(* A timer nobody waits for. *)
Settled(p) == [w |-> p.w, b |-> None, size |-> 0]

(* The page leaves for another one: the answer to a poll goes nowhere. *)
Leave(b, what) ==
    /\ page' = [page EXCEPT ![b] = what]
    /\ conn' = [conn EXCEPT ![b] = None]
    /\ polls' = {IF p.b = b THEN Settled(p) ELSE p : p \in polls}

open(b) ==
    /\ At(b) \in {"closed", "dead"}
    /\ Leave(b, [Blank EXCEPT !.at = "load"])
    /\ UNCHANGED <<file, primary, job, gpt, posted, history>>

close(b) ==
    /\ At(b) # "closed"
    /\ Leave(b, Blank)
    /\ UNCHANGED <<file, primary, job, gpt, posted, history>>

(* The form of the page. *)
post(b) ==
    /\ At(b) \in {"pull", "wait", "dead"}
    /\ posted < MaxPosts
    /\ posted' = posted + 1
    /\ Leave(b, [Blank EXCEPT !.at = "post", !.msg = posted + 1])
    /\ UNCHANGED <<file, primary, job, gpt, history>>

(* A connection goes to any worker, as long as the primary listens. *)
connect(b, w) ==
    /\ At(b) \in {"load", "post"}
    /\ conn[b] = None
    /\ life = "running" /\ w \in up
    /\ conn' = [conn EXCEPT ![b] = w]
    /\ UNCHANGED <<file, primary, job, polls, gpt, page, posted, history>>

refused(b) ==
    /\ At(b) \in {"load", "post"}
    /\ conn[b] = None
    /\ life # "running"
    /\ page' = [page EXCEPT ![b] = Blank]
    /\ UNCHANGED <<file, primary, job, polls, gpt, conn, posted, history>>

-----------------------------------------------------------------------------
(* Handlers *)

(* GET /chat; the script of the page that is rendered then calls pull.     *)
chatroom_get(b) ==
    /\ Served(b, "load")
    /\ page' = [page EXCEPT ![b] = [Blank EXCEPT !.at = "pull", !.shown = retrieve]]
    /\ UNCHANGED <<file, primary, job, polls, gpt, conn, posted, history>>

(* POST /chat *)
chatroom_post(b) ==
    /\ Served(b, "post")
    /\ add_chat(conn[b], page[b].msg)
    /\ UNCHANGED <<gpt, conn, page>>

(* A POST that arrives in two pieces is taken for two requests; the first  *)
(* has no form, and form.message.replace throws.                           *)
chatroom_post_split(b) ==
    /\ At(b) = "post" /\ conn[b] # None
    /\ Free(conn[b])
    /\ Crash({conn[b]})
    /\ UNCHANGED <<life, cut>>

(* GET /chat-status: changed() keeps the size of the file and sets the     *)
(* interval and the timeout.  What has arrived since the page was rendered *)
(* is part of that size.                                                   *)
chat_status(b) ==
    /\ Served(b, "pull")
    /\ polls' = polls \cup {[b |-> b, w |-> conn[b], size |-> Len(retrieve)]}
    /\ page' = [page EXCEPT ![b].at = "wait"]
    /\ UNCHANGED <<file, primary, job, gpt, conn, posted, history>>

Changed_never(p) == FALSE

Changed(p) == p.size # Len(retrieve)

(* 200 makes the page reload, 304 makes it poll again; a second resolve    *)
(* has no effect.                                                          *)
resolve(p) ==
    page' = [b \in Pages |->
               IF b = p.b THEN [page[b] EXCEPT !.at = IF Changed(p) THEN "load" ELSE "pull"]
                          ELSE page[b]]

(* The interval goes on after the promise is resolved. *)
interval(p) ==
    /\ Reads(p.w)
    /\ p.b # None /\ Changed(p)
    /\ resolve(p)
    /\ polls' = (polls \ {p}) \cup {Settled(p)}
    /\ UNCHANGED <<file, primary, job, gpt, conn, posted, history>>

timeout(p) ==
    /\ Reads(p.w)
    /\ resolve(p)
    /\ polls' = polls \ {p}
    /\ UNCHANGED <<file, primary, job, gpt, conn, posted, history>>

(* persist: the file is opened, which empties it, ... *)
persist_truncate(w) ==
    /\ job[w] # None /\ job[w].at = "truncate"
    /\ file' = Empty
    /\ job' = [job EXCEPT ![w].at = "write"]
    /\ UNCHANGED <<primary, polls, gpt, conn, page, posted, history>>

(* ... and written, over what another worker has written since.  The       *)
(* answer to a POST sends the page back to /chat; a question starts the    *)
(* timer of gpt_reply.                                                     *)
persist_write(w) ==
    /\ job[w] # None /\ job[w].at = "write"
    /\ LET m == job[w].msg
       IN  /\ file' \in {job[w].data} \cup IF file = Empty THEN {} ELSE {Broken}
           /\ gpt' = gpt \cup IF m \in Questions THEN {[q |-> m, w |-> w, at |-> "timer"]} ELSE {}
           /\ page' = [b \in Pages |->
                         IF At(b) = "post" /\ page[b].msg = m
                         THEN [Blank EXCEPT !.at = "load"]
                         ELSE [page[b] EXCEPT !.missed = @ \/ At(b) = "pull"]]
           /\ told' = told \cup {m}
    /\ job' = [job EXCEPT ![w] = None]
    /\ UNCHANGED <<primary, polls, conn, posted, raced, cut>>

(* gpt_reply reads the last messages (there is one: the question), waits   *)
(* for the answer of the service, and adds it.  Without an API key it      *)
(* returns at once, and no message is a question.                          *)
gpt_reply(g) ==
    /\ g.at = "timer"
    /\ Reads(g.w)
    /\ gpt' = (gpt \ {g}) \cup {[g EXCEPT !.at = "fetch"]}
    /\ UNCHANGED <<file, primary, job, polls, conn, page, posted, history>>

gpt_answer(g) ==
    /\ g.at = "fetch"
    /\ Reads(g.w)
    /\ add_chat(g.w, -g.q)
    /\ gpt' = gpt \ {g}
    /\ UNCHANGED <<conn, page>>

(* The fetch fails, or its answer is not as expected: an unhandled         *)
(* rejection.                                                              *)
gpt_fails(g) ==
    /\ g.at = "fetch"
    /\ Free(g.w)
    /\ Crash({g.w})
    /\ UNCHANGED <<life, cut>>

(* Whatever a worker does next reads the file. *)
HasWork(w) ==
    \/ \E b \in Pages : conn[b] = w /\ At(b) \in {"load", "pull", "post"}
    \/ \E p \in polls : p.w = w
    \/ \E g \in gpt : g.w = w

retrieve_throws(w) ==
    /\ Free(w) /\ ~Readable
    /\ HasWork(w)
    /\ Crash({w})
    /\ UNCHANGED <<life, cut>>

-----------------------------------------------------------------------------
(* The cluster *)

Forks_always == life # "gone"

Forks == life = "running"

(* The primary replaces a worker that has exited, unless it is leaving. *)
cluster_fork(w) ==
    /\ Forks
    /\ w \notin up
    /\ up' = up \cup {w}
    /\ UNCHANGED <<file, life, starts, job, polls, gpt, conn, page, posted, history>>

(* SIGINT to the primary: cluster.disconnect, and the second time exit. *)
sigint ==
    /\ life # "gone"
    /\ life' = IF life = "running" THEN "leaving" ELSE "gone"
    /\ UNCHANGED <<file, up, starts, job, polls, gpt, conn, page, posted, history>>

(* Ctrl-C at the terminal is SIGINT to all processes, and the workers have *)
(* no handler for it.                                                      *)
ctrl_c ==
    /\ life # "gone"
    /\ life' = IF life = "running" THEN "leaving" ELSE "gone"
    /\ cut' = (cut \/ file = Empty)
    /\ Crash(up)

(* A worker that was disconnected exits when it has no connection and no   *)
(* timer left, whether the primary is still there or not.                  *)
Done_connected(w) == Free(w) /\ \A p \in polls : p.w # w

Done(w) ==
    /\ Free(w)
    /\ \A p \in polls : p.w # w
    /\ \A g \in gpt : g.w # w
    /\ \A b \in Pages : conn[b] # w

worker_exit(w) ==
    /\ life # "running" /\ w \in up
    /\ Done(w)
    /\ up' = up \ {w}
    /\ UNCHANGED <<file, life, starts, job, polls, gpt, conn, page, posted, history>>

primary_exit ==
    /\ life = "leaving" /\ up = {}
    /\ life' = "gone"
    /\ UNCHANGED <<file, up, starts, job, polls, gpt, conn, page, posted, history>>

start ==
    /\ life = "gone" /\ up = {}
    /\ starts < MaxStarts
    /\ starts' = starts + 1
    /\ life' = "running" /\ up' = Workers
    /\ UNCHANGED <<file, job, polls, gpt, conn, page, posted, history>>

-----------------------------------------------------------------------------
(* What the page waits for: a connection, its handler, the end of its poll. *)
Page(b) ==
    \/ \E w \in Workers : connect(b, w)
    \/ refused(b)
    \/ chatroom_get(b) \/ chatroom_post(b) \/ chatroom_post_split(b) \/ chat_status(b)
    \/ \E p \in polls : p.b = b /\ timeout(p)

Worker(w) == persist_truncate(w) \/ persist_write(w) \/ retrieve_throws(w)

(* What a worker does for no page, and its own end. *)
Background(w) ==
    \/ \E p \in polls : p.b = None /\ p.w = w /\ timeout(p)
    \/ \E g \in gpt : g.w = w /\ (gpt_reply(g) \/ gpt_answer(g) \/ gpt_fails(g))
    \/ cluster_fork(w)
    \/ worker_exit(w)

Next ==
    \/ \E b \in Pages : open(b) \/ close(b) \/ post(b) \/ Page(b)
    \/ \E p \in polls : interval(p)
    \/ \E w \in Workers : Worker(w) \/ Background(w)
    \/ sigint \/ ctrl_c \/ primary_exit \/ start

Spec == Init /\ [][Next]_vars

(* Event loops run and timers fire; OpenAI answers or fails.  Nothing is   *)
(* assumed of the users, and none of the interval: the timeout compares    *)
(* the sizes too.                                                          *)
FairSpec ==
    /\ Spec
    /\ \A b \in Pages : WF_vars(Page(b))
    /\ \A w \in Workers : WF_vars(Worker(w)) /\ WF_vars(Background(w))
    /\ WF_vars(primary_exit)

-----------------------------------------------------------------------------
(* Properties *)

PageStates ==
    [at : {"closed", "load", "pull", "wait", "post", "dead"},
     shown : Log, missed : BOOLEAN, msg : 0 .. MaxPosts]

(* Every variable has its type; connections, timers and calls of GPT       *)
(* belong to workers that run, and a page that waits has its poll.         *)
TypeOK ==
    /\ file \in Log \cup {Empty, Broken}
    /\ up \subseteq Workers
    /\ life \in {"running", "leaving", "gone"}
    /\ posted \in 0 .. MaxPosts /\ starts \in 0 .. MaxStarts
    /\ job \in [Workers -> Jobs \cup {None}]
    /\ \A w \in Workers : job[w] # None => w \in up
    /\ page \in [Pages -> PageStates]
    /\ conn \in [Pages -> up \cup {None}]
    /\ polls \subseteq [b : Pages \cup {None}, w : up, size : Nat]
    /\ \A b \in Pages : At(b) = "wait" => \E p \in polls : p.b = b /\ p.w = conn[b]
    /\ gpt \subseteq [q : Questions, w : up, at : {"timer", "fetch"}]

(* What the file holds, and what workers are about to make of it. *)
Contents ==
    (IF Readable THEN {file} ELSE {}) \cup
    {job[w].data : w \in {v \in Workers : job[v] # None}}

(* The log is gone: UnreadableOnly says when, and that it stays so. *)
Lost == cut \/ file = Broken

(* A message that was accepted stays, in the file or in whatever is about  *)
(* to be written to it, through crashes of workers, signals and starts,    *)
(* unless it was inside add_chat together with another one: whoever        *)
(* overwrites the file has read it since.  As long as no two messages were *)
(* there together, what a page shows is the beginning of the log.  The     *)
(* wait for GPT does not count: its answer is added to the log as it is    *)
(* then.  All this ends when Ctrl-C has cut a write off or two texts have  *)
(* been mixed: then every message is lost.                                 *)
LogKept ==
    ~Lost =>
        /\ Contents # {}
        /\ \A s \in Contents :
              /\ told \ raced \subseteq Range(s)
              /\ raced = {} => \A b \in Pages : IsPrefix(page[b].shown, s)

(* The file cannot be read only while a worker writes it, after Ctrl-C has *)
(* killed one that did, or after two workers have written at once.  What   *)
(* Ctrl-C has cut off stays empty, in a server that is started again too:  *)
(* whoever would write the file reads it first.                            *)
UnreadableOnly ==
    /\ file = Empty => cut \/ \E w \in Workers : job[w] # None /\ job[w].at = "write"
    /\ file = Broken => raced # {}
    /\ cut => file = Empty

(* A page that stays open and polls does not stay behind the log: it is    *)
(* reloaded, unless a message was written when it had no poll under way    *)
(* (between rendering and poll, or between a 304 and the next poll), or    *)
(* two workers have been inside add_chat at the same time.                 *)
CatchesUp ==
    \A b \in Pages :
        (At(b) \in {"pull", "wait"} /\ Readable /\ file # page[b].shown) ~>
            (At(b) \notin {"pull", "wait"} \/ page[b].missed \/ raced # {})

(* After SIGINT the server ends, its workers included, once no browser is  *)
(* connected any more.                                                     *)
ShutdownEnds ==
    (life # "running" /\ \A b \in Pages : conn[b] = None) ~> (life = "gone" /\ up = {})
=============================================================================
