------------------------------ MODULE Accounts ------------------------------
(***************************************************************************)
(* The account system of phase2: the handlers register, login, logout and  *)
(* the check of the session token that /chat and /chat-status make, on top *)
(* of the file data/user.json.                                             *)
(*                                                                         *)
(* The cluster runs several worker processes.  A worker runs one handler   *)
(* at a time, from one await to the next: busy[w] is the client it works   *)
(* for.  The workers share nothing but the file, so every read of the file *)
(* and every step of writing it (writeFileSync empties the file, then      *)
(* fills it) may interleave with those of another worker, and two that     *)
(* write at once may leave the longer text under the shorter one.          *)
(* JSON.parse throws on an empty or broken file; nothing catches it, the   *)
(* worker process ends, what it was doing is lost and the primary forks a  *)
(* new worker, unless it is leaving.  Ctrl-C kills the workers wherever    *)
(* they are, in the middle of writing the file too, and the server may be  *)
(* started again on what they leave.                                       *)
(*                                                                         *)
(* A client is a browser: it has cookies, a password, and at most one      *)
(* request under way.  The digest of a password stands for itself.         *)
(***************************************************************************)
EXTENDS Naturals

CONSTANTS Workers,     \* the worker processes
          Clients,     \* the browsers; the password of a client is the client
          Users,       \* the names that can be registered
          None,        \* no user, no token, no client
          Empty,       \* the file between its truncation and its filling
          Broken,      \* the file when two texts were written over each other
          Stored,      \* what the file may hold when the server starts
          MaxRequests, \* bound: requests of one client
          MaxStarts    \* bound: how often the server is started again

Kinds == {"register", "login", "logout", "chat"}

(* The token of the n-th request of client b: randomUUID does not repeat.  *)
Tokens == Clients \X (1 .. MaxRequests)

Account == [password : Clients, token : Tokens \cup {None}]
Store   == [Users -> Account \cup {None}]

ASSUME AccountsAssumption ==
    /\ Stored \subseteq [Users -> [password : Clients, token : {None}] \cup {None}]
    /\ MaxRequests \in Nat /\ MaxStarts \in Nat
    /\ None \notin Clients \cup Users \cup Workers \cup Tokens \cup Account
    /\ Empty # Broken /\ Empty \notin Store /\ Broken \notin Store

VARIABLES file,       \* data/user.json
          up,         \* the workers that run
          leaving,    \* the flag of the primary; it stays up when the primary is gone
          starts,     \* how often the server was started again
          busy,       \* busy[w]: the client whose handler worker w runs, or None
          handler,    \* handler[b]: where the handler for client b is, and its variables
          cookie,     \* cookie[b]: the cookies of client b
          count,      \* count[b]: how many requests client b has sent
          raced,      \* history: the requests that were inside set_user with another one
          registered, \* history: <<b, u>>: b was told, without a race, that it has registered u
          revoked,    \* history: the tokens whose logout was answered, without a race
          together,   \* history: {b, c}: they were registering one name at the same time
          cut         \* history: a worker was killed while the file was empty

vars == <<file, up, leaving, starts, busy, handler, cookie, count,
          raced, registered, revoked, together, cut>>

primary == <<up, leaving, starts>>
history == <<raced, registered, revoked, together, cut>>

NoStore  == [u \in Users |-> None]
NoCookie == [user |-> None, token |-> None]

(* u is what user.get has returned, and then the record to be stored; data *)
(* is the content of the file that set_user has read and changed.          *)
Idle == [at |-> "idle", kind |-> "chat", user |-> None, worker |-> None, u |-> None,
         data |-> NoStore]

(* The server starts with accounts that are there already, nobody logged   *)
(* in; it is start, below, that meets the tokens of an earlier run.        *)
Init ==
    /\ file \in Stored
    /\ up = Workers
    /\ leaving = FALSE /\ starts = 0
    /\ busy = [w \in Workers |-> None]
    /\ handler = [b \in Clients |-> Idle]
    /\ cookie = [b \in Clients |-> NoCookie]
    /\ count = [b \in Clients |-> 0]
    /\ raced = {} /\ registered = {} /\ revoked = {} /\ together = {}
    /\ cut = FALSE

At(b)     == handler[b].at
Kind(b)   == handler[b].kind
Worker(b) == handler[b].worker

-----------------------------------------------------------------------------
(* Clients, and the hand-over of a request to a worker.  While the primary *)
(* leaves, a connection that is open still brings requests.                *)

send(b, kind, u, w) ==
    /\ At(b) = "idle"
    /\ w \in up
    /\ count[b] < MaxRequests
    /\ count' = [count EXCEPT ![b] = @ + 1]
    /\ handler' = [handler EXCEPT ![b] =
                      [Idle EXCEPT !.at = "sent", !.kind = kind, !.user = u, !.worker = w]]
    /\ UNCHANGED <<file, primary, busy, cookie, history>>

-----------------------------------------------------------------------------
(* The pieces handlers are made of *)

(* The handler for b runs on, without a pause, until the next await. *)
Runs(b, here) == At(b) = here /\ busy[Worker(b)] = b

Resumes(b, here) == At(b) = here /\ busy[Worker(b)] = None

Goto(b, next, u) ==
    /\ handler' = [handler EXCEPT ![b].at = next, ![b].u = u]
    /\ busy' = [busy EXCEPT ![Worker(b)] = b]

Awaits_blocking(b, next, u) ==
    /\ handler' = [handler EXCEPT ![b].at = next, ![b].u = u]
    /\ busy' = [busy EXCEPT ![Worker(b)] = b]

Awaits(b, next, u) ==
    /\ handler' = [handler EXCEPT ![b].at = next, ![b].u = u]
    /\ busy' = [busy EXCEPT ![Worker(b)] = None]

(* ctx.redirect or ctx.write_...: the answer, with the cookies it sets. *)
Reply(b, c) ==
    /\ handler' = [handler EXCEPT ![b] = Idle]
    /\ busy' = [busy EXCEPT ![Worker(b)] = None]
    /\ cookie' = [cookie EXCEPT ![b] = c]

(* What the file holds, when it can be read (see retrieve_throws). *)
Readable == file \notin {Empty, Broken}

retrieve_nothing == NoStore

retrieve == file

get_user(u) == IF u = None THEN None ELSE retrieve[u]

(* The processes in W end, and the requests they have with them. *)
Crash(W) ==
    /\ up' = up \ W
    /\ busy' = [w \in Workers |-> IF w \in W THEN None ELSE busy[w]]
    /\ handler' = [b \in Clients |-> IF Worker(b) \in W THEN Idle ELSE handler[b]]
    /\ UNCHANGED <<file, starts, cookie, count, raced, registered, revoked, together>>

-----------------------------------------------------------------------------
(* handle: the event loop picks a request; every handler first looks the   *)
(* user of the cookie up.                                                  *)
handle(b) ==
    /\ Resumes(b, "sent")
    /\ Goto(b, "cookie", None)
    /\ UNCHANGED <<file, primary, cookie, count, history>>

(* register and login: a browser whose user exists is sent to /chat; the   *)
(* page itself (GET) or a refused form ends here too.                      *)
enter(b, u) ==
    \/ Reply(b, cookie[b])
    \/ u = None /\ Goto(b, "lookup", None) /\ UNCHANGED cookie

LoggedOut_not(u) == u

LoggedOut(u) == [u EXCEPT !.token = None]

logout(b, u) ==
    IF u # None /\ cookie[b].token = u.token
    THEN Goto(b, "set_user", LoggedOut(u)) /\ UNCHANGED cookie
    ELSE Reply(b, NoCookie)

(* /chat and /chat-status *)
check_token(b, u) ==
    Reply(b, IF u = None \/ cookie[b].token = u.token THEN cookie[b] ELSE NoCookie)

handle_cookie(b) ==
    /\ Runs(b, "cookie")
    /\ Readable
    /\ LET u == get_user(cookie[b].user)
       IN  \/ Kind(b) \in {"register", "login"} /\ enter(b, u)
           \/ Kind(b) = "logout" /\ logout(b, u)
           \/ Kind(b) = "chat" /\ check_token(b, u)
    /\ UNCHANGED <<file, primary, count, history>>

(* The clients that are past the lookup of a name they register. *)
Registering(u) ==
    {c \in Clients : /\ Kind(c) = "register" /\ handler[c].user = u
                     /\ At(c) \in {"digest", "set_user", "truncate", "write"}}

Exists_never(u) == FALSE

Exists(u) == get_user(u) # None

(* user.get(username), then the wait for the digest of the password. *)
register_lookup(b) ==
    /\ Runs(b, "lookup") /\ Kind(b) = "register"
    /\ Readable
    /\ together' = together \cup {{b, c} : c \in Registering(handler[b].user)}
    /\ IF Exists(handler[b].user)
       THEN Reply(b, cookie[b])
       ELSE Awaits(b, "digest", None) /\ UNCHANGED cookie
    /\ UNCHANGED <<file, primary, count, raced, registered, revoked, cut>>

login_lookup(b) ==
    /\ Runs(b, "lookup") /\ Kind(b) = "login"
    /\ Readable
    /\ LET u == get_user(handler[b].user)
       IN  IF u = None
           THEN Reply(b, cookie[b])
           ELSE Awaits(b, "digest", u) /\ UNCHANGED cookie
    /\ UNCHANGED <<file, primary, count, history>>

(* The digest is there. *)
register_digest(b) ==
    /\ Resumes(b, "digest") /\ Kind(b) = "register"
    /\ Goto(b, "set_user", [password |-> b, token |-> None])
    /\ UNCHANGED <<file, primary, cookie, count, history>>

(* login compares it with the password of the record it had found. *)
login_digest(b) ==
    /\ Resumes(b, "digest") /\ Kind(b) = "login"
    /\ IF handler[b].u.password # b
       THEN Reply(b, cookie[b])
       ELSE /\ Goto(b, "set_user", [handler[b].u EXCEPT !.token = <<b, count[b]>>])
            /\ UNCHANGED cookie
    /\ UNCHANGED <<file, primary, count, history>>

-----------------------------------------------------------------------------
(* set_user *)

(* The user it is called for: the one of the form, or of the cookie. *)
Target(b) == IF Kind(b) = "logout" THEN cookie[b].user ELSE handler[b].user

(* Object.assign: the record of register has no token, so one that is      *)
(* there stays.                                                            *)
Assigned(b, old) ==
    IF old # None /\ Kind(b) = "register"
    THEN [handler[b].u EXCEPT !.token = old.token]
    ELSE handler[b].u

Request(b) == <<b, count[b]>>

(* The clients whose handlers are between reading and writing the file. *)
Inside == {b \in Clients : At(b) \in {"truncate", "write"}}

set_user(b) ==
    /\ Runs(b, "set_user")
    /\ Readable
    /\ handler' = [handler EXCEPT
                     ![b].at = "truncate",
                     ![b].data = [retrieve EXCEPT ![Target(b)] = Assigned(b, @)]]
    /\ raced' = raced \cup IF Inside = {} THEN {} ELSE {Request(c) : c \in Inside \cup {b}}
    /\ UNCHANGED <<file, primary, busy, cookie, count, registered, revoked, together, cut>>

persist_truncate_async(b) ==
    /\ Runs(b, "truncate")
    /\ file' = Empty
    /\ Awaits(b, "write", handler[b].u)
    /\ UNCHANGED <<primary, cookie, count, history>>

persist_truncate(b) ==
    /\ Runs(b, "truncate")
    /\ file' = Empty
    /\ Goto(b, "write", handler[b].u)
    /\ UNCHANGED <<primary, cookie, count, history>>

(* The file is filled, over what another worker has written since it was   *)
(* emptied, and the handler answers.                                       *)
persist_write(b) ==
    /\ At(b) = "write"
    /\ file' \in {handler[b].data} \cup IF file = Empty THEN {} ELSE {Broken}
    /\ Reply(b, CASE Kind(b) = "register" -> cookie[b]
                  [] Kind(b) = "login" -> [user |-> handler[b].user, token |-> handler[b].u.token]
                  [] Kind(b) = "logout" -> NoCookie)
    /\ registered' = registered \cup IF Kind(b) = "register" /\ Request(b) \notin raced
                                     THEN {<<b, handler[b].user>>} ELSE {}
    /\ revoked' = revoked \cup IF Kind(b) = "logout" /\ Request(b) \notin raced
                               THEN {cookie[b].token} ELSE {}
    /\ UNCHANGED <<primary, count, raced, together, cut>>

(* Any of the reads may meet the file while another worker is writing it,  *)
(* or broken: the process ends, with all the requests it has.              *)
retrieve_throws(b) ==
    /\ Runs(b, "cookie") \/ Runs(b, "lookup") \/ Runs(b, "set_user")
    /\ ~Readable
    /\ Crash({Worker(b)})
    /\ UNCHANGED <<leaving, cut>>

-----------------------------------------------------------------------------
(* The cluster *)

(* The primary replaces a worker that has exited, unless it is leaving. *)
cluster_fork(w) ==
    /\ ~leaving
    /\ w \notin up
    /\ up' = up \cup {w}
    /\ UNCHANGED <<file, leaving, starts, busy, handler, cookie, count, history>>

(* SIGINT to the primary: cluster.disconnect.  The second one only ends    *)
(* the primary.                                                            *)
sigint ==
    /\ ~leaving
    /\ leaving' = TRUE
    /\ UNCHANGED <<file, up, starts, busy, handler, cookie, count, history>>

(* Ctrl-C at the terminal is SIGINT to all processes, and the workers have *)
(* no handler for it.                                                      *)
ctrl_c ==
    /\ up # {}
    /\ leaving' = TRUE
    /\ cut' = (cut \/ file = Empty)
    /\ Crash(up)

(* A worker that was disconnected exits when it has no request left. *)
worker_exit(w) ==
    /\ leaving /\ w \in up
    /\ \A b \in Clients : Worker(b) # w
    /\ up' = up \ {w}
    /\ UNCHANGED <<file, leaving, starts, busy, handler, cookie, count, history>>

(* The server is started again; the browsers have kept their cookies. *)
start ==
    /\ leaving /\ up = {}
    /\ starts < MaxStarts
    /\ starts' = starts + 1
    /\ leaving' = FALSE /\ up' = Workers
    /\ UNCHANGED <<file, busy, handler, cookie, count, history>>

-----------------------------------------------------------------------------
Handler(b) ==
    \/ handle(b) \/ handle_cookie(b)
    \/ register_lookup(b) \/ login_lookup(b)
    \/ register_digest(b) \/ login_digest(b)
    \/ set_user(b) \/ persist_truncate(b) \/ persist_write(b)
    \/ retrieve_throws(b)

Next ==
    \/ \E b \in Clients, w \in Workers :
          \/ \E kind \in {"register", "login"}, u \in Users : send(b, kind, u, w)
          \/ \E kind \in {"logout", "chat"} : send(b, kind, None, w)
    \/ \E b \in Clients : Handler(b)
    \/ \E w \in Workers : cluster_fork(w) \/ worker_exit(w)
    \/ sigint \/ ctrl_c \/ start

Spec == Init /\ [][Next]_vars

(* A worker that has something to do does it, and its event loop passes    *)
(* over no request for ever: a handler that waits for its worker can go on *)
(* again and again, whenever the worker is free.  Nothing is assumed of    *)
(* forks, signals and starts.                                              *)
FairSpec == Spec /\ \A b \in Clients : SF_vars(Handler(b))

-----------------------------------------------------------------------------
(* Properties *)

HandlerStates ==
    [at : {"idle", "sent", "cookie", "lookup", "digest", "set_user", "truncate", "write"},
     kind : Kinds, user : Users \cup {None}, worker : Workers \cup {None},
     u : Account \cup {None}, data : Store]

(* Every variable has its type, and the handler a worker runs is one that  *)
(* was given to it and is neither waiting nor answered.                    *)
TypeOK ==
    /\ file \in Store \cup {Empty, Broken}
    /\ up \in SUBSET Workers
    /\ leaving \in BOOLEAN /\ starts \in 0 .. MaxStarts
    /\ busy \in [Workers -> Clients \cup {None}]
    /\ handler \in [Clients -> HandlerStates]
    /\ \A b \in Clients : Worker(b) \in up \cup {None}
    /\ cookie \in [Clients -> [user : Users \cup {None}, token : Tokens \cup {None}]]
    /\ count \in [Clients -> 0 .. MaxRequests]
    /\ raced \subseteq Tokens
    /\ registered \subseteq Clients \X Users
    /\ revoked \subseteq Tokens
    /\ \A w \in Workers :
          busy[w] # None => Worker(busy[w]) = w /\ At(busy[w]) \notin {"idle", "sent", "digest"}

(* The file is empty only while a worker is in the middle of persist, or   *)
(* after Ctrl-C has killed one there: no other handler of that worker can  *)
(* meet it so, and a worker that dies reading it never leaves it empty     *)
(* behind.  It is broken only after two workers have been inside set_user  *)
(* at the same time.  What Ctrl-C has cut off stays empty, and all         *)
(* accounts are lost: whoever would write the file reads it first, in a    *)
(* server that was started again too.                                      *)
EmptyWhileWritten ==
    /\ file = Empty => cut \/ \E b \in Clients : At(b) = "write" /\ busy[Worker(b)] = b
    /\ file = Broken => raced # {}
    /\ cut => file = Empty

(* What the file holds, and what workers are about to make of it. *)
Contents ==
    (IF Readable THEN {file} ELSE {}) \cup {handler[b].data : b \in Inside}

(* The accounts are gone: see EmptyWhileWritten. *)
Lost == cut \/ file = Broken

(* An account whose registration was answered is there from then on, in    *)
(* the file and in whatever is about to be written to it, through awaits,  *)
(* crashes of workers, signals and starts, and whatever other requests     *)
(* overwrite one another: whoever writes the file has read it since.  It   *)
(* can only be lost if its own set_user was inside with another one, or    *)
(* with the whole file.                                                    *)
AccountsKept ==
    ~Lost =>
        /\ Contents # {}
        /\ \A s \in Contents, r \in registered : s[r[2]] # None

(* A token whose logout was answered never comes back, although login      *)
(* stores a record it has read before it waited for the digest, other      *)
(* workers overwrite one another's accounts, and a browser keeps its       *)
(* cookies when the server is started again; unless the set_user of the    *)
(* logout was inside with another one.                                     *)
LoggedOutStays ==
    \A s \in Contents, u \in Users : s[u] # None => s[u].token \notin revoked

(* Two clients are told that they have registered the same name only if    *)
(* each was between its lookup of the name and its answer when the other   *)
(* looked it up, or after the account of the first was lost in a race.     *)
OneOwner ==
    \A r, s \in registered : r # s /\ r[2] = s[2] => {r[1], s[1]} \in together

(* Every request is answered, or its connection breaks with its worker: no *)
(* handler waits for ever, for the event loop or for the file, also in a   *)
(* server that is leaving.                                                 *)
Answered == \A b \in Clients : At(b) = "sent" ~> At(b) = "idle"
=============================================================================
