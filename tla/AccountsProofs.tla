--------------------------- MODULE AccountsProofs ---------------------------
(***************************************************************************)
(* Theorems about Accounts, for any number of worker processes, browsers   *)
(* and names.                                                              *)
(*                                                                         *)
(* Three facts carry the proofs.  A worker runs one handler at a time, so  *)
(* a worker that dies reading the file is not the one that emptied it.     *)
(* When Ctrl-C has cut a write off, nobody is left inside set_user and     *)
(* nobody gets there again.  And whoever is about to write the file has    *)
(* read it, so what is to hold of the file is asked of his data too; when  *)
(* a set_user that raced with nobody ends, no such data are left that do   *)
(* not know of it.                                                         *)
(***************************************************************************)
EXTENDS Accounts, TLAPS

Running == {"cookie", "lookup", "set_user", "truncate", "write"}
Storing == {"set_user", "truncate", "write"}
Writing == {"truncate", "write"}

Data(b) == handler[b].data

(* The handler that runs is the one its worker is busy with. *)
OnWorkers ==
    \A b \in Clients :
        /\ At(b) # "idle" => Worker(b) \in Workers
        /\ At(b) \in Running => busy[Worker(b)] = b

(* What a handler knows at each of its places. *)
Knows(b) ==
    /\ At(b) # "idle" => count[b] > 0
    /\ At(b) \in {"lookup", "digest"} => Kind(b) \in {"register", "login"}
    /\ At(b) # "idle" /\ Kind(b) \in {"register", "login"} => handler[b].user \in Users
    /\ At(b) = "digest" /\ Kind(b) = "login" => handler[b].u \in Account
    /\ At(b) \in Storing =>
          /\ handler[b].u \in Account
          /\ \/ Kind(b) = "register" /\ handler[b].u.token = None
             \/ Kind(b) = "login" /\ handler[b].u.token = <<b, count[b]>>
             \/ Kind(b) = "logout" /\ handler[b].u.token = None /\ cookie[b].user \in Users

Forms == \A b \in Clients : Knows(b)

(* After Ctrl-C has cut a write off, nobody writes. *)
CutOff == cut => \A b \in Clients : At(b) \notin Writing

Base == TypeOK /\ OnWorkers /\ Forms /\ EmptyWhileWritten /\ CutOff

(* A token comes out of a request that was answered (or broken off). *)
Issued(t) ==
    t # None => \/ t[2] < count[t[1]]
                \/ t[2] = count[t[1]] /\ At(t[1]) = "idle"

CookieTokens ==
    \A b \in Clients :
        /\ cookie[b].token # None => cookie[b].token[1] = b /\ Issued(cookie[b].token)
        /\ cookie[b].user # None <=> cookie[b].token # None

RevokedOld == \A t \in revoked : t[2] < count[t[1]]

FileTokens ==
    Readable => \A u \in Users : file[u] # None => Issued(file[u].token)

DataTokens ==
    \A b \in Clients : At(b) \in Writing =>
        \A u \in Users : Data(b)[u] # None =>
            \/ Issued(Data(b)[u].token)
            \/ Kind(b) = "login" /\ u = handler[b].user /\ Data(b)[u].token = <<b, count[b]>>

TokensOld == CookieTokens /\ RevokedOld /\ FileTokens /\ DataTokens

(* A request that has not raced is alone inside set_user, and fills the    *)
(* file that it has emptied.                                               *)
Alone ==
    \A b \in Clients : At(b) \in Writing /\ Request(b) \notin raced =>
        /\ \A c \in Clients : At(c) \in Writing => c = b
        /\ At(b) = "write" => file = Empty

(* The accounts of s have all that was registered, and no revoked token;   *)
(* the token of a cookie is at the user of the cookie, if anywhere.        *)
Sound(s) ==
    /\ \A r \in registered : s[r[2]] # None
    /\ \A u \in Users : s[u] # None =>
          /\ s[u].token \notin revoked
          /\ \A b \in Clients :
                s[u].token # None /\ s[u].token = cookie[b].token => u = cookie[b].user

SoundData ==
    \A b \in Clients : At(b) \in Writing =>
        /\ Sound(Data(b))
        /\ Kind(b) = "register" => Data(b)[handler[b].user] # None
        /\ Kind(b) = "logout" =>
              Data(b)[cookie[b].user] # None /\ Data(b)[cookie[b].user].token = None

Owners ==
    \A u \in Users, b \in Clients : b \in Registering(u) =>
        /\ \A c \in Registering(u) : b # c => {b, c} \in together
        /\ \A c \in Clients : <<c, u>> \in registered /\ c # b => {b, c} \in together

Careful == Alone /\ (Readable => Sound(file)) /\ SoundData /\ Owners /\ OneOwner

AccountsInv == Base /\ TokensOld /\ Careful

-----------------------------------------------------------------------------
(* The kinds of steps that neither read the file to change it nor write it *)

(* A handler goes on to its next piece, or to its next await. *)
MoveStep(b, next, u) ==
    /\ At(b) \notin Writing \cup {"idle"} /\ busy[Worker(b)] \in {b, None}
    /\ next \in {"cookie", "lookup", "digest", "set_user"}
    /\ u \in Account \cup {None}
    /\ handler' = [handler EXCEPT ![b].at = next, ![b].u = u]
    /\ busy' = [busy EXCEPT ![Worker(b)] = IF next = "digest" THEN None ELSE b]
    /\ UNCHANGED <<file, up, leaving, starts, cookie, count,
                   registered, revoked, raced, cut>>

(* A handler answers. *)
ReplyStep(b, c) ==
    /\ At(b) \notin Writing \cup {"idle"} /\ busy[Worker(b)] \in {b, None}
    /\ c \in {cookie[b], NoCookie}
    /\ Reply(b, c)
    /\ UNCHANGED <<file, up, leaving, starts, count, registered, revoked, raced, cut>>

LEMMA IdleFacts ==
    /\ Idle \in HandlerStates
    /\ Idle.at = "idle" /\ Idle.kind = "chat" /\ Idle.user = None /\ Idle.worker = None
    /\ NoCookie.user = None /\ NoCookie.token = None
    /\ NoCookie \in [user : Users \cup {None}, token : Tokens \cup {None}]
  BY DEF Idle, HandlerStates, Kinds, NoStore, Store, NoCookie

(* The fields of a handler that moves, and the handlers that do not. *)
LEMMA MoveFacts ==
    ASSUME TypeOK, NEW b \in Clients, NEW next, NEW u,
           handler' = [handler EXCEPT ![b].at = next, ![b].u = u]
    PROVE  /\ At(b)' = next /\ Kind(b)' = Kind(b) /\ Worker(b)' = Worker(b)
           /\ handler'[b].user = handler[b].user /\ handler'[b].u = u
           /\ Data(b)' = Data(b)
           /\ \A c \in Clients : c # b => handler'[c] = handler[c]
           /\ DOMAIN handler' = Clients
  BY DEF TypeOK, HandlerStates, At, Kind, Worker, Data

(* Who is inside persist stays there. *)
LEMMA EmptyStays ==
    ASSUME EmptyWhileWritten, UNCHANGED <<file, cut>>, raced # {} => raced' # {},
           \A c \in Clients : At(c) = "write" /\ busy[Worker(c)] = c =>
               At(c)' = "write" /\ busy'[Worker(c)'] = c
    PROVE  EmptyWhileWritten'
  BY DEF EmptyWhileWritten

LEMMA MoveBase ==
    ASSUME Base, NEW b \in Clients, NEW next, NEW u, MoveStep(b, next, u), Knows(b)'
    PROVE  Base'
  <1> USE AccountsAssumption DEF Base
  <1>0. /\ At(b)' = next /\ Kind(b)' = Kind(b) /\ Worker(b)' = Worker(b)
        /\ handler'[b].user = handler[b].user /\ handler'[b].u = u
        /\ Data(b)' = Data(b)
        /\ \A c \in Clients : c # b => handler'[c] = handler[c]
    BY MoveFacts DEF MoveStep
  <1>1. Worker(b) \in Workers /\ next \notin {"idle", "sent", "write"}
    BY DEF OnWorkers, MoveStep
  <1>2. /\ \A w \in Workers \ {Worker(b)} : busy'[w] = busy[w]
        /\ busy'[Worker(b)] = IF next = "digest" THEN None ELSE b
    BY <1>1 DEF MoveStep, TypeOK
  <1>3. \A c \in Clients : c # b /\ At(c) \in Running => Worker(c) # Worker(b)
    BY DEF OnWorkers, MoveStep
  <1>4. TypeOK'
    <2>1. handler' \in [Clients -> HandlerStates]
      <3>1. handler[b] \in HandlerStates
        BY DEF TypeOK
      <3>2. [handler[b] EXCEPT !.at = next, !.u = u] \in HandlerStates
        BY <3>1 DEF HandlerStates, MoveStep
      <3> QED
        BY <3>2 DEF MoveStep, TypeOK, HandlerStates
    <2>2. \A c \in Clients : Worker(c)' \in up' \cup {None}
      BY <1>0 DEF TypeOK, MoveStep, Worker
    <2>3. busy' \in [Workers -> Clients \cup {None}]
      BY DEF TypeOK, MoveStep
    <2>4. ASSUME NEW w \in Workers, busy'[w] # None
          PROVE  Worker(busy[w])' = w /\ At(busy[w])' \notin {"idle", "sent", "digest"}
      <3>1. CASE w = Worker(b)
        BY <1>0, <1>1, <1>2, <2>4, <3>1
      <3>2. CASE w # Worker(b)
        <4>1. busy'[w] = busy[w] /\ busy[w] # b /\ busy[w] \in Clients
          BY <1>2, <2>4, <3>2 DEF TypeOK
        <4> QED
          BY <1>0, <2>4, <4>1 DEF TypeOK, Worker, At
      <3> QED
        BY <3>1, <3>2
    <2> QED
      BY <2>1, <2>2, <2>3, <2>4 DEF TypeOK, MoveStep
  <1>5. OnWorkers'
    <2> SUFFICES ASSUME NEW c \in Clients
                 PROVE  /\ At(c)' # "idle" => Worker(c)' \in Workers
                        /\ At(c)' \in Running => busy'[Worker(c)'] = c
      BY DEF OnWorkers
    <2>1. CASE c = b
      BY <1>0, <1>1, <1>2, <2>1 DEF Running
    <2>2. CASE c # b
      BY <1>0, <1>2, <1>3, <2>2 DEF OnWorkers, At, Worker, Running
    <2> QED
      BY <2>1, <2>2
  <1>6. Forms'
    <2> SUFFICES ASSUME NEW c \in Clients, c # b PROVE Knows(c)'
      BY DEF Forms
    <2> QED
      BY <1>0 DEF Forms, Knows, MoveStep, At, Kind
  <1>7. EmptyWhileWritten'
    <2>1. ASSUME NEW c \in Clients, At(c) = "write", busy[Worker(c)] = c
          PROVE  At(c)' = "write" /\ busy'[Worker(c)'] = c
      <3>1. c # b /\ Worker(c) # Worker(b) /\ Worker(c) \in Workers
        BY <1>3, <2>1 DEF MoveStep, Writing, Running, OnWorkers
      <3> QED
        BY <1>0, <1>2, <2>1, <3>1 DEF At, Worker
    <2> QED
      BY <2>1, EmptyStays DEF MoveStep
  <1>8. CutOff'
    BY <1>0 DEF CutOff, MoveStep, At, Writing
  <1> QED
    BY <1>4, <1>5, <1>6, <1>7, <1>8

LEMMA ReplyFacts ==
    ASSUME TypeOK, NEW b \in Clients, NEW c, Reply(b, c)
    PROVE  /\ handler'[b] = Idle /\ At(b)' = "idle" /\ Worker(b)' = None /\ cookie'[b] = c
           /\ \A d \in Clients : d # b => handler'[d] = handler[d] /\ cookie'[d] = cookie[d]
           /\ handler' \in [Clients -> HandlerStates]
           /\ c \in [user : Users \cup {None}, token : Tokens \cup {None}] =>
                  cookie' \in [Clients -> [user : Users \cup {None}, token : Tokens \cup {None}]]
  BY IdleFacts DEF TypeOK, Reply, At, Worker

(* The answer of a handler, for the writing ones too: but for the file. *)
LEMMA ReplyWorkers ==
    ASSUME Base, NEW b \in Clients, NEW c, Reply(b, c),
           At(b) # "idle", busy[Worker(b)] \in {b, None},
           c \in [user : Users \cup {None}, token : Tokens \cup {None}],
           UNCHANGED <<up, count>>
    PROVE  /\ busy' \in [Workers -> Clients \cup {None}]
           /\ \A d \in Clients : Worker(d)' \in up' \cup {None}
           /\ \A w \in Workers : busy'[w] # None =>
                 Worker(busy[w])' = w /\ At(busy[w])' \notin {"idle", "sent", "digest"}
           /\ OnWorkers' /\ Forms'
           /\ \A d \in Clients : d # b /\ At(d) \in Running =>
                 At(d)' = At(d) /\ busy'[Worker(d)'] = d
  <1> USE AccountsAssumption DEF Base
  <1>0. /\ At(b)' = "idle" /\ Worker(b)' = None
        /\ \A d \in Clients : d # b => handler'[d] = handler[d] /\ cookie'[d] = cookie[d]
    BY ReplyFacts
  <1>1. Worker(b) \in Workers
    BY DEF OnWorkers
  <1>2. /\ \A w \in Workers \ {Worker(b)} : busy'[w] = busy[w]
        /\ busy'[Worker(b)] = None
    BY <1>1 DEF Reply, TypeOK
  <1>3. \A d \in Clients : d # b /\ At(d) \in Running => Worker(d) # Worker(b)
    BY DEF OnWorkers
  <1>4. busy' \in [Workers -> Clients \cup {None}]
    BY DEF Reply, TypeOK
  <1>5. \A d \in Clients : Worker(d)' \in up' \cup {None}
    BY <1>0 DEF TypeOK, Worker
  <1>6. ASSUME NEW w \in Workers, busy'[w] # None
        PROVE  Worker(busy[w])' = w /\ At(busy[w])' \notin {"idle", "sent", "digest"}
    <2>1. w # Worker(b) /\ busy'[w] = busy[w] /\ busy[w] # b /\ busy[w] \in Clients
      BY <1>2, <1>6 DEF TypeOK
    <2> QED
      BY <1>0, <1>6, <2>1 DEF TypeOK, Worker, At
  <1>7. OnWorkers'
    BY <1>0, <1>2, <1>3 DEF OnWorkers, At, Worker, Running
  <1>8. Forms'
    <2> SUFFICES ASSUME NEW d \in Clients PROVE Knows(d)'
      BY DEF Forms
    <2>1. CASE d = b
      BY <1>0, <2>1 DEF Knows, Storing
    <2>2. CASE d # b
      BY <1>0, <2>2 DEF Forms, Knows, At, Kind
    <2> QED
      BY <2>1, <2>2
  <1>9. \A d \in Clients : d # b /\ At(d) \in Running =>
           At(d)' = At(d) /\ busy'[Worker(d)'] = d
    BY <1>0, <1>2, <1>3 DEF OnWorkers, At, Worker, Running
  <1> QED
    BY <1>4, <1>5, <1>6, <1>7, <1>8, <1>9

LEMMA ReplyBase ==
    ASSUME Base, NEW b \in Clients, NEW c, ReplyStep(b, c)
    PROVE  Base'
  <1> USE DEF Base
  <1>1. /\ c \in [user : Users \cup {None}, token : Tokens \cup {None}]
        /\ At(b) # "idle" /\ busy[Worker(b)] \in {b, None} /\ Reply(b, c)
        /\ UNCHANGED <<file, up, leaving, starts, count, registered, revoked, raced, cut>>
    BY IdleFacts DEF ReplyStep, TypeOK
  <1>2. TypeOK'
    BY <1>1, ReplyFacts, ReplyWorkers DEF TypeOK
  <1>3. EmptyWhileWritten'
    <2>1. \A d \in Clients : At(d) = "write" /\ busy[Worker(d)] = d =>
             At(d)' = "write" /\ busy'[Worker(d)'] = d
      BY <1>1, ReplyWorkers DEF ReplyStep, Writing, Running
    <2> QED
      BY <1>1, <2>1, EmptyStays
  <1>4. CutOff'
    BY <1>1, ReplyFacts DEF CutOff, At, Writing
  <1> QED
    BY <1>1, <1>2, <1>3, <1>4, ReplyWorkers

LEMMA sendBase ==
    ASSUME Base, NEW b \in Clients, NEW kind \in Kinds, NEW u \in Users \cup {None},
           kind \in {"register", "login"} => u \in Users,
           NEW w \in Workers, send(b, kind, u, w)
    PROVE  Base'
  <1> USE AccountsAssumption DEF Base
  <1> DEFINE h == [Idle EXCEPT !.at = "sent", !.kind = kind, !.user = u, !.worker = w]
  <1>0. /\ h \in HandlerStates
        /\ h.at = "sent" /\ h.kind = kind /\ h.user = u /\ h.worker = w
    BY DEF Idle, HandlerStates, NoStore, Store
  <1> HIDE DEF h
  <1>1. /\ handler' = [handler EXCEPT ![b] = h] /\ At(b) = "idle" /\ w \in up
        /\ count' = [count EXCEPT ![b] = @ + 1] /\ count[b] < MaxRequests
        /\ UNCHANGED <<file, up, leaving, starts, busy, cookie, registered,
                       revoked, raced, cut>>
    BY DEF send, h, primary, history
  <1>2. /\ At(b)' = "sent" /\ Kind(b)' = kind /\ Worker(b)' = w /\ handler'[b].user = u
        /\ \A c \in Clients : c # b => handler'[c] = handler[c]
        /\ handler' \in [Clients -> HandlerStates]
    BY <1>0, <1>1 DEF TypeOK, At, Kind, Worker
  <1>3. /\ count' \in [Clients -> 0 .. MaxRequests] /\ count'[b] > 0
        /\ \A c \in Clients : c # b => count'[c] = count[c]
    BY <1>1 DEF TypeOK
  <1>4. \A v \in Workers : busy[v] # b
    BY <1>1 DEF TypeOK
  <1>5. TypeOK'
    <2>1. \A c \in Clients : Worker(c)' \in up' \cup {None}
      BY <1>1, <1>2 DEF TypeOK, Worker
    <2>2. \A v \in Workers : busy'[v] # None =>
             Worker(busy[v])' = v /\ At(busy[v])' \notin {"idle", "sent", "digest"}
      <3> SUFFICES ASSUME NEW v \in Workers, busy[v] # None
                   PROVE  Worker(busy[v])' = v /\ At(busy[v])' \notin {"idle", "sent", "digest"}
        BY <1>1
      <3>1. busy[v] \in Clients \ {b} /\ busy'[v] = busy[v]
        BY <1>1, <1>4 DEF TypeOK
      <3> QED
        BY <1>2, <3>1 DEF TypeOK, Worker, At
    <2> QED
      BY <1>1, <1>2, <1>3, <2>1, <2>2 DEF TypeOK
  <1>6. OnWorkers'
    BY <1>1, <1>2 DEF OnWorkers, At, Worker, Running
  <1>7. Forms'
    <2> SUFFICES ASSUME NEW c \in Clients PROVE Knows(c)'
      BY DEF Forms
    <2>1. CASE c = b
      BY <1>2, <1>3, <2>1 DEF Knows, Storing
    <2>2. CASE c # b
      BY <1>1, <1>2, <1>3, <2>2 DEF Forms, Knows, At, Kind
    <2> QED
      BY <2>1, <2>2
  <1>8. EmptyWhileWritten'
    BY <1>1, <1>2, EmptyStays DEF At, Worker
  <1>9. CutOff'
    BY <1>1, <1>2 DEF CutOff, At, Writing
  <1> QED
    BY <1>5, <1>6, <1>7, <1>8, <1>9

(* The end of some workers: the handlers of the others go on. *)
LEMMA CrashFacts ==
    ASSUME Base, NEW W \in SUBSET Workers, Crash(W), leaving' \in BOOLEAN
    PROVE  /\ TypeOK' /\ OnWorkers' /\ Forms'
           /\ \A c \in Clients : IF Worker(c) \in W THEN At(c)' = "idle"
                                 ELSE At(c)' = At(c) /\ Worker(c)' = Worker(c)
           /\ \A w \in Workers : w \notin W => busy'[w] = busy[w]
           /\ UNCHANGED <<file, raced>>
  <1> USE AccountsAssumption DEF Base
  <1>0. /\ up' = up \ W
        /\ busy' = [w \in Workers |-> IF w \in W THEN None ELSE busy[w]]
        /\ handler' = [c \in Clients |-> IF Worker(c) \in W THEN Idle ELSE handler[c]]
        /\ UNCHANGED <<file, starts, cookie, count, registered, revoked, raced>>
    BY DEF Crash
  <1>1. /\ \A c \in Clients : Worker(c) \notin W => handler'[c] = handler[c]
        /\ \A c \in Clients : Worker(c) \in W => At(c)' = "idle" /\ Worker(c)' = None
        /\ handler' \in [Clients -> HandlerStates]
    BY <1>0, IdleFacts DEF TypeOK, At, Worker
  <1>2. /\ busy' \in [Workers -> Clients \cup {None}]
        /\ \A w \in Workers : busy'[w] = IF w \in W THEN None ELSE busy[w]
    BY <1>0 DEF TypeOK
  <1>3. TypeOK'
    <2>1. \A c \in Clients : Worker(c)' \in up' \cup {None}
      BY <1>0, <1>1 DEF TypeOK, Worker
    <2>2. ASSUME NEW w \in Workers, busy'[w] # None
          PROVE  Worker(busy[w])' = w /\ At(busy[w])' \notin {"idle", "sent", "digest"}
      <3>1. w \notin W /\ busy'[w] = busy[w] /\ busy[w] \in Clients /\ Worker(busy[w]) = w
        BY <1>2, <2>2 DEF TypeOK
      <3> QED
        BY <1>1, <3>1, <2>2 DEF TypeOK, Worker, At
    <2>3. up' \in SUBSET Workers
      BY <1>0 DEF TypeOK
    <2> QED
      BY <1>0, <1>1, <1>2, <2>1, <2>2, <2>3 DEF TypeOK
  <1>4. OnWorkers'
    BY <1>1, <1>2 DEF OnWorkers, At, Worker, Running
  <1>5. Forms'
    <2> SUFFICES ASSUME NEW c \in Clients PROVE Knows(c)'
      BY DEF Forms
    <2>1. CASE Worker(c) \in W
      BY <1>1, <2>1 DEF Knows, Storing
    <2>2. CASE Worker(c) \notin W
      BY <1>0, <1>1, <2>2 DEF Forms, Knows, At, Kind
    <2> QED
      BY <2>1, <2>2
  <1> QED
    BY <1>0, <1>1, <1>2, <1>3, <1>4, <1>5 DEF At, Worker

(* The worker that dies reading runs another handler than one in persist. *)
LEMMA throwsBase ==
    ASSUME Base, NEW b \in Clients, retrieve_throws(b)
    PROVE  Base'
  <1> USE DEF Base
  <1>1. /\ At(b) \in {"cookie", "lookup", "set_user"} /\ busy[Worker(b)] = b
        /\ Crash({Worker(b)}) /\ UNCHANGED <<leaving, cut>>
    BY DEF retrieve_throws, Runs
  <1>2. {Worker(b)} \in SUBSET Workers /\ leaving' \in BOOLEAN
    BY <1>1 DEF OnWorkers, TypeOK
  <1>3. /\ TypeOK' /\ OnWorkers' /\ Forms'
        /\ \A c \in Clients : IF Worker(c) = Worker(b) THEN At(c)' = "idle"
                              ELSE At(c)' = At(c) /\ Worker(c)' = Worker(c)
        /\ \A w \in Workers : w # Worker(b) => busy'[w] = busy[w]
        /\ UNCHANGED <<file, raced>>
    BY <1>1, <1>2, CrashFacts
  <1>4. EmptyWhileWritten'
    <2>1. ASSUME NEW c \in Clients, At(c) = "write", busy[Worker(c)] = c
          PROVE  At(c)' = "write" /\ busy'[Worker(c)'] = c
      <3>1. Worker(c) # Worker(b) /\ Worker(c) \in Workers
        BY <1>1, <2>1 DEF OnWorkers
      <3> QED
        BY <1>3, <2>1, <3>1
    <2> QED
      BY <1>1, <1>3, <2>1, EmptyStays
  <1>5. CutOff'
    BY <1>1, <1>3 DEF CutOff, Writing
  <1> QED
    BY <1>3, <1>4, <1>5

(* Ctrl-C leaves nobody inside persist; if it came in the middle of one it *)
(* is noted.                                                               *)
LEMMA ctrl_cBase ==
    ASSUME Base, ctrl_c
    PROVE  Base'
  <1> USE AccountsAssumption DEF Base
  <1>1. Crash(up) /\ leaving' = TRUE /\ cut' = (cut \/ file = Empty)
    BY DEF ctrl_c
  <1>2. up \in SUBSET Workers
    BY DEF TypeOK
  <1>3. /\ TypeOK' /\ OnWorkers' /\ Forms'
        /\ \A c \in Clients : IF Worker(c) \in up THEN At(c)' = "idle"
                              ELSE At(c)' = At(c) /\ Worker(c)' = Worker(c)
        /\ UNCHANGED <<file, raced>>
    BY <1>1, <1>2, CrashFacts
  <1>4. \A c \in Clients : At(c)' = "idle"
    BY <1>3 DEF TypeOK, OnWorkers
  <1>5. EmptyWhileWritten'
    BY <1>1, <1>3 DEF EmptyWhileWritten
  <1>6. CutOff'
    BY <1>4 DEF CutOff, Writing
  <1> QED
    BY <1>3, <1>5, <1>6

(* What only the primary and its workers take part in. *)
ClusterStep ==
    \/ \E w \in Workers : cluster_fork(w) \/ worker_exit(w)
    \/ sigint \/ start

LEMMA ClusterBase ==
    ASSUME Base, ClusterStep
    PROVE  Base'
  <1> USE AccountsAssumption DEF Base
  <1>1. /\ up' \in SUBSET Workers /\ leaving' \in BOOLEAN /\ starts' \in 0 .. MaxStarts
        /\ \A c \in Clients : Worker(c) \in up' \cup {None}
        /\ UNCHANGED <<file, busy, handler, cookie, count, registered, revoked, raced, cut>>
    <2>1. CASE \E w \in Workers : cluster_fork(w)
      BY <2>1 DEF cluster_fork, history, TypeOK
    <2>2. CASE \E w \in Workers : worker_exit(w)
      BY <2>2 DEF worker_exit, history, TypeOK
    <2>3. CASE sigint
      BY <2>3 DEF sigint, history, TypeOK
    <2>4. CASE start
      <3>0. starts' = starts + 1 /\ starts < MaxStarts /\ starts \in 0 .. MaxStarts
        BY <2>4 DEF start, TypeOK
      <3>1. starts' \in 0 .. MaxStarts
        BY <3>0
      <3>3. leaving' \in BOOLEAN
        BY <2>4 DEF start
      <3>2. \A c \in Clients : Worker(c) = None
        BY <2>4 DEF start, TypeOK
      <3> QED
        BY <2>4, <3>1, <3>2, <3>3 DEF start, history
    <2> QED
      BY <2>1, <2>2, <2>3, <2>4 DEF ClusterStep
  <1>2. TypeOK'
    BY <1>1 DEF TypeOK, At, Worker
  <1> QED
    BY <1>1, <1>2
       DEF OnWorkers, Forms, Knows, EmptyWhileWritten, CutOff, At, Kind, Worker

-----------------------------------------------------------------------------
(* set_user and persist *)

(* A readable file is a store. *)
LEMMA ReadableStore == ASSUME TypeOK, Readable PROVE file \in Store
  BY DEF TypeOK, Readable

LEMMA get_userFacts ==
    ASSUME TypeOK, Readable, NEW u \in Users \cup {None}
    PROVE  /\ get_user(u) \in Account \cup {None}
           /\ get_user(u) # None => u \in Users /\ get_user(u) = file[u]
           /\ u \in Users => get_user(u) = file[u]
  BY ReadableStore, AccountsAssumption DEF get_user, retrieve, Store

(* What set_user is about to write: the file with one record changed. *)
LEMMA set_userFacts ==
    ASSUME Base, NEW b \in Clients, set_user(b)
    PROVE  /\ At(b) = "set_user" /\ busy[Worker(b)] = b /\ file \in Store /\ Readable
           /\ At(b)' = "truncate" /\ Kind(b)' = Kind(b) /\ Worker(b)' = Worker(b)
           /\ handler'[b].user = handler[b].user /\ handler'[b].u = handler[b].u
           /\ \A c \in Clients : c # b => handler'[c] = handler[c]
           /\ handler' \in [Clients -> HandlerStates]
           /\ Target(b) \in Users /\ Assigned(b, file[Target(b)]) \in Account
           /\ Data(b)' = [file EXCEPT ![Target(b)] = Assigned(b, file[Target(b)])]
           /\ UNCHANGED <<file, up, leaving, starts, busy, cookie, count,
                          registered, revoked, together, cut>>
  <1> USE DEF Base
  <1>1. /\ At(b) = "set_user" /\ busy[Worker(b)] = b /\ file \in Store /\ Readable
        /\ UNCHANGED <<file, up, leaving, starts, busy, cookie, count,
                       registered, revoked, together, cut>>
    BY ReadableStore DEF set_user, Runs, primary
  <1>2. Target(b) \in Users
    BY <1>1 DEF Forms, Knows, Storing, Target
  <1>3. Assigned(b, file[Target(b)]) \in Account
    <2>1. handler[b].u \in Account /\ file[Target(b)] \in Account \cup {None}
      BY <1>1, <1>2 DEF Forms, Knows, Storing, Store
    <2> QED
      BY <2>1 DEF Assigned, Account
  <1> DEFINE new == [file EXCEPT ![Target(b)] = Assigned(b, file[Target(b)])]
  <1>4. new \in Store
    BY <1>1, <1>2, <1>3 DEF Store
  <1>5. handler' = [handler EXCEPT ![b].at = "truncate", ![b].data = new]
    BY DEF set_user, retrieve
  <1> HIDE DEF new
  <1>6. /\ At(b)' = "truncate" /\ Kind(b)' = Kind(b) /\ Worker(b)' = Worker(b)
        /\ handler'[b].user = handler[b].user /\ handler'[b].u = handler[b].u
        /\ Data(b)' = new
        /\ \A c \in Clients : c # b => handler'[c] = handler[c]
    BY <1>5 DEF TypeOK, HandlerStates, At, Kind, Worker, Data
  <1>7. handler' \in [Clients -> HandlerStates]
    <2>1. handler[b] \in HandlerStates
      BY DEF TypeOK
    <2>2. [handler[b] EXCEPT !.at = "truncate", !.data = new] \in HandlerStates
      BY <1>4, <2>1 DEF HandlerStates
    <2> QED
      BY <1>5, <2>2 DEF TypeOK, HandlerStates
  <1> QED
    BY <1>1, <1>2, <1>3, <1>6, <1>7 DEF new

LEMMA set_userBase ==
    ASSUME Base, NEW b \in Clients, set_user(b)
    PROVE  Base'
  <1> USE DEF Base
  <1>1. /\ At(b) = "set_user" /\ busy[Worker(b)] = b
        /\ At(b)' = "truncate" /\ Kind(b)' = Kind(b) /\ Worker(b)' = Worker(b)
        /\ handler'[b].user = handler[b].user /\ handler'[b].u = handler[b].u
        /\ \A c \in Clients : c # b => handler'[c] = handler[c]
        /\ handler' \in [Clients -> HandlerStates]
        /\ UNCHANGED <<file, up, leaving, starts, busy, cookie, count,
                       registered, revoked, together, cut>>
    BY set_userFacts
  <1>2. TypeOK'
    <2>1. \A c \in Clients : Worker(c)' \in up' \cup {None}
      BY <1>1 DEF TypeOK, Worker
    <2>2. \A w \in Workers : busy'[w] # None =>
             Worker(busy[w])' = w /\ At(busy[w])' \notin {"idle", "sent", "digest"}
      <3> SUFFICES ASSUME NEW w \in Workers, busy[w] # None
                   PROVE  Worker(busy[w])' = w /\ At(busy[w])' \notin {"idle", "sent", "digest"}
        BY <1>1
      <3>1. busy[w] \in Clients /\ busy'[w] = busy[w]
        BY <1>1 DEF TypeOK
      <3>2. CASE busy[w] = b
        BY <1>1, <3>1, <3>2 DEF TypeOK
      <3>3. CASE busy[w] # b
        BY <1>1, <3>1, <3>3 DEF TypeOK, Worker, At
      <3> QED
        BY <3>2, <3>3
    <2>3. raced' \subseteq Tokens
      <3>1. ASSUME NEW c \in Inside \cup {b} PROVE Request(c) \in Tokens
        <4>1. c \in Clients /\ At(c) # "idle"
          BY <1>1 DEF Inside
        <4>2. count[c] \in 0 .. MaxRequests /\ count[c] > 0
          BY <4>1 DEF TypeOK, Forms, Knows
        <4>3. count[c] \in 1 .. MaxRequests
          BY <4>2, AccountsAssumption
        <4> QED
          BY <4>1, <4>3 DEF Request, Tokens
      <3>2. raced' \subseteq raced \cup {Request(c) : c \in Inside \cup {b}}
        BY DEF set_user
      <3> QED
        BY <3>1, <3>2 DEF TypeOK
    <2> QED
      BY <1>1, <2>1, <2>2, <2>3 DEF TypeOK
  <1>3. OnWorkers'
    BY <1>1 DEF OnWorkers, At, Worker, Running
  <1>4. Forms'
    <2> SUFFICES ASSUME NEW c \in Clients PROVE Knows(c)'
      BY DEF Forms
    <2>1. CASE c = b
      BY <1>1, <2>1 DEF Forms, Knows, Storing
    <2>2. CASE c # b
      BY <1>1, <2>2 DEF Forms, Knows, At, Kind
    <2> QED
      BY <2>1, <2>2
  <1>5. EmptyWhileWritten'
    <2>1. raced # {} => raced' # {}
      BY DEF set_user
    <2>2. \A c \in Clients : At(c) = "write" /\ busy[Worker(c)] = c =>
             At(c)' = "write" /\ busy'[Worker(c)'] = c
      BY <1>1 DEF At, Worker
    <2> QED
      BY <1>1, <2>1, <2>2, EmptyStays
  <1>6. CutOff'
    <2>1. Readable
      BY set_userFacts
    <2> QED
      BY <1>1, <2>1 DEF CutOff, EmptyWhileWritten, Readable
  <1> QED
    BY <1>2, <1>3, <1>4, <1>5, <1>6

LEMMA truncateFacts ==
    ASSUME TypeOK, NEW b \in Clients, persist_truncate(b)
    PROVE  /\ At(b) = "truncate" /\ busy[Worker(b)] = b /\ file' = Empty
           /\ At(b)' = "write" /\ Kind(b)' = Kind(b) /\ Worker(b)' = Worker(b)
           /\ handler'[b].user = handler[b].user /\ handler'[b].u = handler[b].u
           /\ Data(b)' = Data(b)
           /\ \A c \in Clients : c # b => handler'[c] = handler[c]
           /\ UNCHANGED <<up, leaving, starts, cookie, count,
                          registered, revoked, together, raced, cut>>
           /\ busy' = busy
  <1>1. /\ At(b) = "truncate" /\ busy[Worker(b)] = b /\ file' = Empty
        /\ handler' = [handler EXCEPT ![b].at = "write", ![b].u = handler[b].u]
        /\ busy' = [busy EXCEPT ![Worker(b)] = b]
        /\ UNCHANGED <<up, leaving, starts, cookie, count,
                       registered, revoked, together, raced, cut>>
    BY DEF persist_truncate, Runs, Goto, primary, history
  <1>2. busy' = busy
    BY <1>1 DEF TypeOK
  <1> QED
    BY <1>1, <1>2, MoveFacts

LEMMA truncateBase ==
    ASSUME Base, NEW b \in Clients, persist_truncate(b)
    PROVE  Base'
  <1> USE DEF Base
  <1>1. /\ At(b) = "truncate" /\ busy[Worker(b)] = b /\ file' = Empty
        /\ At(b)' = "write" /\ Kind(b)' = Kind(b) /\ Worker(b)' = Worker(b)
        /\ handler'[b].user = handler[b].user /\ handler'[b].u = handler[b].u
        /\ \A c \in Clients : c # b => handler'[c] = handler[c]
        /\ UNCHANGED <<up, leaving, starts, cookie, count,
                       registered, revoked, together, raced, cut>>
        /\ busy' = busy
    BY truncateFacts
  <1>2. TypeOK'
    <2>1. \A c \in Clients : Worker(c)' \in up' \cup {None}
      BY <1>1 DEF TypeOK, Worker
    <2>2. \A w \in Workers : busy'[w] # None =>
             Worker(busy[w])' = w /\ At(busy[w])' \notin {"idle", "sent", "digest"}
      <3> SUFFICES ASSUME NEW w \in Workers, busy[w] # None
                   PROVE  Worker(busy[w])' = w /\ At(busy[w])' \notin {"idle", "sent", "digest"}
        BY <1>1
      <3>1. busy[w] \in Clients /\ busy'[w] = busy[w]
        BY <1>1 DEF TypeOK
      <3>2. CASE busy[w] = b
        BY <1>1, <3>1, <3>2 DEF TypeOK
      <3>3. CASE busy[w] # b
        BY <1>1, <3>1, <3>3 DEF TypeOK, Worker, At
      <3> QED
        BY <3>2, <3>3
    <2>3. handler' \in [Clients -> HandlerStates]
      <3>1. handler' = [handler EXCEPT ![b].at = "write", ![b].u = handler[b].u]
        BY DEF persist_truncate, Goto
      <3>2. handler[b] \in HandlerStates
        BY DEF TypeOK
      <3>3. [handler[b] EXCEPT !.at = "write", !.u = handler[b].u] \in HandlerStates
        BY <3>2 DEF HandlerStates
      <3> QED
        BY <3>1, <3>3 DEF TypeOK, HandlerStates
    <2> QED
      BY <1>1, <2>1, <2>2, <2>3 DEF TypeOK
  <1>3. OnWorkers'
    BY <1>1 DEF OnWorkers, At, Worker, Running
  <1>4. Forms'
    <2> SUFFICES ASSUME NEW c \in Clients PROVE Knows(c)'
      BY DEF Forms
    <2>1. CASE c = b
      BY <1>1, <2>1 DEF Forms, Knows, Storing
    <2>2. CASE c # b
      BY <1>1, <2>2 DEF Forms, Knows, At, Kind
    <2> QED
      BY <2>1, <2>2
  <1>5. EmptyWhileWritten'
    BY <1>1, AccountsAssumption DEF EmptyWhileWritten, At, Worker
  <1>6. CutOff'
    BY <1>1 DEF CutOff, Writing
  <1> QED
    BY <1>2, <1>3, <1>4, <1>5, <1>6

(* persist_write answers: which cookies, and what the file may become. *)
LEMMA writeFacts ==
    ASSUME Base, NEW b \in Clients, persist_write(b)
    PROVE  \E c \in [user : Users \cup {None}, token : Tokens \cup {None}] :
              /\ Reply(b, c)
              /\ \/ Kind(b) = "register" /\ c = cookie[b]
                 \/ Kind(b) = "login" /\ c.user = handler[b].user /\ c.token = <<b, count[b]>>
                 \/ Kind(b) = "logout" /\ c = NoCookie
              /\ At(b) = "write" /\ busy[Worker(b)] = b
              /\ file' = Data(b) \/ (file' = Broken /\ file # Empty)
              /\ registered' = registered \cup IF Kind(b) = "register" /\ Request(b) \notin raced
                                               THEN {<<b, handler[b].user>>} ELSE {}
              /\ revoked' = revoked \cup IF Kind(b) = "logout" /\ Request(b) \notin raced
                                         THEN {cookie[b].token} ELSE {}
              /\ UNCHANGED <<up, leaving, starts, count, together, raced, cut>>
  <1> USE DEF Base
  <1> DEFINE c == CASE Kind(b) = "register" -> cookie[b]
                    [] Kind(b) = "login" -> [user |-> handler[b].user, token |-> handler[b].u.token]
                    [] Kind(b) = "logout" -> NoCookie
  <1>1. /\ At(b) = "write" /\ Reply(b, c)
        /\ file' \in {handler[b].data} \cup IF file = Empty THEN {} ELSE {Broken}
        /\ registered' = registered \cup IF Kind(b) = "register" /\ Request(b) \notin raced
                                         THEN {<<b, handler[b].user>>} ELSE {}
        /\ revoked' = revoked \cup IF Kind(b) = "logout" /\ Request(b) \notin raced
                                   THEN {cookie[b].token} ELSE {}
        /\ UNCHANGED <<up, leaving, starts, count, together, raced, cut>>
    BY DEF persist_write, primary
  <1>2. busy[Worker(b)] = b
    BY <1>1 DEF OnWorkers, Running
  <1>3. \/ Kind(b) = "register" /\ handler[b].user \in Users
        \/ /\ Kind(b) = "login" /\ handler[b].user \in Users
           /\ handler[b].u.token = <<b, count[b]>> /\ <<b, count[b]>> \in Tokens
        \/ Kind(b) = "logout"
    <2>1. At(b) \in Storing /\ At(b) # "idle"
      BY <1>1 DEF Storing
    <2>2. count[b] > 0 /\ count[b] \in 0 .. MaxRequests
      BY <2>1 DEF TypeOK, Forms, Knows
    <2>3. count[b] \in 1 .. MaxRequests
      BY <2>2, AccountsAssumption
    <2> QED
      BY <2>1, <2>3 DEF Forms, Knows, Tokens
  <1>4. \/ Kind(b) = "register" /\ c = cookie[b]
        \/ Kind(b) = "login" /\ c.user = handler[b].user /\ c.token = <<b, count[b]>>
        \/ Kind(b) = "logout" /\ c = NoCookie
    BY <1>3
  <1>5. c \in [user : Users \cup {None}, token : Tokens \cup {None}]
    BY <1>3, IdleFacts DEF TypeOK
  <1> HIDE DEF c
  <1>6. file' = Data(b) \/ (file' = Broken /\ file # Empty)
    BY <1>1 DEF Data
  <1> QED
    BY <1>1, <1>2, <1>4, <1>5, <1>6

LEMMA DataStore == ASSUME TypeOK, NEW b \in Clients PROVE Data(b) \in Store
  <1>1. handler[b] \in HandlerStates
    BY DEF TypeOK
  <1> QED
    BY <1>1 DEF Data, HandlerStates

LEMMA writeBase ==
    ASSUME AccountsInv, NEW b \in Clients, persist_write(b)
    PROVE  Base'
  <1> USE AccountsAssumption DEF AccountsInv, Base
  <1>1. PICK c \in [user : Users \cup {None}, token : Tokens \cup {None}] :
              /\ Reply(b, c)
              /\ \/ Kind(b) = "register" /\ c = cookie[b]
                 \/ Kind(b) = "login" /\ c.user = handler[b].user /\ c.token = <<b, count[b]>>
                 \/ Kind(b) = "logout" /\ c = NoCookie
              /\ At(b) = "write" /\ busy[Worker(b)] = b
              /\ file' = Data(b) \/ (file' = Broken /\ file # Empty)
              /\ registered' = registered \cup IF Kind(b) = "register" /\ Request(b) \notin raced
                                               THEN {<<b, handler[b].user>>} ELSE {}
              /\ revoked' = revoked \cup IF Kind(b) = "logout" /\ Request(b) \notin raced
                                         THEN {cookie[b].token} ELSE {}
              /\ UNCHANGED <<up, leaving, starts, count, together, raced, cut>>
    BY writeFacts
  <1>2. /\ busy' \in [Workers -> Clients \cup {None}]
        /\ \A d \in Clients : Worker(d)' \in up' \cup {None}
        /\ \A w \in Workers : busy'[w] # None =>
              Worker(busy[w])' = w /\ At(busy[w])' \notin {"idle", "sent", "digest"}
        /\ OnWorkers' /\ Forms'
    BY <1>1, ReplyWorkers
  <1>3. /\ handler' \in [Clients -> HandlerStates]
        /\ cookie' \in [Clients -> [user : Users \cup {None}, token : Tokens \cup {None}]]
    BY <1>1, ReplyFacts
  <1>4. Data(b) \in Store /\ Data(b) # Empty /\ Data(b) # Broken
    BY DataStore
  <1>5. registered' \subseteq Clients \X Users
    BY <1>1 DEF TypeOK, Forms, Knows
  <1>6. revoked' \subseteq Tokens
    <2>1. Kind(b) = "logout" => cookie[b].user \in Users
      BY <1>1 DEF Forms, Knows, Storing
    <2>2. Kind(b) = "logout" => cookie[b].token \in Tokens
      BY <2>1 DEF TokensOld, CookieTokens, TypeOK
    <2> QED
      BY <1>1, <2>2 DEF TypeOK
  <1>7. TypeOK'
    BY <1>1, <1>2, <1>3, <1>4, <1>5, <1>6 DEF TypeOK
  <1>8. EmptyWhileWritten'
    <2>1. raced = {} => file = Empty
      BY <1>1 DEF Careful, Alone, Writing
    <2>2. ~cut
      BY <1>1 DEF CutOff, Writing
    <2> QED
      BY <1>1, <1>4, <2>1, <2>2 DEF EmptyWhileWritten
  <1>9. CutOff'
    BY <1>1 DEF CutOff, Writing
  <1> QED
    BY <1>2, <1>7, <1>8, <1>9

-----------------------------------------------------------------------------
(* The kinds of the other steps of a handler *)

LEMMA MoveKnows ==
    ASSUME Base, NEW b \in Clients, NEW next, NEW u, MoveStep(b, next, u),
           next \in {"lookup", "digest"} => Kind(b) \in {"register", "login"},
           next = "digest" /\ Kind(b) = "login" => u \in Account,
           next = "set_user" =>
              /\ u \in Account
              /\ \/ Kind(b) = "register" /\ u.token = None
                 \/ Kind(b) = "login" /\ u.token = <<b, count[b]>>
                 \/ Kind(b) = "logout" /\ u.token = None /\ cookie[b].user \in Users
    PROVE  Knows(b)'
  <1>1. /\ At(b)' = next /\ Kind(b)' = Kind(b)
        /\ handler'[b].user = handler[b].user /\ handler'[b].u = u
        /\ UNCHANGED <<cookie, count>>
    BY MoveFacts DEF MoveStep, Base
  <1>2. Knows(b) /\ At(b) # "idle" /\ next \notin Writing
    BY DEF Base, Forms, MoveStep, Writing
  <1> QED
    BY <1>1, <1>2 DEF Knows, Storing, Writing

LEMMA HandlerKinds ==
    ASSUME Base, NEW b \in Clients,
           \/ handle(b) \/ handle_cookie(b) \/ register_lookup(b) \/ login_lookup(b)
           \/ register_digest(b) \/ login_digest(b)
    PROVE  \/ \E next, u : MoveStep(b, next, u) /\ Knows(b)'
           \/ \E c : ReplyStep(b, c)
  <1> USE AccountsAssumption DEF Base
  <1>0. handler[b] \in HandlerStates /\ Knows(b)
    BY DEF TypeOK, Forms
  <1>1. CASE handle(b)
    <2>1. MoveStep(b, "cookie", None)
      BY <1>1 DEF handle, Resumes, Goto, MoveStep, Writing, primary, history
    <2>2. Knows(b)'
      BY <1>0, <1>1, <2>1, MoveKnows
    <2> QED
      BY <2>1, <2>2
  <1>2. CASE handle_cookie(b)
    <2> DEFINE v == get_user(cookie[b].user)
    <2>1. /\ Runs(b, "cookie") /\ Readable
          /\ \/ Kind(b) \in {"register", "login"} /\ enter(b, v)
             \/ Kind(b) = "logout" /\ logout(b, v)
             \/ Kind(b) = "chat" /\ check_token(b, v)
          /\ UNCHANGED <<file, up, leaving, starts, count, registered, revoked, raced, cut>>
      BY <1>2 DEF handle_cookie, primary, history
    <2>2. v \in Account \cup {None} /\ (v # None => cookie[b].user \in Users)
      BY <2>1, get_userFacts DEF TypeOK
    <2>3. ASSUME NEW c \in {cookie[b], NoCookie}, Reply(b, c)
          PROVE  ReplyStep(b, c)
      BY <2>1, <2>3 DEF ReplyStep, Runs, Writing
    <2>4. CASE Kind(b) \in {"register", "login"} /\ enter(b, v)
      <3>1. CASE Reply(b, cookie[b])
        BY <2>3, <3>1
      <3>2. CASE Goto(b, "lookup", None) /\ UNCHANGED cookie
        <4>1. MoveStep(b, "lookup", None)
          BY <2>1, <3>2 DEF MoveStep, Runs, Goto, Writing
        <4>2. Knows(b)'
          BY <1>0, <2>1, <2>4, <4>1, MoveKnows
        <4> QED
          BY <4>1, <4>2
      <3> QED
        BY <2>4, <3>1, <3>2 DEF enter
    <2>5. CASE Kind(b) = "logout" /\ logout(b, v)
      <3>1. CASE Reply(b, NoCookie)
        BY <2>3, <3>1
      <3>2. CASE v # None /\ Goto(b, "set_user", LoggedOut(v)) /\ UNCHANGED cookie
        <4>1. LoggedOut(v) \in Account /\ LoggedOut(v).token = None
          BY <2>2, <3>2 DEF LoggedOut, Account
        <4>2. MoveStep(b, "set_user", LoggedOut(v))
          BY <2>1, <3>2, <4>1 DEF MoveStep, Runs, Goto, Writing
        <4>3. Knows(b)'
          BY <1>0, <2>1, <2>2, <2>5, <3>2, <4>1, <4>2, MoveKnows
        <4> QED
          BY <4>2, <4>3
      <3> QED
        BY <2>5, <3>1, <3>2 DEF logout
    <2>6. CASE Kind(b) = "chat" /\ check_token(b, v)
      BY <2>3, <2>6 DEF check_token
    <2> QED
      BY <2>1, <2>4, <2>5, <2>6
  <1>3. CASE register_lookup(b) \/ login_lookup(b)
    <2>1. /\ Runs(b, "lookup") /\ Readable
          /\ UNCHANGED <<file, up, leaving, starts, count, registered, revoked, raced, cut>>
      BY <1>3 DEF register_lookup, login_lookup, primary, history
    <2>2. CASE Reply(b, cookie[b])
      BY <2>1, <2>2 DEF ReplyStep, Runs, Writing
    <2>3. ASSUME NEW u \in Account \cup {None}, Kind(b) = "login" => u \in Account,
                 Awaits(b, "digest", u), UNCHANGED cookie
          PROVE  MoveStep(b, "digest", u) /\ Knows(b)'
      <3>1. MoveStep(b, "digest", u)
        BY <2>1, <2>3 DEF MoveStep, Runs, Awaits, Writing
      <3>2. Knows(b)'
        BY <1>0, <2>1, <2>3, <3>1, MoveKnows DEF Knows, Runs
      <3> QED
        BY <3>1, <3>2
    <2>4. CASE register_lookup(b)
      BY <2>2, <2>3, <2>4 DEF register_lookup
    <2>5. CASE login_lookup(b)
      <3>1. get_user(handler[b].user) \in Account \cup {None}
        BY <1>0, <2>1, get_userFacts DEF HandlerStates
      <3> QED
        BY <2>2, <2>3, <2>5, <3>1 DEF login_lookup
    <2> QED
      BY <1>3, <2>4, <2>5
  <1>4. CASE register_digest(b)
    <2> DEFINE v == [password |-> b, token |-> None]
    <2>1. v \in Account /\ v.token = None
      BY DEF Account
    <2> HIDE DEF v
    <2>2. MoveStep(b, "set_user", v)
      BY <1>4, <2>1 DEF register_digest, MoveStep, Resumes, Goto, Writing, primary, history, v
    <2>3. Knows(b)'
      BY <1>0, <1>4, <2>1, <2>2, MoveKnows DEF register_digest
    <2> QED
      BY <2>2, <2>3
  <1>5. CASE login_digest(b)
    <2>1. /\ Resumes(b, "digest") /\ Kind(b) = "login"
          /\ UNCHANGED <<file, up, leaving, starts, count, registered, revoked, raced, cut>>
      BY <1>5 DEF login_digest, primary, history
    <2>2. CASE Reply(b, cookie[b])
      BY <2>1, <2>2 DEF ReplyStep, Resumes, Writing
    <2> DEFINE v == [handler[b].u EXCEPT !.token = <<b, count[b]>>]
    <2>3. CASE Goto(b, "set_user", v) /\ UNCHANGED cookie
      <3>1. v \in Account /\ v.token = <<b, count[b]>>
        <4>1. handler[b].u \in Account /\ count[b] > 0 /\ count[b] \in 0 .. MaxRequests
          BY <1>0, <2>1 DEF Knows, Resumes, TypeOK
        <4>2. <<b, count[b]>> \in Tokens
          BY <4>1 DEF Tokens
        <4> QED
          BY <4>1, <4>2 DEF Account
      <3> HIDE DEF v
      <3>2. MoveStep(b, "set_user", v)
        BY <2>1, <2>3, <3>1 DEF MoveStep, Resumes, Goto, Writing
      <3>3. Knows(b)'
        BY <1>0, <2>1, <3>1, <3>2, MoveKnows
      <3> QED
        BY <3>2, <3>3
    <2> QED
      BY <1>5, <2>2, <2>3 DEF login_digest
  <1> QED
    BY <1>1, <1>2, <1>3, <1>4, <1>5

-----------------------------------------------------------------------------
(* Steps that neither change the file nor prepare a change of it *)

QuietStep ==
    /\ UNCHANGED <<file, registered, revoked, raced>>
    /\ together \subseteq together'
    /\ \A c \in Clients :
          /\ \/ count'[c] = count[c] /\ (At(c)' # "idle" => At(c) # "idle")
             \/ count'[c] = count[c] + 1 /\ At(c) = "idle" /\ At(c)' \notin Writing
          /\ At(c)' \in Writing => handler'[c] = handler[c] /\ cookie'[c] = cookie[c]
          /\ cookie'[c] \in {cookie[c], NoCookie}
    /\ \A u \in Users :
          /\ \A c, d \in Clients : c \in Registering(u)' /\ d \in Registering(u)' /\ c # d =>
                {c, d} \in together' \/ (c \in Registering(u) /\ d \in Registering(u))
          /\ \A c \in Clients : c \in Registering(u)' =>
                c \in Registering(u) \/ (Readable /\ file[u] = None)

LEMMA StillIssued ==
    ASSUME TypeOK, NEW t \in Tokens \cup {None}, Issued(t),
           \A c \in Clients :
              \/ count'[c] = count[c] /\ (At(c)' # "idle" => At(c) # "idle")
              \/ count'[c] = count[c] + 1 /\ At(c) = "idle"
    PROVE  Issued(t)'
  <1>1. CASE t = None
    BY <1>1 DEF Issued
  <1>2. CASE t # None
    <2>1. t[1] \in Clients /\ t[2] \in Nat /\ count[t[1]] \in Nat
      BY <1>2, AccountsAssumption DEF Tokens, TypeOK
    <2> QED
      BY <1>2, <2>1 DEF Issued
  <1> QED
    BY <1>1, <1>2

LEMMA QuietTokens ==
    ASSUME TypeOK, TokensOld, QuietStep PROVE TokensOld'
  <1> USE AccountsAssumption DEF TokensOld
  <1>0. /\ \A c \in Clients : /\ \/ count'[c] = count[c] /\ (At(c)' # "idle" => At(c) # "idle")
                                 \/ count'[c] = count[c] + 1 /\ At(c) = "idle"
                              /\ count[c] \in Nat
        /\ UNCHANGED <<file, registered, revoked>>
    BY DEF QuietStep, TypeOK
  <1>1. \A t \in Tokens \cup {None} : Issued(t) => Issued(t)'
    BY <1>0, StillIssued
  <1>2. CookieTokens'
    <2> SUFFICES ASSUME NEW b \in Clients
                 PROVE  /\ cookie'[b].token # None =>
                              cookie'[b].token[1] = b /\ Issued(cookie[b].token)'
                        /\ cookie'[b].user # None <=> cookie'[b].token # None
      BY DEF CookieTokens
    <2>1. cookie[b].token \in Tokens \cup {None}
      BY DEF TypeOK
    <2>2. CASE cookie'[b] = cookie[b]
      BY <1>1, <2>1, <2>2 DEF CookieTokens
    <2>3. CASE cookie'[b] = NoCookie
      BY <2>3, IdleFacts
    <2> QED
      BY <2>2, <2>3 DEF QuietStep
  <1>3. RevokedOld'
    <2> SUFFICES ASSUME NEW t \in revoked PROVE t[2] < count'[t[1]]
      BY <1>0 DEF RevokedOld
    <2>1. t[1] \in Clients /\ t[2] \in Nat
      BY DEF TypeOK, Tokens
    <2> QED
      BY <1>0, <2>1 DEF RevokedOld
  <1>4. FileTokens'
    <2> SUFFICES ASSUME Readable, NEW u \in Users, file[u] # None PROVE Issued(file[u].token)'
      BY <1>0 DEF FileTokens, Readable
    <2>1. file[u].token \in Tokens \cup {None}
      BY ReadableStore DEF Store, Account
    <2> QED
      BY <1>0, <1>1, <2>1 DEF FileTokens
  <1>5. DataTokens'
    <2> SUFFICES ASSUME NEW b \in Clients, At(b)' \in Writing,
                        NEW u \in Users, Data(b)'[u] # None
                 PROVE  (\/ Issued(Data(b)[u].token)
                         \/ Kind(b) = "login" /\ u = handler[b].user
                            /\ Data(b)[u].token = <<b, count[b]>>)'
      BY DEF DataTokens
    <2>1. handler'[b] = handler[b] /\ count'[b] = count[b]
      BY DEF QuietStep
    <2>2. At(b) \in Writing /\ Kind(b)' = Kind(b) /\ Data(b)' = Data(b)
      BY <2>1 DEF At, Kind, Data
    <2>3. Data(b)[u] \in Account \cup {None}
      BY DataStore DEF Store
    <2>4. Data(b)[u].token \in Tokens \cup {None}
      BY <2>2, <2>3 DEF Account
    <2> QED
      BY <1>1, <2>1, <2>2, <2>4 DEF DataTokens
  <1> QED
    BY <1>2, <1>3, <1>4, <1>5

LEMMA QuietSound ==
    ASSUME QuietStep, NEW s, Sound(s), \A u \in Users : s[u] \in Account \cup {None},
           CookieTokens
    PROVE  Sound(s)'
  <1>1. \A b \in Clients : cookie'[b].token # None =>
           cookie'[b].token = cookie[b].token /\ cookie'[b].user = cookie[b].user
    BY IdleFacts DEF QuietStep
  <1>2. UNCHANGED <<registered, revoked>>
    BY DEF QuietStep
  <1> QED
    BY <1>1, <1>2 DEF Sound

LEMMA QuietCareful ==
    ASSUME TypeOK, TokensOld, Careful, QuietStep PROVE Careful'
  <1> USE DEF Careful
  <1>0. UNCHANGED <<file, registered, revoked, raced>>
    BY DEF QuietStep
  <1>1. \A c \in Clients : At(c)' \in Writing =>
           /\ handler'[c] = handler[c] /\ cookie'[c] = cookie[c]
           /\ At(c)' = At(c) /\ Kind(c)' = Kind(c) /\ Data(c)' = Data(c)
    BY DEF QuietStep, At, Kind, Data
  <1>2. Alone'
    <2>1. \A c \in Clients : At(c)' \in Writing => Request(c)' = Request(c)
      BY <1>1 DEF QuietStep, Request, Writing
    <2> QED
      BY <1>0, <1>1, <2>1 DEF Alone, Writing
  <1>3. (Readable => Sound(file))'
    <2> SUFFICES ASSUME Readable PROVE Sound(file)'
      BY <1>0 DEF Readable
    <2>1. \A u \in Users : file[u] \in Account \cup {None}
      BY ReadableStore DEF Store
    <2>2. Sound(file)
      OBVIOUS
    <2>3. \A s : Sound(s) /\ (\A u \in Users : s[u] \in Account \cup {None}) => Sound(s)'
      BY QuietSound DEF TokensOld
    <2> QED
      BY <1>0, <2>1, <2>2, <2>3
  <1>4. SoundData'
    <2> SUFFICES ASSUME NEW b \in Clients, At(b)' \in Writing
                 PROVE  (/\ Sound(Data(b))
                         /\ Kind(b) = "register" => Data(b)[handler[b].user] # None
                         /\ Kind(b) = "logout" =>
                               Data(b)[cookie[b].user] # None
                               /\ Data(b)[cookie[b].user].token = None)'
      BY DEF SoundData
    <2>1. /\ handler'[b] = handler[b] /\ cookie'[b] = cookie[b]
          /\ At(b) \in Writing /\ Kind(b)' = Kind(b) /\ Data(b)' = Data(b)
      BY <1>1
    <2>2. \A u \in Users : Data(b)[u] \in Account \cup {None}
      BY DataStore DEF Store
    <2>3. Sound(Data(b))
      BY <2>1 DEF SoundData
    <2>4. \A s : Sound(s) /\ (\A u \in Users : s[u] \in Account \cup {None}) => Sound(s)'
      BY QuietSound DEF TokensOld
    <2> QED
      BY <2>1, <2>2, <2>3, <2>4 DEF SoundData
  <1>5. Owners'
    <2> SUFFICES ASSUME NEW u \in Users, NEW b \in Clients, b \in Registering(u)'
                 PROVE  /\ \A c \in Registering(u)' : b # c => {b, c} \in together'
                        /\ \A c \in Clients : <<c, u>> \in registered /\ c # b =>
                              {b, c} \in together'
      BY <1>0 DEF Owners
    <2>1. \A c \in Registering(u)' : c \in Clients
      BY DEF Registering
    <2>2. together \subseteq together'
      BY DEF QuietStep
    <2>3. \A c \in Registering(u)' : b # c => {b, c} \in together'
      BY <2>1, <2>2 DEF QuietStep, Owners
    <2>4. ASSUME NEW c \in Clients, <<c, u>> \in registered, c # b
          PROVE  {b, c} \in together'
      <3>1. CASE b \in Registering(u)
        BY <2>2, <2>4, <3>1 DEF Owners
      <3>2. CASE Readable /\ file[u] = None
        BY <2>4, <3>2 DEF Sound
      <3> QED
        BY <3>1, <3>2 DEF QuietStep
    <2> QED
      BY <2>3, <2>4
  <1>6. OneOwner'
    BY <1>0 DEF OneOwner, QuietStep
  <1> QED
    BY <1>2, <1>3, <1>4, <1>5, <1>6

(* A client that comes past the lookup of a name found it free, and is     *)
(* noted together with those that were past it already.                    *)
LEMMA HandlerRegisters ==
    ASSUME Base, NEW b \in Clients,
           \/ handle(b) \/ handle_cookie(b) \/ register_lookup(b) \/ login_lookup(b)
           \/ register_digest(b) \/ login_digest(b)
    PROVE  /\ together \subseteq together'
           /\ \A u \in Users : b \in Registering(u)' =>
                 \/ b \in Registering(u)
                 \/ /\ Readable /\ file[u] = None
                    /\ \A d \in Registering(u) : {b, d} \in together'
  <1> USE AccountsAssumption DEF Base
  <1>1. together \subseteq together'
    BY DEF handle, handle_cookie, register_lookup, login_lookup, register_digest, login_digest,
           primary, history
  <1>2. \/ At(b)' = "idle"
        \/ Kind(b)' = Kind(b) /\ handler'[b].user = handler[b].user
    <2>1. CASE \E next, u : MoveStep(b, next, u) /\ Knows(b)'
      <3>1. PICK next, u : MoveStep(b, next, u)
        BY <2>1
      <3> QED
        BY <3>1, MoveFacts DEF MoveStep
    <2>2. CASE \E c : ReplyStep(b, c)
      BY <2>2, ReplyFacts DEF ReplyStep
    <2> QED
      BY <2>1, <2>2, HandlerKinds
  <1> SUFFICES ASSUME NEW u \in Users, b \in Registering(u)', b \notin Registering(u)
               PROVE  /\ Readable /\ file[u] = None
                      /\ \A d \in Registering(u) : {b, d} \in together'
    BY <1>1
  <1>3. /\ Kind(b) = "register" /\ handler[b].user = u
        /\ At(b) \notin {"digest", "set_user", "truncate", "write"}
        /\ At(b)' \in {"digest", "set_user", "truncate", "write"}
    BY <1>2 DEF Registering
  <1>4. register_lookup(b)
    <2>1. ~(login_lookup(b) \/ register_digest(b) \/ login_digest(b))
      BY <1>3 DEF login_lookup, register_digest, login_digest, Resumes
    <2>2. ASSUME handle(b) PROVE FALSE
      <3>1. At(b)' = "cookie"
        BY <2>2, MoveFacts DEF handle, Goto
      <3> QED
        BY <1>3, <3>1
    <2>3. ASSUME handle_cookie(b) PROVE FALSE
      <3>1. enter(b, get_user(cookie[b].user))
        BY <1>3, <2>3 DEF handle_cookie
      <3>2. At(b)' \in {"idle", "lookup"}
        BY <3>1, MoveFacts, ReplyFacts DEF enter, Goto
      <3> QED
        BY <1>3, <3>2
    <2> QED
      BY <2>1, <2>2, <2>3
  <1>5. ~Exists(u) /\ Readable
    <2>1. ASSUME Reply(b, cookie[b]) PROVE FALSE
      BY <1>3, <2>1, ReplyFacts
    <2> QED
      BY <1>3, <1>4, <2>1 DEF register_lookup
  <1>6. file[u] = None
    BY <1>5, get_userFacts DEF Exists
  <1>7. together' = together \cup {{b, c} : c \in Registering(u)}
    BY <1>3, <1>4 DEF register_lookup
  <1> QED
    BY <1>5, <1>6, <1>7

LEMMA HandlerQuiet ==
    ASSUME Base, NEW b \in Clients,
           \/ handle(b) \/ handle_cookie(b) \/ register_lookup(b) \/ login_lookup(b)
           \/ register_digest(b) \/ login_digest(b)
    PROVE  QuietStep
  <1> USE DEF Base
  <1>1. /\ UNCHANGED <<file, registered, revoked, raced, count>>
        /\ \A c \in Clients : c # b => handler'[c] = handler[c] /\ cookie'[c] = cookie[c]
        /\ At(b) # "idle" /\ At(b)' \notin Writing /\ cookie'[b] \in {cookie[b], NoCookie}
    <2>1. CASE \E next, u : MoveStep(b, next, u) /\ Knows(b)'
      <3>1. PICK next, u : MoveStep(b, next, u)
        BY <2>1
      <3>2. At(b)' = next /\ \A c \in Clients : c # b => handler'[c] = handler[c]
        BY <3>1, MoveFacts DEF MoveStep
      <3> QED
        BY <3>1, <3>2 DEF MoveStep, Writing
    <2>2. CASE \E c : ReplyStep(b, c)
      <3>1. PICK c : ReplyStep(b, c)
        BY <2>2
      <3>2. /\ At(b)' = "idle" /\ cookie'[b] = c
            /\ \A d \in Clients : d # b => handler'[d] = handler[d] /\ cookie'[d] = cookie[d]
        BY <3>1, ReplyFacts DEF ReplyStep
      <3> QED
        BY <3>1, <3>2 DEF ReplyStep, Writing
    <2> QED
      BY <2>1, <2>2, HandlerKinds
  <1>2. \A c \in Clients : c # b => At(c)' = At(c)
    BY <1>1 DEF At
  <1>3. \A u \in Users, c \in Clients : c # b => (c \in Registering(u)' <=> c \in Registering(u))
    BY <1>1 DEF Registering, At, Kind
  <1>4. /\ together \subseteq together'
        /\ \A u \in Users : b \in Registering(u)' =>
              \/ b \in Registering(u)
              \/ /\ Readable /\ file[u] = None
                 /\ \A d \in Registering(u) : {b, d} \in together'
    BY HandlerRegisters
  <1>5. ASSUME NEW u \in Users, NEW c \in Clients, NEW d \in Clients,
               c \in Registering(u)', d \in Registering(u)', c # d
        PROVE  {c, d} \in together' \/ (c \in Registering(u) /\ d \in Registering(u))
    <2>1. {c, d} = {d, c}
      OBVIOUS
    <2> QED
      BY <1>3, <1>4, <1>5, <2>1
  <1>6. ASSUME NEW c \in Clients
        PROVE  /\ count'[c] = count[c] /\ (At(c)' # "idle" => At(c) # "idle")
               /\ At(c)' \in Writing => handler'[c] = handler[c] /\ cookie'[c] = cookie[c]
               /\ cookie'[c] \in {cookie[c], NoCookie}
    BY <1>1, <1>2
  <1> QED
    BY <1>1, <1>3, <1>4, <1>5, <1>6 DEF QuietStep

LEMMA sendQuiet ==
    ASSUME Base, NEW b \in Clients, NEW kind, NEW u, NEW w, send(b, kind, u, w)
    PROVE  QuietStep
  <1>1. /\ UNCHANGED <<file, registered, revoked, raced, cookie, together>>
        /\ \A c \in Clients : c # b => handler'[c] = handler[c] /\ count'[c] = count[c]
        /\ count'[b] = count[b] + 1 /\ At(b) = "idle" /\ At(b)' = "sent"
    BY DEF send, primary, history, Base, TypeOK, At, Idle
  <1>2. \A v \in Users, c \in Clients : c \in Registering(v)' => c \in Registering(v)
    BY <1>1 DEF Registering, At, Kind
  <1> QED
    BY <1>1, <1>2 DEF QuietStep, Writing, At

LEMMA CrashQuiet ==
    ASSUME NEW W, Crash(W)
    PROVE  QuietStep
  <1>1. /\ UNCHANGED <<file, registered, revoked, raced, cookie, count, together>>
        /\ \A c \in Clients : handler'[c] = handler[c] \/ At(c)' = "idle"
    BY IdleFacts DEF Crash, At
  <1>2. \A v \in Users, c \in Clients : c \in Registering(v)' => c \in Registering(v)
    BY <1>1 DEF Registering, At, Kind
  <1> QED
    BY <1>1, <1>2 DEF QuietStep, Writing, At

LEMMA sameQuiet ==
    ASSUME UNCHANGED <<file, handler, cookie, count, registered, revoked, together, raced>>
    PROVE  QuietStep
  BY DEF QuietStep, Registering, At, Kind

-----------------------------------------------------------------------------
(* The steps of set_user *)

(* The record that set_user stores, and its token. *)
LEMMA AssignedToken ==
    ASSUME Base, NEW b \in Clients, set_user(b)
    PROVE  LET old == file[Target(b)]
               new == Assigned(b, old)
           IN  \/ new.token = None
               \/ Kind(b) = "register" /\ old # None /\ new.token = old.token
               \/ Kind(b) = "login" /\ new.token = <<b, count[b]>> /\ Target(b) = handler[b].user
  <1>1. Knows(b) /\ At(b) \in Storing
    BY DEF Base, Forms, set_user, Runs, Storing
  <1> QED
    BY <1>1 DEF Knows, Assigned, Target, Account

(* The token of a request under way is not out yet. *)
LEMMA OwnTokenNew ==
    ASSUME Base, NEW b \in Clients, Issued(<<b, count[b]>>), At(b) # "idle"
    PROVE  FALSE
  <1>1. count[b] \in 0 .. MaxRequests /\ count[b] > 0
    BY DEF Base, TypeOK, Forms, Knows
  <1>2. <<b, count[b]>> # None
    <2>1. <<b, count[b]>> \in Tokens
      BY <1>1, AccountsAssumption DEF Tokens
    <2> QED
      BY <2>1, AccountsAssumption
  <1> QED
    BY <1>1, <1>2 DEF Issued

LEMMA set_userTokens ==
    ASSUME Base, TokensOld, NEW b \in Clients, set_user(b)
    PROVE  TokensOld'
  <1> USE DEF TokensOld
  <1>1. /\ At(b) = "set_user" /\ file \in Store /\ Readable
        /\ At(b)' = "truncate" /\ Kind(b)' = Kind(b) /\ handler'[b].user = handler[b].user
        /\ \A c \in Clients : c # b => handler'[c] = handler[c]
        /\ Target(b) \in Users
        /\ Data(b)' = [file EXCEPT ![Target(b)] = Assigned(b, file[Target(b)])]
        /\ UNCHANGED <<file, cookie, count, revoked>>
    BY set_userFacts
  <1>2. \A t \in Tokens \cup {None} : Issued(t)' <=> Issued(t)
    <2>1. \A c \in Clients : At(c)' = "idle" <=> At(c) = "idle"
      BY <1>1 DEF At
    <2>2. \A t \in Tokens : t[1] \in Clients
      BY DEF Tokens
    <2> QED
      BY <1>1, <2>1, <2>2 DEF Issued
  <1>3. CookieTokens'
    BY <1>1, <1>2 DEF CookieTokens, Base, TypeOK
  <1>4. RevokedOld'
    BY <1>1 DEF RevokedOld
  <1>5. FileTokens'
    BY <1>1, <1>2 DEF FileTokens, Readable, Store, Account
  <1>6. DataTokens'
    <2> SUFFICES ASSUME NEW c \in Clients, At(c)' \in Writing,
                        NEW u \in Users, Data(c)'[u] # None
                 PROVE  (\/ Issued(Data(c)[u].token)
                         \/ Kind(c) = "login" /\ u = handler[c].user
                            /\ Data(c)[u].token = <<c, count[c]>>)'
      BY DEF DataTokens
    <2>1. CASE c # b
      <3>1. At(c) \in Writing /\ Kind(c)' = Kind(c) /\ Data(c)' = Data(c) /\ handler'[c] = handler[c]
        BY <1>1, <2>1 DEF At, Kind, Data
      <3>2. Data(c)[u].token \in Tokens \cup {None}
        BY <3>1, DataStore DEF Base, Store, Account
      <3> QED
        BY <1>1, <1>2, <3>1, <3>2 DEF DataTokens
    <2>2. CASE c = b /\ u # Target(b)
      <3>1. Data(c)'[u] = file[u] /\ file[u] \in Account
        BY <1>1, <2>2 DEF Store
      <3> QED
        BY <1>1, <1>2, <3>1 DEF FileTokens, Account
    <2>3. CASE c = b /\ u = Target(b)
      <3>1. Data(c)'[u] = Assigned(b, file[Target(b)])
        BY <1>1, <2>3 DEF Store
      <3>2. file[u] # None => Issued(file[u].token)'
        BY <1>1, <1>5 DEF FileTokens, Readable
      <3>3. \/ Data(c)'[u].token = None
            \/ file[u] # None /\ Data(c)'[u].token = file[u].token
            \/ Kind(b) = "login" /\ Data(c)'[u].token = <<b, count[b]>> /\ u = handler[b].user
        BY <2>3, <3>1, AssignedToken
      <3> QED
        BY <1>1, <2>3, <3>2, <3>3 DEF Issued
    <2> QED
      BY <2>1, <2>2, <2>3
  <1> QED
    BY <1>3, <1>4, <1>5, <1>6

LEMMA set_userCareful ==
    ASSUME Base, TokensOld, Careful, NEW b \in Clients, set_user(b)
    PROVE  Careful'
  <1> USE AccountsAssumption DEF Careful
  <1>1. /\ At(b) = "set_user" /\ file \in Store /\ Readable
        /\ At(b)' = "truncate" /\ Kind(b)' = Kind(b) /\ handler'[b].user = handler[b].user
        /\ \A c \in Clients : c # b => handler'[c] = handler[c]
        /\ Target(b) \in Users /\ Assigned(b, file[Target(b)]) \in Account
        /\ Data(b)' = [file EXCEPT ![Target(b)] = Assigned(b, file[Target(b)])]
        /\ UNCHANGED <<file, cookie, count, registered, revoked, together>>
    BY set_userFacts
  <1>2. raced' = raced \cup IF Inside = {} THEN {} ELSE {Request(c) : c \in Inside \cup {b}}
    BY DEF set_user
  <1>3. \A c \in Clients : c # b => /\ At(c)' = At(c) /\ Kind(c)' = Kind(c) /\ Data(c)' = Data(c)
                                   /\ handler'[c] = handler[c]
    BY <1>1 DEF At, Kind, Data
  <1>4. Alone'
    <2> SUFFICES ASSUME NEW c \in Clients, At(c)' \in Writing, Request(c)' \notin raced'
                 PROVE  Inside = {} /\ c = b
      BY <1>1, <1>3 DEF Alone, Inside, Writing
    <2>1. Request(c)' = Request(c)
      BY <1>1 DEF Request
    <2>2. c # b => c \in Inside
      BY <1>3 DEF Inside, Writing
    <2> QED
      BY <1>2, <2>1, <2>2
  <1>5. (Readable => Sound(file))'
    BY <1>1 DEF Sound, Readable
  <1> DEFINE new == Assigned(b, file[Target(b)])
  <1>6. /\ Data(b)'[Target(b)] = new /\ new # None
        /\ \A u \in Users : u # Target(b) => Data(b)'[u] = file[u]
    BY <1>1 DEF Store
  <1>7. \/ new.token = None
        \/ file[Target(b)] # None /\ new.token = file[Target(b)].token
        \/ new.token = <<b, count[b]>>
    BY AssignedToken
  <1>8. new.token \notin revoked
    <2>1. None \notin revoked
      BY DEF Base, TypeOK
    <2>2. <<b, count[b]>> \notin revoked
      <3>1. ~(count[b] < count[b])
        BY DEF Base, TypeOK
      <3> QED
        BY <3>1 DEF TokensOld, RevokedOld
    <2> QED
      BY <1>1, <1>7, <2>1, <2>2 DEF Sound
  <1>9. ASSUME NEW c \in Clients, new.token # None, new.token = cookie[c].token
        PROVE  Target(b) = cookie[c].user
    <2>1. new.token # <<b, count[b]>>
      <3>1. ASSUME new.token = <<b, count[b]>> PROVE FALSE
        <4>1. c = b /\ Issued(<<b, count[b]>>)
          <5>1. cookie[c].token = <<b, count[b]>> /\ cookie[c].token # None
            BY <1>9, <3>1
          <5>2. cookie[c].token[1] = c /\ Issued(cookie[c].token)
            BY <5>1 DEF TokensOld, CookieTokens
          <5> QED
            BY <5>1, <5>2
        <4> QED
          BY <1>1, <4>1, OwnTokenNew
      <3> QED
        BY <3>1
    <2> QED
      BY <1>1, <1>7, <1>9, <2>1 DEF Sound
  <1> HIDE DEF new
  <1>10. Sound(Data(b))'
    <2>1. \A r \in registered : r[2] \in Users
      BY DEF Base, TypeOK
    <2>2. \A r \in registered' : Data(b)'[r[2]] # None
      BY <1>1, <1>6, <2>1 DEF Sound
    <2>3. ASSUME NEW u \in Users, Data(b)'[u] # None
          PROVE  /\ Data(b)'[u].token \notin revoked
                 /\ \A c \in Clients :
                      Data(b)'[u].token # None /\ Data(b)'[u].token = cookie[c].token =>
                          u = cookie[c].user
      <3>1. CASE u = Target(b)
        BY <1>6, <1>8, <1>9, <3>1
      <3>2. CASE u # Target(b)
        BY <1>1, <1>6, <2>3, <3>2 DEF Sound
      <3> QED
        BY <3>1, <3>2
    <2> QED
      BY <1>1, <2>2, <2>3 DEF Sound
  <1>11. SoundData'
    <2>1. Kind(b) = "register" => handler[b].user = Target(b)
      BY DEF Target
    <2>2. Kind(b) = "logout" => cookie[b].user = Target(b) /\ new.token = None
      <3>1. Knows(b) /\ At(b) \in Storing
        BY <1>1 DEF Base, Forms, Storing
      <3> QED
        BY <3>1 DEF Target, Knows, Assigned, new
    <2>3. (/\ Kind(b) = "register" => Data(b)[handler[b].user] # None
           /\ Kind(b) = "logout" =>
                 Data(b)[cookie[b].user] # None /\ Data(b)[cookie[b].user].token = None)'
      BY <1>1, <1>6, <2>1, <2>2
    <2>4. ASSUME NEW c \in Clients, c # b, At(c)' \in Writing
          PROVE  (/\ Sound(Data(c))
                  /\ Kind(c) = "register" => Data(c)[handler[c].user] # None
                  /\ Kind(c) = "logout" =>
                        Data(c)[cookie[c].user] # None /\ Data(c)[cookie[c].user].token = None)'
      BY <1>1, <1>3, <2>4 DEF SoundData, Sound
    <2> QED
      BY <1>10, <2>3, <2>4 DEF SoundData
  <1>12. Owners' /\ OneOwner'
    <2>1. \A u \in Users : Registering(u)' = Registering(u)
      BY <1>1 DEF Registering, At, Kind
    <2> QED
      BY <1>1, <2>1 DEF Owners, OneOwner
  <1> QED
    BY <1>4, <1>5, <1>11, <1>12

LEMMA truncateTokens ==
    ASSUME Base, TokensOld, NEW b \in Clients, persist_truncate(b)
    PROVE  TokensOld'
  <1> USE DEF TokensOld
  <1>1. /\ At(b) = "truncate" /\ file' = Empty
        /\ At(b)' = "write" /\ Kind(b)' = Kind(b) /\ handler'[b].user = handler[b].user
        /\ Data(b)' = Data(b)
        /\ \A c \in Clients : c # b => handler'[c] = handler[c]
        /\ UNCHANGED <<cookie, count, revoked>>
    BY truncateFacts DEF Base
  <1>2. \A t \in Tokens \cup {None} : Issued(t)' <=> Issued(t)
    <2>1. \A c \in Clients : At(c)' = "idle" <=> At(c) = "idle"
      BY <1>1 DEF At
    <2>2. \A t \in Tokens : t[1] \in Clients
      BY DEF Tokens
    <2> QED
      BY <1>1, <2>1, <2>2 DEF Issued
  <1>3. CookieTokens'
    BY <1>1, <1>2 DEF CookieTokens, Base, TypeOK
  <1>4. RevokedOld' /\ FileTokens'
    BY <1>1 DEF RevokedOld, FileTokens, Readable
  <1>5. DataTokens'
    <2> SUFFICES ASSUME NEW c \in Clients, At(c)' \in Writing,
                        NEW u \in Users, Data(c)'[u] # None
                 PROVE  (\/ Issued(Data(c)[u].token)
                         \/ Kind(c) = "login" /\ u = handler[c].user
                            /\ Data(c)[u].token = <<c, count[c]>>)'
      BY DEF DataTokens
    <2>1. /\ At(c) \in Writing /\ Kind(c)' = Kind(c) /\ Data(c)' = Data(c)
          /\ handler'[c].user = handler[c].user
      BY <1>1 DEF At, Kind, Data, Writing
    <2>2. Data(c)[u].token \in Tokens \cup {None}
      BY <2>1, DataStore DEF Base, Store, Account
    <2> QED
      BY <1>1, <1>2, <2>1, <2>2 DEF DataTokens
  <1> QED
    BY <1>3, <1>4, <1>5

LEMMA truncateCareful ==
    ASSUME Base, Careful, NEW b \in Clients, persist_truncate(b)
    PROVE  Careful'
  <1> USE DEF Careful
  <1>1. /\ At(b) = "truncate" /\ file' = Empty
        /\ At(b)' = "write" /\ Kind(b)' = Kind(b) /\ handler'[b].user = handler[b].user
        /\ Data(b)' = Data(b)
        /\ \A c \in Clients : c # b => handler'[c] = handler[c]
        /\ UNCHANGED <<cookie, count, registered, revoked, together, raced>>
    BY truncateFacts DEF Base
  <1>2. \A c \in Clients : /\ Kind(c)' = Kind(c) /\ Data(c)' = Data(c)
                           /\ handler'[c].user = handler[c].user
                           /\ At(c)' \in Writing <=> At(c) \in Writing
    BY <1>1 DEF At, Kind, Data, Writing
  <1>3. Alone'
    BY <1>1, <1>2 DEF Alone, Request
  <1>4. (Readable => Sound(file))'
    BY <1>1 DEF Readable
  <1>5. SoundData'
    BY <1>1, <1>2 DEF SoundData, Sound
  <1>6. Owners' /\ OneOwner'
    <2>1. \A u \in Users : Registering(u)' = Registering(u)
      BY <1>1, <1>2 DEF Registering, At
    <2> QED
      BY <1>1, <2>1 DEF Owners, OneOwner
  <1> QED
    BY <1>3, <1>4, <1>5, <1>6

LEMMA writeTokens ==
    ASSUME Base, TokensOld, NEW b \in Clients, persist_write(b)
    PROVE  TokensOld'
  <1> USE AccountsAssumption DEF TokensOld
  <1>1. PICK c \in [user : Users \cup {None}, token : Tokens \cup {None}] :
              /\ Reply(b, c)
              /\ \/ Kind(b) = "register" /\ c = cookie[b]
                 \/ Kind(b) = "login" /\ c.user = handler[b].user /\ c.token = <<b, count[b]>>
                 \/ Kind(b) = "logout" /\ c = NoCookie
              /\ At(b) = "write"
              /\ file' = Data(b) \/ (file' = Broken /\ file # Empty)
              /\ revoked' = revoked \cup IF Kind(b) = "logout" /\ Request(b) \notin raced
                                         THEN {cookie[b].token} ELSE {}
              /\ UNCHANGED count
    BY writeFacts
  <1>2. /\ At(b)' = "idle" /\ cookie'[b] = c
        /\ \A d \in Clients : d # b => handler'[d] = handler[d] /\ cookie'[d] = cookie[d]
    BY <1>1, ReplyFacts DEF Base
  <1>3. \A t \in Tokens \cup {None} : Issued(t) => Issued(t)'
    <2>1. \A d \in Clients : count'[d] = count[d] /\ (At(d)' # "idle" => At(d) # "idle")
      BY <1>1, <1>2 DEF At
    <2> QED
      BY <2>1, StillIssued DEF Base
  <1>4. /\ <<b, count[b]>> \in Tokens /\ count[b] \in Nat
        /\ \A t : t = <<b, count[b]>> => Issued(t)'
    <2>1. count[b] \in 0 .. MaxRequests /\ count[b] > 0
      BY <1>1 DEF Base, TypeOK, Forms, Knows
    <2>2. <<b, count[b]>> \in Tokens /\ count[b] \in Nat
      BY <2>1 DEF Tokens
    <2> QED
      BY <1>1, <1>2, <2>2 DEF Issued
  <1>5. CookieTokens'
    <2> SUFFICES ASSUME NEW d \in Clients
                 PROVE  /\ cookie'[d].token # None =>
                              cookie'[d].token[1] = d /\ Issued(cookie[d].token)'
                        /\ cookie'[d].user # None <=> cookie'[d].token # None
      BY DEF CookieTokens
    <2>1. CASE cookie'[d] = cookie[d]
      <3>1. cookie[d].token \in Tokens \cup {None}
        BY DEF Base, TypeOK
      <3> QED
        BY <1>3, <2>1, <3>1 DEF CookieTokens
    <2>2. CASE cookie'[d] = NoCookie
      BY <2>2, IdleFacts
    <2>3. CASE d = b /\ Kind(b) = "login" /\ cookie'[d] = c
      <3>1. cookie'[d].token = <<b, count[b]>> /\ cookie'[d].user = handler[b].user
        BY <1>1, <2>3
      <3>2. handler[b].user \in Users
        BY <1>1, <2>3 DEF Base, Forms, Knows
      <3> QED
        BY <1>4, <2>3, <3>1, <3>2
    <2> QED
      BY <1>1, <1>2, <2>1, <2>2, <2>3
  <1>6. RevokedOld'
    <2> SUFFICES ASSUME NEW t \in revoked' PROVE t[2] < count[t[1]]
      BY <1>1 DEF RevokedOld
    <2>1. CASE t \in revoked
      BY <2>1 DEF RevokedOld
    <2>2. CASE t = cookie[b].token /\ Kind(b) = "logout"
      <3>1. cookie[b].user # None
        BY <1>1, <2>2 DEF Base, Forms, Knows, Storing
      <3>2. t # None /\ t[1] = b /\ Issued(t)
        BY <2>2, <3>1 DEF CookieTokens
      <3> QED
        BY <1>1, <3>2 DEF Issued
    <2> QED
      BY <1>1, <2>1, <2>2
  <1>7. ASSUME NEW d \in Clients, At(d) \in Writing, NEW u \in Users, Data(d)[u] # None
        PROVE  Data(d)[u].token \in Tokens \cup {None}
    <2>1. Data(d)[u] \in Account
      BY <1>7, DataStore DEF Base, Store
    <2> QED
      BY <2>1 DEF Account
  <1>8. FileTokens'
    <2> SUFFICES ASSUME file' = Data(b), NEW u \in Users, file'[u] # None
                 PROVE  Issued(file[u].token)'
      BY <1>1 DEF FileTokens, Readable
    <2>1. Data(b)[u].token \in Tokens \cup {None} /\ At(b) \in Writing
      BY <1>1, <1>7 DEF Writing
    <2> QED
      BY <1>3, <1>4, <2>1 DEF DataTokens
  <1>9. DataTokens'
    <2> SUFFICES ASSUME NEW d \in Clients, At(d)' \in Writing,
                        NEW u \in Users, Data(d)'[u] # None
                 PROVE  (\/ Issued(Data(d)[u].token)
                         \/ Kind(d) = "login" /\ u = handler[d].user
                            /\ Data(d)[u].token = <<d, count[d]>>)'
      BY DEF DataTokens
    <2>1. /\ At(d) \in Writing /\ Kind(d)' = Kind(d) /\ Data(d)' = Data(d)
          /\ handler'[d].user = handler[d].user
      BY <1>2 DEF At, Kind, Data, Writing
    <2> QED
      BY <1>1, <1>3, <1>7, <2>1 DEF DataTokens
  <1> QED
    BY <1>5, <1>6, <1>8, <1>9

LEMMA writeCareful ==
    ASSUME Base, TokensOld, Careful, NEW b \in Clients, persist_write(b)
    PROVE  Careful'
  <1> USE AccountsAssumption DEF Careful
  <1>1. PICK c \in [user : Users \cup {None}, token : Tokens \cup {None}] :
              /\ Reply(b, c)
              /\ \/ Kind(b) = "register" /\ c = cookie[b]
                 \/ Kind(b) = "login" /\ c.user = handler[b].user /\ c.token = <<b, count[b]>>
                 \/ Kind(b) = "logout" /\ c = NoCookie
              /\ At(b) = "write"
              /\ file' = Data(b) \/ (file' = Broken /\ file # Empty)
              /\ registered' = registered \cup IF Kind(b) = "register" /\ Request(b) \notin raced
                                               THEN {<<b, handler[b].user>>} ELSE {}
              /\ revoked' = revoked \cup IF Kind(b) = "logout" /\ Request(b) \notin raced
                                         THEN {cookie[b].token} ELSE {}
              /\ UNCHANGED <<count, together, raced>>
    BY writeFacts
  <1>2. /\ At(b)' = "idle" /\ cookie'[b] = c
        /\ \A d \in Clients : d # b => handler'[d] = handler[d] /\ cookie'[d] = cookie[d]
    BY <1>1, ReplyFacts DEF Base
  <1>3. At(b) \in Writing /\ Data(b) \in Store
    BY <1>1, DataStore DEF Writing, Base
  <1>4. ASSUME NEW d \in Clients, At(d)' \in Writing
        PROVE  /\ d # b /\ At(d) \in Writing /\ At(d)' = At(d) /\ Kind(d)' = Kind(d)
               /\ Data(d)' = Data(d) /\ cookie'[d] = cookie[d] /\ handler'[d] = handler[d]
               /\ Request(b) \in raced
    <2>1. d # b
      BY <1>2, <1>4 DEF Writing
    <2>2. At(d)' = At(d) /\ Kind(d)' = Kind(d) /\ Data(d)' = Data(d)
      BY <1>2, <2>1 DEF At, Kind, Data
    <2> QED
      BY <1>2, <1>3, <1>4, <2>1, <2>2 DEF Alone
  <1>5. (Readable => Sound(file))'
    <2> SUFFICES ASSUME file' = Data(b) PROVE Sound(file)'
      BY <1>1 DEF Readable
    <2>1. \A r \in registered' : file'[r[2]] # None
      BY <1>1, <1>3 DEF SoundData, Sound
    <2>2. ASSUME NEW u \in Users, Data(b)[u] # None, Kind(b) = "logout",
                 Data(b)[u].token = cookie[b].token
          PROVE  FALSE
      <3>1. cookie[b].user # None
        BY <1>1, <2>2 DEF Base, Forms, Knows, Storing
      <3>2. cookie[b].token # None
        BY <3>1 DEF TokensOld, CookieTokens
      <3>3. u = cookie[b].user
        BY <1>3, <2>2, <3>2 DEF SoundData, Sound
      <3> QED
        BY <1>3, <2>2, <3>2, <3>3 DEF SoundData
    <2>3. \A u \in Users : file'[u] # None => file'[u].token \notin revoked'
      BY <1>1, <1>3, <2>2 DEF SoundData, Sound
    <2>4. ASSUME NEW u \in Users, Data(b)[u] # None, NEW d \in Clients,
                 Data(b)[u].token # None, Data(b)[u].token = cookie'[d].token
          PROVE  u = cookie'[d].user
      <3>1. CASE cookie'[d] = cookie[d]
        BY <1>3, <2>4, <3>1 DEF SoundData, Sound
      <3>2. CASE cookie'[d] = NoCookie
        BY <2>4, <3>2, IdleFacts
      <3>3. CASE d = b /\ Kind(b) = "login" /\ cookie'[d] = c
        <4>1. Data(b)[u].token = <<b, count[b]>> /\ cookie'[d].user = handler[b].user
          BY <1>1, <2>4, <3>3
        <4>2. ~Issued(<<b, count[b]>>)
          BY <1>1, OwnTokenNew
        <4>3. ~Issued(Data(b)[u].token)
          BY <4>1, <4>2
        <4> QED
          BY <1>3, <2>4, <4>1, <4>3 DEF TokensOld, DataTokens
      <3> QED
        BY <1>1, <1>2, <3>1, <3>2, <3>3
    <2> QED
      BY <1>3, <2>1, <2>3, <2>4 DEF Sound
  <1>6. Alone'
    <2>1. \A d \in Clients : At(d)' \in Writing => Request(d) \in raced
      BY <1>3, <1>4 DEF Alone
    <2> QED
      BY <1>1, <2>1 DEF Alone, Request
  <1>10. SoundData'
    <2> SUFFICES ASSUME NEW d \in Clients, At(d)' \in Writing
                 PROVE  (/\ Sound(Data(d))
                         /\ Kind(d) = "register" => Data(d)[handler[d].user] # None
                         /\ Kind(d) = "logout" =>
                               Data(d)[cookie[d].user] # None
                               /\ Data(d)[cookie[d].user].token = None)'
      BY DEF SoundData
    <2>1. /\ d # b /\ At(d) \in Writing /\ Kind(d)' = Kind(d) /\ Data(d)' = Data(d)
          /\ cookie'[d] = cookie[d] /\ handler'[d] = handler[d]
          /\ UNCHANGED <<registered, revoked>>
      BY <1>1, <1>4
    <2>2. ASSUME NEW u \in Users, Data(d)[u] # None, NEW e \in Clients,
                 Data(d)[u].token # None, Data(d)[u].token = cookie'[e].token
          PROVE  u = cookie'[e].user
      <3>1. CASE cookie'[e] = cookie[e]
        BY <2>1, <2>2, <3>1 DEF SoundData, Sound
      <3>2. CASE cookie'[e] = NoCookie
        BY <2>2, <3>2, IdleFacts
      <3>3. CASE e = b /\ Kind(b) = "login" /\ cookie'[e] = c
        <4>1. Data(d)[u].token = <<b, count[b]>>
          BY <1>1, <2>2, <3>3
        <4>2. ~Issued(<<b, count[b]>>)
          BY <1>1, OwnTokenNew
        <4>3. ~Issued(Data(d)[u].token) /\ Data(d)[u].token # <<d, count[d]>>
          BY <2>1, <4>1, <4>2
        <4> QED
          BY <2>1, <2>2, <4>3 DEF TokensOld, DataTokens
      <3> QED
        BY <1>1, <1>2, <3>1, <3>2, <3>3
    <2>3. Sound(Data(d))
      BY <2>1 DEF SoundData
    <2>4. Sound(Data(d))'
      BY <2>1, <2>2, <2>3 DEF Sound
    <2> QED
      BY <2>1, <2>4 DEF SoundData
  <1>7. /\ \A u \in Users, d \in Clients :
              d \in Registering(u)' <=> d \in Registering(u) /\ d # b
        /\ Kind(b) = "register" => handler[b].user \in Users /\ b \in Registering(handler[b].user)
    <2>1. Kind(b) = "register" => handler[b].user \in Users /\ b \in Registering(handler[b].user)
      BY <1>1 DEF Base, Forms, Knows, Registering
    <2> QED
      BY <1>2, <2>1 DEF Registering, At, Kind
  <1>8. Owners'
    <2> SUFFICES ASSUME NEW u \in Users, NEW d \in Clients, d \in Registering(u)'
                 PROVE  /\ \A e \in Registering(u)' : d # e => {d, e} \in together
                        /\ \A e \in Clients : <<e, u>> \in registered' /\ e # d =>
                              {d, e} \in together
      BY <1>1 DEF Owners
    <2>1. \A e \in Registering(u)' : e \in Registering(u)
      BY <1>7 DEF Registering
    <2>2. \A e \in Registering(u)' : d # e => {d, e} \in together
      BY <1>7, <2>1 DEF Owners
    <2>3. ASSUME NEW e \in Clients, <<e, u>> \in registered', e # d
          PROVE  {d, e} \in together
      <3>1. CASE <<e, u>> \in registered
        BY <1>7, <2>3, <3>1 DEF Owners
      <3>2. CASE Kind(b) = "register" /\ e = b /\ u = handler[b].user
        BY <1>7, <2>3, <3>2 DEF Owners
      <3> QED
        BY <1>1, <2>3, <3>1, <3>2
    <2> QED
      BY <2>2, <2>3
  <1>9. OneOwner'
    <2> SUFFICES ASSUME NEW r \in registered', NEW s \in registered', r # s, r[2] = s[2]
                 PROVE  {r[1], s[1]} \in together
      BY <1>1 DEF OneOwner
    <2>1. \A x \in registered : x = <<x[1], x[2]>> /\ x[1] \in Clients /\ x[2] \in Users
      BY DEF Base, TypeOK
    <2>2. \A x \in registered' :
             x \in registered \/ (Kind(b) = "register" /\ x = <<b, handler[b].user>>)
      BY <1>1
    <2>3. CASE r \in registered /\ s \in registered
      BY <2>3 DEF OneOwner
    <2>4. ASSUME Kind(b) = "register", NEW x \in registered, x # <<b, handler[b].user>>,
                 x[2] = handler[b].user
          PROVE  {b, x[1]} \in together
      <3>1. x[1] # b /\ <<x[1], handler[b].user>> \in registered /\ x[1] \in Clients
        BY <2>1, <2>4
      <3> QED
        BY <1>7, <2>4, <3>1 DEF Owners
    <2>5. \A x, y : {x, y} = {y, x}
      OBVIOUS
    <2> QED
      BY <2>2, <2>3, <2>4, <2>5
  <1> QED
    BY <1>5, <1>6, <1>8, <1>9, <1>10

-----------------------------------------------------------------------------
(* The invariant *)

LEMMA InitAccounts == ASSUME Init PROVE AccountsInv
  <1> USE AccountsAssumption, IdleFacts DEF Init
  <1>1. \A b \in Clients : /\ handler[b] = Idle /\ At(b) = "idle" /\ Worker(b) = None
                           /\ cookie[b] = NoCookie
    BY DEF At, Worker
  <1>2. /\ file \in Store /\ Readable
        /\ \A u \in Users : file[u] # None => file[u].token = None
    BY DEF Store, Account, Readable
  <1>3. TypeOK
    <2>0. leaving \in BOOLEAN
      OBVIOUS
    <2>1. starts \in 0 .. MaxStarts
      OBVIOUS
    <2>2. /\ up \in SUBSET Workers /\ raced \subseteq Tokens
          /\ registered \subseteq Clients \X Users /\ revoked \subseteq Tokens
      OBVIOUS
    <2>3. /\ busy \in [Workers -> Clients \cup {None}]
          /\ handler \in [Clients -> HandlerStates]
          /\ cookie \in [Clients -> [user : Users \cup {None}, token : Tokens \cup {None}]]
          /\ count \in [Clients -> 0 .. MaxRequests]
      OBVIOUS
    <2> QED
      BY <1>1, <1>2, <2>0, <2>1, <2>2, <2>3 DEF TypeOK
  <1>4. OnWorkers /\ Forms
    BY <1>1 DEF OnWorkers, Forms, Knows, Running, Storing
  <1>5. EmptyWhileWritten /\ CutOff
    BY <1>2 DEF EmptyWhileWritten, CutOff, Readable
  <1>6. TokensOld
    BY <1>1, <1>2 DEF TokensOld, CookieTokens, RevokedOld, FileTokens, DataTokens, Issued, Writing
  <1>7. Sound(file)
    BY <1>2 DEF Sound
  <1>8. Careful
    BY <1>1, <1>7 DEF Careful, Alone, SoundData, Owners, OneOwner, Registering, Writing
  <1> QED
    BY <1>3, <1>4, <1>5, <1>6, <1>8 DEF AccountsInv, Base

LEMMA NextAccounts == ASSUME AccountsInv, [Next]_vars PROVE AccountsInv'
  <1> USE DEF AccountsInv
  <1>1. ASSUME QuietStep, Base' PROVE AccountsInv'
    <2>1. TypeOK
      BY DEF Base
    <2> QED
      BY <1>1, <2>1, QuietTokens, QuietCareful
  <1>2. CASE UNCHANGED vars
    <2>1. UNCHANGED <<file, up, leaving, starts, busy, handler, cookie, count,
                      registered, revoked, together, raced, cut>>
      BY <1>2 DEF vars
    <2>2. Base'
      BY <2>1 DEF Base, TypeOK, OnWorkers, Forms, Knows, EmptyWhileWritten, CutOff,
                  At, Kind, Worker
    <2> QED
      BY <1>1, <2>1, <2>2, sameQuiet
  <1>3. ASSUME NEW b \in Clients, NEW kind \in Kinds, NEW u \in Users \cup {None},
               kind \in {"register", "login"} => u \in Users,
               NEW w \in Workers, send(b, kind, u, w)
        PROVE  AccountsInv'
    BY <1>1, <1>3, sendBase, sendQuiet
  <1>4. ASSUME ClusterStep PROVE AccountsInv'
    <2>1. UNCHANGED <<file, handler, cookie, count, registered, revoked, together, raced>>
      BY <1>4 DEF ClusterStep, cluster_fork, worker_exit, sigint, start, history
    <2> QED
      BY <1>1, <1>4, <2>1, ClusterBase, sameQuiet
  <1>5. ASSUME NEW b \in Clients, retrieve_throws(b) PROVE AccountsInv'
    <2>1. QuietStep
      BY <1>5, CrashQuiet DEF retrieve_throws
    <2> QED
      BY <1>1, <1>5, <2>1, throwsBase
  <1>10. ASSUME ctrl_c PROVE AccountsInv'
    <2>1. QuietStep
      BY <1>10, CrashQuiet DEF ctrl_c
    <2> QED
      BY <1>1, <1>10, <2>1, ctrl_cBase
  <1>6. ASSUME NEW b \in Clients,
               \/ handle(b) \/ handle_cookie(b) \/ register_lookup(b) \/ login_lookup(b)
               \/ register_digest(b) \/ login_digest(b)
        PROVE  AccountsInv'
    <2>1. Base'
      BY <1>6, HandlerKinds, MoveBase, ReplyBase
    <2>2. QuietStep
      BY <1>6, HandlerQuiet
    <2> QED
      BY <1>1, <2>1, <2>2
  <1>7. ASSUME NEW b \in Clients, set_user(b) PROVE AccountsInv'
    BY <1>7, set_userBase, set_userTokens, set_userCareful
  <1>8. ASSUME NEW b \in Clients, persist_truncate(b) PROVE AccountsInv'
    BY <1>8, truncateBase, truncateTokens, truncateCareful
  <1>9. ASSUME NEW b \in Clients, persist_write(b) PROVE AccountsInv'
    BY <1>9, writeBase, writeTokens, writeCareful
  <1> QED
    BY <1>2, <1>3, <1>4, <1>5, <1>6, <1>7, <1>8, <1>9, <1>10
       DEF Next, Handler, Kinds, ClusterStep

(* Every handler, await, crash, signal and start keeps the invariant from  *)
(* which the theorems below follow: what a handler holds of the file has   *)
(* all that was stored without a race.                                     *)
THEOREM AccountsInvariant == Spec => []AccountsInv
  <1>1. Init => AccountsInv
    BY InitAccounts
  <1>2. AccountsInv /\ [Next]_vars => AccountsInv'
    BY NextAccounts
  <1> QED
    BY <1>1, <1>2, PTL DEF Spec

(* The file, the handlers and the cookies keep their types, and a worker   *)
(* is busy with one handler, which was given to it.                        *)
THEOREM AccountsTypeCorrect == Spec => []TypeOK
  BY AccountsInvariant, PTL DEF AccountsInv, Base

(* data/user.json is empty only inside persist, or after Ctrl-C has killed *)
(* a worker there: a worker that dies reading the empty file was running   *)
(* another handler than the one that fills it.  What Ctrl-C has cut off    *)
(* stays empty through every later start.  The file is broken only after   *)
(* two workers were inside set_user together.                              *)
THEOREM FileEmptyWhileWritten == Spec => []EmptyWhileWritten
  BY AccountsInvariant, PTL DEF AccountsInv, Base

(* What holds of the file, when it can be read, and of what handlers are   *)
(* about to write, holds of the contents.                                  *)
LEMMA ContentsSound == ASSUME AccountsInv, NEW s \in Contents PROVE Sound(s)
  <1>1. \/ Readable /\ s = file
        \/ \E b \in Clients : At(b) \in Writing /\ s = Data(b)
    BY DEF Contents, Inside, Writing, Data
  <1> QED
    BY <1>1 DEF AccountsInv, Careful, SoundData

(* As long as the accounts are not lost as a whole (Ctrl-C in the middle   *)
(* of persist, or two texts mixed), every account that was registered in a *)
(* set_user that raced with no other is in the file and in what is about   *)
(* to be written, whatever races there have been since.                    *)
THEOREM RegisteredKept == Spec => []AccountsKept
  <1>1. ASSUME AccountsInv, ~Lost PROVE Contents # {}
    <2>1. CASE Readable
      BY <2>1 DEF Contents
    <2>2. CASE file = Empty
      <3>1. PICK b \in Clients : At(b) = "write"
        BY <1>1, <2>2 DEF AccountsInv, Base, EmptyWhileWritten, Lost
      <3> QED
        BY <3>1 DEF Contents, Inside
    <2> QED
      BY <1>1, <2>1, <2>2 DEF Lost, Readable
  <1>2. AccountsInv => AccountsKept
    BY <1>1, ContentsSound DEF AccountsKept, Sound
  <1> QED
    BY <1>2, AccountsInvariant, PTL

(* A token that was logged out, in a set_user that raced with no other,    *)
(* stays out of the file and of what is about to be written: login stores  *)
(* a record that it has read before an await, but with a token of its own. *)
THEOREM TokensStayOut == Spec => []LoggedOutStays
  <1>1. AccountsInv => LoggedOutStays
    BY ContentsSound DEF LoggedOutStays, Sound
  <1> QED
    BY <1>1, AccountsInvariant, PTL

(* Two clients can be told that they own one name, both without a race     *)
(* inside set_user, only through the await between lookup and set_user in  *)
(* register.                                                               *)
THEOREM NamesHaveOneOwner == Spec => []OneOwner
  <1>1. AccountsInv => OneOwner
    BY DEF AccountsInv, Careful
  <1> QED
    BY <1>1, AccountsInvariant, PTL
=============================================================================
