------------------------- MODULE RequestParseProofs -------------------------
(***************************************************************************)
(* Theorems about RequestParse, for any number of workers, each of which   *)
(* parses any number of requests.                                          *)
(*                                                                         *)
(* A worker whose parse no other one has overlapped is the only one that   *)
(* calls strtok, so the static variable is where its own last call has     *)
(* left it; and nobody has cut its buffer up, because whoever does so      *)
(* finds the place in the middle of the other one's parse.                 *)
(***************************************************************************)
EXTENDS RequestParse, SequenceTheorems, TLAPS

(* How many header lines a worker has found, by the call it makes next. *)
Stage(w) ==
    LET found == Len(request[w].headers)
        lines == Len(form[w].names)
    IN  /\ at[w] \in {"line", "method", "path", "version"} => found = 0
        /\ at[w] \in {"header", "name", "value"} => found < lines \/ (lines = 0 /\ found = 0)
        /\ at[w] \in {"name", "value"} => lines # 0 \/ form[w].body
        /\ at[w] \in {"body", "done"} =>
              IF lines # 0 THEN found = lines ELSE found = 0 \/ (found = 1 /\ form[w].body)

(* The static variable of strtok.  It is at the start of a line only until *)
(* the owner of the line makes its next call.                              *)
Static ==
    /\ last.place # "end" => last.buf \in Workers
    /\ last.place = "rest" => at[last.buf] \in {"method", "name"}

(* Two workers that parse at the same time are known to. *)
Known == \A v, w \in Active : v # w => v \in overlapped

(* What worker w has found so far is its own. *)
OwnSoFar(w) ==
    /\ at[w] \notin {"line", "method"} => request[w].method = <<w, "method", 0>>
    /\ at[w] = "version" =>
          request[w].path = IF form[w].line = "path" THEN <<w, "path", 0>> ELSE NULL
    /\ at[w] \notin {"line", "method", "path", "version"} => request[w].path = <<w, "path", 0>>
    /\ form[w].names # <<>> =>
          \A i \in 1 .. Len(request[w].headers) :
              request[w].headers[i] = [name |-> "host", value |-> <<w, "value", i>>]
    /\ at[w] = "done" =>
          request[w].body = IF Headless(w)
                            THEN IF form[w].body THEN NULL ELSE <<w, "blank", 0>>
                            ELSE IF form[w].body THEN <<w, "body", 0>> ELSE NULL

(* The place of strtok is the one its last call has left. *)
LastOwn(w) ==
    /\ at[w] = "path" =>
          last = [buf |-> w, place |-> IF form[w].line = "path" THEN "path" ELSE "end", n |-> 0]
    /\ at[w] = "value" /\ ~Headless(w) =>
          IF form[w].valued \/ Line(w) < Len(form[w].names)
          THEN last = [buf |-> w, place |-> "value", n |-> Line(w)]
          ELSE last.place = "end"

(* Who follows a null pointer has not finished its parse; alone, it does   *)
(* so only on a request that cannot be parsed.                             *)
Crashes ==
    \A w \in Workers :
        crashed = w => at[w] # "done" /\ (w \notin overlapped => ~Parsable(w))

ParseInv ==
    /\ TypeOK
    /\ \A w \in Workers : Stage(w)
    /\ Static
    /\ Known
    /\ torn \subseteq overlapped
    /\ \A w \in Workers \ overlapped : w # crashed => OwnSoFar(w) /\ LastOwn(w)
    /\ Crashes

-----------------------------------------------------------------------------
(* The requests of the model *)

LEMMA NamesFacts ==
    ASSUME NEW f \in Forms
    PROVE  /\ Len(f.names) \in 0 .. 2 /\ f.body \in BOOLEAN
           /\ f.names = <<>> => f.valued
           /\ f.names = <<>> <=> Len(f.names) = 0
           /\ \A i \in 1 .. Len(f.names) : tolower(f.names[i]) = "host"
  <1>1. f.names \in {<<>>, <<"Host">>, <<"HOST", "host">>} /\ f.body \in BOOLEAN
       /\ (f.names = <<>> => f.valued)
    BY DEF Forms
  <1>2. CASE f.names = <<>>
    BY <1>1, <1>2
  <1>3. CASE f.names = <<"Host">>
    BY <1>1, <1>3 DEF tolower
  <1>4. CASE f.names = <<"HOST", "host">>
    <2>1. Len(f.names) = 2 /\ f.names[1] = "HOST" /\ f.names[2] = "host"
      BY <1>4
    <2>2. tolower("HOST") = "host" /\ tolower("host") = "host"
      BY DEF tolower
    <2>3. \A i \in 1 .. 2 : i = 1 \/ i = 2
      OBVIOUS
    <2> QED
      BY <1>1, <2>1, <2>2, <2>3
  <1> QED
    BY <1>1, <1>2, <1>3, <1>4

LEMMA Nothing == NoRequest \in Requests /\ NoRequest.headers = <<>> /\ Len(NoRequest.headers) = 0
  <1>1. <<>> \in Seq(Fields) /\ Len(<<>>) = 0
    BY EmptySeq
  <1> QED
    BY <1>1 DEF NoRequest, Requests, headers_create, Tokens

(* The first field that is named host is what headers_get returns. *)
LEMMA headers_getFirst ==
    ASSUME NEW S, NEW h \in Seq(S), Len(h) # 0, h[1].name = "host"
    PROVE  headers_get(h, "Host") = h[1].value
  <1> DEFINE found == {i \in 1 .. Len(h) : h[i].name = tolower("Host")}
             first == CHOOSE i \in found : \A j \in found : i <= j
  <1>1. Len(h) \in Nat /\ tolower("Host") = "host"
    BY LenProperties DEF tolower
  <1>2. 1 \in found /\ \A j \in found : 1 <= j
    BY <1>1
  <1>3. first \in found /\ \A j \in found : first <= j
    BY <1>2
  <1>4. first = 1
    BY <1>1, <1>2, <1>3
  <1>5. headers_get(h, "Host") = IF found = {} THEN NULL ELSE h[first].value
    BY DEF headers_get
  <1> QED
    BY <1>2, <1>4, <1>5

LEMMA headers_getNone == headers_get(<<>>, "Host") = NULL
  <1>1. {i \in 1 .. Len(<<>>) : <<>>[i].name = tolower("Host")} = {}
    BY EmptySeq
  <1> QED
    BY <1>1 DEF headers_get

-----------------------------------------------------------------------------
(* strtok *)

LastType == [buf : Workers \cup {NULL}, place : Places, n : 0 .. 2]

LEMMA FoundType == ASSUME TypeOK, Static, NEW delim PROVE Found(delim) \in Tokens
  <1>1. last.place \in Places /\ last.n \in 0 .. 2
    BY DEF TypeOK
  <1>2. CASE last.place = "end"
    BY <1>2 DEF Found, Tokens
  <1>3. CASE last.place # "end"
    <2>1. last.buf \in Workers
      BY <1>3 DEF Static
    <2>2. \A part \in Parts, n \in 0 .. 2 : <<last.buf, part, n>> \in Tokens
      BY <2>1 DEF Tokens
    <2>3. <<last.buf, "text", 0>> \in Tokens /\ <<last.buf, "value", last.n>> \in Tokens
      BY <1>1, <2>2 DEF Parts
    <2>4. <<last.buf, "path", 0>> \in Tokens /\ <<last.buf, "version", 0>> \in Tokens
      BY <1>1, <2>2 DEF Parts
    <2> QED
      BY <1>1, <1>3, <2>3, <2>4 DEF Found, Places
  <1> QED
    BY <1>2, <1>3

(* strtok(NULL, ...) in the middle of a parse *)
LEMMA strtok_nextInv ==
    ASSUME ParseInv, NEW v \in Workers, at[v] \in {"path", "version", "value"},
           NEW delim, strtok_next(v, delim), NEW to, at' = [at EXCEPT ![v] = to]
    PROVE  last' \in LastType /\ Static' /\ torn' \subseteq Workers /\ torn' \subseteq overlapped
  <1>1. last \in LastType /\ at \in [Workers -> Calls] /\ torn \subseteq Workers
    BY DEF ParseInv, TypeOK, LastType
  <1>2. /\ last' \in LastType /\ last'.place = After(delim) /\ last'.buf = last.buf
    <2>1. PICK place \in Places : place = After(delim)
      BY DEF After, Places
    <2>2. last' = [last EXCEPT !.place = place, !.n = 0]
      BY <2>1 DEF strtok_next
    <2>3. last' = [buf |-> last.buf, place |-> place, n |-> 0]
      BY <1>1, <2>2 DEF LastType
    <2>4. last.buf \in Workers \cup {NULL} /\ 0 \in 0 .. 2
      BY <1>1 DEF LastType
    <2> QED
      BY <2>1, <2>3, <2>4 DEF LastType
  <1>3. last'.place # "end" => last.place # "end"
    BY <1>2 DEF After
  <1>4. last'.place = "rest" => last.place = "rest"
    BY <1>2 DEF After
  <1>5. ASSUME last.place = "rest"
        PROVE  /\ last.buf \in Workers /\ last.buf # v
               /\ at[last.buf] \in {"method", "name"} /\ last.buf \in overlapped
    <2>1. last.buf \in Workers /\ at[last.buf] \in {"method", "name"}
      BY <1>5 DEF ParseInv, Static
    <2>2. last.buf \in Active /\ v \in Active /\ last.buf # v
      BY <2>1 DEF Active
    <2> QED
      BY <2>1, <2>2 DEF ParseInv, Known
  <1>6. Static'
    <2>1. last'.place # "end" => last'.buf \in Workers
      BY <1>2, <1>3 DEF ParseInv, Static
    <2>2. last'.place = "rest" => at'[last'.buf] \in {"method", "name"}
      BY <1>1, <1>2, <1>4, <1>5
    <2> QED
      BY <2>1, <2>2 DEF Static
  <1>7. torn' \subseteq torn \cup {last.buf} /\ (last.place # "rest" => torn' = torn)
    BY DEF strtok_next
  <1> QED
    BY <1>1, <1>2, <1>5, <1>6, <1>7 DEF ParseInv

LEMMA strtok_atInv ==
    ASSUME ParseInv, NEW v \in Workers, NEW place \in Places, NEW n \in 0 .. 2,
           strtok_at(v, place, n), NEW to, at' = [at EXCEPT ![v] = to],
           place = "rest" => to \in {"method", "name"}
    PROVE  /\ last' \in LastType /\ Static' /\ torn' \subseteq Workers /\ torn' \subseteq overlapped
           /\ last' = [buf |-> v, place |-> place, n |-> n]
  <1>1. last' = [buf |-> v, place |-> place, n |-> n] /\ torn' = torn
    BY DEF strtok_at
  <1>2. at'[v] = to
    BY DEF ParseInv, TypeOK
  <1>3. last' \in LastType /\ last'.buf = v /\ last'.place = place
    BY <1>1 DEF LastType
  <1>4. Static'
    BY <1>2, <1>3 DEF Static
  <1> QED
    BY <1>1, <1>3, <1>4 DEF ParseInv, TypeOK

(* A call of a worker in the middle of its parse: what it leaves to show   *)
(* is about that worker.                                                   *)
LEMMA ParseStep ==
    ASSUME ParseInv, NEW v \in Workers, v \in Active,
           NEW to \in Calls, at' = [at EXCEPT ![v] = to],
           NEW r \in Requests, request' = [request EXCEPT ![v] = r],
           UNCHANGED <<form, overlapped>>,
           last' \in LastType, Static', torn' \subseteq Workers, torn' \subseteq overlapped,
           Stage(v)',
           v \notin overlapped /\ v # crashed' => OwnSoFar(v)' /\ LastOwn(v)',
           crashed = NULL, crashed' \in {v, NULL},
           crashed' = v => to # "done" /\ (v \notin overlapped => ~Parsable(v))
    PROVE  ParseInv'
  <1>1. /\ form \in [Workers -> Forms] /\ at \in [Workers -> Calls]
        /\ request \in [Workers -> Requests]
    BY DEF ParseInv, TypeOK
  <1>2. \A w \in Workers : w # v => at'[w] = at[w] /\ request'[w] = request[w]
    BY <1>1
  <1>3. \A w \in Workers : Stage(w)'
    BY <1>2 DEF ParseInv, Stage
  <1>4. TypeOK'
    <2>1. ASSUME NEW w \in Workers
          PROVE  Len(request'[w].headers)
                    <= IF Headless(w) /\ form[w].body THEN 1 ELSE Len(form[w].names)
      <3>1. at'[w] \in Calls /\ request'[w] \in Requests
        BY <1>1
      <3>2. Len(request'[w].headers) \in Nat
        BY <3>1, LenProperties DEF Requests
      <3>3. Len(form[w].names) \in Nat /\ form[w].body \in BOOLEAN
        BY <1>1, NamesFacts
      <3>4. Stage(w)' /\ form' = form
        BY <1>3
      <3>5. PICK found \in Nat, lines \in Nat :
               found = Len(request'[w].headers) /\ lines = Len(form[w].names)
        BY <3>2, <3>3
      <3>6. found <= lines \/ (found = 1 /\ form[w].body /\ lines = 0)
        BY <3>1, <3>4, <3>5 DEF Stage, Calls
      <3>7. Headless(w) <=> lines = 0
        BY <1>1, <3>5, NamesFacts DEF Headless
      <3>8. CASE Headless(w) /\ form[w].body
        <4>1. found <= 1
          BY <3>6, <3>7, <3>8
        <4> QED
          BY <3>5, <3>8, <4>1
      <3>9. CASE ~(Headless(w) /\ form[w].body)
        <4>1. found <= lines
          BY <3>6, <3>7, <3>9
        <4> QED
          BY <3>5, <3>9, <4>1
      <3> QED
        BY <3>8, <3>9
    <2>2. at' \in [Workers -> Calls] /\ request' \in [Workers -> Requests]
      BY <1>1
    <2>3. /\ form' \in [Workers -> Forms] /\ torn' \in SUBSET Workers
          /\ overlapped' \in SUBSET Workers /\ crashed' \in Workers \cup {NULL}
      BY DEF ParseInv, TypeOK
    <2>4. form' = form
      OBVIOUS
    <2> QED
      BY <2>1, <2>2, <2>3, <2>4 DEF TypeOK, LastType, Headless
  <1>5. Known'
    <2>1. Active' \subseteq Active
      BY <1>2 DEF Active
    <2> QED
      BY <2>1 DEF ParseInv, Known
  <1>6. ASSUME NEW w \in Workers \ overlapped, w # crashed' PROVE OwnSoFar(w)' /\ LastOwn(w)'
    <2>1. CASE w = v
      BY <1>6, <2>1
    <2>2. CASE w # v
      <3>1. at[w] \in {"line", "done"}
        BY <1>6, <2>2 DEF ParseInv, Known, Active
      <3>2. at'[w] = at[w] /\ request'[w] = request[w] /\ form' = form
        BY <1>2, <1>6, <2>2
      <3>3. OwnSoFar(w)
        BY <1>6, ParseAssumption DEF ParseInv
      <3>4. OwnSoFar(w)'
        BY <3>2, <3>3 DEF OwnSoFar, Headless
      <3> QED
        BY <3>1, <3>2, <3>4 DEF LastOwn
    <2> QED
      BY <2>1, <2>2
  <1>7. Crashes'
    <2>1. ASSUME NEW w \in Workers, crashed' = w
          PROVE  at'[w] # "done" /\ (w \notin overlapped' => ~Parsable(w)')
      <3>1. w = v /\ at'[w] = to
        BY <1>1, <2>1, ParseAssumption
      <3>2. Parsable(v)' <=> Parsable(v)
        BY DEF Parsable, Headless
      <3> QED
        BY <2>1, <3>1, <3>2
    <2> QED
      BY <2>1 DEF Crashes
  <1> QED
    BY <1>3, <1>4, <1>5, <1>6, <1>7 DEF ParseInv

-----------------------------------------------------------------------------
(* request_parse *)

(* What is known of a worker before its step. *)
LEMMA Before ==
    ASSUME ParseInv, NEW v \in Workers
    PROVE  /\ request[v] \in Requests /\ form[v] \in Forms /\ at[v] \in Calls
           /\ Len(request[v].headers) \in Nat /\ Len(form[v].names) \in 0 .. 2
           /\ form[v].names = <<>> <=> Len(form[v].names) = 0
           /\ Stage(v) /\ (v \notin overlapped => v \notin torn)
           /\ crashed = NULL /\ v \notin overlapped => OwnSoFar(v) /\ LastOwn(v)
  <1>1. request[v] \in Requests /\ form[v] \in Forms /\ at[v] \in Calls
    BY DEF ParseInv, TypeOK
  <1>2. Len(request[v].headers) \in Nat
    BY <1>1, LenProperties DEF Requests
  <1> QED
    BY <1>1, <1>2, NamesFacts, ParseAssumption DEF ParseInv

LEMMA parse_lineInv == ASSUME ParseInv, NEW v \in Workers, parse_line(v) PROVE ParseInv'
  <1>1. /\ at[v] = "line" /\ at' = [at EXCEPT ![v] = "method"] /\ crashed = NULL
        /\ overlapped' = IF Active = {} THEN overlapped ELSE overlapped \cup Active \cup {v}
        /\ UNCHANGED <<form, request>>
        /\ crashed' = IF form[v].line = "none" THEN v ELSE NULL
    BY DEF parse_line, Call, Follow
  <1>2. /\ last' \in LastType /\ Static' /\ torn' \subseteq Workers /\ torn' \subseteq overlapped
    <2>1. PICK place \in Places : strtok_at(v, place, 0) /\ 0 \in 0 .. 2
      BY DEF parse_line, Places
    <2> QED
      BY <1>1, <2>1, strtok_atInv
  <1>3. \A w \in Workers : at'[w] = IF w = v THEN "method" ELSE at[w]
    BY <1>1 DEF ParseInv, TypeOK
  <1>4. Active' = Active \cup {v} /\ Active \subseteq Workers
    BY <1>1, <1>3 DEF Active
  <1>5. overlapped \subseteq overlapped' /\ overlapped' \subseteq Workers
    BY <1>1, <1>4 DEF ParseInv, TypeOK
  <1>6. TypeOK'
    <2>1. at' \in [Workers -> Calls]
      BY <1>1 DEF ParseInv, TypeOK, Calls
    <2> QED
      BY <1>1, <1>2, <1>5, <2>1 DEF ParseInv, TypeOK, LastType, Headless
  <1>7. \A w \in Workers : Stage(w)'
    BY <1>1, <1>3 DEF ParseInv, Stage
  <1>8. Known'
    <2>1. CASE Active = {}
      BY <1>4, <2>1 DEF Known
    <2>2. CASE Active # {}
      BY <1>1, <1>4, <2>2 DEF Known
    <2> QED
      BY <2>1, <2>2
  <1>9. ASSUME NEW w \in Workers \ overlapped', w # crashed' PROVE OwnSoFar(w)' /\ LastOwn(w)'
    <2>1. OwnSoFar(w) /\ request' = request /\ form' = form
      BY <1>1, <1>5, <1>9, ParseAssumption DEF ParseInv
    <2>2. CASE w = v
      <3>1. at'[w] = "method"
        BY <1>3, <2>2
      <3> QED
        BY <1>1, <2>1, <2>2, <3>1 DEF ParseInv, OwnSoFar, LastOwn
    <2>3. CASE w # v
      <3>1. at'[w] = at[w] /\ at[w] \in {"line", "done"}
        BY <1>1, <1>3, <1>9, <2>3 DEF Active
      <3> QED
        BY <2>1, <3>1 DEF OwnSoFar, LastOwn, Headless
    <2> QED
      BY <2>2, <2>3
  <1>10. Crashes'
    BY <1>1, <1>3, ParseAssumption DEF Crashes, Parsable
  <1> QED
    BY <1>2, <1>5, <1>6, <1>7, <1>8, <1>9, <1>10 DEF ParseInv

LEMMA request_destroyInv ==
    ASSUME ParseInv, NEW v \in Workers, request_destroy(v) PROVE ParseInv'
  <1>1. /\ at[v] = "done" /\ crashed = NULL /\ at' = [at EXCEPT ![v] = "line"]
        /\ request' = [request EXCEPT ![v] = NoRequest]
        /\ torn' = torn \ {v} /\ overlapped' = overlapped \ {v} /\ UNCHANGED <<last, crashed>>
    BY DEF request_destroy
  <1>2. PICK f \in Forms : form' = [form EXCEPT ![v] = f]
    BY DEF request_destroy
  <1>3. \A w \in Workers : /\ at'[w] = IF w = v THEN "line" ELSE at[w]
                           /\ request'[w] = IF w = v THEN NoRequest ELSE request[w]
                           /\ form'[w] = IF w = v THEN f ELSE form[w]
    BY <1>1, <1>2 DEF ParseInv, TypeOK
  <1>4. Active' = Active /\ v \notin Active
    BY <1>1, <1>3 DEF Active
  <1>5. TypeOK'
    <2>1. /\ at' \in [Workers -> Calls] /\ request' \in [Workers -> Requests]
          /\ form' \in [Workers -> Forms]
      BY <1>1, <1>2, Nothing DEF ParseInv, TypeOK, Calls
    <2>2. ASSUME NEW w \in Workers
          PROVE  Len(request'[w].headers)
                    <= IF Headless(w)' /\ form'[w].body THEN 1 ELSE Len(form'[w].names)
      <3>1. CASE w = v
        <4>1. Len(request'[w].headers) = 0 /\ Len(form'[w].names) \in 0 .. 2
          BY <1>3, <3>1, Nothing, NamesFacts
        <4>2. PICK lines \in 0 .. 2 : lines = Len(form'[w].names)
          BY <4>1
        <4>3. 0 <= lines
          BY <4>2
        <4> QED
          BY <4>1, <4>2, <4>3
      <3>2. CASE w # v
        BY <1>3, <3>2 DEF ParseInv, TypeOK, Headless
      <3> QED
        BY <3>1, <3>2
    <2> QED
      BY <1>1, <2>1, <2>2 DEF ParseInv, TypeOK
  <1>6. \A w \in Workers : Stage(w)'
    BY <1>3, Nothing DEF ParseInv, Stage
  <1>7. Static'
    BY <1>1, <1>3 DEF ParseInv, Static
  <1>8. Known' /\ torn' \subseteq overlapped'
    BY <1>1, <1>4 DEF ParseInv, Known
  <1>9. ASSUME NEW w \in Workers \ overlapped', w # crashed' PROVE OwnSoFar(w)' /\ LastOwn(w)'
    <2>1. CASE w = v
      <3>1. at'[w] = "line" /\ Len(request'[w].headers) = 0
        BY <1>3, <2>1, Nothing
      <3> QED
        BY <3>1 DEF OwnSoFar, LastOwn
    <2>2. CASE w # v
      <3>1. OwnSoFar(w) /\ LastOwn(w)
        BY <1>1, <1>9, <2>2, ParseAssumption DEF ParseInv
      <3>2. at'[w] = at[w] /\ request'[w] = request[w] /\ form'[w] = form[w] /\ last' = last
        BY <1>1, <1>3, <2>2
      <3> QED
        BY <3>1, <3>2 DEF OwnSoFar, LastOwn, Line, Headless
    <2> QED
      BY <2>1, <2>2
  <1>10. Crashes'
    BY <1>1, ParseAssumption DEF Crashes
  <1> QED
    BY <1>5, <1>6, <1>7, <1>8, <1>9, <1>10 DEF ParseInv

LEMMA parse_methodInv == ASSUME ParseInv, NEW v \in Workers, parse_method(v) PROVE ParseInv'
  <1>1. /\ at[v] = "method" /\ at' = [at EXCEPT ![v] = "path"] /\ crashed = NULL
        /\ request' = [request EXCEPT ![v].method = <<v, "method", 0>>]
        /\ UNCHANGED <<form, crashed, overlapped>>
        /\ strtok_at(v, IF form[v].line = "path" THEN "path" ELSE "end", 0)
    BY DEF parse_method, Call
  <1>2. PICK r : r = [request[v] EXCEPT !.method = <<v, "method", 0>>]
    OBVIOUS
  <1>3. /\ r \in Requests /\ r.method = <<v, "method", 0>> /\ r.headers = request[v].headers
    <2>1. <<v, "method", 0>> \in Tokens /\ request[v] \in Requests
      BY Before DEF Tokens, Parts
    <2> QED
      BY <1>2, <2>1 DEF Requests
  <1>4. request' = [request EXCEPT ![v] = r] /\ at'[v] = "path" /\ request'[v] = r
    BY <1>1, <1>2 DEF ParseInv, TypeOK
  <1>5. /\ last' \in LastType /\ Static' /\ torn' \subseteq Workers /\ torn' \subseteq overlapped
        /\ last' = [buf |-> v, place |-> IF form[v].line = "path" THEN "path" ELSE "end", n |-> 0]
    <2>1. (IF form[v].line = "path" THEN "path" ELSE "end") \in Places \ {"rest"} /\ 0 \in 0 .. 2
      BY DEF Places
    <2> QED
      BY <1>1, <2>1, strtok_atInv
  <1>6. Len(r.headers) = 0
    <2>1. Stage(v)
      BY Before
    <2>2. Len(request[v].headers) = 0
      BY <1>1, <2>1 DEF Stage
    <2> QED
      BY <1>3, <2>2
  <1>7. Stage(v)'
    BY <1>4, <1>6 DEF Stage
  <1>8. OwnSoFar(v)' /\ LastOwn(v)'
    BY <1>1, <1>3, <1>4, <1>5, <1>6 DEF OwnSoFar, LastOwn
  <1>9. v \in Active /\ "path" \in Calls /\ crashed' = NULL
    BY <1>1 DEF Active, Calls
  <1> QED
    BY <1>1, <1>3, <1>4, <1>5, <1>7, <1>8, <1>9, ParseStep, ParseAssumption

LEMMA parse_pathInv == ASSUME ParseInv, NEW v \in Workers, parse_path(v) PROVE ParseInv'
  <1>1. /\ at[v] = "path" /\ at' = [at EXCEPT ![v] = "version"] /\ crashed = NULL
        /\ request' = [request EXCEPT ![v].path = Found(" ")]
        /\ UNCHANGED <<form, crashed, overlapped>> /\ strtok_next(v, " ")
    BY DEF parse_path, Call
  <1>2. PICK r, found : found = Found(" ") /\ r = [request[v] EXCEPT !.path = found]
    OBVIOUS
  <1>3. /\ r \in Requests /\ r.method = request[v].method /\ r.path = found
        /\ r.headers = request[v].headers
    <2>1. found \in Tokens /\ request[v] \in Requests
      BY <1>2, FoundType, Before DEF ParseInv
    <2> QED
      BY <1>2, <2>1 DEF Requests
  <1>4. request' = [request EXCEPT ![v] = r] /\ at'[v] = "version" /\ request'[v] = r
    BY <1>1, <1>2 DEF ParseInv, TypeOK
  <1>5. last' \in LastType /\ Static' /\ torn' \subseteq Workers /\ torn' \subseteq overlapped
    BY <1>1, strtok_nextInv
  <1>6. Len(r.headers) = 0
    <2>1. Stage(v)
      BY Before
    <2>2. Len(request[v].headers) = 0
      BY <1>1, <2>1 DEF Stage
    <2> QED
      BY <1>3, <2>2
  <1>7. Stage(v)'
    BY <1>4, <1>6 DEF Stage
  <1>8. ASSUME v \notin overlapped PROVE OwnSoFar(v)' /\ LastOwn(v)'
    <2>1. /\ last = [buf |-> v, place |-> IF form[v].line = "path" THEN "path" ELSE "end", n |-> 0]
          /\ request[v].method = <<v, "method", 0>>
      BY <1>1, <1>8, Before DEF OwnSoFar, LastOwn
    <2>2. found = IF form[v].line = "path" THEN <<v, "path", 0>> ELSE NULL
      BY <1>2, <2>1 DEF Found
    <2> QED
      <3>1. OwnSoFar(v)'
        <4>1. /\ form' = form /\ at'[v] = "version" /\ Len(request'[v].headers) = 0
              /\ request'[v].method = <<v, "method", 0>>
              /\ request'[v].path = IF form[v].line = "path" THEN <<v, "path", 0>> ELSE NULL
          BY <1>1, <1>3, <1>4, <1>6, <2>1, <2>2
        <4>2. (\A i \in 1 .. 0 : FALSE) /\ "version" # "done"
          OBVIOUS
        <4> QED
          BY <4>1, <4>2, Zenon DEF OwnSoFar
      <3>2. LastOwn(v)'
        BY <1>4 DEF LastOwn
      <3> QED
        BY <3>1, <3>2
  <1>9. v \in Active /\ "version" \in Calls /\ crashed' = NULL
    BY <1>1 DEF Active, Calls
  <1> QED
    BY <1>1, <1>3, <1>4, <1>5, <1>7, <1>8, <1>9, ParseStep, ParseAssumption

LEMMA parse_versionInv == ASSUME ParseInv, NEW v \in Workers, parse_version(v) PROVE ParseInv'
  <1>1. /\ at[v] = "version" /\ at' = [at EXCEPT ![v] = "header"] /\ crashed = NULL
        /\ crashed' = IF request[v].path = NULL THEN v ELSE NULL
        /\ UNCHANGED <<form, request, overlapped>> /\ strtok_next(v, " ")
    BY DEF parse_version, Call, Follow
  <1>2. /\ request' = [request EXCEPT ![v] = request[v]] /\ at'[v] = "header"
        /\ request'[v] = request[v] /\ request[v] \in Requests
    BY <1>1, Before DEF ParseInv, TypeOK
  <1>3. last' \in LastType /\ Static' /\ torn' \subseteq Workers /\ torn' \subseteq overlapped
    BY <1>1, strtok_nextInv
  <1>4. Len(request[v].headers) = 0
    BY <1>1, Before DEF Stage
  <1>5. Stage(v)'
    <2>1. Len(form[v].names) = 0 \/ 0 < Len(form[v].names)
      BY Before
    <2> QED
      BY <1>1, <1>2, <1>4, <2>1 DEF Stage
  <1>6. ASSUME v \notin overlapped
        PROVE  /\ request[v].method = <<v, "method", 0>>
               /\ request[v].path = IF form[v].line = "path" THEN <<v, "path", 0>> ELSE NULL
    BY <1>1, <1>6, Before DEF OwnSoFar
  <1>7. v \notin overlapped /\ v # crashed' => OwnSoFar(v)' /\ LastOwn(v)'
    <2>1. LastOwn(v)'
      BY <1>2 DEF LastOwn
    <2>2. ASSUME v \notin overlapped, v # crashed' PROVE OwnSoFar(v)'
      <3>1. request[v].path = <<v, "path", 0>>
        BY <1>1, <1>6, <2>2
      <3> QED
        <4>1. /\ at'[v] = "header" /\ Len(request'[v].headers) = 0
              /\ request'[v].method = <<v, "method", 0>> /\ request'[v].path = <<v, "path", 0>>
          BY <1>1, <1>2, <1>4, <1>6, <2>2, <3>1
        <4>2. (\A i \in 1 .. 0 : FALSE) /\ "header" # "version" /\ "header" # "done"
          OBVIOUS
        <4> QED
          BY <4>1, <4>2, Zenon DEF OwnSoFar
    <2> QED
      BY <2>1, <2>2
  <1>8. crashed' = v => (v \notin overlapped => ~Parsable(v))
    <2>1. <<v, "path", 0>> \in Workers \X Parts \X (0 .. 2)
      BY DEF Parts
    <2> QED
      BY <1>1, <1>6, <2>1, ParseAssumption DEF Parsable
  <1>9. v \in Active /\ "header" \in Calls /\ crashed' \in {v, NULL}
    BY <1>1 DEF Active, Calls
  <1> QED
    BY <1>1, <1>2, <1>3, <1>5, <1>7, <1>8, <1>9, ParseStep, ParseAssumption

LEMMA parse_headerInv == ASSUME ParseInv, NEW v \in Workers, parse_header(v) PROVE ParseInv'
  <1>1. /\ at[v] = "header" /\ crashed = NULL /\ UNCHANGED <<form, request, crashed, overlapped>>
    BY DEF parse_header, Call
  <1>2. PICK to \in {"name", "body"}, place \in {"rest", "end"} :
           /\ at' = [at EXCEPT ![v] = to] /\ strtok_at(v, place, 0)
           /\ place = "rest" => to = "name"
           /\ to = "name" => form[v].names # <<>> \/ form[v].body
           /\ to = "body" => form[v].names = <<>>
    <2>1. CASE Headless(v) /\ ~form[v].body
      BY <2>1 DEF parse_header, Call, Headless
    <2>2. CASE ~(Headless(v) /\ ~form[v].body)
      BY <2>2 DEF parse_header, Call, Headless
    <2> QED
      BY <2>1, <2>2
  <1>3. /\ request' = [request EXCEPT ![v] = request[v]] /\ at'[v] = to
        /\ request'[v] = request[v] /\ request[v] \in Requests
    BY <1>1, <1>2, Before DEF ParseInv, TypeOK
  <1>4. last' \in LastType /\ Static' /\ torn' \subseteq Workers /\ torn' \subseteq overlapped
    <2>1. place \in Places /\ 0 \in 0 .. 2
      BY <1>2 DEF Places
    <2>2. place = "rest" => to \in {"method", "name"}
      BY <1>2
    <2> QED
      BY <1>2, <2>1, <2>2, strtok_atInv
  <1>5. Stage(v)'
    <2>1. /\ Stage(v)
          /\ form[v].names = <<>> <=> Len(form[v].names) = 0
          /\ Len(form[v].names) \in 0 .. 2 /\ Len(request[v].headers) \in Nat
      BY Before
    <2>2. PICK found \in Nat, lines \in 0 .. 2 :
             found = Len(request[v].headers) /\ lines = Len(form[v].names)
      BY <2>1
    <2>3. found < lines \/ (lines = 0 /\ found = 0)
      BY <1>1, <2>1, <2>2 DEF Stage
    <2>4. CASE to = "name"
      BY <1>1, <1>2, <1>3, <2>1, <2>2, <2>3, <2>4 DEF Stage
    <2>5. CASE to = "body"
      <3>1. lines = 0 /\ found = 0
        BY <1>2, <2>1, <2>2, <2>3, <2>5
      <3> QED
        BY <1>1, <1>3, <2>2, <2>5, <3>1 DEF Stage
    <2> QED
      BY <2>4, <2>5
  <1>6. ASSUME v \notin overlapped PROVE OwnSoFar(v)' /\ LastOwn(v)'
    <2>1. OwnSoFar(v)
      BY <1>1, <1>6, Before
    <2> QED
      BY <1>1, <1>2, <1>3, <2>1 DEF OwnSoFar, LastOwn
  <1>7. crashed' = NULL
    BY <1>1
  <1>8. v \in Active /\ to \in Calls
    BY <1>1 DEF Active, Calls
  <1> QED
    BY <1>1, <1>2, <1>3, <1>4, <1>5, <1>6, <1>7, <1>8, ParseStep, ParseAssumption

LEMMA parse_nameInv == ASSUME ParseInv, NEW v \in Workers, parse_name(v) PROVE ParseInv'
  <1>1. /\ at[v] = "name" /\ crashed = NULL /\ at' = [at EXCEPT ![v] = "value"]
        /\ UNCHANGED <<form, request, crashed, overlapped>>
    BY DEF parse_name, Call
  <1>2. /\ Stage(v)
        /\ form[v].names = <<>> <=> Len(form[v].names) = 0
        /\ Len(form[v].names) \in 0 .. 2 /\ Len(request[v].headers) \in Nat
    BY Before
  <1>3. PICK place \in {"value", "text", "end"}, n \in 0 .. 2 :
           /\ strtok_at(v, place, n)
           /\ ~Headless(v) /\ v \notin torn =>
                 IF form[v].valued \/ Line(v) < Len(form[v].names)
                 THEN place = "value" /\ n = Line(v)
                 ELSE place = "end"
    <2>1. ASSUME form[v].names # <<>> PROVE Line(v) \in 0 .. 2
      <3>1. PICK found \in Nat, lines \in 0 .. 2 :
               found = Len(request[v].headers) /\ lines = Len(form[v].names)
        BY <1>2
      <3>2. found < lines
        BY <1>1, <1>2, <2>1, <3>1 DEF Stage
      <3>3. found + 1 \in 0 .. 2
        BY ONLY <3>2, found \in Nat, lines \in 0 .. 2
      <3> QED
        BY <3>1, <3>3 DEF Line
    <2> DEFINE valued == form[v].valued \/ Line(v) < Len(form[v].names)
    <2>2. CASE ~Headless(v) /\ valued /\ strtok_at(v, "value", Line(v))
      BY <2>1, <2>2 DEF Headless
    <2>3. CASE Headless(v) /\ strtok_at(v, "text", 0)
      BY <2>3
    <2>4. CASE (Headless(v) \/ ~valued \/ v \in torn) /\ strtok_at(v, "end", 0)
      BY <2>4
    <2> QED
      BY <2>2, <2>3, <2>4 DEF parse_name
  <1>4. /\ request' = [request EXCEPT ![v] = request[v]] /\ at'[v] = "value"
        /\ request'[v] = request[v] /\ request[v] \in Requests
    BY <1>1, Before DEF ParseInv, TypeOK
  <1>5. /\ last' \in LastType /\ Static' /\ torn' \subseteq Workers /\ torn' \subseteq overlapped
        /\ last' = [buf |-> v, place |-> place, n |-> n]
    <2>1. place \in Places /\ place # "rest"
      BY <1>3 DEF Places
    <2> QED
      BY <1>1, <1>3, <2>1, strtok_atInv
  <1>6. Stage(v)'
    BY <1>1, <1>2, <1>4 DEF Stage
  <1>7. ASSUME v \notin overlapped PROVE OwnSoFar(v)' /\ LastOwn(v)'
    <2>1. OwnSoFar(v) /\ v \notin torn
      BY <1>1, <1>7, Before
    <2>2. Line(v)' = Line(v) /\ Headless(v)' = Headless(v)
      BY <1>1 DEF Line, Headless
    <2>3. LastOwn(v)'
      BY <1>1, <1>3, <1>4, <1>5, <2>1, <2>2 DEF LastOwn
    <2>4. OwnSoFar(v)'
      BY <1>1, <1>4, <2>1 DEF OwnSoFar
    <2> QED
      BY <2>3, <2>4
  <1>8. crashed' = NULL
    BY <1>1
  <1>9. v \in Active /\ "value" \in Calls
    BY <1>1 DEF Active, Calls
  <1> QED
    BY <1>1, <1>4, <1>5, <1>6, <1>7, <1>8, <1>9, ParseStep, ParseAssumption

LEMMA parse_valueInv == ASSUME ParseInv, NEW v \in Workers, parse_value(v) PROVE ParseInv'
  <1>0. /\ request[v] \in Requests /\ form[v] \in Forms /\ Stage(v)
        /\ form[v].names = <<>> <=> Len(form[v].names) = 0
        /\ Len(form[v].names) \in 0 .. 2 /\ Len(request[v].headers) \in Nat
    BY Before
  <1>1. /\ at[v] = "value" /\ crashed = NULL /\ strtok_next(v, "")
        /\ crashed' = (IF Found("") = NULL THEN v ELSE NULL) /\ UNCHANGED <<form, overlapped>>
    BY DEF parse_value, Call, Follow
  <1>2. PICK count \in Nat, lines \in 0 .. 2 :
           count = Len(request[v].headers) /\ lines = Len(form[v].names)
    BY <1>0
  <1>3. /\ Line(v) = count + 1
        /\ count < lines \/ (lines = 0 /\ count = 0)
        /\ lines # 0 \/ form[v].body
    BY <1>0, <1>1, <1>2 DEF Stage, Line
  <1>4. PICK to : to = IF count + 1 < lines THEN "header" ELSE "body"
    OBVIOUS
  <1>5. at' = [at EXCEPT ![v] = to] /\ to \in {"header", "body"}
    BY <1>2, <1>3, <1>4 DEF parse_value, Call, HeaderFollows
  <1>6. PICK found \in Tokens : found = Found("")
    BY FoundType DEF ParseInv
  <1>7. PICK name \in {"host", "text"} :
           /\ request' = [request EXCEPT ![v].headers =
                             Append(@, [name |-> name, value |-> found])]
           /\ lines # 0 => name = "host"
    <2>1. CASE form[v].names = <<>>
      <3>1. tolower("text") = "text" /\ Line(v) > Len(form[v].names)
        BY <1>0, <1>2, <1>3, <2>1 DEF tolower
      <3> QED
        BY <1>0, <1>2, <1>6, <2>1, <3>1 DEF parse_value, headers_set
    <2>2. CASE form[v].names # <<>>
      <3>1. Line(v) \in 1 .. lines
        BY <1>0, <1>2, <1>3, <2>2
      <3>2. tolower(form[v].names[Line(v)]) = "host"
        BY <1>0, <1>2, <3>1, NamesFacts
      <3>3. ~(Line(v) > Len(form[v].names))
        BY <1>2, <1>3, <3>1
      <3> QED
        BY <1>6, <2>2, <3>2, <3>3 DEF parse_value, headers_set
    <2> QED
      BY <2>1, <2>2
  <1>8. PICK h : h = Append(request[v].headers, [name |-> name, value |-> found])
    OBVIOUS
  <1>9. /\ h \in Seq(Fields) /\ Len(h) = count + 1
        /\ \A i \in 1 .. count : h[i] = request[v].headers[i]
        /\ h[count + 1] = [name |-> name, value |-> found]
    <2>1. request[v].headers \in Seq(Fields) /\ [name |-> name, value |-> found] \in Fields
      BY <1>0, <1>6, <1>7 DEF Requests, Fields
    <2> QED
      BY <1>2, <1>8, <2>1, AppendProperties
  <1>10. PICK r : r = [request[v] EXCEPT !.headers = h]
    OBVIOUS
  <1>11. /\ r \in Requests /\ r.method = request[v].method /\ r.path = request[v].path
         /\ r.headers = h
    BY <1>0, <1>9, <1>10 DEF Requests
  <1>12. request' = [request EXCEPT ![v] = r] /\ at'[v] = to /\ request'[v] = r
    BY <1>5, <1>7, <1>8, <1>10 DEF ParseInv, TypeOK
  <1>13. last' \in LastType /\ Static' /\ torn' \subseteq Workers /\ torn' \subseteq overlapped
    BY <1>1, <1>5, strtok_nextInv
  <1>14. Stage(v)'
    <2>1. Len(request'[v].headers) = count + 1 /\ Len(form'[v].names) = lines /\ form' = form
      BY <1>1, <1>2, <1>9, <1>11, <1>12
    <2>2. CASE to = "header"
      <3>1. count + 1 < lines
        BY <1>4, <2>2
      <3> QED
        BY <1>12, <2>1, <2>2, <3>1 DEF Stage
    <2>3. CASE to = "body"
      <3>1. ~(count + 1 < lines)
        BY <1>4, <2>3
      <3>2. IF lines # 0 THEN count + 1 = lines ELSE count + 1 = 1 /\ form[v].body
        BY <1>2, <1>3, <3>1
      <3> QED
        BY <1>12, <2>1, <2>3, <3>2 DEF Stage
    <2> QED
      BY <1>5, <2>2, <2>3
  <1>15. ASSUME v \notin overlapped, lines # 0
         PROVE  /\ found = <<v, "value", count + 1>> \/ (found = NULL /\ ~form[v].valued)
                /\ count + 1 \in 0 .. 2
    <2>1. IF form[v].valued \/ Line(v) < Len(form[v].names)
          THEN last = [buf |-> v, place |-> "value", n |-> count + 1]
          ELSE last.place = "end"
      BY <1>0, <1>1, <1>2, <1>3, <1>15, Before DEF LastOwn, Headless
    <2>2. found = <<v, "value", count + 1>> \/ (found = NULL /\ ~form[v].valued)
      BY <1>6, <2>1 DEF Found
    <2>3. count \in Nat /\ lines \in 0 .. 2 /\ count < lines
      BY <1>3, <1>15
    <2>4. count + 1 \in 0 .. 2
      BY ONLY <2>3
    <2> QED
      BY <2>2, <2>4
  <1>16. ASSUME v \notin overlapped, v # crashed' PROVE OwnSoFar(v)' /\ LastOwn(v)'
    <2>1. OwnSoFar(v) /\ found # NULL
      BY <1>1, <1>6, <1>16, Before
    <2>2. ASSUME lines # 0, NEW i \in 1 .. count + 1
          PROVE  h[i] = [name |-> "host", value |-> <<v, "value", i>>]
      <3>1. CASE i = count + 1
        BY <1>7, <1>9, <1>15, <1>16, <2>1, <2>2, <3>1
      <3>2. CASE i # count + 1
        <4>1. i \in 1 .. count
          BY <2>2, <3>2
        <4> QED
          BY <1>0, <1>2, <1>9, <2>1, <2>2, <4>1 DEF OwnSoFar
      <3> QED
        BY <3>1, <3>2
    <2>3. form'[v].names # <<>> =>
             \A i \in 1 .. Len(request'[v].headers) :
                 request'[v].headers[i] = [name |-> "host", value |-> <<v, "value", i>>]
      BY <1>0, <1>1, <1>2, <1>9, <1>11, <1>12, <2>2
    <2>4. request'[v].method = <<v, "method", 0>> /\ request'[v].path = <<v, "path", 0>>
      BY <1>1, <1>11, <1>12, <2>1 DEF OwnSoFar
    <2> QED
      BY <1>5, <1>12, <2>3, <2>4 DEF OwnSoFar, LastOwn
  <1>17. crashed' = v => to # "done" /\ (v \notin overlapped => ~Parsable(v))
    <2>1. CASE lines = 0
      BY <1>0, <1>2, <1>3, <1>5, <2>1 DEF Parsable, Headless
    <2>2. CASE v \notin overlapped /\ lines # 0
      <3>1. <<v, "value", count + 1>> \in Workers \X Parts \X (0 .. 2)
        BY <1>15, <2>2 DEF Parts
      <3>2. found = NULL => ~form[v].valued
        BY <1>15, <2>2, <3>1, ParseAssumption
      <3> QED
        BY <1>1, <1>5, <1>6, <3>2, ParseAssumption DEF Parsable
    <2>3. to # "done"
      BY <1>5
    <2> QED
      BY <2>1, <2>2, <2>3
  <1>18. v \in Active /\ to \in Calls /\ crashed' \in {v, NULL}
    BY <1>1, <1>5 DEF Active, Calls
  <1> QED
    BY <1>1, <1>5, <1>11, <1>12, <1>13, <1>14, <1>16, <1>17, <1>18, ParseStep

LEMMA parse_bodyInv == ASSUME ParseInv, NEW v \in Workers, parse_body(v) PROVE ParseInv'
  <1>0. request[v] \in Requests /\ Stage(v)
    BY Before
  <1>1. /\ at[v] = "body" /\ crashed = NULL /\ at' = [at EXCEPT ![v] = "done"]
        /\ strtok_at(v, "end", 0) /\ UNCHANGED <<form, crashed, overlapped>>
    BY DEF parse_body, Call
  <1>2. PICK b \in BodyParts(v) : request' = [request EXCEPT ![v].body = b]
    BY DEF parse_body
  <1>3. PICK r : r = [request[v] EXCEPT !.body = b]
    OBVIOUS
  <1>4. /\ r \in Requests /\ r.method = request[v].method /\ r.path = request[v].path
        /\ r.headers = request[v].headers /\ r.body = b
    <2>1. \A part \in {"blank", "body", "text"} : <<v, part, 0>> \in Tokens
      BY DEF Tokens, Parts
    <2>2. b \in Tokens
      <3>1. BodyParts(v) \subseteq Tokens
        BY <2>1 DEF BodyParts, Tokens
      <3> QED
        BY <3>1
    <2> QED
      BY <1>0, <1>3, <2>2 DEF Requests
  <1>5. request' = [request EXCEPT ![v] = r] /\ at'[v] = "done" /\ request'[v] = r
    BY <1>1, <1>2, <1>3 DEF ParseInv, TypeOK
  <1>6. last' \in LastType /\ Static' /\ torn' \subseteq Workers /\ torn' \subseteq overlapped
    <2>1. "end" \in Places /\ 0 \in 0 .. 2
      BY DEF Places
    <2> QED
      BY <1>1, <2>1, strtok_atInv
  <1>7. Stage(v)'
    BY <1>0, <1>1, <1>4, <1>5 DEF Stage
  <1>8. ASSUME v \notin overlapped PROVE OwnSoFar(v)' /\ LastOwn(v)'
    <2>1. OwnSoFar(v) /\ v \notin torn
      BY <1>1, <1>8, Before
    <2>2. b = IF Headless(v)
              THEN IF form[v].body THEN NULL ELSE <<v, "blank", 0>>
              ELSE IF form[v].body THEN <<v, "body", 0>> ELSE NULL
      BY <2>1 DEF BodyParts
    <2> QED
      BY <1>1, <1>4, <1>5, <2>1, <2>2 DEF OwnSoFar, LastOwn, Headless
  <1>9. v \in Active /\ "done" \in Calls /\ crashed' = NULL
    BY <1>1 DEF Active, Calls
  <1> QED
    BY <1>1, <1>4, <1>5, <1>6, <1>7, <1>8, <1>9, ParseStep, ParseAssumption

-----------------------------------------------------------------------------
LEMMA InitParse == ASSUME Init PROVE ParseInv
  <1>1. /\ form \in [Workers -> Forms] /\ at \in [Workers -> Calls]
        /\ request \in [Workers -> Requests]
    BY Nothing DEF Init, Calls
  <1>2. \A w \in Workers : at[w] = "line" /\ Len(request[w].headers) = 0
    BY Nothing DEF Init
  <1>3. last \in LastType /\ last.place = "end"
    BY DEF Init, LastType, Places
  <1>4. ASSUME NEW w \in Workers
        PROVE  Len(request[w].headers)
                  <= IF Headless(w) /\ form[w].body THEN 1 ELSE Len(form[w].names)
    <2>1. Len(form[w].names) \in 0 .. 2
      <3>1. form[w] \in Forms
        BY <1>1
      <3> QED
        BY <3>1, NamesFacts
    <2>2. PICK lines \in 0 .. 2 : lines = Len(form[w].names)
      BY <2>1
    <2>3. 0 <= lines
      BY <2>2
    <2> QED
      BY <1>2, <2>2, <2>3
  <1>5. TypeOK
    BY <1>1, <1>3, <1>4 DEF Init, TypeOK, LastType
  <1>6. \A w \in Workers : Stage(w) /\ OwnSoFar(w) /\ LastOwn(w)
    <2> TAKE w \in Workers
    <2>1. Stage(w) /\ LastOwn(w)
      BY <1>2 DEF Stage, LastOwn
    <2>2. \A i \in 1 .. 0 : FALSE
      OBVIOUS
    <2>3. OwnSoFar(w)
      BY <1>2, <2>2 DEF OwnSoFar
    <2> QED
      BY <2>1, <2>3
  <1>7. Static /\ Known /\ Crashes
    BY <1>2, <1>3, ParseAssumption DEF Init, Static, Known, Crashes, Active
  <1> QED
    BY <1>5, <1>6, <1>7 DEF Init, ParseInv

LEMMA NextParse == ASSUME ParseInv, [Next]_parseVars PROVE ParseInv'
  <1>1. CASE Next
    BY <1>1, parse_lineInv, parse_methodInv, parse_pathInv, parse_versionInv, parse_headerInv,
       parse_nameInv, parse_valueInv, parse_bodyInv, request_destroyInv DEF Next, request_parse
  <1>2. CASE UNCHANGED parseVars
    <2>1. TypeOK' /\ Static' /\ Crashes'
      BY <1>2 DEF parseVars, ParseInv, TypeOK, Static, Crashes, Parsable, Headless
    <2>2. Known'
      BY <1>2 DEF parseVars, ParseInv, Known, Active
    <2>3. \A w \in Workers : Stage(w)'
      BY <1>2 DEF parseVars, ParseInv, Stage
    <2>4. \A w \in Workers \ overlapped : w # crashed => OwnSoFar(w)' /\ LastOwn(w)'
      BY <1>2 DEF parseVars, ParseInv, OwnSoFar, LastOwn, Line, Headless
    <2> QED
      BY <1>2, <2>1, <2>2, <2>3, <2>4 DEF parseVars, ParseInv
  <1> QED
    BY <1>1, <1>2

(* Every call of strtok keeps the invariant: what a worker whose parse no  *)
(* other one has overlapped has found is its own, and the static variable  *)
(* is where its last call has left it.                                     *)
THEOREM ParseInvariant == Spec => []ParseInv
  BY InitParse, NextParse, PTL DEF Spec

(* Every variable has its type, however the calls of the workers           *)
(* interleave: strtok returns a token of some worker's buffer or NULL, and *)
(* no more headers are found than the request has lines.                   *)
THEOREM ParseTypeCorrect == Spec => []TypeOK
  <1>1. ParseInv => TypeOK
    BY DEF ParseInv
  <1> QED
    BY <1>1, ParseInvariant, PTL

(* A request whose parse no other one has overlapped is parsed into its    *)
(* own parts, whatever earlier parses have left in the static variable of  *)
(* strtok; and its parse follows a null pointer only if it has no line, no *)
(* path, a header without a value, or a body without headers.              *)
THEOREM AloneIsOwn == Spec => []ParsedAloneIsOwn
  <1>1. ASSUME ParseInv PROVE ParsedAloneIsOwn
    <2>1. ASSUME NEW w \in Workers \ overlapped, at[w] = "done" PROVE Own(w)
      <3>1. /\ request[w] \in Requests /\ form[w] \in Forms /\ Stage(w)
            /\ Len(request[w].headers) \in Nat /\ Len(form[w].names) \in 0 .. 2
            /\ form[w].names = <<>> <=> Len(form[w].names) = 0
        BY <1>1, Before
      <3>2. OwnSoFar(w)
        BY <1>1, <2>1 DEF ParseInv, Crashes
      <3>3. /\ request[w].method = <<w, "method", 0>> /\ request[w].path = <<w, "path", 0>>
            /\ request[w].body = IF Headless(w)
                                 THEN IF form[w].body THEN NULL ELSE <<w, "blank", 0>>
                                 ELSE IF form[w].body THEN <<w, "body", 0>> ELSE NULL
        BY <2>1, <3>2 DEF OwnSoFar
      <3>4. ASSUME ~Headless(w)
            PROVE  headers_get(request[w].headers, "Host") = <<w, "value", 1>>
        <4>1. Len(request[w].headers) = Len(form[w].names) /\ Len(form[w].names) # 0
          BY <2>1, <3>1, <3>4 DEF Stage, Headless
        <4>2. 1 \in 1 .. Len(request[w].headers)
          BY <3>1, <4>1
        <4>3. request[w].headers[1] = [name |-> "host", value |-> <<w, "value", 1>>]
          BY <3>2, <3>4, <4>2 DEF OwnSoFar, Headless
        <4>4. request[w].headers \in Seq(Fields)
          BY <3>1 DEF Requests
        <4> QED
          BY <4>1, <4>3, <4>4, headers_getFirst
      <3> QED
        BY <3>3, <3>4 DEF Own
    <2> QED
      BY <1>1, <2>1 DEF ParsedAloneIsOwn, ParseInv, Crashes
  <1> QED
    BY <1>1, ParseInvariant, PTL
=============================================================================
