---------------------------- MODULE RequestParse ----------------------------
(***************************************************************************)
(* request_parse of src/src/request.c, run by several workers of the pool. *)
(*                                                                         *)
(* It cuts the buffer up with strtok, which keeps its position between two *)
(* calls in one static variable of the process.  A request should be       *)
(*                                                                         *)
(*     method path version CRLF { name: value CRLF } CRLF [ body ]         *)
(*                                                                         *)
(* but the path, the last value, or everything may be missing; it does not *)
(* begin with empty lines unless there is nothing else.  A token is        *)
(* <<w, part, n>>: a part of the buffer of worker w, in the n-th header    *)
(* line.  Each call of strtok is one step: strtok(s, d) starts at a place  *)
(* of the caller's own buffer, strtok(NULL, d) goes on wherever the last   *)
(* call of any thread has stopped.                                         *)
(***************************************************************************)
EXTENDS Naturals, Sequences

CONSTANTS Workers,  \* the workers, each of which parses one request after the other
          NULL      \* the null pointer

INSTANCE Headers

VARIABLES form,        \* form[w]: what the request of w consists of
          last,        \* where strtok has stopped: a place of some buffer
          at,          \* at[w]: the next strtok call of worker w
          request,     \* request[w]: the parts request_parse has found
          torn,        \* the buffers another worker has cut up after line one
          crashed,     \* the worker that has followed a null pointer, or NULL: the process ends
          overlapped   \* history: the workers whose parses have overlapped with another

parseVars == <<form, last, at, request, torn, crashed, overlapped>>

Calls == {"line", "method", "path", "version", "header", "name", "value", "body", "done"}
Parts == {"method", "path", "version", "text", "name", "value", "blank", "body"}
Places == {"path", "version", "rest", "value", "text", "end"}

ASSUME ParseAssumption == NULL \notin Workers \cup (Workers \X Parts \X (0 .. 2))

(* The first line ends after its path, after its method, or is missing.    *)
(* There are no header lines, one, or two with the same name in different  *)
(* letters; the last of them may have nothing behind its colon.            *)
Forms ==
    {f \in [line : {"path", "method", "none"}, names : {<<>>, <<"Host">>, <<"HOST", "host">>},
            valued : BOOLEAN, body : BOOLEAN] :
        /\ f.names = <<>> => f.valued
        /\ f.line # "path" => f.names = <<>> /\ ~f.body}

NoRequest == [method |-> NULL, path |-> NULL, headers |-> headers_create, body |-> NULL]

Init ==
    /\ form \in [Workers -> Forms]
    /\ last = [buf |-> NULL, place |-> "end", n |-> 0]
    /\ at = [w \in Workers |-> "line"]
    /\ request = [w \in Workers |-> NoRequest]
    /\ torn = {}
    /\ crashed = NULL
    /\ overlapped = {}

Active == {w \in Workers : at[w] \notin {"line", "done"}}

-----------------------------------------------------------------------------
(* strtok *)

(* strtok(NULL, " ") or strtok(NULL, ""): the token at the place where the *)
(* last call stopped.  With "" the token is all that is left of the line.  *)
Found(delim) ==
    CASE last.place = "end" -> NULL
      [] last.place \in {"rest", "text"} -> <<last.buf, "text", 0>>
      [] last.place = "value" ->
             IF delim = "" THEN <<last.buf, "value", last.n>> ELSE <<last.buf, "text", 0>>
      [] last.place \in {"path", "version"} ->
             <<last.buf, IF delim = "" THEN "text" ELSE last.place, 0>>

After(delim) ==
    CASE last.place = "path" /\ delim = " " -> "version"
      [] last.place = "rest" /\ delim = " " -> "rest"
      [] OTHER -> "end"

(* strtok ends a token by writing into the buffer.  In the request line    *)
(* this changes nothing for its owner, who has the line already; further   *)
(* on it does.                                                             *)
strtok_next(w, delim) ==
    /\ last' = [last EXCEPT !.place = After(delim), !.n = 0]
    /\ torn' = IF last.place = "rest" /\ delim = " " /\ last.buf # w
               THEN torn \cup {last.buf} ELSE torn

strtok_at(w, place, n) ==
    /\ last' = [buf |-> w, place |-> place, n |-> n]
    /\ UNCHANGED torn

-----------------------------------------------------------------------------
(* request_parse *)

Call(w, from, to) ==
    /\ at[w] = from
    /\ crashed = NULL
    /\ at' = [at EXCEPT ![w] = to]
    /\ UNCHANGED form

(* The process ends if the pointer is null that worker w follows. *)
Follow(w, null) == crashed' = IF null THEN w ELSE NULL

(* line = strtok(buffer, "\r\n"); strlen(line) follows the pointer. *)
parse_line(w) ==
    /\ Call(w, "line", "method")
    /\ strtok_at(w, IF form[w].line = "none" THEN "end" ELSE "rest", 0)
    /\ Follow(w, form[w].line = "none")
    /\ overlapped' = IF Active = {} THEN overlapped ELSE overlapped \cup Active \cup {w}
    /\ UNCHANGED request

(* method = strtok(line, " ") *)
parse_method(w) ==
    /\ Call(w, "method", "path")
    /\ strtok_at(w, IF form[w].line = "path" THEN "path" ELSE "end", 0)
    /\ request' = [request EXCEPT ![w].method = <<w, "method", 0>>]
    /\ UNCHANGED <<crashed, overlapped>>

(* path = strtok(NULL, " ") *)
parse_path(w) ==
    /\ Call(w, "path", "version")
    /\ strtok_next(w, " ")
    /\ request' = [request EXCEPT ![w].path = Found(" ")]
    /\ UNCHANGED <<crashed, overlapped>>

(* strtok(NULL, " ") skips the version; strdup(path) follows the pointer. *)
parse_version(w) ==
    /\ Call(w, "version", "header")
    /\ strtok_next(w, " ")
    /\ Follow(w, request[w].path = NULL)
    /\ UNCHANGED <<request, overlapped>>

(* The number of the header line that is parsed, beyond the last one when  *)
(* there is none.                                                          *)
Line(w) == Len(request[w].headers) + 1

Headless(w) == form[w].names = <<>>

(* line = strtok(buffer + offset, "\r\n").  It skips empty lines: when     *)
(* there are no header lines, it finds the body, or nothing.               *)
parse_header(w) ==
    /\ IF Headless(w) /\ ~form[w].body
       THEN Call(w, "header", "body") /\ strtok_at(w, "end", 0)
       ELSE /\ Call(w, "header", "name")
            /\ \/ strtok_at(w, "rest", 0)
               \/ Headless(w) /\ strtok_at(w, "end", 0)
    /\ UNCHANGED <<request, crashed, overlapped>>

(* name = strtok(line, ": ").  There may be nothing behind it, also if the *)
(* line is the body, or if another worker has cut the line up.             *)
parse_name(w) ==
    LET valued == form[w].valued \/ Line(w) < Len(form[w].names)
    IN  /\ Call(w, "name", "value")
        /\ \/ ~Headless(w) /\ valued /\ strtok_at(w, "value", Line(w))
           \/ Headless(w) /\ strtok_at(w, "text", 0)
           \/ (Headless(w) \/ ~valued \/ w \in torn) /\ strtok_at(w, "end", 0)
        /\ UNCHANGED <<request, crashed, overlapped>>

(* Whether there is another header line behind the one just parsed: the    *)
(* loop ends at the empty line, or when there is nothing more.             *)
HeaderFollows_past_empty_line(w) == Line(w) < Len(form[w].names) \/ form[w].body

HeaderFollows(w) == Line(w) < Len(form[w].names)

(* value = strtok(NULL, ""); value[0] follows the pointer; headers_set. *)
parse_value(w) ==
    LET name == IF Line(w) > Len(form[w].names) THEN "text" ELSE form[w].names[Line(w)]
    IN  /\ Call(w, "value", IF HeaderFollows(w) THEN "header" ELSE "body")
        /\ strtok_next(w, "")
        /\ request' = [request EXCEPT ![w].headers = headers_set(@, name, Found(""))]
        /\ Follow(w, Found("") = NULL)
        /\ UNCHANGED overlapped

(* body = strtok(buffer + offset, "").  Without header lines, offset is    *)
(* still at the empty line, which is taken for the body, or behind the     *)
(* body, which was taken for a header line.  NULL stands for the empty     *)
(* string that is stored when there is nothing.                            *)
BodyParts(w) ==
    CASE Headless(w) /\ ~form[w].body -> {<<w, "blank", 0>>}
      [] ~Headless(w) /\ form[w].body ->
             {<<w, part, 0>> : part \in IF w \in torn THEN {"body", "text"} ELSE {"body"}}
      [] OTHER -> {NULL}

parse_body(w) ==
    /\ Call(w, "body", "done")
    /\ strtok_at(w, "end", 0)
    /\ \E part \in BodyParts(w) : request' = [request EXCEPT ![w].body = part]
    /\ UNCHANGED <<crashed, overlapped>>

(* handle_client frees the request and the buffer, and gets another. *)
request_destroy(w) ==
    /\ at[w] = "done"
    /\ crashed = NULL
    /\ at' = [at EXCEPT ![w] = "line"]
    /\ request' = [request EXCEPT ![w] = NoRequest]
    /\ torn' = torn \ {w}
    /\ overlapped' = overlapped \ {w}
    /\ \E f \in Forms : form' = [form EXCEPT ![w] = f]
    /\ UNCHANGED <<last, crashed>>

request_parse(w) ==
    \/ parse_line(w) \/ parse_method(w) \/ parse_path(w) \/ parse_version(w)
    \/ parse_header(w) \/ parse_name(w) \/ parse_value(w) \/ parse_body(w)

Next == \E w \in Workers : request_parse(w) \/ request_destroy(w)

Spec == Init /\ [][Next]_parseVars

-----------------------------------------------------------------------------
(* Properties *)

Tokens   == (Workers \X Parts \X (0 .. 2)) \cup {NULL}
Fields   == [name : {"host", "text"}, value : Tokens]
Requests == [method : Tokens, path : Tokens, headers : Seq(Fields), body : Tokens]

(* Every variable has its type, and no more headers are found than the     *)
(* request has lines, the body that is taken for one included.             *)
TypeOK ==
    /\ form \in [Workers -> Forms]
    /\ last \in [buf : Workers \cup {NULL}, place : Places, n : 0 .. 2]
    /\ at \in [Workers -> Calls]
    /\ request \in [Workers -> Requests]
    /\ \A w \in Workers :
          Len(request[w].headers) <= IF Headless(w) /\ form[w].body THEN 1 ELSE Len(form[w].names)
    /\ torn \in SUBSET Workers
    /\ crashed \in Workers \cup {NULL}
    /\ overlapped \in SUBSET Workers

(* A request with a path, with a value in each header line, and with a     *)
(* header line if it has a body.                                           *)
Parsable(w) ==
    /\ form[w].line = "path"
    /\ form[w].valued
    /\ form[w].body => ~Headless(w)

(* What a worker has parsed are the parts of its own request; headers_get  *)
(* finds the value of the first line with that name, however the name is   *)
(* written.  Of a request without header lines only the first line is      *)
(* right: its body is lost, and where it has none the empty line is stored *)
(* as one.                                                                 *)
Own(w) ==
    /\ request[w].method = <<w, "method", 0>>
    /\ request[w].path = <<w, "path", 0>>
    /\ IF Headless(w)
       THEN request[w].body = IF form[w].body THEN NULL ELSE <<w, "blank", 0>>
       ELSE /\ request[w].body = IF form[w].body THEN <<w, "body", 0>> ELSE NULL
            /\ headers_get(request[w].headers, "Host") = <<w, "value", 1>>

ParsedIsOwn == \A w \in Workers : at[w] = "done" /\ Parsable(w) => Own(w)

(* A worker whose parse no other one overlapped finds the parts of its     *)
(* own request, whatever earlier parses have left in the static variable   *)
(* of strtok; and it follows a null pointer only on a request that has no  *)
(* line, no path, a header without a value, or a body without headers.     *)
ParsedAloneIsOwn ==
    \A w \in Workers \ overlapped :
        /\ at[w] = "done" => Own(w)
        /\ crashed = w => ~Parsable(w)
=============================================================================
