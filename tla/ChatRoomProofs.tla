--------------------------- MODULE ChatRoomProofs ---------------------------
(***************************************************************************)
(* Theorems about ChatRoom, for any number of worker processes, pages and  *)
(* messages, and however often the server is stopped and started again.    *)
(*                                                                         *)
(* Whoever writes the file has read it, so what he is about to write has   *)
(* every message that was accepted and was not inside add_chat together    *)
(* with another one: when such a message was written nobody else held an   *)
(* older content.  As long as no two messages were there together, the     *)
(* data of the worker inside add_chat is the file it has read and one      *)
(* message more.                                                           *)
(***************************************************************************)
EXTENDS ChatRoom, SequenceTheorems, TLAPS

(* Every message of T is in s, and every page of pg shows the beginning of *)
(* s.                                                                      *)
Covers(s, T, pg) ==
    /\ T \subseteq Range(s)
    /\ \A b \in Pages : IsPrefix(pg[b].shown, s)

(* What holds of the job of a worker until two have been inside add_chat. *)
JobKept(w) ==
    /\ job[w].at = "write" => file = Empty
    /\ job[w].at = "truncate" => Readable /\ job[w].data = Append(file, job[w].msg)
    /\ job[w].msg \in Range(job[w].data)
    /\ Covers(job[w].data, told, page)

Careful ==
    /\ \A v, w \in Workers : job[v] # None /\ job[w] # None => v = w
    /\ \A w \in Workers : job[w] # None => JobKept(w)
    /\ Readable => Covers(file, told, page)

(* A content of the file with all messages that did not race. *)
Holds(s) == told \ raced \subseteq Range(s)

(* Whether messages race or not: no content of the file, and none that is  *)
(* about to be written, leaves one out that did not, and of two jobs at    *)
(* the same time both race.                                                *)
Kept ==
    /\ Readable => Holds(file)
    /\ \A w \in Workers : job[w] # None =>
          Holds(job[w].data) /\ job[w].msg \in Range(job[w].data)
    /\ \A v, w \in Workers : job[v] # None /\ job[w] # None /\ v # w => job[w].msg \in raced

(* After Ctrl-C has cut a write off, nobody writes. *)
CutOff == cut => \A w \in Workers : job[w] = None

RoomInv == TypeOK /\ UnreadableOnly /\ CutOff /\ Kept /\ (raced = {} => Careful)

-----------------------------------------------------------------------------
(* Sequences *)

LEMMA PrefixDef ==
    ASSUME NEW S, NEW s \in Seq(S), NEW t \in Seq(S)
    PROVE  IsPrefix(s, t) <=> Len(s) <= Len(t) /\ \A i \in 1 .. Len(s) : s[i] = t[i]
  <1>1. Len(s) \in Nat /\ Len(t) \in Nat
    BY LenProperties
  <1>2. /\ SubSeq(s, 1, Len(s)) \in Seq(S) /\ Len(SubSeq(s, 1, Len(s))) = Len(s)
        /\ \A i \in 1 .. Len(s) : SubSeq(s, 1, Len(s))[i] = s[i]
    <2>1. \A i \in 1 .. Len(s) : s[i] \in S
      BY ElementOfSeq
    <2>2. /\ SubSeq(s, 1, Len(s)) \in Seq(S)
          /\ Len(SubSeq(s, 1, Len(s))) = IF 1 <= Len(s) THEN Len(s) - 1 + 1 ELSE 0
          /\ \A i \in 1 .. Len(s) - 1 + 1 : SubSeq(s, 1, Len(s))[i] = s[1 + i - 1]
      BY <1>1, <2>1, SubSeqProperties
    <2> QED
      BY <1>1, <2>2
  <1>3. ASSUME Len(s) <= Len(t)
        PROVE  /\ SubSeq(t, 1, Len(s)) \in Seq(S) /\ Len(SubSeq(t, 1, Len(s))) = Len(s)
               /\ \A i \in 1 .. Len(s) : SubSeq(t, 1, Len(s))[i] = t[i]
    <2>1. \A i \in 1 .. Len(s) : t[i] \in S
      BY <1>1, <1>3, ElementOfSeq
    <2>2. /\ SubSeq(t, 1, Len(s)) \in Seq(S)
          /\ Len(SubSeq(t, 1, Len(s))) = IF 1 <= Len(s) THEN Len(s) - 1 + 1 ELSE 0
          /\ \A i \in 1 .. Len(s) - 1 + 1 : SubSeq(t, 1, Len(s))[i] = t[1 + i - 1]
      BY <1>1, <2>1, SubSeqProperties
    <2> QED
      BY <1>1, <2>2
  <1>4. ASSUME Len(s) <= Len(t), \A i \in 1 .. Len(s) : s[i] = t[i]
        PROVE  SubSeq(s, 1, Len(s)) = SubSeq(t, 1, Len(s))
    BY <1>2, <1>3, <1>4, SeqEqual
  <1> QED
    BY <1>2, <1>3, <1>4 DEF IsPrefix

LEMMA PrefixSelf == ASSUME NEW S, NEW s \in Seq(S) PROVE IsPrefix(s, s)
  BY LenProperties, PrefixDef

LEMMA PrefixEmpty == ASSUME NEW S, NEW s \in Seq(S) PROVE IsPrefix(<<>>, s)
  <1>1. <<>> \in Seq(S) /\ Len(<<>>) = 0 /\ Len(s) \in Nat
    BY EmptySeq, LenProperties
  <1>2. ASSUME NEW u \in Seq(S), Len(u) = 0 PROVE IsPrefix(u, s)
    <2>1. Len(u) <= Len(s) /\ \A i \in 1 .. Len(u) : u[i] = s[i]
      BY <1>1, <1>2
    <2> QED
      BY <2>1, PrefixDef
  <1> QED
    BY <1>1, <1>2

LEMMA PrefixAppend ==
    ASSUME NEW S, NEW s \in Seq(S), NEW t \in Seq(S), NEW m \in S, IsPrefix(s, t)
    PROVE  IsPrefix(s, Append(t, m))
  <1>1. /\ Append(t, m) \in Seq(S) /\ Len(Append(t, m)) = Len(t) + 1
        /\ \A i \in 1 .. Len(t) : Append(t, m)[i] = t[i]
    BY AppendProperties
  <1>2. /\ Len(s) \in Nat /\ Len(t) \in Nat /\ Len(s) <= Len(t)
        /\ \A i \in 1 .. Len(s) : s[i] = t[i]
    BY LenProperties, PrefixDef
  <1>3. \A i \in 1 .. Len(s) : s[i] = Append(t, m)[i]
    BY <1>1, <1>2
  <1>4. Len(s) <= Len(Append(t, m))
    BY <1>1, <1>2
  <1>5. \A u \in Seq(S) : Len(s) <= Len(u) /\ (\A i \in 1 .. Len(s) : s[i] = u[i])
                           => IsPrefix(s, u)
    BY PrefixDef
  <1> QED
    BY <1>1, <1>3, <1>4, <1>5

LEMMA RangeAppend ==
    ASSUME NEW S, NEW s \in Seq(S), NEW m \in S
    PROVE  Range(s) \subseteq Range(Append(s, m)) /\ m \in Range(Append(s, m))
  <1>1. /\ DOMAIN s = 1 .. Len(s) /\ Len(s) \in Nat
        /\ DOMAIN Append(s, m) = 1 .. (Len(s) + 1)
        /\ \A i \in 1 .. Len(s) : Append(s, m)[i] = s[i]
        /\ Append(s, m)[Len(s) + 1] = m
    BY LenProperties, AppendProperties
  <1> QED
    BY <1>1 DEF Range

-----------------------------------------------------------------------------
(* The types *)

LEMMA BlankFacts ==
    /\ Blank \in PageStates /\ Blank.at = "closed" /\ Blank.shown = <<>>
    /\ \A a \in {"load", "pull"} : /\ [Blank EXCEPT !.at = a] \in PageStates
                                   /\ [Blank EXCEPT !.at = a].at = a
                                   /\ [Blank EXCEPT !.at = a].shown = <<>>
    /\ \A s \in Log : /\ [Blank EXCEPT !.at = "pull", !.shown = s] \in PageStates
                      /\ [Blank EXCEPT !.at = "pull", !.shown = s].at = "pull"
                      /\ [Blank EXCEPT !.at = "pull", !.shown = s].shown = s
    /\ \A m \in 0 .. MaxPosts :
          /\ [Blank EXCEPT !.at = "post", !.msg = m] \in PageStates
          /\ [Blank EXCEPT !.at = "post", !.msg = m].at = "post"
          /\ [Blank EXCEPT !.at = "post", !.msg = m].shown = <<>>
  <1>1. <<>> \in Log
    BY EmptySeq DEF Log
  <1>2. 0 \in 0 .. MaxPosts
    BY ChatRoomAssumption
  <1> QED
    BY <1>1, <1>2 DEF Blank, PageStates

LEMMA ReadableLog == ASSUME TypeOK, Readable PROVE file \in Log
  BY DEF TypeOK, Readable

(* A page that keeps its place but for "at". *)
LEMMA PageAt ==
    ASSUME NEW g \in PageStates, NEW a \in {"closed", "load", "pull", "wait", "post", "dead"}
    PROVE  /\ [g EXCEPT !.at = a] \in PageStates
           /\ [g EXCEPT !.at = a].at = a /\ [g EXCEPT !.at = a].shown = g.shown
  BY DEF PageStates

(* The page leaves: its poll, if any, is settled. *)
LEMMA LeaveType ==
    ASSUME TypeOK, NEW b \in Pages, NEW what \in PageStates, what.at # "wait", Leave(b, what),
           UNCHANGED <<file, up, life, starts, job, gpt>>, posted' \in 0 .. MaxPosts
    PROVE  TypeOK'
  <1> USE ChatRoomAssumption
  <1>1. /\ page' = [page EXCEPT ![b] = what] /\ conn' = [conn EXCEPT ![b] = None]
        /\ polls' = {IF p.b = b THEN Settled(p) ELSE p : p \in polls}
    BY DEF Leave
  <1>2. page' \in [Pages -> PageStates] /\ conn' \in [Pages -> up \cup {None}]
    BY <1>1 DEF TypeOK
  <1>3. polls' \subseteq [b : Pages \cup {None}, w : up, size : Nat]
    <2>1. \A p \in polls : Settled(p) \in [b : Pages \cup {None}, w : up, size : Nat]
      BY DEF TypeOK, Settled
    <2> QED
      BY <1>1, <2>1 DEF TypeOK
  <1>4. ASSUME NEW c \in Pages, At(c)' = "wait"
        PROVE  \E p \in polls' : p.b = c /\ p.w = conn'[c]
    <2>1. c # b /\ At(c) = "wait" /\ conn'[c] = conn[c]
      BY <1>1, <1>4 DEF TypeOK, At
    <2>2. PICK p \in polls : p.b = c /\ p.w = conn[c]
      BY <2>1 DEF TypeOK
    <2>3. p \in polls'
      BY <1>1, <2>1, <2>2
    <2> QED
      BY <2>1, <2>2, <2>3
  <1> QED
    BY <1>2, <1>3, <1>4 DEF TypeOK

(* A step of the pages and polls only. *)
LEMMA PagesType ==
    ASSUME TypeOK, UNCHANGED <<file, up, life, starts, job, gpt, conn, posted>>,
           page' \in [Pages -> PageStates],
           polls' \subseteq [b : Pages \cup {None}, w : up, size : Nat],
           \A b \in Pages : At(b)' = "wait" => \E p \in polls' : p.b = b /\ p.w = conn[b]
    PROVE  TypeOK'
  BY DEF TypeOK

(* The end of some processes. *)
LEMMA CrashType ==
    ASSUME TypeOK, NEW W, Crash(W), life' \in {"running", "leaving", "gone"}
    PROVE  TypeOK'
  <1> USE ChatRoomAssumption
  <1>1. /\ up' = up \ W
        /\ job' = [w \in Workers |-> IF w \in W THEN None ELSE job[w]]
        /\ polls' = {p \in polls : p.w \notin W}
        /\ gpt' = {g \in gpt : g.w \notin W}
        /\ conn' = [b \in Pages |-> IF conn[b] \in W THEN None ELSE conn[b]]
        /\ UNCHANGED <<file, starts, posted>>
    BY DEF Crash
  <1>2. /\ page' \in [Pages -> PageStates]
        /\ \A b \in Pages : conn[b] \notin W => page'[b] = page[b]
        /\ \A b \in Pages : conn[b] \in W => At(b)' # "wait"
    <2>1. \A b \in Pages :
             page'[b] = IF conn[b] \notin W THEN page[b]
                        ELSE IF At(b) \in {"load", "post"} THEN Blank
                        ELSE [page[b] EXCEPT !.at = "dead"]
      BY DEF Crash
    <2>2. \A b \in Pages : /\ page[b] \in PageStates
                           /\ [page[b] EXCEPT !.at = "dead"] \in PageStates
                           /\ [page[b] EXCEPT !.at = "dead"].at = "dead"
      BY PageAt DEF TypeOK
    <2>3. \A b \in Pages : page'[b] \in PageStates
      BY <2>1, <2>2, BlankFacts
    <2>4. page' \in [Pages -> PageStates]
      BY <2>3 DEF Crash
    <2> QED
      BY <2>1, <2>2, <2>4, BlankFacts DEF At
  <1>3. /\ job' \in [Workers -> Jobs \cup {None}]
        /\ \A w \in Workers : job'[w] # None => w \in up'
        /\ conn' \in [Pages -> up' \cup {None}]
    BY <1>1 DEF TypeOK
  <1>4. /\ polls' \subseteq [b : Pages \cup {None}, w : up', size : Nat]
        /\ gpt' \subseteq [q : Questions, w : up', at : {"timer", "fetch"}]
    BY <1>1 DEF TypeOK
  <1>5. ASSUME NEW b \in Pages, At(b)' = "wait"
        PROVE  \E p \in polls' : p.b = b /\ p.w = conn'[b]
    <2>1. conn[b] \notin W /\ At(b) = "wait" /\ conn'[b] = conn[b]
      BY <1>1, <1>2, <1>5 DEF At
    <2> QED
      BY <1>1, <2>1 DEF TypeOK
  <1> QED
    BY <1>1, <1>2, <1>3, <1>4, <1>5 DEF TypeOK

LEMMA add_chatType ==
    ASSUME TypeOK, Readable, NEW w \in up, NEW m \in Messages, add_chat(w, m),
           UNCHANGED <<conn, page>>, gpt' \subseteq gpt
    PROVE  TypeOK'
  <1>1. [at |-> "truncate", msg |-> m, data |-> Append(retrieve, m)] \in Jobs
    <2>1. Append(file, m) \in Log
      BY ReadableLog, AppendProperties DEF Log
    <2> QED
      BY <2>1 DEF retrieve, Jobs
  <1>2. /\ job' \in [Workers -> Jobs \cup {None}]
        /\ \A v \in Workers : job'[v] # None => v \in up
    BY <1>1 DEF TypeOK, add_chat
  <1> QED
    BY <1>2 DEF TypeOK, add_chat, primary, At

-----------------------------------------------------------------------------
(* What the log covers *)

LEMMA CoversAppend ==
    ASSUME NEW s \in Log, NEW m \in Messages, NEW T, NEW pg \in [Pages -> PageStates],
           Covers(s, T, pg)
    PROVE  Covers(Append(s, m), T, pg) /\ m \in Range(Append(s, m))
  <1>1. \A b \in Pages : pg[b].shown \in Seq(Messages)
    BY DEF PageStates, Log
  <1>2. \A b \in Pages : IsPrefix(pg[b].shown, Append(s, m))
    BY <1>1, PrefixAppend DEF Covers, Log
  <1>3. Range(s) \subseteq Range(Append(s, m)) /\ m \in Range(Append(s, m))
    BY RangeAppend DEF Log
  <1> QED
    BY <1>2, <1>3 DEF Covers

LEMMA CoversQuiet ==
    ASSUME NEW s \in Log, NEW T, NEW pg, NEW pg2, Covers(s, T, pg),
           \A b \in Pages : \/ pg2[b].shown = pg[b].shown
                            \/ pg2[b].shown = <<>>
                            \/ IsPrefix(pg2[b].shown, s)
    PROVE  Covers(s, T, pg2)
  <1>1. IsPrefix(<<>>, s)
    BY PrefixEmpty DEF Log
  <1> QED
    BY <1>1 DEF Covers

(* What a step that touches neither the file nor what was accepted does to *)
(* the pages.                                                              *)
PagesQuiet ==
    \A b \in Pages : \/ page'[b].shown = page[b].shown
                     \/ page'[b].shown = <<>>
                     \/ Readable /\ page'[b].shown = file

LEMMA QuietCareful ==
    ASSUME TypeOK, Careful, UNCHANGED <<file, told>>, PagesQuiet,
           \A w \in Workers : job'[w] \in {job[w], None}
    PROVE  Careful'
  <1>1. ASSUME Readable PROVE Covers(file, told, page')
    <2>1. file \in Log
      BY <1>1, ReadableLog
    <2>2. IsPrefix(file, file)
      BY <2>1, PrefixSelf DEF Log
    <2>3. Covers(file, told, page)
      BY <1>1 DEF Careful
    <2> QED
      BY <2>1, <2>2, <2>3, CoversQuiet DEF PagesQuiet
  <1>2. ASSUME NEW w \in Workers, job[w] # None PROVE Covers(job[w].data, told, page')
    <2>1. job[w] \in Jobs
      BY <1>2 DEF TypeOK
    <2>2. job[w].data \in Log /\ job[w].msg \in Messages /\ job[w].at \in {"truncate", "write"}
      BY <2>1 DEF Jobs
    <2>3. JobKept(w)
      BY <1>2 DEF Careful
    <2>4. ASSUME Readable PROVE IsPrefix(file, job[w].data)
      <3>1. file \in Log /\ file # Empty
        BY <2>4, ReadableLog DEF Readable
      <3>2. job[w].data = Append(file, job[w].msg)
        BY <2>2, <2>3, <3>1 DEF JobKept
      <3>3. IsPrefix(file, file)
        BY <3>1, PrefixSelf DEF Log
      <3> QED
        BY <2>2, <3>1, <3>2, <3>3, PrefixAppend DEF Log
    <2>5. Covers(job[w].data, told, page)
      BY <2>3 DEF JobKept
    <2> QED
      BY <2>2, <2>4, <2>5, CoversQuiet DEF PagesQuiet
  <1>3. ASSUME NEW w \in Workers, job'[w] # None PROVE job'[w] = job[w] /\ job[w] # None
    BY <1>3
  <1>4. ASSUME NEW w \in Workers, job'[w] # None PROVE JobKept(w)'
    BY <1>2, <1>3, <1>4 DEF Careful, JobKept, Readable
  <1> QED
    BY <1>1, <1>3, <1>4 DEF Careful, Readable

LEMMA Quiet ==
    ASSUME RoomInv, TypeOK', UNCHANGED <<file, told, raced>>, PagesQuiet,
           \A w \in Workers : job'[w] \in {job[w], None},
           cut' => file = Empty /\ \A w \in Workers : job'[w] = None,
           file = Empty => cut' \/ \E w \in Workers : job'[w] # None /\ job'[w].at = "write"
    PROVE  RoomInv'
  <1>1. UnreadableOnly' /\ CutOff'
    BY DEF RoomInv, UnreadableOnly, CutOff
  <1>2. ASSUME raced' = {} PROVE Careful'
    BY <1>2, QuietCareful DEF RoomInv
  <1>3. Kept'
    <2>1. ASSUME NEW w \in Workers, job'[w] # None PROVE job'[w] = job[w] /\ job[w] # None
      BY <2>1
    <2> QED
      BY <2>1 DEF RoomInv, Kept, Holds, Readable
  <1> QED
    BY <1>1, <1>2, <1>3 DEF RoomInv

(* A step of pages, timers and processes. *)
LEMMA SameJobs ==
    ASSUME RoomInv, TypeOK', UNCHANGED <<file, told, raced, cut, job>>, PagesQuiet
    PROVE  RoomInv'
  <1>1. file = Empty => cut' \/ \E w \in Workers : job'[w] # None /\ job'[w].at = "write"
    BY DEF RoomInv, UnreadableOnly
  <1>2. cut' => file = Empty /\ \A w \in Workers : job'[w] = None
    BY DEF RoomInv, UnreadableOnly, CutOff
  <1> QED
    BY <1>1, <1>2, Quiet

-----------------------------------------------------------------------------
(* The browser *)

LEMMA LeaveInv ==
    ASSUME RoomInv, NEW b \in Pages, NEW what \in PageStates, what.at # "wait",
           what.shown = <<>>, Leave(b, what), UNCHANGED <<file, primary, job, gpt, history>>,
           posted' \in 0 .. MaxPosts
    PROVE  RoomInv'
  <1>1. TypeOK'
    BY LeaveType DEF RoomInv, primary
  <1>2. \A c \in Pages : page'[c] = IF c = b THEN what ELSE page[c]
    BY DEF Leave, RoomInv, TypeOK
  <1>3. PagesQuiet
    BY <1>2 DEF PagesQuiet
  <1> QED
    BY <1>1, <1>3, SameJobs DEF history

LEMMA openInv == ASSUME RoomInv, NEW b \in Pages, open(b) PROVE RoomInv'
  <1>1. posted' \in 0 .. MaxPosts
    BY DEF RoomInv, TypeOK, open
  <1>2. /\ [Blank EXCEPT !.at = "load"] \in PageStates
        /\ [Blank EXCEPT !.at = "load"].at = "load" /\ [Blank EXCEPT !.at = "load"].shown = <<>>
    BY BlankFacts
  <1>3. Leave(b, [Blank EXCEPT !.at = "load"]) /\ UNCHANGED <<file, primary, job, gpt, history>>
    BY DEF open
  <1> QED
    BY <1>1, <1>2, <1>3, LeaveInv

LEMMA closeInv == ASSUME RoomInv, NEW b \in Pages, close(b) PROVE RoomInv'
  <1>1. posted' \in 0 .. MaxPosts
    BY DEF RoomInv, TypeOK, close
  <1>2. Leave(b, Blank) /\ UNCHANGED <<file, primary, job, gpt, history>>
    BY DEF close
  <1> QED
    BY <1>1, <1>2, BlankFacts, LeaveInv

LEMMA postInv == ASSUME RoomInv, NEW b \in Pages, post(b) PROVE RoomInv'
  <1>1. posted + 1 \in 0 .. MaxPosts /\ posted' = posted + 1
    BY ChatRoomAssumption DEF RoomInv, TypeOK, post
  <1> DEFINE what == [Blank EXCEPT !.at = "post", !.msg = posted + 1]
  <1>2. what \in PageStates /\ what.at = "post" /\ what.shown = <<>>
    BY <1>1, BlankFacts
  <1>3. Leave(b, what) /\ UNCHANGED <<file, primary, job, gpt, history>>
    BY DEF post
  <1> QED
    BY <1>1, <1>2, <1>3, LeaveInv

LEMMA connectInv ==
    ASSUME RoomInv, NEW b \in Pages, NEW w \in Workers, connect(b, w) PROVE RoomInv'
  <1>1. conn' \in [Pages -> up \cup {None}]
    BY DEF RoomInv, TypeOK, connect
  <1>2. \A c \in Pages : At(c) = "wait" => conn'[c] = conn[c]
    BY DEF RoomInv, TypeOK, connect, At
  <1>3. TypeOK'
    BY <1>1, <1>2 DEF RoomInv, TypeOK, connect, primary, At
  <1>4. PagesQuiet
    BY DEF PagesQuiet, connect
  <1> QED
    BY <1>3, <1>4, SameJobs DEF connect, history

LEMMA refusedInv == ASSUME RoomInv, NEW b \in Pages, refused(b) PROVE RoomInv'
  <1>1. \A c \in Pages : page'[c] = IF c = b THEN Blank ELSE page[c]
    BY DEF refused, RoomInv, TypeOK
  <1>2. page' \in [Pages -> PageStates]
    BY BlankFacts DEF refused, RoomInv, TypeOK
  <1>3. \A c \in Pages : At(c)' = "wait" => At(c) = "wait"
    BY <1>1, BlankFacts DEF At
  <1>4. TypeOK'
    BY <1>2, <1>3, PagesType DEF RoomInv, TypeOK, refused, primary
  <1>5. PagesQuiet
    BY <1>1, BlankFacts DEF PagesQuiet
  <1> QED
    BY <1>4, <1>5, SameJobs DEF refused, history

-----------------------------------------------------------------------------
(* Handlers that read *)

LEMMA chatroom_getInv == ASSUME RoomInv, NEW b \in Pages, chatroom_get(b) PROVE RoomInv'
  <1>0. Readable /\ file \in Log
    BY ReadableLog DEF chatroom_get, Served, Reads, RoomInv
  <1> DEFINE new == [Blank EXCEPT !.at = "pull", !.shown = file]
  <1>1. new \in PageStates /\ new.at = "pull" /\ new.shown = file
    BY <1>0, BlankFacts
  <1> HIDE DEF new
  <1>2. page' = [page EXCEPT ![b] = new]
    BY DEF chatroom_get, retrieve, new
  <1>3. \A c \in Pages : page'[c] = IF c = b THEN new ELSE page[c]
    BY <1>2 DEF RoomInv, TypeOK
  <1>4. page' \in [Pages -> PageStates]
    BY <1>1, <1>2 DEF RoomInv, TypeOK
  <1>5. \A c \in Pages : At(c)' = "wait" => At(c) = "wait"
    BY <1>1, <1>3 DEF At
  <1>6. TypeOK'
    BY <1>4, <1>5, PagesType DEF RoomInv, TypeOK, chatroom_get, primary
  <1>7. PagesQuiet
    BY <1>0, <1>1, <1>3 DEF PagesQuiet
  <1> QED
    BY <1>6, <1>7, SameJobs DEF chatroom_get, history

LEMMA chat_statusInv == ASSUME RoomInv, NEW b \in Pages, chat_status(b) PROVE RoomInv'
  <1>0. file \in Log /\ conn[b] \in up
    BY ReadableLog DEF chat_status, Served, Reads, RoomInv, TypeOK
  <1> DEFINE new == [b |-> b, w |-> conn[b], size |-> Len(file)]
  <1>1. new \in [b : Pages \cup {None}, w : up, size : Nat]
    <2>1. Len(file) \in Nat
      BY <1>0, LenProperties DEF Log
    <2> QED
      BY <1>0, <2>1
  <1>2. polls' = polls \cup {new} /\ page' = [page EXCEPT ![b].at = "wait"]
    BY DEF chat_status, retrieve
  <1>3. polls' \subseteq [b : Pages \cup {None}, w : up, size : Nat]
    BY <1>1, <1>2 DEF RoomInv, TypeOK
  <1>4. \A c \in Pages : page'[c] = IF c = b THEN [page[c] EXCEPT !.at = "wait"] ELSE page[c]
    BY <1>2 DEF RoomInv, TypeOK
  <1>5. \A c \in Pages : /\ page[c] \in PageStates
                         /\ [page[c] EXCEPT !.at = "wait"] \in PageStates
                         /\ [page[c] EXCEPT !.at = "wait"].shown = page[c].shown
    BY PageAt DEF RoomInv, TypeOK
  <1>6. page' \in [Pages -> PageStates]
    BY <1>2, <1>5 DEF RoomInv, TypeOK
  <1>7. \A c \in Pages : At(c)' = "wait" => \E p \in polls' : p.b = c /\ p.w = conn[c]
    <2>1. new \in polls' /\ new.b = b /\ new.w = conn[b]
      BY <1>2
    <2>2. \A c \in Pages : c # b => At(c)' = At(c)
      BY <1>4 DEF At
    <2> QED
      BY <1>2, <2>1, <2>2 DEF RoomInv, TypeOK
  <1>8. TypeOK'
    BY <1>3, <1>6, <1>7, PagesType DEF RoomInv, chat_status, primary
  <1>9. PagesQuiet
    BY <1>4, <1>5 DEF PagesQuiet
  <1> QED
    BY <1>8, <1>9, SameJobs DEF chat_status, history

(* The end of a poll p: its page, if it has one, stops waiting for it. *)
LEMMA resolvePages ==
    ASSUME TypeOK, NEW p \in polls, resolve(p)
    PROVE  /\ page' \in [Pages -> PageStates]
           /\ PagesQuiet
           /\ \A b \in Pages : At(b)' = "wait" => b # p.b /\ At(b) = "wait"
  <1>1. PICK a \in {"load", "pull"} : a = IF Changed(p) THEN "load" ELSE "pull"
    OBVIOUS
  <1>2. page' = [b \in Pages |-> IF b = p.b THEN [page[b] EXCEPT !.at = a] ELSE page[b]]
    BY <1>1 DEF resolve
  <1>3. \A b \in Pages : /\ page[b] \in PageStates
                         /\ [page[b] EXCEPT !.at = a] \in PageStates
                         /\ [page[b] EXCEPT !.at = a].at = a
                         /\ [page[b] EXCEPT !.at = a].shown = page[b].shown
    <2> TAKE b \in Pages
    <2>1. a \in {"closed", "load", "pull", "wait", "post", "dead"} /\ page[b] \in PageStates
      BY <1>1 DEF TypeOK
    <2> QED
      BY <2>1, PageAt
  <1>4. page' \in [Pages -> PageStates]
    BY <1>2, <1>3
  <1> QED
    BY <1>1, <1>2, <1>3, <1>4 DEF PagesQuiet, At

LEMMA intervalInv == ASSUME RoomInv, NEW p \in polls, interval(p) PROVE RoomInv'
  <1>1. /\ page' \in [Pages -> PageStates] /\ PagesQuiet
        /\ \A b \in Pages : At(b)' = "wait" => b # p.b /\ At(b) = "wait"
    BY resolvePages DEF interval, RoomInv
  <1>2. polls' = (polls \ {p}) \cup {Settled(p)}
    BY DEF interval
  <1>3. polls' \subseteq [b : Pages \cup {None}, w : up, size : Nat]
    <2>1. Settled(p) \in [b : Pages \cup {None}, w : up, size : Nat]
      BY DEF Settled, RoomInv, TypeOK
    <2> QED
      BY <1>2, <2>1 DEF RoomInv, TypeOK
  <1>4. \A b \in Pages : At(b)' = "wait" => \E q \in polls' : q.b = b /\ q.w = conn[b]
    BY <1>1, <1>2 DEF RoomInv, TypeOK
  <1>5. TypeOK'
    BY <1>1, <1>3, <1>4, PagesType DEF RoomInv, interval, primary
  <1> QED
    BY <1>1, <1>5, SameJobs DEF interval, history

LEMMA timeoutInv == ASSUME RoomInv, NEW p \in polls, timeout(p) PROVE RoomInv'
  <1>1. /\ page' \in [Pages -> PageStates] /\ PagesQuiet
        /\ \A b \in Pages : At(b)' = "wait" => b # p.b /\ At(b) = "wait"
    BY resolvePages DEF timeout, RoomInv
  <1>2. polls' = polls \ {p}
    BY DEF timeout
  <1>3. polls' \subseteq [b : Pages \cup {None}, w : up, size : Nat]
    BY <1>2 DEF RoomInv, TypeOK
  <1>4. \A b \in Pages : At(b)' = "wait" => \E q \in polls' : q.b = b /\ q.w = conn[b]
    BY <1>1, <1>2 DEF RoomInv, TypeOK
  <1>5. TypeOK'
    BY <1>1, <1>3, <1>4, PagesType DEF RoomInv, timeout, primary
  <1> QED
    BY <1>1, <1>5, SameJobs DEF timeout, history

-----------------------------------------------------------------------------
(* The end of processes *)

LEMMA CrashQuiet == ASSUME TypeOK, NEW W, Crash(W) PROVE PagesQuiet
  <1>1. \A b \in Pages :
           page'[b] = IF conn[b] \notin W THEN page[b]
                      ELSE IF At(b) \in {"load", "post"} THEN Blank
                      ELSE [page[b] EXCEPT !.at = "dead"]
    BY DEF Crash
  <1>2. Blank.shown = <<>>
    BY BlankFacts
  <1>3. ASSUME NEW b \in Pages PROVE page'[b].shown = page[b].shown \/ page'[b].shown = <<>>
    <2>1. [page[b] EXCEPT !.at = "dead"].shown = page[b].shown
      BY PageAt DEF TypeOK
    <2>2. \/ page'[b] = page[b] \/ page'[b] = Blank
          \/ page'[b] = [page[b] EXCEPT !.at = "dead"]
      BY <1>1
    <2> QED
      BY <1>2, <2>1, <2>2
  <1> QED
    BY <1>3 DEF PagesQuiet

(* A worker that writes nothing ends. *)
LEMMA CrashInv ==
    ASSUME RoomInv, NEW w \in Workers, Free(w), Crash({w}), UNCHANGED <<life, cut>>
    PROVE  RoomInv'
  <1>1. TypeOK'
    BY CrashType DEF RoomInv, TypeOK
  <1>2. job' = job
    BY DEF Crash, Free, RoomInv, TypeOK
  <1>3. PagesQuiet
    BY CrashQuiet DEF RoomInv
  <1> QED
    BY <1>1, <1>2, <1>3, SameJobs DEF Crash

LEMMA ctrl_cInv == ASSUME RoomInv, ctrl_c PROVE RoomInv'
  <1>1. TypeOK'
    BY CrashType DEF RoomInv, TypeOK, ctrl_c
  <1>2. \A w \in Workers : job'[w] = None
    BY DEF Crash, ctrl_c, RoomInv, TypeOK
  <1>3. PagesQuiet
    BY CrashQuiet DEF RoomInv, ctrl_c
  <1>4. /\ UNCHANGED <<file, told, raced>> /\ (file = Empty => cut')
        /\ cut' => file = Empty
    BY DEF Crash, ctrl_c, RoomInv, UnreadableOnly
  <1> QED
    BY <1>1, <1>2, <1>3, <1>4, Quiet

LEMMA splitInv == ASSUME RoomInv, NEW b \in Pages, chatroom_post_split(b) PROVE RoomInv'
  <1>1. conn[b] \in Workers /\ Free(conn[b]) /\ Crash({conn[b]}) /\ UNCHANGED <<life, cut>>
    BY DEF chatroom_post_split, RoomInv, TypeOK
  <1>2. PICK w \in Workers : w = conn[b]
    BY <1>1
  <1> QED
    BY <1>1, <1>2, CrashInv

LEMMA gpt_failsInv == ASSUME RoomInv, NEW g \in gpt, gpt_fails(g) PROVE RoomInv'
  <1>1. g.w \in Workers
    BY DEF RoomInv, TypeOK
  <1> QED
    BY <1>1, CrashInv DEF gpt_fails

LEMMA retrieve_throwsInv == ASSUME RoomInv, NEW w \in Workers, retrieve_throws(w) PROVE RoomInv'
  BY CrashInv DEF retrieve_throws

-----------------------------------------------------------------------------
(* The log *)

LEMMA add_chatInv ==
    ASSUME RoomInv, Readable, NEW w \in up, Free(w), NEW m \in Messages, add_chat(w, m),
           UNCHANGED <<conn, page>>, gpt' \subseteq gpt
    PROVE  RoomInv'
  <1>1. TypeOK'
    BY add_chatType DEF RoomInv
  <1>0. /\ file \in Log /\ w \in Workers
        /\ job' = [job EXCEPT ![w] = [at |-> "truncate", msg |-> m, data |-> Append(file, m)]]
        /\ raced' = raced \cup IF Adding = {} THEN {} ELSE Adding \cup {m}
        /\ UNCHANGED <<file, told, cut>>
    BY ReadableLog DEF RoomInv, TypeOK, add_chat, retrieve
  <1>2. UnreadableOnly' /\ CutOff'
    BY <1>0 DEF RoomInv, UnreadableOnly, CutOff, Readable
  <1>4. Kept'
    <2>1. \A v \in Workers : v # w => job'[v] = job[v]
      BY <1>0 DEF RoomInv, TypeOK
    <2>2. job'[w].msg = m /\ job'[w].data = Append(file, m)
      BY <1>0 DEF RoomInv, TypeOK
    <2>3. Range(file) \subseteq Range(Append(file, m)) /\ m \in Range(Append(file, m))
      BY <1>0, RangeAppend DEF Log
    <2>4. \A s : Holds(s) => Holds(s)'
      BY <1>0 DEF Holds
    <2>5. Holds(file) /\ Holds(file)'
      BY <1>0, <2>4 DEF RoomInv, Kept, Holds
    <2>6. Holds(Append(file, m))'
      BY <1>0, <2>3, <2>5 DEF Holds
    <2>7. ASSUME NEW v \in Workers, v # w, job[v] # None
          PROVE  job[v].msg \in raced' /\ m \in raced'
      BY <1>0, <2>7 DEF Adding
    <2>8. ASSUME NEW v \in Workers, job'[v] # None
          PROVE  Holds(job[v].data)' /\ job'[v].msg \in Range(job'[v].data)
      <3>1. CASE v = w
        BY <1>0, <2>2, <2>3, <2>6, <3>1 DEF Holds
      <3>2. CASE v # w
        <4>1. job'[v] = job[v] /\ job[v] # None
          BY <2>1, <2>8, <3>2
        <4>2. Holds(job[v].data) /\ job[v].msg \in Range(job[v].data)
          BY <4>1 DEF RoomInv, Kept
        <4> QED
          BY <1>0, <4>1, <4>2 DEF Holds
      <3> QED
        BY <3>1, <3>2
    <2>9. ASSUME NEW u \in Workers, NEW v \in Workers, job'[u] # None, job'[v] # None, u # v
          PROVE  job'[v].msg \in raced'
      <3>1. CASE v = w
        BY <2>1, <2>2, <2>7, <2>9, <3>1
      <3>2. CASE v # w
        BY <2>1, <2>7, <2>9, <3>2
      <3> QED
        BY <3>1, <3>2
    <2> QED
      BY <1>0, <2>5, <2>8, <2>9 DEF Kept, Readable, Holds
  <1>3. ASSUME raced' = {} PROVE Careful'
    <2> DEFINE new == [at |-> "truncate", msg |-> m, data |-> Append(file, m)]
    <2>0. raced = {} /\ Adding = {}
      BY <1>0, <1>3
    <2>1. /\ job' = [job EXCEPT ![w] = new] /\ UNCHANGED <<file, told, page>>
          /\ raced = {} /\ \A v \in Workers : job[v] = None
      BY <1>0, <2>0 DEF Adding
    <2>2. w \in Workers /\ job'[w] = new /\ \A v \in Workers : v # w => job'[v] = None
      BY <2>1 DEF RoomInv, TypeOK
    <2>3. file \in Log /\ page \in [Pages -> PageStates] /\ Covers(file, told, page)
      BY <2>1, ReadableLog DEF RoomInv, TypeOK, Careful
    <2>4. Covers(Append(file, m), told, page) /\ m \in Range(Append(file, m))
      BY <2>3, CoversAppend
    <2>5. JobKept(w)'
      <3>1. job'[w].at = "truncate" /\ job'[w].msg = m /\ job'[w].data = Append(file, m)
        BY <2>2
      <3>2. file' = file /\ told' = told /\ page' = page
        BY <2>1
      <3> QED
        BY <2>4, <3>1, <3>2 DEF JobKept, Readable
    <2> QED
      BY <2>1, <2>2, <2>3, <2>5 DEF Careful
  <1> QED
    BY <1>1, <1>2, <1>3, <1>4 DEF RoomInv

LEMMA chatroom_postInv == ASSUME RoomInv, NEW b \in Pages, chatroom_post(b) PROVE RoomInv'
  <1>1. Readable /\ conn[b] \in up /\ Free(conn[b])
    BY DEF chatroom_post, Served, Reads, RoomInv, TypeOK
  <1>2. page[b].msg \in Messages
    <2>1. page[b].msg \in 0 .. MaxPosts
      BY DEF RoomInv, TypeOK, PageStates
    <2> QED
      BY <2>1, ChatRoomAssumption DEF Messages
  <1> QED
    BY <1>1, <1>2, add_chatInv DEF chatroom_post

LEMMA gpt_answerInv == ASSUME RoomInv, NEW g \in gpt, gpt_answer(g) PROVE RoomInv'
  <1>1. Readable /\ g.w \in up /\ Free(g.w)
    BY DEF gpt_answer, Reads, RoomInv, TypeOK
  <1>2. -g.q \in Messages
    <2>1. g.q \in 1 .. MaxPosts
      BY ChatRoomAssumption DEF RoomInv, TypeOK
    <2> QED
      BY <2>1, ChatRoomAssumption DEF Messages
  <1>3. gpt' \subseteq gpt
    BY DEF gpt_answer
  <1> QED
    BY <1>1, <1>2, <1>3, add_chatInv DEF gpt_answer

LEMMA gpt_replyInv == ASSUME RoomInv, NEW g \in gpt, gpt_reply(g) PROVE RoomInv'
  <1>1. gpt' \subseteq [q : Questions, w : up, at : {"timer", "fetch"}]
    <2>1. g \in [q : Questions, w : up, at : {"timer", "fetch"}]
      BY DEF RoomInv, TypeOK
    <2>2. [g EXCEPT !.at = "fetch"] \in [q : Questions, w : up, at : {"timer", "fetch"}]
      BY <2>1
    <2> QED
      BY <2>2 DEF gpt_reply, RoomInv, TypeOK
  <1>2. TypeOK'
    BY <1>1 DEF RoomInv, TypeOK, gpt_reply, primary, At
  <1>3. PagesQuiet
    BY DEF PagesQuiet, gpt_reply
  <1> QED
    BY <1>2, <1>3, SameJobs DEF gpt_reply, history

LEMMA persist_truncateInv ==
    ASSUME RoomInv, NEW w \in Workers, persist_truncate(w) PROVE RoomInv'
  <1> USE ChatRoomAssumption
  <1>1. /\ job[w] \in Jobs /\ job[w].at = "truncate" /\ job[w] # None /\ w \in up
    BY DEF persist_truncate, RoomInv, TypeOK
  <1>2. PICK new : new = [job[w] EXCEPT !.at = "write"]
    OBVIOUS
  <1>3. /\ new \in Jobs /\ new # None /\ new.at = "write"
        /\ new.msg = job[w].msg /\ new.data = job[w].data
    BY <1>1, <1>2 DEF Jobs
  <1>4. job' = [job EXCEPT ![w] = new] /\ file' = Empty
    BY <1>2 DEF persist_truncate
  <1>5. \A v \in Workers : job'[v] = IF v = w THEN new ELSE job[v]
    BY <1>4 DEF RoomInv, TypeOK
  <1>6. TypeOK'
    <2>1. job' \in [Workers -> Jobs \cup {None}]
      BY <1>3, <1>4 DEF RoomInv, TypeOK
    <2>2. \A v \in Workers : job'[v] # None => v \in up
      BY <1>1, <1>5 DEF RoomInv, TypeOK
    <2> QED
      BY <1>4, <2>1, <2>2 DEF RoomInv, TypeOK, persist_truncate, primary, At
  <1>7. UnreadableOnly' /\ CutOff'
    <2>1. ~cut /\ cut' = cut
      BY <1>1 DEF RoomInv, CutOff, persist_truncate, history
    <2> QED
      BY <1>3, <1>4, <1>5, <2>1 DEF UnreadableOnly, CutOff
  <1>9. Kept'
    <2>1. ~Readable' /\ UNCHANGED <<told, raced>>
      BY <1>4 DEF Readable, persist_truncate, history
    <2>2. \A v \in Workers : job'[v] # None =>
             job[v] # None /\ job'[v].msg = job[v].msg /\ job'[v].data = job[v].data
      BY <1>1, <1>3, <1>5
    <2> QED
      BY <2>1, <2>2 DEF RoomInv, Kept, Holds
  <1>8. ASSUME raced' = {} PROVE Careful'
    <2>1. Careful /\ told' = told /\ page' = page
      BY <1>8 DEF RoomInv, persist_truncate, history
    <2>2. \A v \in Workers : job'[v] # None => v = w
      BY <1>1, <1>5, <2>1 DEF Careful
    <2>3. job[w].msg \in Range(job[w].data) /\ Covers(job[w].data, told, page)
      BY <1>1, <2>1 DEF Careful, JobKept
    <2>4. JobKept(w)'
      BY <1>3, <1>4, <1>5, <2>1, <2>3 DEF JobKept
    <2>5. ~Readable'
      BY <1>4 DEF Readable
    <2> QED
      BY <2>2, <2>4, <2>5 DEF Careful
  <1> QED
    BY <1>6, <1>7, <1>8, <1>9 DEF RoomInv

LEMMA persist_writeInv ==
    ASSUME RoomInv, NEW w \in Workers, persist_write(w) PROVE RoomInv'
  <1> USE ChatRoomAssumption
  <1>0. job[w] \in Jobs /\ job[w].at = "write" /\ job[w] # None /\ w \in up
    BY DEF persist_write, RoomInv, TypeOK
  <1>1. PICK m \in Messages, d \in Log : m = job[w].msg /\ d = job[w].data
    BY <1>0 DEF Jobs
  <1>2. /\ file' = d \/ (file' = Broken /\ file # Empty)
        /\ told' = told \cup {m}
        /\ gpt' = gpt \cup IF m \in Questions THEN {[q |-> m, w |-> w, at |-> "timer"]} ELSE {}
        /\ job' = [job EXCEPT ![w] = None]
        /\ page' = [b \in Pages |->
                      IF At(b) = "post" /\ page[b].msg = m
                      THEN [Blank EXCEPT !.at = "load"]
                      ELSE [page[b] EXCEPT !.missed = @ \/ At(b) = "pull"]]
        /\ UNCHANGED <<up, life, starts, polls, conn, posted, raced, cut>>
    BY <1>1 DEF persist_write, primary
  <1>3. ASSUME NEW b \in Pages
        PROVE  /\ page'[b] \in PageStates
               /\ page'[b].shown = page[b].shown \/ page'[b].shown = <<>>
               /\ At(b)' = "wait" => At(b) = "wait"
    <2>0. page[b] \in PageStates
      BY DEF RoomInv, TypeOK
    <2>1. CASE At(b) = "post" /\ page[b].msg = m
      <3>1. page'[b] = [Blank EXCEPT !.at = "load"]
        BY <1>2, <2>1
      <3>2. page'[b] \in PageStates /\ page'[b].shown = <<>> /\ page'[b].at = "load"
        BY <3>1, BlankFacts
      <3> QED
        BY <3>2 DEF At
    <2>2. CASE ~(At(b) = "post" /\ page[b].msg = m)
      <3>1. PICK x \in BOOLEAN : page'[b] = [page[b] EXCEPT !.missed = x]
        <4>1. (page[b].missed \/ At(b) = "pull") \in BOOLEAN
          OBVIOUS
        <4> QED
          BY <1>2, <2>2, <4>1
      <3>2. page'[b] \in PageStates /\ page'[b].shown = page[b].shown /\ page'[b].at = page[b].at
        BY <2>0, <3>1 DEF PageStates
      <3> QED
        BY <3>2 DEF At
    <2> QED
      BY <2>1, <2>2
  <1>4. \A v \in Workers : job'[v] = IF v = w THEN None ELSE job[v]
    BY <1>2 DEF RoomInv, TypeOK
  <1>5. TypeOK'
    <2>1. page' \in [Pages -> PageStates]
      BY <1>2, <1>3
    <2>2. /\ job' \in [Workers -> Jobs \cup {None}]
          /\ \A v \in Workers : job'[v] # None => v \in up
      BY <1>2, <1>4 DEF RoomInv, TypeOK
    <2>3. gpt' \subseteq [q : Questions, w : up, at : {"timer", "fetch"}]
      BY <1>0, <1>2 DEF RoomInv, TypeOK
    <2>4. file' \in Log \cup {Empty, Broken}
      BY <1>2
    <2>5. \A b \in Pages : At(b)' = "wait" => \E p \in polls' : p.b = b /\ p.w = conn'[b]
      BY <1>2, <1>3 DEF RoomInv, TypeOK
    <2> QED
      BY <1>2, <2>1, <2>2, <2>3, <2>4, <2>5 DEF RoomInv, TypeOK
  <1>6. ASSUME raced = {} PROVE file' = d /\ Careful /\ JobKept(w)
    BY <1>0, <1>2, <1>6 DEF RoomInv, Careful, JobKept
  <1>7. UnreadableOnly' /\ CutOff'
    <2>1. ~cut
      BY <1>0 DEF RoomInv, CutOff
    <2> QED
      BY <1>2, <1>6, <2>1 DEF UnreadableOnly, CutOff
  <1>9. Kept'
    <2>1. Holds(d) /\ m \in Range(d)
      BY <1>0, <1>1 DEF RoomInv, Kept
    <2>2. \A s : Holds(s) /\ (m \in raced \/ m \in Range(s)) => Holds(s)'
      BY <1>2 DEF Holds
    <2>3. Holds(d)'
      BY <1>2, <2>1 DEF Holds
    <2>4. ASSUME NEW v \in Workers, job'[v] # None
          PROVE  job'[v] = job[v] /\ job[v] # None /\ m \in raced
      BY <1>0, <1>1, <1>4, <2>4 DEF RoomInv, Kept
    <2>5. \A v \in Workers : job'[v] # None =>
             Holds(job[v].data)' /\ job'[v].msg \in Range(job'[v].data)
      BY <1>2, <2>4 DEF RoomInv, Kept, Holds
    <2>6. Readable' => Holds(file)'
      BY <1>2, <2>3 DEF Readable, Holds
    <2>7. \A u, v \in Workers : job'[u] # None /\ job'[v] # None /\ u # v =>
             job'[v].msg \in raced'
      BY <1>2, <2>4 DEF RoomInv, Kept
    <2> QED
      BY <2>5, <2>6, <2>7 DEF Kept
  <1>8. ASSUME raced' = {} PROVE Careful'
    <2>1. raced = {} /\ file' = d /\ Careful /\ JobKept(w)
      BY <1>2, <1>6, <1>8
    <2>2. \A v \in Workers : job'[v] = None
      BY <1>0, <1>4, <2>1 DEF Careful
    <2>3. m \in Range(d) /\ Covers(d, told, page)
      BY <1>1, <2>1 DEF JobKept
    <2>4. Covers(d, told, page')
      BY <1>3, <2>3, CoversQuiet
    <2>5. Covers(d, told', page')
      BY <1>2, <2>3, <2>4 DEF Covers
    <2> QED
      BY <2>1, <2>2, <2>5 DEF Careful
  <1> QED
    BY <1>5, <1>7, <1>8, <1>9 DEF RoomInv

-----------------------------------------------------------------------------
(* The cluster *)

LEMMA cluster_forkInv == ASSUME RoomInv, NEW w \in Workers, cluster_fork(w) PROVE RoomInv'
  <1>1. PagesQuiet
    BY DEF PagesQuiet, cluster_fork
  <1>2. TypeOK'
    <2>1. conn' \in [Pages -> up' \cup {None}]
      BY DEF cluster_fork, RoomInv, TypeOK
    <2>2. /\ polls' \subseteq [b : Pages \cup {None}, w : up', size : Nat]
          /\ gpt' \subseteq [q : Questions, w : up', at : {"timer", "fetch"}]
      BY DEF cluster_fork, RoomInv, TypeOK
    <2> QED
      BY <2>1, <2>2 DEF cluster_fork, RoomInv, TypeOK, At
  <1> QED
    BY <1>1, <1>2, SameJobs DEF cluster_fork, history

LEMMA worker_exitInv == ASSUME RoomInv, NEW w \in Workers, worker_exit(w) PROVE RoomInv'
  <1>1. PagesQuiet
    BY DEF PagesQuiet, worker_exit
  <1>2. TypeOK'
    <2>1. conn' \in [Pages -> up' \cup {None}]
      BY DEF worker_exit, Done, RoomInv, TypeOK
    <2>2. /\ polls' \subseteq [b : Pages \cup {None}, w : up', size : Nat]
          /\ gpt' \subseteq [q : Questions, w : up', at : {"timer", "fetch"}]
      BY DEF worker_exit, Done, RoomInv, TypeOK
    <2>3. up' \subseteq Workers /\ \A v \in Workers : job'[v] # None => v \in up'
      BY DEF worker_exit, Done, Free, RoomInv, TypeOK
    <2> QED
      BY <2>1, <2>2, <2>3 DEF worker_exit, RoomInv, TypeOK, At
  <1> QED
    BY <1>1, <1>2, SameJobs DEF worker_exit, history

LEMMA startInv == ASSUME RoomInv, start PROVE RoomInv'
  <1>1. PagesQuiet
    BY DEF PagesQuiet, start
  <1>2. TypeOK'
    <2>1. conn' \in [Pages -> up' \cup {None}]
      BY DEF start, RoomInv, TypeOK
    <2>2. /\ polls' \subseteq [b : Pages \cup {None}, w : up', size : Nat]
          /\ gpt' \subseteq [q : Questions, w : up', at : {"timer", "fetch"}]
      BY DEF start, RoomInv, TypeOK
    <2>3. starts' \in 0 .. MaxStarts
      BY ChatRoomAssumption DEF start, RoomInv, TypeOK
    <2> QED
      BY <2>1, <2>2, <2>3 DEF start, RoomInv, TypeOK, At
  <1> QED
    BY <1>1, <1>2, SameJobs DEF start, history

LEMMA sigintInv == ASSUME RoomInv, sigint \/ primary_exit PROVE RoomInv'
  <1>1. PagesQuiet
    BY DEF PagesQuiet, sigint, primary_exit
  <1>2. TypeOK'
    BY DEF sigint, primary_exit, RoomInv, TypeOK, At
  <1> QED
    BY <1>1, <1>2, SameJobs DEF sigint, primary_exit, history

-----------------------------------------------------------------------------
LEMMA InitRoom == ASSUME Init PROVE RoomInv
  <1> USE ChatRoomAssumption
  <1>1. <<>> \in Log /\ <<>> \in Seq(Messages) /\ 0 \in 0 .. MaxPosts /\ 0 \in 0 .. MaxStarts
    BY EmptySeq DEF Log
  <1>2. TypeOK
    BY <1>1, BlankFacts DEF Init, TypeOK, At
  <1>3. UnreadableOnly /\ CutOff
    BY <1>1 DEF Init, UnreadableOnly, CutOff
  <1>5. Kept
    BY DEF Init, Kept, Holds
  <1>4. Careful
    <2>1. \A b \in Pages : page[b].shown = <<>>
      BY BlankFacts DEF Init
    <2>2. IsPrefix(<<>>, <<>>)
      BY <1>1, PrefixEmpty
    <2>3. Covers(file, told, page)
      BY <2>1, <2>2 DEF Init, Covers
    <2> QED
      BY <2>3 DEF Init, Careful
  <1> QED
    BY <1>2, <1>3, <1>4, <1>5 DEF RoomInv

LEMMA NextRoom == ASSUME RoomInv, [Next]_vars PROVE RoomInv'
  <1>1. CASE Next
    <2>1. ASSUME NEW b \in Pages, open(b) \/ close(b) \/ post(b) \/ Page(b) PROVE RoomInv'
      BY <2>1, openInv, closeInv, postInv, connectInv, refusedInv, chatroom_getInv,
         chatroom_postInv, splitInv, chat_statusInv, timeoutInv DEF Page
    <2>2. ASSUME NEW w \in Workers, Worker(w) \/ Background(w) PROVE RoomInv'
      BY <2>2, persist_truncateInv, persist_writeInv, retrieve_throwsInv, timeoutInv,
         gpt_replyInv, gpt_answerInv, gpt_failsInv, cluster_forkInv, worker_exitInv
         DEF Worker, Background
    <2> QED
      BY <1>1, <2>1, <2>2, intervalInv, sigintInv, ctrl_cInv, startInv DEF Next
  <1>2. CASE UNCHANGED vars
    <2>1. PagesQuiet
      BY <1>2 DEF vars, PagesQuiet
    <2>2. TypeOK'
      BY <1>2 DEF vars, RoomInv, TypeOK, At
    <2> QED
      BY <1>2, <2>1, <2>2, SameJobs DEF vars
  <1> QED
    BY <1>1, <1>2

(* Handlers, timers, crashes, signals and restarts keep the invariant,     *)
(* among which: a worker inside add_chat holds every message that did not  *)
(* race, and while it is alone there nothing else fills the file.          *)
THEOREM RoomInvariant == Spec => []RoomInv
  BY InitRoom, NextRoom, PTL DEF Spec

(* Every variable has its type; connections, timers and calls of GPT       *)
(* belong to workers that run, and a page that waits has its poll.         *)
THEOREM RoomTypeCorrect == Spec => []TypeOK
  <1>1. RoomInv => TypeOK
    BY DEF RoomInv
  <1> QED
    BY <1>1, RoomInvariant, PTL

(* data/chat.json cannot be read only while a worker writes it, after      *)
(* Ctrl-C has killed one that did, or after two workers wrote at once; and *)
(* what Ctrl-C has cut off stays empty through every later start.          *)
THEOREM LogReadable == Spec => []UnreadableOnly
  <1>1. RoomInv => UnreadableOnly
    BY DEF RoomInv
  <1> QED
    BY <1>1, RoomInvariant, PTL

(* Until the log is lost as a whole (Ctrl-C in the middle of a write, or   *)
(* two texts mixed), it holds every message whose add_chat has returned    *)
(* and was alone, whatever messages have raced since, through crashes of   *)
(* workers, signals and starts; and what a page shows is its beginning if  *)
(* no messages have raced.                                                 *)
THEOREM MessagesKept == Spec => []LogKept
  <1>1. ASSUME RoomInv, ~Lost PROVE Contents # {}
    BY <1>1 DEF RoomInv, UnreadableOnly, Lost, Contents, Readable
  <1>2. ASSUME RoomInv, NEW s \in Contents
        PROVE  /\ told \ raced \subseteq Range(s)
               /\ raced = {} => \A b \in Pages : IsPrefix(page[b].shown, s)
    <2>1. \/ Readable /\ s = file
          \/ \E w \in Workers : job[w] # None /\ s = job[w].data
      BY <1>2 DEF Contents
    <2> QED
      BY <1>2, <2>1 DEF RoomInv, Kept, Holds, Careful, JobKept, Covers
  <1>3. RoomInv => LogKept
    BY <1>1, <1>2 DEF LogKept
  <1> QED
    BY <1>3, RoomInvariant, PTL
=============================================================================
