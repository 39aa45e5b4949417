----------------------------- MODULE LiveHttp3 -----------------------------
(***************************************************************************)
(* HTTP/3 over the streams of one QUIC connection: quicSession of          *)
(* decode/livequic.go, and the QPACK decoder of internal/qpackdec.         *)
(*                                                                         *)
(* What QUIC hands on is the environment: each stream's bytes in order, in *)
(* pieces of any size, the streams interleaved anyhow, then their ends or  *)
(* resets (QuicConn shows this order). A world gives the items of each     *)
(* stream: the frames of one half of a request stream, or the stream type  *)
(* and the instructions of an encoder stream. An item is a head of one     *)
(* byte (its varints) and `len` bytes more. Table entries all have the     *)
(* minimal size of 32, so a capacity is a number of entries.               *)
(***************************************************************************)
EXTENDS Integers, Sequences, FiniteSets, SequencesExt

CONSTANTS
  Worlds   \* the connections decoded (see MCLiveHttp3)

VARIABLES
  world,    \* the connection
  got,      \* got[s]: bytes of stream s handed on
  fin,      \* fin[s]: "no"; "end" or "reset" once handed on, and "unknown" for
            \* a reset that came before anything else of the stream
  parsed,   \* parsed[s]: items of s consumed
  table,    \* table[d]: the QPACK decoder of direction d
  blocked,  \* HEADERS sections that wait for inserts, oldest first
  flow,     \* flow[r]: the h3Stream of request r and its flow, or NoStream
  over      \* close ran

vars == <<world, got, fin, parsed, table, blocked, flow, over>>

Dirs == {"client", "server"}
Streams == DOMAIN world.streams
halves == {s \in Streams : world.streams[s].kind = "request"}
Requests == {world.streams[s].request : s \in halves}

items(s) == world.streams[s].items
dirOf(s) == world.streams[s].dir
requestOf(s) == world.streams[s].request

\* The bytes of the first n items of a stream.
upTo(s, n) == FoldLeft(LAMBDA a, item : a + 1 + item.len, 0, SubSeq(items(s), 1, n))

total(s) == upTo(s, Len(items(s)))

\* The items that are whole among the first n bytes.
whole(s, n) ==
  CHOOSE k \in 0 .. Len(items(s)) :
    /\ upTo(s, k) <= n
    /\ k < Len(items(s)) => upTo(s, k + 1) > n

NoStream == [open |-> FALSE]

\* h3Stream and newFlow. `raw` is respRaw, `body` the response body: the first
\* `of` bytes of the wire as they came, or decoded. `work` sums what decodeResp
\* has gone through, `ends` counts the times the bodies were marked final.
newStream ==
  [open |-> TRUE, emitted |-> FALSE, request |-> << >>, response |-> << >>,
   requestBody |-> 0, enc |-> FALSE, raw |-> 0, decodedAt |-> 0,
   body |-> [form |-> "plain", of |-> 0], error |-> FALSE, ends |-> 0, work |-> 0]

\* qpackdec.New: capacity 0 until the encoder sets it. `entries` holds the
\* live ones, oldest first.
NewTable == [entries |-> << >>, insertCount |-> 0, capacity |-> 0, failed |-> FALSE]

Init ==
  /\ world \in Worlds
  /\ got = [s \in Streams |-> 0]
  /\ fin = [s \in Streams |-> "no"]
  /\ parsed = [s \in Streams |-> 0]
  /\ table = [d \in Dirs |-> NewTable]
  /\ blocked = << >>
  /\ flow = [r \in Requests |-> NoStream]
  /\ over = FALSE

---------------------------------------------------------------------------
(* qpack.go: the dynamic table                                             *)

\* insert: evict drops the oldest entries until the new one fits.
insert(t, v) ==
  LET room == t.capacity - 1
      from == IF Len(t.entries) > room THEN Len(t.entries) - room + 1 ELSE 1
  IN [t EXCEPT !.entries = Append(SubSeq(@, from, Len(@)), v), !.insertCount = @ + 1]

setCapacity(t, n) ==
  LET from == IF Len(t.entries) > n THEN Len(t.entries) - n + 1 ELSE 1
  IN [t EXCEPT !.capacity = n, !.entries = SubSeq(@, from, Len(@))]

\* dynByRel, newest first; dynByAbs, by insertion number.
hasRel(t, rel) == rel < Len(t.entries)
dynByRel(t, rel) == t.entries[Len(t.entries) - rel]

oldest(t) == t.insertCount - Len(t.entries)
hasAbs(t, abs) == abs >= oldest(t) /\ abs < t.insertCount
dynByAbs(t, abs) == t.entries[abs - oldest(t) + 1]

\* One encoder instruction: an insert that does not fit and a duplicate of an
\* entry that is not there are malformed.
malformed(t, ins) ==
  \/ ins.i = "insert" /\ t.capacity = 0
  \/ ins.i = "dup" /\ ~hasRel(t, ins.rel)

instruct(t, ins) ==
  CASE ins.i = "type" -> t
    [] ins.i = "cap" -> setCapacity(t, ins.n)
    [] ins.i = "insert" -> insert(t, ins.v)
    [] ins.i = "dup" -> insert(t, dynByRel(t, ins.rel))

\* ReadEncoderStream: every whole instruction is applied. At a malformed one
\* it returns with what came before applied but still in encBuf, so that the
\* next call applies it again. Gives the table and the items consumed.
ReadEncoderStream(t, s, from, upto) ==
  LET step(acc, ins) ==
        IF acc.err \/ malformed(acc.t, ins)
        THEN [acc EXCEPT !.err = TRUE]
        ELSE [acc EXCEPT !.t = instruct(@, ins)]
      end == FoldLeft(step, [t |-> t, err |-> FALSE], SubSeq(items(s), from + 1, upto))
  IN IF end.err
     THEN [t |-> [end.t EXCEPT !.failed = TRUE], parsed |-> from]
     ELSE [t |-> end.t, parsed |-> upto]

\* The Required Insert Count on the wire (RFC 9204, 4.5.1.1), as the encoder
\* writes it for a table of at most world.maxEntries entries.
encodeRIC(ric) == IF ric = 0 THEN 0 ELSE (ric % (2 * world.maxEntries)) + 1

\* A mutant: the wrap is never undone.
decodeRICUnwrapped(t, enc) ==
  LET range == 2 * t.capacity IN IF enc > range \/ enc = 1 THEN -1 ELSE enc - 1

\* decodeRIC: the count nearest to the inserts seen; -1 is an error.
decodeRIC(t, enc) ==
  LET range == 2 * t.capacity
      maxValue == t.insertCount + t.capacity
      wrapped == (maxValue \div range) * range
      ric == wrapped + enc - 1
  IN IF enc > range \/ (ric > maxValue /\ ric <= range) THEN -1
     ELSE LET n == IF ric > maxValue THEN ric - range ELSE ric
          IN IF n = 0 THEN -1 ELSE n

\* A field line against the table: a literal, or the entry a dynamic index
\* comes to when the section's count was read `shift` too high.
resolves(t, line, shift) == line.dynamic => hasAbs(t, line.abs + shift)
fieldValue(t, line, shift) ==
  IF line.dynamic THEN dynByAbs(t, line.abs + shift) ELSE line.v

\* readPrefix and DecodeFieldSection: "blocked" while the capacity or an
\* insert is not known, "error", or the fields.
DecodeFieldSection(t, sec) ==
  LET enc == encodeRIC(sec.ric)
      ric == IF enc = 0 THEN 0 ELSE decodeRIC(t, enc)
      lines == sec.lines
  IN IF enc # 0 /\ t.capacity = 0 THEN [is |-> "blocked"]
     ELSE IF ric = -1 THEN [is |-> "error"]
     ELSE IF ric > t.insertCount THEN [is |-> "blocked"]
     ELSE IF \E k \in DOMAIN lines : ~resolves(t, lines[k], ric - sec.ric)
     THEN [is |-> "error"]
     ELSE [is |-> "fields",
           fields |-> [k \in DOMAIN lines |-> fieldValue(t, lines[k], ric - sec.ric)]]

---------------------------------------------------------------------------
(* livequic.go: flows                                                      *)

emit(st) == [st EXCEPT !.emitted = TRUE]

\* decodeResp: from the start of the body each time, on a doubling schedule
\* unless `final`.
decodeResp(st, final) ==
  IF ~st.enc \/ st.raw = 0 \/ (~final /\ st.raw < 2 * st.decodedAt)
  THEN st
  ELSE [st EXCEPT !.decodedAt = st.raw, !.work = @ + st.raw,
                  !.body = [form |-> "decoded", of |-> st.raw]]

\* A mutant: they are left where they are.
setRespEncLate(st) ==
  IF st.enc THEN st ELSE decodeResp([st EXCEPT !.enc = TRUE], TRUE)

\* setRespEnc: bytes taken as plain in the meantime go back to the wire buffer.
setRespEnc(st) ==
  IF st.enc THEN st
  ELSE decodeResp([st EXCEPT !.enc = TRUE,
                             !.raw = IF @ = 0 THEN st.body.of ELSE @], TRUE)

\* applyHeaders: which section, and the fields it decoded to.
applyHeaders(st, d, n, fields) ==
  LET entry == [n |-> n, fields |-> fields]
  IN IF d = "client"
     THEN emit([st EXCEPT !.request = Append(@, entry)])
     ELSE LET st1 == [st EXCEPT !.response = Append(@, entry)]
          IN emit(IF "gzip" \in ToSet(fields) THEN setRespEnc(st1) ELSE st1)

onData(st, d, len) ==
  emit(IF d = "client" THEN [st EXCEPT !.requestBody = @ + len]
       ELSE IF ~st.enc THEN [st EXCEPT !.body.of = @ + len]
       ELSE decodeResp([st EXCEPT !.raw = @ + len], FALSE))

end(st) == emit([decodeResp(st, TRUE) EXCEPT !.ends = @ + 1])

\* onHeaders and parseFrames: each whole frame in turn; a blocked section is
\* set aside, one that does not decode costs itself only.
onFrame(acc, s, n) ==
  LET item == items(s)[n]
      d == dirOf(s)
      dec == DecodeFieldSection(table[d], item.sec)
  IN CASE item.f = "headers" /\ dec.is = "fields" ->
            [acc EXCEPT !.st = applyHeaders(@, d, n, dec.fields)]
       [] item.f = "headers" /\ dec.is = "blocked" ->
            [acc EXCEPT !.blocked = Append(@, [s |-> s, n |-> n])]
       [] item.f = "data" -> [acc EXCEPT !.st = onData(@, d, item.len)]
       [] OTHER -> acc

parseFrames(st, s, from, upto) ==
  FoldLeft(LAMBDA acc, k : onFrame(acc, s, from + k), [st |-> st, blocked |-> blocked],
           [k \in 1 .. upto - from |-> k])

\* The frames consumed by a call that brings the stream to n bytes.
frames(s, n) == whole(s, n)

\* retryBlocked, with table t in direction d: what can be decoded now is
\* applied, oldest first, the rest waits on; what fails is dropped.
retryBlocked(t, d) ==
  LET dec(b) == DecodeFieldSection(IF dirOf(b.s) = d THEN t ELSE table[dirOf(b.s)],
                                   items(b.s)[b.n].sec)
      step(fl, b) == IF dec(b).is # "fields" THEN fl
                     ELSE [fl EXCEPT ![requestOf(b.s)] = applyHeaders(@, dirOf(b.s), b.n, dec(b).fields)]
  IN [flow |-> FoldLeft(step, flow, blocked),
      blocked |-> SelectSeq(blocked, LAMBDA b : dec(b).is = "blocked")]

---------------------------------------------------------------------------
(* What QUIC hands on                                                      *)

\* onStream for n more bytes of one half of a request stream, with `ended`
\* when they are its last: the server's half ends the response.
OnRequestBytes(s, n, ended) ==
  LET r == requestOf(s)
      st == IF flow[r].open THEN flow[r] ELSE newStream
      upto == frames(s, got[s] + n)
      after == parseFrames(st, s, parsed[s], upto)
  IN /\ flow' = [flow EXCEPT ![r] =
                   IF ended /\ dirOf(s) = "server" /\ after.st.ends = 0 THEN end(after.st)
                   ELSE after.st]
     /\ blocked' = after.blocked
     /\ parsed' = [parsed EXCEPT ![s] = upto]
     /\ UNCHANGED table

\* A section was decoded by the peer: its frame is whole and it does not wait.
peerHas(x) ==
  /\ parsed[x[1]] >= x[2]
  /\ \A k \in DOMAIN blocked : <<blocked[k].s, blocked[k].n>> # x

\* The encoder evicts an entry only when the sections that use it were decoded
\* (`after`), and only then refers to what took its place.
sendable(s, n) ==
  \A k \in parsed[s] + 1 .. whole(s, got[s] + n) : \A x \in items(s)[k].after : peerHas(x)

\* onUni for n more bytes of an encoder stream.
OnEncoderBytes(s, n) ==
  LET d == dirOf(s)
      upto == whole(s, got[s] + n)
      read == ReadEncoderStream(table[d], s, parsed[s], upto)
      retried == retryBlocked(read.t, d)
      typed == parsed[s] > 0 \/ upto > 0
  IN /\ table' = [table EXCEPT ![d] = IF typed THEN read.t ELSE @]
     /\ parsed' = [parsed EXCEPT ![s] = IF typed THEN read.parsed ELSE 0]
     /\ IF typed /\ ~(read.parsed < upto)
        THEN flow' = retried.flow /\ blocked' = retried.blocked
        ELSE UNCHANGED <<flow, blocked>>

\* Where a world lets a stream be cut: anywhere, between items, or nowhere.
cut(s, n, ended) ==
  CASE world.streams[s].cuts = "anywhere" -> TRUE
    [] world.streams[s].cuts = "items" -> n > 0 /\ upTo(s, whole(s, n)) = n
    [] OTHER -> n = total(s) /\ (s \in halves => ended)

\* onStream.
OnStream(s, n, ended) ==
  /\ ~over
  /\ fin[s] # "end"
  /\ got[s] + n <= total(s)
  /\ n > 0 \/ ended
  /\ ended => got[s] + n = total(s)
  /\ cut(s, got[s] + n, ended)
  /\ sendable(s, n)
  /\ got' = [got EXCEPT ![s] = @ + n]
  /\ fin' = [fin EXCEPT ![s] = IF ended THEN "end" ELSE @]
  /\ IF s \in halves THEN OnRequestBytes(s, n, ended)
     ELSE ~ended /\ OnEncoderBytes(s, n)
  /\ UNCHANGED <<world, over>>

\* onReset: the server's ends the response, with its reason; a client's, and
\* one for a stream nothing was seen of, ends nothing.
OnReset(s) ==
  /\ ~over
  /\ world.resets
  /\ s \in halves
  /\ fin[s] = "no"
  /\ fin' = [fin EXCEPT ![s] = IF flow[requestOf(s)].open THEN "reset" ELSE "unknown"]
  /\ LET r == requestOf(s) IN
     flow' = IF dirOf(s) = "client" \/ ~flow[r].open \/ flow[r].ends > 0 THEN flow
             ELSE [flow EXCEPT ![r] = end([@ EXCEPT !.error = TRUE])]
  /\ UNCHANGED <<world, got, parsed, table, blocked, over>>

\* quicSession.close.
close ==
  /\ flow' = [r \in Requests |->
                IF flow[r].open /\ flow[r].ends = 0 THEN end(flow[r]) ELSE flow[r]]
  /\ blocked' = << >>

\* The capture may end at any point.
Close ==
  /\ ~over
  /\ over' = TRUE
  /\ close
  /\ UNCHANGED <<world, got, fin, parsed, table>>

Next ==
  \/ \E s \in Streams : \E n \in 0 .. total(s), ended \in BOOLEAN : OnStream(s, n, ended)
  \/ \E s \in Streams : OnReset(s)
  \/ Close

Spec == Init /\ [][Next]_vars

---------------------------------------------------------------------------
(* What must hold                                                          *)

\* Types of the variables; a table holds no more than its capacity.
TypeOK ==
  /\ \A s \in Streams : got[s] \in 0 .. total(s) /\ parsed[s] \in 0 .. Len(items(s))
  /\ \A s \in Streams : fin[s] \in {"no", "end", "reset", "unknown"}
  /\ \A d \in Dirs : Len(table[d].entries) <= table[d].capacity
  /\ over \in BOOLEAN

\* The entry an encoder has given insertion number k, from its whole stream.
inserted(d) ==
  LET step(acc, ins) ==
        CASE ins.i = "insert" -> Append(acc, ins.v)
          [] ins.i = "dup" /\ ins.rel < Len(acc) -> Append(acc, acc[Len(acc) - ins.rel])
          [] OTHER -> acc
      enc == {s \in Streams \ halves : dirOf(s) = d}
  IN IF enc = {} THEN << >> ELSE FoldLeft(step, << >>, items(CHOOSE s \in enc : TRUE))

\* What the encoder meant by a section.
meaning(d, sec) ==
  [k \in DOMAIN sec.lines |->
    IF sec.lines[k].dynamic THEN inserted(d)[sec.lines[k].abs + 1] ELSE sec.lines[k].v]

half(r, d) == CHOOSE s \in halves : requestOf(s) = r /\ dirOf(s) = d

applied(r, d) ==
  IF ~flow[r].open THEN << >>
  ELSE IF d = "client" THEN flow[r].request ELSE flow[r].response

\* Every section applied to a flow says what its encoder said: whatever was
\* inserted, duplicated and evicted meanwhile, however often the wrapped count
\* went round, and however long the section waited (DecodeFieldSection,
\* retryBlocked).
SectionsMean ==
  \A r \in Requests, d \in Dirs : \A k \in DOMAIN applied(r, d) :
    applied(r, d)[k].fields =
      meaning(d, items(half(r, d))[applied(r, d)[k].n].sec)

\* Until the end every HEADERS frame that came whole is applied, or waits
\* because an insert it needs has not come; never both, never neither
\* (parseFrames, onHeaders, retryBlocked).
EverySectionCounts ==
  ~over => \A s \in halves : \A n \in 1 .. whole(s, got[s]) :
    items(s)[n].f = "headers" =>
      LET t == table[dirOf(s)]
          missing == items(s)[n].sec.ric > t.insertCount
          waits == \E k \in DOMAIN blocked : blocked[k] = [s |-> s, n |-> n]
          is == {k \in DOMAIN applied(requestOf(s), dirOf(s)) :
                   applied(requestOf(s), dirOf(s))[k].n = n}
      IN /\ waits <=> missing
         /\ Cardinality(is) = IF missing THEN 0 ELSE 1

dataOf(s) ==
  FoldLeft(LAMBDA a, item : IF item.f = "data" THEN a + item.len ELSE a, 0,
           SubSeq(items(s), 1, whole(s, got[s])))

allApplied(r) ==
  \A s \in halves : requestOf(s) = r /\ dirOf(s) = "server" =>
    \A n \in 1 .. whole(s, got[s]) : items(s)[n].f = "headers" =>
      \E k \in DOMAIN flow[r].response : flow[r].response[k].n = n

\* Once a response is marked final, and its headers are known, its body is
\* the decoding of every byte that came of it, or those bytes if it was not
\* encoded; also when the encoding was learnt after the bytes (setRespEnc,
\* decodeResp, end).
FinalBodyIsWhole ==
  \A r \in Requests :
    flow[r].open /\ flow[r].ends > 0 /\ allApplied(r) /\ ~flow[r].error =>
      LET n == dataOf(half(r, "server")) IN
      flow[r].body = [form |-> IF flow[r].enc /\ n > 0 THEN "decoded" ELSE "plain", of |-> n]

\* decodeResp: "amortized linear in the body's size rather than quadratic in
\* its DATA frames".
DecodingIsLinear ==
  \A r \in Requests : flow[r].open => flow[r].work <= 4 * dataOf(half(r, "server"))

\* At the end every stream of which anything came has been reported, with its
\* bodies marked final once, and one reset by the server before its response
\* ended says so (end, close, onReset).
EveryStreamEnds ==
  over => \A r \in Requests :
    LET s == half(r, "server") IN
    /\ flow[r].open => flow[r].emitted /\ flow[r].ends = 1
    /\ fin[s] = "reset" => flow[r].error
    /\ flow[r].open <=> \E h \in halves : requestOf(h) = r /\ (got[h] > 0 \/ fin[h] = "end")

\* HEADERS, whatever the order in which a section and its inserts arrive.
SectionsCount == TypeOK /\ SectionsMean /\ EverySectionCounts

\* Bodies, from the first DATA frame to the end of the stream or the connection.
BodiesAreWhole == FinalBodyIsWhole /\ DecodingIsLinear /\ EveryStreamEnds

\* A connection that is over: nothing here moves any more.
AtRest ==
  /\ world = [streams |-> << >>, maxEntries |-> 0, resets |-> FALSE]
  /\ got = << >> /\ fin = << >> /\ parsed = << >>
  /\ table = [d \in Dirs |-> NewTable]
  /\ blocked = << >> /\ flow = << >>
  /\ over = TRUE

\* Observed violated, from here on.
\* The sections of one half of a stream are applied in the order they came.
SectionsInOrder ==
  \A r \in Requests, d \in Dirs : \A k \in 2 .. Len(applied(r, d)) :
    applied(r, d)[k - 1].n < applied(r, d)[k].n

\* livequic.go on close: HEADERS still blocked at the end "(those requests
\* never become flows)".
BlockedNeverFlows ==
  over => \A r \in Requests : flow[r].open /\ flow[r].request = << >> => ~flow[r].emitted

\* decode.go on BodyDone: "the decoder's word that it will not change this
\* flow's bodies again".
BodyDoneIsFinal ==
  [][\A r \in Requests : flow[r].open /\ flow[r].ends > 0 =>
       /\ flow'[r].requestBody = flow[r].requestBody
       /\ flow'[r].body = flow[r].body]_vars

\* livequic.go on a failed encoder stream: "every later HEADERS on this
\* direction that references a dynamic entry fails too".
BrokenTableFails ==
  [][\A r \in Requests, d \in Dirs :
       /\ table[d].failed
       /\ flow[r].open
       /\ Len(applied(r, d)') > Len(applied(r, d))
       => items(half(r, d))[applied(r, d)'[Len(applied(r, d)')].n].sec.ric = 0]_vars
=============================================================================
