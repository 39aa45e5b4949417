------------------------------ MODULE QuicConn ------------------------------
(***************************************************************************)
(* Passive decryption of one captured QUIC connection: the datagram        *)
(* routing of decode/livetcp.go (handleUDP), quicdecrypt.Conn, and what    *)
(* quicSession.close reports when the capture ends.                        *)
(*                                                                         *)
(* The network and the capture are the environment. A world lists the      *)
(* datagrams of one connection in the order they were sent; the capture    *)
(* sees each of them at most Depth places late, may see one twice, and may *)
(* miss one. The browser writes its secrets to the key-log at any time.    *)
(* The byte of a stream or of a handshake at offset o is the number o, so  *)
(* what was delivered tells which bytes they were. A packet decrypts when  *)
(* the key and the packet number it was sealed with are the ones the       *)
(* decryptor uses. A packet's length counts as one unit of the buffer cap. *)
(***************************************************************************)
EXTENDS Integers, Sequences, FiniteSets, SequencesExt

CONSTANTS
  Worlds,          \* the connections that may be captured (see MCQuicConn)
  Depth,           \* how many places late a datagram may be captured
  MaxDup,          \* how many datagrams are captured twice
  MaxLost,         \* how many datagrams the capture misses
  Max1RTTBuffered  \* max1RTTBuffered, in packets

VARIABLES
  world,     \* the connection on the wire
  seen,      \* seen[i]: 0 not captured yet, 1 once, 2 twice; -1 when the capture
             \* missed it, or saw it before the connection was tracked
  keylog,    \* the secrets readable in the key-log
  c,         \* the quicSession and its Conn, or NoConn before it is tracked
  over,      \* the capture ended and close ran
  undecoded, \* what the undecoded index was told: [reason, sni] records
  ripe,      \* the secrets readable when a packet last gave the chance to use them
  waited     \* 1-RTT packets captured before that

vars == <<world, seen, keylog, c, over, undecoded, ripe, waited>>

Dirs == {"client", "server"}

\* A frame that carries offsets from..upto-1 of a stream or of a handshake.
bytes(from, upto) == [k \in 1 .. upto - from |-> from + k - 1]

NoConn == [tracked |-> FALSE]

streamReasm ==
  [have |-> 0, pending |-> << >>, end |-> 0, hasEnd |-> FALSE, ended |-> FALSE,
   got |-> << >>, ends |-> 0]

\* NewConn and newQUICSession. `hellos` counts ClientHellos; `streams`, keyed
\* by stream id and direction, starts empty.
NewConn ==
  [tracked |-> TRUE, origDCID |-> "none", clientRandom |-> FALSE, sni |-> FALSE,
   hellos |-> 0, hrr |-> FALSE, suite |-> FALSE, unsupp |-> FALSE,
   app |-> FALSE, earlyKey |-> FALSE, zeroRTT |-> << >>,
   app1RTT |-> [d \in Dirs |-> << >>], app1RTTBytes |-> 0, app1RTTFull |-> FALSE,
   crypto |-> [d \in Dirs |-> [have |-> 0, pending |-> << >>, done |-> FALSE]],
   streams |-> << >>, largestPN |-> [d \in Dirs |-> 0],
   resets |-> {}, decrypted |-> FALSE]

Init ==
  /\ world \in Worlds
  /\ seen = [i \in DOMAIN world.datagrams |-> 0]
  /\ keylog = {}
  /\ c = NoConn
  /\ over = FALSE
  /\ undecoded = {}
  /\ ripe = {}
  /\ waited = 0

---------------------------------------------------------------------------
(* packet.go: the frames of a payload                                      *)

\* parseFrames keeps CRYPTO, STREAM and RESET_STREAM frames and walks over
\* the others; an unknown type ends the walk, a truncated frame voids it.
parseFrames(frames) ==
  LET stop == SelectInSeq(frames, LAMBDA fr : fr.t \in {"unknown", "cut"})
      walked == IF stop = 0 THEN frames ELSE SubSeq(frames, 1, stop - 1)
  IN IF stop # 0 /\ frames[stop].t = "cut"
     THEN << >>
     ELSE SelectSeq(walked, LAMBDA fr : fr.t \in {"crypto", "stream", "reset"})

(* crypto.go: packet numbers and protection                                *)

decodePacketNumber(truncated, win, largest) ==
  LET half == win \div 2
      expected == largest + 1
      candidate == (expected - (expected % win)) + truncated
  IN IF candidate + half <= expected
     THEN candidate + win
     ELSE IF candidate > expected + half /\ candidate >= win
          THEN candidate - win
          ELSE candidate

\* keys.open: right secret and right packet number, or nothing.
open(p, secret, largest) ==
  /\ p.secret = secret
  /\ decodePacketNumber(p.pn % p.win, p.win, largest) = p.pn

---------------------------------------------------------------------------
(* Reassembly                                                              *)

put(pending, at, data) == [k \in DOMAIN pending \cup {at} |->
                            IF k = at THEN data ELSE pending[k]]

\* The bytes that follow `have` in pending, chunk by chunk.
contiguous(pending, have) ==
  LET run[at \in Nat] ==
        IF at \notin DOMAIN pending THEN << >>
        ELSE IF pending[at] = << >> THEN << >>
        ELSE pending[at] \o run[at + Len(pending[at])]
  IN run[have]

\* What stays pending once the chunks up to `upto` were taken.
left(pending, have, upto) ==
  LET taken[at \in Nat] ==
        IF at \notin DOMAIN pending \/ at > upto THEN {}
        ELSE IF pending[at] = << >> THEN {at}
        ELSE {at} \cup taken[at + Len(pending[at])]
  IN [k \in DOMAIN pending \ taken[have] |-> pending[k]]

\* streamReasm.endNow, after `have` moved: the end is reported once.
endNow(r) == ~r.ended /\ r.hasEnd /\ r.have >= r.end

reported(r) ==
  IF endNow(r) THEN [r EXCEPT !.ended = TRUE, !.ends = @ + 1] ELSE r

\* A mutant: the overlap of a retransmission is not trimmed.
freshUntrimmed(r, fr) ==
  IF fr.off < r.have THEN [at |-> r.have, data |-> fr.data]
                     ELSE [at |-> fr.off, data |-> fr.data]

\* The part of a frame that was not delivered yet, and where it starts.
fresh(r, fr) ==
  IF fr.off < r.have
  THEN [at |-> r.have, data |-> SubSeq(fr.data, r.have - fr.off + 1, Len(fr.data))]
  ELSE [at |-> fr.off, data |-> fr.data]

\* streamReasm.add: the frame's news joins what waits, and everything
\* contiguous is delivered.
addStream(r0, fr) ==
  LET r == IF fr.fin /\ ~r0.hasEnd
           THEN [r0 EXCEPT !.end = fr.off + Len(fr.data), !.hasEnd = TRUE]
           ELSE r0
      new == fresh(r, fr)
      pending == put(r.pending, new.at, new.data)
      out == contiguous(pending, r.have)
      upto == r.have + Len(out)
  IN IF fr.off + Len(fr.data) <= r.have
     THEN reported(r)
     ELSE reported([r EXCEPT !.pending = left(pending, r.have, upto),
                             !.have = upto, !.got = @ \o out])

\* Conn.deliverStream. A reset is handed on and touches no reassembly; other
\* frames go through their stream's, made on first sight. onStream is called
\* when bytes or the end came out, and marks the connection decrypted.
deliverStream(s, d, fr) ==
  LET key == <<fr.id, d>>
      r == IF key \in DOMAIN s.streams THEN s.streams[key] ELSE streamReasm
      after == addStream(r, fr)
  IN IF fr.t = "reset"
     THEN [s EXCEPT !.resets = @ \cup {key}]
     ELSE [s EXCEPT !.streams = put(@, key, after),
                    !.decrypted = @ \/ after.have > r.have \/ after.ends > r.ends]

\* A mutant: the largest packet number is never learnt.
deliverForgetful(s, d, p) ==
  FoldLeft(LAMBDA acc, fr : IF fr.t = "crypto" THEN acc ELSE deliverStream(acc, d, fr),
           s, parseFrames(p.frames))

\* The STREAM and RESET_STREAM frames of one decrypted packet, in order; its
\* packet number becomes the largest of its direction if it is.
deliver(s, d, p) ==
  FoldLeft(LAMBDA acc, fr : IF fr.t = "crypto" THEN acc ELSE deliverStream(acc, d, fr),
           [s EXCEPT !.largestPN[d] = IF p.pn > @ THEN p.pn ELSE @],
           parseFrames(p.frames))

---------------------------------------------------------------------------
(* Keys, and the packets that wait for them                                *)

Secrets1RTT == {"CLIENT_TRAFFIC_SECRET_0", "SERVER_TRAFFIC_SECRET_0"}
EarlySecret == "CLIENT_EARLY_TRAFFIC_SECRET"

appSecret(d) == IF d = "client" THEN "CLIENT_TRAFFIC_SECRET_0"
                                ELSE "SERVER_TRAFFIC_SECRET_0"

canDerive(s) == ~s.app /\ s.clientRandom /\ s.suite /\ Secrets1RTT \subseteq keylog

derive1RTT(s) == IF canDerive(s) THEN [s EXCEPT !.app = TRUE] ELSE s

\* tryEarly: the early data that waits is decrypted once the suite and the
\* early secret are known, and kept until then.
tryEarly(s) ==
  LET key == s.earlyKey \/ (s.suite /\ s.clientRandom /\ EarlySecret \in keylog)
      one(acc, p) == IF open(p, EarlySecret, acc.largestPN["client"])
                     THEN deliver(acc, "client", p)
                     ELSE acc
  IN IF ~key
     THEN s
     ELSE [FoldLeft(one, [s EXCEPT !.earlyKey = TRUE], s.zeroRTT)
             EXCEPT !.zeroRTT = << >>]

handleShortWith(s, d, p) ==
  IF open(p, appSecret(d), s.largestPN[d]) THEN deliver(s, d, p) ELSE s

\* Past the cap everything is dropped and nothing is kept any more.
buffer1RTT(s, d, p) ==
  IF s.app1RTTFull THEN s
  ELSE IF s.app1RTTBytes + 1 > Max1RTTBuffered
  THEN [s EXCEPT !.app1RTTFull = TRUE, !.app1RTT = [e \in Dirs |-> << >>],
                 !.app1RTTBytes = 0]
  ELSE [s EXCEPT !.app1RTTBytes = @ + 1, !.app1RTT[d] = Append(@, p)]

\* The buffered packets, the client's before the server's, each in arrival
\* order.
replay1RTT(s) ==
  LET side(acc, d) == FoldLeft(LAMBDA a, p : handleShortWith(a, d, p), acc, s.app1RTT[d])
  IN [side(side(s, "client"), "server")
        EXCEPT !.app1RTT = [d \in Dirs |-> << >>], !.app1RTTBytes = 0]

\* The order of onHandshake and handleShort: derive1RTT, then tryEarly, then
\* the replay if the keys are new.
keyed(s, early) ==
  LET s1 == derive1RTT(s)
      s2 == IF early THEN tryEarly(s1) ELSE s1
  IN IF s1.app # s.app THEN replay1RTT(s2) ELSE s2

handleShort(s, d, p) ==
  LET s1 == keyed(s, s.zeroRTT # << >>)
  IN IF s1.app THEN handleShortWith(s1, d, p) ELSE buffer1RTT(s1, d, p)

---------------------------------------------------------------------------
(* The Initial packets: ClientHello and ServerHello                        *)

\* cryptoReasm.add. A handshake message is yielded once, when the first one
\* is contiguous from offset 0; after that the reassembler is done.
addCrypto(r, fr, msgLen) ==
  IF r.done THEN r
  ELSE LET pending == put(r.pending, fr.off, fr.data)
           out == contiguous(pending, r.have)
           upto == r.have + Len(out)
       IN [r EXCEPT !.pending = left(pending, r.have, upto), !.have = upto,
                    !.done = upto >= msgLen]

\* A mutant: an unsupported suite is noted and the buffers are kept.
onHandshakeKeeps(s, d) ==
  LET s1 == IF d = "client"
            THEN [s EXCEPT !.clientRandom = TRUE, !.sni = TRUE, !.hellos = @ + 1]
            ELSE IF world.suite = "known"
            THEN [s EXCEPT !.suite = TRUE, !.hrr = world.hrr]
            ELSE [s EXCEPT !.unsupp = TRUE]
  IN keyed(s1, TRUE)

\* onHandshake. The client's message is its ClientHello: its random is the
\* key-log key, its server name the host. The server's names the suite, and
\* a HelloRetryRequest reads as a ServerHello too; an unsupported suite
\* releases what was buffered.
onHandshake(s, d) ==
  LET s1 == IF d = "client"
            THEN [s EXCEPT !.clientRandom = TRUE, !.sni = TRUE, !.hellos = @ + 1]
            ELSE IF world.suite = "known"
            THEN [s EXCEPT !.suite = TRUE, !.hrr = world.hrr]
            ELSE [s EXCEPT !.unsupp = TRUE, !.zeroRTT = << >>,
                           !.app1RTT = [e \in Dirs |-> << >>], !.app1RTTBytes = 0]
  IN keyed(s1, TRUE)

\* handleInitial. The first client Initial's destination id seeds the keys of
\* both sides for good; a server Initial before it is dropped.
handleInitial(s, d, p) ==
  LET s1 == IF d = "client" /\ s.origDCID = "none" THEN [s EXCEPT !.origDCID = p.dcid] ELSE s
      one(acc, fr) ==
        LET after == addCrypto(acc.crypto[d], fr, world.msgLen)
            acc1 == [acc EXCEPT !.crypto[d] = after]
        IN IF after.done /\ ~acc.crypto[d].done THEN onHandshake(acc1, d) ELSE acc1
  IN IF s1.origDCID = "none" \/ ~open(p, s1.origDCID, 0)
     THEN s1
     ELSE FoldLeft(one, s1, SelectSeq(parseFrames(p.frames), LAMBDA fr : fr.t = "crypto"))

\* The packets of a datagram that Feed reaches: a Retry or a malformed header
\* ends it, a short header is always the last.
reachable(packets) ==
  LET stop == SelectInSeq(packets, LAMBDA p : p.kind \in {"retry", "short"})
  IN IF stop = 0 THEN packets
     ELSE IF packets[stop].kind = "short" THEN SubSeq(packets, 1, stop)
     ELSE SubSeq(packets, 1, stop - 1)

\* Conn.Feed. Nothing is looked at once the suite is known to be unsupported;
\* the check stands before the datagram, not before each of its packets.
Feed(s, d, packets) ==
  LET one(acc, p) ==
        CASE p.kind = "initial" -> handleInitial(acc, d, p)
          [] p.kind = "0rtt" /\ d = "client" ->
               tryEarly([acc EXCEPT !.zeroRTT = Append(@, p)])
          [] p.kind = "short" -> handleShort(acc, d, p)
          [] OTHER -> acc
  IN IF s.unsupp THEN s ELSE FoldLeft(one, s, reachable(packets))

---------------------------------------------------------------------------
(* The environment and the session                                         *)

IsClientInitial(g) == g.dir = "client" /\ g.packets[1].kind = "initial"

\* handleUDP: a datagram that does not look like a client Initial starts
\* nothing; any other is fed to its connection, in capture order.
handleUDP(g) ==
  IF c.tracked THEN Feed(c, g.dir, g.packets)
  ELSE IF IsClientInitial(g) THEN Feed(NewConn, g.dir, g.packets)
  ELSE c

has(g, kind) == \E k \in DOMAIN g.packets : g.packets[k].kind = kind

captured == {i \in DOMAIN seen : seen[i] > 0}

\* Both hellos are wholly among the captured datagrams.
hellosIn(got) == \A d \in Dirs : \A o \in 0 .. world.msgLen - 1 :
  \E i \in got : LET g == world.datagrams[i] IN
    /\ g.dir = d
    /\ \E k \in DOMAIN g.packets : \E n \in DOMAIN g.packets[k].frames :
         /\ g.packets[k].kind = "initial"
         /\ g.packets[k].frames[n].t = "crypto"
         /\ o \in ToSet(g.packets[k].frames[n].data)

\* A datagram is at most Depth places late, and a hello is not captured before
\* the one it answers.
inTime(i) ==
  \A j \in DOMAIN seen :
    LET g == world.datagrams[i]
        h == world.datagrams[j]
    IN \/ j < i - Depth
       \/ j < i /\ g.dir # h.dir /\ has(g, "initial") /\ has(h, "initial")
       => seen[j] # 0

duplicates == Cardinality({i \in DOMAIN seen : seen[i] = 2})
losses == Cardinality({i \in DOMAIN seen : seen[i] = -1})

\* A datagram is captured, for the first time or again.
Capture(i) ==
  /\ ~over
  /\ inTime(i)
  /\ seen[i] = 0 \/ (seen[i] = 1 /\ duplicates < MaxDup)
  /\ LET g == world.datagrams[i]
         got == captured \cup {i}
         usable == IF ~hellosIn(got) THEN {}
                   ELSE IF ~hellosIn(captured) \/ has(g, "short") THEN keylog
                   ELSE IF has(g, "0rtt") THEN keylog \cap {EarlySecret}
                   ELSE {}
     IN /\ c' = handleUDP(g)
        /\ seen' = [seen EXCEPT ![i] = IF c'.tracked THEN @ + 1 ELSE -1]
        /\ ripe' = ripe \cup usable
        /\ waited' = IF has(g, "short") /\ ~(Secrets1RTT \subseteq ripe')
                     THEN waited + 1 ELSE waited
  /\ UNCHANGED <<world, keylog, over, undecoded>>

\* The capture misses a datagram.
Miss(i) ==
  /\ ~over
  /\ inTime(i)
  /\ seen[i] = 0
  /\ losses < MaxLost
  /\ seen' = [seen EXCEPT ![i] = -1]
  /\ UNCHANGED <<world, keylog, c, over, undecoded, ripe, waited>>

\* The browser writes a secret to the key-log.
Log(secret) ==
  /\ ~over
  /\ secret \in world.logged \ keylog
  /\ keylog' = keylog \cup {secret}
  /\ UNCHANGED <<world, seen, c, over, undecoded, ripe, waited>>

\* quicSession.close at the end of the capture: a connection that yielded
\* nothing is named in the undecoded index.
close ==
  IF ~c.tracked \/ (c.decrypted /\ ~c.unsupp) THEN {}
  ELSE {[reason |-> IF c.unsupp THEN "unsupported" ELSE "no_key", sni |-> c.sni]}

End ==
  /\ ~over
  /\ \A i \in DOMAIN seen : seen[i] # 0
  /\ over' = TRUE
  /\ undecoded' = close
  /\ UNCHANGED <<world, seen, keylog, c, ripe, waited>>

Next ==
  \/ \E i \in DOMAIN world.datagrams : Capture(i) \/ Miss(i)
  \/ \E secret \in Secrets1RTT \cup {EarlySecret} : Log(secret)
  \/ End

Spec == Init /\ [][Next]_vars

---------------------------------------------------------------------------
(* What must hold                                                          *)

\* Types of the variables.
TypeOK ==
  /\ \A i \in DOMAIN seen : seen[i] \in -1 .. 2
  /\ keylog \subseteq world.logged
  /\ c.tracked => c.app1RTTBytes \in 0 .. Max1RTTBuffered
  /\ over \in BOOLEAN /\ ripe \subseteq keylog /\ waited \in Nat
  /\ undecoded \subseteq [reason : {"no_key", "unsupported"}, sni : BOOLEAN]

\* Whatever the order, the repetitions and the overlaps of the frames, what
\* is handed on of a stream are its bytes from the first, each once
\* (streamReasm.add).
StreamBytesInOrder ==
  c.tracked => \A k \in DOMAIN c.streams :
    c.streams[k].got = bytes(0, c.streams[k].have)

\* Every frame on the wire, with its direction and its packet's kind.
sent ==
  UNION {UNION {{[dir |-> g.dir, kind |-> p.kind, fr |-> fr] : fr \in ToSet(p.frames)} :
                p \in ToSet(g.packets)} : g \in ToSet(world.datagrams)}

\* The size of a stream whose FIN was sent.
sizeOf(key) ==
  {x.fr.off + Len(x.fr.data) :
     x \in {y \in sent : y.fr.t = "stream" /\ y.fr.fin /\ <<y.fr.id, y.dir>> = key}}

\* A stream's end is reported once, with every byte before its FIN handed on
\* by then (NewConn's comment; streamReasm.endNow).
EndIsWhole ==
  c.tracked => \A k \in DOMAIN c.streams :
    /\ c.streams[k].ends <= 1
    /\ c.streams[k].ends = 1 => c.streams[k].have \in sizeOf(k)
    /\ c.streams[k].have \in sizeOf(k) /\ c.streams[k].hasEnd => c.streams[k].ends = 1

\* The 1-RTT packets that wait for keys are counted, and
\* none waits once there are keys or the cap was passed; a connection that
\* can never decrypt keeps at most what came with its ServerHello
\* (buffer1RTT, replay1RTT, onHandshake).
WaitingIsBounded ==
  c.tracked =>
    LET n == Len(c.app1RTT["client"]) + Len(c.app1RTT["server"]) IN
    /\ n = c.app1RTTBytes
    /\ c.app \/ c.app1RTTFull => n = 0
    /\ c.unsupp => n <= 1 /\ c.zeroRTT = << >>

\* Every datagram was captured and fed, with frames resent as first sent; the
\* secrets were readable while packets still came, and no more 1-RTT packets
\* than the buffer holds came before.
decodable ==
  /\ over
  /\ world.plain /\ world.suite = "known"
  /\ losses = 0
  /\ Secrets1RTT \subseteq ripe
  /\ waited <= Max1RTTBuffered

\* A connection that could be decrypted was, to the last byte and the last
\* FIN: neither late secrets nor reordered packets cost anything (replay1RTT,
\* tryEarly, decodePacketNumber).
NothingIsMissed ==
  decodable =>
    \A x \in sent :
      /\ x.fr.t = "stream"
      /\ x.kind = "short" \/ EarlySecret \in ripe
      => /\ <<x.fr.id, x.dir>> \in DOMAIN c.streams
         /\ c.streams[<<x.fr.id, x.dir>>].have >= x.fr.off + Len(x.fr.data)
         /\ x.fr.fin => c.streams[<<x.fr.id, x.dir>>].ended

\* At the end a tracked connection either yielded stream bytes or is in the
\* undecoded index, once and under the right reason, and by its server name
\* when the whole ClientHello was captured: the Initial packets decrypt
\* without the key-log (quicSession.close).
NamedWhenUndecoded ==
  over /\ c.tracked =>
    /\ undecoded = {} <=> \E k \in DOMAIN c.streams : c.streams[k].have > 0 \/ c.streams[k].ended
    /\ Cardinality(undecoded) <= 1
    /\ \A u \in undecoded :
         /\ u.reason = "unsupported" => world.suite # "known"
         /\ world.suite # "known" /\ losses = 0 /\ ~world.retried => u.reason = "unsupported"
         /\ losses = 0 => u.sni

\* What HTTP/3 is promised of the streams below it (see LiveHttp3).
StreamsAreWhole == TypeOK /\ StreamBytesInOrder /\ EndIsWhole

\* A connection whose keys do not come is bounded in what it holds, and named.
KeylessIsAccounted == WaitingIsBounded /\ NamedWhenUndecoded

\* A connection that is over: nothing here moves any more.
AtRest ==
  /\ world = [plain |-> TRUE, suite |-> "known", hrr |-> FALSE, hellos |-> 0, msgLen |-> 0,
             retried |-> FALSE, logged |-> {}, datagrams |-> << >>]
  /\ seen = << >> /\ keylog = {} /\ c = NoConn
  /\ over = TRUE
  /\ undecoded = {} /\ ripe = {} /\ waited = 0

\* Observed violated, from here on.
\* conn.go on ClientHellos: "every ClientHello handshake message (verbatim),
\* in wire order. There's more than one only after a HelloRetryRequest". So a
\* connection captured whole holds as many as were sent.
EveryHelloKept == over /\ losses = 0 /\ c.tracked => c.hellos = world.hellos

\* conn.go on streamReasm: "returning newly contiguous bytes". So no byte
\* waits that continues what was handed on.
NothingContiguousWaits ==
  c.tracked => \A k \in DOMAIN c.streams :
    \A at \in DOMAIN c.streams[k].pending :
      ~(at <= c.streams[k].have /\ at + Len(c.streams[k].pending[at]) > c.streams[k].have)

=============================================================================
