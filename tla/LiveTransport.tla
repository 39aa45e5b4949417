---------------------------- MODULE LiveTransport ----------------------------
(* The in-process live decode of one captured connection, from the capture's *)
(* records to the bytes its application parser is given: internal/decode     *)
(* livetcp.go, livesocks.go, pcapguard.go, undecoded.go and the TLS          *)
(* decryptor, internal/tlsdecrypt.                                           *)
(*                                                                           *)
(* A wire is what both sides of a connection sent, a sequence of units per   *)
(* direction; a unit is a TLS record, a proxy handshake message or a piece   *)
(* of cleartext.  TCP reassembly delivers each direction in order, in        *)
(* packets of one or more units, the two directions interleaved; the         *)
(* key-log grows beside the decode.                                          *)
EXTENDS Integers, Sequences, SequencesExt, FiniteSets

CONSTANTS
    Wires,        \* the connections a capture may hold, each with how many records of other
                  \* traffic and unreadable ones come with it, and how many units it misses
    MaxPacket,    \* units one packet carries at most
    MaxErrs,      \* maxConsecutiveReadErrors
    HandshakeCap, \* maxConnectHeader, socksMaxHandshake, in units
    Causal        \* a side answers only what it has received, and is captured so

ASSUME TransportAssumption ==
    /\ {MaxPacket, HandshakeCap} \subseteq Nat \ {0}
    /\ MaxErrs \in Nat
    /\ Causal \in BOOLEAN

Dirs == {"up", "down"}
Labels == {"client", "server", "master"}

VARIABLES
    wire,     \* the captured connection
    capture,  \* the packet loop: records read, offset of the next, errors in a row
    pos,      \* units of each direction the capture has delivered or missed
    st,       \* tcpStream
    tls,      \* its tlsdecrypt.Conn
    todo,     \* the bytes of the packet still to route, by direction
    pc,       \* where the packet loop is with them
    file,     \* key-log lines, whole, and the one being written
    known,    \* secrets the Keylog has parsed
    flows,    \* onFlow(new)
    reports   \* OnUndecoded

decodeVars == <<st, tls, todo, pc, known, flows, reports>>
vars == <<wire, capture, pos, file, decodeVars>>

NoDec == [gen |-> -1, seq |-> 0, good |-> FALSE]

NewConn == [ch |-> FALSE, sh |-> FALSE, version |-> "unknown", unsupported |-> FALSE,
            encrypted |-> [d \in Dirs |-> FALSE], dec |-> [d \in Dirs |-> NoDec],
            buf |-> [d \in Dirs |-> << >>]]

NewStream == [offset |-> -2, first |-> -2, sniffed |-> FALSE, plaintext |-> FALSE, midstream |-> FALSE,
              inConnect |-> FALSE, socks |-> "none", advanced |-> FALSE,
              hs |-> [d \in Dirs |-> << >>], proxy |-> "none", host |-> "peer",
              class |-> "undecided", dropped |-> FALSE, pre |-> << >>,
              out |-> [d \in Dirs |-> << >>], emitted |-> FALSE, lost |-> 0, late |-> FALSE]

Init ==
    /\ wire \in Wires
    /\ capture = [at |-> 0, next |-> 0, errs |-> 0, bad |-> 0, other |-> 0, phase |-> "reading"]
    /\ pos = [d \in Dirs |-> 0]
    /\ st = NewStream
    /\ tls = NewConn
    /\ todo = << >>
    /\ pc = "idle"
    /\ file = [whole |-> << >>, torn |-> FALSE]
    /\ known = [l \in Labels |-> "none"]
    /\ flows = << >>
    /\ reports = << >>

Other(d) == IF d = "up" THEN "down" ELSE "up"
Sent(d) == wire[d]
Legacy == tls.version = "tls12"
Written(l) == \E i \in DOMAIN file.whole : file.whole[i] = l

-----------------------------------------------------------------------------
(* What the application layer is given.                                    *)

\* classify, from the first client unit: content first, a host's decoder only for
\* what is not HTTP, HTTP/1.1 for what nothing else claims.
classify(u) ==
    CASE u.p = "pri"                      -> "h2"
      [] u.p = "get"                      -> "http"
      [] u.p \notin {"pri", "get"} /\ wire.custom -> "custom"
      [] OTHER                            -> "http"

\* A unit reaches its parser: an HTTP request makes a flow, the first frame of a
\* custom protocol makes the connection's.
Makes(s, d, u) ==
    \/ s.class \in {"http", "h2"} /\ d = "up" /\ u.p = "get"
    \/ s.class = "custom" /\ u.p = "frame" /\ ~s.emitted

NewFlow(s, kind) == [kind |-> kind, proxy |-> s.proxy, host |-> s.host]

dispatch(acc, chunk) ==
    LET s == acc.s
        d == chunk[1]
        u == chunk[2]
        new == Makes(s, d, u)
    IN [s |-> [s EXCEPT !.out[d] = Append(@, u), !.emitted = @ \/ (s.class = "custom" /\ new)],
        flows |-> IF new THEN Append(acc.flows, NewFlow(s, s.class)) ELSE acc.flows]

onAppForgets(acc, chunk) ==
    LET s == acc.s
    IN CASE s.dropped -> acc
         [] ~s.dropped /\ (s.class # "undecided" \/ chunk[1] = "up") ->
              dispatch([acc EXCEPT !.s.class = IF @ = "undecided" THEN classify(chunk[2]) ELSE @], chunk)
         [] OTHER -> acc

\* onApp: server bytes wait for the client's first, which decide.
onApp(acc, chunk) ==
    LET s == acc.s
        ready == [s EXCEPT !.class = classify(chunk[2]), !.pre = << >>]
    IN CASE s.dropped -> acc
         [] ~s.dropped /\ s.class # "undecided" -> dispatch(acc, chunk)
         [] ~s.dropped /\ s.class = "undecided" /\ chunk[1] = "down" ->
              [acc EXCEPT !.s.pre = Append(@, chunk)]
         [] OTHER -> FoldLeft(dispatch, [acc EXCEPT !.s = ready],
                             Append(s.pre, chunk))

Deliver(s, d, units) ==
    LET done == FoldLeft(LAMBDA a, u : onApp(a, <<d, u>>), [s |-> s, flows |-> flows], units)
    IN st' = done.s /\ flows' = done.flows

-----------------------------------------------------------------------------
(* The packet loop: records, sniffing, routing.                            *)

\* curOffset: where the record being read starts, unknown after one that could not be read.
curOffset == IF capture.next >= 0 THEN capture.next ELSE -1

Unknown == -1000

Read == [capture EXCEPT !.at = @ + 1, !.next = @ + 1, !.errs = 0]

Reading == capture.phase = "reading" /\ pc = "idle"

\* looksLikeConnect, looksLikeSocks: the client's first segment alone says.
Opens(u, n) ==
    CASE u.p = "connect"                 -> "connect"
      [] u.p = "greet" /\ n = 1          -> "greeting"
      [] u.p = "req4"                    -> "request4"
      [] OTHER                           -> "none"

\* The transport is settled by the first client bytes; a proxy handshake is looked
\* for once per connection, and not inside a tunnel.
Sniff(s, units) ==
    LET u == units[1]
        plain == u.t # "hs"
        opens == IF plain /\ s.proxy = "none" THEN Opens(u, Len(units)) ELSE "none"
    IN [s EXCEPT !.sniffed = TRUE, !.plaintext = plain, !.midstream = u.t \in {"ccs", "app"},
                 !.inConnect = opens = "connect",
                 !.socks = IF opens \in {"greeting", "request4"} THEN opens ELSE "none"]

\* Nothing is sent before what it answers: unit.after is how much the other side had sent.
Sendable(d, n) == Causal => wire[d][pos[d] + n].after <= pos[Other(d)]

\* A packet of the connection: reassembled, with the stream made on the first one.
Packet(d) ==
    /\ Reading
    /\ \E n \in 1..MaxPacket :
         /\ pos[d] + n <= Len(Sent(d))
         /\ Sendable(d, n)
         /\ LET units == SubSeq(Sent(d), pos[d] + 1, pos[d] + n)
                made == IF st.offset = -2 THEN [st EXCEPT !.offset = curOffset, !.first = capture.at]
                       ELSE st
                s == IF d = "up" /\ ~made.sniffed THEN Sniff(made, units) ELSE made
                hs == [s EXCEPT !.hs[d] = @ \o units]
            IN /\ pos' = [pos EXCEPT ![d] = @ + n]
               /\ capture' = Read
               /\ CASE st.dropped                 -> st' = st /\ pc' = "idle" /\ todo' = << >>
                    [] ~st.dropped /\ s.inConnect -> st' = hs /\ pc' = "connect" /\ todo' = << >>
                    [] ~st.dropped /\ s.socks # "none" -> st' = hs /\ pc' = "socks" /\ todo' = << >>
                    [] OTHER -> st' = [s EXCEPT !.late = FALSE] /\ pc' = "route" /\ todo' = <<<<d, units>>>>
    /\ UNCHANGED <<wire, file, tls, known, flows, reports>>

\* A unit the capture missed: reassembly goes on behind the gap.
Lose(d) ==
    /\ Reading
    /\ st.lost < wire.lost
    /\ st.offset # -2
    /\ pos[d] < Len(Sent(d))
    /\ Sendable(d, 1)
    /\ pos' = [pos EXCEPT ![d] = @ + 1]
    /\ st' = [st EXCEPT !.lost = @ + 1]
    /\ UNCHANGED <<wire, capture, file, tls, todo, pc, known, flows, reports>>

\* A record of other traffic, or one packetOf cannot decode.
OtherRecord ==
    /\ Reading
    /\ capture.other < wire.other
    /\ capture' = [Read EXCEPT !.other = @ + 1]
    /\ UNCHANGED <<wire, pos, file, decodeVars>>

\* A record the reader fails on: skipped, and the offsets after it are unknown.
BadRecord ==
    /\ Reading
    /\ capture.bad < wire.bad
    /\ capture.errs < MaxErrs
    /\ capture' = [capture EXCEPT !.at = @ + 1, !.next = Unknown, !.errs = @ + 1, !.bad = @ + 1]
    /\ UNCHANGED <<wire, pos, file, decodeVars>>

\* The end: the pipe closed, a record no reader may allocate, or a reader that
\* fails without making progress (progressGuard, classicGuard, recoveringReader).
ReadEnds ==
    /\ Reading
    /\ capture' = [capture EXCEPT !.phase = "flushing"]
    /\ UNCHANGED <<wire, pos, file, decodeVars>>

\* route: a chunk goes straight to the application, or into the TLS buffers.
Route ==
    /\ pc = "route"
    /\ todo # << >>
    /\ LET d == Head(todo)[1]
           units == Head(todo)[2]
           plain == units # << >> /\ d = "up" /\ ~st.sniffed
           s == IF plain THEN [st EXCEPT !.sniffed = TRUE, !.plaintext = units[1].t # "hs"] ELSE st
       IN IF s.plaintext \/ units = << >>
          THEN /\ Deliver(s, d, units)
               /\ UNCHANGED <<tls, pc>>
          ELSE /\ st' = s
               /\ tls' = [tls EXCEPT !.buf[d] = @ \o units]
               /\ pc' = "drain up"
               /\ UNCHANGED flows
    /\ todo' = Tail(todo)
    /\ UNCHANGED <<wire, capture, pos, file, known, reports>>

Routed ==
    /\ pc = "route"
    /\ todo = << >>
    /\ pc' = "idle"
    /\ UNCHANGED <<wire, capture, pos, file, st, tls, todo, known, flows, reports>>

-----------------------------------------------------------------------------
(* The key-log.                                                            *)

\* The client's TLS library writes its lines one by one; a reader may find half of one.
KeyLine ==
    /\ Len(file.whole) < Len(wire.keys)
    /\ ~file.torn
    /\ file' = [file EXCEPT !.torn = TRUE]
    /\ UNCHANGED <<wire, capture, pos, decodeVars>>

\* The line is whole.  st.late: it came after the last bytes the decryptor was fed.
KeyLineEnd ==
    /\ file.torn
    /\ file' = [whole |-> Append(file.whole, wire.keys[Len(file.whole) + 1]), torn |-> FALSE]
    /\ st' = [st EXCEPT !.late = TRUE]
    /\ UNCHANGED <<wire, capture, pos, tls, todo, pc, known, flows, reports>>

\* reloadLocked: what the file holds up to its last newline.
Reload == [l \in Labels |-> IF known[l] # "none" THEN known[l]
                            ELSE IF Written(l) THEN "good" ELSE "none"]

\* Get: the secrets, read again when one is missing.
Get(l) == IF known[l] # "none" THEN known ELSE Reload

-----------------------------------------------------------------------------
(* The TLS decryptor: one record at a time, until neither direction moves.  *)

ready == tls.ch /\ tls.version = "tls13" /\ ~tls.unsupported

label(d) == IF Legacy THEN "master" ELSE IF d = "up" THEN "client" ELSE "server"

\* parseHandshake: a ClientHello from the client, a ServerHello (or a retry request)
\* from the server; every other message is passed over.
parseHandshake(c, d, u) ==
    CASE d = "up" /\ u.p = "CH"   -> [c EXCEPT !.ch = TRUE]
      [] d = "down" /\ u.p \in {"SH13", "HRR"} -> [c EXCEPT !.sh = TRUE, !.version = "tls13"]
      [] d = "down" /\ u.p = "SH12" -> [c EXCEPT !.sh = TRUE, !.version = "tls12"]
      [] d = "down" /\ u.p = "SHbad" ->
           [c EXCEPT !.sh = TRUE, !.version = u.v, !.unsupported = TRUE]
      [] OTHER -> c

\* The direction's decryptor, made when its secret is there.
Keyed(c, d) == IF c.dec[d] = NoDec
               THEN [c EXCEPT !.dec[d] = [gen |-> 0, seq |-> 0, good |-> Get(label(d))[label(d)] = "good"]]
               ELSE c

\* An AEAD or MAC accepts a record under its own key and sequence number alone.
Accepts(dec, u) == dec.good /\ dec.gen = u.gen /\ dec.seq = u.seq

openAlways(c, d, u) == [c EXCEPT !.dec[d].seq = @ + 1]

\* open: the sequence number moves only with a record it accepted.
open(c, d, u) == IF Accepts(c.dec[d], u) THEN [c EXCEPT !.dec[d].seq = @ + 1] ELSE c

keyUpdate(c, d) == [c EXCEPT !.dec[d].gen = @ + 1, !.dec[d].seq = 0]

\* The record waits: no ServerHello yet, or no secret.
Waits13(d, u) == u.t = "app" /\ (~ready \/ (tls.dec[d] = NoDec /\ Get(label(d))[label(d)] = "none"))
Waits12(d, u) == tls.encrypted[d] /\ tls.dec[d] = NoDec /\ ~tls.unsupported
                   /\ (~tls.ch \/ Get("master")["master"] = "none")
Waits(d, u) == IF Legacy THEN Waits12(d, u) ELSE Waits13(d, u)

\* handle13, or a handshake whose version is not known yet: a record that does not
\* open is a handshake record under another key, and is passed over.
handle13(c, d, u) ==
    IF u.t # "app" THEN [c |-> IF u.t = "hs" THEN parseHandshake(c, d, u) ELSE c, app |-> << >>]
    ELSE LET keyed == Keyed(c, d)
             opened == open(keyed, d, u)
         IN [c |-> IF Accepts(keyed.dec[d], u) /\ u.p = "KU" THEN keyUpdate(opened, d) ELSE opened,
             app |-> IF Accepts(keyed.dec[d], u) /\ u.app THEN <<u>> ELSE << >>]

\* handle12: cleartext up to the direction's ChangeCipherSpec; then a record that does
\* not open gives the connection up.
handle12(c, d, u) ==
    CASE c.unsupported -> [c |-> c, app |-> << >>]
      [] ~c.unsupported /\ ~c.encrypted[d] ->
           [c |-> CASE u.t = "hs" -> parseHandshake(c, d, u)
                    [] u.t = "ccs" -> [c EXCEPT !.encrypted[d] = TRUE]
                    [] OTHER -> c,
            app |-> << >>]
      [] OTHER ->
           LET keyed == Keyed(c, d)
           IN [c |-> IF Accepts(keyed.dec[d], u) THEN open(keyed, d, u)
                     ELSE [keyed EXCEPT !.unsupported = TRUE],
               app |-> IF Accepts(keyed.dec[d], u) /\ u.app THEN <<u>> ELSE << >>]

Asks(d, u) == tls.dec[d] = NoDec /\ IF Legacy THEN tls.encrypted[d] /\ tls.ch /\ ~tls.unsupported
                                    ELSE u.t = "app" /\ ready

Draining == [up |-> "drain up", down |-> "drain down"]
Moved == [up |-> "moved up", down |-> "moved down"]

AfterDrainOnce(d) == IF d = "up" THEN "drain down" ELSE "drain up"

\* A direction that is stuck: once more when it had moved, else the other, else done.
AfterDrain(d) == IF pc = Moved[d] THEN "drain up" ELSE IF d = "up" THEN "drain down" ELSE "route"

\* Feed's loop: drain(true) || drain(false), and again while one of them moves.
Drain(d) ==
    /\ pc \in {Draining[d], Moved[d]}
    /\ LET buf == tls.buf[d]
           moves == buf # << >> /\ ~Waits(d, Head(buf))
       IN /\ known' = IF buf # << >> /\ Asks(d, Head(buf)) THEN Get(label(d)) ELSE known
          /\ IF moves
             THEN LET r == (IF Legacy THEN handle12(tls, d, Head(buf)) ELSE handle13(tls, d, Head(buf)))
                  IN /\ tls' = [r.c EXCEPT !.buf[d] = Tail(@)]
                     /\ Deliver(st, d, r.app)
                     /\ pc' = Moved[d]
             ELSE /\ UNCHANGED <<tls, flows>>
                  /\ pc' = AfterDrain(d)
                  /\ st' = IF pc' = "route" THEN [st EXCEPT !.dropped = @ \/ tls.unsupported] ELSE st
    /\ UNCHANGED <<wire, capture, pos, file, todo, reports>>

-----------------------------------------------------------------------------
(* Proxy tunnels.                                                          *)

\* The tunnel is there: what follows is a fresh connection to the target.
Restart(s) == [s EXCEPT !.sniffed = FALSE, !.plaintext = FALSE, !.class = "undecided",
                        !.pre = << >>, !.hs = [d \in Dirs |-> << >>]]

Leftovers(up, down) == <<<<"up", up>>, <<"down", down>>>>

\* The header block a buffer starts with: everything up to a message's own blank
\* line, the body of an earlier message included.
HeadEnd(buf) == SelectInSeq(buf, LAMBDA u : u.head)

\* feedConnect: a CONNECT and its answer, whole; a 2xx opens the tunnel, anything
\* else leaves the connection open for the next CONNECT.
Connect ==
    /\ pc = "connect"
    /\ LET req == HeadEnd(st.hs["up"])
           resp == HeadEnd(st.hs["down"])
           over == \E d \in Dirs : Len(st.hs[d]) > HandshakeCap
           restUp == SubSeq(st.hs["up"], req + 1, Len(st.hs["up"]))
           restDown == SubSeq(st.hs["down"], resp + 1, Len(st.hs["down"]))
           granted == st.hs["down"][1].p = "200"   \* parseStatusCode: the block's first line
           s == [st EXCEPT !.proxy = "http"]
       IN CASE over ->
                 /\ st' = [st EXCEPT !.dropped = TRUE, !.hs = [d \in Dirs |-> << >>]]
                 /\ pc' = "idle"
                 /\ UNCHANGED <<todo, flows>>
            [] ~over /\ (req = 0 \/ resp = 0) ->
                 /\ pc' = "idle"
                 /\ UNCHANGED <<st, todo, flows>>
            [] OTHER ->
                 /\ flows' = Append(flows, NewFlow(s, "connect"))
                 /\ IF granted
                    THEN /\ st' = Restart([s EXCEPT !.inConnect = FALSE, !.host = "target"])
                         /\ todo' = Leftovers(restUp, restDown)
                         /\ pc' = "route"
                    ELSE /\ st' = [s EXCEPT !.hs = [up |-> restUp, down |-> restDown]]
                         /\ UNCHANGED <<todo, pc>>
    /\ UNCHANGED <<wire, capture, pos, file, tls, known, reports>>

\* greeting, auth: the method the proxy picked.
NextPhase(p) == CASE p = "none auth" -> "request" [] p = "userpass" -> "auth" [] OTHER -> "refused"

Abandon == IF st.advanced THEN "refused" ELSE "not socks"

\* request4, request5: the request and the proxy's reply to it.
request(req, resp, more) ==
    CASE req = << >> \/ resp = << >>                          -> more
      [] resp # << >> /\ req # << >> /\ resp[1].p = "ok"      -> "established"
      [] resp # << >> /\ req # << >> /\ resp[1].p = "denied"  -> "refused"
      [] OTHER                                               -> Abandon

\* step: what one attempt at the current SOCKS phase concludes.
socksStep(req, resp) ==
    LET over == Len(req) > HandshakeCap \/ Len(resp) > HandshakeCap
        more == IF over THEN Abandon ELSE "need more"
    IN CASE st.socks = "greeting" ->
              IF resp = << >> THEN more
              ELSE IF resp[1].p \notin {"none auth", "userpass", "no method"} THEN Abandon
              ELSE NextPhase(resp[1].p)
         [] st.socks = "auth" ->
              IF req = << >> THEN more ELSE IF req[1].p # "auth" THEN "refused"
              ELSE IF resp = << >> THEN more
              ELSE IF resp[1].p = "auth ok" THEN "request" ELSE "refused"
         [] st.socks = "request" ->
              IF req # << >> /\ req[1].p \notin {"req", "bind"} THEN Abandon
              ELSE IF req # << >> /\ req[1].p = "bind" THEN "refused"
              ELSE request(req, resp, more)
         [] OTHER -> request(req, resp, more)                   \* SOCKS4

\* feedSocks: a phase at a time; bytes that are no SOCKS after all are routed from
\* the start.
Socks ==
    /\ pc = "socks"
    /\ LET req == st.hs["up"]
           resp == st.hs["down"]
           step == socksStep(req, resp)
           s == [st EXCEPT !.socks = "none"]
       IN CASE step = "need more" -> pc' = "idle" /\ UNCHANGED <<st, todo>>
            [] step \in {"auth", "request"} ->
                 /\ st' = [st EXCEPT !.socks = step, !.advanced = TRUE,
                                     !.hs = [up |-> Tail(req), down |-> Tail(resp)]]
                 /\ UNCHANGED <<todo, pc>>
            [] step = "refused" ->
                 /\ st' = [s EXCEPT !.dropped = TRUE]
                 /\ pc' = "idle"
                 /\ UNCHANGED todo
            [] step = "established" ->
                 /\ st' = Restart([s EXCEPT !.proxy = "socks", !.host = "target"])
                 /\ todo' = Leftovers(Tail(req), Tail(resp))
                 /\ pc' = "route"
            [] OTHER ->
                 /\ st' = [s EXCEPT !.sniffed = FALSE, !.hs = [d \in Dirs |-> << >>]]
                 /\ todo' = Leftovers(req, resp)
                 /\ pc' = "route"
    /\ UNCHANGED <<wire, capture, pos, file, tls, known, flows, reports>>

-----------------------------------------------------------------------------
(* The end of the capture.                                                 *)

HelloSeen == tls.ch /\ tls.sh

\* undecodedReason: a TLS connection that gave no application bytes, unless it had none.
undecodedReason == CASE ~HelloSeen -> "handshake"
                     [] HelloSeen /\ Get(IF Legacy THEN "master" ELSE "server")
                                       [IF Legacy THEN "master" ELSE "server"] = "none" -> "no key"
                     [] OTHER -> "none"

Record(reason) == [reason |-> reason, offset |-> st.offset]

\* ReassemblyComplete: what the connection is reported for when it ends.
ReassemblyComplete ==
    /\ capture.phase = "flushing"
    /\ pc = "idle"
    /\ LET silent == st.sniffed /\ ~st.plaintext /\ ~st.dropped /\ st.class = "undecided"
                     /\ ~tls.unsupported
           first == IF silent /\ undecodedReason # "none" THEN <<Record(undecodedReason)>> ELSE << >>
           second == IF st.dropped /\ tls.unsupported THEN <<Record("unsupported")>> ELSE << >>
       IN /\ reports' = first \o second
          /\ known' = IF silent /\ HelloSeen THEN Get(IF Legacy THEN "master" ELSE "server") ELSE known
    /\ capture' = [capture EXCEPT !.phase = "drained"]
    /\ UNCHANGED <<wire, pos, file, st, tls, todo, pc, flows>>

UnparsedAll ==
    /\ capture.phase = "drained"
    /\ reports' = IF st.class = "http"
                  THEN Append(reports, Record(IF st.midstream THEN "handshake" ELSE "unparsed"))
                  ELSE reports
    /\ capture' = [capture EXCEPT !.phase = "returned"]
    /\ UNCHANGED <<wire, pos, file, st, tls, todo, pc, known, flows>>

\* LiveDecode's last pass, once every parser has drained: connections taken for HTTP
\* that never gave a request.
Unparsed ==
    /\ capture.phase = "drained"
    /\ reports' = IF st.class = "http" /\ ~\E i \in DOMAIN flows : flows[i].kind = "http"
                  THEN Append(reports, Record(IF st.midstream THEN "handshake" ELSE "unparsed"))
                  ELSE reports
    /\ capture' = [capture EXCEPT !.phase = "returned"]
    /\ UNCHANGED <<wire, pos, file, st, tls, todo, pc, known, flows>>

Next ==
    \/ \E d \in Dirs : Packet(d) \/ Lose(d) \/ Drain(d)
    \/ OtherRecord \/ BadRecord \/ ReadEnds
    \/ Route \/ Routed
    \/ KeyLine \/ KeyLineEnd
    \/ Connect \/ Socks
    \/ ReassemblyComplete \/ Unparsed

\* The packet loop runs on while it has bytes in hand.
Work == (\E d \in Dirs : Drain(d)) \/ Route \/ Routed \/ Connect \/ Socks

Spec == Init /\ [][Next]_vars
FairSpec == Spec /\ WF_vars(Work)

-----------------------------------------------------------------------------
(* What the decode promises.                                               *)

IsPrefixOf(a, b) == Len(a) <= Len(b) /\ a = SubSeq(b, 1, Len(a))

AppUnits(d, n) == SelectSeq(SubSeq(wire[d], 1, n), LAMBDA u : u.app)

Direct == ~st.inConnect /\ st.socks = "none"

TypeOK ==
    /\ capture.next \in {Unknown + i : i \in 0..100} \cup 0..capture.at
    /\ capture.phase \in {"reading", "flushing", "drained", "returned"}
    /\ \A d \in Dirs : pos[d] \in 0..Len(Sent(d))
    /\ pc \in {"idle", "connect", "socks", "route"} \cup {Draining[d] : d \in Dirs} \cup {Moved[d] : d \in Dirs}
    /\ known \in [Labels -> {"none", "good", "bad"}]
    /\ st.class \in {"undecided", "http", "h2", "custom"}
    /\ st.class = "undecided" => \A d \in Dirs : st.out[d] = << >>

\* tlsdecrypt.NewConn: "in stream order per direction".  What a direction's parser is
\* given starts its stream and skips nothing, whatever the interleaving of the two
\* directions, the key-log's growth and the tunnel around it; a unit the capture
\* missed ends a TLS direction, and only cleartext goes on behind it.
PlaintextInOrder ==
    \A d \in Dirs :
        /\ st.lost = 0 \/ (st.sniffed /\ ~st.plaintext) => IsPrefixOf(st.out[d], AppUnits(d, pos[d]))
        /\ \A i, j \in DOMAIN st.out[d] : i < j => st.out[d][i].id < st.out[d][j].id

\* Conn.Feed drains both directions "until neither progresses": with every secret in
\* the key-log before the last bytes came, nothing captured is left undecrypted.
DecryptedWhenKeyed ==
    (/\ pc = "idle"
     /\ Direct
     /\ ~st.dropped
     /\ st.lost = 0
     /\ ~st.late
     /\ Len(file.whole) = Len(wire.keys))
        => \A d \in Dirs : st.out[d] \o (IF d = "down" THEN [i \in DOMAIN st.pre |-> st.pre[i][2]] ELSE << >>)
                             = AppUnits(d, pos[d])

\* Sinks.OnUndecoded, "once per connection that ended without a flow": a connection
\* whose captured bytes made no flow of their own is reported once, and no other is,
\* as long as its secrets came in time or not at all and the capture missed nothing.  (Connections
\* the code drops unreported are in the README.)
Own == SelectSeq(flows, LAMBDA f : f.kind # "connect")
Unreported == st.class \in {"h2", "custom"} \/ ~Direct \/ (st.dropped /\ ~tls.unsupported)
Accounted ==
    (capture.phase = "returned" /\ st.lost = 0 /\ ~st.late /\ Len(file.whole) \in {0, Len(wire.keys)}) =>
        /\ Own # << >> => reports = << >>
        /\ Len(reports) <= 1
        /\ (Own = << >> /\ ~Unreported /\ \E d \in Dirs : AppUnits(d, pos[d]) # << >>) => Len(reports) = 1

\* UndecodedConn.PcapOffset: "where to start reading it back; negative when unknown".
OffsetHonest == \A i \in DOMAIN reports : reports[i].offset \in {-1, st.first}

\* Every flow a tunnel carries names the proxy and the target behind it, and a
\* connection that only looked like a proxy's names neither (unless the capture missed
\* part of the handshake).
TunnelNamed ==
    \A i \in DOMAIN flows :
        flows[i].kind # "connect" /\ st.lost = 0 =>
            /\ flows[i].proxy = wire.tunnel
            /\ flows[i].host = IF wire.tunnel = "none" THEN "peer" ELSE "target"

\* What is said of a connection: reported once and only if it came to nothing, at an
\* offset that is its own, under the name of what it was dialled for.
UndecodedHonest == TypeOK /\ Accounted /\ OffsetHonest /\ TunnelNamed

\* The loops over a packet's bytes come to an end: Feed's over the two directions,
\* the proxy handshakes' over what is buffered.
LoopsEnd == []<>(pc = "idle")

\* A capture that has been read: nothing here moves any more.
Drained ==
    /\ wire = [up |-> << >>, down |-> << >>, keys |-> << >>, custom |-> FALSE, tunnel |-> "none",
               other |-> 0, bad |-> 0, lost |-> 0]
    /\ capture = [at |-> 0, next |-> 0, errs |-> 0, bad |-> 0, other |-> 0, phase |-> "returned"]
    /\ pos = [d \in Dirs |-> 0]
    /\ st = NewStream
    /\ tls = NewConn
    /\ todo = << >>
    /\ pc = "idle"
    /\ file = [whole |-> << >>, torn |-> FALSE]
    /\ known = [l \in Labels |-> "none"]
    /\ flows = << >>
    /\ reports = << >>

-----------------------------------------------------------------------------
(* What does not hold.                                                     *)

\* Sinks, "OnUndecoded is called once per connection that ended without a flow".
UndecodedOrFlow ==
    capture.phase = "returned" /\ Own = << >> /\ (\E d \in Dirs : AppUnits(d, pos[d]) # << >>)
        => Len(reports) = 1

\* feedConnect, "a non-2xx (e.g. a 407 that a second CONNECT with credentials follows)
\* keeps this phase open for the next handshake on the same connection".
NextConnectParsed ==
    (pc = "idle" /\ wire.tunnel = "http" /\ st.lost = 0 /\ \A d \in Dirs : pos[d] = Len(Sent(d)))
        => ~st.inConnect

\* The same, of a connection with a gap that did give flows.
FlowsNotReported == Own # << >> => reports = << >>
=============================================================================
