-------------------------- MODULE MCLiveApplication --------------------------
(* Connections that TLC plays to the live HTTP parsers (see MCTcp). `after' is how much  *)
(* of the other direction a side has received when it sends a unit.          *)
EXTENDS Naturals, Sequences

U(k, sid, id, after) == [k |-> k, sid |-> sid, id |-> id, after |-> after, n |-> 0, end |-> FALSE,
                         enc |-> "none", coded |-> FALSE, status |-> 0, clean |-> FALSE]
Request(k, n, after) == [U("req", k, k, after) EXCEPT !.n = n]
Response(k, n, enc, status, after) ==
    [U("resp", k, k, after) EXCEPT !.n = n, !.enc = enc, !.status = status]
Part(k, id, coded) == [U("part", k, id, 0) EXCEPT !.coded = coded]
Frame(k, id) == U(k, 1, id, 1)

Ask(sid, end) == [U("headers", sid, sid, 0) EXCEPT !.end = end]
Answer(sid, enc, end, after) ==
    [U("headers", sid, sid, after) EXCEPT !.status = 200, !.enc = enc, !.end = end]
Data(sid, id, coded, end) == [U("data", sid, id, 0) EXCEPT !.coded = coded, !.end = end]
Trailers(sid) == [U("headers", sid, 0, 0) EXCEPT !.end = TRUE]
Rst(sid, after) == U("rst", sid, 0, after)
GoAway(last, after) == U("goaway", last + 1, 0, after)

H1(up, down) == [proto |-> "h1", up |-> up, down |-> down]
H2(up, down) == [proto |-> "h2", up |-> up, down |-> down]

Http1 ==
    {\* Two exchanges, the first answer gzipped and longer than the cap.
     H1(<<Request(1, 1, 0), Part(1, 1, FALSE), Request(2, 0, 4)>>,
        <<Response(1, 3, "gzip", 200, 2), Part(1, 1, TRUE), Part(1, 2, TRUE), Part(1, 3, TRUE),
          Response(2, 1, "none", 200, 3), Part(2, 4, FALSE)>>),
     \* An answer the connection's end cuts short, in an encoding left alone.
     H1(<<Request(1, 0, 0)>>, <<Response(1, 2, "chain", 206, 1), Part(1, 1, TRUE)>>),
     \* No answer.
     H1(<<Request(1, 0, 0)>>, << >>),
     \* A connection that becomes WebSocket.
     H1(<<Request(1, 0, 0), Frame("frame", 2), Frame("half", 3), Frame("half", 4)>>,
        <<Response(1, 0, "none", 101, 1), Frame("frame", 2), Frame("half", 3)>>)}

Http2 ==
    {\* Two streams, one encoded and ended by trailers, and an answer that comes before
     \* the upload has ended.
     H2(<<Ask(1, FALSE), Ask(2, TRUE), Data(1, 1, FALSE, TRUE)>>,
        <<Answer(2, "gzip", FALSE, 2), Data(2, 1, TRUE, FALSE), Answer(1, "none", TRUE, 2),
          Data(2, 2, TRUE, FALSE), Trailers(2)>>),
     \* One stream cut by the server, one refused, one never taken.
     H2(<<Ask(1, TRUE), Ask(2, TRUE), Ask(3, TRUE)>>,
        <<Answer(1, "gzip", FALSE, 1), Data(1, 1, TRUE, FALSE), Rst(2, 2), Rst(1, 2), GoAway(2, 3)>>)}

\* A server that announces the first answer with an interim response.
Interim ==
    {H1(<<Request(1, 0, 0), Request(2, 0, 3)>>,
        <<[Response(1, 0, "none", 103, 1) EXCEPT !.id = 0], Response(1, 1, "none", 200, 1),
          Part(1, 1, FALSE), Response(2, 0, "none", 200, 2)>>)}

\* A client that cancels a stream whose answer is under way, and gets the rest all the same.
Cancelled ==
    {H2(<<Ask(1, TRUE), Rst(1, 2)>>,
        <<Answer(1, "gzip", FALSE, 1), Data(1, 1, TRUE, FALSE), Data(1, 2, TRUE, TRUE)>>)}

\* An upload the connection's end cuts short, answered or not.
Upload ==
    {H2(<<Ask(1, FALSE), Data(1, 1, FALSE, FALSE), Data(1, 2, FALSE, FALSE)>>,
        <<Answer(1, "none", TRUE, 1)>>)}

Exchanges == Http1 \cup Http2 \cup Interim \cup Cancelled \cup Upload
=============================================================================
