---------------------------- MODULE MCLiveHttp3 ----------------------------
(***************************************************************************)
(* Small HTTP/3 connections for LiveHttp3 (see MCQuic).                    *)
(***************************************************************************)
EXTENDS Naturals, Sequences

dyn(abs) == [dynamic |-> TRUE, abs |-> abs]
lit(v) == [dynamic |-> FALSE, v |-> v]
headers(ric, lines) ==
  [f |-> "headers", len |-> 1, sec |-> [ric |-> ric, lines |-> lines], after |-> {}]
data(len) == [f |-> "data", len |-> len, after |-> {}]
settings == [f |-> "other", len |-> 0, after |-> {}]

type == [i |-> "type", len |-> 0, after |-> {}]
cap(n) == [i |-> "cap", n |-> n, len |-> 0, after |-> {}]
ins(v) == [i |-> "insert", v |-> v, len |-> 1, after |-> {}]
dup(rel) == [i |-> "dup", rel |-> rel, len |-> 0, after |-> {}]
once(item, sections) == [item EXCEPT !.after = sections]

client(r, its) == [kind |-> "request", dir |-> "client", request |-> r, items |-> its,
                   cuts |-> "anywhere"]
server(r, its) == [kind |-> "request", dir |-> "server", request |-> r, items |-> its,
                   cuts |-> "anywhere"]
byItem(stream) == [stream EXCEPT !.cuts = "items"]
atOnce(stream) == [stream EXCEPT !.cuts = "nowhere"]
encoder(d, its) == [kind |-> "encoder", dir |-> d, items |-> its, cuts |-> "anywhere"]

Connection(streams) == [streams |-> streams, maxEntries |-> 2, resets |-> FALSE]

\* Responses over a table of two that turns over: the count wraps at four.
Responses == Connection([
  c0 |-> atOnce(client(0, <<headers(0, <<lit("get")>>)>>)),
  s0 |-> byItem(server(0, <<headers(2, <<dyn(0), dyn(1)>>), data(1)>>)),
  c4 |-> atOnce(client(4, <<headers(0, <<lit("get")>>)>>)),
  s4 |-> byItem(server(4, <<once(headers(4, <<dyn(3), lit("x"), dyn(2)>>), {<<"s0", 1>>}),
                            once(headers(5, <<dyn(4)>>), {<<"s4", 1>>})>>)),
  e |-> encoder("server", <<type, cap(2), ins("a"), ins("b"),
          once(dup(1), {<<"s0", 1>>}), once(ins("c"), {<<"s0", 1>>}),
          once(ins("d"), {<<"s4", 1>>})>>)])

\* An encoded response whose headers wait for an insert.
Encoded == [Connection([
  c0 |-> byItem(client(0, <<settings, headers(0, <<lit("get")>>)>>)),
  s0 |-> server(0, <<headers(1, <<dyn(0)>>), data(1), data(2), data(1)>>),
  e |-> encoder("server", <<type, cap(2), ins("gzip")>>)]) EXCEPT !.resets = TRUE]

\* Requests that share a table entry, and a body each way.
Requested == [Connection([
  c0 |-> client(0, <<headers(1, <<dyn(0)>>), data(1), data(1)>>),
  s0 |-> byItem(server(0, <<headers(0, <<lit("ok")>>), data(2)>>)),
  c4 |-> atOnce(client(4, <<headers(1, <<lit("post"), dyn(0)>>)>>)),
  s4 |-> atOnce(server(4, <<headers(0, <<lit("ok")>>)>>)),
  e |-> encoder("client", <<type, cap(2), ins("a")>>)]) EXCEPT !.resets = TRUE]

\* A long encoded body in small frames.
Download == Connection([
  c0 |-> atOnce(client(0, <<headers(0, <<lit("get")>>)>>)),
  s0 |-> server(0, <<headers(0, <<lit("gzip")>>)>> \o [k \in 1 .. 9 |-> data(1)])])

\* A duplicate of an entry that is not there.
Malformed == Connection([
  c0 |-> atOnce(client(0, <<headers(0, <<lit("get")>>)>>)),
  s0 |-> server(0, <<headers(1, <<dyn(0)>>), headers(2, <<dyn(1)>>)>>),
  e |-> encoder("server", <<type, cap(2), ins("a"), dup(3), ins("b")>>)])

\* An interim response that waits while the final one does not.
Interim == Connection([
  c0 |-> atOnce(client(0, <<headers(0, <<lit("get")>>)>>)),
  s0 |-> server(0, <<headers(1, <<dyn(0)>>), headers(0, <<lit("ok")>>)>>),
  e |-> encoder("server", <<type, cap(2), ins("early hints")>>)])

AllWorlds == {Responses, Encoded, Requested, Download}
MalformedOnly == {Malformed}
InterimOnly == {Interim}
=============================================================================
