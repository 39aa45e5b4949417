----------------------------- MODULE MCQuicConn -----------------------------
(***************************************************************************)
(* Small connections for QuicConn: datagrams in the order they were sent.  *)
(***************************************************************************)
EXTENDS QuicConn

Win == 8   \* a packet-number window

crypto(from, upto) == [t |-> "crypto", off |-> from, data |-> bytes(from, upto), fin |-> FALSE]
stream(id, from, upto) ==
  [t |-> "stream", id |-> id, off |-> from, data |-> bytes(from, upto), fin |-> FALSE]
final(id, from, upto) == [stream(id, from, upto) EXCEPT !.fin = TRUE]
reset(id) == [t |-> "reset", id |-> id]
ack == [t |-> "skipped"]
strange == [t |-> "unknown"]

initialAs(dcid, secret, pn, frames) ==
  [kind |-> "initial", dcid |-> dcid, secret |-> secret, pn |-> pn, win |-> Win,
   frames |-> frames]
initial(pn, frames) == initialAs("A", "A", pn, frames)
handshake == [kind |-> "handshake", frames |-> << >>]
retry == [kind |-> "retry", frames |-> << >>]
early(pn, frames) ==
  [kind |-> "0rtt", secret |-> EarlySecret, pn |-> pn, win |-> Win, frames |-> frames]
short(d, pn, frames) ==
  [kind |-> "short", secret |-> appSecret(d), pn |-> pn, win |-> Win, frames |-> frames]

from(d, packets) == [dir |-> d, packets |-> packets]
C(packets) == from("client", packets)
S(packets) == from("server", packets)
toServer(pn, frames) == C(<<short("client", pn, frames)>>)
toClient(pn, frames) == S(<<short("server", pn, frames)>>)

Common ==
  [plain |-> TRUE, suite |-> "known", hrr |-> FALSE, hellos |-> 1, msgLen |-> 3,
   retried |-> FALSE, logged |-> Secrets1RTT, datagrams |-> << >>]

\* A ClientHello over two Initials, and a response whose packet numbers cross
\* the window.
Exchange == [Common EXCEPT !.datagrams = <<
  C(<<initial(0, <<crypto(0, 2)>>)>>),
  C(<<initial(1, <<crypto(2, 3)>>)>>),
  S(<<initial(0, <<ack, crypto(0, 3)>>), handshake, short("server", 3, <<stream(3, 0, 1)>>)>>),
  toServer(0, <<final(0, 0, 2)>>),
  toClient(5, <<stream(0, 0, 2)>>),
  toClient(7, <<ack, stream(0, 2, 3), stream(3, 1, 2)>>),
  toClient(8, <<stream(0, 0, 2), stream(0, 2, 3)>>),
  toClient(9, <<final(0, 3, 3)>>)>>]

\* Early data, with its secret.
Early == [Common EXCEPT !.logged = @ \cup {EarlySecret}, !.datagrams = <<
  C(<<initial(0, <<crypto(0, 3)>>), early(0, <<stream(0, 0, 2)>>)>>),
  C(<<early(1, <<final(0, 2, 3)>>)>>),
  S(<<initial(0, <<crypto(0, 3)>>), handshake>>),
  toServer(2, <<final(4, 0, 1)>>),
  toClient(0, <<final(0, 0, 2)>>),
  toClient(1, <<reset(4)>>)>>]

\* No secret is ever logged: a process without SSLKEYLOGFILE.
Keyless == [Exchange EXCEPT !.logged = {}]

\* A suite the decryptor does not know, with 1-RTT data next to it.
Unsupported == [Exchange EXCEPT !.suite = "unknown"]

\* HelloRetryRequest: two ClientHellos, two server messages.
Retried == [Common EXCEPT !.hrr = TRUE, !.hellos = 2, !.datagrams = <<
  C(<<initial(0, <<crypto(0, 3)>>)>>),
  S(<<initial(0, <<crypto(0, 3)>>)>>),
  C(<<initial(1, <<crypto(3, 6)>>)>>),
  S(<<initial(1, <<crypto(3, 6)>>), handshake>>),
  toServer(0, <<final(0, 0, 2)>>),
  toClient(0, <<final(0, 0, 2)>>)>>]

\* A Retry packet: the client starts over under the server's id.
Readdressed == [Common EXCEPT !.plain = FALSE, !.retried = TRUE, !.datagrams = <<
  C(<<initial(0, <<crypto(0, 3)>>)>>),
  S(<<retry>>),
  C(<<initialAs("B", "B", 1, <<crypto(0, 3)>>)>>),
  S(<<initialAs("B", "B", 0, <<crypto(0, 3)>>)>>),
  toClient(0, <<final(0, 0, 2)>>)>>]

\* Frames resent with other boundaries, and a frame of a type nobody knows.
Resegmented == [Common EXCEPT !.plain = FALSE, !.datagrams = <<
  C(<<initial(0, <<crypto(0, 3)>>)>>),
  S(<<initial(0, <<crypto(0, 3)>>)>>),
  toClient(0, <<stream(0, 0, 2)>>),
  toClient(1, <<stream(0, 1, 4)>>),
  toClient(2, <<stream(0, 2, 5)>>),
  toClient(3, <<stream(0, 0, 3), final(0, 3, 5), strange, stream(4, 0, 1)>>),
  toClient(4, <<stream(4, 0, 1)>>)>>]

AllWorlds == {Exchange, Early, Keyless, Unsupported, Retried, Readdressed, Resegmented}
=============================================================================
