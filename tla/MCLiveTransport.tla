-------------------------- MODULE MCLiveTransport --------------------------
(* LiveTransport for TLC: connections of each kind the decoder knows.      *)
EXTENDS LiveTransport

\* A unit: its record type, what it is, key generation and sequence number when
\* protected, whether it carries application bytes or ends a header block, how much
\* of the other direction its sender had received, and its place in its direction.
U(t, p, gen, seq, app, head, after, v) ==
    [t |-> t, p |-> p, gen |-> gen, seq |-> seq, app |-> app, head |-> head,
     after |-> after, v |-> v, id |-> 0]

Clear(p, after) == U("hs", p, -1, 0, FALSE, FALSE, after, "-")
ServerBad(v, after) == U("hs", "SHbad", -1, 0, FALSE, FALSE, after, v)
CCS(after) == U("ccs", "ccs", -1, 0, FALSE, FALSE, after, "-")
Finished13(after) == U("app", "fin", -9, 0, FALSE, FALSE, after, "-")
Finished12(after) == U("hs", "fin", 0, 0, FALSE, FALSE, after, "-")
App(p, gen, seq, after) == U("app", p, gen, seq, TRUE, FALSE, after, "-")
KeyUpdate(seq, after) == U("app", "KU", 0, seq, FALSE, FALSE, after, "-")
Plain(p, after) == U("plain", p, 0, 0, TRUE, FALSE, after, "-")
Shake(p, after) == U("plain", p, 0, 0, FALSE, FALSE, after, "-")
Block(p, after) == U("plain", p, 0, 0, FALSE, TRUE, after, "-")

Number(units) == [i \in DOMAIN units |-> [units[i] EXCEPT !.id = i]]

Behind(units, n) == [i \in DOMAIN units |-> [units[i] EXCEPT !.after = @ + n]]

Conn13 == [up |-> <<Clear("CH", 0), CCS(1), Finished13(2), App("get", 0, 0, 2), KeyUpdate(1, 2), App("data", 1, 0, 3)>>,
           down |-> <<Clear("SH13", 1), Finished13(1), App("data", 0, 0, 4), KeyUpdate(1, 4), App("data", 1, 0, 4)>>,
           keys |-> <<"server", "client">>]
Conn12 == [up |-> <<Clear("CH", 0), Clear("CKE", 1), CCS(1), Finished12(1), App("get", 0, 1, 3)>>,
           down |-> <<Clear("SH12", 1), CCS(4), Finished12(4), App("data", 0, 1, 5)>>,
           keys |-> <<"master">>]
ConnRetry == [up |-> <<Clear("CH", 0), CCS(1), Clear("CH", 1), Finished13(3), App("pri", 0, 0, 3), App("get", 0, 1, 3)>>,
              down |-> <<Clear("HRR", 1), Clear("SH13", 3), Finished13(3), App("data", 0, 0, 5)>>,
           keys |-> <<"client", "server">>]
ConnOld == [up |-> <<Clear("CH", 0), CCS(1), Finished12(1), App("get", 0, 1, 1)>>,
            down |-> <<ServerBad("tls12", 1), App("data", 0, 0, 4)>>,
           keys |-> <<"master">>]
ConnNew == [up |-> <<Clear("CH", 0), Finished13(1)>>, down |-> <<ServerBad("tls13", 1)>>,
           keys |-> <<"client", "server">>]
ConnIdle == [up |-> <<Clear("CH", 0), Finished13(2)>>, down |-> <<Clear("SH13", 1), Finished13(1)>>,
           keys |-> <<"client", "server">>]
ConnMid == [up |-> <<App("data", 0, 7, 0), App("data", 0, 8, 0)>>, down |-> <<App("data", 0, 4, 1)>>,
           keys |-> << >>]
ConnPlain == [up |-> <<Plain("get", 0), Plain("data", 0)>>, down |-> <<Plain("data", 1)>>,
           keys |-> << >>]
ConnFrames(after) == [up |-> <<Plain("data", 0), Plain("frame", 0)>>, down |-> <<Plain("frame", after), Plain("data", 1)>>,
           keys |-> << >>]
ConnLookalike == [up |-> <<Plain("greet", 0), Plain("frame", 1)>>, down |-> <<Plain("frame", 1), Plain("data", 2)>>,
           keys |-> << >>]

Under(tunnel, up, down, inner) ==
    [up |-> Number(up \o Behind(inner.up, Len(down))),
     down |-> Number(down \o Behind(inner.down, Len(up))),
     keys |-> inner.keys, custom |-> FALSE, tunnel |-> tunnel,
     other |-> 0, bad |-> 0, lost |-> 0]

Noisy(w) == [w EXCEPT !.other = 1, !.bad = 1]
Gappy(w) == [w EXCEPT !.lost = 1]

Wire(inner) == Under("none", << >>, << >>, inner)
Custom(w) == [w EXCEPT !.custom = TRUE]

Connect1 == Under("http", <<Block("connect", 0)>>, <<Block("200", 1)>>, Conn13)
Connect2 == Under("http", <<Block("connect", 0), Block("connect", 1)>>,
                  <<Block("407", 1), Block("200", 2)>>, ConnPlain)
ConnectBody == Under("http", <<Block("connect", 0), Block("connect", 2)>>,
                     <<Block("407", 1), Shake("body", 1), Block("200", 2)>>, ConnPlain)
Socks5 == Under("socks", <<Shake("greet", 0), Shake("auth", 1), Shake("req", 2)>>,
                <<Shake("userpass", 1), Shake("auth ok", 2), Shake("ok", 3)>>, Conn12)
Socks5Open == Under("socks", <<Shake("greet", 0), Shake("req", 1)>>,
                    <<Shake("none auth", 1), Shake("ok", 2)>>, ConnPlain)
Socks4 == Under("socks", <<Shake("req4", 0)>>, <<Shake("ok", 1)>>, ConnIdle)
SocksDenied == Under("none", <<Shake("greet", 0), Shake("bind", 1)>>, <<Shake("none auth", 1), Shake("denied", 2)>>,
                     [up |-> << >>, down |-> << >>, keys |-> << >>])

MCWires == {Wire(Conn13), Wire(Conn12), Gappy(Wire(Conn13)), Gappy(Wire(Conn12)), Wire(ConnRetry),
            Noisy(Wire(ConnOld)), Wire(ConnNew), Wire(ConnIdle), Noisy(Wire(ConnMid)),
            Gappy(Wire(ConnPlain)), Custom(Wire(ConnFrames(1))), Custom(Wire(ConnLookalike)),
            Connect1, Connect2, Socks5, Socks5Open, Socks4, SocksDenied}
MCBody == {ConnectBody}
MCServerFirst == {Custom(Wire(ConnFrames(0)))}
=============================================================================
