-------------------------- MODULE MCFilterLanguage --------------------------
(* Expressions and records for FilterLanguage.                             *)
EXTENDS FilterLanguage

b(w) == [bang |-> TRUE, word |-> w]
p(w) == plain(w)

\* The words below, and those of the grammars.
MCWords == Tilde \cup {"&", "hit", "miss", "any", "(", "200", "'q'", "k", "k=", "k=hit", "t1", "t2"}

SeqsUpTo(S, n) == UNION {[1 .. k -> S] : k \in 0 .. n}

MCAssigned == [w \in {"k=hit", "k="} |->
                 IF w = "k=" THEN [key |-> "k", pat |-> NoWord] ELSE [key |-> "k", pat |-> "hit"]]

\* The fields say "hit" where `on` says so.
fields(on) == [w \in flowGrammar.args \cup messageGrammar.args |->
                 IF w \in on THEN {"hit"} ELSE {}]

record(on, reqHit, respHit, big, dns, meta) ==
  [text |-> fields(on), status |-> "~c" \in on, fav |-> "~fav" \in on,
   unicode |-> IF "idn" \in on THEN [n \in {"~d", "~u"} |-> {"hit"}] ELSE << >>,
   ids |-> [n \in {"~tag", "~group"} |-> {"t1", "t2"}],
   names |-> IF "~tag" \in on THEN [i \in {"t1"} |-> "hit"] ELSE << >>,
   meta |-> meta, dns |-> dns,
   head |-> [d \in Dirs |-> IF d = "request" /\ reqHit THEN {"hit"} ELSE {}],
   body |-> [d \in Dirs |-> IF d = "response" /\ ~respHit THEN {} ELSE {"hit"}],
   big |-> big]

Records ==
  {record({"~c", "~u", "~tag", "~m", "~op"}, TRUE, TRUE, TRUE, FALSE, [k \in {p("k")} |-> {"hit"}]),
   record({"~d", "idn", "~fav"}, FALSE, FALSE, FALSE, TRUE, << >>),
   record({"~c"}, FALSE, TRUE, FALSE, FALSE, [k \in {p("conn.outcome"), b("k")} |-> {"udp_undecoded"}])}

FlowTokens == {Bang, p("~s"), b("~fav"), p("~hq"), p("~h"), b("~bs"), p("~b"), p("~tag"), p("~d"), p("&"),
               p("hit"), p("any"), p("("), p("~zz")}

FrameTokens == {Bang, p("~b"), b("~c"), p("~op"), p("~meta"), p("k=hit"), p("k="), b("k"), p("hit"), p("&"), b("any"), p("~fav")}

\* Longer expressions: the cost order, both directions of a body, operators
\* after arguments.
Long ==
  {<<p("~bs"), p("hit"), p("~h"), p("hit"), p("~s")>>,
   <<b("~b"), p("miss"), b("~hq"), p("miss"), p("~c"), p("hit"), p("~m"), p("any")>>,
   <<p("~bq"), p("hit"), b("~bs"), p("hit"), p("~q")>>,
   <<p("~hs"), p("any"), p("~bs"), p("miss"), p("~u"), p("hit")>>,
   <<p("~d"), p("~c"), p("&"), p("~c"), p("200")>>,
   <<p("~d"), p("hit"), p("hit"), p("&"), p("~meta"), p("k=hit")>>,
   <<p("~tag"), p("t2"), p("~meta"), p("k"), p("200"), p("'q'")>>,
   <<p("~group"), p("t1"), Bang, p("~mark"), p("hit"), Bang, b("any")>>}

worlds(dialect, source, toks, hide) ==
  [dialect : {dialect}, source : {source}, tokens : toks, record : Records, includeHidden : hide]

FlowWorlds(n) == worlds("flow", "page", SeqsUpTo(FlowTokens, n) \cup Long, {FALSE})
                 \cup worlds("flow", "page", SeqsUpTo(FlowTokens, 1), {TRUE})
                 \cup worlds("flow", "stream", SeqsUpTo(FlowTokens, 2) \cup Long, {FALSE})

AllWorlds == FlowWorlds(3) \cup worlds("message", "timeline", SeqsUpTo(FrameTokens, 3), {FALSE})
FewWorlds == FlowWorlds(2)
=============================================================================
