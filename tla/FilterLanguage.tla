--------------------------- MODULE FilterLanguage ---------------------------
(***************************************************************************)
(* The filter language of the gateway (internal/filter): how an expression *)
(* is read, compiled and ordered by cost, and how the compiled predicate   *)
(* meets one record: a flow that a QueryFlows page looks for in the bundle *)
(* and then in the unflushed tail, the same flow in a StreamFlows event,   *)
(* or a frame of a message timeline.                                       *)
(*                                                                         *)
(* A token is a word with or without a leading `!`; a lone `!` is the      *)
(* token Bang.  A haystack is the set of the words that match in it, and   *)
(* the word "any" matches in every haystack, an empty one too (`.*`).      *)
(* While a page is gathered the flusher may move the flow from the hub to  *)
(* the bundle; `moved` remembers that it did.                              *)
(***************************************************************************)
EXTENDS Integers, Sequences, FiniteSets, SequencesExt

CONSTANTS
  Worlds,     \* what is asked of which record: see MCFilterLanguage
  Words,      \* the words expressions are made of
  BadWords,   \* words RE2 refuses
  Operators,  \* booleanTokens
  Digits,     \* three-digit words
  Quoted,     \* words in quotes
  Parens,     \* words that start with "(" or end with ")"
  Assigned    \* the words of the form key=pattern, as [key, pat] records

VARIABLES
  world,   \* [dialect, source, tokens, record]: see MCFilterLanguage
  pc,      \* reading, compiling, scanning, matching, counting, tail,
           \* answered or refused
  at,      \* the next token, term or tested term
  parsed,  \* parse's triples, as written
  terms,   \* the predicate's terms
  view,    \* the view under test: stored, tail, event or frame
  ref,     \* whether the scanned row referenced its bodies
  reads,   \* what the loaders read for this view: <<tier, direction>> pairs
  verdicts,\* verdicts[view], once the view was tested
  page,    \* [matched, hidden]: the counts of the page, or of the stream
  home,    \* the flow: unwritten, inserted, heldback or written
  moved    \* the flusher ran since the scan

vars == <<world, pc, at, parsed, terms, view, ref, reads, verdicts, page, home, moved>>
query == <<world, pc, at, parsed, terms, view, ref, reads, verdicts, page>>

---------------------------------------------------------------------------
(* The grammars                                                            *)

NoWord == ""
Bang == [bang |-> TRUE, word |-> NoWord]
plain(w) == [bang |-> FALSE, word |-> w]
NoArg == plain(NoWord)

\* strings.Fields leaves no empty word.
Token == {Bang} \cup [bang : BOOLEAN, word : Words]

annotationTerms == {"~mark", "~tag", "~group", "~comment"}
headerTerms == {"~h", "~hq", "~hs"}
bodyTerms == {"~b", "~bq", "~bs"}

flowGrammar ==
  [args |-> {"~m", "~d", "~u", "~c", "~t", "~conn", "~stream", "~proto", "~meta"}
              \cup annotationTerms \cup headerTerms \cup bodyTerms,
   flags |-> {"~s", "~q", "~fav"},
   strictTerms |-> FALSE]

messageGrammar ==
  [args |-> {"~b", "~op", "~from", "~meta"} \cup annotationTerms,
   flags |-> {"~fav"},
   strictTerms |-> TRUE]

grammar == IF world.dialect = "flow" THEN flowGrammar ELSE messageGrammar

\* Words that start with a tilde: the terms, and one no dialect defines.
Tilde == flowGrammar.args \cup flowGrammar.flags \cup messageGrammar.args \cup {"~zz"}

\* A filter goes with the records its language is about; an operator is a word
\* and no term.
ASSUME FilterAssumption ==
  /\ \A w \in Worlds :
       /\ <<w.dialect, w.source>> \in
            {<<"flow", "page">>, <<"flow", "stream">>, <<"message", "timeline">>}
       /\ w.tokens \in Seq(Token)
       /\ {w.includeHidden, w.record.status, w.record.fav, w.record.dns, w.record.big}
            \subseteq BOOLEAN
  /\ NoWord \notin Words /\ Tilde \subseteq Words
  /\ Operators \subseteq Words \ Tilde

---------------------------------------------------------------------------
(* parse                                                                   *)

\* How the token at `at` negates: the token the term is read from, and its
\* position.
negation ==
  LET t == world.tokens[at] IN
  [neg |-> t.bang, pos |-> IF t = Bang THEN at + 1 ELSE at]

subject == LET t == world.tokens[negation.pos] IN
           IF world.tokens[at] = Bang THEN t ELSE plain(t.word)

isFlag == ~subject.bang /\ subject.word \in grammar.flags
takesArg == ~subject.bang /\ subject.word \in grammar.args

isUnknown == grammar.strictTerms /\ ~subject.bang /\ subject.word \in Tilde

Emit(t) == parsed' = Append(parsed, t)

Refuse ==
  /\ pc' = "refused"
  /\ UNCHANGED <<at, parsed>>

ReadFlag ==
  /\ isFlag
  /\ Emit([term |-> subject.word, arg |-> NoArg, neg |-> negation.neg])
  /\ at' = negation.pos + 1
  /\ UNCHANGED pc

ReadTerm ==
  /\ takesArg /\ negation.pos < Len(world.tokens)
  /\ Emit([term |-> subject.word, arg |-> world.tokens[negation.pos + 1],
           neg |-> negation.neg])
  /\ at' = negation.pos + 2
  /\ UNCHANGED pc

MissesArg == takesArg /\ negation.pos = Len(world.tokens) /\ Refuse

RefuseUnknown == ~isFlag /\ ~takesArg /\ isUnknown /\ Refuse

ReadBare ==
  /\ ~isFlag /\ ~takesArg /\ ~isUnknown
  /\ Emit([term |-> NoWord, arg |-> subject, neg |-> negation.neg])
  /\ at' = negation.pos + 1
  /\ UNCHANGED pc

\* A `!` with nothing after it ends the expression.
ended == IF at > Len(world.tokens) THEN TRUE ELSE negation.pos > Len(world.tokens)

ReadEnd ==
  /\ ended
  /\ pc' = "compiling" /\ at' = 1
  /\ UNCHANGED parsed

Parse ==
  /\ pc = "reading"
  /\ \/ ReadEnd
     \/ /\ ~ended
        /\ ReadFlag \/ ReadTerm \/ MissesArg \/ RefuseUnknown \/ ReadBare
  /\ UNCHANGED <<world, terms, view, ref, reads, verdicts, page, home, moved>>

---------------------------------------------------------------------------
(* Compile and CompileMessage                                              *)

\* strings.Cut at "=" for ~meta; a `!` before the argument is the key's first
\* character; no pattern means: the key is there.
cut(arg) ==
  LET m == IF arg.word \in DOMAIN Assigned
           THEN Assigned[arg.word] ELSE [key |-> arg.word, pat |-> NoWord]
  IN [key |-> [bang |-> arg.bang, word |-> m.key], pat |-> m.pat]

\* The pattern a term hands to compileRx, if it has one.
patterns(t) ==
  CASE t.term \in grammar.flags -> {}
    [] t.term = "~meta" -> {cut(t.arg).pat} \ {NoWord}
    [] OTHER -> {t.arg.word}

compiles(t) == patterns(t) \cap BadWords = {}

cost(t) ==
  CASE world.dialect = "flow" /\ t.term \in headerTerms -> 1
    [] world.dialect = "flow" /\ t.term \in bodyTerms -> 2
    [] world.dialect = "message" /\ t.term \in {"~b", NoWord} -> 2
    [] OTHER -> 0

CompileTerm ==
  /\ pc = "compiling" /\ at <= Len(parsed)
  /\ IF compiles(parsed[at])
     THEN terms' = Append(terms, parsed[at]) /\ at' = at + 1 /\ UNCHANGED pc
     ELSE pc' = "refused" /\ UNCHANGED <<terms, at>>
  /\ UNCHANGED <<world, parsed, view, ref, reads, verdicts, page, home, moved>>

\* The terms of each cost, as written.
tiers == FoldLeft(LAMBDA ts, t : [ts EXCEPT ![cost(t)] = Append(@, t)],
                  [c \in 0 .. 2 |-> << >>], terms)

\* sort.SliceStable by cost.
byCost == tiers[0] \o tiers[1] \o tiers[2]

Sort ==
  /\ pc = "compiling" /\ at > Len(parsed)
  /\ terms' = byCost
  /\ pc' = IF world.source = "page" THEN "scanning" ELSE "matching"
  /\ at' = 1
  /\ view' = CASE world.source = "stream" -> "event"
               [] world.source = "timeline" -> "frame"
               [] OTHER -> view
  /\ UNCHANGED <<world, parsed, ref, reads, verdicts, page, home, moved>>

---------------------------------------------------------------------------
(* Hints                                                                   *)

bare == {i \in DOMAIN parsed : parsed[i].term = NoWord /\ parsed[i].arg # NoArg}

isWord(i, ws) == ~parsed[i].arg.bang /\ parsed[i].arg.word \in ws

\* The advice that goes with an expression parse accepts.
hints ==
  {h \in {"operator", "parens", "status", "quoted"} :
     \/ h = "operator" /\ \E i \in bare : isWord(i, Operators)
     \/ h = "parens" /\ \E i \in bare : isWord(i, Parens)
     \/ h = "status" /\ "~c" \in grammar.args /\ \E i \in bare : isWord(i, Digits)
     \/ h = "quoted" /\ \E i \in DOMAIN parsed : isWord(i, Quoted)}

---------------------------------------------------------------------------
(* What a view shows of the record                                         *)

rec == world.record

Matches(word, hay) == word = "any" \/ word \in hay
matches(arg, hay) == ~arg.bang /\ Matches(arg.word, hay)

\* resolve: an id without a name matches as itself.
resolve(ids, names) == {IF i \in DOMAIN names THEN names[i] ELSE i : i \in ids}

Dirs == {"request", "response", "payload"}

\* The proto of an event carries no annotations: they live in the bundle, and
\* only the tail and the page have them attached.
annotated == view # "event"

\* The haystacks of a column term: two for an internationalized host.
columns(t) ==
  LET name == IF t.term = NoWord THEN "~u" ELSE t.term IN
  CASE name = "~c" -> {IF rec.status THEN rec.text[name] ELSE {}}
    [] name \in {"~tag", "~group"} ->
         {IF annotated THEN resolve(rec.ids[name], rec.names) ELSE {}}
    [] name \in {"~mark", "~comment"} -> {IF annotated THEN rec.text[name] ELSE {}}
    [] OTHER -> {rec.text[name]} \cup {rec.unicode[n] : n \in {name} \cap DOMAIN rec.unicode}

metaMatches(arg) ==
  LET m == cut(arg)
      value == IF m.key \in DOMAIN rec.meta THEN rec.meta[m.key] ELSE {}
  IN IF m.pat = NoWord THEN m.key \in DOMAIN rec.meta ELSE Matches(m.pat, value)

\* The directions a term loads, in order.
directions(t) ==
  CASE world.dialect = "message" -> <<"payload">>
    [] t.term \in {"~hq", "~bq"} -> <<"request">>
    [] t.term \in {"~hs", "~bs"} -> <<"response">>
    [] OTHER -> <<"request", "response">>

\* headerLoader; only a stored row has one.
headers(d) == IF view = "stored" THEN rec.head[d] ELSE {}

\* A mutant: what the proto inlines is all there is.
searchBodyInline(d) == IF home = "written" \/ rec.big THEN {} ELSE rec.body[d]

\* searchBody: the decoder's bytes, until the flusher released them.
searchBody(d) == IF home = "written" THEN {} ELSE rec.body[d]

\* bodyLoader for a stored row, the hub's bytes for the tail, the inline copy
\* for an event. A frame's payload is inline, in the bundle or in the hub (how
\* it can slip between the last two: LiveReads).
body(d) ==
  CASE view = "stored" -> IF ref THEN rec.body[d] ELSE searchBody(d)
    [] view = "tail" -> searchBody(d)
    [] view = "event" -> IF rec.big THEN {} ELSE rec.body[d]
    [] OTHER -> rec.body[d]

load(t, d) == IF cost(t) = 1 THEN headers(d) ELSE body(d)

\* The directions a term reads: the second one when the first does not match.
readBy(t) ==
  LET ds == directions(t) IN
  {ds[i] : i \in {j \in DOMAIN ds : \A n \in 1 .. j - 1 : ~matches(t.arg, load(t, ds[n]))}}

\* term.eval
eval(t) ==
  CASE t.term = "~s" -> rec.status
    [] t.term = "~q" -> ~rec.status
    [] t.term = "~fav" -> annotated /\ rec.fav
    [] t.term = "~meta" -> metaMatches(t.arg)
    [] cost(t) > 0 -> \E d \in readBy(t) : matches(t.arg, load(t, d))
    [] OTHER -> \E hay \in columns(t) : matches(t.arg, hay)

---------------------------------------------------------------------------
(* Hidden, and what a verdict does to the page                             *)

HiddenOutcomes == {"tls_rejected", "no_request", "udp_undecoded"}

outcomes == LET key == plain("conn.outcome") IN
            IF key \in DOMAIN rec.meta THEN rec.meta[key] ELSE {}

Hidden == rec.dns \/ outcomes \cap HiddenOutcomes # {}

\* A mutant: the lookups are forgotten.
CountHiddenOutcomes == IF outcomes \cap HiddenOutcomes # {} THEN 1 ELSE 0

\* The same in SQL, over the rows of the bundle.
CountHiddenFlows == IF rec.dns \/ outcomes \cap HiddenOutcomes # {} THEN 1 ELSE 0

leftOut == Hidden /\ ~world.includeHidden /\ world.source # "timeline"

\* A stream asks Hidden before the predicate, a page after it.
tally ==
  IF leftOut
  THEN IF world.source = "page" THEN [page EXCEPT !.hidden = @ + 1] ELSE page
  ELSE [page EXCEPT !.matched = @ + 1]

afterwards ==
  IF view # "stored" THEN "answered" ELSE IF world.tokens = << >> THEN "counting" ELSE "tail"

Conclude(v) ==
  /\ verdicts' = [u \in DOMAIN verdicts \cup {view} |-> IF u = view THEN v ELSE verdicts[u]]
  /\ page' = IF v THEN tally ELSE page
  /\ pc' = afterwards

\* The terms in order until one fails.
Test ==
  /\ pc = "matching"
  /\ IF at > Len(terms)
     THEN Conclude(TRUE) /\ UNCHANGED <<at, reads>>
     ELSE LET t == terms[at] IN
          /\ reads' = reads \cup {<<cost(t), d>> : d \in IF cost(t) > 0 THEN readBy(t) ELSE {}}
          /\ IF eval(t) # t.neg
             THEN at' = at + 1 /\ UNCHANGED <<pc, verdicts, page>>
             ELSE Conclude(FALSE) /\ UNCHANGED at
  /\ UNCHANGED <<world, parsed, terms, view, ref, home, moved>>

---------------------------------------------------------------------------
(* QueryFlows: the scan, the count, the unflushed tail                     *)

Scan ==
  /\ pc = "scanning"
  /\ ref' = (home = "written")
  /\ IF home = "unwritten"
     THEN /\ pc' = IF world.tokens = << >> THEN "counting" ELSE "tail"
          /\ UNCHANGED view
     ELSE pc' = "matching" /\ view' = "stored"
  /\ UNCHANGED <<world, at, parsed, terms, reads, verdicts, page, home, moved>>

\* Without a filter the totals come from COUNT queries of their own.
Count ==
  /\ pc = "counting"
  /\ LET n == IF home = "unwritten" THEN 0 ELSE 1
         hidden == IF world.includeHidden \/ n = 0 THEN 0 ELSE CountHiddenFlows
     IN page' = [matched |-> n - hidden, hidden |-> hidden]
  /\ pc' = "tail"
  /\ UNCHANGED <<world, at, parsed, terms, view, ref, reads, verdicts, home, moved>>

have == "stored" \in DOMAIN verdicts /\ verdicts["stored"] /\ ~leftOut

\* unflushedFlows leaves out what is pending or stored.
unflushed == home \in {"unwritten", "inserted"}

mergeUnflushed ==
  /\ pc = "tail"
  /\ IF unflushed /\ ~have
     THEN view' = "tail" /\ pc' = "matching" /\ at' = 1 /\ reads' = {}
     ELSE pc' = "answered" /\ UNCHANGED <<view, at, reads>>
  /\ UNCHANGED <<world, parsed, terms, ref, verdicts, page, home, moved>>

\* The flusher, while a page is gathered: the row without its bodies, the
\* bookkeeping, then the bodies (see LiveFlush).
Flush ==
  /\ world.source = "page" /\ pc \in {"matching", "counting", "tail"}
  /\ \/ home = "unwritten" /\ home' = "inserted"
     \/ home = "inserted" /\ home' = "heldback"
     \/ home = "heldback" /\ home' = "written"
  /\ moved' = TRUE
  /\ UNCHANGED query

---------------------------------------------------------------------------
Init ==
  /\ world \in Worlds
  /\ pc = "reading" /\ at = 1
  /\ parsed = << >> /\ terms = << >>
  /\ view = "none" /\ ref = FALSE /\ reads = {} /\ verdicts = << >>
  /\ page = [matched |-> 0, hidden |-> 0]
  /\ home \in IF world.source = "page" THEN {"unwritten", "inserted", "heldback", "written"}
              ELSE {"unwritten"}
  /\ moved = FALSE

Next ==
  \/ Parse \/ CompileTerm \/ Sort \/ Scan \/ Test \/ Count \/ mergeUnflushed
  \/ Flush

Spec == Init /\ [][Next]_vars

---------------------------------------------------------------------------
(* Properties                                                              *)

\* The shape of every variable.
TypeOK ==
  /\ world \in Worlds
  /\ pc \in {"reading", "compiling", "scanning", "matching", "counting", "tail",
             "answered", "refused"}
  /\ at \in 1 .. Len(world.tokens) + 1
  /\ \A i \in DOMAIN parsed : parsed[i].term \in Tilde \cup {NoWord} /\ parsed[i].neg \in BOOLEAN
  /\ ToSet(terms) \subseteq ToSet(parsed)
  /\ view \in {"none", "stored", "tail", "event", "frame"}
  /\ ref \in BOOLEAN /\ moved \in BOOLEAN
  /\ reads \subseteq (1 .. 2) \X Dirs
  /\ \A v \in DOMAIN verdicts : verdicts[v] \in BOOLEAN
  /\ page \in [matched : 0 .. 2, hidden : 0 .. 2]
  /\ home \in {"unwritten", "inserted", "heldback", "written"}

expand(t) == IF t.bang /\ t # Bang THEN <<Bang, plain(t.word)>> ELSE <<t>>

spelled(p) == (IF p.neg THEN <<Bang>> ELSE << >>)
              \o (IF p.term = NoWord THEN << >> ELSE <<plain(p.term)>>)
              \o (IF p.arg = NoArg THEN << >> ELSE expand(p.arg))

written(toks) == FoldLeft(LAMBDA s, t : s \o expand(t), << >>, toks)
read == FoldLeft(LAMBDA s, p : s \o spelled(p), << >>, parsed)

\* parse uses every token of an accepted expression once and in order; only a
\* last lone `!` may be left over.
NothingDropped ==
  pc \notin {"reading", "refused"} =>
    written(world.tokens) \in {read, Append(read, Bang)}

\* Every loader's tier was reached only by a record that passes the cheaper
\* terms of the expression, wherever they were written (filter.go: "body terms
\* sort last, so Body is only called for a row that has already passed every
\* cheaper term").
PaidInOrder ==
  \A r \in reads : \A i \in DOMAIN parsed :
    cost(parsed[i]) < r[1] => eval(parsed[i]) # parsed[i].neg

\* The record itself, whoever looks at it.
truth(t) ==
  CASE t.term = "~s" -> rec.status
    [] t.term = "~q" -> ~rec.status
    [] t.term = "~fav" -> rec.fav
    [] t.term = "~meta" -> metaMatches(t.arg)
    [] cost(t) > 0 -> \E d \in ToSet(directions(t)) :
                        matches(t.arg, IF cost(t) = 1 THEN rec.head[d] ELSE rec.body[d])
    [] t.term \in {"~tag", "~group"} -> matches(t.arg, resolve(rec.ids[t.term], rec.names))
    [] t.term \in {"~mark", "~comment"} -> matches(t.arg, rec.text[t.term])
    [] OTHER -> \E hay \in columns(t) : matches(t.arg, hay)

Written == \A i \in DOMAIN parsed : truth(parsed[i]) # parsed[i].neg

\* The terms a view cannot answer: no live view has headers, and an event has
\* neither annotations nor a body above InlineBlobMax.
blindTo(v) ==
  CASE v = "tail" -> IF world.dialect = "flow" THEN headerTerms ELSE {}
    [] v = "event" -> headerTerms \cup annotationTerms \cup {"~fav"}
                        \cup IF rec.big THEN bodyTerms ELSE {}
    [] OTHER -> {}

Blind(v) == \E i \in DOMAIN parsed : parsed[i].term \in blindTo(v)

\* The sorted predicate, cut short at the first failing term and loading on
\* demand, decides what the written expression says of the record, on every
\* view that has what the expression asks for.
MatchIsConjunction ==
  \A v \in DOMAIN verdicts : ~moved /\ ~Blind(v) => verdicts[v] = Written

settled == pc = "answered" /\ world.source = "page" /\ ~moved /\ home # "inserted"

counted == [matched |-> IF Written /\ ~leftOut THEN 1 ELSE 0,
            hidden |-> IF Written /\ leftOut THEN 1 ELSE 0]

\* A page shows the flow, or counts it as hidden, exactly when the expression
\* matches it, once, wherever the flow is; with a filter and without.
FoundOrCounted ==
  settled /\ ~(home = "unwritten" /\ Blind("tail")) => page = counted

before(i) == IF i = 1 THEN NoArg ELSE world.tokens[i - 1]

\* May the token at i be the argument of a term?
mayBeArg(i) == before(i).word \in grammar.args

\* An operator that is not the argument of a term is matched as a regex, and
\* then the hints say so (hints.go: "Every check here is for a mistake the
\* grammar cannot catch").
AdviceIsGiven ==
  pc \notin {"reading", "refused"} =>
    \A i \in DOMAIN world.tokens :
      world.tokens[i].word \in Operators /\ ~mayBeArg(i) /\ before(i) # Bang /\ ~world.tokens[i].bang
        => "operator" \in hints

\* No term of another dialect is read as a payload regex (message.go: "A
\* `~`-prefixed token this dialect does not define is an error").
StrictRefuses ==
  world.dialect = "message" /\ pc \notin {"reading", "refused"} =>
    \A i \in DOMAIN parsed : parsed[i].term = NoWord =>
      parsed[i].arg.bang \/ parsed[i].arg.word \notin Tilde

\* An accepted expression means what it says: read token by token, refused or
\* warned about where the grammar is ambiguous, evaluated cheap terms first and
\* cut short, it still decides what was written (parse, Compile, Match, Hints).
ExpressionIsMeant ==
  TypeOK /\ NothingDropped /\ PaidInOrder /\ MatchIsConjunction /\ AdviceIsGiven /\ StrictRefuses

\* ADR-0012: one predicate keeps "stored rows, the live tail and the event
\* stream provably identical". The tail has no headers.
EveryViewAgrees == settled => page = counted

\* livebodysearch_test.go: "A body search on an open session must see a body in
\* every state it passes through before close".
SearchSeesEveryState ==
  pc = "answered" /\ "stored" \in DOMAIN verdicts /\ ~Blind("tail") /\ Written =>
    page.matched + page.hidden > 0

\* A hidden flow is counted once, whatever the flusher does meanwhile.
HiddenCountedOnce == page.hidden <= 1
=============================================================================
