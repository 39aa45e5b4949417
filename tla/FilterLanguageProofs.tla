------------------------ MODULE FilterLanguageProofs ------------------------
(* An expression means what it says, and a page shows or counts the flow it   *)
(* matches, whatever the worlds: any expressions, any records, every place a  *)
(* flow can be in and every step of the flusher in between.                   *)
EXTENDS FilterLanguage, SequenceTheorems, TLAPS

-----------------------------------------------------------------------------
(* The inductive invariant.                                                  *)

Arg == Token \cup {NoArg}
Term == [term : Tilde \cup {NoWord}, arg : Arg, neg : BOOLEAN]

N == Len(world.tokens)

\* Of the tokens before at, what was read.
NotAdvised(i) ==
  /\ world.tokens[i].word \in Operators /\ ~mayBeArg(i) /\ before(i) # Bang
  /\ ~world.tokens[i].bang

Advised(n) ==
  \A i \in 1 .. n : NotAdvised(i) =>
    \E j \in 1 .. Len(parsed) :
      parsed[j].term = NoWord /\ parsed[j].arg # NoArg /\ isWord(j, Operators)

ParseInv ==
  /\ parsed \in Seq(Term)
  /\ \A i \in 1 .. Len(parsed) :
        world.dialect = "message" /\ parsed[i].term = NoWord =>
          parsed[i].arg.bang \/ parsed[i].arg.word \notin Tilde
  /\ pc = "reading" =>
        /\ at \in 1 .. N + 1 /\ Len(parsed) < at
        /\ written(SubSeq(world.tokens, 1, at - 1)) = read
        /\ Advised(at - 1)
  /\ pc \notin {"reading", "refused"} =>
        /\ Len(parsed) <= N
        /\ written(world.tokens) \in {read, Append(read, Bang)}
        /\ Advised(N)

\* The terms are the parsed ones, first as written, then by cost.
TermsInv ==
  /\ terms \in Seq(Term)
  /\ pc = "reading" => terms = << >>
  /\ pc = "compiling" => /\ at \in 1 .. Len(parsed) + 1
                         /\ Len(terms) = at - 1
                         /\ \A i \in 1 .. at - 1 : terms[i] = parsed[i]
  /\ \A i \in 1 .. Len(terms) : \E j \in 1 .. Len(parsed) : terms[i] = parsed[j]
  /\ pc \notin {"reading", "compiling", "refused"} =>
        /\ Len(terms) = Len(parsed)
        /\ \A j \in 1 .. Len(parsed) : \E i \in 1 .. Len(terms) : terms[i] = parsed[j]
        /\ \A i, j \in 1 .. Len(terms) : i < j => cost(terms[i]) <= cost(terms[j])

\* Where the flow is, and what of it the view under test finds there.
Sees ==
  /\ view = "stored" => home # "unwritten" /\ ref = (home = "written")
  /\ view = "tail" => home \in {"unwritten", "inserted"}

ViewInv ==
  /\ world \in Worlds
  /\ pc \in {"reading", "compiling", "scanning", "matching", "counting", "tail",
             "answered", "refused"}
  /\ view \in {"none", "stored", "tail", "event", "frame"}
  /\ ref \in BOOLEAN /\ moved \in BOOLEAN
  /\ home \in {"unwritten", "inserted", "heldback", "written"}
  /\ pc \in {"scanning", "counting", "tail"} => world.source = "page"
  /\ pc \in {"reading", "compiling", "scanning"} => view = "none" /\ verdicts = << >>
  /\ pc = "counting" => world.tokens = << >>
  /\ pc = "matching" =>
        view \in CASE world.source = "page" -> {"stored", "tail"}
                   [] world.source = "stream" -> {"event"}
                   [] OTHER -> {"frame"}
  /\ pc = "matching" /\ ~moved => Sees
  /\ "stored" \in DOMAIN verdicts /\ ~moved => home # "unwritten"

\* What the terms before at said, and what they read.
Passed(t) == eval(t) # t.neg

MatchInv ==
  /\ at \in 1 .. N + 1
  /\ pc = "matching" =>
        /\ at <= Len(terms) + 1
        /\ \A j \in 1 .. at - 1 : cost(terms[j]) < 2 \/ ~moved => Passed(terms[j])
  /\ pc = "scanning" => at = 1
  /\ reads \subseteq (1 .. 2) \X Dirs
  /\ pc \in {"reading", "compiling", "scanning", "refused"} => reads = {}
  /\ \A r \in reads : \A j \in 1 .. Len(terms) : cost(terms[j]) < r[1] => Passed(terms[j])
  /\ \A v \in DOMAIN verdicts : verdicts[v] \in BOOLEAN
  /\ MatchIsConjunction

\* What the page counted so far.
Nothing == [matched |-> 0, hidden |-> 0]

PageInv ==
  /\ pc \in {"reading", "compiling", "scanning", "refused"} => page = Nothing
  /\ pc = "matching" /\ view # "tail" => page = Nothing
  /\ pc \in {"matching", "counting", "tail"} => page \in [matched : 0 .. 1, hidden : 0 .. 1]
  /\ page \in [matched : 0 .. 2, hidden : 0 .. 2]
  /\ pc = "matching" /\ ~moved /\ home = "unwritten" => page = Nothing
  /\ pc = "tail" /\ ~moved /\ home = "unwritten" => page = Nothing
  /\ pc = "tail" /\ ~moved /\ home \in {"heldback", "written"} => page = counted
  /\ FoundOrCounted

FilterInv == ParseInv /\ TermsInv /\ ViewInv /\ MatchInv /\ PageInv

-----------------------------------------------------------------------------
(* What parse read, spelled.                                                 *)

Sign == Token \cup {Bang}
AreSigns(c, k, s) == s \in Seq(Sign)
Writing == INSTANCE FoldFacts WITH Op <- LAMBDA c, s, t : s \o expand(t), Inv <- AreSigns
Reading == INSTANCE FoldFacts WITH Op <- LAMBDA c, s, p : s \o spelled(p), Inv <- AreSigns

\* Both spellings are folds.
LEMMA WrittenIsFold == \A toks : written(toks) = Writing!Fold(0, << >>, toks)
  BY DEF written, Writing!Fold, Writing!Top, FoldLeft, MapThenFoldSet, Max

LEMMA ReadIsFold == read = Reading!Fold(0, << >>, parsed)
  BY DEF read, Reading!Fold, Reading!Top, FoldLeft, MapThenFoldSet, Max

LEMMA ReadIsFoldNext == read' = Reading!Fold(0, << >>, parsed')
  BY DEF read, Reading!Fold, Reading!Top, FoldLeft, MapThenFoldSet, Max

LEMMA WrittenStays == world' = world => written(world.tokens)' = written(world.tokens)
  OBVIOUS

LEMMA ReadStays == parsed' = parsed => read' = read
  BY ReadIsFold, ReadIsFoldNext

\* A filter's world.
LEMMA WorldFacts ==
    ASSUME world \in Worlds
    PROVE  /\ \/ world.dialect = "flow" /\ world.source = "page"
              \/ world.dialect = "flow" /\ world.source = "stream"
              \/ world.dialect = "message" /\ world.source = "timeline"
           /\ world.tokens \in Seq(Token)
           /\ world.includeHidden \in BOOLEAN
           /\ rec.status \in BOOLEAN /\ rec.fav \in BOOLEAN
           /\ rec.dns \in BOOLEAN /\ rec.big \in BOOLEAN
  BY FilterAssumption DEF rec

\* A word, with a `!` or without.
LEMMA WordFacts ==
    /\ Bang # NoArg /\ Bang.bang /\ Bang.word = NoWord /\ NoArg \notin Token
    /\ \A t \in Token : t.bang \in BOOLEAN /\ t.word \in Words \cup {NoWord}
    /\ \A t \in Token : ~t.bang => (t = plain(t.word) /\ t.word \in Words)
    /\ \A t \in Token : t # Bang => (t.word \in Words /\ plain(t.word) \in Token)
    /\ \A w \in Words : w # NoWord /\ plain(w) \in Token /\ plain(w).word = w /\ ~plain(w).bang
<1>1. NoWord \notin Words
  BY FilterAssumption
<1>2. Bang # NoArg /\ Bang.bang /\ Bang.word = NoWord /\ NoArg \notin Token
  BY <1>1 DEF NoArg, plain, Bang, Token
<1>3. ASSUME NEW t \in Token PROVE t.bang \in BOOLEAN /\ t.word \in Words \cup {NoWord}
  <2>1. CASE t = Bang
    BY <1>2, <2>1
  <2>2. CASE t \in [bang : BOOLEAN, word : Words]
    BY <2>2
  <2> QED BY <2>1, <2>2 DEF Token
<1>4. \A t \in Token : ~t.bang => (t = plain(t.word) /\ t.word \in Words)
  BY DEF Token, Bang, plain
<1>5. \A w \in Words : w # NoWord /\ plain(w) \in Token /\ plain(w).word = w /\ ~plain(w).bang
  BY <1>1 DEF Token, plain
<1>6. \A t \in Token : t # Bang => (t.word \in Words /\ plain(t.word) \in Token)
  BY <1>5 DEF Token
<1> QED BY <1>2, <1>3, <1>4, <1>5, <1>6

\* The words of an expression, and N their number.
LEMMA TokenFacts ==
    ASSUME world \in Worlds
    PROVE  /\ world.tokens \in Seq(Token) /\ N = Len(world.tokens)
           /\ N \in Nat /\ DOMAIN world.tokens = 1 .. N
           /\ \A i \in 1 .. N : world.tokens[i] \in Token
  BY WorldFacts, LenProperties, ElementOfSeq DEF N

\* The terms have names.
LEMMA TermFacts ==
    ASSUME NEW p \in Term
    PROVE  /\ p.term \in Tilde \cup {NoWord} /\ (p.term # NoWord => p.term \in Words)
           /\ p.arg = NoArg \/ p.arg \in Token
           /\ p.neg \in BOOLEAN
  BY FilterAssumption DEF Term, Arg

\* A word is spelled by one token or two, a term by as many as it took.
LEMMA SpellingType ==
    /\ \A t \in Token : expand(t) \in Seq(Sign)
    /\ \A p \in Term : spelled(p) \in Seq(Sign)
<1>0. << >> \in Seq(Sign) /\ \A t, u \in Sign : <<t>> \in Seq(Sign) /\ <<t, u>> \in Seq(Sign)
  OBVIOUS
<1>1. ASSUME NEW t \in Token PROVE expand(t) \in Seq(Sign)
  <2>1. t \in Sign /\ Bang \in Sign /\ (t.bang /\ t # Bang => plain(t.word) \in Sign)
    BY WordFacts DEF Sign
  <2> QED BY <1>0, <2>1 DEF expand
<1>2. ASSUME NEW p \in Term PROVE spelled(p) \in Seq(Sign)
  <2> DEFINE a == IF p.neg THEN <<Bang>> ELSE << >>
             b == IF p.term = NoWord THEN << >> ELSE <<plain(p.term)>>
             c == IF p.arg = NoArg THEN << >> ELSE expand(p.arg)
  <2>1. a \in Seq(Sign)
    BY <1>0 DEF Sign
  <2>2. b \in Seq(Sign)
    BY <1>0, WordFacts, TermFacts DEF Sign
  <2>3. c \in Seq(Sign)
    BY <1>0, <1>1, TermFacts
  <2>4. spelled(p) = (a \o b) \o c
    BY DEF spelled
  <2> HIDE DEF a, b, c
  <2>5. a \o b \in Seq(Sign)
    BY <2>1, <2>2, ConcatProperties
  <2> QED BY <2>3, <2>4, <2>5, ConcatProperties
<1> QED BY <1>1, <1>2

\* What was read is spelled in tokens.
LEMMA ReadType ==
    ASSUME parsed \in Seq(Term)
    PROVE  read \in Seq(Sign)
<1>1. AreSigns(0, 0, << >>)
  BY EmptySeq DEF AreSigns
<1>2. \A k \in 1 .. Len(parsed) : \A s :
        AreSigns(0, k - 1, s) => AreSigns(0, k, s \o spelled(parsed[k]))
  BY SpellingType, ElementOfSeq, ConcatProperties DEF AreSigns
<1>3. AreSigns(0, Len(parsed), Reading!Fold(0, << >>, parsed))
  BY <1>1, <1>2, Reading!FoldKeeps
<1> QED BY <1>3, ReadIsFold DEF AreSigns

\* One term more.
LEMMA ReadMore ==
    ASSUME parsed \in Seq(Term), NEW p \in Term, parsed' = Append(parsed, p)
    PROVE  read' = read \o spelled(p)
<1>1. Reading!Fold(0, << >>, Append(parsed, p)) = Reading!Fold(0, << >>, parsed) \o spelled(p)
  BY Reading!FoldOfMore
<1> QED BY ONLY <1>1, ReadIsFold, ReadIsFoldNext, parsed' = Append(parsed, p)

\* One token more.
LEMMA WrittenMore ==
    ASSUME world \in Worlds
    PROVE  /\ written(SubSeq(world.tokens, 1, 0)) = << >>
           /\ SubSeq(world.tokens, 1, N) = world.tokens
           /\ \A k \in 1 .. N : written(SubSeq(world.tokens, 1, k))
                                 = written(SubSeq(world.tokens, 1, k - 1)) \o expand(world.tokens[k])
<1> DEFINE s == world.tokens
<1>1. s \in Seq(Token) /\ N = Len(s) /\ N \in Nat
  BY WorldFacts, TokenFacts DEF N
<1> HIDE DEF s
<1>2. /\ SubSeq(s, 1, 0) = << >> /\ SubSeq(s, 1, Len(s)) = s
      /\ \A k \in 0 .. Len(s) : SubSeq(s, 1, k) \in Seq(Token)
      /\ \A k \in 1 .. Len(s) :
            s[k] \in Token /\ SubSeq(s, 1, k) = Append(SubSeq(s, 1, k - 1), s[k])
  BY <1>1, Writing!Prefix
<1>3. written(<< >>) = << >>
  BY WrittenIsFold, Writing!FoldOfNone
<1>4. ASSUME NEW k \in 1 .. N
      PROVE  written(SubSeq(s, 1, k)) = written(SubSeq(s, 1, k - 1)) \o expand(s[k])
  <2> DEFINE q == SubSeq(s, 1, k - 1)
  <2>1. q \in Seq(Token) /\ s[k] \in Token /\ SubSeq(s, 1, k) = Append(q, s[k])
    BY <1>1, <1>2, <1>4
  <2> HIDE DEF q
  <2>2. Writing!Fold(0, << >>, Append(q, s[k])) = Writing!Fold(0, << >>, q) \o expand(s[k])
    BY <2>1, Writing!FoldOfMore
  <2>3. written(SubSeq(s, 1, k)) = written(q) \o expand(s[k])
    BY <2>1, <2>2, WrittenIsFold
  <2> QED BY <2>3 DEF q
<1> QED BY <1>1, <1>2, <1>3, <1>4 DEF s

-----------------------------------------------------------------------------
(* One term of the expression is read.                                       *)

ReadSoFar == written(SubSeq(world.tokens, 1, at - 1)) = read
sign == IF negation.neg THEN <<Bang>> ELSE << >>

\* How a term begins: the `!`, if there is one, and a word.
LEMMA Opening ==
    ASSUME world \in Worlds, at \in 1 .. N + 1, ~ended
    PROVE  /\ at \in 1 .. N /\ negation.pos \in 1 .. N
           /\ negation.neg \in BOOLEAN /\ subject \in Token
           /\ \/ /\ world.tokens[at] = Bang /\ negation.neg /\ negation.pos = at + 1
                 /\ subject = world.tokens[at + 1]
              \/ /\ world.tokens[at] # Bang /\ negation.neg = world.tokens[at].bang
                 /\ negation.pos = at /\ subject = plain(world.tokens[at].word)
                 /\ ~subject.bang /\ subject.word = world.tokens[at].word
<1>1. at \in 1 .. N /\ negation.pos <= N
  BY TokenFacts DEF ended, negation, N
<1> DEFINE t == world.tokens[at]
<1>2. t \in Token
  BY <1>1, TokenFacts
<1>3. CASE t = Bang
  <2>1. negation.neg /\ negation.pos = at + 1
    BY <1>3, WordFacts DEF negation
  <2>2. subject = world.tokens[at + 1]
    BY <1>3, <2>1 DEF subject
  <2> QED BY <1>1, <1>3, <2>1, <2>2, TokenFacts
<1>4. CASE t # Bang
  <2>1. negation.neg = t.bang /\ negation.pos = at
    BY <1>4 DEF negation
  <2>2. subject = plain(t.word)
    BY <1>4, <2>1 DEF subject
  <2> QED BY <1>1, <1>2, <1>4, <2>1, <2>2, WordFacts
<1> QED BY <1>3, <1>4

\* It is spelled as it was written.
LEMMA OpeningSpelled ==
    ASSUME world \in Worlds, at \in 1 .. N + 1, ~ended, parsed \in Seq(Term), ReadSoFar
    PROVE  written(SubSeq(world.tokens, 1, negation.pos)) = (read \o sign) \o expand(subject)
<1> DEFINE w(k) == written(SubSeq(world.tokens, 1, k))
           t == world.tokens[at]
<1>1. read \in Seq(Sign) /\ w(at - 1) = read
  BY ReadType DEF ReadSoFar
<1>2. /\ at \in 1 .. N /\ N \in Nat /\ t \in Token
      /\ \A k \in 1 .. N : w(k) = w(k - 1) \o expand(world.tokens[k])
  BY Opening, TokenFacts, WrittenMore
<1> HIDE DEF w
<1>3. w(at) = read \o expand(t)
  BY <1>1, <1>2
<1>4. CASE t = Bang
  <2>1. negation.neg /\ negation.pos = at + 1 /\ subject = world.tokens[at + 1] /\ at + 1 \in 1 .. N
    BY <1>4, Opening
  <2>2. w(at + 1) = w(at) \o expand(subject)
    <3>1. w(at + 1) = w((at + 1) - 1) \o expand(world.tokens[at + 1]) /\ (at + 1) - 1 = at
      BY <1>2, <2>1
    <3> QED BY <2>1, <3>1
  <2>3. expand(t) = <<Bang>> /\ sign = <<Bang>>
    BY <1>4, <2>1 DEF expand, sign
  <2> QED BY <1>3, <2>1, <2>2, <2>3 DEF w
<1>5. CASE t # Bang
  <2>1. negation.neg = t.bang /\ negation.pos = at /\ subject = plain(t.word) /\ ~subject.bang
    BY <1>5, Opening
  <2>2. expand(subject) = <<subject>> /\ subject \in Sign /\ Bang \in Sign
    BY <2>1, Opening DEF expand, Sign
  <2>3. CASE t.bang
    <3>1. expand(t) = <<Bang, subject>> /\ sign = <<Bang>>
      BY <1>5, <2>1, <2>3 DEF expand, sign
    <3>2. <<Bang>> \in Seq(Sign) /\ <<subject>> \in Seq(Sign)
      BY <2>2
    <3>3. <<Bang, subject>> = <<Bang>> \o <<subject>>
      OBVIOUS
    <3>4. read \o (<<Bang>> \o <<subject>>) = (read \o <<Bang>>) \o <<subject>>
      BY ONLY <1>1, <3>2, ConcatAssociative
    <3> QED BY <1>3, <2>1, <2>2, <3>1, <3>3, <3>4 DEF w
  <2>4. CASE ~t.bang
    <3>1. expand(t) = <<t>> /\ sign = << >> /\ t = subject
      BY <1>2, <1>5, <2>1, <2>4, WordFacts DEF expand, sign
    <3>2. read \o << >> = read
      BY <1>1, ConcatEmptySeq
    <3> QED BY <1>3, <2>1, <2>2, <3>1, <3>2 DEF w
  <2> QED BY <1>2, <2>3, <2>4, WordFacts
<1> QED BY <1>4, <1>5

\* What is asked does not change while it is answered.
LEMMA WorldStays ==
    ASSUME world' = world
    PROVE  /\ N' = N
           /\ \A i : NotAdvised(i)' <=> NotAdvised(i)
           /\ written(world.tokens)' = written(world.tokens)
           /\ \A k : written(SubSeq(world.tokens, 1, k))' = written(SubSeq(world.tokens, 1, k))
  BY DEF N, NotAdvised, mayBeArg, before, grammar

\* The term's advice.
Warns(p) == p.term = NoWord /\ p.arg # NoArg /\ ~p.arg.bang /\ p.arg.word \in Operators
Strict(p) ==
  world.dialect = "message" /\ p.term = NoWord => p.arg.bang \/ p.arg.word \notin Tilde

LEMMA Halves == \A a, b \in Int : \A i \in 1 .. b - 1 : i \in 1 .. a - 1 \/ i \in a .. b - 1
  OBVIOUS

LEMMA TermIsRead ==
    ASSUME ParseInv, world \in Worlds, pc = "reading", NEW p \in Term, Strict(p),
           world' = world, pc' = pc, parsed' = Append(parsed, p), at' \in at + 1 .. N + 1,
           written(SubSeq(world.tokens, 1, at' - 1)) = read \o spelled(p),
           \A i \in at .. at' - 1 : NotAdvised(i) => Warns(p)
    PROVE  ParseInv'
<1>1. /\ parsed \in Seq(Term) /\ Len(parsed) \in Nat /\ at \in 1 .. N + 1 /\ Len(parsed) < at
      /\ Advised(at - 1) /\ N \in Nat
      /\ \A i \in 1 .. Len(parsed) : Strict(parsed[i])
  BY LenProperties, TokenFacts DEF ParseInv, Strict
<1>2. /\ parsed' \in Seq(Term) /\ Len(parsed') = Len(parsed) + 1 /\ parsed'[Len(parsed) + 1] = p
      /\ \A i \in 1 .. Len(parsed) : parsed'[i] = parsed[i]
  BY <1>1, AppendProperties
<1>3. \A i \in 1 .. Len(parsed') : Strict(parsed'[i])
  BY <1>1, <1>2
<1>4. at' \in 1 .. N' + 1 /\ Len(parsed') < at'
  BY <1>1, <1>2, WorldStays
<1>5. written(SubSeq(world.tokens, 1, at - 1))' = read'
  <2>1. read' = read \o spelled(p)
    BY <1>1, ReadMore
  <2> QED BY <2>1
<1>6. Advised(at - 1)'
  <2> SUFFICES ASSUME NEW i \in 1 .. at' - 1, NotAdvised(i)
               PROVE  \E j \in 1 .. Len(parsed') : Warns(parsed'[j])
    BY WorldStays DEF Advised, Warns, isWord
  <2>1. CASE i \in 1 .. at - 1
    <3>1. \E j \in 1 .. Len(parsed) : Warns(parsed[j])
      BY <1>1, <2>1 DEF Advised, Warns, isWord
    <3> QED BY <1>1, <1>2, <3>1
  <2>2. CASE i \in at .. at' - 1
    <3>1. Warns(parsed'[Len(parsed) + 1])
      BY <1>2, <2>2
    <3>2. Len(parsed) + 1 \in 1 .. Len(parsed')
      BY <1>1, <1>2
    <3> QED BY <3>1, <3>2
  <2>3. i \in 1 .. at - 1 \/ i \in at .. at' - 1
    <3>1. at \in Int /\ at' \in Int
      BY ONLY <1>1, at' \in at + 1 .. N + 1
    <3> QED BY <3>1, Halves
  <2> QED BY <2>1, <2>2, <2>3
<1> QED BY <1>2, <1>3, <1>4, <1>5, <1>6 DEF ParseInv, Strict

LEMMA SignType == sign \in Seq(Sign)
<1>1. << >> \in Seq(Sign) /\ <<Bang>> \in Seq(Sign)
  BY DEF Sign
<1> QED BY <1>1 DEF sign

\* A grammar's terms begin with a tilde.
LEMMA GrammarFacts == grammar.args \subseteq Tilde /\ grammar.flags \subseteq Tilde
<1>1. "~fav" \in flowGrammar.flags
  BY DEF flowGrammar
<1>2. messageGrammar.flags \subseteq Tilde
  BY <1>1 DEF messageGrammar, Tilde
<1>3. /\ flowGrammar.args \subseteq Tilde /\ flowGrammar.flags \subseteq Tilde
      /\ messageGrammar.args \subseteq Tilde
  BY DEF Tilde
<1> QED BY <1>2, <1>3 DEF grammar

\* Terms are no words to search the URL for.
LEMMA TildeFacts == NoWord \notin Tilde /\ Operators \cap Tilde = {} /\ NoWord \notin Operators
                    /\ Tilde \subseteq Words
  BY FilterAssumption

Reads == Parse /\ pc = "reading" /\ world \in Worlds /\ ParseInv /\ ~ended

LEMMA ReadFlagKeeps ==
    ASSUME Reads, ReadFlag
    PROVE  ParseInv'
<1> DEFINE p == [term |-> subject.word, arg |-> NoArg, neg |-> negation.neg]
<1>1. /\ parsed \in Seq(Term) /\ at \in 1 .. N + 1 /\ N \in Nat /\ ReadSoFar
      /\ world' = world /\ world \in Worlds /\ ~ended
  BY TokenFacts DEF Reads, Parse, ParseInv, ReadSoFar
<1>2. ~subject.bang /\ subject.word \in Tilde
  BY GrammarFacts DEF ReadFlag, isFlag
<1>3. /\ at \in 1 .. N /\ negation.pos \in 1 .. N /\ negation.pos >= at /\ negation.neg \in BOOLEAN
      /\ subject \in Token /\ subject = plain(subject.word) /\ subject.word # NoWord
  BY <1>1, <1>2, Opening, WordFacts, TildeFacts
<1>4. p \in Term /\ parsed' = Append(parsed, p) /\ at' = negation.pos + 1 /\ pc' = pc
  BY <1>2, <1>3 DEF ReadFlag, Emit, Term, Arg
<1>5. written(SubSeq(world.tokens, 1, at' - 1)) = read \o spelled(p)
  <2>1. spelled(p) = (sign \o <<subject>>) \o << >>
    BY <1>3 DEF spelled, sign
  <2>2. expand(subject) = <<subject>>
    BY <1>2 DEF expand
  <2>3. sign \in Seq(Sign) /\ <<subject>> \in Seq(Sign) /\ read \in Seq(Sign)
    BY <1>1, <1>3, SignType, ReadType DEF Sign
  <2>4. sign \o <<subject>> \in Seq(Sign) /\ (sign \o <<subject>>) \o << >> = sign \o <<subject>>
    BY <2>3, ConcatProperties, ConcatEmptySeq
  <2>5. read \o (sign \o <<subject>>) = (read \o sign) \o <<subject>>
    BY <2>3, ConcatAssociative
  <2>6. at' - 1 = negation.pos
    BY <1>3, <1>4
  <2> QED BY <1>1, <2>1, <2>2, <2>4, <2>5, <2>6, OpeningSpelled
<1>6. ASSUME NEW i \in at .. at' - 1, NotAdvised(i) PROVE FALSE
  <2>1. i = at \/ (i = at + 1 /\ world.tokens[at] = Bang)
    <3>1. at' - 1 = at \/ (at' - 1 = at + 1 /\ world.tokens[at] = Bang)
      BY <1>1, <1>4, Opening
    <3>2. at \in Int /\ at' - 1 \in Int /\ i \in Int /\ at <= i /\ i <= at' - 1
      BY <1>3, <1>4
    <3> QED BY ONLY <3>1, <3>2
  <2>2. CASE i = at
    BY <1>1, <1>2, <1>6, <2>2, Opening, WordFacts, TildeFacts DEF NotAdvised
  <2>3. CASE i = at + 1 /\ world.tokens[at] = Bang
    BY <1>3, <1>6, <2>3 DEF NotAdvised, before
  <2> QED BY <2>1, <2>2, <2>3
<1>7. Strict(p) /\ at' \in at + 1 .. N + 1
  BY <1>1, <1>3, <1>4 DEF Strict
<1> HIDE DEF p
<1> QED BY <1>1, <1>4, <1>5, <1>6, <1>7, TermIsRead DEF Reads

LEMMA ReadTermKeeps ==
    ASSUME Reads, ReadTerm
    PROVE  ParseInv'
<1> DEFINE arg == world.tokens[negation.pos + 1]
           p == [term |-> subject.word, arg |-> arg, neg |-> negation.neg]
<1>1. /\ parsed \in Seq(Term) /\ at \in 1 .. N + 1 /\ N \in Nat /\ ReadSoFar
      /\ world' = world /\ world \in Worlds /\ ~ended
  BY TokenFacts DEF Reads, Parse, ParseInv, ReadSoFar
<1>2. ~subject.bang /\ subject.word \in grammar.args /\ subject.word \in Tilde /\ negation.pos < N
  BY GrammarFacts DEF ReadTerm, takesArg, N
<1>3. /\ at \in 1 .. N /\ negation.pos \in 1 .. N /\ negation.pos >= at /\ negation.neg \in BOOLEAN
      /\ subject \in Token /\ subject = plain(subject.word) /\ subject.word # NoWord
  BY <1>1, <1>2, Opening, WordFacts, TildeFacts
<1>4. negation.pos + 1 \in 1 .. N /\ arg \in Token /\ arg # NoArg
  BY <1>1, <1>2, <1>3, TokenFacts, WordFacts
<1>5. p \in Term /\ parsed' = Append(parsed, p) /\ at' = negation.pos + 2 /\ pc' = pc
  BY <1>2, <1>3, <1>4 DEF ReadTerm, Emit, Term, Arg
<1>6. written(SubSeq(world.tokens, 1, at' - 1)) = read \o spelled(p)
  <2>1. spelled(p) = (sign \o <<subject>>) \o expand(arg)
    BY <1>3, <1>4 DEF spelled, sign
  <2>2. expand(subject) = <<subject>>
    BY <1>2 DEF expand
  <2>3. sign \in Seq(Sign) /\ <<subject>> \in Seq(Sign) /\ read \in Seq(Sign) /\ expand(arg) \in Seq(Sign)
    BY <1>1, <1>3, <1>4, SignType, ReadType, SpellingType DEF Sign
  <2>4. sign \o <<subject>> \in Seq(Sign)
    BY <2>3, ConcatProperties
  <2>5. read \o (sign \o <<subject>>) = (read \o sign) \o <<subject>>
    BY <2>3, ConcatAssociative
  <2>6. read \o ((sign \o <<subject>>) \o expand(arg)) = (read \o (sign \o <<subject>>)) \o expand(arg)
    BY <2>3, <2>4, ConcatAssociative
  <2>7. at' - 1 = negation.pos + 1 /\ (negation.pos + 1) - 1 = negation.pos
    BY <1>3, <1>5
  <2>8. written(SubSeq(world.tokens, 1, negation.pos + 1))
           = written(SubSeq(world.tokens, 1, (negation.pos + 1) - 1)) \o expand(arg)
    BY <1>1, <1>4, WrittenMore
  <2> HIDE DEF arg
  <2> QED BY <1>1, <2>1, <2>2, <2>5, <2>6, <2>7, <2>8, OpeningSpelled
<1>7. ASSUME NEW i \in at .. at' - 1, NotAdvised(i) PROVE FALSE
  <2>1. i = at \/ (i = at + 1 /\ world.tokens[at] = Bang) \/ i = negation.pos + 1
    <3>1. negation.pos = at \/ (negation.pos = at + 1 /\ world.tokens[at] = Bang)
      BY <1>1, Opening
    <3>2. /\ at \in Int /\ i \in Int /\ at <= i /\ i <= negation.pos + 1
          /\ negation.pos \in Int
      BY <1>3, <1>5
    <3> QED BY ONLY <3>1, <3>2
  <2>2. CASE i = at
    BY <1>1, <1>2, <1>7, <2>2, Opening, WordFacts, TildeFacts DEF NotAdvised
  <2>3. CASE i = at + 1 /\ world.tokens[at] = Bang
    BY <1>3, <1>7, <2>3 DEF NotAdvised, before
  <2>4. CASE i = negation.pos + 1
    <3>1. before(i).word = subject.word
      <4>1. before(i) = world.tokens[negation.pos]
        BY <1>3, <2>4 DEF before
      <4>2. world.tokens[negation.pos].word = subject.word
        BY <1>1, Opening
      <4> QED BY <4>1, <4>2
    <3> QED BY <1>2, <1>7, <3>1 DEF NotAdvised, mayBeArg
  <2> QED BY <2>1, <2>2, <2>3, <2>4
<1>8. Strict(p) /\ at' \in at + 1 .. N + 1
  BY <1>1, <1>2, <1>3, <1>5 DEF Strict
<1> HIDE DEF p
<1> QED BY <1>1, <1>5, <1>6, <1>7, <1>8, TermIsRead DEF Reads

LEMMA ReadBareKeeps ==
    ASSUME Reads, ReadBare
    PROVE  ParseInv'
<1> DEFINE p == [term |-> NoWord, arg |-> subject, neg |-> negation.neg]
<1>1. /\ parsed \in Seq(Term) /\ at \in 1 .. N + 1 /\ N \in Nat /\ ReadSoFar
      /\ world' = world /\ world \in Worlds /\ ~ended
  BY TokenFacts DEF Reads, Parse, ParseInv, ReadSoFar
<1>2. /\ at \in 1 .. N /\ negation.pos \in 1 .. N /\ negation.pos >= at /\ negation.neg \in BOOLEAN
      /\ subject \in Token /\ subject # NoArg
  BY <1>1, Opening, WordFacts
<1>3. p \in Term /\ parsed' = Append(parsed, p) /\ at' = negation.pos + 1 /\ pc' = pc
  BY <1>2 DEF ReadBare, Emit, Term, Arg
<1>4. written(SubSeq(world.tokens, 1, at' - 1)) = read \o spelled(p)
  <2>1. spelled(p) = (sign \o << >>) \o expand(subject)
    BY <1>2 DEF spelled, sign
  <2>2. sign \in Seq(Sign) /\ read \in Seq(Sign) /\ expand(subject) \in Seq(Sign)
    BY <1>1, <1>2, SignType, ReadType, SpellingType
  <2>3. sign \o << >> = sign
    BY <2>2, ConcatEmptySeq
  <2>4. read \o (sign \o expand(subject)) = (read \o sign) \o expand(subject)
    BY <2>2, ConcatAssociative, SMTT(30)
  <2>5. at' - 1 = negation.pos
    BY <1>2, <1>3
  <2> QED BY <1>1, <2>1, <2>3, <2>4, <2>5, OpeningSpelled
<1>5. ASSUME NEW i \in at .. at' - 1, NotAdvised(i) PROVE Warns(p)
  <2>1. i = at \/ (i = at + 1 /\ world.tokens[at] = Bang)
    <3>1. at' - 1 = at \/ (at' - 1 = at + 1 /\ world.tokens[at] = Bang)
      BY <1>1, <1>3, Opening
    <3>2. at \in Int /\ at' - 1 \in Int /\ i \in Int /\ at <= i /\ i <= at' - 1
      BY <1>2, <1>3
    <3> QED BY ONLY <3>1, <3>2
  <2>2. CASE i = at
    <3>1. world.tokens[at].word \in Operators /\ world.tokens[at] # Bang
      BY <1>5, <2>2, WordFacts, TildeFacts DEF NotAdvised
    <3>2. ~subject.bang /\ subject.word = world.tokens[at].word
      BY <1>1, <3>1, Opening
    <3> QED BY <1>2, <3>1, <3>2 DEF Warns
  <2>3. CASE i = at + 1 /\ world.tokens[at] = Bang
    BY <1>2, <1>5, <2>3 DEF NotAdvised, before
  <2> QED BY <2>1, <2>2, <2>3
<1>6. Strict(p)
  BY DEF Strict, ReadBare, isUnknown, grammar, messageGrammar
<1>7. at' \in at + 1 .. N + 1
  BY <1>1, <1>2, <1>3
<1> HIDE DEF p
<1> QED BY <1>1, <1>3, <1>4, <1>5, <1>6, <1>7, TermIsRead DEF Reads

\* The end: nothing is left, or a `!` that negates nothing.
LEMMA ReadEndKeeps ==
    ASSUME ParseInv, pc = "reading", world \in Worlds, ReadEnd, world' = world
    PROVE  ParseInv'
<1>1. /\ parsed \in Seq(Term) /\ Len(parsed) \in Nat /\ at \in 1 .. N + 1 /\ N \in Nat
      /\ Len(parsed) < at /\ ReadSoFar /\ Advised(at - 1)
      /\ \A i \in 1 .. Len(parsed) : Strict(parsed[i])
  BY TokenFacts, LenProperties DEF ParseInv, ReadSoFar, Strict
<1>2. pc' = "compiling" /\ parsed' = parsed /\ ended
  BY DEF ReadEnd
<1>3. Len(parsed) <= N /\ written(world.tokens) \in {read, Append(read, Bang)} /\ Advised(N)
  <2>1. CASE at > N
    <3>1. at = N + 1 /\ at - 1 = N
      BY <1>1, <2>1
    <3>2. written(world.tokens) = read
      BY <1>1, <3>1, WrittenMore DEF ReadSoFar
    <3>3. Len(parsed) <= N /\ Advised(N)
      BY <1>1, <3>1
    <3> QED BY <3>2, <3>3
  <2>2. CASE ~(at > N)
    <3>1. at \in 1 .. N /\ negation.pos > N
      BY <1>1, <1>2, <2>2 DEF ended, N
    <3>2. at = N /\ world.tokens[at] = Bang
      BY <1>1, <3>1 DEF negation
    <3>3. written(world.tokens) = Append(read, Bang)
      <4>1. written(SubSeq(world.tokens, 1, N)) = written(SubSeq(world.tokens, 1, N - 1)) \o expand(Bang)
        BY <3>1, <3>2, WrittenMore
      <4>2. expand(Bang) = <<Bang>>
        BY DEF expand
      <4>3. read \o <<Bang>> = Append(read, Bang)
        <5>1. read \in Seq(Sign) /\ Bang \in Sign
          BY <1>1, ReadType DEF Sign
        <5> QED BY <5>1, AppendIsConcat
      <4> QED BY <1>1, <3>2, <4>1, <4>2, <4>3, WrittenMore DEF ReadSoFar
    <3>4. Advised(N)
      <4>1. ~NotAdvised(N)
        BY <3>2, WordFacts, TildeFacts DEF NotAdvised
      <4>2. \A i \in 1 .. N : i \in 1 .. N - 1 \/ i = N
        BY <1>1
      <4> QED BY <1>1, <3>2, <4>1, <4>2 DEF Advised
    <3>5. Len(parsed) <= N
      BY <1>1, <3>2
    <3> QED BY <3>3, <3>4, <3>5
  <2> QED BY <2>1, <2>2
<1>4. read' = read /\ N' = N /\ written(world.tokens)' = written(world.tokens)
  BY <1>2, ReadStays, WorldStays
<1>5. Advised(N)'
  BY <1>2, <1>3, <1>4, WorldStays DEF Advised, isWord
<1>6. \A i \in 1 .. Len(parsed') : Strict(parsed'[i])
  BY <1>1, <1>2
<1> QED BY <1>1, <1>2, <1>3, <1>4, <1>5, <1>6 DEF ParseInv, Strict

\* Of a refused expression nothing is asked.
LEMMA RefusedKeeps ==
    ASSUME ParseInv, world' = world, parsed' = parsed, pc' = "refused"
    PROVE  ParseInv'
  BY DEF ParseInv

\* What was read stays.
LEMMA ParsedStays ==
    ASSUME ParseInv, world' = world, parsed' = parsed, pc \notin {"reading", "refused"},
           pc' # "reading"
    PROVE  ParseInv'
<1>1. read' = read /\ N' = N /\ written(world.tokens)' = written(world.tokens)
  BY ReadStays, WorldStays
<1>2. Advised(N) => Advised(N)'
  BY <1>1, WorldStays DEF Advised, isWord
<1> QED BY <1>1, <1>2 DEF ParseInv

LEMMA ParseKeeps ==
    ASSUME ParseInv, world \in Worlds, [Next]_vars
    PROVE  ParseInv'
<1>1. CASE Parse
  <2>1. world' = world /\ pc = "reading"
    BY <1>1 DEF Parse
  <2>2. CASE ReadEnd
    BY <2>1, <2>2, ReadEndKeeps
  <2>3. CASE ~ended /\ (ReadFlag \/ ReadTerm \/ ReadBare)
    BY <1>1, <2>1, <2>3, ReadFlagKeeps, ReadTermKeeps, ReadBareKeeps DEF Reads
  <2>4. CASE MissesArg \/ RefuseUnknown
    BY <2>1, <2>4, RefusedKeeps DEF MissesArg, RefuseUnknown, Refuse
  <2> QED BY <1>1, <2>2, <2>3, <2>4 DEF Parse
<1>2. CASE CompileTerm \/ Sort \/ Scan \/ Test \/ Count \/ mergeUnflushed
  <2>1. world' = world /\ parsed' = parsed /\ pc \notin {"reading", "refused"} /\ pc' # "reading"
    BY <1>2 DEF CompileTerm, Sort, Scan, Test, Count, mergeUnflushed, Conclude, afterwards
  <2> QED BY <2>1, ParsedStays
<1>3. CASE Flush \/ UNCHANGED vars
  <2>1. world' = world /\ parsed' = parsed /\ pc' = pc /\ at' = at
    BY <1>3 DEF Flush, query, vars
  <2>2. CASE pc = "refused"
    BY <2>1, <2>2, RefusedKeeps
  <2>3. CASE pc \notin {"reading", "refused"}
    BY <2>1, <2>3, ParsedStays
  <2>4. CASE pc = "reading"
    <3>1. read' = read /\ N' = N
      BY <2>1, ReadStays, WorldStays
    <3>2. written(SubSeq(world.tokens, 1, at - 1))' = written(SubSeq(world.tokens, 1, at - 1))
      BY <2>1
    <3>3. Advised(at - 1) => Advised(at - 1)'
      BY <2>1, WorldStays DEF Advised, isWord
    <3> QED BY <2>1, <2>4, <3>1, <3>2, <3>3 DEF ParseInv
  <2> QED BY <2>2, <2>3, <2>4
<1> QED BY <1>1, <1>2, <1>3 DEF Next

-----------------------------------------------------------------------------
(* The terms by cost.                                                        *)

costIn(dialect, t) ==
  CASE dialect = "flow" /\ t.term \in headerTerms -> 1
    [] dialect = "flow" /\ t.term \in bodyTerms -> 2
    [] dialect = "message" /\ t.term \in {"~b", NoWord} -> 2
    [] OTHER -> 0

Tiers == [0 .. 2 -> Seq(Term)]
Put(c, ts, t) == [ts EXCEPT ![costIn(c.dialect, t)] = Append(@, t)]

\* Of the first k terms each is in the tier of its cost, and none else is there.
InTiers(c, k, ts) ==
  /\ ts \in Tiers
  /\ Len(ts[0]) + Len(ts[1]) + Len(ts[2]) = k
  /\ \A n \in 0 .. 2 : \A i \in 1 .. Len(ts[n]) :
        costIn(c.dialect, ts[n][i]) = n /\ \E j \in 1 .. k : ts[n][i] = c.terms[j]
  /\ \A j \in 1 .. k : \E n \in 0 .. 2 : \E i \in 1 .. Len(ts[n]) : ts[n][i] = c.terms[j]
Sorting == INSTANCE FoldFacts WITH Op <- Put, Inv <- InTiers

LEMMA CostType ==
    /\ \A t : cost(t) = costIn(world.dialect, t) /\ cost(t) \in 0 .. 2
    /\ \A d, t : costIn(d, t) \in 0 .. 2
<1>1. \A t : cost(t) = costIn(world.dialect, t)
  BY DEF cost, costIn
<1>2. \A d, t : costIn(d, t) \in 0 .. 2
  BY DEF costIn
<1> QED BY <1>1, <1>2

LEMMA TiersAreFold ==
    ASSUME NEW c, c.dialect = world.dialect
    PROVE  tiers = Sorting!Fold(c, [n \in 0 .. 2 |-> << >>], terms)
  BY DEF tiers, cost, costIn, Put, Sorting!Fold, Sorting!Top, FoldLeft, MapThenFoldSet, Max

LEMMA OneMore ==
    \A k, a, b, e \in Int : a + b + e = k - 1 =>
      /\ (a + 1) + b + e = k
      /\ a + (b + 1) + e = k
      /\ a + b + (e + 1) = k
  OBVIOUS

\* One term more in its tier.
LEMMA PutSorts ==
    ASSUME NEW c, c.terms \in Seq(Term), NEW k \in 1 .. Len(c.terms), NEW ts, InTiers(c, k - 1, ts)
    PROVE  InTiers(c, k, Put(c, ts, c.terms[k]))
<1> DEFINE t == c.terms[k]
           m == costIn(c.dialect, t)
           us == Put(c, ts, t)
<1>1. k \in Nat /\ k - 1 \in Nat /\ t \in Term /\ m \in 0 .. 2
  BY LenProperties, ElementOfSeq, CostType
<1>2. ts \in Tiers /\ ts[m] \in Seq(Term)
  BY <1>1 DEF InTiers, Tiers
<1>3. us = [ts EXCEPT ![m] = Append(ts[m], t)]
  BY <1>1, <1>2 DEF Put
<1> HIDE DEF us, m
<1>4. /\ Append(ts[m], t) \in Seq(Term) /\ Len(Append(ts[m], t)) = Len(ts[m]) + 1 /\ Len(ts[m]) \in Nat
      /\ Append(ts[m], t)[Len(ts[m]) + 1] = t
      /\ \A i \in 1 .. Len(ts[m]) : Append(ts[m], t)[i] = ts[m][i]
  BY <1>1, <1>2, AppendProperties, LenProperties
<1>5. us \in Tiers /\ us[m] = Append(ts[m], t) /\ \A n \in 0 .. 2 : n # m => us[n] = ts[n]
  BY <1>1, <1>2, <1>3, <1>4 DEF Tiers
<1>6. \A n \in 0 .. 2 : /\ ts[n] \in Seq(Term) /\ Len(ts[n]) \in Nat
                        /\ Len(us[n]) = IF n = m THEN Len(ts[n]) + 1 ELSE Len(ts[n])
                        /\ \A i \in 1 .. Len(ts[n]) : us[n][i] = ts[n][i]
  BY <1>2, <1>4, <1>5, LenProperties DEF Tiers
<1>7. us[m][Len(ts[m]) + 1] = t /\ Len(ts[m]) + 1 \in 1 .. Len(us[m])
  BY <1>1, <1>4, <1>5, <1>6
<1>8. Len(us[0]) + Len(us[1]) + Len(us[2]) = k
  <2>1. Len(ts[0]) + Len(ts[1]) + Len(ts[2]) = k - 1
    BY DEF InTiers
  <2>2. m = 0 \/ m = 1 \/ m = 2
    BY <1>1
  <2>3. PICK a, b, e \in Int : a = Len(ts[0]) /\ b = Len(ts[1]) /\ e = Len(ts[2])
    <3>1. Len(ts[0]) \in Int /\ Len(ts[1]) \in Int /\ Len(ts[2]) \in Int
      BY <1>6
    <3> QED BY <3>1
  <2>4. (a + 1) + b + e = k /\ a + (b + 1) + e = k /\ a + b + (e + 1) = k
    <3>1. k \in Int
      BY <1>1
    <3>2. a + b + e = Len(ts[0]) + Len(ts[1]) + Len(ts[2])
      BY <2>3, Zenon
    <3>3. a + b + e = k - 1
      BY <2>1, <3>2, Zenon
    <3> QED BY ONLY <3>1, <3>3, OneMore, a \in Int, b \in Int, e \in Int
  <2>5. CASE m = 0
    <3>1. Len(us[0]) = a + 1 /\ Len(us[1]) = b /\ Len(us[2]) = e
      BY <1>6, <2>3, <2>5
    <3> QED BY <2>4, <3>1
  <2>6. CASE m = 1
    <3>1. Len(us[0]) = a /\ Len(us[1]) = b + 1 /\ Len(us[2]) = e
      BY <1>6, <2>3, <2>6
    <3> QED BY <2>4, <3>1
  <2>7. CASE m = 2
    <3>1. Len(us[0]) = a /\ Len(us[1]) = b /\ Len(us[2]) = e + 1
      BY <1>6, <2>3, <2>7
    <3> QED BY <2>4, <3>1
  <2> QED BY <2>2, <2>5, <2>6, <2>7
<1>9. ASSUME NEW n \in 0 .. 2, NEW i \in 1 .. Len(us[n])
      PROVE  costIn(c.dialect, us[n][i]) = n /\ \E j \in 1 .. k : us[n][i] = c.terms[j]
  <2>1. i \in 1 .. Len(ts[n]) \/ (n = m /\ i = Len(ts[m]) + 1)
    <3>1. Len(ts[n]) \in Nat /\ Len(us[n]) = IF n = m THEN Len(ts[n]) + 1 ELSE Len(ts[n])
      BY <1>6
    <3> QED BY <3>1
  <2>2. CASE i \in 1 .. Len(ts[n])
    <3>1. us[n][i] = ts[n][i]
      BY <1>6, <2>2
    <3>2. costIn(c.dialect, ts[n][i]) = n /\ \E j \in 1 .. k - 1 : ts[n][i] = c.terms[j]
      BY <2>2 DEF InTiers
    <3>3. \A j \in 1 .. k - 1 : j \in 1 .. k
      BY <1>1
    <3> QED BY <3>1, <3>2, <3>3
  <2>3. CASE n = m /\ i = Len(ts[m]) + 1
    BY <1>1, <1>7, <2>3 DEF m
  <2> QED BY <2>1, <2>2, <2>3
<1>10. ASSUME NEW j \in 1 .. k
       PROVE  \E n \in 0 .. 2 : \E i \in 1 .. Len(us[n]) : us[n][i] = c.terms[j]
  <2>1. j \in 1 .. k - 1 \/ j = k
    BY <1>1
  <2>2. CASE j \in 1 .. k - 1
    <3>1. PICK n \in 0 .. 2 : \E i \in 1 .. Len(ts[n]) : ts[n][i] = c.terms[j]
      BY <2>2 DEF InTiers
    <3>2. PICK i \in 1 .. Len(ts[n]) : ts[n][i] = c.terms[j]
      BY <3>1
    <3>3. /\ Len(ts[n]) \in Nat /\ us[n][i] = ts[n][i]
          /\ Len(us[n]) = IF n = m THEN Len(ts[n]) + 1 ELSE Len(ts[n])
      BY <1>6
    <3>4. us[n][i] = c.terms[j] /\ i \in 1 .. Len(us[n])
      BY <3>2, <3>3
    <3> QED BY <3>4
  <2>3. CASE j = k
    BY <1>1, <1>7, <2>3
  <2> QED BY <2>1, <2>2, <2>3
<1> QED BY <1>5, <1>8, <1>9, <1>10 DEF InTiers, us

\* Three sequences joined: where each element is.
Joins(v, x, y, z, S) ==
  /\ v \in Seq(S) /\ Len(v) = Len(x) + Len(y) + Len(z)
  /\ Len(x) \in Nat /\ Len(y) \in Nat /\ Len(z) \in Nat
  /\ \A i \in 1 .. Len(x) : v[i] = x[i]
  /\ \A i \in 1 .. Len(y) : v[Len(x) + i] = y[i]
  /\ \A i \in 1 .. Len(z) : v[Len(x) + Len(y) + i] = z[i]

LEMMA Joined3 ==
    ASSUME NEW S, NEW x \in Seq(S), NEW y \in Seq(S), NEW z \in Seq(S)
    PROVE  Joins(x \o y \o z, x, y, z, S)
<1> DEFINE w == x \o y
<1>1. /\ w \in Seq(S) /\ Len(w) = Len(x) + Len(y)
      /\ \A i \in 1 .. Len(x) + Len(y) : w[i] = IF i <= Len(x) THEN x[i] ELSE y[i - Len(x)]
  BY ConcatProperties
<1>2. Len(x) \in Nat /\ Len(y) \in Nat /\ Len(z) \in Nat
  BY LenProperties
<1> DEFINE v == w \o z
<1> HIDE DEF w
<1>3. /\ v \in Seq(S) /\ Len(v) = Len(w) + Len(z)
      /\ \A i \in 1 .. Len(w) + Len(z) : v[i] = IF i <= Len(w) THEN w[i] ELSE z[i - Len(w)]
  <2>1. w \in Seq(S)
    BY <1>1
  <2> QED BY ONLY <2>1, z \in Seq(S), ConcatProperties
<1> HIDE DEF v
<1>4. ASSUME NEW i \in 1 .. Len(x) PROVE v[i] = x[i]
  <2>1. i \in 1 .. Len(w) + Len(z) /\ i <= Len(w) /\ i \in 1 .. Len(x) + Len(y) /\ i <= Len(x)
    BY <1>1, <1>2
  <2> QED BY <1>1, <1>3, <2>1
<1>5. ASSUME NEW i \in 1 .. Len(y) PROVE v[Len(x) + i] = y[i]
  <2> DEFINE m == Len(x) + i
  <2>1. /\ m \in 1 .. Len(w) + Len(z) /\ m <= Len(w) /\ m \in 1 .. Len(x) + Len(y)
        /\ ~(m <= Len(x)) /\ m - Len(x) = i
    BY <1>1, <1>2
  <2> HIDE DEF m
  <2>2. v[m] = w[m] /\ w[m] = y[m - Len(x)]
    BY <1>1, <1>3, <2>1
  <2> QED BY <2>1, <2>2 DEF m
<1>6. ASSUME NEW i \in 1 .. Len(z) PROVE v[Len(x) + Len(y) + i] = z[i]
  <2> DEFINE m == Len(x) + Len(y) + i
  <2>1. m \in 1 .. Len(w) + Len(z) /\ ~(m <= Len(w)) /\ m - Len(w) = i
    BY <1>1, <1>2
  <2> HIDE DEF m
  <2>2. v[m] = z[m - Len(w)]
    BY <1>3, <2>1
  <2> QED BY <2>1, <2>2 DEF m
<1>7. Len(v) = Len(x) + Len(y) + Len(z)
  BY <1>1, <1>3
<1>8. Joins(v, x, y, z, S)
  BY ONLY <1>2, <1>3, <1>4, <1>5, <1>6, <1>7 DEF Joins
<1> QED BY <1>8 DEF v, w

\* An index of three sequences joined is one of the first, the second or the third.
LEMMA Index3 ==
    \A a, b, e \in Nat : \A i \in 1 .. a + b + e :
      \/ i \in 1 .. a
      \/ \E j \in 1 .. b : i = a + j
      \/ \E j \in 1 .. e : i = a + b + j
<1> TAKE a, b, e \in Nat
<1> TAKE i \in 1 .. a + b + e
<1>1. i <= a \/ (i - a \in 1 .. b /\ i = a + (i - a)) \/ (i - a - b \in 1 .. e /\ i = a + b + (i - a - b))
  OBVIOUS
<1> QED BY <1>1

\* Sorting loses no term, adds none and orders them.
LEMMA ByCostSorts ==
    ASSUME terms \in Seq(Term)
    PROVE  /\ byCost \in Seq(Term) /\ Len(byCost) = Len(terms)
           /\ \A i \in 1 .. Len(byCost) : \E j \in 1 .. Len(terms) : byCost[i] = terms[j]
           /\ \A j \in 1 .. Len(terms) : \E i \in 1 .. Len(byCost) : byCost[i] = terms[j]
           /\ \A i, j \in 1 .. Len(byCost) : i < j => cost(byCost[i]) <= cost(byCost[j])
<1> DEFINE c == [dialect |-> world.dialect, terms |-> terms]
           base == [n \in 0 .. 2 |-> << >>]
<1>1. c.dialect = world.dialect /\ c.terms = terms
  OBVIOUS
<1> HIDE DEF c
<1>2. InTiers(c, 0, base)
  <2>1. << >> \in Seq(Term) /\ Len(<< >>) = 0
    BY EmptySeq
  <2> QED BY <2>1 DEF InTiers, Tiers
<1>3. InTiers(c, Len(terms), tiers)
  <2> HIDE DEF base
  <2>1. \A k \in 1 .. Len(terms) : \A ts : InTiers(c, k - 1, ts) => InTiers(c, k, Put(c, ts, terms[k]))
    BY <1>1, PutSorts
  <2>2. InTiers(c, Len(terms), Sorting!Fold(c, base, terms))
    BY <1>2, <2>1, Sorting!FoldKeeps
  <2> QED BY <1>1, <2>2, TiersAreFold DEF base
<1> DEFINE x == tiers[0]
           y == tiers[1]
           z == tiers[2]
           k == Len(terms)
<1>4. /\ x \in Seq(Term) /\ y \in Seq(Term) /\ z \in Seq(Term)
      /\ Len(x) + Len(y) + Len(z) = k
  BY <1>3 DEF InTiers, Tiers
<1>5. /\ \A i \in 1 .. Len(x) : cost(x[i]) = 0 /\ \E j \in 1 .. k : x[i] = terms[j]
      /\ \A i \in 1 .. Len(y) : cost(y[i]) = 1 /\ \E j \in 1 .. k : y[i] = terms[j]
      /\ \A i \in 1 .. Len(z) : cost(z[i]) = 2 /\ \E j \in 1 .. k : z[i] = terms[j]
  <2>1. \A n \in 0 .. 2 : \A i \in 1 .. Len(tiers[n]) :
          cost(tiers[n][i]) = n /\ \E j \in 1 .. k : tiers[n][i] = terms[j]
    BY <1>1, <1>3, CostType DEF InTiers
  <2> HIDE DEF k
  <2> QED BY <2>1
<1>6. \A j \in 1 .. k : \/ \E i \in 1 .. Len(x) : x[i] = terms[j]
                        \/ \E i \in 1 .. Len(y) : y[i] = terms[j]
                        \/ \E i \in 1 .. Len(z) : z[i] = terms[j]
  <2> TAKE j \in 1 .. k
  <2>1. \E n \in 0 .. 2 : \E i \in 1 .. Len(tiers[n]) : tiers[n][i] = terms[j]
    BY <1>1, <1>3 DEF InTiers
  <2> HIDE DEF k
  <2>2. PICK n \in 0 .. 2 : \E i \in 1 .. Len(tiers[n]) : tiers[n][i] = terms[j]
    BY <2>1
  <2>3. n = 0 \/ n = 1 \/ n = 2
    OBVIOUS
  <2> QED BY ONLY <2>2, <2>3
<1> DEFINE s == x \o y \o z
<1>7. byCost = s
  BY DEF byCost
<1> HIDE DEF x, y, z
<1>8. /\ s \in Seq(Term) /\ Len(s) = k /\ Len(x) \in Nat /\ Len(y) \in Nat /\ Len(z) \in Nat
      /\ \A i \in 1 .. Len(x) : s[i] = x[i]
      /\ \A i \in 1 .. Len(y) : s[Len(x) + i] = y[i]
      /\ \A i \in 1 .. Len(z) : s[Len(x) + Len(y) + i] = z[i]
  <2>1. Joins(s, x, y, z, Term)
    BY <1>4, Joined3
  <2> HIDE DEF s
  <2> QED BY <1>4, <2>1 DEF Joins
<1> HIDE DEF s, k
<1>9. \A i \in 1 .. k : \/ i \in 1 .. Len(x)
                        \/ \E j \in 1 .. Len(y) : i = Len(x) + j
                        \/ \E j \in 1 .. Len(z) : i = Len(x) + Len(y) + j
  <2>1. Len(x) \in Nat /\ Len(y) \in Nat /\ Len(z) \in Nat /\ k = Len(x) + Len(y) + Len(z)
    BY <1>4, <1>8
  <2> QED BY ONLY <2>1, Index3
<1>10. \A i \in 1 .. k : \E j \in 1 .. k : s[i] = terms[j]
  <2> TAKE i \in 1 .. k
  <2>1. CASE i \in 1 .. Len(x)
    BY <1>5, <1>8, <2>1
  <2>2. CASE \E j \in 1 .. Len(y) : i = Len(x) + j
    BY <1>5, <1>8, <2>2
  <2>3. CASE \E j \in 1 .. Len(z) : i = Len(x) + Len(y) + j
    BY <1>5, <1>8, <2>3
  <2> QED BY <1>9, <2>1, <2>2, <2>3
<1>11. \A j \in 1 .. k : \E i \in 1 .. k : s[i] = terms[j]
  <2> TAKE j \in 1 .. k
  <2>1. CASE \E i \in 1 .. Len(x) : x[i] = terms[j]
    <3>1. PICK i \in 1 .. Len(x) : x[i] = terms[j]
      BY <2>1
    <3>2. i \in 1 .. k /\ s[i] = terms[j]
      BY <1>4, <1>8, <3>1
    <3> QED BY <3>2
  <2>2. CASE \E i \in 1 .. Len(y) : y[i] = terms[j]
    <3>1. PICK i \in 1 .. Len(y) : y[i] = terms[j]
      BY <2>2
    <3>2. Len(x) + i \in 1 .. k /\ s[Len(x) + i] = terms[j]
      BY <1>4, <1>8, <3>1, SMTT(30)
    <3> QED BY <3>2
  <2>3. CASE \E i \in 1 .. Len(z) : z[i] = terms[j]
    <3>1. PICK i \in 1 .. Len(z) : z[i] = terms[j]
      BY <2>3
    <3>2. Len(x) + Len(y) + i \in 1 .. k /\ s[Len(x) + Len(y) + i] = terms[j]
      BY <1>4, <1>8, <3>1
    <3> QED BY <3>2
  <2> QED BY <1>6, <2>1, <2>2, <2>3
<1>12. ASSUME NEW i \in 1 .. k, NEW j \in 1 .. k, i < j PROVE cost(s[i]) <= cost(s[j])
  <2>1. cost(s[i]) \in 0 .. 2 /\ cost(s[j]) \in 0 .. 2
    BY CostType
  <2>2. CASE i \in 1 .. Len(x)
    <3>1. cost(s[i]) = 0
      BY <1>5, <1>8, <2>2
    <3> QED BY <2>1, <3>1
  <2>3. CASE \E m \in 1 .. Len(z) : j = Len(x) + Len(y) + m
    <3>1. cost(s[j]) = 2
      BY <1>5, <1>8, <2>3
    <3> QED BY <2>1, <3>1
  <2>4. CASE (\E m \in 1 .. Len(y) : i = Len(x) + m) /\ (\E m \in 1 .. Len(y) : j = Len(x) + m)
    <3>1. cost(s[i]) = 1 /\ cost(s[j]) = 1
      BY <1>5, <1>8, <2>4
    <3> QED BY <3>1
  <2>5. CASE (\E m \in 1 .. Len(y) : i = Len(x) + m) /\ j \in 1 .. Len(x)
    BY <1>8, <1>12, <2>5
  <2>6. CASE (\E m \in 1 .. Len(z) : i = Len(x) + Len(y) + m)
               /\ (j \in 1 .. Len(x) \/ \E m \in 1 .. Len(y) : j = Len(x) + m)
    BY <1>8, <1>12, <2>6
  <2> QED BY <1>9, <2>2, <2>3, <2>4, <2>5, <2>6
<1> QED BY <1>7, <1>8, <1>10, <1>11, <1>12 DEF k

LEMMA CostStays == world' = world => \A t : cost(t)' = cost(t)
  BY DEF cost

\* Sorted, the terms are the parsed ones.
Ordered ==
  /\ Len(terms) = Len(parsed)
  /\ \A j \in 1 .. Len(parsed) : \E i \in 1 .. Len(terms) : terms[i] = parsed[j]
  /\ \A i, j \in 1 .. Len(terms) : i < j => cost(terms[i]) <= cost(terms[j])

FromParsed == \A i \in 1 .. Len(terms) : \E j \in 1 .. Len(parsed) : terms[i] = parsed[j]

LEMMA TermsKeep ==
    ASSUME ParseInv, TermsInv, [Next]_vars
    PROVE  TermsInv'
<1>0. /\ terms \in Seq(Term) /\ FromParsed /\ Len(terms) \in Nat
      /\ parsed \in Seq(Term) /\ Len(parsed) \in Nat
      /\ \A i \in 1 .. Len(parsed) : parsed[i] \in Term
      /\ pc \notin {"reading", "compiling", "refused"} => Ordered
  BY LenProperties, ElementOfSeq DEF TermsInv, ParseInv, FromParsed, Ordered
<1>1. CASE Parse
  <2>1. /\ pc = "reading" /\ terms' = terms /\ pc' \in {"reading", "compiling", "refused"}
        /\ pc' = "compiling" => at' = 1
    BY <1>1 DEF Parse, ReadEnd, ReadFlag, ReadTerm, ReadBare, MissesArg, RefuseUnknown, Refuse
  <2>2. terms = << >> /\ Len(terms) = 0
    BY <2>1, EmptySeq DEF TermsInv
  <2>3. terms' \in Seq(Term) /\ terms' = << >> /\ Len(terms') = 0
    BY <1>0, <2>1, <2>2
  <2>4. pc' = "compiling" => at' = 1 /\ parsed' = parsed
    BY <1>1 DEF Parse, ReadEnd, ReadFlag, ReadTerm, ReadBare, MissesArg, RefuseUnknown, Refuse
  <2>5. pc' = "compiling" => at' \in 1 .. Len(parsed') + 1 /\ Len(terms') = at' - 1
    BY <1>0, <2>3, <2>4
  <2>6. \A i \in 1 .. Len(terms') : FALSE
    BY <2>3
  <2>7. pc' = "compiling" => \A i \in 1 .. at' - 1 : terms'[i] = parsed'[i]
    BY <2>4
  <2> QED BY <2>1, <2>3, <2>5, <2>6, <2>7 DEF TermsInv
<1>2. CASE CompileTerm
  <2>1. /\ pc = "compiling" /\ parsed' = parsed /\ at \in 1 .. Len(parsed) /\ Len(terms) = at - 1
        /\ \A i \in 1 .. at - 1 : terms[i] = parsed[i]
    BY <1>0, <1>2 DEF CompileTerm, TermsInv
  <2>2. CASE compiles(parsed[at])
    <3>1. terms' = Append(terms, parsed[at]) /\ at' = at + 1 /\ pc' = pc
      BY <1>2, <2>2 DEF CompileTerm
    <3>2. /\ terms' \in Seq(Term) /\ Len(terms') = at /\ terms'[at] = parsed[at]
          /\ \A i \in 1 .. at - 1 : terms'[i] = parsed[i]
      <4>1. parsed[at] \in Term
        BY <1>0, <2>1
      <4>2. /\ terms' \in Seq(Term) /\ Len(terms') = Len(terms) + 1 /\ terms'[Len(terms) + 1] = parsed[at]
            /\ \A i \in 1 .. Len(terms) : terms'[i] = terms[i]
        BY <1>0, <3>1, <4>1, AppendProperties
      <4> QED BY <2>1, <4>2
    <3>3. \A i \in 1 .. at : terms'[i] = parsed[i] /\ i \in 1 .. Len(parsed)
      BY <1>0, <2>1, <3>2
    <3>4. at' \in 1 .. Len(parsed) + 1 /\ at' - 1 = at
      BY <1>0, <2>1, <3>1
    <3> QED BY <2>1, <3>1, <3>2, <3>3, <3>4 DEF TermsInv
  <2>3. CASE ~compiles(parsed[at])
    <3>1. terms' = terms /\ pc' = "refused"
      BY <1>2, <2>3 DEF CompileTerm
    <3> QED BY <1>0, <2>1, <3>1 DEF TermsInv, FromParsed
  <2> QED BY <2>2, <2>3
<1>3. CASE Sort
  <2>1. /\ pc = "compiling" /\ parsed' = parsed /\ world' = world /\ terms' = byCost
        /\ pc' \in {"scanning", "matching"} /\ at > Len(parsed)
    BY <1>3 DEF Sort
  <2>2. Len(terms) = Len(parsed) /\ \A i \in 1 .. Len(parsed) : terms[i] = parsed[i]
    <3>1. at \in 1 .. Len(parsed) + 1 /\ Len(terms) = at - 1 /\ \A i \in 1 .. at - 1 : terms[i] = parsed[i]
      BY <2>1 DEF TermsInv
    <3>2. at - 1 = Len(parsed)
      BY <1>0, <2>1, <3>1
    <3> QED BY <3>1, <3>2
  <2>3. /\ terms' \in Seq(Term) /\ Len(terms') = Len(parsed)
        /\ \A i \in 1 .. Len(terms') : \E j \in 1 .. Len(parsed) : terms'[i] = parsed[j]
        /\ \A j \in 1 .. Len(parsed) : \E i \in 1 .. Len(terms') : terms'[i] = parsed[j]
        /\ \A i, j \in 1 .. Len(terms') : i < j => cost(terms'[i]) <= cost(terms'[j])
    BY <1>0, <2>1, <2>2, ByCostSorts
  <2>4. \A i, j \in 1 .. Len(terms') : i < j => cost(terms[i])' <= cost(terms[j])'
    BY <2>1, <2>3, CostStays
  <2> QED BY <2>1, <2>3, <2>4 DEF TermsInv
<1>4. CASE Scan \/ Test \/ Count \/ mergeUnflushed
  <2>1. /\ world' = world /\ parsed' = parsed /\ terms' = terms
        /\ pc \notin {"reading", "compiling", "refused"} /\ pc' \notin {"reading", "compiling", "refused"}
    BY <1>4 DEF Scan, Test, Count, mergeUnflushed, Conclude, afterwards
  <2>2. Ordered'
    BY <1>0, <2>1, CostStays DEF Ordered
  <2> QED BY <1>0, <2>1, <2>2 DEF TermsInv, FromParsed, Ordered
<1>5. CASE Flush \/ UNCHANGED vars
  <2>1. world' = world /\ parsed' = parsed /\ terms' = terms /\ pc' = pc /\ at' = at
    BY <1>5 DEF Flush, query, vars
  <2>2. Ordered => Ordered'
    BY <2>1, CostStays DEF Ordered
  <2> QED BY <1>0, <2>1, <2>2 DEF TermsInv, FromParsed, Ordered
<1> QED BY <1>1, <1>2, <1>3, <1>4, <1>5 DEF Next

-----------------------------------------------------------------------------
(* Where the flow is and who looks at it.                                    *)

\* What comes after a verdict.
Concluded ==
  /\ DOMAIN verdicts' = DOMAIN verdicts \cup {view}
  /\ view # "stored" => pc' = "answered"
  /\ view = "stored" => pc' \in {"counting", "tail"} /\ (pc' = "counting" <=> world.tokens = << >>)

LEMMA ConcludeGoesOn == ASSUME NEW v, Conclude(v) PROVE Concluded
<1>1. DOMAIN verdicts' = DOMAIN verdicts \cup {view}
  BY DEF Conclude
<1>2. pc' = afterwards
  BY DEF Conclude
<1>3. view # "stored" => afterwards = "answered"
  BY DEF afterwards
<1>4. view = "stored" /\ world.tokens = << >> => afterwards = "counting"
  BY DEF afterwards
<1>5. view = "stored" /\ world.tokens # << >> => afterwards = "tail"
  BY DEF afterwards
<1> QED BY <1>1, <1>2, <1>3, <1>4, <1>5 DEF Concluded

LEMMA ViewKeeps ==
    ASSUME ViewInv, [Next]_vars
    PROVE  ViewInv'
<1>0. \/ world.dialect = "flow" /\ world.source = "page"
      \/ world.dialect = "flow" /\ world.source = "stream"
      \/ world.dialect = "message" /\ world.source = "timeline"
  BY WorldFacts DEF ViewInv
<1>1. CASE Parse
  <2>1. /\ pc = "reading" /\ pc' \in {"reading", "compiling", "refused"}
        /\ UNCHANGED <<world, view, ref, verdicts, home, moved>>
    BY <1>1 DEF Parse, ReadEnd, ReadFlag, ReadTerm, ReadBare, MissesArg, RefuseUnknown, Refuse
  <2> QED BY <2>1 DEF ViewInv, Sees
<1>2. CASE CompileTerm
  <2>1. /\ pc = "compiling" /\ pc' \in {"compiling", "refused"}
        /\ UNCHANGED <<world, view, ref, verdicts, home, moved>>
    BY <1>2 DEF CompileTerm
  <2> QED BY <2>1 DEF ViewInv, Sees
<1>3. CASE Sort
  <2>1. /\ pc = "compiling" /\ view = "none" /\ verdicts = << >>
        /\ UNCHANGED <<world, ref, verdicts, home, moved>>
    BY <1>3 DEF Sort, ViewInv
  <2>2. CASE world.source = "page"
    <3>1. pc' = "scanning" /\ view' = view
      BY <1>3, <2>2 DEF Sort
    <3> QED BY <2>1, <2>2, <3>1 DEF ViewInv, Sees
  <2>3. CASE world.source = "stream"
    <3>1. pc' = "matching" /\ view' = "event"
      BY <1>3, <2>3 DEF Sort
    <3> QED BY <2>1, <2>3, <3>1 DEF ViewInv, Sees
  <2>4. CASE world.source = "timeline"
    <3>1. pc' = "matching" /\ view' = "frame"
      BY <1>3, <2>4 DEF Sort
    <3> QED BY <2>1, <2>4, <3>1 DEF ViewInv, Sees
  <2> QED BY <1>0, <2>2, <2>3, <2>4
<1>4. CASE Scan
  <2>1. /\ pc = "scanning" /\ world.source = "page" /\ view = "none" /\ verdicts = << >>
        /\ ref' = (home = "written") /\ UNCHANGED <<world, verdicts, home, moved>>
    BY <1>4 DEF Scan, ViewInv
  <2>2. CASE home = "unwritten"
    <3>1. /\ view' = view /\ pc' \in {"counting", "tail"}
          /\ pc' = "counting" => world.tokens = << >>
      BY <1>4, <2>2 DEF Scan
    <3> QED BY <2>1, <3>1 DEF ViewInv, Sees
  <2>3. CASE home # "unwritten"
    <3>1. view' = "stored" /\ pc' = "matching"
      BY <1>4, <2>3 DEF Scan
    <3> QED BY <2>1, <2>3, <3>1 DEF ViewInv, Sees
  <2> QED BY <2>2, <2>3
<1>5. CASE Test
  <2>1. /\ pc = "matching" /\ UNCHANGED <<world, view, ref, home, moved>>
        /\ (pc' = pc /\ verdicts' = verdicts) \/ Conclude(TRUE) \/ Conclude(FALSE)
    BY <1>5 DEF Test
  <2>2. \A v : Conclude(v) => Concluded
    BY ConcludeGoesOn
  <2>3. CASE pc' = pc /\ verdicts' = verdicts
    BY <2>1, <2>3 DEF ViewInv, Sees
  <2>4. CASE view # "stored" /\ pc' = "answered" /\ DOMAIN verdicts' = DOMAIN verdicts \cup {view}
    BY <2>1, <2>4 DEF ViewInv, Sees
  <2>5. CASE /\ view = "stored" /\ DOMAIN verdicts' = DOMAIN verdicts \cup {view}
             /\ pc' \in {"counting", "tail"} /\ (pc' = "counting" => world.tokens = << >>)
    <3>1. world.source = "page"
      BY <1>0, <2>1, <2>5 DEF ViewInv
    <3>2. ~moved => home # "unwritten"
      BY <2>1, <2>5 DEF ViewInv, Sees
    <3> QED BY <2>1, <2>5, <3>1, <3>2 DEF ViewInv, Sees
  <2> QED BY <2>1, <2>3, <2>4, <2>5, <2>2 DEF Concluded
<1>6. CASE Count
  BY <1>6 DEF Count, ViewInv, Sees
<1>7. CASE mergeUnflushed
  <2>1. /\ pc = "tail" /\ world.source = "page"
        /\ UNCHANGED <<world, ref, verdicts, home, moved>>
    BY <1>7 DEF mergeUnflushed, ViewInv
  <2>2. CASE unflushed /\ ~have
    <3>1. view' = "tail" /\ pc' = "matching" /\ home \in {"unwritten", "inserted"}
      BY <1>7, <2>2 DEF mergeUnflushed, unflushed
    <3> QED BY <2>1, <3>1 DEF ViewInv, Sees
  <2>3. CASE ~(unflushed /\ ~have)
    <3>1. view' = view /\ pc' = "answered"
      BY <1>7, <2>3 DEF mergeUnflushed
    <3> QED BY <2>1, <3>1 DEF ViewInv, Sees
  <2> QED BY <2>2, <2>3
<1>8. CASE Flush
  <2>1. /\ moved' = TRUE /\ home' \in {"inserted", "heldback", "written"}
        /\ UNCHANGED <<world, pc, view, ref, verdicts>>
    BY <1>8 DEF Flush, query
  <2> QED BY <2>1 DEF ViewInv, Sees
<1>9. CASE UNCHANGED vars
  BY <1>9 DEF vars, ViewInv, Sees
<1> QED BY <1>1, <1>2, <1>3, <1>4, <1>5, <1>6, <1>7, <1>8, <1>9 DEF Next

-----------------------------------------------------------------------------
(* What a term says of the record.                                           *)

\* The directions of a term, in order.
LEMMA DirectionsType ==
    ASSUME NEW t
    PROVE  \/ \E d \in Dirs : directions(t) = <<d>>
           \/ directions(t) = <<"request", "response">>
  BY DEF directions, Dirs

\* Reading on demand decides what reading every direction would.
LEMMA ReadBySome ==
    ASSUME NEW t
    PROVE  /\ readBy(t) \subseteq Dirs
           /\ (\E d \in readBy(t) : matches(t.arg, load(t, d)))
                <=> \E i \in DOMAIN directions(t) : matches(t.arg, load(t, directions(t)[i]))
<1> DEFINE hit(d) == matches(t.arg, load(t, d))
<1>1. CASE \E d \in Dirs : directions(t) = <<d>>
  <2>1. PICK d \in Dirs : directions(t) = <<d>>
    BY <1>1
  <2>2. readBy(t) = {d}
    BY <2>1 DEF readBy
  <2> HIDE DEF hit
  <2>3. DOMAIN directions(t) = {1} /\ directions(t)[1] = d
    BY <2>1
  <2>4. (\E e \in readBy(t) : hit(e)) <=> \E i \in DOMAIN directions(t) : hit(directions(t)[i])
    BY <2>2, <2>3
  <2> QED BY <2>2, <2>4 DEF hit
<1>2. CASE directions(t) = <<"request", "response">>
  <2>1. DOMAIN directions(t) = {1, 2} /\ directions(t)[1] = "request" /\ directions(t)[2] = "response"
    BY <1>2
  <2>2. PICK J : J = {j \in DOMAIN directions(t) : \A n \in 1 .. j - 1 : ~hit(directions(t)[n])}
    OBVIOUS
  <2>3. readBy(t) = {directions(t)[i] : i \in J}
    BY <2>2 DEF readBy
  <2> HIDE DEF hit
  <2>4. 1 \in J /\ J \subseteq {1, 2} /\ (2 \in J <=> ~hit("request"))
    BY <2>2, <2>1
  <2>5. readBy(t) = IF hit("request") THEN {"request"} ELSE {"request", "response"}
    <3>1. CASE hit("request")
      <4>1. J = {1}
        BY <2>4, <3>1
      <4> QED BY <2>1, <2>3, <3>1, <4>1
    <3>2. CASE ~hit("request")
      <4>1. J = {1, 2}
        BY <2>4, <3>2
      <4> QED BY <2>1, <2>3, <3>2, <4>1
    <3> QED BY <3>1, <3>2
  <2>6. (\E e \in readBy(t) : hit(e)) <=> \E i \in DOMAIN directions(t) : hit(directions(t)[i])
    BY <2>5, <2>1
  <2>7. readBy(t) \subseteq Dirs
    BY <2>5 DEF Dirs
  <2> QED BY <2>6, <2>7 DEF hit
<1> QED BY <1>1, <1>2, DirectionsType

\* What is loaded changes with the view, and a body with the flow's place.
LEMMA LoadStays ==
    ASSUME world' = world, view' = view, NEW t, cost(t) = 1 \/ (home' = home /\ ref' = ref), NEW d
    PROVE  load(t, d)' = load(t, d)
<1>1. cost(t)' = cost(t) /\ cost(t) \in 0 .. 2
  BY CostStays, CostType
<1>2. headers(d)' = headers(d)
  BY DEF headers, rec
<1>3. ASSUME home' = home, ref' = ref PROVE body(d)' = body(d)
  <2>1. searchBody(d)' = searchBody(d) /\ rec' = rec
    BY <1>3 DEF searchBody, rec
  <2> QED BY <1>3, <2>1 DEF body
<1>4. CASE cost(t) = 1
  BY <1>1, <1>2, <1>4 DEF load
<1>5. CASE home' = home /\ ref' = ref
  BY <1>1, <1>2, <1>3, <1>5 DEF load
<1> QED BY <1>4, <1>5

\* What a verdict can depend on: a term that loads no body keeps its own.
LEMMA EvalStays ==
    ASSUME world' = world, view' = view, NEW t, cost(t) < 2 \/ (home' = home /\ ref' = ref)
    PROVE  /\ eval(t)' = eval(t)
           /\ cost(t) > 0 => readBy(t)' = readBy(t)
<1>1. cost(t)' = cost(t) /\ cost(t) \in 0 .. 2 /\ directions(t)' = directions(t)
  BY CostStays, CostType DEF directions
<1>2. rec' = rec /\ annotated' = annotated /\ columns(t)' = columns(t)
  BY DEF rec, annotated, columns
<1>3. metaMatches(t.arg)' = metaMatches(t.arg)
  BY <1>2 DEF metaMatches
<1>4. cost(t) > 0 => \A d : load(t, d)' = load(t, d)
  BY <1>1, LoadStays
<1>5. cost(t) > 0 => readBy(t)' = readBy(t)
  BY <1>1, <1>4 DEF readBy
<1>6. CASE cost(t) > 0
  BY <1>1, <1>2, <1>3, <1>4, <1>5, <1>6 DEF eval
<1>7. CASE ~(cost(t) > 0)
  BY <1>1, <1>2, <1>3, <1>7 DEF eval
<1> QED BY <1>5, <1>6, <1>7

\* An annotation costs nothing, and a word matches or does not.
LEMMA ColumnTerms ==
    /\ \A t : t.term \in annotationTerms => cost(t) = 0
    /\ \A a, hay : matches(a, hay) \in BOOLEAN
<1>1. ASSUME NEW t, t.term \in annotationTerms PROVE cost(t) = 0
  <2>1. t.term # NoWord
    BY <1>1, FilterAssumption DEF annotationTerms, Tilde, flowGrammar
  <2> QED BY <1>1, <2>1 DEF cost, annotationTerms, headerTerms, bodyTerms
<1>2. \A a, hay : matches(a, hay) \in BOOLEAN
  BY DEF matches
<1> QED BY <1>1, <1>2

\* truth, case by case.
LEMMA TruthCases ==
    ASSUME NEW t
    PROVE  /\ cost(t) > 0 /\ t.term \notin {"~s", "~q", "~fav", "~meta"} /\ t.term \notin annotationTerms =>
                truth(t) = \E d \in ToSet(directions(t)) :
                             matches(t.arg, IF cost(t) = 1 THEN rec.head[d] ELSE rec.body[d])
           /\ t.term \in {"~tag", "~group"} =>
                truth(t) = matches(t.arg, resolve(rec.ids[t.term], rec.names))
           /\ t.term \in {"~mark", "~comment"} => truth(t) = matches(t.arg, rec.text[t.term])
           /\ cost(t) = 0 /\ t.term \notin {"~s", "~q", "~fav", "~meta"} /\ t.term \notin annotationTerms =>
                truth(t) = \E hay \in columns(t) : matches(t.arg, hay)
<1>1. ASSUME cost(t) > 0, t.term \notin {"~s", "~q", "~fav", "~meta"}, t.term \notin annotationTerms
      PROVE truth(t) = \E d \in ToSet(directions(t)) :
                             matches(t.arg, IF cost(t) = 1 THEN rec.head[d] ELSE rec.body[d])
  BY ONLY <1>1, Zenon DEF truth, annotationTerms
<1>2. ASSUME cost(t) = 0, ~(cost(t) > 0), t.term \in {"~tag", "~group"} PROVE truth(t) = matches(t.arg, resolve(rec.ids[t.term], rec.names))
  BY ONLY <1>2, Zenon DEF truth
<1>3. ASSUME cost(t) = 0, ~(cost(t) > 0), t.term \in {"~mark", "~comment"} PROVE truth(t) = matches(t.arg, rec.text[t.term])
  BY ONLY <1>3, Zenon DEF truth
<1>4. ASSUME cost(t) = 0, ~(cost(t) > 0), t.term \notin {"~s", "~q", "~fav", "~meta"}, t.term \notin annotationTerms
      PROVE truth(t) = \E hay \in columns(t) : matches(t.arg, hay)
  BY ONLY <1>4, Zenon DEF truth, annotationTerms
<1>5. cost(t) = 0 => ~(cost(t) > 0)
  OBVIOUS
<1>6. t.term \in {"~tag", "~group"} \/ t.term \in {"~mark", "~comment"} => cost(t) = 0
  BY ColumnTerms DEF annotationTerms
<1> QED BY ONLY <1>1, <1>2, <1>3, <1>4, <1>5, <1>6, Zenon

\* The record says the same to everyone.
LEMMA TruthStays == ASSUME world' = world, NEW t PROVE truth(t)' = truth(t)
<1>1. /\ cost(t)' = cost(t) /\ directions(t)' = directions(t) /\ rec' = rec
      /\ metaMatches(t.arg)' = metaMatches(t.arg)
  BY CostStays DEF directions, rec, metaMatches
<1>2. CASE t.term \notin annotationTerms
  <2>1. columns(t)' = columns(t)
    BY <1>1, <1>2 DEF columns, annotationTerms, NoWord
  <2> QED BY <1>1, <2>1 DEF truth
<1>3. CASE t.term \in annotationTerms
  <2>1. cost(t) = 0
    BY <1>3, ColumnTerms
  <2>2. ~(cost(t) > 0) /\ ~(cost(t)' > 0)
    BY <1>1, <2>1
  <2>3. CASE t.term \in {"~tag", "~group"}
    <3>1. truth(t) = matches(t.arg, resolve(rec.ids[t.term], rec.names))
      BY ONLY <2>2, <2>3, Zenon DEF truth
    <3>2. truth(t)' = matches(t.arg, resolve(rec.ids[t.term], rec.names))'
      BY ONLY <2>2, <2>3, Zenon DEF truth
    <3> QED BY ONLY <1>1, <3>1, <3>2 DEF matches
  <2>4. CASE t.term \in {"~mark", "~comment"}
    <3>1. truth(t) = matches(t.arg, rec.text[t.term])
      BY ONLY <2>2, <2>4, Zenon DEF truth
    <3>2. truth(t)' = matches(t.arg, rec.text[t.term])'
      BY ONLY <2>2, <2>4, Zenon DEF truth
    <3> QED BY ONLY <1>1, <3>1, <3>2 DEF matches
  <2> QED BY <1>3, <2>3, <2>4 DEF annotationTerms
<1> QED BY <1>2, <1>3

LEMMA MeaningStays ==
    ASSUME world' = world, parsed' = parsed
    PROVE  /\ Written' = Written /\ \A v : Blind(v)' = Blind(v)
           /\ leftOut' = leftOut /\ counted' = counted
<1>1. Written' = Written
  BY TruthStays DEF Written
<1>2. ASSUME NEW v PROVE Blind(v)' = Blind(v)
  <2>1. blindTo(v)' = blindTo(v)
    BY DEF blindTo, rec
  <2> QED BY <2>1 DEF Blind
<1>3. leftOut' = leftOut
  BY DEF leftOut, Hidden, outcomes, rec
<1>4. counted' = counted
  BY <1>1, <1>3 DEF counted
<1> QED BY <1>1, <1>2, <1>3, <1>4

\* The view is one of its source's.
Looks ==
  \/ world.dialect = "flow" /\ world.source = "page" /\ view \in {"stored", "tail"}
  \/ world.dialect = "flow" /\ world.source = "stream" /\ view = "event"
  \/ world.dialect = "message" /\ world.source = "timeline" /\ view = "frame"

LEMMA MatchingLooks == ViewInv /\ pc = "matching" => Looks
  BY WorldFacts DEF ViewInv, Looks

\* A view that has what a term asks for loads what the record holds.
LEMMA LoadIsTruth ==
    ASSUME world \in Worlds, Looks, Sees, NEW t, t.term \notin blindTo(view), cost(t) > 0, NEW d
    PROVE  load(t, d) = IF cost(t) = 1 THEN rec.head[d] ELSE rec.body[d]
<1>1. cost(t) \in 1 .. 2
  BY CostType
<1>2. CASE cost(t) = 1
  <2>1. t.term \in headerTerms /\ world.dialect = "flow"
    BY <1>2 DEF cost
  <2>2. view = "stored"
    BY <2>1 DEF Looks, blindTo
  <2> QED BY <1>2, <2>2 DEF load, headers
<1>3. CASE cost(t) = 2
  <2>1. /\ world.dialect = "flow" => t.term \in bodyTerms
        /\ rec.big \in BOOLEAN
    BY <1>3, WorldFacts DEF cost
  <2>2. body(d) = rec.body[d]
    <3>1. CASE view = "stored"
      BY <3>1 DEF Sees, body, searchBody
    <3>2. CASE view = "tail"
      BY <3>2 DEF Sees, body, searchBody
    <3>3. CASE view = "event"
      <4>1. ~rec.big
        BY <2>1, <3>3 DEF Looks, blindTo
      <4> QED BY <3>3, <4>1 DEF body
    <3>4. CASE view = "frame"
      BY <3>4 DEF body
    <3> QED BY <3>1, <3>2, <3>3, <3>4 DEF Looks
  <2> QED BY <1>3, <2>2 DEF load
<1> QED BY <1>1, <1>2, <1>3

\* A view that has what a term asks for says what the record says.
LEMMA EvalIsTruth ==
    ASSUME world \in Worlds, Looks, Sees, NEW t, t.term \notin blindTo(view)
    PROVE  eval(t) = truth(t)
<1>1. cost(t) \in 0 .. 2
  BY CostType
<1>2. t.term \in annotationTerms \cup {"~fav"} => annotated
  BY DEF Looks, blindTo, annotated
<1>3. CASE t.term \in {"~s", "~q", "~meta"}
  BY <1>3 DEF eval, truth
<1>4. CASE t.term = "~fav"
  <2>1. rec.fav \in BOOLEAN
    BY WorldFacts
  <2> QED BY <1>2, <1>4, <2>1 DEF eval, truth
<1>5. CASE cost(t) > 0 /\ t.term \notin {"~s", "~q", "~fav", "~meta"}
  <2> DEFINE held(d) == IF cost(t) = 1 THEN rec.head[d] ELSE rec.body[d]
  <2>1. t.term \notin {"~tag", "~group", "~mark", "~comment"}
    BY <1>5, ColumnTerms DEF annotationTerms
  <2>2. \A d : load(t, d) = held(d)
    BY <1>5, LoadIsTruth
  <2>3. eval(t) = \E d \in readBy(t) : matches(t.arg, load(t, d))
    BY <1>5 DEF eval
  <2>4. truth(t) = \E d \in ToSet(directions(t)) : matches(t.arg, held(d))
    BY <1>5, <2>1, TruthCases DEF held, annotationTerms
  <2>5. ToSet(directions(t)) = {directions(t)[i] : i \in DOMAIN directions(t)}
    BY DEF ToSet
  <2> HIDE DEF held
  <2> QED BY <2>2, <2>3, <2>4, <2>5, ReadBySome
<1>6. CASE cost(t) = 0 /\ t.term \notin {"~s", "~q", "~fav", "~meta"}
  <2>0. ~(cost(t) > 0)
    BY <1>6
  <2>1. eval(t) = \E hay \in columns(t) : matches(t.arg, hay)
    BY ONLY <1>6, <2>0, Zenon DEF eval
  <2>2. CASE t.term \in {"~tag", "~group"}
    <3>1. columns(t) = {resolve(rec.ids[t.term], rec.names)}
      BY <1>2, <2>2 DEF columns, annotationTerms, NoWord
    <3>2. truth(t) = matches(t.arg, resolve(rec.ids[t.term], rec.names))
      BY <2>2, TruthCases
    <3> QED BY <2>1, <3>1, <3>2, ColumnTerms
  <2>3. CASE t.term \in {"~mark", "~comment"}
    <3>1. columns(t) = {rec.text[t.term]}
      BY <1>2, <2>3 DEF columns, annotationTerms, NoWord
    <3>2. truth(t) = matches(t.arg, rec.text[t.term])
      BY <2>3, TruthCases
    <3> QED BY <2>1, <3>1, <3>2, ColumnTerms
  <2>4. CASE t.term \notin {"~tag", "~group", "~mark", "~comment"}
    BY <1>6, <2>1, <2>4, TruthCases DEF annotationTerms
  <2> QED BY <2>2, <2>3, <2>4
<1> QED BY <1>1, <1>3, <1>4, <1>5, <1>6

-----------------------------------------------------------------------------
(* The terms in order, cheapest first, until one fails.                      *)

LEMMA PassedStays ==
    ASSUME world' = world, view' = view, NEW t, cost(t) < 2 \/ (home' = home /\ ref' = ref)
    PROVE  Passed(t)' <=> Passed(t)
  BY EvalStays DEF Passed

\* A verdict of a view that has what the expression asks for is the meaning of
\* the expression.
Judged == Sees /\ ~Blind(view)

LEMMA AllPassed ==
    ASSUME world \in Worlds, Looks, Judged, Ordered, FromParsed,
           \A j \in 1 .. Len(terms) : Passed(terms[j]),
           parsed \in Seq(Term), terms \in Seq(Term)
    PROVE  Written
<1> SUFFICES ASSUME NEW i \in DOMAIN parsed PROVE truth(parsed[i]) # parsed[i].neg
  BY DEF Written
<1>1. i \in 1 .. Len(parsed)
  OBVIOUS
<1>2. PICK j \in 1 .. Len(terms) : terms[j] = parsed[i]
  BY <1>1 DEF Ordered
<1>3. parsed[i].term \notin blindTo(view)
  BY DEF Judged, Blind
<1>4. eval(parsed[i]) = truth(parsed[i])
  BY <1>3, EvalIsTruth DEF Judged
<1> QED BY <1>2, <1>4 DEF Passed

LEMMA OneFailed ==
    ASSUME world \in Worlds, Looks, Judged, FromParsed,
           NEW j \in 1 .. Len(terms), ~Passed(terms[j]),
           parsed \in Seq(Term), terms \in Seq(Term)
    PROVE  ~Written
<1>1. PICK i \in 1 .. Len(parsed) : terms[j] = parsed[i]
  BY DEF FromParsed
<1>2. i \in DOMAIN parsed
  OBVIOUS
<1>3. parsed[i].term \notin blindTo(view)
  BY <1>2 DEF Judged, Blind
<1>4. eval(parsed[i]) = truth(parsed[i])
  BY <1>3, EvalIsTruth DEF Judged
<1> QED BY <1>1, <1>2, <1>4 DEF Passed, Written

\* A verdict says what is written.
LEMMA VerdictIsWritten ==
    ASSUME world' = world, parsed' = parsed, moved' = moved, MatchIsConjunction,
           NEW v \in BOOLEAN, Conclude(v), ~moved /\ ~Blind(view) => v = Written
    PROVE  MatchIsConjunction'
<1>1. /\ Written' = Written /\ \A u : Blind(u)' = Blind(u)
  BY MeaningStays
<1>2. verdicts' = [u \in DOMAIN verdicts \cup {view} |-> IF u = view THEN v ELSE verdicts[u]]
  BY DEF Conclude
<1> SUFFICES ASSUME NEW u \in DOMAIN verdicts', ~moved, ~Blind(u) PROVE verdicts'[u] = Written
  BY <1>1 DEF MatchIsConjunction
<1>3. CASE u = view
  BY <1>2, <1>3
<1>4. CASE u # view
  BY <1>2, <1>4 DEF MatchIsConjunction
<1> QED BY <1>3, <1>4

\* Nothing concluded: the verdicts still say what is written.
LEMMA VerdictsStay ==
    ASSUME world' = world, parsed' = parsed, verdicts' = verdicts, moved' \/ moved' = moved,
           MatchIsConjunction
    PROVE  MatchIsConjunction'
  BY MeaningStays DEF MatchIsConjunction

\* What was read stays paid for, what passed stays passed.
Paid == \A r \in reads : \A j \in 1 .. Len(terms) : cost(terms[j]) < r[1] => Passed(terms[j])
PassedSoFar == \A j \in 1 .. at - 1 : cost(terms[j]) < 2 \/ ~moved => Passed(terms[j])

LEMMA PaidStays ==
    ASSUME world' = world, view' = view, terms' = terms, reads' = reads,
           reads \subseteq (1 .. 2) \X Dirs, Paid
    PROVE  Paid'
<1> SUFFICES ASSUME NEW r \in reads, NEW j \in 1 .. Len(terms), cost(terms[j])' < r[1]
             PROVE  Passed(terms[j])'
  BY DEF Paid
<1>1. cost(terms[j])' = cost(terms[j]) /\ cost(terms[j]) \in 0 .. 2 /\ r[1] \in 1 .. 2
  <2>1. \A t : cost(t)' = cost(t) /\ cost(t) \in 0 .. 2
    BY CostStays, CostType
  <2> QED BY <2>1
<1>2. Passed(terms[j]) /\ cost(terms[j]) < 2
  BY <1>1 DEF Paid
<1>3. \A t : cost(t) < 2 => (Passed(t)' <=> Passed(t))
  BY PassedStays
<1> QED BY <1>2, <1>3

\* The term that is tested: what it reads is paid for by the cheaper ones before it.
LEMMA TestReads ==
    ASSUME terms \in Seq(Term), Ordered, Paid, PassedSoFar, reads \subseteq (1 .. 2) \X Dirs,
           at \in 1 .. Len(terms), world' = world, view' = view, terms' = terms,
           home' = home, ref' = ref,
           reads' = reads \cup {<<cost(terms[at]), d>> :
                                  d \in IF cost(terms[at]) > 0 THEN readBy(terms[at]) ELSE {}}
    PROVE  reads' \subseteq (1 .. 2) \X Dirs /\ Paid'
<1> DEFINE c == cost(terms[at])
<1>1. c \in 0 .. 2 /\ readBy(terms[at]) \subseteq Dirs
  BY CostType, ReadBySome
<1> HIDE DEF c
<1>2. ASSUME NEW r \in reads' PROVE r \in reads \/ (c > 0 /\ r[1] = c /\ \E d \in Dirs : r = <<c, d>>)
  BY <1>1 DEF c
<1>3. reads' \subseteq (1 .. 2) \X Dirs
  BY <1>1, <1>2
<1>4. \A t : cost(t)' = cost(t) /\ cost(t) \in 0 .. 2 /\ (Passed(t)' <=> Passed(t))
  BY CostStays, CostType, PassedStays
<1>5. ASSUME NEW r \in reads', NEW j \in 1 .. Len(terms), cost(terms[j]) < r[1] PROVE Passed(terms[j])
  <2>1. CASE r \in reads
    BY <1>5, <2>1 DEF Paid
  <2>2. CASE c > 0 /\ r[1] = c
    <3>1. cost(terms[j]) < c
      BY <1>5, <2>2
    <3>2. ~(at <= j)
      <4> SUFFICES ASSUME at <= j PROVE FALSE
        OBVIOUS
      <4>1. at < j \/ at = j
        OBVIOUS
      <4>2. CASE at < j
        <5>1. c <= cost(terms[j])
          BY <4>2 DEF Ordered, c
        <5> QED BY <1>1, <1>4, <3>1, <5>1
      <4>3. CASE at = j
        BY <1>1, <3>1, <4>3 DEF c
      <4> QED BY <4>1, <4>2, <4>3
    <3>3. j \in 1 .. at - 1 /\ cost(terms[j]) < 2
      BY <1>1, <1>4, <3>1, <3>2
    <3> QED BY <3>3 DEF PassedSoFar
  <2> QED BY <1>2, <2>1, <2>2
<1>6. Paid'
  BY <1>4, <1>5 DEF Paid
<1> QED BY <1>3, <1>6

MatchRest ==
  /\ at \in 1 .. N + 1
  /\ pc = "matching" => at <= Len(terms) + 1 /\ PassedSoFar
  /\ pc = "scanning" => at = 1
  /\ reads \subseteq (1 .. 2) \X Dirs
  /\ pc \in {"reading", "compiling", "scanning", "refused"} => reads = {}
  /\ Paid
  /\ \A v \in DOMAIN verdicts : verdicts[v] \in BOOLEAN

LEMMA MatchParts == MatchInv <=> MatchRest /\ MatchIsConjunction
  BY DEF MatchInv, MatchRest, Paid, PassedSoFar

LEMMA MatchPartsNext == MatchInv' <=> MatchRest' /\ MatchIsConjunction'
  BY DEF MatchInv, MatchRest, Paid, PassedSoFar

\* Parsing and compiling read nothing of the record.
LEMMA MatchBegins ==
    ASSUME MatchInv, ParseInv, ViewInv, ViewInv', TermsInv, TermsInv', Parse \/ CompileTerm \/ Sort \/ Scan
    PROVE  MatchInv'
<1>0. MatchRest /\ MatchIsConjunction
  BY MatchParts
<1>1. /\ pc \in {"reading", "compiling", "scanning"} /\ verdicts = << >> /\ verdicts' = verdicts
      /\ reads = {} /\ reads' = reads /\ world' = world
  BY <1>0 DEF MatchRest, ViewInv, Parse, CompileTerm, Sort, Scan
<1>2. MatchIsConjunction' /\ Paid' /\ \A v \in DOMAIN verdicts' : verdicts'[v] \in BOOLEAN
  BY <1>1 DEF MatchIsConjunction, Paid
<1>3. N \in Nat /\ N' = N /\ Len(parsed) \in Nat /\ Len(terms) \in Nat /\ Len(terms') \in Nat
  BY <1>1, TokenFacts, LenProperties DEF ParseInv, TermsInv, ViewInv, N
<1>4. at' \in 1 .. N + 1 /\ (pc' \in {"matching", "scanning"} => at' = 1)
  <2>1. CASE Parse
    <3>1. /\ pc = "reading" /\ at \in 1 .. N + 1 /\ pc' \in {"reading", "compiling", "refused"}
      BY <1>0, <2>1 DEF Parse, ReadEnd, ReadFlag, ReadTerm, ReadBare, MissesArg, RefuseUnknown, Refuse, MatchRest
    <3>2. CASE ReadEnd \/ Refuse
      BY <1>3, <3>1, <3>2 DEF ReadEnd, Refuse
    <3>3. CASE ~ended /\ (ReadFlag \/ ReadTerm \/ ReadBare)
      <4>1. negation.pos \in 1 .. N
        BY <3>1, <3>3, Opening DEF ViewInv
      <4>2. at' = negation.pos + 1 \/ (at' = negation.pos + 2 /\ negation.pos < N)
        BY <3>3 DEF ReadFlag, ReadTerm, ReadBare, N
      <4> QED BY <1>3, <3>1, <4>1, <4>2
    <3> QED BY <2>1, <3>2, <3>3 DEF Parse, MissesArg, RefuseUnknown
  <2>2. CASE CompileTerm
    <3>1. Len(parsed) <= N /\ pc' \in {"compiling", "refused"} /\ at <= Len(parsed) /\ at' \in {at, at + 1}
      BY <2>2 DEF CompileTerm, ParseInv
    <3> QED BY <1>0, <1>3, <3>1 DEF MatchRest
  <2>3. CASE Sort
    BY <1>3, <2>3 DEF Sort
  <2>4. CASE Scan
    BY <1>0, <1>3, <2>4 DEF Scan, MatchRest
  <2> QED BY <2>1, <2>2, <2>3, <2>4
<1>5. at' = 1 => PassedSoFar' /\ at' <= Len(terms') + 1
  BY <1>3 DEF PassedSoFar
<1>6. reads' = {} /\ at' \in 1 .. N' + 1
  BY <1>1, <1>3, <1>4
<1>7. MatchRest'
  BY ONLY <1>2, <1>4, <1>5, <1>6 DEF MatchRest
<1> QED BY <1>2, <1>7, MatchPartsNext

\* What the lemmas on verdicts ask for.
LEMMA Judgement ==
    ASSUME ParseInv, TermsInv, ViewInv, pc = "matching"
    PROVE  /\ world \in Worlds /\ Looks /\ Ordered /\ FromParsed
           /\ parsed \in Seq(Term) /\ terms \in Seq(Term) /\ Len(terms) \in Nat
           /\ ~moved /\ ~Blind(view) => Judged
  BY MatchingLooks, LenProperties DEF ParseInv, TermsInv, ViewInv, Ordered, FromParsed, Judged

\* The verdict, when the terms have all passed or the one at `at` failed.
LEMMA TestConcludes ==
    ASSUME ParseInv, TermsInv, ViewInv, MatchInv, Test, NEW v \in BOOLEAN, Conclude(v),
           v <=> at > Len(terms), ~v => ~Passed(terms[at])
    PROVE  (~moved /\ ~Blind(view)) => v = Written
<1>0. pc = "matching" /\ MatchRest
  BY MatchParts DEF Test
<1> SUFFICES ASSUME ~moved, ~Blind(view) PROVE v = Written
  OBVIOUS
<1>1. /\ world \in Worlds /\ Looks /\ Ordered /\ FromParsed /\ Judged
      /\ parsed \in Seq(Term) /\ terms \in Seq(Term) /\ Len(terms) \in Nat
  BY <1>0, Judgement
<1>2. at \in Nat /\ at >= 1 /\ at <= Len(terms) + 1 /\ PassedSoFar
  BY <1>0 DEF MatchRest
<1>3. CASE v
  <2>1. \A j \in 1 .. Len(terms) : Passed(terms[j])
    BY <1>1, <1>2, <1>3 DEF PassedSoFar
  <2> QED BY <1>1, <1>3, <2>1, AllPassed
<1>4. CASE ~v
  <2>1. at \in 1 .. Len(terms) /\ ~Passed(terms[at])
    BY <1>1, <1>2, <1>4
  <2>2. ~Written
    BY <1>1, <2>1, OneFailed
  <2> QED BY <1>4, <2>2 DEF Written
<1> QED BY <1>3, <1>4

LEMMA TestPays ==
    ASSUME ParseInv, TermsInv, ViewInv, MatchInv, Test
    PROVE  reads' \subseteq (1 .. 2) \X Dirs /\ Paid'
<1>1. /\ pc = "matching" /\ MatchRest /\ reads \subseteq (1 .. 2) \X Dirs /\ Paid /\ PassedSoFar
      /\ at \in Nat /\ at >= 1
  BY MatchParts DEF Test, MatchRest
<1>2. terms \in Seq(Term) /\ Ordered /\ Len(terms) \in Nat
  BY <1>1, Judgement
<1>3. world' = world /\ view' = view /\ terms' = terms /\ home' = home /\ ref' = ref
  BY DEF Test
<1>4. CASE at > Len(terms)
  <2>1. reads' = reads
    BY <1>4 DEF Test
  <2> QED BY <1>1, <1>3, <2>1, PaidStays
<1>5. CASE ~(at > Len(terms))
  <2>1. reads' = reads \cup {<<cost(terms[at]), d>> :
                               d \in IF cost(terms[at]) > 0 THEN readBy(terms[at]) ELSE {}}
    BY <1>5 DEF Test
  <2>2. at \in 1 .. Len(terms)
    BY <1>1, <1>2, <1>5
  <2> QED BY <1>1, <1>2, <1>3, <2>1, <2>2, TestReads
<1> QED BY <1>4, <1>5

LEMMA TestMatches ==
    ASSUME ParseInv, TermsInv, ViewInv, MatchInv, Test
    PROVE  MatchInv'
<1>0. MatchRest /\ MatchIsConjunction
  BY MatchParts
<1>1. /\ pc = "matching" /\ world' = world /\ view' = view /\ terms' = terms /\ home' = home
      /\ ref' = ref /\ parsed' = parsed /\ moved' = moved
  BY DEF Test
<1>2. reads' \subseteq (1 .. 2) \X Dirs /\ Paid'
  BY TestPays
<1>3. /\ at \in 1 .. N + 1 /\ N' = N /\ N \in Nat /\ Len(terms) \in Nat /\ at <= Len(terms) + 1
      /\ Len(terms) <= N /\ PassedSoFar
  <2>1. Len(terms) = Len(parsed) /\ Len(terms) \in Nat
    BY <1>1, Judgement DEF Ordered
  <2>2. Len(parsed) <= N /\ N \in Nat /\ N' = N
    BY <1>1, TokenFacts DEF ParseInv, ViewInv, N
  <2> QED BY <1>0, <1>1, <2>1, <2>2 DEF MatchRest
<1>4. \A t : Passed(t)' <=> Passed(t)
  BY <1>1, PassedStays
<1>5. ASSUME NEW v \in BOOLEAN, Conclude(v), at' = at, v <=> at > Len(terms), ~v => ~Passed(terms[at])
      PROVE  MatchInv'
  <2>1. MatchIsConjunction'
    BY <1>0, <1>1, <1>5, TestConcludes, VerdictIsWritten
  <2>2. \A u \in DOMAIN verdicts' : verdicts'[u] \in BOOLEAN
    BY <1>0, <1>5 DEF MatchRest, Conclude
  <2>3. pc' \in {"answered", "counting", "tail"}
    BY <1>5, ConcludeGoesOn DEF Concluded
  <2>4. MatchRest'
    BY ONLY <1>2, <1>3, <1>5, <2>2, <2>3 DEF MatchRest
  <2> QED BY <2>1, <2>4, MatchPartsNext
<1>6. CASE at > Len(terms)
  <2>1. Conclude(TRUE) /\ at' = at
    BY <1>6 DEF Test
  <2> QED BY <1>5, <1>6, <2>1
<1>7. CASE ~(at > Len(terms))
  <2>1. CASE Passed(terms[at])
    <3>1. at' = at + 1 /\ pc' = pc /\ verdicts' = verdicts
      BY <1>7, <2>1 DEF Test, Passed
    <3>2. at' \in 1 .. N + 1 /\ at' <= Len(terms) + 1
      BY <1>3, <1>7, <3>1
    <3>3. PassedSoFar'
      <4> SUFFICES ASSUME NEW j \in 1 .. at, cost(terms[j])' < 2 \/ ~moved PROVE Passed(terms[j])'
        BY <1>1, <1>3, <3>1 DEF PassedSoFar
      <4>1. cost(terms[j]) < 2 \/ ~moved
        BY <1>1, CostStays
      <4>2. CASE j = at
        BY <1>1, <1>4, <2>1, <4>2
      <4>3. CASE j # at
        BY <1>1, <1>3, <1>4, <4>1, <4>3 DEF PassedSoFar
      <4> QED BY <4>2, <4>3
    <3>4. MatchRest'
      BY ONLY <1>0, <1>1, <1>2, <1>3, <3>1, <3>2, <3>3 DEF MatchRest
    <3>5. MatchIsConjunction'
      BY <1>0, <1>1, <3>1, VerdictsStay
    <3> QED BY <3>4, <3>5, MatchPartsNext
  <2>2. CASE ~Passed(terms[at])
    <3>1. Conclude(FALSE) /\ at' = at
      BY <1>7, <2>2 DEF Test, Passed
    <3> QED BY <1>5, <1>7, <2>2, <3>1
  <2> QED BY <2>1, <2>2
<1> QED BY <1>6, <1>7

LEMMA MatchKeeps ==
    ASSUME ParseInv, TermsInv, TermsInv', ViewInv, ViewInv', MatchInv, [Next]_vars
    PROVE  MatchInv'
<1>0. MatchRest /\ MatchIsConjunction
  BY MatchParts
<1>1. CASE Parse \/ CompileTerm \/ Sort \/ Scan
  BY <1>1, MatchBegins
<1>2. CASE Test
  BY <1>2, TestMatches
<1>3. CASE Count
  <2>1. /\ world' = world /\ view' = view /\ terms' = terms /\ reads' = reads /\ at' = at
        /\ parsed' = parsed /\ verdicts' = verdicts /\ moved' = moved /\ pc' = "tail"
    BY <1>3 DEF Count
  <2>2. Paid' /\ MatchIsConjunction'
    BY <1>0, <2>1, PaidStays, VerdictsStay DEF MatchRest
  <2>3. MatchRest'
    BY <1>0, <2>1, <2>2 DEF MatchRest, N
  <2> QED BY <2>2, <2>3, MatchPartsNext
<1>4. CASE mergeUnflushed
  <2>1. /\ world' = world /\ terms' = terms /\ parsed' = parsed /\ verdicts' = verdicts
        /\ moved' = moved
        /\ \/ view' = view /\ reads' = reads /\ at' = at /\ pc' = "answered"
           \/ reads' = {} /\ at' = 1 /\ pc' = "matching"
    BY <1>4 DEF mergeUnflushed
  <2>2. MatchIsConjunction'
    BY <1>0, <2>1, VerdictsStay
  <2>3. CASE view' = view /\ reads' = reads /\ at' = at /\ pc' = "answered"
    <3>1. Paid'
      BY <1>0, <2>1, <2>3, PaidStays DEF MatchRest
    <3> QED BY <1>0, <2>1, <2>2, <2>3, <3>1, MatchPartsNext DEF MatchRest, N
  <2>4. CASE reads' = {} /\ at' = 1 /\ pc' = "matching"
    <3>1. Paid' /\ PassedSoFar'
      BY <2>4 DEF Paid, PassedSoFar
    <3>2. Len(terms') \in Nat /\ N \in Nat /\ N' = N
      BY <2>1, TokenFacts, LenProperties DEF TermsInv, ViewInv, N
    <3>3. MatchRest'
      BY <1>0, <2>1, <2>4, <3>1, <3>2 DEF MatchRest
    <3> QED BY <2>2, <3>3, MatchPartsNext
  <2> QED BY <2>1, <2>3, <2>4
<1>5. CASE Flush
  <2>1. /\ world' = world /\ view' = view /\ ref' = ref /\ terms' = terms /\ reads' = reads /\ at' = at
        /\ parsed' = parsed /\ verdicts' = verdicts /\ moved' = TRUE /\ pc' = pc
    BY <1>5 DEF Flush, query
  <2>2. Paid' /\ MatchIsConjunction'
    BY <1>0, <2>1, PaidStays, VerdictsStay DEF MatchRest
  <2>3. PassedSoFar => PassedSoFar'
    <3>1. \A t : cost(t) < 2 => (Passed(t)' <=> Passed(t))
      BY <2>1, PassedStays
    <3>2. \A t : cost(t)' = cost(t)
      BY <2>1, CostStays
    <3> QED BY <2>1, <3>1, <3>2 DEF PassedSoFar
  <2>4. MatchRest'
    BY <1>0, <2>1, <2>2, <2>3 DEF MatchRest, N
  <2> QED BY <2>2, <2>4, MatchPartsNext
<1>6. CASE UNCHANGED vars
  <2>1. /\ world' = world /\ view' = view /\ ref' = ref /\ home' = home /\ terms' = terms
        /\ reads' = reads /\ at' = at /\ parsed' = parsed /\ verdicts' = verdicts
        /\ moved' = moved /\ pc' = pc
    BY <1>6 DEF vars
  <2>2. Paid' /\ MatchIsConjunction'
    BY <1>0, <2>1, PaidStays, VerdictsStay DEF MatchRest
  <2>3. PassedSoFar => PassedSoFar'
    <3>1. \A t : cost(t)' = cost(t) /\ (Passed(t)' <=> Passed(t))
      BY <2>1, PassedStays, CostStays
    <3> QED BY <2>1, <3>1 DEF PassedSoFar
  <2>4. MatchRest'
    BY <1>0, <2>1, <2>2, <2>3 DEF MatchRest, N
  <2> QED BY <2>2, <2>4, MatchPartsNext
<1> QED BY <1>1, <1>2, <1>3, <1>4, <1>5, <1>6 DEF Next

-----------------------------------------------------------------------------
(* What the page counts.                                                     *)

Few == [matched : 0 .. 1, hidden : 0 .. 1]
Some == [matched : 0 .. 2, hidden : 0 .. 2]

\* A verdict adds at most one; the first counts what is written.
LEMMA Tallied ==
    ASSUME world \in Worlds
    PROVE  /\ page \in Few => tally \in Some
           /\ page = Nothing => tally \in Few
           /\ page = Nothing /\ world.source = "page" =>
                \A v \in BOOLEAN : v = Written => (IF v THEN tally ELSE page) = counted
<1>1. page \in Few => tally \in Some
  BY DEF Few, Some, tally
<1>2. page = Nothing => tally \in Few
  BY DEF Few, Nothing, tally
<1>3. ASSUME page = Nothing, world.source = "page", NEW v \in BOOLEAN, v = Written
      PROVE  (IF v THEN tally ELSE page) = counted
  <2>1. leftOut \in BOOLEAN
    BY DEF leftOut
  <2>2. CASE v
    BY <1>3, <2>1, <2>2 DEF Nothing, tally, counted
  <2>3. CASE ~v
    BY <1>3, <2>3 DEF Nothing, counted
  <2> QED BY <2>2, <2>3
<1> QED BY <1>1, <1>2, <1>3

\* Parsing, compiling and the scan count nothing.
LEMMA PageBegins ==
    ASSUME PageInv, ViewInv, Parse \/ CompileTerm \/ Sort \/ Scan
    PROVE  PageInv'
<1>1. /\ pc \in {"reading", "compiling", "scanning"} /\ page' = page /\ home' = home
      /\ pc' # "answered" /\ (pc' = "tail" => home = "unwritten")
  BY DEF ViewInv, Parse, ReadEnd, ReadFlag, ReadTerm, ReadBare, MissesArg, RefuseUnknown, Refuse,
         CompileTerm, Sort, Scan
<1>2. page = Nothing /\ Nothing \in Few /\ Nothing \in Some
  BY <1>1 DEF PageInv, Nothing, Few, Some
<1> QED BY <1>1, <1>2 DEF PageInv, FoundOrCounted, settled, Few, Some

LEMMA PageTest ==
    ASSUME ParseInv, TermsInv, ViewInv, MatchInv, PageInv, Test
    PROVE  PageInv'
<1>1. /\ pc = "matching" /\ world' = world /\ view' = view /\ home' = home
      /\ parsed' = parsed /\ moved' = moved /\ world \in Worlds /\ Looks
  BY MatchingLooks DEF Test, ViewInv
<1>2. /\ page \in Few /\ page \in Some /\ (view # "tail" => page = Nothing)
      /\ ~moved /\ home = "unwritten" => page = Nothing
  BY <1>1 DEF PageInv, Few, Some
<1>3. ~moved => Sees
  BY <1>1 DEF ViewInv
<1>4. counted' = counted /\ Blind("tail")' = Blind("tail")
  BY <1>1, MeaningStays
<1>5. ASSUME NEW v \in BOOLEAN, Conclude(v), (~moved /\ ~Blind(view)) => v = Written
      PROVE  PageInv'
  <2>1. page' = IF v THEN tally ELSE page
    BY <1>5 DEF Conclude
  <2>2. page' \in Some
    BY <1>1, <1>2, <2>1, Tallied
  <2>3. /\ view # "stored" => pc' = "answered"
        /\ view = "stored" => pc' \in {"counting", "tail"} /\ page' \in Few
    BY <1>1, <1>2, <1>5, <2>1, Tallied, ConcludeGoesOn DEF Concluded
  <2>4. CASE view = "stored"
    <3>1. ~moved => home # "unwritten"
      BY <1>3, <2>4 DEF Sees
    <3>2. ~Blind(view) /\ world.source = "page" /\ page = Nothing
      BY <1>1, <1>2, <2>4 DEF Blind, blindTo, Looks
    <3>3. ~moved => page' = counted
      BY <1>1, <1>5, <2>1, <3>2, Tallied
    <3> QED BY <1>1, <1>4, <2>2, <2>3, <2>4, <3>1, <3>3 DEF PageInv, FoundOrCounted, settled, Few, Some
  <2>5. CASE view # "stored"
    <3>1. pc' = "answered"
      BY <2>3, <2>5
    <3>2. ASSUME settled', ~(home = "unwritten" /\ Blind("tail")) PROVE page' = counted
      <4>1. world.source = "page" /\ ~moved /\ home # "inserted" /\ view = "tail"
        BY <1>1, <2>5, <3>2 DEF settled, Looks
      <4>2. home = "unwritten" /\ page = Nothing
        BY <1>2, <1>3, <4>1 DEF Sees
      <4>3. ~Blind(view)
        BY <3>2, <4>1, <4>2
      <4> QED BY <1>1, <1>5, <2>1, <4>1, <4>2, <4>3, Tallied
    <3>3. FoundOrCounted'
      BY <1>1, <1>4, <3>2 DEF FoundOrCounted
    <3> QED BY <2>2, <3>1, <3>3 DEF PageInv, Some
  <2> QED BY <2>4, <2>5
<1>6. CASE at > Len(terms)
  <2>1. Conclude(TRUE)
    BY <1>6 DEF Test
  <2>2. (~moved /\ ~Blind(view)) => TRUE = Written
    BY <1>6, <2>1, TestConcludes
  <2> QED BY <1>5, <2>1, <2>2
<1>7. CASE ~(at > Len(terms)) /\ ~Passed(terms[at])
  <2>1. Conclude(FALSE)
    BY <1>7 DEF Test, Passed
  <2>2. (~moved /\ ~Blind(view)) => FALSE = Written
    BY <1>7, <2>1, TestConcludes
  <2> QED BY <1>5, <2>1, <2>2
<1>8. CASE ~(at > Len(terms)) /\ Passed(terms[at])
  <2>1. page' = page /\ pc' = pc
    BY <1>8 DEF Test, Passed
  <2> QED BY <1>1, <2>1 DEF PageInv, FoundOrCounted, settled
<1> QED BY <1>6, <1>7, <1>8

\* Without a filter everything is written: the count is what the page shows.
LEMMA PageCount ==
    ASSUME ParseInv, ViewInv, PageInv, Count
    PROVE  PageInv'
<1>1. /\ pc = "counting" /\ pc' = "tail" /\ world' = world /\ home' = home /\ parsed' = parsed
      /\ world \in Worlds /\ world.source = "page" /\ world.tokens = << >> /\ parsed \in Seq(Term)
  BY DEF Count, ViewInv, ParseInv
<1>2. Written
  <2>1. Len(parsed) <= N /\ N = 0 /\ Len(parsed) \in Nat
    BY <1>1, LenProperties DEF ParseInv, N
  <2>2. DOMAIN parsed = {}
    BY <1>1, <2>1, LenProperties
  <2> QED BY <2>2 DEF Written
<1>3. counted' = counted
  BY <1>1, MeaningStays
<1>4. CASE home = "unwritten"
  <2>1. page' = Nothing
    BY <1>4 DEF Count, Nothing
  <2> QED BY <1>1, <1>4, <2>1 DEF PageInv, FoundOrCounted, settled, Nothing
<1>5. CASE home # "unwritten"
  <2>1. page' = [matched |-> 1 - (IF world.includeHidden THEN 0 ELSE CountHiddenFlows),
                 hidden |-> IF world.includeHidden THEN 0 ELSE CountHiddenFlows]
    BY <1>5 DEF Count
  <2>2. world.includeHidden \in BOOLEAN
    BY <1>1, WorldFacts
  <2>3. (IF world.includeHidden THEN 0 ELSE CountHiddenFlows) = IF leftOut THEN 1 ELSE 0
    BY <1>1, <2>2 DEF CountHiddenFlows, leftOut, Hidden
  <2>4. counted = [matched |-> IF leftOut THEN 0 ELSE 1, hidden |-> IF leftOut THEN 1 ELSE 0]
    BY <1>2 DEF counted, leftOut
  <2>5. page' = [matched |-> 1 - (IF leftOut THEN 1 ELSE 0), hidden |-> IF leftOut THEN 1 ELSE 0]
    BY <2>1, <2>3
  <2>6. page' = counted /\ page' \in Few /\ page' \in Some
    <3>1. CASE leftOut
      BY <2>4, <2>5, <3>1 DEF Few, Some
    <3>2. CASE ~leftOut
      BY <2>4, <2>5, <3>2 DEF Few, Some
    <3> QED BY <3>1, <3>2
  <2> QED BY <1>1, <1>3, <1>5, <2>6 DEF PageInv, FoundOrCounted, settled, Few, Some
<1> QED BY <1>4, <1>5

LEMMA PageMerges ==
    ASSUME ViewInv, PageInv, mergeUnflushed
    PROVE  PageInv'
<1>1. /\ pc = "tail" /\ page' = page /\ world' = world /\ home' = home /\ moved' = moved
      /\ parsed' = parsed
      /\ home \in {"unwritten", "inserted", "heldback", "written"}
  BY DEF mergeUnflushed, ViewInv
<1>2. /\ page \in Few /\ page \in Some
      /\ ~moved /\ home = "unwritten" => page = Nothing
      /\ ~moved /\ home \in {"heldback", "written"} => page = counted
  BY <1>1 DEF PageInv, Few, Some
<1>3. CASE unflushed /\ ~have
  <2>1. view' = "tail" /\ pc' = "matching"
    BY <1>3 DEF mergeUnflushed
  <2> QED BY <1>1, <1>2, <2>1 DEF PageInv, FoundOrCounted, settled, Few, Some
<1>4. CASE ~(unflushed /\ ~have)
  <2>1. pc' = "answered"
    BY <1>4 DEF mergeUnflushed
  <2>2. counted' = counted
    BY <1>1, MeaningStays
  <2>3. ASSUME settled' PROVE page = counted
    <3>1. ~moved /\ home # "inserted"
      BY <1>1, <2>3 DEF settled
    <3>2. home # "unwritten"
      BY <1>4, <3>1 DEF unflushed, have, ViewInv
    <3> QED BY <1>1, <1>2, <3>1, <3>2
  <2>4. FoundOrCounted'
    BY <1>1, <2>2, <2>3 DEF FoundOrCounted
  <2> QED BY <1>1, <1>2, <2>1, <2>4 DEF PageInv, Some
<1> QED BY <1>3, <1>4

LEMMA PageKeeps ==
    ASSUME ParseInv, TermsInv, ViewInv, MatchInv, PageInv, [Next]_vars
    PROVE  PageInv'
<1>1. CASE Flush
  <2>1. moved' = TRUE /\ pc' = pc /\ page' = page /\ view' = view
    BY <1>1 DEF Flush, query
  <2> QED BY <2>1 DEF PageInv, FoundOrCounted, settled
<1>2. CASE UNCHANGED vars
  <2>1. /\ world' = world /\ parsed' = parsed /\ moved' = moved /\ pc' = pc /\ page' = page
        /\ view' = view /\ home' = home
    BY <1>2 DEF vars
  <2>2. counted' = counted /\ Blind("tail")' = Blind("tail")
    BY <2>1, MeaningStays
  <2> QED BY <2>1, <2>2 DEF PageInv, FoundOrCounted, settled
<1> QED BY <1>1, <1>2, PageBegins, PageTest, PageCount, PageMerges DEF Next

-----------------------------------------------------------------------------
(* The invariant holds, and what it says.                                    *)

LEMMA InitHolds == Init => FilterInv
<1> SUFFICES ASSUME Init PROVE FilterInv
  OBVIOUS
<1>1. /\ world \in Worlds /\ pc = "reading" /\ at = 1 /\ parsed = << >> /\ terms = << >>
      /\ view = "none" /\ ref = FALSE /\ reads = {} /\ verdicts = << >> /\ page = Nothing
      /\ home \in {"unwritten", "inserted", "heldback", "written"} /\ moved = FALSE
  BY DEF Init, Nothing
<1>2. N \in Nat /\ Len(parsed) = 0 /\ Len(terms) = 0 /\ parsed \in Seq(Term) /\ terms \in Seq(Term)
  BY <1>1, TokenFacts, EmptySeq
<1>3. ParseInv
  <2>1. written(SubSeq(world.tokens, 1, at - 1)) = << >>
    BY <1>1, WrittenMore
  <2>2. read = << >>
    BY <1>1, ReadIsFold, Reading!FoldOfNone
  <2>3. Advised(at - 1)
    BY <1>1 DEF Advised
  <2> QED BY <1>1, <1>2, <2>1, <2>2, <2>3 DEF ParseInv
<1>4. TermsInv
  BY <1>1, <1>2 DEF TermsInv
<1>5. ViewInv
  <2>1. DOMAIN verdicts = {}
    BY <1>1
  <2> QED BY <1>1, <2>1 DEF ViewInv
<1>6. MatchInv
  BY <1>1, <1>2 DEF MatchInv, MatchIsConjunction
<1>7. PageInv
  BY <1>1 DEF PageInv, FoundOrCounted, settled, Nothing
<1> QED BY <1>3, <1>4, <1>5, <1>6, <1>7 DEF FilterInv

LEMMA FilterKeeps == FilterInv /\ [Next]_vars => FilterInv'
<1> SUFFICES ASSUME FilterInv, [Next]_vars PROVE FilterInv'
  OBVIOUS
<1>1. ParseInv /\ TermsInv /\ ViewInv /\ MatchInv /\ PageInv /\ world \in Worlds
  BY DEF FilterInv, ViewInv
<1>2. ParseInv' /\ TermsInv' /\ ViewInv'
  BY <1>1, ParseKeeps, TermsKeep, ViewKeeps
<1> QED BY <1>1, <1>2, MatchKeeps, PageKeeps DEF FilterInv

\* The advice that was due was given.
LEMMA AdviceFollows == ASSUME ParseInv, world \in Worlds PROVE AdviceIsGiven
<1> SUFFICES ASSUME pc \notin {"reading", "refused"}, NEW i \in DOMAIN world.tokens, NotAdvised(i)
             PROVE  "operator" \in hints
  BY DEF AdviceIsGiven, NotAdvised
<1>1. i \in 1 .. N /\ Advised(N) /\ parsed \in Seq(Term)
  BY TokenFacts DEF ParseInv
<1>2. PICK j \in 1 .. Len(parsed) :
        parsed[j].term = NoWord /\ parsed[j].arg # NoArg /\ isWord(j, Operators)
  BY <1>1 DEF Advised
<1>3. j \in bare
  BY <1>1, <1>2 DEF bare
<1> QED BY <1>2, <1>3 DEF hints

LEMMA ExpressionFollows == FilterInv => ExpressionIsMeant
<1> SUFFICES ASSUME FilterInv PROVE ExpressionIsMeant
  OBVIOUS
<1>0. ParseInv /\ TermsInv /\ ViewInv /\ MatchInv /\ PageInv /\ world \in Worlds
  BY DEF FilterInv, ViewInv
<1>1. /\ parsed \in Seq(Term) /\ terms \in Seq(Term)
      /\ DOMAIN parsed = 1 .. Len(parsed) /\ DOMAIN terms = 1 .. Len(terms)
      /\ MatchRest /\ MatchIsConjunction
  BY <1>0, MatchParts DEF ParseInv, TermsInv
<1>2. TypeOK
  <2>1. at \in 1 .. Len(world.tokens) + 1 /\ reads \subseteq (1 .. 2) \X Dirs
        /\ \A v \in DOMAIN verdicts : verdicts[v] \in BOOLEAN
    BY <1>1 DEF MatchRest, N
  <2>2. \A i \in DOMAIN parsed : parsed[i].term \in Tilde \cup {NoWord} /\ parsed[i].neg \in BOOLEAN
    <3>1. ASSUME NEW i \in 1 .. Len(parsed) PROVE parsed[i] \in Term
      BY <1>1, ElementOfSeq
    <3>2. ASSUME NEW p \in Term PROVE p.term \in Tilde \cup {NoWord} /\ p.neg \in BOOLEAN
      BY TermFacts
    <3> QED BY <1>1, <3>1, <3>2
  <2>3. ToSet(terms) \subseteq ToSet(parsed)
    <3>1. FromParsed
      BY <1>0 DEF TermsInv, FromParsed
    <3> QED BY <1>1, <3>1 DEF ToSet, FromParsed
  <2> QED BY <1>0, <2>1, <2>2, <2>3 DEF TypeOK, ViewInv, PageInv
<1>3. NothingDropped
  BY <1>0 DEF NothingDropped, ParseInv
<1>4. PaidInOrder
  <2> SUFFICES ASSUME NEW r \in reads, NEW i \in DOMAIN parsed, cost(parsed[i]) < r[1]
               PROVE  eval(parsed[i]) # parsed[i].neg
    BY DEF PaidInOrder
  <2>1. pc \notin {"reading", "compiling", "refused"}
    BY <1>1 DEF MatchRest
  <2>2. PICK j \in 1 .. Len(terms) : terms[j] = parsed[i]
    BY <1>0, <1>1, <2>1 DEF TermsInv
  <2> QED BY <1>1, <2>2 DEF MatchRest, Paid, Passed
<1>5. AdviceIsGiven
  BY <1>0, AdviceFollows
<1>6. StrictRefuses
  BY <1>0, <1>1 DEF StrictRefuses, ParseInv
<1> QED BY <1>1, <1>2, <1>3, <1>4, <1>5, <1>6 DEF ExpressionIsMeant

\* An accepted expression means what it says, for every expression, every record
\* and every view: parse drops no token, the cheap terms are paid for first, the
\* predicate cut short decides the written conjunction (parse, Compile, Match).
THEOREM ExpressionsAreMeant == Spec => []ExpressionIsMeant
<1>1. Spec => []FilterInv
  BY InitHolds, FilterKeeps, PTL DEF Spec
<1> QED BY <1>1, ExpressionFollows, PTL

\* A page shows the flow that matches, or counts it as hidden, exactly once,
\* wherever the flow is (QueryFlows: the scan, the count, mergeUnflushed).
THEOREM PagesFindOrCount == Spec => []FoundOrCounted
<1>1. Spec => []FilterInv
  BY InitHolds, FilterKeeps, PTL DEF Spec
<1>2. FilterInv => FoundOrCounted
  BY DEF FilterInv, PageInv
<1> QED BY <1>1, <1>2, PTL
=============================================================================
