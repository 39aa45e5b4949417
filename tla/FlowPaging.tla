----------------------------- MODULE FlowPaging -----------------------------
(***************************************************************************)
(* Keyset paging of a session's flows (ADR-0012 5 and 8): the scan of      *)
(* store.QueryFlows (gateway/internal/store/query.go), mergeUnflushed,     *)
(* which folds the hub's tail into the page it returns                     *)
(* (gateway/internal/server/query.go), and a reader stepping through the   *)
(* pages by their cursors, as the TUI's pane (page_next, page_prev) and    *)
(* the MCP search do, while the session grows and is flushed.              *)
(*                                                                         *)
(* A flow is its place in the timeline, 1..N; key is the part of it that a *)
(* cursor carries, (ts_micros, frame_number) as one number.  fits says     *)
(* that the flow matches the filter and is not hidden.  One query is one   *)
(* step here: LiveReads takes it apart.                                    *)
(***************************************************************************)
EXTENDS Naturals, Sequences, FiniteSets, SequencesExt

CONSTANTS
    N,             \* bound: flows
    MaxLimit,      \* bound: rows per page
    ScanCap,       \* ScanCap: rows a query examines
    DistinctKeys,  \* does a key identify a flow?
    Sessions,      \* kinds of session: "open" has a hub with a tail, "closed" has none
    Windowed       \* kinds of session whose reader may bound the time

ASSUME PagingAssumption ==
    /\ N \in Nat \ {0}
    /\ MaxLimit \in Nat \ {0}
    /\ ScanCap \in Nat \ {0}
    /\ DistinctKeys \in BOOLEAN
    /\ Sessions \subseteq {"open", "closed"}
    /\ Windowed \subseteq Sessions

Flows == 1..N

VARIABLES
    session,   \* which kind of session it is
    key,       \* [Flows -> 1..N] a flow's cursor position
    fits,      \* flows that match
    filtered,  \* is there a filter expression?
    until,     \* until_micros, for both bounds of the window; 0 is unbounded
    limit,     \* rows asked for
    count,     \* flows published so far
    bundle,    \* flows with a row
    tail,      \* unflushedFlows
    walk,      \* the reader: "none", "forward" or "back"
    page,      \* the last answer
    seen,      \* the rows of this walk's pages, in timeline order
    start,     \* history: matching flows when the walk began
    there      \* history: matching flows when the last page was taken

requestVars == <<session, key, fits, filtered, until, limit>>
sessionVars == <<count, bundle, tail>>
walkVars == <<walk, page, seen, start, there>>
vars == <<requestVars, sessionVars, walkVars>>

inWindow(f) == until = 0 \/ key[f] <= until
Matching == {f \in bundle \cup tail : f \in fits /\ inWindow(f)}
Rows(s) == {s[i] : i \in 1..Len(s)}
NoPage == [rows |-> << >>, next |-> 0, prev |-> 0, matched |-> 0, capped |-> FALSE]

TypeOK ==
    /\ session \in Sessions
    /\ session = "closed" => tail = {}
    /\ key \in [Flows -> 1..N]
    /\ fits \subseteq Flows
    /\ filtered \in BOOLEAN
    /\ until \in 0..N
    /\ limit \in 1..MaxLimit
    /\ count \in 0..N
    /\ bundle \cup tail = 1..count
    /\ walk \in {"none", "forward", "back"}
    /\ Len(page.rows) <= limit
    /\ Rows(page.rows) \subseteq Flows
    /\ {page.next, page.prev} \subseteq 0..N
    /\ seen \in Seq(Flows)

\* Flows are numbered in timeline order; two of them share a key if they come
\* from one packet and the frame number does not tell them apart.
Init ==
    /\ session \in Sessions
    /\ key \in [Flows -> 1..N]
    /\ \A f \in Flows \ {1} : key[f - 1] < key[f] \/ (~DistinctKeys /\ key[f - 1] = key[f])
    /\ fits \in SUBSET Flows
    /\ filtered \in BOOLEAN
    /\ until \in (IF session \in Windowed THEN 0..N ELSE {0})
    /\ limit \in 1..MaxLimit
    /\ count \in (IF session = "open" THEN 0..1 ELSE {N})
    /\ bundle = 1..count
    /\ tail = {}
    /\ walk = "none"
    /\ page = NoPage
    /\ seen = << >>
    /\ start = {}
    /\ there = {}

-----------------------------------------------------------------------------
(* store.QueryFlows.                                                       *)

\* A request: its direction and its cursor.
backwards(kind) == kind \in {"before", "last"}

\* whereClause: the rows strictly past the cursor, and inside the window.
whereClause(kind, c) ==
    {f \in bundle :
        /\ kind = "after" => key[f] > c
        /\ kind = "before" => key[f] < c
        /\ inWindow(f)}

\* A set of flows in the order that `before' puts them.
inOrder(S, before) ==
    CHOOSE s \in [1..Cardinality(S) -> S] :
        \A i, j \in 1..Cardinality(S) : i < j => <<s[i], s[j]>> \in before

earlier == {p \in Flows \X Flows : p[1] < p[2]}
later == {p \in Flows \X Flows : p[1] > p[2]}

\* ORDER BY the key, in the direction of the walk.
scanOrder(kind, S) == inOrder(S, IF backwards(kind) THEN later ELSE earlier)

Upto(s, n) == SubSeq(s, 1, IF Len(s) < n THEN Len(s) ELSE n)

\* Mutant: a full page always has a cursor, rows past it or not.
cursorIfFull(hits, capped) == Len(hits) >= limit

\* The cursor that way is kept only if the scan saw a match past the page, or
\* the cap stopped it at a full page.
cursorOwed(hits, capped) == Len(hits) >= limit /\ (Len(hits) > limit \/ capped)

\* One page of the bundle; hits are the matches among the rows scanned, in scan order.
storeQuery(kind, c) ==
    LET range == scanOrder(kind, whereClause(kind, c))
        capped == (filtered \/ until # 0) /\ Len(range) > ScanCap
        hits == scanOrder(kind, Rows(Upto(range, ScanCap)) \cap fits)
        ids == Upto(hits, limit)
        far == IF ids # << >> /\ cursorOwed(hits, capped) THEN key[Last(ids)] ELSE 0
        near == IF ids # << >> THEN key[Head(ids)] ELSE 0
    IN [rows |-> IF backwards(kind) THEN Reverse(ids) ELSE ids,
        next |-> IF kind = "last" THEN 0 ELSE IF kind = "before" THEN near ELSE far,
        prev |-> IF kind = "first" THEN 0 ELSE IF kind = "after" THEN near ELSE far,
        matched |-> IF filtered \/ until # 0 THEN Len(hits) ELSE Cardinality(bundle \cap fits),
        capped |-> capped]

-----------------------------------------------------------------------------
(* mergeUnflushed.                                                         *)

\* Mutant: the tail is merged into every page, whatever its cursor.
toAddAnywhere(kind, c, rows) == {f \in tail : f \notin Rows(rows) /\ f \in fits}

\* The tail flows to add: not on the page, on the right side of the cursor, and
\* matching.  The time window is not looked at.
toAdd(kind, c, rows) ==
    {f \in tail :
        /\ f \notin Rows(rows)
        /\ kind = "after" => key[f] > c
        /\ kind = "before" => ~(key[f] > c)
        /\ f \in fits}

\* A stable sort by key: rows of the page before added ones.
stable(add) ==
    {p \in Flows \X Flows :
        \/ key[p[1]] < key[p[2]]
        \/ /\ key[p[1]] = key[p[2]]
           /\ IF (p[1] \in add) <=> (p[2] \in add) THEN p[1] < p[2] ELSE p[2] \in add}
merged(rows, add) == inOrder(Rows(rows) \cup add, stable(add))

\* Is a cursor to newer flows owed by the merged page?
nextOwed(kind, droppedBack) == droppedBack \/ kind = "before"

\* Cut to the limit: a page taken from the end keeps its tail.
fit(all, fromEnd) ==
    IF Len(all) <= limit THEN all
    ELSE IF fromEnd THEN SubSeq(all, Len(all) - limit + 1, Len(all))
    ELSE SubSeq(all, 1, limit)

mergeUnflushed(kind, c, p) ==
    LET add == toAdd(kind, c, p.rows)
        all == merged(p.rows, add)
        cut == Len(all) > limit
        fromEnd == backwards(kind)
        kept == fit(all, fromEnd)
    IN IF add = {} THEN p
       ELSE [rows |-> kept,
             next |-> IF nextOwed(kind, cut /\ ~fromEnd) THEN key[Last(kept)] ELSE 0,
             prev |-> IF (cut /\ fromEnd) \/ kind = "after" THEN key[Head(kept)] ELSE 0,
             matched |-> p.matched + Cardinality(add),
             capped |-> p.capped]

QueryFlows(kind, c) == mergeUnflushed(kind, c, storeQuery(kind, c))

-----------------------------------------------------------------------------
(* The reader.                                                             *)

\* A page is taken.
Load(kind, c) ==
    /\ page' = QueryFlows(kind, c)
    /\ there' = Matching
    /\ UNCHANGED <<requestVars, sessionVars>>

First ==
    /\ walk = "none"
    /\ walk' = "forward"
    /\ start' = Matching
    /\ Load("first", 0)
    /\ seen' = page'.rows

PageNext ==
    /\ walk = "forward"
    /\ page.next # 0
    /\ Len(seen) <= 2 * N
    /\ Load("after", page.next)
    /\ seen' = seen \o page'.rows
    /\ UNCHANGED <<walk, start>>

FromLast ==
    /\ walk = "none"
    /\ walk' = "back"
    /\ start' = Matching
    /\ Load("last", 0)
    /\ seen' = page'.rows

PagePrev ==
    /\ walk = "back"
    /\ page.prev # 0
    /\ Len(seen) <= 2 * N
    /\ Load("before", page.prev)
    /\ seen' = page'.rows \o seen
    /\ UNCHANGED <<walk, start>>

-----------------------------------------------------------------------------
(* The session, between two queries.                                       *)

\* A flow is published: it is newer than all others, and in the tail.
Publish ==
    /\ session = "open"
    /\ count < N
    /\ count' = count + 1
    /\ tail' = tail \cup {count + 1}
    /\ UNCHANGED <<requestVars, bundle, walkVars>>

\* The flusher writes a flow's row ...
Write(f) ==
    /\ f \in tail \ bundle
    /\ bundle' = bundle \cup {f}
    /\ UNCHANGED <<requestVars, count, tail, walkVars>>

\* ... and then takes it off the tail ...
Release(f) ==
    /\ f \in tail \cap bundle
    /\ tail' = tail \ {f}
    /\ UNCHANGED <<requestVars, count, bundle, walkVars>>

\* ... to which it returns while a flow that changed is written again.
Rewrite(f) ==
    /\ session = "open"
    /\ f \in bundle \ tail
    /\ tail' = tail \cup {f}
    /\ UNCHANGED <<requestVars, count, bundle, walkVars>>

\* The reader has reached the end of its walk.
Finished ==
    /\ walk # "none"
    /\ UNCHANGED vars

Next ==
    \/ First
    \/ PageNext
    \/ FromLast
    \/ PagePrev
    \/ Publish
    \/ \E f \in Flows : Write(f) \/ Release(f) \/ Rewrite(f)
    \/ Finished

Spec == Init /\ [][Next]_vars

-----------------------------------------------------------------------------
(* Properties.                                                              *)

Ascending(s) == \A i \in 1..Len(s) : \A j \in 1..Len(s) : i < j => s[i] < s[j]

\* "paging never revisits or skips a row even when several share a timestamp"
\* (store/query.go:219-221), walking forward while the session grows and its
\* flows move from hub to bundle: rows come in timeline order, each once, none
\* is left out on the way, and the last page is the end of the list.
ForwardWalkIsExact ==
    walk = "forward" =>
        /\ Ascending(seen)
        /\ page.next # 0 => \A f \in start : f <= Last(seen) => f \in Rows(seen)
        /\ page.next = 0 => start \subseteq Rows(seen)

\* The same, walking back from the end.
BackWalkIsExact ==
    walk = "back" =>
        /\ Ascending(seen)
        /\ page.prev # 0 => \A f \in start : f >= Head(seen) => f \in Rows(seen)
        /\ page.prev = 0 => start \subseteq Rows(seen)

\* ... which the bundle alone does: once the session is closed there is no tail
\* to merge, and back and forward are exact alike.
ClosedBackWalkIsExact == session = "closed" => BackWalkIsExact

Honest ==
    page.rows # << >> =>
        /\ page.next # 0 <=> \E f \in there : f > Last(page.rows)
        /\ page.prev # 0 <=> \E f \in there : f < Head(page.rows)

\* "Cursors for stepping on from this page; unset when there is nothing that way"
\* (viewer.proto:92), and set when there is: a cursor to nowhere is a phantom last
\* page (store/query.go:125-128), a missing one strands rows.  For the bundle.
CursorsAreHonest == session = "closed" /\ walk # "none" => Honest

\* The merged pages of an open session, first, next or last: a window that holds
\* the end offers no cursor past it, "otherwise the viewer [...] quietly stops
\* folding in live arrivals" (server/query.go:151-156).
LiveViewStaysAtEnd == walk = "forward" \/ (walk = "back" /\ seen = page.rows) => Honest

\* since_micros and until_micros "bound the request time" (ADR-0012 5a): no row
\* outside the window is returned.
RowsInWindow == \A i \in 1..Len(page.rows) : inWindow(page.rows[i])

\* Both ways of walking: forward through a session that grows and is flushed
\* meanwhile, back through a closed one (store/query.go:84-217, server/query.go:96-186).
WalksAreExact == ForwardWalkIsExact /\ ClosedBackWalkIsExact

\* What a page says of itself is so: its rows lie in the window asked for, and it
\* offers a cursor where there is more, and only there (store/query.go:196-245,
\* server/query.go:147-178).
PagesAreHonest == TypeOK /\ CursorsAreHonest /\ LiveViewStaysAtEnd /\ RowsInWindow

\* "a total, plus whether the cap was reached [...] never a number that is quietly
\* wrong" (ADR-0012 5).
CountIsHonest == walk # "none" /\ ~page.capped => page.matched = Cardinality(there)

=============================================================================
