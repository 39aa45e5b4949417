---------------------------- MODULE SessionRecord ----------------------------
(***************************************************************************)
(* What a live session promises, with no word of how: no hub, no dirty or  *)
(* pending set, no batch, no lock.  Flows and frames are reported, readers *)
(* see them, and a bundle fills up behind their backs until it holds it    *)
(* all.  LiveFlush is shown to implement this (flush.go:1-10, ADR-0011).   *)
(***************************************************************************)
EXTENDS Naturals

CONSTANTS
    Flows,     \* flow ids that may be reported
    MaxFrames  \* bound: frames per flow

VARIABLES
    heard,     \* [Flows -> Nat] reports of a flow
    done,      \* flows whose bodies were reported as final
    promised,  \* [Flows -> Nat] body bytes reported up to then
    readable,  \* [Flows -> Nat] body bytes a reader can have, from anywhere
    shown,     \* [Flows -> Nat] the report viewers were told of
    arrived,   \* [Flows -> Nat] frames of a flow
    kept,      \* [Flows -> Nat] the report in the bundle
    bytes,     \* [Flows -> Nat] body bytes in the bundle
    saved,     \* frames in the bundle
    broken,    \* a parser may report behind the session's back
    outcome    \* "open", "recorded" or "failed"

record == <<heard, done, promised, readable, shown, arrived, kept, bytes, saved, broken, outcome>>

Arrived == {m \in Flows \X (1..MaxFrames) : m[2] <= arrived[m[1]]}

Init ==
    /\ heard = [f \in Flows |-> 0]
    /\ done = {}
    /\ promised = [f \in Flows |-> 0]
    /\ readable = [f \in Flows |-> 0]
    /\ shown = [f \in Flows |-> 0]
    /\ arrived = [f \in Flows |-> 0]
    /\ kept = [f \in Flows |-> 0]
    /\ bytes = [f \in Flows |-> 0]
    /\ saved = {}
    /\ broken = FALSE
    /\ outcome = "open"

\* A flow is reported: its bodies have only grown, and all of them is promised to
\* readers unless an earlier report called them final.
Hear(f) ==
    /\ heard' = [heard EXCEPT ![f] = @ + 1]
    /\ readable'[f] >= readable[f]
    /\ readable' = [readable EXCEPT ![f] = readable'[f]]
    /\ promised' = IF f \in done THEN promised ELSE [promised EXCEPT ![f] = readable'[f]]
    /\ done' \in {done, done \cup {f}}
    /\ UNCHANGED <<shown, arrived, kept, bytes, saved, broken, outcome>>

\* What was reported after the bodies were final may go again.
LoseLate ==
    /\ outcome = "open"
    /\ \A f \in Flows :
        /\ readable'[f] <= readable[f] /\ readable'[f] >= promised[f]
        /\ f \notin done => readable'[f] = readable[f]
    /\ UNCHANGED <<heard, done, promised, shown, arrived, kept, bytes, saved, broken, outcome>>

\* Viewers are told, of the last report.
Show(f) ==
    /\ outcome = "open"
    /\ shown' = [shown EXCEPT ![f] = heard[f]]
    /\ UNCHANGED <<heard, done, promised, readable, arrived, kept, bytes, saved, broken, outcome>>

Arrive(f) ==
    /\ outcome = "open"
    /\ arrived' = [arrived EXCEPT ![f] = @ + 1]
    /\ UNCHANGED <<heard, done, promised, readable, shown, kept, bytes, saved, broken, outcome>>

Break ==
    /\ broken' = TRUE
    /\ UNCHANGED <<heard, done, promised, readable, shown, arrived, kept, bytes, saved, outcome>>

\* Rows are written.  A row never becomes older, it may lose bytes that a reader has
\* from elsewhere, and no reader can tell that it was written.
KeepFlows ==
    /\ outcome = "open"
    /\ \A f \in Flows :
        /\ kept'[f] >= kept[f] /\ kept'[f] <= heard[f]
        /\ bytes'[f] <= readable[f]
    /\ UNCHANGED <<heard, done, promised, readable, shown, arrived, saved, broken, outcome>>

\* Frames are written: some that arrived, each of them for the first time.
KeepFrames ==
    /\ outcome = "open"
    /\ saved' # saved
    /\ saved \subseteq saved' /\ saved' \subseteq Arrived
    /\ UNCHANGED <<heard, done, promised, readable, shown, arrived, kept, bytes, broken, outcome>>

\* The session is recorded: every flow viewers were told of is in the bundle as they
\* were told, with all that can be read of its bodies, and so is every frame.  If a
\* parser reported behind the session's back, what it reported last may be gone.
Settle ==
    /\ outcome = "open"
    /\ outcome' = "recorded"
    /\ \A f \in Flows : shown[f] > 0 =>
        /\ kept[f] >= shown[f]
        /\ ~broken => bytes[f] = readable[f]
    /\ Arrived \subseteq saved
    /\ IF broken THEN \A f \in Flows : readable'[f] <= readable[f] /\ readable'[f] >= bytes[f]
                 ELSE readable' = readable
    /\ UNCHANGED <<heard, done, promised, shown, arrived, kept, bytes, saved, broken>>

Fail ==
    /\ outcome = "open"
    /\ outcome' = "failed"
    /\ UNCHANGED <<heard, done, promised, readable, shown, arrived, kept, bytes, saved, broken>>

Next ==
    \/ \E f \in Flows : Hear(f) \/ Show(f) \/ Arrive(f)
    \/ Break \/ LoseLate
    \/ KeepFlows \/ KeepFrames
    \/ Settle \/ Fail

Spec == Init /\ [][Next]_record
=============================================================================
