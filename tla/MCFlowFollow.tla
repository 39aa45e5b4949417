---------------------------- MODULE MCFlowFollow ----------------------------
(* FlowFollow for TLC.                                                       *)
EXTENDS FlowFollow

With(switches) ==
    [flips |-> "flips" \in switches, limited |-> "limited" \in switches,
     delayed |-> "delayed" \in switches, closes |-> "closes" \in switches]

Calm == {With({})}
Flipping == {With({"flips"})}
Limited == {With({"limited"})}
Delayed == {With({"delayed"})}
Closing == {With({"closes"})}
Mixed == Calm \cup Closing \cup {With({"flips", "limited", "delayed", "closes"})}

\* What the comments say of any history.
AnyConverges == <>[]Agrees
AnyDropMadeUpFor == missed ~> ~missed \/ stream # "live"
=============================================================================
