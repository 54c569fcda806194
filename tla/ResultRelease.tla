---------------------------- MODULE ResultRelease ----------------------------
(***************************************************************************)
(* What publishing the results of a live exam promises its candidates:     *)
(* every one of them is marked once, with an answer key; then the results  *)
(* of all are released in one step; and from then on no mark changes and   *)
(* no result is hidden again.                                              *)
(***************************************************************************)
EXTENDS Naturals

CONSTANTS
    Attempts,      \* the candidates' attempts
    Marks          \* the marks they can get; 0 is "not marked"

VARIABLES
    marks,         \* the mark of an attempt
    visible        \* attempts whose candidate sees the result

vars == <<marks, visible>>

Init ==
    /\ marks = [a \in Attempts |-> 0]
    /\ visible = {}

Mark(a) ==
    /\ visible = {} /\ marks[a] = 0
    /\ \E m \in Marks : marks' = [marks EXCEPT ![a] = m]
    /\ UNCHANGED visible

Release ==
    /\ visible = {}
    /\ \A a \in Attempts : marks[a] # 0
    /\ visible' = Attempts
    /\ UNCHANGED marks

Next == Release \/ \E a \in Attempts : Mark(a)

Spec == Init /\ [][Next]_vars
==============================================================================
