---------------------------- MODULE MessageDedup ----------------------------
(***************************************************************************)
(* What the duplicate filter of a secure session promises, with no window: *)
(* a counter is accepted exactly when it is not 0, was never accepted, and *)
(* is at most Width behind every counter accepted before it.               *)
(***************************************************************************)
EXTENDS Integers

CONSTANTS Width, Counters

VARIABLES
    seen,   \* every counter accepted
    last    \* the counter last presented and whether it was accepted

vars == <<seen, last>>

Fresh(c) ==
    /\ c # 0
    /\ c \notin seen
    /\ \A s \in seen : s - c <= Width

Init ==
    /\ seen = {}
    /\ last = [counter |-> 0, ok |-> FALSE]

Accept(c) ==
    /\ Fresh(c)
    /\ seen' = seen \cup {c}
    /\ last' = [counter |-> c, ok |-> TRUE]

Reject(c) ==
    /\ ~Fresh(c)
    /\ last' = [counter |-> c, ok |-> FALSE]
    /\ UNCHANGED seen

Next == \E c \in Counters : Accept(c) \/ Reject(c)

Spec == Init /\ [][Next]_vars
=============================================================================
