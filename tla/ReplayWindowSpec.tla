-------------------------- MODULE ReplayWindowSpec --------------------------
(***************************************************************************)
(* The filter as a state machine: one step is one call of                  *)
(* ReplayWindow::check_and_record, on a message that already authenticated *)
(* (session.rs decode_inbound calls it after decryption, and nothing else  *)
(* writes the window).  Counters arrive in any order and any number of     *)
(* times.                                                                  *)
(***************************************************************************)
EXTENDS ReplayWindow

VARIABLES
    filter,     \* the filter's state
    taken,      \* history: every counter accepted
    verdict     \* the counter last presented and whether it was accepted

filterVars == <<filter, taken, verdict>>

FilterInit ==
    /\ filter = NewWindow
    /\ taken = {}
    /\ verdict = [counter |-> 0, ok |-> FALSE]

\* check_and_record, Ok.
Accept(counter) ==
    /\ Classify(filter, counter) = "ok"
    /\ filter' = Record(filter, counter)
    /\ taken' = taken \cup {counter}
    /\ verdict' = [counter |-> counter, ok |-> TRUE]

\* check_and_record, Err: classify runs first, so nothing is written.
Reject(counter) ==
    /\ Classify(filter, counter) # "ok"
    /\ verdict' = [counter |-> counter, ok |-> FALSE]
    /\ UNCHANGED <<filter, taken>>

FilterNext == \E counter \in Counters : Accept(counter) \/ Reject(counter)

FilterSpec == FilterInit /\ [][FilterNext]_filterVars
-----------------------------------------------------------------------------
\* The state has the shape of the code's struct.
FilterTypeOK ==
    /\ filter \in Windows
    /\ taken \subseteq Counters
    /\ verdict \in [counter : Counters, ok : BOOLEAN]

\* The two words of the window say exactly which of the last Width + 1
\* counters were accepted, whatever order they came in: highest is the newest
\* one (0 before any), and bit n - 1 is set iff highest - n was accepted or is
\* the counter 0 the window starts at.
WindowMatchesHistory ==
    /\ \A c \in taken : c # 0 /\ c <= filter.highest
    /\ filter.highest \in taken \cup {0}
    /\ \A n \in 1 .. Width :
          n \in filter.bitmap <=> filter.highest - n \in taken \cup {0}

\* The promise: the filter behaves as the unbounded set of accepted counters,
\* limited to Width behind the newest.  In particular no counter is accepted
\* twice, and a fresh counter inside the window is never refused.
Dedup == INSTANCE MessageDedup WITH seen <- taken, last <- verdict
ImplementsDedup == Dedup!Spec
=============================================================================
