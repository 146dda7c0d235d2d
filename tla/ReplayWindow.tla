---------------------------- MODULE ReplayWindow ----------------------------
(***************************************************************************)
(* The sliding-window duplicate filter of a secure unicast session         *)
(* (matter-transport, framing.rs, struct ReplayWindow), as operators on a  *)
(* window value.  A window is a record:                                    *)
(*   highest  the highest counter accepted, 0 before any; always "seen";   *)
(*   bitmap   the set of offsets n in 1..Width whose bit n - 1 is set, that *)
(*            is, whose counter highest - n has been accepted.             *)
(* The 32-bit word of the code is the set of its one bits; a left shift    *)
(* adds to every offset and drops those that leave the word.               *)
(***************************************************************************)
EXTENDS Integers

CONSTANTS
    Width,       \* ReplayWindow::WIDTH, 32 in the code
    MaxCounter   \* the largest counter, u32::MAX in the code

ASSUME WidthAssumption == Width \in Nat \ {0}
ASSUME MaxCounterAssumption == MaxCounter \in Nat \ {0}

Counters == 0 .. MaxCounter

Windows == [highest : Counters, bitmap : SUBSET (1 .. Width)]

\* ReplayWindow::new: synced at counter 0, nothing behind it.
NewWindow == [highest |-> 0, bitmap |-> {}]

\* A filter that forgets the highest counter is always a duplicate.
ClassifyHighestAsNew(w, counter) ==
    IF counter >= w.highest THEN "ok"
    ELSE IF w.highest - counter > Width THEN "too_old"
    ELSE IF w.highest - counter \in w.bitmap THEN "replayed"
    ELSE "ok"

\* classify: the verdicts of the code ("ok" is Ok(())).
Classify(w, counter) ==
    IF counter > w.highest THEN "ok"
    ELSE IF counter = w.highest THEN "replayed"
    ELSE IF w.highest - counter > Width THEN "too_old"
    ELSE IF w.highest - counter \in w.bitmap THEN "replayed"
    ELSE "ok"

\* The word shifted left by k bits: offsets that pass Width fall off.
ShiftLeft(bitmap, k) == {n \in 1 .. Width : n - k \in bitmap}

\* The forward jump without marking the previous highest.
RecordForgetsHighest(w, counter) ==
    IF counter > w.highest
    THEN [highest |-> counter,
          bitmap  |-> ShiftLeft(w.bitmap, counter - w.highest)]
    ELSE [w EXCEPT !.bitmap = @ \cup {w.highest - counter}]

\* The part of check_and_record that runs once classify has said "ok".
Record(w, counter) ==
    IF counter > w.highest
    THEN [highest |-> counter,
          bitmap  |-> LET shift == counter - w.highest
                      IN  IF shift > Width
                          THEN {}
                          ELSE ShiftLeft(w.bitmap, shift) \cup {shift}]
    ELSE [w EXCEPT !.bitmap = @ \cup {w.highest - counter}]
=============================================================================
