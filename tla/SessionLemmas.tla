---------------------------- MODULE SessionLemmas ---------------------------
(***************************************************************************)
(* What the operations of a session preserve: recording a counter in any   *)
(* replay window, every operation on the MRP tables, for any table sizes,  *)
(* exchange ids and budgets, and every step of the session.  The duplicate *)
(* filter is correct for every window width and every counter range.       *)
(***************************************************************************)
EXTENDS SecureSession, ReplayWindowSpec, TLAPS

USE WidthAssumption, MaxCounterAssumption

\* Recording an accepted counter keeps the shape of the window.
LEMMA RecordType ==
    ASSUME NEW w \in Windows, NEW c \in Counters, Classify(w, c) = "ok"
    PROVE  Record(w, c) \in Windows
<1>1. CASE c > w.highest
  BY <1>1 DEF Record, ShiftLeft, Windows, Counters
<1>2. CASE ~(c > w.highest)
  <2>1. w.highest - c \in 1 .. Width
    BY <1>2 DEF Classify, Windows, Counters
  <2>. QED
    BY <1>2, <2>1, Zenon DEF Record, Windows, Counters
<1>. QED
  BY <1>1, <1>2, Zenon

\* check_and_record refuses the counter it has just recorded.
LEMMA RecordedIsSeen ==
    ASSUME NEW w \in Windows, NEW c \in Counters, Classify(w, c) = "ok"
    PROVE  Classify(Record(w, c), c) # "ok"
<1>1. CASE c > w.highest
  BY <1>1 DEF Record, Classify, Windows, Counters
<1>2. CASE ~(c > w.highest)
  <2>1. /\ Record(w, c).highest = w.highest
        /\ Record(w, c).bitmap = w.bitmap \cup {w.highest - c}
    BY <1>2, Zenon DEF Record, Windows
  <2>2. c < w.highest
    BY <1>2 DEF Classify, Windows, Counters
  <2>. QED
    BY <2>1, <2>2 DEF Classify, Windows, Counters
<1>. QED
  BY <1>1, <1>2, Zenon

\* It never forgets: a counter it refuses is refused after any recording.
LEMMA SeenStaysSeen ==
    ASSUME NEW w \in Windows, NEW c \in Counters, Classify(w, c) = "ok",
           NEW d \in Counters, Classify(w, d) # "ok"
    PROVE  Classify(Record(w, c), d) # "ok"
<1>1. CASE c > w.highest
  <2>. DEFINE shift == c - w.highest
  <2>1. Record(w, c).highest = c
    BY <1>1, Zenon DEF Record
  <2>2. d <= w.highest
    BY DEF Classify, Windows, Counters
  <2>3. CASE c - d > Width
    BY <1>1, <2>1, <2>2, <2>3 DEF Classify, Windows, Counters
  <2>4. CASE c - d <= Width
    <3>1. shift <= Width /\ Record(w, c).bitmap = ShiftLeft(w.bitmap, shift) \cup {shift}
      BY <1>1, <2>2, <2>4 DEF Record, Windows, Counters
    <3>2. d = w.highest \/ w.highest - d \in w.bitmap
      BY <1>1, <2>2, <2>4 DEF Classify, Windows, Counters
    <3>3. c - d \in 1 .. Width /\ (c - d) - shift = w.highest - d
      BY <1>1, <2>2, <2>4 DEF Windows, Counters
    <3>4. c - d \in Record(w, c).bitmap
      BY <3>1, <3>2, <3>3, Zenon DEF ShiftLeft, Windows, Counters
    <3>. QED
      BY <1>1, <2>1, <2>2, <3>3, <3>4 DEF Classify, Windows, Counters
  <2>. QED
    BY <2>3, <2>4 DEF Counters
<1>2. CASE ~(c > w.highest)
  <2>1. /\ Record(w, c).highest = w.highest
        /\ Record(w, c).bitmap = w.bitmap \cup {w.highest - c}
    BY <1>2, Zenon DEF Record, Windows
  <2>. QED
    BY <2>1, Zenon DEF Classify, Windows, Counters
<1>. QED
  BY <1>1, <1>2, Zenon

\* A counter that recording another makes it refuse has left the window.
LEMMA NewlyRefusedIsOld ==
    ASSUME NEW w \in Windows, NEW c \in Counters, Classify(w, c) = "ok",
           NEW d \in Counters, d # c, Classify(w, d) = "ok",
           Classify(Record(w, c), d) # "ok"
    PROVE  Record(w, c).highest - d > Width
<1>1. CASE c > w.highest
  <2>. DEFINE shift == c - w.highest
  <2>1. Record(w, c).highest = c
    BY <1>1, Zenon DEF Record
  <2>. SUFFICES ASSUME ~(c - d > Width) PROVE FALSE
    BY <2>1, Zenon
  <2>2. d < c
    BY <2>1 DEF Classify, Counters
  <2>3. c - d \in Record(w, c).bitmap
    BY <2>1, <2>2, Zenon DEF Classify, Counters
  <2>4. c - d = shift \/ c - d - shift \in w.bitmap
    BY <1>1, <2>3, Zenon DEF Record, ShiftLeft
  <2>5. c - d - shift = w.highest - d
    BY DEF Windows, Counters
  <2>6. d # w.highest
    BY DEF Classify, Windows, Counters
  <2>. QED
    BY <2>4, <2>5, <2>6 DEF Classify, Windows, Counters
<1>2. CASE ~(c > w.highest)
  <2>1. /\ Record(w, c).highest = w.highest
        /\ Record(w, c).bitmap = w.bitmap \cup {w.highest - c}
    BY <1>2, Zenon DEF Record, Windows
  <2>. QED
    BY <1>2, <2>1 DEF Classify, Windows, Counters
<1>. QED
  BY <1>1, <1>2, Zenon

\* The newest counter never goes back.
LEMMA HighestGrows ==
    ASSUME NEW w \in Windows, NEW c \in Counters
    PROVE  Record(w, c).highest >= w.highest
BY DEF Record, Windows, Counters

\* The inductive invariant: the window's type and what its words mean.
WindowInv == FilterTypeOK /\ WindowMatchesHistory

\* Under the invariant the window's verdict is the abstract one: "ok" exactly
\* for a counter that is fresh with respect to the whole history.
LEMMA VerdictIsFreshness ==
    ASSUME WindowInv, NEW c \in Counters
    PROVE  Classify(filter, c) = "ok" <=> Dedup!Fresh(c)
<1>. USE DEF WindowInv, FilterTypeOK, WindowMatchesHistory, Windows, Counters
<1>1. CASE c > filter.highest
  BY <1>1 DEF Classify, Dedup!Fresh
<1>2. CASE c = filter.highest
  BY <1>2 DEF Classify, Dedup!Fresh
<1>3. CASE c < filter.highest /\ filter.highest - c > Width
  <2>1. filter.highest \in taken
    BY <1>3
  <2>. QED
    BY <1>3, <2>1 DEF Classify, Dedup!Fresh
<1>4. CASE c < filter.highest /\ filter.highest - c <= Width
  <2>. DEFINE n == filter.highest - c
  <2>1. n \in 1 .. Width /\ filter.highest - n = c
    BY <1>4
  <2>2. n \in filter.bitmap <=> c \in taken \cup {0}
    BY <2>1, Zenon
  <2>3. \A s \in taken : s - c <= Width
    BY <1>4
  <2>. QED
    BY <1>4, <2>1, <2>2, <2>3 DEF Classify, Dedup!Fresh
<1>. QED
  BY <1>1, <1>2, <1>3, <1>4

\* Accepting a counter keeps the meaning of the window.
LEMMA AcceptKeepsInv ==
    ASSUME WindowInv, NEW c \in Counters, Accept(c)
    PROVE  WindowInv'
<1>. USE DEF WindowInv, FilterTypeOK
<1>1. FilterTypeOK'
  BY RecordType, Zenon DEF Accept, Counters
<1>2. Dedup!Fresh(c)
  BY VerdictIsFreshness, Zenon DEF Accept
<1>3. CASE c > filter.highest
  <2>. DEFINE shift == c - filter.highest
  <2>1. filter'.highest = c
    BY <1>3, Zenon DEF Accept, Record
  <2>2. ASSUME NEW n \in 1 .. Width
        PROVE  n \in filter'.bitmap <=> c - n \in taken \cup {c, 0}
    <3>1. CASE shift > Width
      <4>1. n \notin filter'.bitmap
        BY <1>3, <3>1, Zenon DEF Accept, Record
      <4>2. c - n > filter.highest /\ c - n # c
        BY <1>3, <3>1 DEF Windows, Counters
      <4>. QED
        BY <4>1, <4>2 DEF WindowMatchesHistory, Windows, Counters
    <3>2. CASE shift <= Width
      <4>1. n \in filter'.bitmap <=> n = shift \/ n - shift \in filter.bitmap
        BY <1>3, <3>2 DEF Accept, Record, ShiftLeft, Windows, Counters
      <4>2. CASE n < shift
        <5>1. n - shift \notin filter.bitmap
          BY <4>2, <1>3 DEF Windows, Counters
        <5>2. c - n > filter.highest /\ c - n # c
          BY <4>2, <1>3 DEF Windows, Counters
        <5>. QED
          BY <4>1, <4>2, <5>1, <5>2 DEF WindowMatchesHistory, Windows, Counters
      <4>3. CASE n = shift
        <5>1. c - n = filter.highest
          BY <4>3, <1>3 DEF Windows, Counters
        <5>. QED
          BY <4>1, <4>3, <5>1, Zenon DEF WindowMatchesHistory
      <4>4. CASE n > shift
        <5>1. n - shift \in 1 .. Width /\ filter.highest - (n - shift) = c - n
          BY <4>4, <1>3 DEF Windows, Counters
        <5>2. n - shift \in filter.bitmap <=> c - n \in taken \cup {0}
          BY <5>1, Zenon DEF WindowMatchesHistory
        <5>. QED
          BY <4>1, <4>4, <5>2 DEF Windows, Counters
      <4>. QED
        BY <4>2, <4>3, <4>4, <1>3 DEF Windows, Counters
    <3>. QED
      BY <3>1, <3>2, <1>3 DEF Windows, Counters
  <2>3. \A d \in taken' : d # 0 /\ d <= filter'.highest
    BY <1>2, <1>3, <2>1 DEF Accept, WindowMatchesHistory, Dedup!Fresh, Windows, Counters
  <2>4. taken' = taken \cup {c}
    BY Zenon DEF Accept
  <2>. QED
    BY <1>1, <2>1, <2>2, <2>3, <2>4, Zenon DEF WindowMatchesHistory
<1>4. CASE c <= filter.highest
  <2>1. c < filter.highest /\ filter.highest - c \in 1 .. Width
    BY <1>4 DEF Accept, Classify, Windows, Counters
  <2>2. /\ filter'.highest = filter.highest
        /\ filter'.bitmap = filter.bitmap \cup {filter.highest - c}
        /\ taken' = taken \cup {c}
    BY <1>4 DEF Accept, Record, Windows, Counters
  <2>3. ASSUME NEW n \in 1 .. Width
        PROVE  n \in filter'.bitmap <=> filter.highest - n \in taken' \cup {0}
    BY <2>1, <2>2 DEF WindowMatchesHistory, Windows, Counters
  <2>4. \A d \in taken' : d # 0 /\ d <= filter'.highest
    BY <1>2, <1>4, <2>2, Zenon DEF WindowMatchesHistory, Dedup!Fresh
  <2>. QED
    BY <1>1, <2>2, <2>3, <2>4, Zenon DEF WindowMatchesHistory
<1>. QED
  BY <1>3, <1>4 DEF Windows, Counters

\* The invariant holds in every reachable state.
THEOREM WindowCorrect == FilterSpec => [](FilterTypeOK /\ WindowMatchesHistory)
<1>1. FilterInit => WindowInv
  BY DEF FilterInit, WindowInv, FilterTypeOK, WindowMatchesHistory, NewWindow, Windows, Counters
<1>2. WindowInv /\ [FilterNext]_filterVars => WindowInv'
  <2>. SUFFICES ASSUME WindowInv, [FilterNext]_filterVars PROVE WindowInv'
    BY Zenon
  <2>1. CASE UNCHANGED filterVars
    BY <2>1, Zenon DEF filterVars, WindowInv, FilterTypeOK, WindowMatchesHistory
  <2>2. ASSUME NEW c \in Counters, Accept(c) PROVE WindowInv'
    BY <2>2, AcceptKeepsInv, Zenon
  <2>3. ASSUME NEW c \in Counters, Reject(c) PROVE WindowInv'
    BY <2>3, Zenon DEF Reject, WindowInv, FilterTypeOK, WindowMatchesHistory
  <2>. QED
    BY <2>1, <2>2, <2>3, Zenon DEF FilterNext
<1>. QED
  BY <1>1, <1>2, PTL DEF FilterSpec, WindowInv

\* The bounded window implements the unbounded set of accepted counters:
\* check_and_record accepts a counter at most once and refuses no fresh
\* counter that is at most Width behind the newest.
THEOREM WindowImplementsDedup == FilterSpec => ImplementsDedup
<1>1. FilterInit => Dedup!Init
  BY Zenon DEF FilterInit, Dedup!Init
<1>2. WindowInv /\ [FilterNext]_filterVars => [Dedup!Next]_(Dedup!vars)
  <2>. SUFFICES ASSUME WindowInv, [FilterNext]_filterVars PROVE [Dedup!Next]_(Dedup!vars)
    BY Zenon
  <2>1. CASE UNCHANGED filterVars
    BY <2>1, Zenon DEF filterVars, Dedup!vars
  <2>2. ASSUME NEW c \in Counters, Accept(c) PROVE Dedup!Next
    <3>1. Dedup!Accept(c)
      BY <2>2, VerdictIsFreshness, Zenon DEF Accept, Dedup!Accept
    <3>. QED
      BY <3>1, Zenon DEF Dedup!Next
  <2>3. ASSUME NEW c \in Counters, Reject(c) PROVE Dedup!Next
    <3>1. Dedup!Reject(c)
      BY <2>3, VerdictIsFreshness, Zenon DEF Reject, Dedup!Reject
    <3>. QED
      BY <3>1, Zenon DEF Dedup!Next
  <2>. QED
    BY <2>1, <2>2, <2>3, Zenon DEF FilterNext
<1>. QED
  BY <1>1, <1>2, WindowCorrect, PTL DEF FilterSpec, Dedup!Spec, ImplementsDedup, WindowInv
-----------------------------------------------------------------------------
USE MaxTransmissionsAssumption

Work(s) == s.pending \cup s.owed \cup s.displaced

\* The tables have their type, an exchange owes one buffered ACK at most, and
\* whatever is in a table is on a tracked exchange.
Good(s) ==
    /\ s \in MrpStates
    /\ \A a, b \in s.owed : a.xch = b.xch => a = b
    /\ \A e \in Work(s) : e.xch \in s.exchanges

\* Every tracked exchange outside X has work.
BusyBut(s, X) == \A x \in s.exchanges \ X : HasWork(s, x)

\* The fields of a table state, which the provers need spelled out.
LEMMA StateFields ==
    ASSUME NEW s \in MrpStates
    PROVE  /\ s.exchanges \subseteq ExchangeKeys
           /\ s.pending \subseteq PendingAcks
           /\ s.owed \subseteq OwedAcks
           /\ s.displaced \subseteq OwedAcks
BY Zenon DEF MrpStates

\* Work on an exchange is an entry of a table.
LEMMA WorkIsAnEntry ==
    ASSUME NEW s, NEW x
    PROVE  HasWork(s, x) <=> \E e \in Work(s) : e.xch = x
BY Zenon DEF HasWork, On, Work

\* Taking entries out of the tables disturbs nothing.
LEMMA SmallerGood ==
    ASSUME NEW s, Good(s), NEW t \in MrpStates, t.exchanges = s.exchanges,
           t.pending \subseteq s.pending, t.owed \subseteq s.owed,
           t.displaced \subseteq s.displaced
    PROVE  Good(t)
BY Zenon DEF Good, Work

\* An exchange stays busy while one of its entries stays.
LEMMA StillBusy ==
    ASSUME NEW s, NEW t, NEW X, NEW Y, BusyBut(s, Y),
           t.exchanges \subseteq s.exchanges \cup Y,
           \A e \in Work(s) : e.xch \in X \/ \E f \in Work(t) : f.xch = e.xch
    PROVE  BusyBut(t, X \cup Y)
<1>. SUFFICES ASSUME NEW x \in t.exchanges, x \notin X, x \notin Y PROVE HasWork(t, x)
  BY Zenon DEF BusyBut
<1>1. HasWork(s, x)
  BY Zenon DEF BusyBut
<1>2. PICK e \in Work(s) : e.xch = x
  BY <1>1, WorkIsAnEntry, Zenon
<1>. QED
  BY <1>2, WorkIsAnEntry, Zenon

\* reclaim_if_idle touches the exchange table only.
LEMMA ReclaimFields ==
    ASSUME NEW s \in MrpStates, NEW X
    PROVE  /\ ReclaimIfIdle(s, X) \in MrpStates
           /\ ReclaimIfIdle(s, X).exchanges = s.exchanges \ {x \in X : ~HasWork(s, x)}
           /\ ReclaimIfIdle(s, X).pending = s.pending
           /\ ReclaimIfIdle(s, X).owed = s.owed
           /\ ReclaimIfIdle(s, X).displaced = s.displaced
BY Zenon DEF ReclaimIfIdle, MrpStates

\* It loses no exchange that has work.
LEMMA ReclaimGood ==
    ASSUME NEW s, Good(s), NEW X
    PROVE  Good(ReclaimIfIdle(s, X))
<1>. DEFINE r == ReclaimIfIdle(s, X)
<1>1. s \in MrpStates
  BY Zenon DEF Good
<1>2. /\ r \in MrpStates
      /\ r.exchanges = s.exchanges \ {x \in X : ~HasWork(s, x)}
      /\ Work(r) = Work(s)
      /\ r.owed = s.owed
  BY <1>1, ReclaimFields, Zenon DEF Work
<1>3. ASSUME NEW e \in Work(s) PROVE e.xch \in r.exchanges
  <2>1. HasWork(s, e.xch)
    BY WorkIsAnEntry, Zenon
  <2>. QED
    BY <1>2, <2>1, Zenon DEF Good
<1>4. \A a, b \in r.owed : a.xch = b.xch => a = b
  BY <1>2, Zenon DEF Good
<1>5. Good(r)
  <2>. HIDE DEF r
  <2>. QED
    BY <1>2, <1>3, <1>4, Zenon DEF Good
<1>. QED
  BY <1>5, Zenon

\* It leaves no idle exchange among those it is given.
LEMMA ReclaimBusy ==
    ASSUME NEW s \in MrpStates, NEW X, NEW Y, BusyBut(s, X \cup Y)
    PROVE  BusyBut(ReclaimIfIdle(s, X), Y)
<1>. DEFINE r == ReclaimIfIdle(s, X)
<1>1. r.exchanges = s.exchanges \ {x \in X : ~HasWork(s, x)} /\ Work(r) = Work(s)
  BY ReclaimFields, Zenon DEF Work
<1>. HIDE DEF r
<1>2. ASSUME NEW x \in r.exchanges \ Y PROVE HasWork(r, x)
  <2>1. HasWork(s, x)
    BY <1>1, Zenon DEF BusyBut
  <2>. QED
    BY <1>1, <2>1, WorkIsAnEntry, Zenon
<1>. QED
  BY <1>2, Zenon DEF BusyBut, r
-----------------------------------------------------------------------------
\* mark_packet_sent_on and commit_outbound.
LEMMA SendGood ==
    ASSUME NEW s, Good(s), NEW x \in ExchangeKeys, NEW c \in Nat, NEW rel \in BOOLEAN
    PROVE  Good(Send(s, x, c, rel))
<1>. DEFINE t == [s EXCEPT !.exchanges = s.exchanges \cup {x}, !.owed = s.owed \ On(s.owed, x)]
            p == [ctr |-> c, xch |-> x, left |-> MaxTransmissions - 1]
            u == [t EXCEPT !.pending = t.pending \cup {p}]
<1>1. s \in MrpStates /\ p \in PendingAcks
  BY DEF Good, PendingAcks
<1>2. /\ t \in MrpStates
      /\ t.exchanges = s.exchanges \cup {x}
      /\ t.pending = s.pending
      /\ t.owed \subseteq s.owed
      /\ t.displaced = s.displaced
  BY <1>1, Zenon DEF MrpStates, On
<1>3. Good(t)
  <2>. HIDE DEF t
  <2>. QED
    BY <1>2, Zenon DEF Good, Work
<1>4. /\ u \in MrpStates
      /\ u.exchanges = t.exchanges
      /\ u.pending = t.pending \cup {p}
      /\ u.owed = t.owed
      /\ u.displaced = t.displaced
  <2>. HIDE DEF t, p
  <2>. QED
    BY <1>1, <1>2, Zenon DEF MrpStates
<1>5. Good(u)
  <2>1. p.xch = x
    BY Zenon
  <2>. HIDE DEF t, p, u
  <2>. QED
    BY <1>2, <1>3, <1>4, <2>1, Zenon DEF Good, Work
<1>6. Send(s, x, c, rel) = IF rel THEN u ELSE ReclaimIfIdle(t, {x})
  BY Zenon DEF Send
<1>. HIDE DEF t, p, u
<1>. QED
  BY <1>3, <1>5, <1>6, ReclaimGood, Zenon

\* What a send adds to the tables and takes from them: the ACK it carries.
LEMMA SendFields ==
    ASSUME NEW s \in MrpStates, NEW x, NEW c, NEW rel \in BOOLEAN
    PROVE  /\ Send(s, x, c, rel).pending =
                s.pending \cup (IF rel THEN {[ctr |-> c, xch |-> x,
                                             left |-> MaxTransmissions - 1]} ELSE {})
           /\ Send(s, x, c, rel).owed = s.owed \ On(s.owed, x)
           /\ Send(s, x, c, rel).displaced = s.displaced
BY Zenon DEF Send, ReclaimIfIdle, MrpStates

\* A send leaves no exchange without work: it reclaims the one it used unless
\* the message is reliable.
LEMMA SendBusy ==
    ASSUME NEW s, Good(s), NEW Y, BusyBut(s, Y), NEW x \in ExchangeKeys,
           NEW c \in Nat, NEW rel \in BOOLEAN
    PROVE  BusyBut(Send(s, x, c, rel), Y)
<1>. DEFINE t == [s EXCEPT !.exchanges = s.exchanges \cup {x}, !.owed = s.owed \ On(s.owed, x)]
            p == [ctr |-> c, xch |-> x, left |-> MaxTransmissions - 1]
            u == [t EXCEPT !.pending = t.pending \cup {p}]
<1>1. s \in MrpStates
  BY Zenon DEF Good
<1>2. /\ t \in MrpStates
      /\ t.exchanges = s.exchanges \cup {x}
      /\ t.pending = s.pending
      /\ t.owed = s.owed \ On(s.owed, x)
      /\ t.displaced = s.displaced
  BY <1>1, Zenon DEF MrpStates, On
<1>3. /\ u.exchanges = t.exchanges
      /\ Work(u) = Work(t) \cup {p}
  <2>. HIDE DEF p
  <2>. QED
    BY <1>1, Zenon DEF MrpStates, Work
<1>4. p.xch = x
  BY Zenon
<1>. HIDE DEF t, p, u
<1>5. BusyBut(s, {x} \cup Y)
  BY Zenon DEF BusyBut
<1>6. BusyBut(t, {x} \cup ({x} \cup Y))
  <2>1. \A e \in Work(s) : e.xch \in {x} \/ e \in Work(t)
    BY <1>2, Zenon DEF Work, On
  <2>. QED
    BY <1>2, <1>5, <2>1, StillBusy, Zenon
<1>7. BusyBut(u, Y)
  <2>1. \A y \in u.exchanges \ Y : HasWork(u, y)
    BY <1>3, <1>4, <1>6, WorkIsAnEntry, Zenon DEF BusyBut
  <2>. QED
    BY <2>1, Zenon DEF BusyBut
<1>8. BusyBut(ReclaimIfIdle(t, {x}), Y)
  <2>1. BusyBut(t, {x} \cup Y)
    BY <1>6, Zenon DEF BusyBut
  <2>. QED
    BY <1>2, <2>1, ReclaimBusy, Zenon
<1>9. Send(s, x, c, rel) = IF rel THEN u ELSE ReclaimIfIdle(t, {x})
  BY Zenon DEF Send, t, u, p
<1>. QED
  BY <1>7, <1>8, <1>9, Zenon

\* The A flag.
LEMMA ReceiveAckKeeps ==
    ASSUME NEW s, Good(s), NEW Y, NEW x \in Y, NEW ack, BusyBut(s, Y)
    PROVE  LET r == ReceiveAck(s, x, ack)
           IN  /\ Good(r)
               /\ BusyBut(r, Y)
               /\ r.exchanges \subseteq s.exchanges
               /\ x \in s.exchanges => x \in r.exchanges
               /\ r.pending = {p \in s.pending : p.ctr # ack}
               /\ r.owed = s.owed
               /\ r.displaced = s.displaced
<1>. DEFINE acked == {p \in s.pending : p.ctr = ack}
            X == {p.xch : p \in acked} \ {x}
            t == [s EXCEPT !.pending = s.pending \ acked]
<1>1. s \in MrpStates
  BY Zenon DEF Good
<1>2. /\ t \in MrpStates
      /\ t.exchanges = s.exchanges
      /\ t.pending = s.pending \ acked
      /\ t.owed = s.owed
      /\ t.displaced = s.displaced
  BY <1>1, Zenon DEF MrpStates
<1>3. ReceiveAck(s, x, ack) = ReclaimIfIdle(t, X)
  BY Zenon DEF ReceiveAck
<1>4. \A e \in Work(s) : e.xch \in X \cup {x} \/ e \in Work(t)
  BY <1>2, Zenon DEF Work
<1>5. x \notin X
  BY Zenon
<1>6. s.pending \ acked = {p \in s.pending : p.ctr # ack}
  BY Zenon
<1>. HIDE DEF t, X, acked
<1>7. Good(t)
  BY <1>2, SmallerGood, Zenon
<1>8. BusyBut(t, (X \cup {x}) \cup Y)
  BY <1>2, <1>4, StillBusy, Zenon
<1>9. BusyBut(t, X \cup Y)
  BY <1>8, Zenon DEF BusyBut
<1>. QED
  BY <1>2, <1>3, <1>5, <1>6, <1>7, <1>9, ReclaimGood, ReclaimBusy, ReclaimFields

\* The R flag.
LEMMA OweKeeps ==
    ASSUME NEW s, Good(s), NEW x \in s.exchanges, NEW c \in Nat,
           NEW Y, x \in Y, BusyBut(s, Y)
    PROVE  LET r == Owe(s, x, c)
           IN  /\ Good(r)
               /\ BusyBut(r, Y)
               /\ r.exchanges = s.exchanges
               /\ r.pending = s.pending
               /\ r.owed \cup r.displaced \subseteq
                     s.owed \cup s.displaced \cup {[xch |-> x, ctr |-> c]}
<1>. DEFINE a == [xch |-> x, ctr |-> c]
            r == Owe(s, x, c)
<1>1. s \in MrpStates /\ a \in OwedAcks /\ a.xch = x
  BY Zenon DEF Good, MrpStates, OwedAcks
<1>2. /\ r \in MrpStates
      /\ r.exchanges = s.exchanges
      /\ r.pending = s.pending
      /\ r.owed = (s.owed \ On(s.owed, x)) \cup {a}
      /\ s.displaced \subseteq r.displaced
      /\ r.displaced \subseteq s.displaced \cup s.owed
  <2>. HIDE DEF a
  <2>1. On(s.owed, x) \subseteq OwedAcks
    BY <1>1, Zenon DEF On, MrpStates
  <2>2. r = [s EXCEPT !.owed = (s.owed \ On(s.owed, x)) \cup {a},
                      !.displaced = IF Cardinality(s.displaced) < MaxDisplaced
                                    THEN s.displaced \cup On(s.owed, x)
                                    ELSE s.displaced]
    BY Zenon DEF Owe, a
  <2>. HIDE DEF r
  <2>. QED
    BY <1>1, <2>1, <2>2, Zenon DEF MrpStates, On
<1>. HIDE DEF a, r
<1>3. \A b, d \in r.owed : b.xch = d.xch => b = d
  BY <1>1, <1>2, Zenon DEF Good, On
<1>4. \A e \in Work(r) : e.xch \in r.exchanges
  BY <1>1, <1>2, Zenon DEF Good, Work
<1>5. \A e \in Work(s) : e.xch \in {x} \/ e \in Work(r)
  BY <1>2, Zenon DEF Work, On
<1>6. BusyBut(r, {x} \cup Y)
  BY <1>2, <1>5, StillBusy, Zenon
<1>7. BusyBut(r, Y)
  BY <1>6, Zenon DEF BusyBut
<1>. QED
  BY <1>2, <1>3, <1>4, <1>7, Zenon DEF Good, r, a

\* process_inbound.
LEMMA ProcessInboundKeeps ==
    ASSUME NEW s, Good(s), NEW Y, BusyBut(s, Y), NEW x \in ExchangeKeys,
           NEW c \in Nat, NEW ack, NEW rel \in BOOLEAN
    PROVE  LET r == ProcessInbound(s, x, c, ack, rel)
           IN  /\ Good(r)
               /\ BusyBut(r, Y)
               /\ r.pending = {p \in s.pending : p.ctr # ack}
               /\ r.owed \cup r.displaced \subseteq
                     s.owed \cup s.displaced \cup {[xch |-> x, ctr |-> c]}
<1>. DEFINE t == [s EXCEPT !.exchanges = s.exchanges \cup {x}]
            k == ReceiveAck(t, x, ack)
            o == IF rel THEN Owe(k, x, c) ELSE k
<1>1. s \in MrpStates
  BY Zenon DEF Good
<1>2. /\ t \in MrpStates
      /\ t.exchanges = s.exchanges \cup {x}
      /\ t.pending = s.pending
      /\ t.owed = s.owed
      /\ t.displaced = s.displaced
  BY <1>1, Zenon DEF MrpStates
<1>3. ProcessInbound(s, x, c, ack, rel) = ReclaimIfIdle(o, {x})
  BY Zenon DEF ProcessInbound
<1>. HIDE DEF t
<1>4. Good(t)
  BY <1>2, Zenon DEF Good, Work
<1>5. BusyBut(t, {x} \cup Y)
  <2>1. \A y \in t.exchanges \ ({x} \cup Y) : HasWork(s, y)
    BY <1>2, Zenon DEF BusyBut
  <2>2. Work(s) = Work(t)
    BY <1>2, Zenon DEF Work
  <2>. QED
    BY <2>1, <2>2, WorkIsAnEntry, Zenon DEF BusyBut
<1>6. /\ Good(k)
      /\ BusyBut(k, {x} \cup Y)
      /\ x \in k.exchanges
      /\ k.pending = {p \in s.pending : p.ctr # ack}
      /\ k.owed = s.owed
      /\ k.displaced = s.displaced
  <2>1. /\ Good(k)
        /\ BusyBut(k, {x} \cup Y)
        /\ x \in t.exchanges => x \in k.exchanges
        /\ k.pending = {p \in t.pending : p.ctr # ack}
        /\ k.owed = t.owed
        /\ k.displaced = t.displaced
    BY <1>4, <1>5, ReceiveAckKeeps
  <2>. HIDE DEF k
  <2>. QED
    BY <1>2, <2>1, Zenon
<1>. HIDE DEF k
<1>7. /\ Good(o)
      /\ BusyBut(o, {x} \cup Y)
      /\ o.pending = k.pending
      /\ o.owed \cup o.displaced \subseteq
            s.owed \cup s.displaced \cup {[xch |-> x, ctr |-> c]}
  <2>1. CASE rel
    BY <1>6, <2>1, OweKeeps
  <2>2. CASE ~rel
    BY <1>6, <2>2, Zenon
  <2>. QED
    BY <2>1, <2>2, Zenon
<1>. HIDE DEF o
<1>8. o \in MrpStates
  BY <1>7, Zenon DEF Good
<1>9. BusyBut(ReclaimIfIdle(o, {x}), Y)
  BY <1>7, <1>8, ReclaimBusy, Zenon
<1>. QED
  BY <1>3, <1>6, <1>7, <1>8, <1>9, ReclaimGood, ReclaimFields
\* The ACKs owed in r are those of s and, after a reliable message c on exchange x, one
\* for it in place of the one x owed, which is displaced or dropped.
Owing(r, s, x, c, rel) ==
    /\ ~rel => r.owed = s.owed /\ r.displaced = s.displaced
    /\ rel => /\ r.owed = (s.owed \ On(s.owed, x)) \cup {[xch |-> x, ctr |-> c]}
              /\ r.displaced = IF Cardinality(s.displaced) < MaxDisplaced
                               THEN s.displaced \cup On(s.owed, x)
                               ELSE s.displaced

\* process_inbound, on the ACKs owed.
LEMMA ProcessInboundAcks ==
    ASSUME NEW s \in MrpStates, NEW x \in ExchangeKeys, NEW c \in Nat, NEW ack,
           NEW rel \in BOOLEAN
    PROVE  Owing(ProcessInbound(s, x, c, ack, rel), s, x, c, rel)
<1>. DEFINE t == [s EXCEPT !.exchanges = s.exchanges \cup {x}]
            acked == {p \in t.pending : p.ctr = ack}
            u == [t EXCEPT !.pending = t.pending \ acked]
            k == ReceiveAck(t, x, ack)
            o == IF rel THEN Owe(k, x, c) ELSE k
<1>1. t \in MrpStates /\ t.owed = s.owed /\ t.displaced = s.displaced
  BY Zenon DEF MrpStates
<1>2. ProcessInbound(s, x, c, ack, rel) = ReclaimIfIdle(o, {x})
  BY Zenon DEF ProcessInbound
<1>. HIDE DEF t
<1>3. u \in MrpStates /\ u.owed = s.owed /\ u.displaced = s.displaced
  BY <1>1, Zenon DEF MrpStates
<1>4. k = ReclaimIfIdle(u, {p.xch : p \in acked} \ {x})
  BY Zenon DEF ReceiveAck
<1>. HIDE DEF u, acked, k
<1>5. k \in MrpStates /\ k.owed = s.owed /\ k.displaced = s.displaced
  BY <1>3, <1>4, ReclaimFields, Zenon
<1>6. CASE ~rel
  <2>1. o = k
    BY <1>6, Zenon
  <2>. QED
    BY <1>2, <1>5, <1>6, <2>1, ReclaimFields DEF Owing
<1>7. CASE rel
  <2>1. o = Owe(k, x, c)
    BY <1>7, Zenon
  <2>. DEFINE a == [xch |-> x, ctr |-> c]
              D == IF Cardinality(k.displaced) < MaxDisplaced
                   THEN k.displaced \cup On(k.owed, x) ELSE k.displaced
              O == (k.owed \ On(k.owed, x)) \cup {a}
  <2>2. o = [k EXCEPT !.owed = O, !.displaced = D]
    BY <2>1, Zenon DEF Owe
  <2>3. a \in OwedAcks
    BY Zenon DEF OwedAcks
  <2>4. O \subseteq OwedAcks /\ D \subseteq OwedAcks
    BY <1>5, <2>3, StateFields, Zenon DEF On
  <2>. HIDE DEF O, D, o
  <2>5. o \in MrpStates /\ o.owed = O /\ o.displaced = D
    BY <1>5, <2>2, <2>4, Zenon DEF MrpStates
  <2>6. /\ ReclaimIfIdle(o, {x}).owed = O
        /\ ReclaimIfIdle(o, {x}).displaced = D
    BY <2>5, ReclaimFields, Zenon
  <2>. QED
    BY <1>2, <1>5, <1>7, <2>6, Zenon DEF O, D, Owing
<1>. QED
  BY <1>6, <1>7, Zenon

-----------------------------------------------------------------------------
\* Entries leave the tables and the exchanges they leave idle are reclaimed.
LEMMA DropKeeps ==
    ASSUME NEW s, Good(s), NEW Y, BusyBut(s, Y), NEW t, Good(t), NEW X,
           t.exchanges = s.exchanges,
           \A e \in Work(s) : e.xch \in X \/ \E f \in Work(t) : f.xch = e.xch
    PROVE  Good(ReclaimIfIdle(t, X)) /\ BusyBut(ReclaimIfIdle(t, X), Y)
<1>1. t \in MrpStates
  BY Zenon DEF Good
<1>2. BusyBut(t, X \cup Y)
  BY StillBusy, Zenon
<1>. QED
  BY <1>1, <1>2, ReclaimGood, ReclaimBusy, Zenon

\* cancel_pending_outbound_ack; it reclaims nothing.
LEMMA CancelAckKeeps ==
    ASSUME NEW s, Good(s), NEW x
    PROVE  LET r == CancelAck(s, x)
           IN  /\ Good(r)
               /\ r.exchanges = s.exchanges
               /\ r.pending = s.pending
               /\ r.owed = s.owed \ On(s.owed, x)
               /\ r.displaced = s.displaced \ On(s.displaced, x)
<1>. DEFINE r == CancelAck(s, x)
<1>1. s \in MrpStates
  BY Zenon DEF Good
<1>2. /\ r \in MrpStates
      /\ r.exchanges = s.exchanges
      /\ r.pending = s.pending
      /\ r.owed = s.owed \ On(s.owed, x)
      /\ r.displaced = s.displaced \ On(s.displaced, x)
  BY <1>1, Zenon DEF MrpStates, CancelAck
<1>. HIDE DEF r
<1>3. Good(r)
  BY <1>2, SmallerGood, Zenon
<1>. QED
  BY <1>2, <1>3, Zenon DEF r

\* flush_exchange_acks_on.
LEMMA FlushExchangeKeeps ==
    ASSUME NEW s, Good(s), NEW Y, BusyBut(s, Y), NEW x
    PROVE  LET r == FlushExchange(s, x)
           IN  /\ Good(r)
               /\ BusyBut(r, Y)
               /\ r.pending = s.pending
               /\ r.owed = s.owed \ On(s.owed, x)
               /\ r.displaced = s.displaced \ On(s.displaced, x)
<1>. DEFINE t == CancelAck(s, x)
<1>1. /\ Good(t)
      /\ t.exchanges = s.exchanges
      /\ t.pending = s.pending
      /\ t.owed = s.owed \ On(s.owed, x)
      /\ t.displaced = s.displaced \ On(s.displaced, x)
  BY CancelAckKeeps, Zenon
<1>2. FlushExchange(s, x) = ReclaimIfIdle(t, {x})
  BY Zenon DEF FlushExchange
<1>. HIDE DEF t
<1>3. \A e \in Work(s) : e.xch \in {x} \/ e \in Work(t)
  BY <1>1, Zenon DEF Work, On
<1>4. Good(ReclaimIfIdle(t, {x})) /\ BusyBut(ReclaimIfIdle(t, {x}), Y)
  BY <1>1, <1>3, DropKeeps, Zenon
<1>5. t \in MrpStates
  BY <1>1, Zenon DEF Good
<1>. QED
  BY <1>1, <1>2, <1>4, <1>5, ReclaimFields

\* close_exchange_on.
LEMMA CloseExchangeKeeps ==
    ASSUME NEW s, Good(s), NEW Y, BusyBut(s, Y), NEW x
    PROVE  LET r == CloseExchange(s, x)
           IN  /\ Good(r)
               /\ BusyBut(r, Y)
               /\ r.pending = s.pending \ On(s.pending, x)
               /\ r.owed \subseteq s.owed
               /\ r.displaced \subseteq s.displaced
<1>. DEFINE r == CloseExchange(s, x)
<1>1. s \in MrpStates
  BY Zenon DEF Good
<1>2. /\ r \in MrpStates
      /\ r.exchanges = s.exchanges \ {x}
      /\ r.pending = s.pending \ On(s.pending, x)
      /\ r.owed = s.owed \ On(s.owed, x)
      /\ r.displaced = s.displaced \ On(s.displaced, x)
  BY <1>1, Zenon DEF MrpStates, CloseExchange
<1>. HIDE DEF r
<1>3. Work(r) = {e \in Work(s) : e.xch # x}
  BY <1>2, Zenon DEF Work, On
<1>4. Good(r)
  BY <1>2, <1>3, Zenon DEF Good, On
<1>5. BusyBut(r, Y)
  <2>1. \A y \in r.exchanges \ Y : HasWork(s, y) /\ y # x
    BY <1>2, Zenon DEF BusyBut
  <2>2. \A y \in r.exchanges \ Y : HasWork(r, y)
    BY <1>3, <2>1, WorkIsAnEntry, Zenon
  <2>. QED
    BY <2>2, Zenon DEF BusyBut
<1>. QED
  BY <1>2, <1>4, <1>5, Zenon DEF r

\* flush_all_acks.
LEMMA FlushAllKeeps ==
    ASSUME NEW s, Good(s), NEW Y, BusyBut(s, Y)
    PROVE  LET r == FlushAll(s)
           IN  /\ Good(r)
               /\ BusyBut(r, Y)
               /\ r.pending = s.pending
               /\ r.owed = {}
               /\ r.displaced = {}
<1>. DEFINE t == [s EXCEPT !.owed = {}, !.displaced = {}]
            X == {a.xch : a \in s.owed \cup s.displaced}
<1>1. s \in MrpStates
  BY Zenon DEF Good
<1>2. /\ t \in MrpStates
      /\ t.exchanges = s.exchanges
      /\ t.pending = s.pending
      /\ t.owed = {}
      /\ t.displaced = {}
  BY <1>1, Zenon DEF MrpStates
<1>3. FlushAll(s) = ReclaimIfIdle(t, X)
  BY Zenon DEF FlushAll
<1>4. \A e \in Work(s) : e.xch \in X \/ e \in Work(t)
  BY <1>2, Zenon DEF Work
<1>. HIDE DEF t, X
<1>5. Good(t)
  BY <1>2, SmallerGood, Zenon
<1>6. Good(ReclaimIfIdle(t, X)) /\ BusyBut(ReclaimIfIdle(t, X), Y)
  BY <1>2, <1>4, <1>5, DropKeeps, Zenon
<1>. QED
  BY <1>2, <1>3, <1>6, ReclaimFields

\* forget_ack_for.
LEMMA ForgetAckForKeeps ==
    ASSUME NEW s, Good(s), NEW Y, BusyBut(s, Y), NEW c
    PROVE  LET r == ForgetAckFor(s, c)
           IN  /\ Good(r)
               /\ BusyBut(r, Y)
               /\ r.pending = s.pending
               /\ r.owed = {a \in s.owed : a.ctr # c}
               /\ r.displaced = {a \in s.displaced : a.ctr # c}
<1>. DEFINE gone == {a \in s.owed \cup s.displaced : a.ctr = c}
            t == [s EXCEPT !.owed = s.owed \ gone, !.displaced = s.displaced \ gone]
            X == {a.xch : a \in gone}
<1>1. s \in MrpStates
  BY Zenon DEF Good
<1>2. /\ t \in MrpStates
      /\ t.exchanges = s.exchanges
      /\ t.pending = s.pending
      /\ t.owed = s.owed \ gone
      /\ t.displaced = s.displaced \ gone
  <2>. HIDE DEF gone
  <2>. QED
    BY <1>1, Zenon DEF MrpStates
<1>3. ForgetAckFor(s, c) = ReclaimIfIdle(t, X)
  BY Zenon DEF ForgetAckFor
<1>4. \A e \in Work(s) : e.xch \in X \/ e \in Work(t)
  <2>. HIDE DEF t, gone
  <2>. QED
    BY <1>2, Zenon DEF Work
<1>5. /\ s.owed \ gone = {a \in s.owed : a.ctr # c}
      /\ s.displaced \ gone = {a \in s.displaced : a.ctr # c}
  BY Zenon
<1>. HIDE DEF t, X, gone
<1>6. Good(t)
  BY <1>2, SmallerGood, Zenon
<1>7. Good(ReclaimIfIdle(t, X)) /\ BusyBut(ReclaimIfIdle(t, X), Y)
  BY <1>2, <1>4, <1>6, DropKeeps, Zenon
<1>. QED
  BY <1>2, <1>3, <1>5, <1>7, ReclaimFields

\* How often a turn for the messages `due` transmits counter c.
Resent(due, c) == IF \E p \in due : p.ctr = c /\ p.left > 0 THEN 1 ELSE 0

\* What a turn makes of the pending messages: each one left comes from one that
\* was there, and has paid for its transmission; counters stay distinct; and one
\* that is gone had no attempt left and was not sent.
LEMMA AfterTurnFacts ==
    ASSUME NEW P \in SUBSET PendingAcks, NEW due \in SUBSET P,
           \A p, q \in P : p.ctr = q.ctr => p = q
    PROVE  /\ \A q \in AfterTurn(P, due) :
                \E p \in P : p.ctr = q.ctr /\ p.left = q.left + Resent(due, q.ctr)
           /\ \A q \in AfterTurn(P, due) : q.left \in Nat
           /\ \A a, b \in AfterTurn(P, due) : a.ctr = b.ctr => a = b
           /\ \A p \in P : (\A q \in AfterTurn(P, due) : q.ctr # p.ctr)
                             => p.left = 0 /\ Resent(due, p.ctr) = 0
<1>. DEFINE Q == AfterTurn(P, due)
            Less(p) == [p EXCEPT !.left = p.left - 1]
<1>1. \A p \in P : p.left \in Nat /\ Less(p).ctr = p.ctr /\ Less(p).left = p.left - 1
  BY DEF PendingAcks
<1>2. Q = (P \ due) \cup {Less(p) : p \in {k \in due : k.left > 0}}
  BY Zenon DEF AfterTurn
<1>. HIDE DEF Q, Less
<1>3. \A q \in Q : \E p \in P : \/ p \notin due /\ q = p
                                \/ p \in due /\ p.left > 0 /\ q = Less(p)
  BY <1>2, Zenon
<1>4. \A p \in P : /\ p \notin due => p \in Q
                   /\ p \in due /\ p.left > 0 => Less(p) \in Q
  BY <1>2, Zenon
<1>5. \A p \in P : Resent(due, p.ctr) = IF p \in due /\ p.left > 0 THEN 1 ELSE 0
  BY Zenon DEF Resent
<1>6. ASSUME NEW q \in Q
      PROVE  /\ \E p \in P : p.ctr = q.ctr /\ p.left = q.left + Resent(due, q.ctr)
             /\ q.left \in Nat
  <2>1. PICK p \in P : \/ p \notin due /\ q = p
                       \/ p \in due /\ p.left > 0 /\ q = Less(p)
    BY <1>3, Zenon
  <2>. QED
    BY <1>1, <1>5, <2>1
<1>7. ASSUME NEW a \in Q, NEW b \in Q, a.ctr = b.ctr
      PROVE  a = b
  <2>1. PICK p \in P : \/ p \notin due /\ a = p
                       \/ p \in due /\ p.left > 0 /\ a = Less(p)
    BY <1>3, Zenon
  <2>2. PICK q \in P : \/ q \notin due /\ b = q
                       \/ q \in due /\ q.left > 0 /\ b = Less(q)
    BY <1>3, Zenon
  <2>3. a.ctr = p.ctr /\ b.ctr = q.ctr
    BY <1>1, <2>1, <2>2, Zenon
  <2>4. p = q
    BY <1>7, <2>3, Zenon
  <2>. QED
    BY <2>1, <2>2, <2>4, Zenon
<1>8. ASSUME NEW p \in P, \A q \in Q : q.ctr # p.ctr
      PROVE  p.left = 0 /\ Resent(due, p.ctr) = 0
  <2>1. ~(p.left > 0)
    BY <1>1, <1>4, <1>8, Zenon
  <2>. QED
    BY <1>1, <1>5, <2>1
<1>. QED
  BY <1>6, <1>7, <1>8, Zenon DEF Q

\* handle_timeout.
LEMMA HandleTimeoutKeeps ==
    ASSUME NEW s, Good(s), NEW Y, BusyBut(s, Y), NEW due \in SUBSET s.pending,
           NEW dueAcks \in SUBSET s.owed
    PROVE  LET r == HandleTimeoutMrp(s, due, dueAcks)
           IN  /\ Good(r)
               /\ BusyBut(r, Y)
               /\ r.pending = AfterTurn(s.pending, due)
               /\ r.owed = s.owed \ dueAcks
               /\ r.displaced = {}
<1>. DEFINE P == AfterTurn(s.pending, due)
            t == [s EXCEPT !.pending = P, !.owed = s.owed \ dueAcks, !.displaced = {}]
            X == {e.xch : e \in {p \in due : p.left = 0} \cup dueAcks \cup s.displaced}
<1>1. s \in MrpStates /\ s.pending \subseteq PendingAcks
  BY Zenon DEF Good, MrpStates
<1>2. ASSUME NEW p \in due, p.left > 0
      PROVE  /\ [p EXCEPT !.left = p.left - 1] \in PendingAcks
             /\ [p EXCEPT !.left = p.left - 1].xch = p.xch
             /\ [p EXCEPT !.left = p.left - 1] \in P
  BY <1>1, <1>2, SMTT(30) DEF PendingAcks, AfterTurn
<1>3. P \subseteq PendingAcks /\ s.pending \ due \subseteq P
  BY <1>1, <1>2, Zenon DEF AfterTurn
<1>4. \A q \in P : q \in s.pending \/ \E p \in due : q.xch = p.xch
  BY <1>2, Zenon DEF AfterTurn
<1>. HIDE DEF P
<1>5. /\ t \in MrpStates
      /\ t.exchanges = s.exchanges
      /\ t.pending = P
      /\ t.owed = s.owed \ dueAcks
      /\ t.displaced = {}
  BY <1>1, <1>3, Zenon DEF MrpStates
<1>6. HandleTimeoutMrp(s, due, dueAcks) = ReclaimIfIdle(t, X)
  BY Zenon DEF HandleTimeoutMrp, P
<1>7. \A e \in Work(s) : e.xch \in X \/ \E f \in Work(t) : f.xch = e.xch
  <2>. TAKE e \in Work(s)
  <2>1. CASE e \in due /\ e.left > 0
    <3>. DEFINE f == [e EXCEPT !.left = e.left - 1]
    <3>1. f \in Work(t) /\ f.xch = e.xch
      BY <1>2, <1>5, <2>1, Zenon DEF Work
    <3>. QED
      BY <3>1, Zenon
  <2>2. CASE e \in due /\ ~(e.left > 0)
    BY <1>1, <2>2 DEF PendingAcks
  <2>3. CASE e \notin due
    <3>. HIDE DEF t
    <3>. QED
      BY <1>3, <1>5, <2>3, Zenon DEF Work
  <2>. QED
    BY <2>1, <2>2, <2>3, Zenon
<1>. HIDE DEF t, X
<1>8. Good(t)
  BY <1>4, <1>5, Zenon DEF Good, Work
<1>9. Good(ReclaimIfIdle(t, X)) /\ BusyBut(ReclaimIfIdle(t, X), Y)
  BY <1>5, <1>7, <1>8, DropKeeps, Zenon
<1>. QED
  BY <1>5, <1>6, <1>9, ReclaimFields DEF P
-----------------------------------------------------------------------------
USE ExchangeIdsAssumption, FirstCounterAssumption

\* The exchanges a node may track idle: any, on a session whose transport is
\* reliable, since decode_inbound cancels the ACK there and reclaims nothing.
Exempt(n) == IF n \in TransportReliable THEN ExchangeKeys ELSE {}

\* The tables of every node are in order, and the ACKs they owe are for
\* counters.
TablesInv ==
    /\ mrp \in [Nodes -> MrpStates]
    /\ \A n \in Nodes :
         /\ Good(mrp[n])
         /\ BusyBut(mrp[n], Exempt(n))
         /\ \A a \in AcksOwed(n) : a.ctr \in Counters

TypeInv == TypeOK /\ TablesInv

\* A step that gives one node tables in order keeps TablesInv.
LEMMA TablesUpdate ==
    ASSUME TablesInv, NEW n \in Nodes, NEW r, mrp' = [mrp EXCEPT ![n] = r],
           Good(r), BusyBut(r, Exempt(n)),
           \A a \in r.owed \cup r.displaced : a.ctr \in Counters
    PROVE  TablesInv'
<1>1. r \in MrpStates
  BY Zenon DEF Good
<1>2. mrp' \in [Nodes -> MrpStates]
  BY <1>1, Zenon DEF TablesInv
<1>3. ASSUME NEW k \in Nodes
      PROVE  /\ Good(mrp'[k])
             /\ BusyBut(mrp'[k], Exempt(k))
             /\ \A a \in mrp'[k].owed \cup mrp'[k].displaced : a.ctr \in Counters
  <2>1. CASE k = n
    BY <2>1, Zenon DEF TablesInv
  <2>2. CASE k # n
    <3>1. mrp'[k] = mrp[k]
      BY <2>2, Zenon DEF TablesInv
    <3>. QED
      BY <3>1, Zenon DEF TablesInv, AcksOwed
  <2>. QED
    BY <2>1, <2>2, Zenon
<1>. QED
  BY <1>2, <1>3, Zenon DEF TablesInv, AcksOwed

\* The exchanges an application can name are exchange keys.
LEMMA KnownType ==
    ASSUME TypeOK, NEW n \in Nodes, NEW x \in Known(n)
    PROVE  x \in ExchangeKeys
<1>1. \A m \in net : m.xid \in ExchangeIds /\ m.ini \in BOOLEAN
  BY Zenon DEF TypeOK, Packets
<1>. DEFINE S == {[id |-> m.xid, ours |-> m.ini] : m \in SentBy(n)}
            H == {OfInbound(m.xid, m.ini) : m \in {k \in Heard(n) : ~k.bare}}
<1>2. CASE x \in S
  <2>1. PICK m \in SentBy(n) : x = [id |-> m.xid, ours |-> m.ini]
    BY <1>2, Zenon
  <2>. QED
    BY <1>1, <2>1, Zenon DEF SentBy, ExchangeKeys
<1>3. CASE x \in H
  <2>1. PICK m \in {k \in Heard(n) : ~k.bare} : x = OfInbound(m.xid, m.ini)
    BY <1>3, Zenon
  <2>2. m \in net
    BY Zenon DEF Heard
  <2>. QED
    BY <1>1, <2>1, <2>2, Zenon DEF OfInbound, ExchangeKeys
<1>4. Known(n) = S \cup H
  BY Zenon DEF Known
<1>. HIDE DEF S, H
<1>. QED
  BY <1>2, <1>3, <1>4, Zenon

\* What fold_timer_event adds for fired ACKs: packets of this node, under
\* counters it had not used, each under its own.
Emitted(n, acks, next, new) ==
    /\ counter' = [counter EXCEPT ![n] = next]
    /\ net' = net \cup new
    /\ \A m \in new : /\ m.from = n
                      /\ m.bare
                      /\ m.ctr >= counter[n]
                      /\ m.ctr < next
                      /\ \E a \in acks : m.ack = a.ctr
    /\ \A m1, m2 \in new : m1.ctr = m2.ctr => m1 = m2
    /\ lostAcks' \in [Nodes -> SUBSET Counters]

\* The standalone ACKs of fired timers are packets of that kind.
LEMMA EmitAcksFacts ==
    ASSUME NEW n \in Nodes, counter \in [Nodes -> 1 .. MaxCounter],
           lostAcks \in [Nodes -> SUBSET Counters],
           NEW acks, acks \subseteq OwedAcks, \A a \in acks : a.ctr \in Counters,
           EmitAcks(n, acks)
    PROVE  \E next \in counter[n] .. MaxCounter, new \in SUBSET Packets :
             Emitted(n, acks, next, new)
<1>0. PICK next \in counter[n] .. MaxCounter :
        \E num \in [acks -> counter[n] .. next] : EmitNumbered(n, acks, next, num)
  BY Zenon DEF EmitAcks
<1>1. PICK num \in [acks -> counter[n] .. next] : EmitNumbered(n, acks, next, num)
  BY <1>0, Zenon
<1>. DEFINE new == {AckPacket(n, num[a], a.xch, a.ctr) : a \in {b \in acks : num[b] < next}}
<1>2. counter[n] \in 1 .. MaxCounter /\ next \in 1 .. MaxCounter
  OBVIOUS
<1>3. ASSUME NEW m \in new
      PROVE  \E a \in acks : /\ num[a] \in counter[n] .. next
                             /\ num[a] < next
                             /\ m = AckPacket(n, num[a], a.xch, a.ctr)
  BY Zenon
<1>4. ASSUME NEW a \in acks, num[a] \in counter[n] .. next
      PROVE  AckPacket(n, num[a], a.xch, a.ctr) \in Packets
  BY <1>2, <1>4 DEF AckPacket, Packets, Counters, OwedAcks, ExchangeKeys
<1>5. new \in SUBSET Packets
  BY <1>3, <1>4, Zenon
<1>6. \A m \in new : /\ m.from = n
                     /\ m.bare
                     /\ m.ctr >= counter[n]
                     /\ m.ctr < next
                     /\ \E a \in acks : m.ack = a.ctr
  BY <1>2, <1>3 DEF AckPacket
<1>7. ASSUME NEW m1 \in new, NEW m2 \in new, m1.ctr = m2.ctr PROVE m1 = m2
  <2>1. PICK a \in acks : num[a] < next /\ m1 = AckPacket(n, num[a], a.xch, a.ctr)
    BY <1>3, Zenon
  <2>2. PICK b \in acks : num[b] < next /\ m2 = AckPacket(n, num[b], b.xch, b.ctr)
    BY <1>3, Zenon
  <2>3. num[a] = num[b]
    BY <1>7, <2>1, <2>2, Zenon DEF AckPacket
  <2>. QED
    BY <1>1, <1>2, <2>1, <2>2, <2>3 DEF EmitNumbered
<1>8. lostAcks' \in [Nodes -> SUBSET Counters]
  BY <1>1 DEF EmitNumbered
<1>9. counter' = [counter EXCEPT ![n] = next] /\ net' = net \cup new
  BY <1>1, Zenon DEF EmitNumbered
<1>. HIDE DEF new
<1>. QED
  BY <1>5, <1>6, <1>7, <1>8, <1>9, Zenon DEF Emitted
-----------------------------------------------------------------------------
\* encode_on.
LEMMA EncodeOnType ==
    ASSUME TypeInv, NEW n \in Nodes, NEW x \in ExchangeKeys, NEW want \in BOOLEAN,
           EncodeOn(n, x, want), nextXid' \in [Nodes -> ExchangeIds]
    PROVE  TypeInv'
<1>. DEFINE rel == want /\ n \notin TransportReliable
            ride == {a.ctr : a \in On(mrp[n].owed, x)}
            some == CHOOSE c \in ride : TRUE
            ack == IF ride = {} THEN NoAck ELSE some
            m == [from |-> n, ctr |-> counter[n], xid |-> x.id, ini |-> x.ours,
                  rel |-> rel, ack |-> ack, bare |-> FALSE]
            r == Send(mrp[n], x, counter[n], rel)
<1>1. /\ counter[n] < MaxCounter
      /\ net' = net \cup {m}
      /\ mrp' = [mrp EXCEPT ![n] = r]
      /\ counter' = [counter EXCEPT ![n] = counter[n] + 1]
      /\ transmitted' = [transmitted EXCEPT ![n][counter[n]] = IF rel THEN 1 ELSE 0]
      /\ UNCHANGED <<window, outcome, accepted, refused, lostAcks>>
  BY Zenon DEF EncodeOn, TypeInv, TypeOK
<1>2. counter[n] \in 1 .. MaxCounter /\ rel \in BOOLEAN
  BY Zenon DEF TypeInv, TypeOK
<1>3. ack \in Counters
  <2>1. ride \subseteq Counters
    BY Zenon DEF TypeInv, TablesInv, AcksOwed, On
  <2>. HIDE DEF ride
  <2>2. ride # {} => some \in ride
    BY Zenon
  <2>3. NoAck \in Counters
    BY DEF NoAck, Counters
  <2>. HIDE DEF some
  <2>4. CASE ride = {}
    BY <2>3, <2>4, Zenon
  <2>5. CASE ride # {}
    BY <2>1, <2>2, <2>5, Zenon
  <2>. QED
    BY <2>4, <2>5, Zenon
<1>. HIDE DEF rel, ack
<1>4. m \in Packets
  BY <1>2, <1>3 DEF Packets, ExchangeKeys, Counters
<1>5. Good(mrp[n]) /\ BusyBut(mrp[n], Exempt(n)) /\ mrp[n] \in MrpStates
  BY Zenon DEF TypeInv, TablesInv
<1>6. Good(r) /\ BusyBut(r, Exempt(n))
  BY <1>2, <1>5, SendGood, SendBusy
<1>7. r.owed \subseteq mrp[n].owed /\ r.displaced = mrp[n].displaced
  <2>1. /\ r.owed = mrp[n].owed \ On(mrp[n].owed, x)
        /\ r.displaced = mrp[n].displaced
    BY <1>2, <1>5, SendFields
  <2>. HIDE DEF r
  <2>. QED
    BY <2>1, Zenon
<1>. HIDE DEF r, m
<1>8. TablesInv'
  <2>1. \A a \in r.owed \cup r.displaced : a.ctr \in Counters
    BY <1>7, Zenon DEF TypeInv, TablesInv, AcksOwed
  <2>2. TablesInv
    BY Zenon DEF TypeInv
  <2>. QED
    BY <1>1, <1>6, <2>1, <2>2, TablesUpdate, Zenon
<1>9. counter' \in [Nodes -> 1 .. MaxCounter] /\ net' \subseteq Packets
  BY <1>1, <1>2, <1>4 DEF TypeInv, TypeOK
<1>10. transmitted' \in [Nodes -> [Counters -> Nat]]
  BY <1>1, <1>2, Zenon DEF TypeInv, TypeOK, Counters
<1>. QED
  BY <1>1, <1>8, <1>9, <1>10, Zenon DEF TypeInv, TypeOK, TablesInv, Good

\* The shared part of the actions that fire ACKs.
LEMMA EmitType ==
    ASSUME TypeInv, NEW n \in Nodes, NEW r, mrp' = [mrp EXCEPT ![n] = r],
           Good(r), BusyBut(r, Exempt(n)),
           r.owed \subseteq mrp[n].owed, r.displaced \subseteq mrp[n].displaced,
           NEW acks, acks \subseteq AcksOwed(n), EmitAcks(n, acks),
           UNCHANGED <<nextXid, window, accepted, refused>>,
           transmitted' \in [Nodes -> [Counters -> Nat]],
           outcome' \in [Nodes -> [Counters -> {"none", "acked", "expired", "aborted"}]]
    PROVE  TypeInv'
<1>1. acks \subseteq OwedAcks /\ \A a \in acks : a.ctr \in Counters
  BY Zenon DEF TypeInv, TablesInv, AcksOwed, MrpStates
<1>2. counter \in [Nodes -> 1 .. MaxCounter] /\ lostAcks \in [Nodes -> SUBSET Counters]
  BY Zenon DEF TypeInv, TypeOK
<1>3. PICK next \in counter[n] .. MaxCounter, new \in SUBSET Packets :
        Emitted(n, acks, next, new)
  BY <1>1, <1>2, EmitAcksFacts, Zenon
<1>4. counter' \in [Nodes -> 1 .. MaxCounter] /\ net' \subseteq Packets
  <2>1. counter' = [counter EXCEPT ![n] = next] /\ net' = net \cup new
    BY <1>3, Zenon DEF Emitted
  <2>2. net \subseteq Packets
    BY Zenon DEF TypeInv, TypeOK
  <2>3. next \in 1 .. MaxCounter
    BY <1>2
  <2>. QED
    BY <1>2, <2>1, <2>2, <2>3, Zenon
<1>5. TablesInv'
  <2>1. \A a \in r.owed \cup r.displaced : a.ctr \in Counters
    BY Zenon DEF TypeInv, TablesInv, AcksOwed
  <2>2. TablesInv
    BY Zenon DEF TypeInv
  <2>. QED
    BY <2>1, <2>2, TablesUpdate, Zenon
<1>. QED
  BY <1>3, <1>4, <1>5, Zenon DEF TypeInv, TypeOK, TablesInv, Good, Emitted

\* Settle keeps the outcomes' type.
LEMMA SettleType ==
    ASSUME outcome \in [Nodes -> [Counters -> {"none", "acked", "expired", "aborted"}]],
           NEW n \in Nodes, NEW after, NEW how \in {"acked", "expired", "aborted"}
    PROVE  Settle(n, after, how) \in
             [Nodes -> [Counters -> {"none", "acked", "expired", "aborted"}]]
BY Zenon DEF Settle
=============================================================================
