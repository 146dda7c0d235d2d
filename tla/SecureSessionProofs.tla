------------------------ MODULE SecureSessionProofs -------------------------
(***************************************************************************)
(* Safety of a secure session for any exchange ids, table sizes, counters, *)
(* window width, send bounds and choice of reliable transports, on a       *)
(* network that loses, repeats and reorders.                               *)
(***************************************************************************)
EXTENDS SessionLemmas

USE WidthAssumption, MaxCounterAssumption, ExchangeIdsAssumption,
    FirstCounterAssumption

\* handle_timeout.
LEMMA HandleTimeoutType ==
    ASSUME TypeInv, NEW n \in Nodes, NEW due \in SUBSET mrp[n].pending,
           NEW dueAcks \in SUBSET mrp[n].owed, HandleTimeout(n, due, dueAcks)
    PROVE  TypeInv'
<1>. DEFINE r == HandleTimeoutMrp(mrp[n], due, dueAcks)
<1>1. Good(mrp[n]) /\ BusyBut(mrp[n], Exempt(n))
  BY Zenon DEF TypeInv, TablesInv
<1>2. /\ Good(r)
      /\ BusyBut(r, Exempt(n))
      /\ r.pending = AfterTurn(mrp[n].pending, due)
      /\ r.owed = mrp[n].owed \ dueAcks
      /\ r.displaced = {}
  BY <1>1, HandleTimeoutKeeps, Zenon
<1>3. mrp' = [mrp EXCEPT ![n] = r]
  BY Zenon DEF HandleTimeout
<1>. HIDE DEF r
<1>4. transmitted' \in [Nodes -> [Counters -> Nat]]
  <2>. DEFINE inc(c) == IF \E p \in due : p.ctr = c /\ p.left > 0 THEN 1 ELSE 0
              g == [c \in Counters |-> transmitted[n][c] + inc(c)]
  <2>1. transmitted' = [transmitted EXCEPT ![n] = g]
    BY Zenon DEF HandleTimeout, TypeInv, TypeOK
  <2>2. \A c \in Counters : inc(c) \in Nat /\ transmitted[n][c] \in Nat
    BY DEF TypeInv, TypeOK
  <2>. HIDE DEF inc
  <2>3. g \in [Counters -> Nat]
    BY <2>2
  <2>. HIDE DEF g
  <2>. QED
    BY <2>1, <2>3, Zenon DEF TypeInv, TypeOK
<1>5. outcome' \in [Nodes -> [Counters -> {"none", "acked", "expired", "aborted"}]]
  BY SettleType, Zenon DEF HandleTimeout, TypeInv, TypeOK
<1>6. /\ EmitAcks(n, dueAcks \cup mrp[n].displaced)
      /\ UNCHANGED <<nextXid, window, accepted, refused>>
      /\ dueAcks \cup mrp[n].displaced \subseteq AcksOwed(n)
  BY Zenon DEF HandleTimeout, AcksOwed
<1>. QED
  BY <1>2, <1>3, <1>4, <1>5, <1>6, EmitType, Zenon

\* end_exchange.
LEMMA EndExchangeType ==
    ASSUME TypeInv, NEW n \in Nodes, NEW x, NEW abort \in BOOLEAN,
           EndExchange(n, x, abort)
    PROVE  TypeInv'
<1>. DEFINE f == FlushExchange(mrp[n], x)
            r == IF abort THEN CloseExchange(f, x) ELSE f
<1>1. Good(mrp[n]) /\ BusyBut(mrp[n], Exempt(n))
  BY Zenon DEF TypeInv, TablesInv
<1>2. /\ Good(f)
      /\ BusyBut(f, Exempt(n))
      /\ f.owed = mrp[n].owed \ On(mrp[n].owed, x)
      /\ f.displaced = mrp[n].displaced \ On(mrp[n].displaced, x)
  BY <1>1, FlushExchangeKeeps, Zenon
<1>3. mrp' = [mrp EXCEPT ![n] = r]
  BY Zenon DEF EndExchange
<1>. HIDE DEF f
<1>4. /\ Good(r)
      /\ BusyBut(r, Exempt(n))
      /\ r.owed \subseteq f.owed
      /\ r.displaced \subseteq f.displaced
  BY <1>2, CloseExchangeKeeps, Zenon
<1>. HIDE DEF r
<1>5. outcome' \in [Nodes -> [Counters -> {"none", "acked", "expired", "aborted"}]]
  BY SettleType, Zenon DEF EndExchange, TypeInv, TypeOK
<1>6. /\ EmitAcks(n, On(AcksOwed(n), x))
      /\ UNCHANGED <<nextXid, window, transmitted, accepted, refused>>
      /\ On(AcksOwed(n), x) \subseteq AcksOwed(n)
  BY Zenon DEF EndExchange, On
<1>7. transmitted' \in [Nodes -> [Counters -> Nat]]
  BY <1>6, Zenon DEF TypeInv, TypeOK
<1>8. r.owed \subseteq mrp[n].owed /\ r.displaced \subseteq mrp[n].displaced
  BY <1>2, <1>4, Zenon
<1>. QED
  BY <1>3, <1>4, <1>5, <1>6, <1>7, <1>8, EmitType, Zenon

\* flush_session_acks.
LEMMA FlushSessionAcksType ==
    ASSUME TypeInv, NEW n \in Nodes, FlushSessionAcks(n)
    PROVE  TypeInv'
<1>. DEFINE r == FlushAll(mrp[n])
<1>1. Good(mrp[n]) /\ BusyBut(mrp[n], Exempt(n))
  BY Zenon DEF TypeInv, TablesInv
<1>2. Good(r) /\ BusyBut(r, Exempt(n)) /\ r.owed = {} /\ r.displaced = {}
  BY <1>1, FlushAllKeeps, Zenon
<1>3. mrp' = [mrp EXCEPT ![n] = r]
  BY Zenon DEF FlushSessionAcks
<1>. HIDE DEF r
<1>4. /\ EmitAcks(n, AcksOwed(n))
      /\ UNCHANGED <<nextXid, window, transmitted, outcome, accepted, refused>>
  BY Zenon DEF FlushSessionAcks
<1>5. /\ transmitted' \in [Nodes -> [Counters -> Nat]]
      /\ outcome' \in [Nodes -> [Counters -> {"none", "acked", "expired", "aborted"}]]
  BY <1>4, Zenon DEF TypeInv, TypeOK
<1>. QED
  BY <1>2, <1>3, <1>4, <1>5, EmitType, Zenon

\* decode_inbound of a message refused for want of an exchange slot.
LEMMA DecodeTableFullType ==
    ASSUME TypeInv, NEW n \in Nodes, NEW m \in net, DecodeTableFull(n, m)
    PROVE  TypeInv'
<1>1. m.ctr \in Counters /\ window[n] \in Windows
  BY Zenon DEF TypeInv, TypeOK, Packets
<1>2. Record(window[n], m.ctr) \in Windows
  BY <1>1, RecordType, Zenon DEF DecodeTableFull
<1>3. window' \in [Nodes -> Windows] /\ refused' \in [Nodes -> SUBSET Counters]
  BY <1>1, <1>2, Zenon DEF DecodeTableFull, TypeInv, TypeOK
<1>4. UNCHANGED <<counter, nextXid, mrp, net, transmitted, outcome, accepted, lostAcks>>
  BY Zenon DEF DecodeTableFull
<1>. QED
  BY <1>3, <1>4, Zenon DEF TypeInv, TypeOK, TablesInv, AcksOwed

\* decode_inbound of a message that is taken.
LEMMA DecodeAcceptedType ==
    ASSUME TypeInv, NEW n \in Nodes, NEW m \in net, DecodeAccepted(n, m)
    PROVE  TypeInv'
<1>. DEFINE x == OfInbound(m.xid, m.ini)
            d == ProcessInbound(mrp[n], x, m.ctr, m.ack, m.rel)
            r == IF n \in TransportReliable /\ ~m.bare THEN CancelAck(d, x) ELSE d
<1>1. /\ m \in Packets
      /\ m.ctr \in Counters
      /\ m.ctr \in Nat
      /\ m.rel \in BOOLEAN
      /\ window[n] \in Windows
  <2>1. net \subseteq Packets /\ window \in [Nodes -> Windows]
    BY Zenon DEF TypeInv, TypeOK
  <2>2. m \in Packets /\ window[n] \in Windows
    BY <2>1, Zenon
  <2>. QED
    BY <2>2 DEF Packets, Counters
<1>2. x \in ExchangeKeys
  BY <1>1, Zenon DEF Packets, OfInbound, ExchangeKeys
<1>3. Good(mrp[n]) /\ BusyBut(mrp[n], Exempt(n))
  BY Zenon DEF TypeInv, TablesInv
<1>4. /\ mrp' = [mrp EXCEPT ![n] = r]
      /\ window' = [window EXCEPT ![n] = Record(window[n], m.ctr)]
      /\ Classify(window[n], m.ctr) = "ok"
      /\ accepted' = [accepted EXCEPT ![n][m.ctr] = accepted[n][m.ctr] + 1]
      /\ UNCHANGED <<counter, nextXid, net, transmitted, refused>>
  BY Zenon DEF DecodeAccepted, TypeInv, TypeOK
<1>. HIDE DEF x
<1>5. /\ Good(d)
      /\ BusyBut(d, Exempt(n))
      /\ d.owed \cup d.displaced \subseteq
            mrp[n].owed \cup mrp[n].displaced \cup {[xch |-> x, ctr |-> m.ctr]}
  BY <1>1, <1>2, <1>3, ProcessInboundKeeps, ZenonT(30)
<1>. HIDE DEF d
<1>6. /\ Good(r)
      /\ r.exchanges = d.exchanges
      /\ r.owed \subseteq d.owed
      /\ r.displaced \subseteq d.displaced
      /\ n \notin TransportReliable => r = d
  BY <1>5, CancelAckKeeps
<1>7. BusyBut(r, Exempt(n))
  <2>1. CASE n \in TransportReliable
    <3>1. r.exchanges \subseteq ExchangeKeys
      BY <1>6, Zenon DEF Good, MrpStates
    <3>. QED
      BY <2>1, <3>1, Zenon DEF BusyBut, Exempt
  <2>2. CASE n \notin TransportReliable
    BY <1>5, <1>6, <2>2, Zenon
  <2>. QED
    BY <2>1, <2>2, Zenon
<1>. HIDE DEF r
<1>8. TablesInv'
  <2>1. \A a \in mrp[n].owed \cup mrp[n].displaced : a.ctr \in Counters
    BY Zenon DEF TypeInv, TablesInv, AcksOwed
  <2>2. \A a \in r.owed \cup r.displaced : a.ctr \in Counters
    BY <1>1, <1>5, <1>6, <2>1
  <2>3. TablesInv
    BY Zenon DEF TypeInv
  <2>. QED
    BY <1>4, <1>6, <1>7, <2>2, <2>3, TablesUpdate, Zenon
<1>9. window' \in [Nodes -> Windows]
  <2>1. Record(window[n], m.ctr) \in Windows
    BY <1>1, <1>4, RecordType, Zenon
  <2>. QED
    BY <1>4, <2>1, Zenon DEF TypeInv, TypeOK
<1>10. accepted' \in [Nodes -> [Counters -> Nat]]
  <2>1. accepted \in [Nodes -> [Counters -> Nat]]
    BY Zenon DEF TypeInv, TypeOK
  <2>. QED
    BY <1>1, <1>4, <2>1
<1>11. outcome' \in [Nodes -> [Counters -> {"none", "acked", "expired", "aborted"}]]
  BY SettleType, Zenon DEF DecodeAccepted, TypeInv, TypeOK
<1>12. lostAcks' \in [Nodes -> SUBSET Counters]
  <2>. DEFINE L == {a.ctr : a \in DroppedByOwe(mrp[n], x)}
  <2>1. L \subseteq Counters
    BY Zenon DEF DroppedByOwe, On, TypeInv, TablesInv, AcksOwed
  <2>2. lostAcks' = [lostAcks EXCEPT ![n] = IF m.rel THEN lostAcks[n] \cup L ELSE lostAcks[n]]
    BY Zenon DEF DecodeAccepted, x
  <2>. HIDE DEF L
  <2>. QED
    BY <2>1, <2>2, Zenon DEF TypeInv, TypeOK
<1>. QED
  BY <1>4, <1>8, <1>9, <1>10, <1>11, <1>12, Zenon DEF TypeInv, TypeOK, TablesInv, Good

\* answer_duplicate.
LEMMA DecodeDuplicateType ==
    ASSUME TypeInv, NEW n \in Nodes, NEW m \in net, DecodeDuplicate(n, m)
    PROVE  TypeInv'
<1>. DEFINE r == ForgetAckFor(mrp[n], m.ctr)
            k == AckPacket(n, counter[n], OfInbound(m.xid, m.ini), m.ctr)
<1>1. /\ counter[n] < MaxCounter
      /\ net' = net \cup {k}
      /\ counter' = [counter EXCEPT ![n] = counter[n] + 1]
      /\ mrp' = [mrp EXCEPT ![n] = r]
      /\ UNCHANGED <<nextXid, window, transmitted, outcome, accepted, refused, lostAcks>>
  BY Zenon DEF DecodeDuplicate, history
<1>2. counter[n] \in 1 .. MaxCounter /\ m \in Packets
  BY Zenon DEF TypeInv, TypeOK
<1>3. k \in Packets
  BY <1>2 DEF AckPacket, OfInbound, Packets, Counters
<1>4. Good(mrp[n]) /\ BusyBut(mrp[n], Exempt(n))
  BY Zenon DEF TypeInv, TablesInv
<1>5. /\ Good(r)
      /\ BusyBut(r, Exempt(n))
      /\ r.pending = mrp[n].pending
      /\ r.owed = {a \in mrp[n].owed : a.ctr # m.ctr}
      /\ r.displaced = {a \in mrp[n].displaced : a.ctr # m.ctr}
  BY <1>4, ForgetAckForKeeps, SMTT(30)
<1>. HIDE DEF r, k
<1>6. TablesInv'
  <2>1. \A a \in r.owed \cup r.displaced : a.ctr \in Counters
    BY <1>5, Zenon DEF TypeInv, TablesInv, AcksOwed
  <2>2. TablesInv
    BY Zenon DEF TypeInv
  <2>. QED
    BY <1>1, <1>5, <2>1, <2>2, TablesUpdate, Zenon
<1>7. counter' \in [Nodes -> 1 .. MaxCounter] /\ net' \subseteq Packets
  BY <1>1, <1>2, <1>3 DEF TypeInv, TypeOK
<1>. QED
  BY <1>1, <1>6, <1>7, Zenon DEF TypeInv, TypeOK, TablesInv, Good

\* The steps of the session, each with inputs of their type.
LEMMA NextCases ==
    ASSUME TypeInv, Next
    PROVE  \E n \in Nodes :
             \/ \E x \in ExchangeKeys, want \in BOOLEAN :
                  EncodeOn(n, x, want) /\ nextXid' \in [Nodes -> ExchangeIds]
             \/ \E due \in SUBSET mrp[n].pending, dueAcks \in SUBSET mrp[n].owed :
                  HandleTimeout(n, due, dueAcks)
             \/ \E x \in ExchangeKeys, abort \in BOOLEAN : EndExchange(n, x, abort)
             \/ FlushSessionAcks(n)
             \/ \E m \in net \ SentBy(n) : DecodeTableFull(n, m)
             \/ \E m \in net \ SentBy(n) : DecodeAccepted(n, m)
             \/ \E m \in net \ SentBy(n) : DecodeDuplicate(n, m)
<1>. DEFINE Encodes(n) == \E x \in ExchangeKeys, want \in BOOLEAN :
                            EncodeOn(n, x, want) /\ nextXid' \in [Nodes -> ExchangeIds]
<1>0. TypeOK /\ nextXid \in [Nodes -> ExchangeIds]
  BY Zenon DEF TypeInv, TypeOK
<1>1. ASSUME NEW n \in Nodes, NEW want \in BOOLEAN, EncodeNew(n, want)
      PROVE  Encodes(n)
  <2>1. [id |-> nextXid[n], ours |-> TRUE] \in ExchangeKeys
    BY <1>0, Zenon DEF ExchangeKeys
  <2>2. nextXid' \in [Nodes -> ExchangeIds]
    BY <1>0, <1>1, Zenon DEF EncodeNew, NextXid
  <2>. QED
    BY <1>1, <2>1, <2>2, Zenon DEF EncodeNew
<1>2. ASSUME NEW n \in Nodes, NEW want \in BOOLEAN, NEW x \in Known(n),
             EncodeById(n, x.id, want)
      PROVE  Encodes(n)
  <2>1. x \in ExchangeKeys
    BY <1>0, KnownType, Zenon
  <2>2. Resolve(mrp[n], x.id) \in ExchangeKeys
    BY <2>1, Zenon DEF Resolve, ExchangeKeys
  <2>. QED
    BY <1>0, <1>2, <2>2, Zenon DEF EncodeById
<1>3. ASSUME NEW n \in Nodes, NEW want \in BOOLEAN, NEW x \in Known(n),
             EncodeWithRole(n, x, want)
      PROVE  Encodes(n)
  <2>1. x \in ExchangeKeys
    BY <1>0, KnownType, Zenon
  <2>. QED
    BY <1>0, <1>3, <2>1, Zenon DEF EncodeWithRole
<1>4. \A n \in Nodes : Known(n) \subseteq ExchangeKeys
  BY <1>0, KnownType, Zenon
<1>5. PICK n \in Nodes :
         \/ \E reliable \in BOOLEAN :
              \/ EncodeNew(n, reliable)
              \/ \E x \in Known(n) : EncodeById(n, x.id, reliable)
              \/ \E x \in Known(n) : EncodeWithRole(n, x, reliable)
         \/ \E due \in SUBSET mrp[n].pending, dueAcks \in SUBSET mrp[n].owed :
              HandleTimeout(n, due, dueAcks)
         \/ \E x \in Known(n), abort \in BOOLEAN : EndExchange(n, x, abort)
         \/ FlushSessionAcks(n)
         \/ \E m \in net \ SentBy(n) :
              \/ DecodeTableFull(n, m)
              \/ DecodeAccepted(n, m)
              \/ DecodeDuplicate(n, m)
  BY Zenon DEF Next
<1>. WITNESS n \in Nodes
<1>. HIDE DEF Encodes
<1>6. CASE \E x \in Known(n), abort \in BOOLEAN : EndExchange(n, x, abort)
  BY <1>4, <1>6, Zenon
<1>7. CASE \E m \in net \ SentBy(n) :
              \/ DecodeTableFull(n, m)
              \/ DecodeAccepted(n, m)
              \/ DecodeDuplicate(n, m)
  BY <1>7, Zenon
<1>8. CASE \E reliable \in BOOLEAN :
              \/ EncodeNew(n, reliable)
              \/ \E x \in Known(n) : EncodeById(n, x.id, reliable)
              \/ \E x \in Known(n) : EncodeWithRole(n, x, reliable)
  <2>1. Encodes(n)
    BY <1>1, <1>2, <1>3, <1>8, Zenon
  <2>. QED
    BY <2>1, Zenon DEF Encodes
<1>. QED
  BY <1>5, <1>6, <1>7, <1>8, Zenon

\* The types and tables are kept by every step.
LEMMA TypeStep ==
    ASSUME TypeInv, [Next]_vars
    PROVE  TypeInv'
<1>1. CASE UNCHANGED vars
  BY <1>1, Zenon DEF vars, TypeInv, TypeOK, TablesInv, AcksOwed
<1>2. CASE Next
  BY <1>2, NextCases, EncodeOnType, HandleTimeoutType, EndExchangeType,
     FlushSessionAcksType, DecodeTableFullType, DecodeAcceptedType, DecodeDuplicateType, Zenon
<1>. QED
  BY <1>1, <1>2, Zenon

\* The types and tables are right at the start.
LEMMA TypeInit == Init => TypeInv
<1>. SUFFICES ASSUME Init PROVE TypeInv
  BY Zenon
<1>1. NewMrp \in MrpStates
  BY Zenon DEF NewMrp, MrpStates
<1>2. NewMrp.exchanges = {} /\ NewMrp.pending = {} /\ NewMrp.owed = {} /\ NewMrp.displaced = {}
  BY Zenon DEF NewMrp
<1>3. \A n \in Nodes : mrp[n] = NewMrp
  BY Zenon DEF Init
<1>4. NewWindow \in Windows
  BY DEF NewWindow, Windows, Counters
<1>5. TypeOK
  BY <1>1, <1>2, <1>3, <1>4, Zenon DEF Init, TypeOK, Counters
<1>6. Good(NewMrp) /\ \A n : BusyBut(NewMrp, Exempt(n))
  BY <1>1, <1>2, Zenon DEF Good, Work, BusyBut
<1>. QED
  BY <1>2, <1>3, <1>5, <1>6, Zenon DEF TypeInv, TypeOK, TablesInv, AcksOwed

\* The state of both ends keeps the shape of the code's structs.
THEOREM SessionTypes == Spec => []TypeOK
<1>1. TypeInv => TypeOK
  BY Zenon DEF TypeInv
<1>. QED
  BY TypeInit, TypeStep, <1>1, PTL DEF Spec

\* The exchange table loses no exchange that has work, in whatever order
\* sends, receipts, ACKs, timers and closes come, and on sessions over
\* datagrams it leaks none.
THEOREM SessionTracksWork == Spec => []TableHoldsTheWork
<1>1. TypeInv => WorkIsTracked
  BY Zenon DEF TypeInv, TablesInv, Good, Work, WorkIsTracked, AcksOwed
<1>2. TypeInv /\ TransportReliable = {} => IdleIsReclaimed
  BY Zenon DEF TypeInv, TablesInv, BusyBut, Exempt, IdleIsReclaimed
<1>3. TypeInv => TableHoldsTheWork
  BY <1>1, <1>2, Zenon DEF TableHoldsTheWork
<1>. QED
  BY TypeInit, TypeStep, <1>3, PTL DEF Spec
-----------------------------------------------------------------------------
USE MaxTransmissionsAssumption

\* What the table and the history say of node n's messages: a waiting message
\* has spent what its budget does not hold and is not settled; a counter still
\* to be spent has no outcome.
BudgetAt(n) ==
    /\ \A p \in mrp[n].pending :
         /\ p.ctr \in Counters \ {0}
         /\ p.ctr < counter[n]
         /\ transmitted[n][p.ctr] + p.left = MaxTransmissions
         /\ outcome[n][p.ctr] = "none"
    /\ \A p, q \in mrp[n].pending : p.ctr = q.ctr => p = q
    /\ \A c \in Counters :
         /\ transmitted[n][c] <= MaxTransmissions
         /\ outcome[n][c] = "expired" => transmitted[n][c] = MaxTransmissions
         /\ c >= counter[n] => outcome[n][c] = "none"

BudgetInv == \A n \in Nodes : BudgetAt(n)

\* Node n may transmit counter c: it is the next one, or its message still waits.
Live(n, c) == c = counter[n] \/ c \in Waiting(mrp[n])

\* What a step makes pending or transmits was live.
SendsLive ==
    \A n \in Nodes :
      /\ \A p \in mrp'[n].pending : Live(n, p.ctr)
      /\ \A c \in Counters : transmitted'[n][c] # transmitted[n][c] => Live(n, c)

\* Messages leave the table by an ACK or an abort.
LEMMA ShrinkBudget ==
    ASSUME TypeInv, TypeInv', BudgetInv, NEW n \in Nodes, NEW how \in {"acked", "aborted"},
           \A k \in Nodes \ {n} : mrp'[k] = mrp[k] /\ counter'[k] = counter[k],
           counter'[n] >= counter[n], mrp'[n].pending \subseteq mrp[n].pending,
           transmitted' = transmitted,
           outcome' = Settle(n, mrp'[n], how) \/ outcome' = outcome
    PROVE  BudgetInv' /\ SendsLive
<1>0. /\ counter[n] \in Nat /\ counter'[n] \in Nat
      /\ outcome \in [Nodes -> [Counters -> {"none", "acked", "expired", "aborted"}]]
  BY DEF TypeInv, TypeOK
<1>1. ASSUME NEW k \in Nodes \ {n} PROVE BudgetAt(k)'
  <2>1. outcome'[k] = outcome[k]
    BY <1>0, Zenon DEF Settle
  <2>. QED
    BY <2>1 DEF BudgetInv, BudgetAt
<1>2. \A c \in Counters :
        outcome'[n][c] # outcome[n][c] =>
          /\ c \in Waiting(mrp[n]) \ Waiting(mrp'[n])
          /\ outcome'[n][c] = how
  BY <1>0 DEF Settle
<1>3. ASSUME NEW p \in mrp'[n].pending
      PROVE  /\ p.ctr \in Counters \ {0}
             /\ p.ctr < counter'[n]
             /\ transmitted'[n][p.ctr] + p.left = MaxTransmissions
             /\ outcome'[n][p.ctr] = "none"
  <2>1. /\ p.ctr \in Counters \ {0}
        /\ p.ctr < counter[n]
        /\ transmitted[n][p.ctr] + p.left = MaxTransmissions
        /\ outcome[n][p.ctr] = "none"
    BY Zenon DEF BudgetInv, BudgetAt
  <2>2. p.ctr \in Waiting(mrp'[n])
    BY Zenon DEF Waiting
  <2>. QED
    BY <1>0, <1>2, <2>1, <2>2 DEF Counters
<1>4. \A p, q \in mrp'[n].pending : p.ctr = q.ctr => p = q
  BY Zenon DEF BudgetInv, BudgetAt
<1>5. ASSUME NEW c \in Counters
      PROVE  /\ transmitted'[n][c] <= MaxTransmissions
             /\ outcome'[n][c] = "expired" => transmitted'[n][c] = MaxTransmissions
             /\ c >= counter'[n] => outcome'[n][c] = "none"
  <2>1. /\ transmitted[n][c] <= MaxTransmissions
        /\ outcome[n][c] = "expired" => transmitted[n][c] = MaxTransmissions
        /\ c >= counter[n] => outcome[n][c] = "none"
    BY Zenon DEF BudgetInv, BudgetAt
  <2>2. c \in Waiting(mrp[n]) => c < counter[n]
    BY DEF BudgetInv, BudgetAt, Waiting
  <2>3. c \in Nat
    BY DEF Counters
  <2>. QED
    BY <1>0, <1>2, <2>1, <2>2, <2>3
<1>6. SendsLive
  BY Zenon DEF SendsLive, Live, Waiting
<1>. QED
  BY <1>1, <1>3, <1>4, <1>5, <1>6 DEF BudgetInv, BudgetAt

\* Firing ACKs moves this node's counter forward and no other's.
LEMMA EmitMovesCounter ==
    ASSUME TypeInv, NEW n \in Nodes, NEW acks, acks \subseteq AcksOwed(n), EmitAcks(n, acks)
    PROVE  /\ counter'[n] >= counter[n]
           /\ \A k \in Nodes \ {n} : counter'[k] = counter[k]
<1>1. counter \in [Nodes -> 1 .. MaxCounter]
  BY Zenon DEF TypeInv, TypeOK
<1>2. PICK next \in counter[n] .. MaxCounter :
        \E num \in [acks -> counter[n] .. next] : EmitNumbered(n, acks, next, num)
  BY Zenon DEF EmitAcks
<1>3. counter' = [counter EXCEPT ![n] = next]
  BY <1>2, Zenon DEF EmitNumbered
<1>. QED
  BY <1>1, <1>3

\* encode_on spends one transmission of a fresh counter.
LEMMA EncodeBudget ==
    ASSUME TypeInv, TypeInv', BudgetInv, NEW n \in Nodes, NEW x \in ExchangeKeys,
           NEW want \in BOOLEAN, EncodeOn(n, x, want)
    PROVE  BudgetInv' /\ SendsLive
<1>. DEFINE rel == want /\ n \notin TransportReliable
            c0 == counter[n]
            p0 == [ctr |-> c0, xch |-> x, left |-> MaxTransmissions - 1]
<1>1. /\ mrp' = [mrp EXCEPT ![n] = Send(mrp[n], x, c0, rel)]
      /\ counter' = [counter EXCEPT ![n] = c0 + 1]
      /\ transmitted' = [transmitted EXCEPT ![n][c0] = IF rel THEN 1 ELSE 0]
      /\ outcome' = outcome
  BY Zenon DEF EncodeOn
<1>2. /\ c0 \in 1 .. MaxCounter /\ c0 \in Counters /\ rel \in BOOLEAN
      /\ mrp \in [Nodes -> MrpStates] /\ counter \in [Nodes -> 1 .. MaxCounter]
      /\ transmitted \in [Nodes -> [Counters -> Nat]]
  <2>1. /\ mrp \in [Nodes -> MrpStates] /\ counter \in [Nodes -> 1 .. MaxCounter]
        /\ transmitted \in [Nodes -> [Counters -> Nat]]
    BY Zenon DEF TypeInv, TypeOK
  <2>2. c0 \in 1 .. MaxCounter /\ rel \in BOOLEAN
    BY <2>1, Zenon
  <2>3. c0 \in Counters
    BY <2>2 DEF Counters
  <2>. QED
    BY <2>1, <2>2, <2>3, Zenon
<1>. HIDE DEF rel
<1>3. mrp'[n].pending = mrp[n].pending \cup (IF rel THEN {p0} ELSE {})
  BY <1>1, <1>2, SendFields
<1>4. \A k \in Nodes \ {n} : /\ mrp'[k] = mrp[k] /\ counter'[k] = counter[k]
                             /\ transmitted'[k] = transmitted[k] /\ outcome'[k] = outcome[k]
  BY <1>1, <1>2, Zenon
<1>5. /\ counter'[n] = c0 + 1
      /\ transmitted'[n][c0] = IF rel THEN 1 ELSE 0
      /\ \A c \in Counters \ {c0} : transmitted'[n][c] = transmitted[n][c]
  BY <1>1, <1>2, Zenon
<1>6. p0.ctr = c0 /\ p0.left = MaxTransmissions - 1
  BY Zenon
<1>. HIDE DEF p0, c0
<1>7. \A p \in mrp[n].pending : p.ctr \in Counters \ {0, c0} /\ p.ctr < c0 + 1
  <2>1. \A p \in mrp[n].pending : p.ctr \in Counters \ {0} /\ p.ctr < c0
    BY Zenon DEF BudgetInv, BudgetAt, c0
  <2>. QED
    BY <1>2, <2>1 DEF Counters
<1>8. ASSUME NEW p \in mrp'[n].pending
      PROVE  /\ p.ctr \in Counters \ {0}
             /\ p.ctr < counter'[n]
             /\ transmitted'[n][p.ctr] + p.left = MaxTransmissions
             /\ outcome'[n][p.ctr] = "none"
  <2>1. CASE p \in mrp[n].pending
    <3>1. /\ transmitted[n][p.ctr] + p.left = MaxTransmissions
          /\ outcome[n][p.ctr] = "none"
      BY <2>1, Zenon DEF BudgetInv, BudgetAt
    <3>2. p.ctr \in Counters \ {0} /\ p.ctr # c0 /\ p.ctr < c0 + 1
      BY <1>7, <2>1, Zenon
    <3>3. transmitted'[n][p.ctr] = transmitted[n][p.ctr]
      BY <1>5, <3>2, Zenon
    <3>. QED
      BY <1>1, <1>5, <3>1, <3>2, <3>3, Zenon
  <2>2. CASE rel /\ p = p0
    <3>1. outcome[n][c0] = "none"
      BY <1>2 DEF BudgetInv, BudgetAt, c0
    <3>2. c0 \in Counters \ {0} /\ c0 < c0 + 1 /\ 1 + (MaxTransmissions - 1) = MaxTransmissions
      BY <1>2
    <3>. QED
      BY <1>1, <1>5, <1>6, <2>2, <3>1, <3>2, Zenon
  <2>. QED
    BY <1>3, <2>1, <2>2, Zenon
<1>9. \A p, q \in mrp'[n].pending : p.ctr = q.ctr => p = q
  BY <1>3, <1>6, <1>7, Zenon DEF BudgetInv, BudgetAt
<1>10. ASSUME NEW c \in Counters
      PROVE  /\ transmitted'[n][c] <= MaxTransmissions
             /\ outcome'[n][c] = "expired" => transmitted'[n][c] = MaxTransmissions
             /\ c >= counter'[n] => outcome'[n][c] = "none"
  <2>1. /\ transmitted[n][c] <= MaxTransmissions
        /\ outcome[n][c] = "expired" => transmitted[n][c] = MaxTransmissions
        /\ c >= c0 => outcome[n][c] = "none"
    BY Zenon DEF BudgetInv, BudgetAt, c0
  <2>2. c \in Nat
    BY DEF Counters
  <2>3. CASE c = c0
    BY <1>1, <1>2, <1>5, <2>1, <2>3
  <2>4. CASE c # c0
    BY <1>1, <1>2, <1>5, <2>1, <2>2, <2>4, SMTT(30)
  <2>. QED
    BY <2>3, <2>4, Zenon
<1>11. SendsLive
  BY <1>3, <1>4, <1>5, <1>6, Zenon DEF SendsLive, Live, Waiting, c0
<1>. QED
  BY <1>4, <1>8, <1>9, <1>10, <1>11 DEF BudgetInv, BudgetAt

\* handle_timeout: a due message is transmitted once more, or is out of budget
\* and expires.
LEMMA TimeoutBudget ==
    ASSUME TypeInv, TypeInv', BudgetInv, NEW n \in Nodes,
           NEW due \in SUBSET mrp[n].pending, NEW dueAcks \in SUBSET mrp[n].owed,
           HandleTimeout(n, due, dueAcks)
    PROVE  BudgetInv' /\ SendsLive
<1>. DEFINE r == HandleTimeoutMrp(mrp[n], due, dueAcks)
            P == mrp[n].pending
            Q == AfterTurn(P, due)
            gone == Waiting(mrp[n]) \ Waiting(mrp'[n])
            g == [c \in Counters |-> transmitted[n][c] + Resent(due, c)]
<1>0. /\ mrp \in [Nodes -> MrpStates] /\ counter \in [Nodes -> 1 .. MaxCounter]
      /\ transmitted \in [Nodes -> [Counters -> Nat]]
      /\ outcome \in [Nodes -> [Counters -> {"none", "acked", "expired", "aborted"}]]
      /\ P \subseteq PendingAcks /\ counter'[n] \in 1 .. MaxCounter
  BY Zenon DEF TypeInv, TypeOK, MrpStates
<1>1. Good(mrp[n]) /\ BusyBut(mrp[n], Exempt(n))
  BY Zenon DEF TypeInv, TablesInv
<1>2. /\ Good(r)
      /\ BusyBut(r, Exempt(n))
      /\ r.pending = Q
      /\ r.owed = mrp[n].owed \ dueAcks
      /\ r.displaced = {}
  BY <1>1, HandleTimeoutKeeps, Zenon
<1>3. /\ mrp' = [mrp EXCEPT ![n] = r]
      /\ transmitted' = [transmitted EXCEPT ![n] = g]
      /\ outcome' = Settle(n, mrp'[n], "expired")
  BY <1>0, Zenon DEF HandleTimeout, Resent
<1>4. /\ counter'[n] >= counter[n]
      /\ \A k \in Nodes \ {n} : counter'[k] = counter[k]
  <2>1. /\ EmitAcks(n, dueAcks \cup mrp[n].displaced)
        /\ dueAcks \cup mrp[n].displaced \subseteq AcksOwed(n)
    BY Zenon DEF HandleTimeout, AcksOwed
  <2>. QED
    BY <2>1, EmitMovesCounter, Zenon
<1>. HIDE DEF r, g
<1>5. \A k \in Nodes \ {n} : /\ mrp'[k] = mrp[k] /\ counter'[k] = counter[k]
                             /\ transmitted'[k] = transmitted[k] /\ outcome'[k] = outcome[k]
  BY <1>0, <1>3, <1>4, Zenon DEF Settle
<1>6. /\ mrp'[n].pending = Q
      /\ \A c \in Counters : transmitted'[n][c] = transmitted[n][c] + Resent(due, c)
      /\ \A c \in Counters : outcome'[n][c] = IF c \in gone THEN "expired" ELSE outcome[n][c]
  BY <1>0, <1>2, <1>3, Zenon DEF Settle, g
<1>7. /\ \A p \in P : /\ p.ctr \in Counters \ {0} /\ p.ctr < counter[n]
                      /\ transmitted[n][p.ctr] + p.left = MaxTransmissions
                      /\ outcome[n][p.ctr] = "none"
      /\ \A p, q \in P : p.ctr = q.ctr => p = q
  BY Zenon DEF BudgetInv, BudgetAt
<1>8. \A c \in Counters : c \in Nat /\ transmitted[n][c] \in Nat /\ Resent(due, c) \in {0, 1}
  BY <1>0 DEF Counters, Resent
<1>9. /\ \A q \in Q : \E p \in P : p.ctr = q.ctr /\ p.left = q.left + Resent(due, q.ctr)
      /\ \A q \in Q : q.left \in Nat
      /\ \A a, b \in Q : a.ctr = b.ctr => a = b
      /\ \A p \in P : (\A q \in Q : q.ctr # p.ctr) => p.left = 0 /\ Resent(due, p.ctr) = 0
  BY <1>0, <1>7, AfterTurnFacts, Zenon
<1>10. /\ Waiting(mrp[n]) = {p.ctr : p \in P}
       /\ Waiting(mrp'[n]) = {q.ctr : q \in Q}
  BY <1>6, Zenon DEF Waiting
<1>11. counter[n] \in Nat /\ counter'[n] \in Nat
  BY <1>0
<1>. HIDE DEF P, Q
<1>12. ASSUME NEW q \in Q
       PROVE  /\ q.ctr \in Counters \ {0}
              /\ q.ctr < counter'[n]
              /\ transmitted'[n][q.ctr] + q.left = MaxTransmissions
              /\ outcome'[n][q.ctr] = "none"
  <2>1. PICK p \in P : p.ctr = q.ctr /\ p.left = q.left + Resent(due, q.ctr)
    BY <1>9, Zenon
  <2>2. /\ q.ctr \in Counters \ {0} /\ q.ctr < counter[n] /\ outcome[n][q.ctr] = "none"
        /\ transmitted[n][q.ctr] + p.left = MaxTransmissions
    BY <1>7, <2>1, Zenon
  <2>3. /\ transmitted'[n][q.ctr] = transmitted[n][q.ctr] + Resent(due, q.ctr)
        /\ outcome'[n][q.ctr] = "none"
    BY <1>6, <1>10, <2>2, Zenon
  <2>4. /\ q.ctr \in Nat /\ transmitted[n][q.ctr] \in Nat
        /\ Resent(due, q.ctr) \in {0, 1} /\ q.left \in Nat
    BY <1>8, <1>9, <2>2, Zenon
  <2>5. q.ctr < counter'[n]
    BY <1>4, <1>11, <2>2, <2>4
  <2>6. transmitted'[n][q.ctr] + q.left = MaxTransmissions
    BY <2>1, <2>2, <2>3, <2>4
  <2>. QED
    BY <2>2, <2>3, <2>5, <2>6, Zenon
<1>13. ASSUME NEW c \in Counters
       PROVE  /\ transmitted'[n][c] <= MaxTransmissions
              /\ outcome'[n][c] = "expired" => transmitted'[n][c] = MaxTransmissions
              /\ c >= counter'[n] => outcome'[n][c] = "none"
  <2>1. /\ transmitted[n][c] <= MaxTransmissions
        /\ outcome[n][c] = "expired" => transmitted[n][c] = MaxTransmissions
        /\ c >= counter[n] => outcome[n][c] = "none"
    BY Zenon DEF BudgetInv, BudgetAt
  <2>2. /\ transmitted'[n][c] = transmitted[n][c] + Resent(due, c)
        /\ outcome'[n][c] = IF c \in gone THEN "expired" ELSE outcome[n][c]
        /\ c \in Nat /\ transmitted[n][c] \in Nat /\ Resent(due, c) \in {0, 1}
    BY <1>6, <1>8, Zenon
  <2>3. ASSUME c \in gone
        PROVE  Resent(due, c) = 0 /\ transmitted[n][c] = MaxTransmissions /\ c < counter[n]
    <3>1. PICK p \in P : p.ctr = c
      BY <1>10, <2>3, Zenon
    <3>2. p.left = 0 /\ Resent(due, c) = 0
      BY <1>9, <1>10, <2>3, <3>1, Zenon
    <3>3. transmitted[n][c] + p.left = MaxTransmissions /\ c < counter[n]
      BY <1>7, <3>1, Zenon
    <3>. QED
      BY <2>2, <3>2, <3>3
  <2>4. ASSUME Resent(due, c) # 0
        PROVE  transmitted[n][c] + 1 <= MaxTransmissions /\ outcome[n][c] = "none"
    <3>1. PICK p \in P : p.ctr = c /\ p.left > 0
      BY <2>4, Zenon DEF Resent, P
    <3>2. /\ transmitted[n][c] + p.left = MaxTransmissions /\ outcome[n][c] = "none"
      BY <1>7, <3>1, Zenon
    <3>3. p.left \in Nat
      BY <1>0 DEF PendingAcks
    <3>. QED
      BY <2>2, <3>1, <3>2, <3>3
  <2>. HIDE DEF gone
  <2>5. transmitted'[n][c] <= MaxTransmissions
    BY <2>1, <2>2, <2>4
  <2>6. outcome'[n][c] = "expired" => transmitted'[n][c] = MaxTransmissions
    BY <2>1, <2>2, <2>3, <2>4
  <2>7. c >= counter'[n] => outcome'[n][c] = "none"
    BY <1>4, <1>11, <2>1, <2>2, <2>3
  <2>. QED
    BY <2>5, <2>6, <2>7, Zenon
<1>14. SendsLive
  <2>1. \A q \in Q : q.ctr \in Waiting(mrp[n])
    BY <1>9, Zenon DEF Waiting, P
  <2>2. \A c \in Counters : transmitted'[n][c] # transmitted[n][c] => c \in Waiting(mrp[n])
    <3>1. \A c \in Counters : Resent(due, c) = 0 => transmitted'[n][c] = transmitted[n][c]
      BY <1>6, <1>8
    <3>2. \A c \in Counters : Resent(due, c) # 0 => c \in Waiting(mrp[n])
      BY Zenon DEF Resent, Waiting
    <3>. QED
      BY <3>1, <3>2, Zenon
  <2>. QED
    BY <1>5, <1>6, <2>1, <2>2, Zenon DEF SendsLive, Live, Waiting
<1>. QED
  BY <1>5, <1>6, <1>9, <1>12, <1>13, <1>14 DEF BudgetInv, BudgetAt

\* Every transmission of a reliable message is paid for by its budget.
LEMMA BudgetStep ==
    ASSUME TypeInv, BudgetInv, [Next]_vars
    PROVE  BudgetInv' /\ SendsLive
<1>0. /\ TypeInv'
      /\ mrp \in [Nodes -> MrpStates] /\ counter \in [Nodes -> 1 .. MaxCounter]
      /\ \A n \in Nodes : Good(mrp[n]) /\ BusyBut(mrp[n], Exempt(n))
  BY TypeStep, Zenon DEF TypeInv, TypeOK, TablesInv
<1>1. CASE UNCHANGED vars
  BY <1>1, Zenon DEF vars, BudgetInv, BudgetAt, SendsLive, Live, Waiting
<1>2. ASSUME NEW n \in Nodes, NEW x \in ExchangeKeys, NEW abort \in BOOLEAN,
             EndExchange(n, x, abort)
      PROVE  BudgetInv' /\ SendsLive
  <2>. DEFINE f == FlushExchange(mrp[n], x)
              r == IF abort THEN CloseExchange(f, x) ELSE f
  <2>1. Good(f) /\ BusyBut(f, Exempt(n)) /\ f.pending = mrp[n].pending
    BY <1>0, FlushExchangeKeeps, Zenon
  <2>. HIDE DEF f
  <2>2. CloseExchange(f, x).pending = f.pending \ On(f.pending, x)
    BY <2>1, CloseExchangeKeeps, Zenon
  <2>3. r.pending \subseteq mrp[n].pending
    BY <2>1, <2>2, Zenon
  <2>4. /\ mrp' = [mrp EXCEPT ![n] = r]
        /\ EmitAcks(n, On(AcksOwed(n), x))
        /\ On(AcksOwed(n), x) \subseteq AcksOwed(n)
        /\ outcome' = Settle(n, mrp'[n], "aborted")
        /\ transmitted' = transmitted
    BY <1>2, Zenon DEF EndExchange, f, On
  <2>. HIDE DEF r
  <2>5. /\ mrp'[n].pending \subseteq mrp[n].pending
        /\ \A k \in Nodes \ {n} : mrp'[k] = mrp[k] /\ counter'[k] = counter[k]
        /\ counter'[n] >= counter[n]
    BY <1>0, <2>3, <2>4, EmitMovesCounter, Zenon
  <2>. QED
    BY <1>0, <2>4, <2>5, ShrinkBudget, Zenon
<1>3. ASSUME NEW n \in Nodes, FlushSessionAcks(n)
      PROVE  BudgetInv' /\ SendsLive
  <2>1. FlushAll(mrp[n]).pending = mrp[n].pending
    BY <1>0, FlushAllKeeps, Zenon
  <2>2. /\ mrp' = [mrp EXCEPT ![n] = FlushAll(mrp[n])]
        /\ EmitAcks(n, AcksOwed(n))
        /\ transmitted' = transmitted
        /\ outcome' = outcome
    BY <1>3, Zenon DEF FlushSessionAcks
  <2>3. /\ mrp'[n].pending \subseteq mrp[n].pending
        /\ \A k \in Nodes \ {n} : mrp'[k] = mrp[k] /\ counter'[k] = counter[k]
        /\ counter'[n] >= counter[n]
    BY <1>0, <2>1, <2>2, EmitMovesCounter, Zenon
  <2>. QED
    BY <1>0, <2>2, <2>3, ShrinkBudget, Zenon
<1>4. ASSUME NEW n \in Nodes, NEW m \in net \ SentBy(n), DecodeTableFull(n, m)
      PROVE  BudgetInv' /\ SendsLive
  BY <1>4, Zenon DEF DecodeTableFull, BudgetInv, BudgetAt, SendsLive, Live, Waiting
<1>5. ASSUME NEW n \in Nodes, NEW m \in net \ SentBy(n), DecodeAccepted(n, m)
      PROVE  BudgetInv' /\ SendsLive
  <2>. DEFINE x == OfInbound(m.xid, m.ini)
              d == ProcessInbound(mrp[n], x, m.ctr, m.ack, m.rel)
              r == IF n \in TransportReliable /\ ~m.bare THEN CancelAck(d, x) ELSE d
  <2>0. m \in Packets
    BY Zenon DEF TypeInv, TypeOK
  <2>1. m \in Packets /\ m.ctr \in Nat /\ m.rel \in BOOLEAN
    BY <2>0 DEF Packets, Counters
  <2>2. x \in ExchangeKeys
    BY <2>1, Zenon DEF Packets, OfInbound, ExchangeKeys
  <2>3. /\ mrp' = [mrp EXCEPT ![n] = r]
        /\ outcome' = Settle(n, mrp'[n], "acked")
        /\ transmitted' = transmitted
        /\ counter' = counter
    BY <1>5, Zenon DEF DecodeAccepted
  <2>. HIDE DEF x, r
  <2>7. Good(mrp[n]) /\ BusyBut(mrp[n], Exempt(n))
    BY Zenon DEF TypeInv, TablesInv
  <2>4. Good(d) /\ d.pending = {p \in mrp[n].pending : p.ctr # m.ack}
    BY <2>7, <2>1, <2>2, ProcessInboundKeeps, SMTT(30)
  <2>. HIDE DEF d
  <2>5. r.pending = d.pending
    BY <2>4, CancelAckKeeps, Zenon DEF r
  <2>6. /\ mrp'[n].pending \subseteq mrp[n].pending
        /\ \A k \in Nodes \ {n} : mrp'[k] = mrp[k] /\ counter'[k] = counter[k]
        /\ counter'[n] >= counter[n]
    BY <1>0, <2>3, <2>4, <2>5, SMTT(30)
  <2>. QED
    BY <1>0, <2>3, <2>6, ShrinkBudget, Zenon
<1>6. ASSUME NEW n \in Nodes, NEW m \in net \ SentBy(n), DecodeDuplicate(n, m)
      PROVE  BudgetInv' /\ SendsLive
  <2>1. ForgetAckFor(mrp[n], m.ctr).pending = mrp[n].pending
    BY <1>0, ForgetAckForKeeps, Zenon
  <2>2. /\ mrp' = [mrp EXCEPT ![n] = ForgetAckFor(mrp[n], m.ctr)]
        /\ counter' = [counter EXCEPT ![n] = counter[n] + 1]
        /\ transmitted' = transmitted
        /\ outcome' = outcome
    BY <1>6, Zenon DEF DecodeDuplicate, history
  <2>3. /\ mrp'[n].pending \subseteq mrp[n].pending
        /\ \A k \in Nodes \ {n} : mrp'[k] = mrp[k] /\ counter'[k] = counter[k]
        /\ counter'[n] >= counter[n]
    BY <1>0, <2>1, <2>2
  <2>. QED
    BY <1>0, <2>2, <2>3, ShrinkBudget, Zenon
<1>7. CASE Next
  BY <1>0, <1>2, <1>3, <1>4, <1>5, <1>6, <1>7, NextCases, EncodeBudget, TimeoutBudget, Zenon
<1>. QED
  BY <1>1, <1>7, Zenon

\* Initially nothing has been sent.
LEMMA BudgetInit == Init => BudgetInv
  BY DEF Init, BudgetInv, BudgetAt, NewMrp

\* A reliable message is transmitted max_transmissions times at most, and is
\* reported Expired only when all of them are spent.
THEOREM SessionKeepsBudget == Spec => []TransmissionBudget
<1>1. BudgetInv => TransmissionBudget
  BY Zenon DEF BudgetInv, BudgetAt, TransmissionBudget
<1>. QED
  BY TypeInit, TypeStep, BudgetInit, BudgetStep, <1>1, PTL DEF Spec
=============================================================================
