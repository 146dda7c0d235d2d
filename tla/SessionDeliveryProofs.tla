----------------------- MODULE SessionDeliveryProofs ------------------------
(***************************************************************************)
(* What a session promises about one message: it is delivered at most      *)
(* once, and acknowledged only when the peer has handled it; its           *)
(* acknowledgements are kept and final, so that a message the peer has     *)
(* taken is acknowledged once, and is not sent again after that.           *)
(***************************************************************************)
EXTENDS SecureSessionProofs

USE MaxTransmissionsAssumption, WidthAssumption, MaxCounterAssumption,
    FirstCounterAssumption

\* A counter is spent once: every packet of a node is below its counter.
CounterInv ==
    /\ CounterNamesOnePacket
    /\ \A m \in net : m.ctr < counter[m.from]

\* Packets under fresh counters keep it.
LEMMA NewPacketsCounters ==
    ASSUME TypeInv, CounterInv, NEW n \in Nodes, NEW next \in counter[n] .. MaxCounter,
           NEW new \in SUBSET Packets,
           counter' = [counter EXCEPT ![n] = next], net' = net \cup new,
           \A m \in new : m.from = n /\ m.ctr >= counter[n] /\ m.ctr < next,
           \A m1, m2 \in new : m1.ctr = m2.ctr => m1 = m2
    PROVE  CounterInv'
<1>1. /\ counter \in [Nodes -> 1 .. MaxCounter]
      /\ \A m \in net : m.from \in Nodes /\ m.ctr \in Counters
      /\ \A m \in new : m.from \in Nodes /\ m.ctr \in Counters
  BY Zenon DEF TypeInv, TypeOK, Packets
<1>2. counter[n] \in 1 .. MaxCounter /\ next \in 1 .. MaxCounter
  BY <1>1
<1>3. counter'[n] = next /\ \A k \in Nodes \ {n} : counter'[k] = counter[k]
  BY <1>1, Zenon
<1>4. ASSUME NEW m \in net' PROVE m.ctr < counter'[m.from]
  <2>1. CASE m \in new
    BY <1>3, <2>1, Zenon
  <2>2. CASE m \in net /\ m.from = n
    BY <1>1, <1>2, <1>3, <2>2 DEF CounterInv, Counters
  <2>3. CASE m \in net /\ m.from # n
    BY <1>1, <1>3, <2>3, Zenon DEF CounterInv
  <2>. QED
    BY <2>1, <2>2, <2>3, Zenon
<1>5. ASSUME NEW m1 \in net', NEW m2 \in net', m1.from = m2.from, m1.ctr = m2.ctr
      PROVE  m1 = m2
  <2>1. ASSUME NEW m \in net, NEW k \in new, m.from = k.from PROVE m.ctr # k.ctr
    BY <1>1, <1>2, <2>1 DEF CounterInv, Counters
  <2>. QED
    BY <1>5, <2>1, Zenon DEF CounterInv, CounterNamesOnePacket
<1>. QED
  BY <1>4, <1>5, Zenon DEF CounterInv, CounterNamesOnePacket

\* The timer, flush and finish paths.
LEMMA EmitCounters ==
    ASSUME TypeInv, CounterInv, NEW n \in Nodes, NEW acks, acks \subseteq AcksOwed(n),
           EmitAcks(n, acks)
    PROVE  CounterInv'
<1>1. acks \subseteq OwedAcks /\ \A a \in acks : a.ctr \in Counters
  BY Zenon DEF TypeInv, TablesInv, AcksOwed, MrpStates
<1>2. counter \in [Nodes -> 1 .. MaxCounter] /\ lostAcks \in [Nodes -> SUBSET Counters]
  BY Zenon DEF TypeInv, TypeOK
<1>3. PICK next \in counter[n] .. MaxCounter, new \in SUBSET Packets :
        Emitted(n, acks, next, new)
  BY <1>1, <1>2, EmitAcksFacts, Zenon
<1>4. /\ counter' = [counter EXCEPT ![n] = next]
      /\ net' = net \cup new
      /\ \A m \in new : m.from = n /\ m.ctr >= counter[n] /\ m.ctr < next
      /\ \A m1, m2 \in new : m1.ctr = m2.ctr => m1 = m2
  BY <1>3, Zenon DEF Emitted
<1>. QED
  BY <1>4, NewPacketsCounters, Zenon

\* No step of either node puts a second packet under a used counter.
LEMMA CounterStep ==
    ASSUME TypeInv, CounterInv, [Next]_vars
    PROVE  CounterInv'
<1>1. CASE UNCHANGED vars
  BY <1>1, Zenon DEF vars, CounterInv, CounterNamesOnePacket
<1>2. ASSUME NEW n \in Nodes, NEW k \in Packets, k.from = n, k.ctr = counter[n],
             counter[n] < MaxCounter, net' = net \cup {k},
             counter' = [counter EXCEPT ![n] = counter[n] + 1]
      PROVE  CounterInv'
  <2>1. counter[n] \in 1 .. MaxCounter
    BY Zenon DEF TypeInv, TypeOK
  <2>2. /\ counter[n] + 1 \in counter[n] .. MaxCounter
        /\ {k} \in SUBSET Packets
        /\ \A m \in {k} : m.from = n /\ m.ctr >= counter[n] /\ m.ctr < counter[n] + 1
        /\ \A m1, m2 \in {k} : m1.ctr = m2.ctr => m1 = m2
    BY <1>2, <2>1
  <2>. QED
    BY <1>2, <2>2, NewPacketsCounters, Zenon
<1>3. ASSUME NEW n \in Nodes, NEW x \in ExchangeKeys, NEW want \in BOOLEAN,
             EncodeOn(n, x, want), nextXid' \in [Nodes -> ExchangeIds]
      PROVE  CounterInv'
  <2>. DEFINE rel == want /\ n \notin TransportReliable
              ride == {a.ctr : a \in On(mrp[n].owed, x)}
              ack == IF ride = {} THEN NoAck ELSE CHOOSE c \in ride : TRUE
              k == [from |-> n, ctr |-> counter[n], xid |-> x.id, ini |-> x.ours,
                    rel |-> rel, ack |-> ack, bare |-> FALSE]
  <2>1. /\ counter[n] < MaxCounter
        /\ net' = net \cup {k}
        /\ counter' = [counter EXCEPT ![n] = counter[n] + 1]
    BY <1>3, Zenon DEF EncodeOn
  <2>2. k.from = n /\ k.ctr = counter[n]
    BY Zenon
  <2>3. net' \subseteq Packets
    BY <1>3, EncodeOnType, SMTT(30) DEF TypeInv, TypeOK
  <2>. HIDE DEF k
  <2>. QED
    BY <1>2, <2>1, <2>2, <2>3, Zenon
<1>4. ASSUME NEW n \in Nodes, NEW m \in net, DecodeDuplicate(n, m)
      PROVE  CounterInv'
  <2>. DEFINE k == AckPacket(n, counter[n], OfInbound(m.xid, m.ini), m.ctr)
  <2>1. /\ counter[n] < MaxCounter
        /\ net' = net \cup {k}
        /\ counter' = [counter EXCEPT ![n] = counter[n] + 1]
    BY <1>4, Zenon DEF DecodeDuplicate
  <2>2. k.from = n /\ k.ctr = counter[n]
    BY Zenon DEF AckPacket
  <2>3. net' \subseteq Packets
    BY <1>4, DecodeDuplicateType, Zenon DEF TypeInv, TypeOK
  <2>. HIDE DEF k
  <2>. QED
    BY <1>2, <2>1, <2>2, <2>3, Zenon
<1>5. ASSUME NEW n \in Nodes, NEW due \in SUBSET mrp[n].pending,
             NEW dueAcks \in SUBSET mrp[n].owed, HandleTimeout(n, due, dueAcks)
      PROVE  CounterInv'
  <2>1. /\ EmitAcks(n, dueAcks \cup mrp[n].displaced)
        /\ dueAcks \cup mrp[n].displaced \subseteq AcksOwed(n)
    BY <1>5, Zenon DEF HandleTimeout, AcksOwed
  <2>. QED
    BY <2>1, EmitCounters, Zenon
<1>6. ASSUME NEW n \in Nodes, NEW x, NEW abort, EndExchange(n, x, abort)
      PROVE  CounterInv'
  <2>1. EmitAcks(n, On(AcksOwed(n), x)) /\ On(AcksOwed(n), x) \subseteq AcksOwed(n)
    BY <1>6, Zenon DEF EndExchange, On
  <2>. QED
    BY <2>1, EmitCounters, Zenon
<1>7. ASSUME NEW n \in Nodes, FlushSessionAcks(n)
      PROVE  CounterInv'
  BY <1>7, EmitCounters, Zenon DEF FlushSessionAcks
<1>8. ASSUME NEW n \in Nodes, NEW m \in net, DecodeTableFull(n, m) \/ DecodeAccepted(n, m)
      PROVE  CounterInv'
  BY <1>8, Zenon DEF DecodeTableFull, DecodeAccepted, CounterInv, CounterNamesOnePacket
<1>9. CASE Next
  BY <1>9, NextCases, <1>3, <1>4, <1>5, <1>6, <1>7, <1>8, Zenon
<1>. QED
  BY <1>1, <1>9, Zenon

\* No counter, and so no AEAD nonce, is spent on two packets: not by sends,
\* standalone and flushed ACKs or answers to duplicates, in any order.
THEOREM SessionCountersUnique == Spec => []CounterNamesOnePacket
<1>1. Init => CounterInv
  BY Zenon DEF Init, CounterInv, CounterNamesOnePacket
<1>2. CounterInv => CounterNamesOnePacket
  BY Zenon DEF CounterInv
<1>. QED
  BY TypeInit, TypeStep, CounterStep, <1>1, <1>2, PTL DEF Spec
-----------------------------------------------------------------------------
\* A counter that MRP took is one the replay window refuses.
OnceInv ==
    \A n \in Nodes, c \in Counters :
      /\ accepted[n][c] <= 1
      /\ accepted[n][c] > 0 => Classify(window[n], c) # "ok"

\* Only decode_inbound touches the window and hands messages over.
LEMMA DecodeOnly ==
    ASSUME TypeInv, [Next]_vars
    PROVE  \/ UNCHANGED <<window, accepted, refused>>
           \/ \E n \in Nodes : \E m \in net \ SentBy(n) :
                DecodeTableFull(n, m) \/ DecodeAccepted(n, m)
<1>1. CASE UNCHANGED vars
  BY <1>1, Zenon DEF vars
<1>2. CASE Next
  <2>1. \A n, x, want : EncodeOn(n, x, want) => UNCHANGED <<window, accepted, refused>>
    BY Zenon DEF EncodeOn
  <2>2. \A n, due, acks : HandleTimeout(n, due, acks) => UNCHANGED <<window, accepted, refused>>
    BY Zenon DEF HandleTimeout
  <2>3. \A n, x, abort : EndExchange(n, x, abort) => UNCHANGED <<window, accepted, refused>>
    BY Zenon DEF EndExchange
  <2>4. \A n : FlushSessionAcks(n) => UNCHANGED <<window, accepted, refused>>
    BY Zenon DEF FlushSessionAcks
  <2>5. \A n, m : DecodeDuplicate(n, m) => UNCHANGED <<window, accepted, refused>>
    BY Zenon DEF DecodeDuplicate, history
  <2>. QED
    BY <1>2, <2>1, <2>2, <2>3, <2>4, <2>5, NextCases, Zenon
<1>. QED
  BY <1>1, <1>2, Zenon

\* What recording a fresh counter does to the verdicts of the session's
\* windows: a counter once refused stays refused.
LEMMA WindowStep ==
    ASSUME TypeInv, NEW n \in Nodes, NEW c \in Counters,
           Classify(window[n], c) = "ok",
           window' = [window EXCEPT ![n] = Record(window[n], c)]
    PROVE  /\ Classify(window'[n], c) # "ok"
           /\ \A k \in Nodes, d \in Counters :
                Classify(window[k], d) # "ok" => Classify(window'[k], d) # "ok"
<1>1. \A k \in Nodes : window[k] \in Windows
  BY Zenon DEF TypeInv, TypeOK
<1>2. /\ window'[n] = Record(window[n], c)
      /\ \A k \in Nodes \ {n} : window'[k] = window[k]
  BY Zenon DEF TypeInv, TypeOK
<1>3. Classify(window'[n], c) # "ok"
  BY <1>1, <1>2, RecordedIsSeen, Zenon
<1>4. ASSUME NEW k \in Nodes, NEW d \in Counters, Classify(window[k], d) # "ok"
      PROVE  Classify(window'[k], d) # "ok"
  <2>1. CASE k = n
    BY <1>1, <1>2, <1>4, <2>1, SeenStaysSeen, Zenon
  <2>2. CASE k # n
    BY <1>2, <1>4, <2>2, Zenon
  <2>. QED
    BY <2>1, <2>2, Zenon
<1>. QED
  BY <1>3, <1>4, Zenon

\* A counter handed up once is in the window and is never handed up again.
LEMMA OnceStep ==
    ASSUME TypeInv, OnceInv, [Next]_vars
    PROVE  OnceInv'
<1>0. accepted \in [Nodes -> [Counters -> Nat]]
  BY Zenon DEF TypeInv, TypeOK
<1>1. CASE UNCHANGED <<window, accepted, refused>>
  BY <1>1, Zenon DEF OnceInv
<1>2. ASSUME NEW n \in Nodes, NEW m \in net \ SentBy(n), DecodeTableFull(n, m)
      PROVE  OnceInv'
  <2>1. m.ctr \in Counters
    BY Zenon DEF TypeInv, TypeOK, Packets
  <2>2. accepted' = accepted /\ \A k \in Nodes, d \in Counters :
          Classify(window[k], d) # "ok" => Classify(window'[k], d) # "ok"
    BY <1>2, <2>1, WindowStep, Zenon DEF DecodeTableFull
  <2>. QED
    BY <2>2, Zenon DEF OnceInv
<1>3. ASSUME NEW n \in Nodes, NEW m \in net \ SentBy(n), DecodeAccepted(n, m)
      PROVE  OnceInv'
  <2>1. m.ctr \in Counters
    BY Zenon DEF TypeInv, TypeOK, Packets
  <2>2. /\ Classify(window[n], m.ctr) = "ok"
        /\ window' = [window EXCEPT ![n] = Record(window[n], m.ctr)]
        /\ accepted' = [accepted EXCEPT ![n][m.ctr] = accepted[n][m.ctr] + 1]
    BY <1>3, Zenon DEF DecodeAccepted
  <2>3. /\ Classify(window'[n], m.ctr) # "ok"
        /\ \A k \in Nodes, d \in Counters :
             Classify(window[k], d) # "ok" => Classify(window'[k], d) # "ok"
    BY <2>1, <2>2, WindowStep, Zenon
  <2>4. accepted[n][m.ctr] = 0
    BY <1>0, <2>1, <2>2 DEF OnceInv
  <2>5. accepted'[n][m.ctr] = 1
    BY <1>0, <2>1, <2>2, <2>4
  <2>6. \A k \in Nodes, d \in Counters :
          ~(k = n /\ d = m.ctr) => accepted'[k][d] = accepted[k][d]
    BY <1>0, <2>1, <2>2, Zenon
  <2>7. ASSUME NEW k \in Nodes, NEW d \in Counters
        PROVE  /\ accepted'[k][d] <= 1
               /\ accepted'[k][d] > 0 => Classify(window'[k], d) # "ok"
    <3>1. CASE k = n /\ d = m.ctr
      BY <2>3, <2>5, <3>1
    <3>2. CASE ~(k = n /\ d = m.ctr)
      BY <2>3, <2>6, <3>2, Zenon DEF OnceInv
    <3>. QED
      BY <3>1, <3>2, Zenon
  <2>. QED
    BY <2>7, Zenon DEF OnceInv
<1>. QED
  BY <1>1, <1>2, <1>3, DecodeOnly, Zenon

\* A message reaches the application at most once, however often the peer
\* sends it and the network repeats it.
THEOREM SessionDeliversOnce == Spec => []AcceptedAtMostOnce
<1>1. Init => OnceInv
  BY DEF Init, OnceInv
<1>2. OnceInv => AcceptedAtMostOnce
  BY Zenon DEF OnceInv, AcceptedAtMostOnce
<1>. QED
  BY TypeInit, TypeStep, OnceStep, <1>1, <1>2, PTL DEF Spec
-----------------------------------------------------------------------------
\* Node k has handled the peer's counter c.
Handled(k, c) ==
    \/ accepted[k][c] > 0
    \/ c \in refused[k]
    \/ window[k].highest - c > Width

\* Whatever a node acknowledges, owes an ACK for or refuses as a duplicate, it
\* has handled.
AckInv ==
    /\ \A k \in Nodes : \A a \in AcksOwed(k) : Handled(k, a.ctr)
    /\ \A m \in net : m.ack # NoAck => Handled(m.from, m.ack)
    /\ \A k \in Nodes : \A c \in Counters \ {0} :
         Classify(window[k], c) # "ok" => Handled(k, c)
    /\ AckedMeansHandled

\* A handled counter stays handled.
LEMMA HandledStays ==
    ASSUME TypeInv, [Next]_vars, NEW k \in Nodes, NEW c \in Counters, Handled(k, c)
    PROVE  Handled(k, c)'
<1>0. /\ accepted \in [Nodes -> [Counters -> Nat]]
      /\ refused \in [Nodes -> SUBSET Counters]
      /\ \A n \in Nodes : window[n] \in Windows /\ window[n].highest \in Counters
      /\ window \in [Nodes -> Windows]
  BY Zenon DEF TypeInv, TypeOK, Windows
<1>1. CASE UNCHANGED <<window, accepted, refused>>
  BY <1>1, Zenon DEF Handled
<1>2. ASSUME NEW n \in Nodes, NEW m \in net \ SentBy(n),
             DecodeTableFull(n, m) \/ DecodeAccepted(n, m)
      PROVE  Handled(k, c)'
  <2>1. m.ctr \in Counters
    BY Zenon DEF TypeInv, TypeOK, Packets
  <2>2. /\ window' = [window EXCEPT ![n] = Record(window[n], m.ctr)]
        /\ Classify(window[n], m.ctr) = "ok"
    BY <1>2, Zenon DEF DecodeTableFull, DecodeAccepted
  <2>3. window'[k].highest >= window[k].highest /\ window'[k].highest \in Counters
    <3>1. Record(window[n], m.ctr) \in Windows
      BY <1>0, <2>1, <2>2, RecordType, Zenon
    <3>2. Record(window[n], m.ctr).highest >= window[n].highest
      BY <1>0, <2>1, HighestGrows, Zenon
    <3>3. CASE k = n
      <4>1. window'[k] = Record(window[n], m.ctr)
        BY <1>0, <2>2, <3>3, Zenon
      <4>. QED
        BY <3>1, <3>2, <3>3, <4>1, Zenon DEF Windows
    <3>4. CASE k # n
      <4>1. window'[k] = window[k]
        BY <1>0, <2>2, <3>4, Zenon
      <4>2. window[k].highest \in Counters
        BY <1>0, Zenon DEF Windows
      <4>3. window[k].highest >= window[k].highest
        BY <4>2 DEF Counters
      <4>. QED
        BY <4>1, <4>2, <4>3, Zenon
    <3>. QED
      BY <3>3, <3>4, Zenon
  <2>4. refused[k] \subseteq refused'[k]
    BY <1>0, <1>2, Zenon DEF DecodeTableFull, DecodeAccepted
  <2>5. accepted[k][c] > 0 => accepted'[k][c] > 0
    <3>1. CASE DecodeTableFull(n, m)
      BY <3>1, Zenon DEF DecodeTableFull
    <3>2. CASE DecodeAccepted(n, m)
      <4>1. accepted' = [accepted EXCEPT ![n][m.ctr] = accepted[n][m.ctr] + 1]
        BY <3>2, Zenon DEF DecodeAccepted
      <4>. QED
        BY <1>0, <2>1, <4>1
    <3>. QED
      BY <1>2, <3>1, <3>2, Zenon
  <2>6. window[k].highest - c > Width => window'[k].highest - c > Width
    <3>. DEFINE h == window[k].highest
                h2 == window'[k].highest
    <3>1. h \in Counters /\ h2 \in Counters /\ h2 >= h
      BY <1>0, <2>3, Zenon
    <3>. HIDE DEF h, h2
    <3>2. h - c > Width => h2 - c > Width
      BY <3>1 DEF Counters
    <3>. QED
      BY <3>2, Zenon DEF h, h2
  <2>. QED
    BY <2>4, <2>5, <2>6, Zenon DEF Handled
<1>. QED
  BY <1>1, <1>2, DecodeOnly, Zenon

\* The third conjunct: the window refuses only what was handled.
LEMMA RefusedStep ==
    ASSUME TypeInv, AckInv, [Next]_vars, NEW k \in Nodes, NEW c \in Counters \ {0},
           Classify(window'[k], c) # "ok"
    PROVE  Handled(k, c)'
<1>0. /\ accepted \in [Nodes -> [Counters -> Nat]]
      /\ refused \in [Nodes -> SUBSET Counters]
      /\ \A n \in Nodes : window[n] \in Windows
      /\ window \in [Nodes -> Windows]
  BY Zenon DEF TypeInv, TypeOK, Windows
<1>1. CASE Classify(window[k], c) # "ok"
  <2>1. Handled(k, c)
    BY <1>1, Zenon DEF AckInv
  <2>. QED
    BY <2>1, HandledStays, Zenon
<1>2. CASE Classify(window[k], c) = "ok"
  <2>1. PICK n \in Nodes : \E m \in net \ SentBy(n) :
          DecodeTableFull(n, m) \/ DecodeAccepted(n, m)
    BY <1>2, DecodeOnly, Zenon
  <2>2. PICK m \in net \ SentBy(n) : DecodeTableFull(n, m) \/ DecodeAccepted(n, m)
    BY <2>1, Zenon
  <2>3. m.ctr \in Counters
    BY Zenon DEF TypeInv, TypeOK, Packets
  <2>4. /\ window' = [window EXCEPT ![n] = Record(window[n], m.ctr)]
        /\ Classify(window[n], m.ctr) = "ok"
    BY <2>2, Zenon DEF DecodeTableFull, DecodeAccepted
  <2>5. k = n /\ window'[k] = Record(window[k], m.ctr)
    BY <1>0, <1>2, <2>4, Zenon
  <2>6. CASE c = m.ctr
    <3>1. CASE DecodeTableFull(n, m)
      <4>1. m.ctr \in refused'[n]
        BY <1>0, <3>1, Zenon DEF DecodeTableFull
      <4>. QED
        BY <2>5, <2>6, <4>1, Zenon DEF Handled
    <3>2. CASE DecodeAccepted(n, m)
      <4>1. accepted' = [accepted EXCEPT ![n][m.ctr] = accepted[n][m.ctr] + 1]
        BY <3>2, Zenon DEF DecodeAccepted
      <4>2. accepted'[n][m.ctr] > 0
        BY <1>0, <2>3, <4>1
      <4>. QED
        BY <2>5, <2>6, <4>2, Zenon DEF Handled
    <3>. QED
      BY <2>2, <3>1, <3>2, Zenon
  <2>7. CASE c # m.ctr
    <3>1. Record(window[k], m.ctr).highest - c > Width
      BY <1>0, <1>2, <2>3, <2>4, <2>5, <2>7, NewlyRefusedIsOld, Zenon
    <3>. QED
      BY <2>5, <3>1, Zenon DEF Handled
  <2>. QED
    BY <2>6, <2>7, Zenon
<1>. QED
  BY <1>1, <1>2, Zenon

\* decode_inbound, in terms of the tables before and after.
LEMMA DecodeAcceptedTables ==
    ASSUME TypeInv, NEW n \in Nodes, NEW m \in net \ SentBy(n), DecodeAccepted(n, m)
    PROVE  /\ \A k \in Nodes \ {n} : mrp'[k] = mrp[k]
           /\ mrp'[n].pending = {p \in mrp[n].pending : p.ctr # m.ack}
           /\ \A a \in mrp'[n].owed \cup mrp'[n].displaced :
                a \in AcksOwed(n) \/ a.ctr = m.ctr
<1>. DEFINE x == OfInbound(m.xid, m.ini)
            d == ProcessInbound(mrp[n], x, m.ctr, m.ack, m.rel)
            r == IF n \in TransportReliable /\ ~m.bare THEN CancelAck(d, x) ELSE d
<1>0. m \in Packets
  BY Zenon DEF TypeInv, TypeOK
<1>1. m \in Packets /\ m.ctr \in Nat /\ m.rel \in BOOLEAN
  BY <1>0 DEF Packets, Counters
<1>2. x \in ExchangeKeys
  BY <1>1, Zenon DEF Packets, OfInbound, ExchangeKeys
<1>3. Good(mrp[n]) /\ BusyBut(mrp[n], Exempt(n)) /\ mrp \in [Nodes -> MrpStates]
  BY Zenon DEF TypeInv, TablesInv
<1>4. mrp' = [mrp EXCEPT ![n] = r]
  BY Zenon DEF DecodeAccepted
<1>. HIDE DEF x
<1>5. /\ Good(d)
      /\ BusyBut(d, Exempt(n))
      /\ d.pending = {p \in mrp[n].pending : p.ctr # m.ack}
      /\ d.owed \cup d.displaced \subseteq
            mrp[n].owed \cup mrp[n].displaced \cup {[xch |-> x, ctr |-> m.ctr]}
  BY <1>1, <1>2, <1>3, ProcessInboundKeeps, SMTT(30)
<1>. HIDE DEF d
<1>6. /\ r.pending = d.pending
      /\ r.owed \subseteq d.owed
      /\ r.displaced \subseteq d.displaced
  BY <1>5, CancelAckKeeps, SMTT(30)
<1>. HIDE DEF r
<1>. QED
  BY <1>3, <1>4, <1>5, <1>6, SMTT(30) DEF AcksOwed

\* An ACK is owed from the moment decode_inbound takes its message.
LEMMA OwedStep ==
    ASSUME TypeInv, [Next]_vars, NEW k \in Nodes,
           NEW a \in mrp'[k].owed \cup mrp'[k].displaced
    PROVE  \/ a \in AcksOwed(k)
           \/ \E m \in net \ SentBy(k) : DecodeAccepted(k, m) /\ a.ctr = m.ctr
<1>0. /\ mrp \in [Nodes -> MrpStates]
      /\ counter[k] \in Nat
      /\ \A n \in Nodes : counter[n] \in Nat
      /\ \A n \in Nodes : Good(mrp[n]) /\ BusyBut(mrp[n], Exempt(n)) /\ mrp[n] \in MrpStates
  BY SMTT(30) DEF TypeInv, TypeOK, TablesInv
<1>1. ASSUME NEW n \in Nodes, NEW r, mrp' = [mrp EXCEPT ![n] = r],
             r.owed \subseteq mrp[n].owed, r.displaced \subseteq mrp[n].displaced
      PROVE  a \in AcksOwed(k)
  BY <1>0, <1>1, Zenon DEF AcksOwed
<1>2. CASE UNCHANGED vars
  BY <1>2, Zenon DEF vars, AcksOwed
<1>3. ASSUME NEW n \in Nodes, NEW x \in ExchangeKeys, NEW want \in BOOLEAN, EncodeOn(n, x, want)
      PROVE  a \in AcksOwed(k)
  <2>. DEFINE rel == want /\ n \notin TransportReliable
              r == Send(mrp[n], x, counter[n], rel)
  <2>1. mrp' = [mrp EXCEPT ![n] = r] /\ rel \in BOOLEAN
    BY <1>3, Zenon DEF EncodeOn
  <2>. HIDE DEF rel
  <2>2. r.owed = mrp[n].owed \ On(mrp[n].owed, x) /\ r.displaced = mrp[n].displaced
    BY <1>0, <2>1, SendFields, SMTT(30)
  <2>. HIDE DEF r
  <2>. QED
    BY <1>1, <2>1, <2>2, Zenon
<1>4. ASSUME NEW n \in Nodes, NEW due \in SUBSET mrp[n].pending,
             NEW dueAcks \in SUBSET mrp[n].owed, HandleTimeout(n, due, dueAcks)
      PROVE  a \in AcksOwed(k)
  <2>. DEFINE r == HandleTimeoutMrp(mrp[n], due, dueAcks)
  <2>1. mrp' = [mrp EXCEPT ![n] = r]
    BY <1>4, Zenon DEF HandleTimeout
  <2>2. /\ Good(r)
        /\ BusyBut(r, Exempt(n))
        /\ r.pending = AfterTurn(mrp[n].pending, due)
        /\ r.owed = mrp[n].owed \ dueAcks
        /\ r.displaced = {}
    BY <1>0, HandleTimeoutKeeps, Zenon
  <2>. HIDE DEF r
  <2>. QED
    BY <1>1, <2>1, <2>2, Zenon
<1>5. ASSUME NEW n \in Nodes, NEW x \in ExchangeKeys, NEW abort \in BOOLEAN,
             EndExchange(n, x, abort)
      PROVE  a \in AcksOwed(k)
  <2>. DEFINE f == FlushExchange(mrp[n], x)
              r == IF abort THEN CloseExchange(f, x) ELSE f
  <2>1. mrp' = [mrp EXCEPT ![n] = r]
    BY <1>5, Zenon DEF EndExchange
  <2>2. /\ Good(f) /\ BusyBut(f, Exempt(n))
        /\ f.owed = mrp[n].owed \ On(mrp[n].owed, x)
        /\ f.displaced = mrp[n].displaced \ On(mrp[n].displaced, x)
    BY <1>0, FlushExchangeKeeps, Zenon
  <2>. HIDE DEF f
  <2>3. r.owed \subseteq f.owed /\ r.displaced \subseteq f.displaced
    BY <2>2, CloseExchangeKeeps, Zenon
  <2>. HIDE DEF r
  <2>. QED
    BY <1>1, <2>1, <2>2, <2>3, Zenon
<1>6. ASSUME NEW n \in Nodes, FlushSessionAcks(n)
      PROVE  a \in AcksOwed(k)
  <2>. DEFINE r == FlushAll(mrp[n])
  <2>1. mrp' = [mrp EXCEPT ![n] = r]
    BY <1>6, Zenon DEF FlushSessionAcks
  <2>2. r.owed = {} /\ r.displaced = {}
    BY <1>0, FlushAllKeeps, Zenon
  <2>. HIDE DEF r
  <2>. QED
    BY <1>1, <2>1, <2>2, Zenon
<1>7. ASSUME NEW n \in Nodes, NEW m \in net \ SentBy(n), DecodeDuplicate(n, m)
      PROVE  a \in AcksOwed(k)
  <2>. DEFINE r == ForgetAckFor(mrp[n], m.ctr)
  <2>1. mrp' = [mrp EXCEPT ![n] = r]
    BY <1>7, Zenon DEF DecodeDuplicate
  <2>2. /\ Good(r)
        /\ BusyBut(r, Exempt(n))
        /\ r.pending = mrp[n].pending
        /\ r.owed = {b \in mrp[n].owed : b.ctr # m.ctr}
        /\ r.displaced = {b \in mrp[n].displaced : b.ctr # m.ctr}
    BY <1>0, ForgetAckForKeeps, SMTT(30)
  <2>. HIDE DEF r
  <2>. QED
    BY <1>1, <2>1, <2>2, Zenon
<1>8. ASSUME NEW n \in Nodes, NEW m \in net \ SentBy(n), DecodeTableFull(n, m)
      PROVE  a \in AcksOwed(k)
  BY <1>8, Zenon DEF DecodeTableFull, AcksOwed
<1>9. ASSUME NEW n \in Nodes, NEW m \in net \ SentBy(n), DecodeAccepted(n, m)
      PROVE  a \in AcksOwed(k) \/ (n = k /\ a.ctr = m.ctr)
  BY <1>9, DecodeAcceptedTables, SMTT(30) DEF AcksOwed
<1>. DEFINE Kept == a \in AcksOwed(k)
            Taken(n) == \E m \in net \ SentBy(n) : DecodeAccepted(n, m)
<1>10. Next => Kept \/ \E n \in Nodes : Taken(n)
  <2>1. /\ \A n \in Nodes, x \in ExchangeKeys, want \in BOOLEAN : EncodeOn(n, x, want) => Kept
        /\ \A n \in Nodes : FlushSessionAcks(n) => Kept
    BY <1>3, <1>6, Zenon
  <2>. QED
    BY <1>4, <1>5, <1>7, <1>8, <2>1, NextCases, ZenonT(30)
<1>11. ASSUME NEW n \in Nodes, Taken(n)
       PROVE  Kept \/ \E m \in net \ SentBy(k) : DecodeAccepted(k, m) /\ a.ctr = m.ctr
  BY <1>9, <1>11, Zenon
<1>. QED
  BY <1>2, <1>10, <1>11, Zenon

\* A new packet has a counter its sender has not used, and acknowledges an owed
\* message or one refused as a duplicate.
LEMMA NetStep ==
    ASSUME TypeInv, [Next]_vars, NEW m \in net', m \notin net
    PROVE  /\ m.ctr >= counter[m.from]
           /\ \/ m.ack = NoAck
              \/ \E a \in AcksOwed(m.from) : m.ack = a.ctr
              \/ \E d \in net \ SentBy(m.from) :
                   d.ctr = m.ack /\ Classify(window[m.from], d.ctr) # "ok"
<1>. DEFINE Says == /\ m.ctr >= counter[m.from]
                    /\ \/ m.ack = NoAck
                       \/ \E a \in AcksOwed(m.from) : m.ack = a.ctr
                       \/ \E d \in net \ SentBy(m.from) :
                            d.ctr = m.ack /\ Classify(window[m.from], d.ctr) # "ok"
<1>0. \A n \in Nodes : counter[n] \in Nat
  BY DEF TypeInv, TypeOK
<1>1. CASE UNCHANGED vars
  BY <1>1, Zenon DEF vars
<1>2. ASSUME NEW n \in Nodes, NEW x \in ExchangeKeys, NEW want \in BOOLEAN, EncodeOn(n, x, want)
      PROVE  Says
  <2>. DEFINE rel == want /\ n \notin TransportReliable
              ride == {a.ctr : a \in On(mrp[n].owed, x)}
              some == CHOOSE c \in ride : TRUE
              ack == IF ride = {} THEN NoAck ELSE some
              k == [from |-> n, ctr |-> counter[n], xid |-> x.id, ini |-> x.ours,
                    rel |-> rel, ack |-> ack, bare |-> FALSE]
  <2>1. net' = net \cup {k}
    BY <1>2, Zenon DEF EncodeOn
  <2>2. m = k
    <3>. HIDE DEF k
    <3>. QED
      BY <2>1, Zenon
  <2>3. m.from = n /\ m.ack = ack /\ m.ctr >= counter[m.from]
    <3>1. m.from = n /\ m.ack = ack /\ m.ctr = counter[n]
      BY <2>2, Zenon
    <3>. QED
      BY <1>0, <3>1
  <2>4. ride # {} => some \in ride
    <3>. HIDE DEF ride
    <3>. QED
      BY Zenon
  <2>. HIDE DEF some
  <2>5. ride # {} => \E a \in AcksOwed(n) : some = a.ctr
    BY <2>4, Zenon DEF AcksOwed, On
  <2>. HIDE DEF ride
  <2>. QED
    BY <2>3, <2>5, Zenon
<1>3. ASSUME NEW n \in Nodes, NEW acks, acks \subseteq AcksOwed(n), EmitAcks(n, acks)
      PROVE  Says
  <2>1. acks \subseteq OwedAcks /\ \A a \in acks : a.ctr \in Counters
    BY <1>3, Zenon DEF TypeInv, TablesInv, AcksOwed, MrpStates
  <2>2. counter \in [Nodes -> 1 .. MaxCounter] /\ lostAcks \in [Nodes -> SUBSET Counters]
    BY Zenon DEF TypeInv, TypeOK
  <2>3. PICK next \in counter[n] .. MaxCounter, new \in SUBSET Packets :
          Emitted(n, acks, next, new)
    BY <1>3, <2>1, <2>2, EmitAcksFacts, Zenon
  <2>. QED
    BY <1>3, <2>3, Zenon DEF Emitted
<1>4. ASSUME NEW n \in Nodes, NEW due \in SUBSET mrp[n].pending,
             NEW dueAcks \in SUBSET mrp[n].owed, HandleTimeout(n, due, dueAcks)
      PROVE  Says
  <2>1. /\ EmitAcks(n, dueAcks \cup mrp[n].displaced)
        /\ dueAcks \cup mrp[n].displaced \subseteq AcksOwed(n)
    BY <1>4, Zenon DEF HandleTimeout, AcksOwed
  <2>. QED
    BY <1>3, <2>1, Zenon
<1>5. ASSUME NEW n \in Nodes, NEW x, NEW abort, EndExchange(n, x, abort)
      PROVE  Says
  <2>1. EmitAcks(n, On(AcksOwed(n), x)) /\ On(AcksOwed(n), x) \subseteq AcksOwed(n)
    BY <1>5, Zenon DEF EndExchange, On
  <2>. QED
    BY <1>3, <2>1, Zenon
<1>6. ASSUME NEW n \in Nodes, FlushSessionAcks(n)
      PROVE  Says
  BY <1>3, <1>6, Zenon DEF FlushSessionAcks
<1>7. ASSUME NEW n \in Nodes, NEW d \in net \ SentBy(n), DecodeDuplicate(n, d)
      PROVE  Says
  <2>1. m = AckPacket(n, counter[n], OfInbound(d.xid, d.ini), d.ctr)
    BY <1>7, Zenon DEF DecodeDuplicate
  <2>. QED
    BY <1>0, <1>7, <2>1 DEF DecodeDuplicate, AckPacket
<1>8. ASSUME NEW n \in Nodes, NEW d \in net \ SentBy(n),
             DecodeTableFull(n, d) \/ DecodeAccepted(n, d)
      PROVE  FALSE
  BY <1>8, Zenon DEF DecodeTableFull, DecodeAccepted
<1>. HIDE DEF Says
<1>9. Next => Says
  BY <1>2, <1>4, <1>5, <1>6, <1>7, <1>8, NextCases, ZenonT(30)
<1>. QED
  BY <1>1, <1>9, Zenon DEF Says

\* A message is settled as acked by a packet of another node that carries its
\* counter, and by nothing else.
LEMMA AckedStep ==
    ASSUME TypeInv, BudgetInv, [Next]_vars, NEW n \in Nodes, NEW c \in Counters,
           outcome[n][c] # "acked", outcome'[n][c] = "acked"
    PROVE  \E m \in net \ SentBy(n) : m.ack = c /\ c # NoAck
<1>0. outcome \in [Nodes -> [Counters -> {"none", "acked", "expired", "aborted"}]]
  BY Zenon DEF TypeInv, TypeOK
<1>1. ASSUME NEW k \in Nodes, NEW after, NEW how, outcome' = Settle(k, after, how)
      PROVE  k = n /\ how = "acked" /\ c \in Waiting(mrp[n]) \ Waiting(after)
  <2>1. /\ \A j \in Nodes \ {k} : outcome'[j] = outcome[j]
        /\ outcome'[k][c] = IF c \in Waiting(mrp[k]) \ Waiting(after) THEN how ELSE outcome[k][c]
    BY <1>0, <1>1, Zenon DEF Settle
  <2>. QED
    BY <2>1, Zenon
<1>2. CASE UNCHANGED vars
  BY <1>2, Zenon DEF vars
<1>3. \A k, x, want : ~EncodeOn(k, x, want)
  BY Zenon DEF EncodeOn
<1>4. ASSUME NEW k \in Nodes, NEW due, NEW acks, HandleTimeout(k, due, acks) PROVE FALSE
  <2>1. outcome' = Settle(k, mrp'[k], "expired")
    BY <1>4, Zenon DEF HandleTimeout
  <2>. QED
    BY <1>1, <2>1
<1>5. ASSUME NEW k \in Nodes, NEW x, NEW abort, EndExchange(k, x, abort) PROVE FALSE
  <2>1. outcome' = Settle(k, mrp'[k], "aborted")
    BY <1>5, Zenon DEF EndExchange
  <2>. QED
    BY <1>1, <2>1
<1>6. \A k : ~FlushSessionAcks(k)
  BY Zenon DEF FlushSessionAcks
<1>7. \A k, m : ~DecodeDuplicate(k, m) /\ ~DecodeTableFull(k, m)
  BY Zenon DEF DecodeDuplicate, DecodeTableFull, history
<1>8. ASSUME NEW k \in Nodes, NEW m \in net \ SentBy(k), DecodeAccepted(k, m)
      PROVE  k = n /\ m.ack = c /\ c # NoAck
  <2>1. outcome' = Settle(k, mrp'[k], "acked")
    BY <1>8, Zenon DEF DecodeAccepted
  <2>2. k = n /\ c \in Waiting(mrp[n]) \ Waiting(mrp'[n])
    BY <1>1, <2>1, Zenon
  <2>3. mrp'[n].pending = {p \in mrp[n].pending : p.ctr # m.ack}
    BY <1>8, <2>2, DecodeAcceptedTables, Zenon
  <2>4. PICK p \in mrp[n].pending : p.ctr = c
    BY <2>2, Zenon DEF Waiting
  <2>5. m.ack = c
    BY <2>2, <2>3, <2>4, Zenon DEF Waiting
  <2>6. c # NoAck
    BY <2>4, Zenon DEF BudgetInv, BudgetAt, NoAck
  <2>. QED
    BY <2>2, <2>5, <2>6, Zenon
<1>9. CASE Next
  BY <1>3, <1>4, <1>5, <1>6, <1>7, <1>8, <1>9, NextCases, Zenon
<1>. QED
  BY <1>2, <1>9, Zenon

\* Acknowledgements owed, in flight and received all name handled messages.
LEMMA AckStep ==
    ASSUME TypeInv, BudgetInv, AckInv, [Next]_vars
    PROVE  AckInv'
<1>0. TypeInv'
  BY TypeStep, Zenon
<1>1. ASSUME NEW k \in Nodes, NEW a \in mrp'[k].owed \cup mrp'[k].displaced
      PROVE  Handled(k, a.ctr)'
  <2>1. CASE a \in AcksOwed(k)
    <3>1. Handled(k, a.ctr) /\ a.ctr \in Counters
      BY <2>1, Zenon DEF AckInv, TypeInv, TablesInv
    <3>. QED
      BY <3>1, HandledStays, Zenon
  <2>2. ASSUME NEW m \in net \ SentBy(k), DecodeAccepted(k, m), a.ctr = m.ctr
        PROVE  Handled(k, a.ctr)'
    <3>1. m.ctr \in Counters /\ accepted \in [Nodes -> [Counters -> Nat]]
      BY Zenon DEF TypeInv, TypeOK, Packets
    <3>2. accepted' = [accepted EXCEPT ![k][m.ctr] = accepted[k][m.ctr] + 1]
      BY <2>2, Zenon DEF DecodeAccepted
    <3>3. accepted'[k][m.ctr] > 0
      BY <3>1, <3>2
    <3>. QED
      BY <2>2, <3>3, Zenon DEF Handled
  <2>. QED
    BY <2>1, <2>2, OwedStep, Zenon
<1>2. ASSUME NEW m \in net', m.ack # NoAck PROVE Handled(m.from, m.ack)'
  <2>1. m.from \in Nodes /\ m.ack \in Counters
    BY <1>0, Zenon DEF TypeInv, TypeOK, Packets
  <2>2. Handled(m.from, m.ack)
    <3>1. CASE m \in net
      BY <1>2, <3>1, Zenon DEF AckInv
    <3>2. CASE \E a \in AcksOwed(m.from) : m.ack = a.ctr
      BY <2>1, <3>2, Zenon DEF AckInv
    <3>3. ASSUME NEW d \in net \ SentBy(m.from),
                 d.ctr = m.ack /\ Classify(window[m.from], d.ctr) # "ok"
          PROVE  Handled(m.from, m.ack)
      BY <1>2, <2>1, <3>3, Zenon DEF AckInv, NoAck
    <3>. QED
      BY <1>2, <3>1, <3>2, <3>3, NetStep, Zenon
  <2>. QED
    BY <2>1, <2>2, HandledStays, Zenon
<1>3. ASSUME NEW k \in Nodes, NEW c \in Counters \ {0}, Classify(window'[k], c) # "ok"
      PROVE  Handled(k, c)'
  BY <1>3, RefusedStep, Zenon
<1>4. ASSUME NEW n \in Nodes, NEW c \in Counters, outcome'[n][c] = "acked"
      PROVE  \E p \in Nodes \ {n} : Handled(p, c)'
  <2>1. \E p \in Nodes \ {n} : Handled(p, c)
    <3>1. CASE outcome[n][c] = "acked"
      BY <3>1, Zenon DEF AckInv, AckedMeansHandled, Handled
    <3>2. CASE outcome[n][c] # "acked"
      <4>1. PICK m \in net \ SentBy(n) : m.ack = c /\ c # NoAck
        BY <1>4, <3>2, AckedStep, Zenon
      <4>2. m.from \in Nodes \ {n}
        BY Zenon DEF TypeInv, TypeOK, Packets, SentBy
      <4>3. Handled(m.from, c)
        BY <4>1, Zenon DEF AckInv
      <4>. QED
        BY <4>2, <4>3, Zenon
    <3>. QED
      BY <3>1, <3>2, Zenon
  <2>. QED
    BY <2>1, HandledStays, Zenon
<1>5. AckedMeansHandled'
  BY <1>4, Zenon DEF AckedMeansHandled, Handled
<1>. QED
  BY <1>1, <1>2, <1>3, <1>5, Zenon DEF AckInv, AcksOwed

\* A sender stops retransmitting only on an ACK of a message its peer has
\* handled: delivered, refused for want of an exchange, or already behind the
\* peer's replay window.
THEOREM SessionAcksAreHonest == Spec => []AckedMeansHandled
<1>1. ASSUME Init PROVE AckInv
  <2>1. ASSUME NEW k \in Nodes, NEW c \in Counters \ {0} PROVE Classify(window[k], c) = "ok"
    BY <1>1 DEF Init, Classify, NewWindow, Counters
  <2>2. ASSUME NEW k \in Nodes PROVE AcksOwed(k) = {}
    BY <1>1, Zenon DEF Init, AcksOwed, NewMrp
  <2>. QED
    BY <1>1, <2>1, <2>2, Zenon DEF Init, AckInv, AckedMeansHandled
<1>2. AckInv => AckedMeansHandled
  BY Zenon DEF AckInv
<1>. QED
  BY TypeInit, TypeStep, BudgetInit, BudgetStep, AckStep, <1>1, <1>2, PTL DEF Spec

-----------------------------------------------------------------------------
\* Node k has taken in counter c, which some other node sent: its window refuses it now.
Got(k, c) ==
    /\ c # 0
    /\ Classify(window[k], c) # "ok"
    /\ \E m \in net \ SentBy(k) : m.ctr = c

\* What a node acknowledges, owes an ACK for or handed up, it has taken in.
GotInv ==
    /\ \A m \in net : m.ctr # 0
    /\ \A k \in Nodes : \A a \in AcksOwed(k) : Got(k, a.ctr)
    /\ \A m \in net : m.ack # NoAck => Got(m.from, m.ack)
    /\ \A k \in Nodes, c \in Counters : accepted[k][c] > 0 => Got(k, c)

\* Packets stay, and so do the ACKs given up.
LEMMA NetGrows ==
    ASSUME TypeInv, [Next]_vars
    PROVE  net \subseteq net' /\ \A k \in Nodes : lostAcks[k] \subseteq lostAcks'[k]
<1>0. lostAcks \in [Nodes -> SUBSET Counters]
  BY Zenon DEF TypeInv, TypeOK
<1>1. ASSUME NEW n \in Nodes, NEW acks, EmitAcks(n, acks)
      PROVE  net \subseteq net' /\ \A k \in Nodes : lostAcks[k] \subseteq lostAcks'[k]
  <2>1. PICK next, num : EmitNumbered(n, acks, next, num)
    BY <1>1, Zenon DEF EmitAcks
  <2>. QED
    BY <1>0, <2>1, Zenon DEF EmitNumbered
<1>2. CASE UNCHANGED vars
  BY <1>2, Zenon DEF vars
<1>3. ASSUME NEW n, NEW x, NEW want, EncodeOn(n, x, want)
      PROVE  net \subseteq net' /\ lostAcks' = lostAcks
  BY <1>3, Zenon DEF EncodeOn
<1>4. \A n, due, acks : HandleTimeout(n, due, acks) => EmitAcks(n, acks \cup mrp[n].displaced)
  BY Zenon DEF HandleTimeout
<1>5. \A n, x, abort : EndExchange(n, x, abort) => EmitAcks(n, On(AcksOwed(n), x))
  BY Zenon DEF EndExchange
<1>6. \A n : FlushSessionAcks(n) => EmitAcks(n, AcksOwed(n))
  BY Zenon DEF FlushSessionAcks
<1>7. ASSUME NEW n \in Nodes, NEW m, DecodeDuplicate(n, m) \/ DecodeTableFull(n, m)
      PROVE  net \subseteq net' /\ lostAcks' = lostAcks
  BY <1>7, Zenon DEF DecodeDuplicate, DecodeTableFull, history
<1>8. ASSUME NEW n \in Nodes, NEW m, DecodeAccepted(n, m)
      PROVE  net \subseteq net' /\ \A k \in Nodes : lostAcks[k] \subseteq lostAcks'[k]
  BY <1>0, <1>8, Zenon DEF DecodeAccepted
<1>9. CASE Next
  BY <1>1, <1>3, <1>4, <1>5, <1>6, <1>7, <1>8, <1>9, NextCases, Zenon
<1>. QED
  BY <1>2, <1>9, Zenon

\* What a node has taken in stays so.
LEMMA GotStays ==
    ASSUME TypeInv, [Next]_vars, NEW k \in Nodes, NEW c \in Counters, Got(k, c)
    PROVE  Got(k, c)'
<1>1. Classify(window'[k], c) # "ok"
  <2>1. CASE UNCHANGED <<window, accepted, refused>>
    BY <2>1, Zenon DEF Got
  <2>2. ASSUME NEW n \in Nodes, NEW m \in net \ SentBy(n),
               DecodeTableFull(n, m) \/ DecodeAccepted(n, m)
        PROVE  Classify(window'[k], c) # "ok"
    <3>1. /\ window' = [window EXCEPT ![n] = Record(window[n], m.ctr)]
          /\ Classify(window[n], m.ctr) = "ok"
      BY <2>2, Zenon DEF DecodeTableFull, DecodeAccepted
    <3>2. m.ctr \in Counters
      BY Zenon DEF TypeInv, TypeOK, Packets
    <3>. QED
      BY <3>1, <3>2, WindowStep, Zenon DEF Got
  <2>. QED
    BY <2>1, <2>2, DecodeOnly, Zenon
<1>2. PICK m \in net \ SentBy(k) : m.ctr = c
  BY Zenon DEF Got
<1>3. m \in net' /\ m.from # k
  BY NetGrows, Zenon DEF SentBy
<1>. QED
  BY <1>1, <1>2, <1>3, Zenon DEF Got, SentBy

\* decode_inbound takes a counter in.
LEMMA JustGot ==
    ASSUME TypeInv, GotInv, NEW k \in Nodes, NEW m \in net \ SentBy(k), DecodeAccepted(k, m)
    PROVE  Got(k, m.ctr)'
<1>1. m.ctr \in Counters /\ m.ctr # 0
  BY Zenon DEF TypeInv, TypeOK, Packets, GotInv
<1>2. /\ window' = [window EXCEPT ![k] = Record(window[k], m.ctr)]
      /\ Classify(window[k], m.ctr) = "ok"
      /\ net' = net
  BY Zenon DEF DecodeAccepted
<1>3. Classify(window'[k], m.ctr) # "ok"
  BY <1>1, <1>2, WindowStep, Zenon
<1>4. m \in net' /\ m.from # k
  BY <1>2, Zenon DEF SentBy
<1>. QED
  BY <1>1, <1>3, <1>4, Zenon DEF Got, SentBy

\* A counter is handed up by decode_inbound alone.
LEMMA AcceptedStep ==
    ASSUME TypeInv, [Next]_vars, NEW k \in Nodes, NEW c \in Counters, accepted'[k][c] > 0
    PROVE  \/ accepted[k][c] > 0
           \/ \E m \in net \ SentBy(k) : DecodeAccepted(k, m) /\ m.ctr = c
<1>1. CASE UNCHANGED <<window, accepted, refused>>
  BY <1>1, Zenon
<1>2. ASSUME NEW n \in Nodes, NEW m \in net \ SentBy(n), DecodeTableFull(n, m)
      PROVE  accepted[k][c] > 0
  BY <1>2, Zenon DEF DecodeTableFull
<1>3. ASSUME NEW n \in Nodes, NEW m \in net \ SentBy(n), DecodeAccepted(n, m)
      PROVE  accepted[k][c] > 0 \/ (n = k /\ m.ctr = c)
  <2>1. /\ m.ctr \in Counters
        /\ accepted \in [Nodes -> [Counters -> Nat]]
        /\ accepted' = [accepted EXCEPT ![n][m.ctr] = accepted[n][m.ctr] + 1]
    BY <1>3, Zenon DEF TypeInv, TypeOK, Packets, DecodeAccepted
  <2>. QED
    BY <2>1, Zenon
<1>. QED
  BY <1>1, <1>2, <1>3, DecodeOnly, Zenon

\* Owed, sent and handed up: a node speaks only of counters it has taken in.
LEMMA GotStep ==
    ASSUME TypeInv, GotInv, [Next]_vars
    PROVE  GotInv'
<1>0. TypeInv' /\ \A n \in Nodes : counter[n] \in Nat /\ counter[n] >= 1
  BY TypeStep DEF TypeInv, TypeOK
<1>1. ASSUME NEW m \in net' PROVE m.ctr # 0 /\ m.from \in Nodes /\ m.ack \in Counters
  <2>1. m.from \in Nodes /\ m.ack \in Counters /\ m.ctr \in Nat
    <3>1. m \in Packets
      BY <1>0, Zenon DEF TypeInv, TypeOK
    <3>. QED
      BY <3>1 DEF Packets, Counters
  <2>2. CASE m \in net
    BY <2>1, <2>2, Zenon DEF GotInv
  <2>3. CASE m \notin net
    BY <1>0, <2>1, <2>3, NetStep
  <2>. QED
    BY <2>1, <2>2, <2>3, Zenon
<1>2. ASSUME NEW k \in Nodes, NEW a \in mrp'[k].owed \cup mrp'[k].displaced
      PROVE  Got(k, a.ctr)'
  <2>1. CASE a \in AcksOwed(k)
    <3>1. Got(k, a.ctr) /\ a.ctr \in Counters
      BY <2>1, Zenon DEF GotInv, TypeInv, TablesInv
    <3>. QED
      BY <3>1, GotStays, Zenon
  <2>. QED
    BY <2>1, OwedStep, JustGot, Zenon
<1>3. ASSUME NEW m \in net', m.ack # NoAck PROVE Got(m.from, m.ack)'
  <2>1. CASE m \in net
    BY <1>1, <1>3, <2>1, GotStays, Zenon DEF GotInv
  <2>2. ASSUME NEW a \in AcksOwed(m.from), m.ack = a.ctr PROVE Got(m.from, m.ack)'
    BY <1>1, <2>2, GotStays, Zenon DEF GotInv
  <2>3. ASSUME NEW d \in net \ SentBy(m.from),
               d.ctr = m.ack /\ Classify(window[m.from], d.ctr) # "ok"
        PROVE  Got(m.from, m.ack)'
    <3>1. Got(m.from, m.ack)
      BY <2>3, Zenon DEF Got, GotInv
    <3>. QED
      BY <1>1, <3>1, GotStays, Zenon
  <2>. QED
    BY <1>3, <2>1, <2>2, <2>3, NetStep, Zenon
<1>4. ASSUME NEW k \in Nodes, NEW c \in Counters, accepted'[k][c] > 0
      PROVE  Got(k, c)'
  <2>1. CASE accepted[k][c] > 0
    BY <2>1, GotStays, Zenon DEF GotInv
  <2>. QED
    BY <1>4, <2>1, AcceptedStep, JustGot
<1>. QED
  BY <1>1, <1>2, <1>3, <1>4, Zenon DEF GotInv, AcksOwed
-----------------------------------------------------------------------------
\* No ACK is owed twice.
OwedOnce ==
    \A k \in Nodes : /\ mrp[k].owed \cap mrp[k].displaced = {}
                     /\ \A a, b \in AcksOwed(k) : a.ctr = b.ctr => a = b

PromiseInv == OwedOnce /\ OwedIsUnsent /\ AcceptedIsAcknowledged

\* A step takes the ACKs acks out of node n's tables: each in a packet, or given up; and
\* no new packet acknowledges what is owed still.
Discharged(n, acks) ==
    /\ \A k \in Nodes \ {n} : mrp'[k] = mrp[k]
    /\ mrp'[n].owed = mrp[n].owed \ acks
    /\ mrp'[n].displaced = mrp[n].displaced \ acks
    /\ \A a \in acks : \/ \E p \in net' : p.from = n /\ p.ack = a.ctr
                       \/ a.ctr \in lostAcks'[n]
    /\ \A p \in net' \ net : /\ p.from = n
                             /\ \A a \in AcksOwed(n) \ acks : p.ack # a.ctr

\* A message is heard from the step that takes it, which took no other under its counter.
LEMMA HeardStep ==
    ASSUME TypeInv, CounterInv, GotInv, [Next]_vars, NEW n \in Nodes, NEW m \in net',
           m.from # n, accepted'[n][m.ctr] > 0
    PROVE  /\ m \in net \ SentBy(n)
           /\ m \in Heard(n) \/ DecodeAccepted(n, m)
<1>0. m.from \in Nodes /\ m.ctr \in Counters /\ \A k \in net : k.from \in Nodes
  <2>1. TypeInv'
    BY TypeStep, Zenon
  <2>. QED
    BY <2>1, Zenon DEF TypeInv, TypeOK, Packets
<1>1. ASSUME NEW k \in net \ SentBy(n), k.ctr = m.ctr PROVE m = k
  <2>1. k.from = m.from
    BY <1>0, NodesAssumption, Zenon DEF SentBy
  <2>2. m \in net
    <3>1. k.ctr < counter[k.from] /\ counter[k.from] \in Nat
      BY <1>0 DEF CounterInv, TypeInv, TypeOK
    <3>. QED
      BY <1>0, <1>1, <2>1, <3>1, NetStep DEF Counters
  <2>. QED
    BY <1>1, <2>1, <2>2, Zenon DEF CounterInv, CounterNamesOnePacket
<1>2. CASE accepted[n][m.ctr] > 0
  <2>1. PICK k \in net \ SentBy(n) : k.ctr = m.ctr
    BY <1>0, <1>2, Zenon DEF GotInv, Got
  <2>. QED
    BY <1>1, <1>2, <2>1, Zenon DEF Heard
<1>3. ASSUME NEW k \in net \ SentBy(n), DecodeAccepted(n, k), k.ctr = m.ctr
      PROVE  m \in net \ SentBy(n) /\ DecodeAccepted(n, m)
  BY <1>1, <1>3, Zenon
<1>. QED
  BY <1>0, <1>2, <1>3, AcceptedStep, Zenon

\* Discharging ACKs keeps the promise.
LEMMA DischargeKeeps ==
    ASSUME TypeInv, CounterInv, GotInv, PromiseInv, [Next]_vars, NEW n \in Nodes,
           NEW acks, Discharged(n, acks),
           ~\E k \in Nodes : \E m \in net \ SentBy(k) : DecodeAccepted(k, m)
    PROVE  PromiseInv'
<1>0. net \subseteq net' /\ \A k \in Nodes : lostAcks[k] \subseteq lostAcks'[k]
  BY NetGrows, Zenon
<1>1. ASSUME NEW k \in Nodes
      PROVE  /\ mrp'[k].owed \subseteq mrp[k].owed
             /\ mrp'[k].displaced \subseteq mrp[k].displaced
             /\ k # n => mrp'[k] = mrp[k]
  BY Zenon DEF Discharged
<1>2. OwedOnce'
  BY <1>1, Zenon DEF PromiseInv, OwedOnce, AcksOwed
<1>3. ASSUME NEW k \in Nodes, NEW a \in mrp'[k].owed \cup mrp'[k].displaced,
             NEW p \in net', p.from = k
      PROVE  p.ack # a.ctr
  <2>1. a \in AcksOwed(k)
    BY <1>1, Zenon DEF AcksOwed
  <2>2. CASE p \in net
    BY <1>3, <2>1, <2>2, Zenon DEF PromiseInv, OwedIsUnsent, SentBy
  <2>3. CASE p \notin net
    <3>1. k = n /\ a \notin acks
      BY <1>3, <2>3, Zenon DEF Discharged
    <3>. QED
      BY <2>1, <2>3, <3>1, Zenon DEF Discharged
  <2>. QED
    BY <2>2, <2>3, Zenon
<1>4. ASSUME NEW k \in Nodes \ TransportReliable, NEW m \in net', m.from # k,
             accepted'[k][m.ctr] > 0, m.rel
      PROVE  \/ \E a \in mrp'[k].owed \cup mrp'[k].displaced : a.ctr = m.ctr
             \/ \E p \in net' : p.from = k /\ p.ack = m.ctr
             \/ m.ctr \in lostAcks'[k]
  <2>1. m \in Heard(k)
    BY <1>4, HeardStep, Zenon
  <2>2. CASE \E p \in SentBy(k) : p.ack = m.ctr
    BY <1>0, <2>2, Zenon DEF SentBy
  <2>3. CASE m.ctr \in lostAcks[k]
    BY <1>0, <2>3, Zenon
  <2>4. ASSUME NEW a \in AcksOwed(k), a.ctr = m.ctr, k # n
        PROVE  a \in mrp'[k].owed \cup mrp'[k].displaced
    BY <1>1, <2>4, Zenon DEF AcksOwed
  <2>5. ASSUME NEW a \in AcksOwed(k), a.ctr = m.ctr, k = n, a \notin acks
        PROVE  a \in mrp'[k].owed \cup mrp'[k].displaced
    BY <2>5, Zenon DEF AcksOwed, Discharged
  <2>6. ASSUME NEW a \in AcksOwed(k), a.ctr = m.ctr, k = n, a \in acks
        PROVE  \/ \E p \in net' : p.from = k /\ p.ack = m.ctr
               \/ m.ctr \in lostAcks'[k]
    BY <2>6, Zenon DEF Discharged
  <2>7. \/ \E a \in AcksOwed(k) : a.ctr = m.ctr
        \/ \E p \in SentBy(k) : p.ack = m.ctr
        \/ m.ctr \in lostAcks[k]
    BY <1>4, <2>1, Zenon DEF PromiseInv, AcceptedIsAcknowledged
  <2>. QED
    BY <2>2, <2>3, <2>4, <2>5, <2>6, <2>7, Zenon
<1>5. OwedIsUnsent'
  BY <1>3, Zenon DEF OwedIsUnsent, AcksOwed, SentBy
<1>6. AcceptedIsAcknowledged'
  BY <1>4, Zenon DEF AcceptedIsAcknowledged, AcksOwed, SentBy, Heard
<1>. QED
  BY <1>2, <1>5, <1>6, Zenon DEF PromiseInv

\* The ACKs that are fired go out, but for those there is no counter for.
LEMMA EmitDischarges ==
    ASSUME TypeInv, OwedOnce, NEW n \in Nodes, NEW acks, acks \subseteq AcksOwed(n),
           EmitAcks(n, acks), NEW r, mrp' = [mrp EXCEPT ![n] = r],
           r.owed = mrp[n].owed \ acks, r.displaced = mrp[n].displaced \ acks
    PROVE  Discharged(n, acks)
<1>0. /\ counter \in [Nodes -> 1 .. MaxCounter] /\ lostAcks \in [Nodes -> SUBSET Counters]
      /\ mrp \in [Nodes -> MrpStates]
      /\ \A a \in acks : a.ctr \in Counters
  BY Zenon DEF TypeInv, TypeOK, TablesInv, AcksOwed
<1>1. PICK next \in counter[n] .. MaxCounter :
        \E num \in [acks -> counter[n] .. next] : EmitNumbered(n, acks, next, num)
  BY Zenon DEF EmitAcks
<1>2. PICK num \in [acks -> counter[n] .. next] : EmitNumbered(n, acks, next, num)
  BY <1>1, Zenon
<1>. DEFINE Numbered(a) == AckPacket(n, num[a], a.xch, a.ctr)
<1>3. \A a : Numbered(a).from = n /\ Numbered(a).ack = a.ctr
  BY Zenon DEF AckPacket
<1>4. /\ net' = net \cup {Numbered(a) : a \in {b \in acks : num[b] < next}}
      /\ lostAcks' = [lostAcks EXCEPT ![n] =
                        lostAcks[n] \cup {a.ctr : a \in {b \in acks : num[b] = next}}]
  BY <1>2, Zenon DEF EmitNumbered
<1>5. \A a \in acks : num[a] < next \/ num[a] = next
  <2>1. counter[n] \in Nat /\ next \in Nat
    BY <1>0
  <2>. QED
    BY <2>1
<1>. HIDE DEF Numbered
<1>6. ASSUME NEW a \in acks
      PROVE  (\E p \in net' : p.from = n /\ p.ack = a.ctr) \/ a.ctr \in lostAcks'[n]
  <2>1. CASE num[a] < next
    BY <1>3, <1>4, <2>1, Zenon
  <2>2. CASE num[a] = next
    BY <1>0, <1>4, <2>2, Zenon
  <2>. QED
    BY <1>5, <2>1, <2>2, Zenon
<1>7. ASSUME NEW p \in net' \ net
      PROVE  p.from = n /\ \A a \in AcksOwed(n) \ acks : p.ack # a.ctr
  <2>1. PICK b \in acks : p = Numbered(b)
    BY <1>4, Zenon
  <2>. QED
    BY <1>3, <2>1, Zenon DEF OwedOnce
<1>8. mrp'[n] = r /\ \A k \in Nodes \ {n} : mrp'[k] = mrp[k]
  BY <1>0, Zenon
<1>. QED
  BY <1>6, <1>7, <1>8, Zenon DEF Discharged

\* encode_on carries the one ACK its exchange owes.
LEMMA EncodeDischarges ==
    ASSUME TypeInv, GotInv, OwedOnce, NEW n \in Nodes, NEW x \in ExchangeKeys,
           NEW want \in BOOLEAN, EncodeOn(n, x, want)
    PROVE  Discharged(n, On(mrp[n].owed, x))
<1>. DEFINE rel == want /\ n \notin TransportReliable
            acks == On(mrp[n].owed, x)
            ride == {a.ctr : a \in acks}
            some == CHOOSE c \in ride : TRUE
            ack == IF ride = {} THEN NoAck ELSE some
            k == [from |-> n, ctr |-> counter[n], xid |-> x.id, ini |-> x.ours,
                  rel |-> rel, ack |-> ack, bare |-> FALSE]
            r == Send(mrp[n], x, counter[n], rel)
<1>0. /\ mrp \in [Nodes -> MrpStates] /\ rel \in BOOLEAN
      /\ \A a, b \in mrp[n].owed : a.xch = b.xch => a = b
  BY Zenon DEF TypeInv, TypeOK
<1>1. net' = net \cup {k} /\ mrp' = [mrp EXCEPT ![n] = r]
  BY Zenon DEF EncodeOn
<1>2. k.from = n /\ k.ack = ack
  BY Zenon
<1>3. acks \subseteq mrp[n].owed /\ \A a, b \in acks : a = b
  BY <1>0, Zenon DEF On
<1>. HIDE DEF rel
<1>4. r.owed = mrp[n].owed \ acks /\ r.displaced = mrp[n].displaced
  BY <1>0, SendFields
<1>. HIDE DEF k, r, acks
<1>5. ASSUME NEW a \in acks PROVE ack = a.ctr
  <2>1. ride = {a.ctr}
    BY <1>3, Zenon
  <2>. HIDE DEF ride
  <2>. QED
    BY <2>1, Zenon
<1>6. acks = {} => ack = NoAck
  BY Zenon
<1>. HIDE DEF ack
<1>7. ASSUME NEW a \in AcksOwed(n) \ acks PROVE ack # a.ctr
  <2>1. CASE acks = {}
    BY <1>6, <2>1, Zenon DEF GotInv, Got, NoAck
  <2>2. ASSUME NEW b \in acks PROVE ack # a.ctr
    <3>1. b \in AcksOwed(n) /\ a # b
      BY <1>3, Zenon DEF AcksOwed
    <3>. QED
      BY <1>5, <3>1, Zenon DEF OwedOnce
  <2>. QED
    BY <2>1, <2>2, Zenon
<1>8. mrp[n].displaced = mrp[n].displaced \ acks
  BY <1>3, Zenon DEF OwedOnce
<1>9. mrp'[n] = r /\ \A j \in Nodes \ {n} : mrp'[j] = mrp[j]
  BY <1>0, <1>1, Zenon
<1>10. k \in net' /\ \A p \in net' \ net : p = k
  BY <1>1, Zenon
<1>. QED
  BY <1>2, <1>4, <1>5, <1>7, <1>8, <1>9, <1>10, Zenon DEF Discharged, acks

\* Every step but the taking of a message discharges ACKs, or leaves them alone.
LEMMA StepDischarges ==
    ASSUME TypeInv, GotInv, OwedOnce, [Next]_vars
    PROVE  \/ \E n \in Nodes, acks \in SUBSET OwedAcks : Discharged(n, acks)
           \/ UNCHANGED vars
           \/ \E n \in Nodes : \E m \in net \ SentBy(n) : DecodeAccepted(n, m)
<1>0. /\ mrp \in [Nodes -> MrpStates]
      /\ \A n \in Nodes : /\ Good(mrp[n]) /\ BusyBut(mrp[n], Exempt(n))
                          /\ AcksOwed(n) \subseteq OwedAcks
                          /\ mrp[n].owed \subseteq OwedAcks
                          /\ mrp[n].displaced \subseteq OwedAcks
  BY StateFields, Zenon DEF TypeInv, TypeOK, TablesInv, AcksOwed
<1>. DEFINE Some(n) == \E acks \in SUBSET OwedAcks : Discharged(n, acks)
<1>1. ASSUME NEW n \in Nodes, NEW x \in ExchangeKeys, NEW want \in BOOLEAN, EncodeOn(n, x, want)
      PROVE  Some(n)
  <2>1. On(mrp[n].owed, x) \in SUBSET OwedAcks
    BY <1>0, Zenon DEF On
  <2>. QED
    BY <1>1, <2>1, EncodeDischarges, Zenon
<1>2. ASSUME NEW n \in Nodes, NEW due \in SUBSET mrp[n].pending,
             NEW dueAcks \in SUBSET mrp[n].owed, HandleTimeout(n, due, dueAcks)
      PROVE  Some(n)
  <2>. DEFINE r == HandleTimeoutMrp(mrp[n], due, dueAcks)
              acks == dueAcks \cup mrp[n].displaced
  <2>1. mrp' = [mrp EXCEPT ![n] = r] /\ EmitAcks(n, acks)
    BY <1>2, Zenon DEF HandleTimeout
  <2>2. /\ Good(r)
        /\ BusyBut(r, Exempt(n))
        /\ r.pending = AfterTurn(mrp[n].pending, due)
        /\ r.owed = mrp[n].owed \ dueAcks
        /\ r.displaced = {}
    BY <1>0, HandleTimeoutKeeps, Zenon
  <2>. HIDE DEF r
  <2>3. r.owed = mrp[n].owed \ acks /\ r.displaced = mrp[n].displaced \ acks
    BY <2>2, Zenon DEF OwedOnce
  <2>4. acks \subseteq AcksOwed(n) /\ acks \in SUBSET OwedAcks
    BY <1>0, Zenon DEF AcksOwed
  <2>. HIDE DEF acks
  <2>. QED
    BY <2>1, <2>3, <2>4, EmitDischarges, Zenon
<1>3. ASSUME NEW n \in Nodes, NEW x \in ExchangeKeys, NEW abort \in BOOLEAN,
             EndExchange(n, x, abort)
      PROVE  Some(n)
  <2>. DEFINE f == FlushExchange(mrp[n], x)
              r == IF abort THEN CloseExchange(f, x) ELSE f
              acks == On(AcksOwed(n), x)
  <2>1. mrp' = [mrp EXCEPT ![n] = r] /\ EmitAcks(n, acks)
    BY <1>3, Zenon DEF EndExchange
  <2>2. /\ f.owed = mrp[n].owed \ On(mrp[n].owed, x)
        /\ f.displaced = mrp[n].displaced \ On(mrp[n].displaced, x)
    BY <1>0, FlushExchangeKeeps, Zenon
  <2>. HIDE DEF f
  <2>3. /\ CloseExchange(f, x).owed = f.owed \ On(f.owed, x)
        /\ CloseExchange(f, x).displaced = f.displaced \ On(f.displaced, x)
    BY Zenon DEF CloseExchange
  <2>4. r.owed = mrp[n].owed \ acks /\ r.displaced = mrp[n].displaced \ acks
    <3>1. r.owed = f.owed /\ r.displaced = f.displaced
      BY <2>2, <2>3, Zenon DEF On
    <3>. HIDE DEF r
    <3>. QED
      BY <2>2, <3>1, Zenon DEF On, AcksOwed
  <2>5. acks \subseteq AcksOwed(n) /\ acks \in SUBSET OwedAcks
    BY <1>0, Zenon DEF On
  <2>. HIDE DEF r, acks
  <2>. QED
    BY <2>1, <2>4, <2>5, EmitDischarges, Zenon
<1>4. ASSUME NEW n \in Nodes, FlushSessionAcks(n)
      PROVE  Some(n)
  <2>. DEFINE r == FlushAll(mrp[n])
  <2>1. mrp' = [mrp EXCEPT ![n] = r] /\ EmitAcks(n, AcksOwed(n))
    BY <1>4, Zenon DEF FlushSessionAcks
  <2>2. r.owed = {} /\ r.displaced = {}
    BY <1>0, FlushAllKeeps, Zenon
  <2>. HIDE DEF r
  <2>3. r.owed = mrp[n].owed \ AcksOwed(n) /\ r.displaced = mrp[n].displaced \ AcksOwed(n)
    BY <2>2, Zenon DEF AcksOwed
  <2>. QED
    BY <1>0, <2>1, <2>3, EmitDischarges, Zenon
<1>5. ASSUME NEW n \in Nodes, NEW m \in net \ SentBy(n), DecodeDuplicate(n, m)
      PROVE  Some(n)
  <2>. DEFINE r == ForgetAckFor(mrp[n], m.ctr)
              acks == {a \in AcksOwed(n) : a.ctr = m.ctr}
              k == AckPacket(n, counter[n], OfInbound(m.xid, m.ini), m.ctr)
  <2>1. mrp' = [mrp EXCEPT ![n] = r] /\ net' = net \cup {k}
    BY <1>5, Zenon DEF DecodeDuplicate
  <2>2. k.from = n /\ k.ack = m.ctr
    BY Zenon DEF AckPacket
  <2>3. /\ r.owed = {a \in mrp[n].owed : a.ctr # m.ctr}
        /\ r.displaced = {a \in mrp[n].displaced : a.ctr # m.ctr}
    BY <1>0, ForgetAckForKeeps
  <2>. HIDE DEF r, k
  <2>4. mrp'[n] = r /\ \A j \in Nodes \ {n} : mrp'[j] = mrp[j]
    BY <1>0, <2>1, Zenon
  <2>5. r.owed = mrp[n].owed \ acks /\ r.displaced = mrp[n].displaced \ acks
    BY <2>3, Zenon DEF AcksOwed
  <2>6. Discharged(n, acks)
    BY <2>1, <2>2, <2>4, <2>5, Zenon DEF Discharged
  <2>7. acks \in SUBSET OwedAcks
    BY <1>0, Zenon
  <2>. QED
    BY <2>6, <2>7, Zenon
<1>6. ASSUME NEW n \in Nodes, NEW m \in net \ SentBy(n), DecodeTableFull(n, m)
      PROVE  Some(n)
  <2>1. Discharged(n, {})
    BY <1>6, Zenon DEF DecodeTableFull, Discharged
  <2>. QED
    BY <2>1, Zenon
<1>. HIDE DEF Some
<1>7. CASE Next
  <2>1. \/ \E n \in Nodes : Some(n)
        \/ \E n \in Nodes : \E m \in net \ SentBy(n) : DecodeAccepted(n, m)
    BY <1>1, <1>2, <1>3, <1>4, <1>5, <1>6, <1>7, NextCases, Zenon
  <2>. QED
    BY <2>1, Zenon DEF Some
<1>. QED
  BY <1>7, Zenon

\* decode_inbound, on the ACKs owed.
LEMMA DecodeAcceptedAcks ==
    ASSUME TypeInv, NEW n \in Nodes, NEW m \in net \ SentBy(n), DecodeAccepted(n, m)
    PROVE  LET x == OfInbound(m.xid, m.ini)
               a == [xch |-> x, ctr |-> m.ctr]
           IN  /\ \A k \in Nodes \ {n} : mrp'[k] = mrp[k]
               /\ mrp'[n].owed \subseteq (mrp[n].owed \ On(mrp[n].owed, x)) \cup {a} \/ ~m.rel
               /\ mrp'[n].owed \subseteq mrp[n].owed \/ m.rel
               /\ mrp'[n].displaced \subseteq mrp[n].displaced \cup On(mrp[n].owed, x) \/ ~m.rel
               /\ mrp'[n].displaced \subseteq mrp[n].displaced \/ m.rel
               /\ n \notin TransportReliable =>
                    /\ m.rel => a \in mrp'[n].owed
                    /\ \A b \in AcksOwed(n) :
                         \/ b \in mrp'[n].owed \cup mrp'[n].displaced
                         \/ b.ctr \in lostAcks'[n]
<1>. DEFINE x == OfInbound(m.xid, m.ini)
            a == [xch |-> x, ctr |-> m.ctr]
            d == ProcessInbound(mrp[n], x, m.ctr, m.ack, m.rel)
            r == IF n \in TransportReliable /\ ~m.bare THEN CancelAck(d, x) ELSE d
            room == Cardinality(mrp[n].displaced) < MaxDisplaced
<1>0. m \in Packets /\ m.ctr \in Nat /\ m.rel \in BOOLEAN
  BY SMTT(30) DEF TypeInv, TypeOK, Packets, Counters
<1>1. x \in ExchangeKeys
  BY <1>0, Zenon DEF Packets, OfInbound, ExchangeKeys
<1>2. /\ Good(mrp[n]) /\ BusyBut(mrp[n], Exempt(n)) /\ mrp[n] \in MrpStates
      /\ mrp \in [Nodes -> MrpStates] /\ lostAcks \in [Nodes -> SUBSET Counters]
  BY Zenon DEF TypeInv, TypeOK, TablesInv
<1>3. /\ mrp' = [mrp EXCEPT ![n] = r]
      /\ lostAcks' = [lostAcks EXCEPT ![n] =
              IF m.rel THEN lostAcks[n] \cup {b.ctr : b \in DroppedByOwe(mrp[n], x)}
              ELSE lostAcks[n]]
  BY Zenon DEF DecodeAccepted
<1>. HIDE DEF x
<1>. HIDE DEF d
<1>4. Good(d)
  BY <1>0, <1>1, <1>2, ProcessInboundKeeps, Zenon DEF d
<1>5. /\ ~m.rel => d.owed = mrp[n].owed /\ d.displaced = mrp[n].displaced
      /\ m.rel => /\ d.owed = (mrp[n].owed \ On(mrp[n].owed, x)) \cup {a}
                  /\ d.displaced = IF room THEN mrp[n].displaced \cup On(mrp[n].owed, x)
                                   ELSE mrp[n].displaced
  <2>1. Owing(d, mrp[n], x, m.ctr, m.rel)
    BY <1>0, <1>1, <1>2, ProcessInboundAcks, Zenon DEF d
  <2>. QED
    BY <2>1, Zenon DEF Owing
<1>6. /\ r.owed \subseteq d.owed /\ r.displaced \subseteq d.displaced
      /\ n \notin TransportReliable => r = d
  BY <1>4, CancelAckKeeps
<1>7. m.rel /\ ~room => \A b \in On(mrp[n].owed, x) : b.ctr \in lostAcks'[n]
  BY <1>2, <1>3, Zenon DEF DroppedByOwe
<1>. HIDE DEF r, room, a
<1>8. mrp'[n] = r /\ \A k \in Nodes \ {n} : mrp'[k] = mrp[k]
  BY <1>2, <1>3, Zenon
<1>9. /\ r.owed \subseteq (mrp[n].owed \ On(mrp[n].owed, x)) \cup {a} \/ ~m.rel
      /\ r.owed \subseteq mrp[n].owed \/ m.rel
      /\ r.displaced \subseteq mrp[n].displaced \cup On(mrp[n].owed, x) \/ ~m.rel
      /\ r.displaced \subseteq mrp[n].displaced \/ m.rel
  BY <1>0, <1>5, <1>6, Zenon
<1>10. ASSUME n \notin TransportReliable
      PROVE  /\ m.rel => a \in r.owed
             /\ \A b \in AcksOwed(n) : b \in r.owed \cup r.displaced \/ b.ctr \in lostAcks'[n]
  BY <1>0, <1>5, <1>6, <1>7, <1>10, Zenon DEF AcksOwed, On
<1>. QED
  BY <1>8, <1>9, <1>10, Zenon DEF x, a

\* A message that is taken is owed an ACK, and what was owed stays owed or is given up.
LEMMA AcceptKeeps ==
    ASSUME TypeInv, CounterInv, GotInv, PromiseInv, [Next]_vars, NEW n \in Nodes,
           NEW m \in net \ SentBy(n), DecodeAccepted(n, m)
    PROVE  PromiseInv'
<1>. DEFINE x == OfInbound(m.xid, m.ini)
            a == [xch |-> x, ctr |-> m.ctr]
            old == mrp[n]
            new == mrp'[n]
<1>1. /\ \A k \in Nodes \ {n} : mrp'[k] = mrp[k]
      /\ m.rel => /\ new.owed \subseteq (old.owed \ On(old.owed, x)) \cup {a}
                  /\ new.displaced \subseteq old.displaced \cup On(old.owed, x)
      /\ ~m.rel => new.owed \subseteq old.owed /\ new.displaced \subseteq old.displaced
      /\ n \notin TransportReliable =>
           /\ m.rel => a \in new.owed
           /\ \A b \in AcksOwed(n) :
                b \in new.owed \cup new.displaced \/ b.ctr \in lostAcks'[n]
  BY DecodeAcceptedAcks, Zenon
<1>2. /\ net' = net /\ Classify(window[n], m.ctr) = "ok"
      /\ \A k \in Nodes : lostAcks[k] \subseteq lostAcks'[k]
  BY NetGrows, Zenon DEF DecodeAccepted
<1>3. /\ \A b \in AcksOwed(n) : b.ctr # m.ctr
      /\ \A p \in SentBy(n) : p.ack # m.ctr
      /\ a.ctr = m.ctr
  <2>1. ~Got(n, m.ctr) /\ m.ctr # NoAck
    BY <1>2, Zenon DEF GotInv, Got, NoAck
  <2>. QED
    BY <2>1, Zenon DEF GotInv, SentBy
<1>4. On(old.owed, x) \subseteq old.owed
  BY Zenon DEF On
<1>. HIDE DEF a, x
<1>5. new.owed \cup new.displaced \subseteq AcksOwed(n) \cup {a}
  BY <1>1, <1>4, Zenon DEF AcksOwed
<1>6. new.owed \cap new.displaced = {}
  BY <1>1, <1>3, <1>4, Zenon DEF PromiseInv, OwedOnce, AcksOwed
<1>. HIDE DEF new, old
<1>7. \A b, c \in new.owed \cup new.displaced : b.ctr = c.ctr => b = c
  BY <1>3, <1>5, Zenon DEF PromiseInv, OwedOnce
<1>8. OwedOnce'
  BY <1>1, <1>6, <1>7, Zenon DEF PromiseInv, OwedOnce, AcksOwed, new
<1>9. OwedIsUnsent'
  <2>1. ASSUME NEW b \in new.owed \cup new.displaced, NEW p \in SentBy(n) PROVE p.ack # b.ctr
    BY <1>3, <1>5, Zenon DEF PromiseInv, OwedIsUnsent
  <2>. QED
    BY <1>1, <1>2, <2>1, Zenon DEF PromiseInv, OwedIsUnsent, AcksOwed, SentBy, new
<1>10. ASSUME NEW k \in Nodes \ TransportReliable, NEW p \in net', p.from # k,
              accepted'[k][p.ctr] > 0, p.rel
       PROVE  \/ \E b \in mrp'[k].owed \cup mrp'[k].displaced : b.ctr = p.ctr
              \/ \E q \in net' : q.from = k /\ q.ack = p.ctr
              \/ p.ctr \in lostAcks'[k]
  <2>1. CASE p \in Heard(k)
    <3>1. \/ \E b \in AcksOwed(k) : b.ctr = p.ctr
          \/ \E q \in SentBy(k) : q.ack = p.ctr
          \/ p.ctr \in lostAcks[k]
      BY <1>10, <2>1, Zenon DEF PromiseInv, AcceptedIsAcknowledged
    <3>2. ASSUME NEW b \in AcksOwed(k)
          PROVE  b \in mrp'[k].owed \cup mrp'[k].displaced \/ b.ctr \in lostAcks'[k]
      BY <1>1, Zenon DEF AcksOwed, new
    <3>. QED
      BY <1>2, <3>1, <3>2, Zenon DEF SentBy
  <2>2. CASE DecodeAccepted(k, p) /\ p \in net \ SentBy(k)
    <3>1. LET y == OfInbound(p.xid, p.ini)
              b == [xch |-> y, ctr |-> p.ctr]
          IN  b \in mrp'[k].owed
      BY <1>10, <2>2, DecodeAcceptedAcks, Zenon
    <3>. QED
      BY <3>1, SMTT(30)
  <2>. QED
    BY <1>10, <2>1, <2>2, HeardStep, Zenon
<1>11. AcceptedIsAcknowledged'
  BY <1>10, Zenon DEF AcceptedIsAcknowledged, AcksOwed, SentBy, Heard
<1>. QED
  BY <1>8, <1>9, <1>11, Zenon DEF PromiseInv

\* Each step keeps the promise.
LEMMA PromiseStep ==
    ASSUME TypeInv, CounterInv, GotInv, PromiseInv, [Next]_vars
    PROVE  PromiseInv'
<1>1. CASE UNCHANGED vars
  <2>1. OwedOnce'
    BY <1>1, Zenon DEF vars, PromiseInv, OwedOnce, AcksOwed
  <2>2. OwedIsUnsent'
    BY <1>1, Zenon DEF vars, PromiseInv, OwedIsUnsent, AcksOwed, SentBy
  <2>3. AcceptedIsAcknowledged'
    BY <1>1, Zenon DEF vars, PromiseInv, AcceptedIsAcknowledged, AcksOwed, SentBy, Heard
  <2>. QED
    BY <2>1, <2>2, <2>3, Zenon DEF PromiseInv
<1>2. CASE \E n \in Nodes : \E m \in net \ SentBy(n) : DecodeAccepted(n, m)
  BY <1>2, AcceptKeeps, Zenon
<1>3. CASE ~\E n \in Nodes : \E m \in net \ SentBy(n) : DecodeAccepted(n, m)
  <2>1. OwedOnce
    BY Zenon DEF PromiseInv
  <2>. QED
    BY <1>1, <1>3, <2>1, StepDischarges, DischargeKeeps, Zenon
<1>. QED
  BY <1>2, <1>3, Zenon

\* Initially nothing is owed, sent or taken.
LEMMA PromiseInit == Init => GotInv /\ PromiseInv /\ CounterInv
<1>. SUFFICES ASSUME Init PROVE GotInv /\ PromiseInv /\ CounterInv
  BY Zenon
<1>1. net = {} /\ \A k \in Nodes : mrp[k].owed = {} /\ mrp[k].displaced = {}
  BY Zenon DEF Init, NewMrp
<1>2. \A k \in Nodes, c \in Counters : ~(accepted[k][c] > 0)
  BY DEF Init
<1>. QED
  BY <1>1, <1>2, Zenon
     DEF GotInv, PromiseInv, OwedOnce, OwedIsUnsent, AcceptedIsAcknowledged, AcksOwed,
                    SentBy, Heard, CounterInv, CounterNamesOnePacket

\* decode_inbound's promise of an ACK is kept on every path an ACK can take: it rides, fires,
\* is flushed or displaced, answers a duplicate, or is given up where the code says so.
THEOREM SessionAcksWhatItTakes == Spec => []AcceptedIsAcknowledged
<1>1. PromiseInv => AcceptedIsAcknowledged
  BY Zenon DEF PromiseInv
<1>. QED
  BY TypeInit, TypeStep, CounterStep, GotStep, PromiseInit, PromiseStep, <1>1, PTL DEF Spec

\* No two of those paths acknowledge the same delivery.
THEOREM SessionAcksOnce == Spec => []OwedIsUnsent
<1>1. PromiseInv => OwedIsUnsent
  BY Zenon DEF PromiseInv
<1>. QED
  BY TypeInit, TypeStep, CounterStep, GotStep, PromiseInit, PromiseStep, <1>1, PTL DEF Spec
-----------------------------------------------------------------------------
\* A pending message was acknowledged by nothing its sender has taken.
UnackedInv ==
    \A n \in Nodes : \A p \in mrp[n].pending : \A m \in Heard(n) : m.ack # p.ctr

\* No one acknowledges a counter that was not used yet.
LEMMA UnusedIsUnacked ==
    ASSUME TypeInv, CounterInv, GotInv, NEW n \in Nodes, NEW m \in Heard(n)
    PROVE  m.ack # counter[n]
<1>1. /\ m \in net /\ m.from \in Nodes \ {n} /\ counter[n] \in Nat /\ counter[n] # 0
      /\ \A k \in net : k.from \in Nodes
  BY DEF Heard, SentBy, TypeInv, TypeOK, Packets
<1>2. ASSUME NEW k \in net \ SentBy(m.from) PROVE k.ctr # counter[n]
  <2>1. k.from = n
    BY <1>1, NodesAssumption, Zenon DEF SentBy
  <2>2. k.ctr < counter[n] /\ k.ctr \in Nat
    BY <2>1 DEF CounterInv, TypeInv, TypeOK, Packets, Counters
  <2>. QED
    BY <1>1, <2>2
<1>. QED
  BY <1>1, <1>2, Zenon DEF GotInv, Got, NoAck

\* An ACK that is taken ends the retransmission of its message.
LEMMA UnackedStep ==
    ASSUME TypeInv, CounterInv, GotInv, BudgetInv, UnackedInv, [Next]_vars
    PROVE  UnackedInv'
<1>1. ASSUME NEW n \in Nodes, NEW p \in mrp'[n].pending, NEW m \in net', m.from # n,
             accepted'[n][m.ctr] > 0
      PROVE  m.ack # p.ctr
  <2>1. CASE m \in Heard(n)
    BY <2>1, BudgetStep, UnusedIsUnacked DEF UnackedInv, SendsLive, Live, Waiting
  <2>2. CASE DecodeAccepted(n, m) /\ m \in net \ SentBy(n)
    BY <2>2, DecodeAcceptedTables
  <2>. QED
    BY <1>1, <2>1, <2>2, HeardStep, Zenon
<1>. QED
  BY <1>1, Zenon DEF UnackedInv, Heard, SentBy

\* Retransmission stops for good: handle_timeout resends nothing that expired, was aborted
\* or was acknowledged by a packet the node has taken, on whichever exchange that came.
THEOREM SessionStopsResending == Spec => SettledIsNotResent
<1>1. Init => UnackedInv
  BY Zenon, Zenon DEF Init, UnackedInv, Heard
<1>2. TypeInv /\ CounterInv /\ GotInv /\ UnackedInv /\ BudgetInv /\ [Next]_vars
        => [\A n \in Nodes, c \in Counters :
              transmitted'[n][c] # transmitted[n][c] =>
                /\ outcome[n][c] = "none"
                /\ \A m \in Heard(n) : m.ack # c]_vars
  <2>. SUFFICES ASSUME TypeInv, CounterInv, GotInv, UnackedInv, BudgetInv, [Next]_vars,
                       NEW n \in Nodes, NEW c \in Counters,
                       transmitted'[n][c] # transmitted[n][c]
                PROVE  outcome[n][c] = "none" /\ \A m \in Heard(n) : m.ack # c
    BY Zenon
  <2>1. CASE c = counter[n]
    <3>1. c >= counter[n]
      BY <2>1 DEF Counters
    <3>. QED
      BY <2>1, <3>1, UnusedIsUnacked, Zenon DEF BudgetInv, BudgetAt
  <2>2. ASSUME NEW q \in mrp[n].pending, q.ctr = c
        PROVE  outcome[n][c] = "none" /\ \A m \in Heard(n) : m.ack # c
    BY <2>2, Zenon DEF BudgetInv, BudgetAt, UnackedInv
  <2>3. Live(n, c)
    BY BudgetStep, Zenon DEF SendsLive
  <2>. QED
    BY <2>1, <2>2, <2>3, Zenon DEF Live, Waiting
<1>. QED
  BY TypeInit, TypeStep, CounterStep, GotStep, BudgetInit, BudgetStep, PromiseInit, UnackedStep,
     <1>1, <1>2, PTL DEF Spec, SettledIsNotResent
=============================================================================
