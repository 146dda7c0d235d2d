----------------------------- MODULE BtpProofs ------------------------------
(***************************************************************************)
(* Two BTP engines never refuse each other's packets, hand over every SDU  *)
(* whole and in order, and keep to the window but where numbers wrap: for  *)
(* every window, fragment size, modulus and link setting.                  *)
(***************************************************************************)
EXTENDS Btp, TLAPS

\* The sequence number k before t, and how far number a lies behind t.
Before(t, k) == IF k <= t THEN t - k ELSE t - k + SeqMod
Behind(t, a) == IF a < t THEN t - a ELSE t - a + SeqMod

\* Counting modulo a number that is not reached, or reached just now.
LEMMA ModFacts ==
    ASSUME NEW m \in Nat \ {0}
    PROVE  /\ \A x \in Nat : x < m => x % m = x
           /\ m % m = 0
<1>1. \A x \in Nat : x < m => x % m = x
  OBVIOUS
<1>2. m % m = 0
  OBVIOUS
<1> QED  BY <1>1, <1>2, Zenon

\* wrapping_add(1), without the remainder.
LEMMA IncFacts ==
    ASSUME NEW t \in Seqs
    PROVE  /\ Inc(t) = IF t + 1 = SeqMod THEN 0 ELSE t + 1
           /\ Inc(t) \in Seqs
<1>1. /\ SeqMod \in Nat \ {0} /\ t \in Nat /\ t < SeqMod
  BY WindowAssumption, SeqModAssumption DEF Seqs
<1>2. CASE t + 1 = SeqMod
  BY <1>1, <1>2, ModFacts DEF Inc, Seqs
<1>3. CASE t + 1 # SeqMod
  BY <1>1, <1>3, ModFacts DEF Inc, Seqs
<1> QED  BY <1>2, <1>3, Zenon

\* The number before a.
LEMMA DecFacts ==
    ASSUME NEW a \in Seqs
    PROVE  (a + SeqMod - 1) % SeqMod = IF a = 0 THEN SeqMod - 1 ELSE a - 1
<1>1. /\ SeqMod \in Nat \ {0} /\ a \in Nat /\ a < SeqMod
  BY WindowAssumption, SeqModAssumption DEF Seqs
<1>2. CASE a = 0
  BY <1>1, <1>2, ModFacts
<1>3. CASE a # 0
  <2>1. \A m \in Nat \ {0} : \A x \in Nat : x < m => (x + m) % m = x
    OBVIOUS
  <2>2. a - 1 \in Nat /\ a - 1 < SeqMod /\ a + SeqMod - 1 = (a - 1) + SeqMod
    BY <1>1, <1>3
  <2>3. ((a - 1) + SeqMod) % SeqMod = a - 1
    BY <1>1, <2>1, <2>2, Zenon
  <2> QED  BY <1>3, <2>2, <2>3, Zenon
<1> QED  BY <1>2, <1>3, Zenon

\* Numbers and their distances.
LEMMA BeforeFacts ==
    ASSUME NEW t \in Seqs, NEW k \in 0 .. SeqMod - 1
    PROVE  /\ Before(t, k) \in Seqs
           /\ Before(t, 0) = t
           /\ k > 0 => Behind(t, Before(t, k)) = k
           /\ Before(Inc(t), k + 1) = Before(t, k)
           /\ k > 0 => Inc(Before(t, k)) = Before(t, k - 1)
  BY IncFacts, SeqModAssumption DEF Before, Behind, Seqs

\* The interval test of receive_ack accepts what lies within the last m numbers.
LEMMA IntervalTest ==
    ASSUME NEW t \in Seqs, NEW a \in Seqs, NEW m \in 1 .. SeqMod - 1,
           Behind(t, a) \in 1 .. m
    PROVE  IF Before(t, 1) >= Before(t, m)
           THEN a <= Before(t, 1) /\ a >= Before(t, m)
           ELSE a <= Before(t, 1) \/ a >= Before(t, m)
  BY SeqModAssumption DEF Before, Behind, Seqs

\* The distance undoes Before, and grows by one when the counter moves.
LEMMA BehindFacts ==
    ASSUME NEW t \in Seqs, NEW a \in Seqs
    PROVE  /\ Behind(t, a) \in 1 .. SeqMod
           /\ Before(t, Behind(t, a)) = a
           /\ Behind(t, a) < SeqMod => Behind(Inc(t), a) = Behind(t, a) + 1
  BY IncFacts, SeqModAssumption DEF Before, Behind, Seqs

\* The packets of ps carry the consecutive numbers that end before t.
Numbered(ps, t) ==
    \A i \in 1 .. Len(ps) : ps[i].seq = Before(t, Len(ps) + 1 - i)

\* The next packet is numbered t.
LEMMA NumberedAppend ==
    ASSUME NEW S, NEW ps \in Seq(S), NEW t \in Seqs, NEW p,
           Numbered(ps, t), Len(ps) < SeqMod, p.seq = t
    PROVE  Numbered(Append(ps, p), Inc(t))
<1> DEFINE qs == Append(ps, p)
<1>1. SUFFICES ASSUME NEW i \in 1 .. Len(qs)
               PROVE  qs[i].seq = Before(Inc(t), Len(qs) + 1 - i)
  BY Zenon DEF Numbered
<1>2. Len(qs) = Len(ps) + 1 /\ Len(ps) \in Nat /\ SeqMod \in Nat
  BY SeqModAssumption
<1>3. CASE i = Len(ps) + 1
  <2>1. qs[i] = p /\ Len(qs) + 1 - i = 0 + 1 /\ 0 \in 0 .. SeqMod - 1
    BY <1>1, <1>2, <1>3
  <2> QED  BY <2>1, BeforeFacts
<1>4. CASE i # Len(ps) + 1
  <2>1. /\ i \in 1 .. Len(ps) /\ qs[i] = ps[i]
        /\ Len(qs) + 1 - i = (Len(ps) + 1 - i) + 1
        /\ Len(ps) + 1 - i \in 0 .. SeqMod - 1
    BY <1>1, <1>2, <1>4
  <2>2. ps[i].seq = Before(t, Len(ps) + 1 - i)
    BY <2>1, Zenon DEF Numbered
  <2> QED  BY <2>1, <2>2, BeforeFacts
<1> QED  BY <1>3, <1>4, Zenon

\* What is left when the first packets are taken.
LEMMA NumberedSubSeq ==
    ASSUME NEW S, NEW ps \in Seq(S), NEW t, Numbered(ps, t), NEW k \in 1 .. Len(ps) + 1
    PROVE  /\ Numbered(SubSeq(ps, k, Len(ps)), t)
           /\ Len(SubSeq(ps, k, Len(ps))) = Len(ps) + 1 - k
           /\ SubSeq(ps, k, Len(ps)) \in Seq(S)
<1> DEFINE qs == SubSeq(ps, k, Len(ps))
<1>1. Len(qs) = Len(ps) + 1 - k /\ qs \in Seq(S) /\ Len(ps) \in Nat
  OBVIOUS
<1>2. ASSUME NEW i \in 1 .. Len(qs)
      PROVE  qs[i].seq = Before(t, Len(qs) + 1 - i)
  <2>1. /\ k + i - 1 \in 1 .. Len(ps)
        /\ Len(ps) + 1 - (k + i - 1) = Len(qs) + 1 - i
    BY <1>1, <1>2
  <2>2. qs[i] = ps[k + i - 1]
    OBVIOUS
  <2> QED  BY <2>1, <2>2, Zenon DEF Numbered
<1> QED  BY <1>1, <1>2, Zenon DEF Numbered

\* The first packet is taken off.
LEMMA NumberedTail ==
    ASSUME NEW S, NEW ps \in Seq(S), NEW t, Numbered(ps, t), ps # << >>
    PROVE  /\ Numbered(Tail(ps), t)
           /\ Len(Tail(ps)) = Len(ps) - 1
           /\ Head(ps).seq = Before(t, Len(ps))
           /\ Tail(ps) \in Seq(S) /\ Head(ps) \in S
<1>0. Len(ps) \in Nat \ {0} /\ Len(Tail(ps)) = Len(ps) - 1
  OBVIOUS
<1>1. Tail(ps) \in Seq(S) /\ Head(ps) = ps[1] /\ Head(ps) \in S
  OBVIOUS
<1>2. Head(ps).seq = Before(t, Len(ps))
  BY <1>0, <1>1 DEF Numbered
<1>3. ASSUME NEW i \in 1 .. Len(ps) - 1
      PROVE  Tail(ps)[i].seq = Before(t, Len(ps) - i)
  <2>0. Len(ps) \in Nat
    BY <1>0, Zenon
  <2>1. i + 1 \in 1 .. Len(ps)
    BY <2>0
  <2>3. Len(ps) + 1 - (i + 1) = Len(ps) - i
    BY <2>0
  <2>2. Tail(ps)[i] = ps[i + 1]
    OBVIOUS
  <2> QED  BY <2>1, <2>2 DEF Numbered
<1>4. ASSUME NEW i \in 1 .. Len(ps) - 1
      PROVE  (Len(ps) - 1) + 1 - i = Len(ps) - i
  BY <1>0
<1>5. Numbered(Tail(ps), t)
  BY <1>0, <1>3, <1>4, Zenon DEF Numbered
<1> QED  BY <1>0, <1>1, <1>2, <1>5, Zenon

\* An ACK of the packet d back leaves the d - 1 packets after it.
LEMMA UncoveredFacts ==
    ASSUME NEW S, NEW ps \in Seq(S), NEW t \in Seqs, NEW a \in Seqs,
           Numbered(ps, t), Len(ps) < SeqMod, Behind(t, a) \in 1 .. Len(ps)
    PROVE  /\ Numbered(Uncovered(ps, a), t)
           /\ Len(Uncovered(ps, a)) = Behind(t, a) - 1
           /\ Uncovered(ps, a) \in Seq(S)
<1> DEFINE k == Len(ps) + 1 - Behind(t, a)
           covered == {i \in 1 .. Len(ps) : ps[i].seq = a}
<1>1. /\ Len(ps) \in Nat /\ SeqMod \in Nat /\ k \in 1 .. Len(ps)
      /\ Behind(t, a) = Len(ps) + 1 - k
  BY SeqModAssumption
<1>2. k \in covered
  <2>1. ps[k].seq = Before(t, Behind(t, a))
    BY <1>1, Zenon DEF Numbered
  <2> QED  BY <1>1, <2>1, BehindFacts, Zenon
<1>3. ASSUME NEW i \in covered PROVE i = k
  <2>1. /\ i \in 1 .. Len(ps) /\ Len(ps) + 1 - i \in 0 .. SeqMod - 1
        /\ Len(ps) + 1 - i > 0
    BY <1>1, <1>3
  <2>2. Before(t, Len(ps) + 1 - i) = a
    BY <2>1, <1>3, Zenon DEF Numbered
  <2>3. Behind(t, a) = Len(ps) + 1 - i
    BY <2>1, <2>2, BeforeFacts, Zenon
  <2> QED  BY <1>1, <2>1, <2>3
<1>4. Uncovered(ps, a) = SubSeq(ps, 1 + k, Len(ps))
  <2>1. covered # {} /\ (CHOOSE i \in covered : TRUE) = k
    BY <1>2, <1>3, Zenon
  <2> QED  BY <2>1, Zenon DEF Uncovered
<1>5. 1 + k \in 1 .. Len(ps) + 1 /\ Len(ps) + 1 - (1 + k) = Behind(t, a) - 1
  BY <1>1
<1> QED  BY <1>4, <1>5, NumberedSubSeq, Zenon
-----------------------------------------------------------------------------
\* The types of the state.
Bytes == Roles \X Nat \X Nat

Packets ==
    [ack : Seqs \union {None}, seq : Seqs, data : BOOLEAN, begin : BOOLEAN,
     cont : BOOLEAN, end : BOOLEAN, len : Nat, payload : Seq(Bytes)]

Sent == [seq : Seqs, age : Nat]

Ends ==
    [localWin : Nat, rxNext : Seqs, rxLen : Nat \union {None}, rxBuf : Seq(Bytes),
     unackedRx : Seqs \union {None}, ackDue : Nat \union {None}, txNext : Seqs,
     oldest : Seqs, newest : Seqs, expecting : BOOLEAN, since : Nat,
     remoteWin : Nat, txMsg : Nat \union {None}, txSent : Nat,
     inFlight : BOOLEAN, txQueued : Nat]

Reasons == Errors \union {"open", "AckTimedOut", "Closed", "Disconnected"}

\* The SDU under way is the last one queued, and part of it is still to be sent.
Sending(n) ==
    LET e == end[n]
    IN  /\ e.txQueued <= Len(link.sdus[n])
        /\ e.txMsg = None => e.txSent = 0
        /\ e.txMsg # None =>
             /\ e.txMsg = e.txQueued /\ e.txMsg # 0
             /\ e.txSent = 0 \/ e.txSent < link.sdus[n][e.txMsg]

\* The state is well formed.
Types ==
    /\ link \in Settings
    /\ end \in [Roles -> Ends]
    /\ wire \in [Roles -> Seq(Packets)]
    /\ received \in [Roles -> Seq(Seq(Bytes))]
    /\ closed \in [Roles -> Reasons]
    /\ out \in [Roles -> Seq(Sent)]
    /\ \A n \in Roles : Sending(n)

\* Each end is the other's peer, and there is no third.
LEMMA PeerFacts ==
    ASSUME NEW n \in Roles
    PROVE  /\ Peer(n) \in Roles /\ Peer(n) # n /\ Peer(Peer(n)) = n
           /\ \A m \in Roles : m = n \/ m = Peer(n)
  BY Zenon DEF Roles, Peer

\* The SDUs are sequences of bytes.
LEMMA SduFacts ==
    ASSUME Types, NEW n \in Roles, NEW k \in 1 .. Len(link.sdus[n])
    PROVE  /\ link.sdus[n][k] \in Nat
           /\ Sdu(n, k) \in Seq(Bytes)
           /\ Len(Sdu(n, k)) = link.sdus[n][k]
           /\ \A i \in 1 .. link.sdus[n][k] : Sdu(n, k)[i] = <<n, k, i>>
<1>1. link.sdus[n] \in Seq(Nat)
  BY Zenon DEF Types, Settings, Roles
<1>2. link.sdus[n][k] \in Nat /\ k \in Nat
  BY <1>1
<1>3. \A i \in 1 .. link.sdus[n][k] : <<n, k, i>> \in Bytes
  BY <1>2 DEF Bytes
<1>4. Sdu(n, k) \in Seq(Bytes) /\ Len(Sdu(n, k)) = link.sdus[n][k]
  BY <1>2, <1>3 DEF Sdu
<1> QED  BY <1>2, <1>4, Zenon DEF Sdu

\* BtpSession::new leaves two well-formed engines with nothing under way.
LEMMA TypesInit == Init => Types
<1> SUFFICES ASSUME Init PROVE Types
  BY Zenon
<1>1. /\ 0 \in Seqs /\ 1 % SeqMod \in Seqs
      /\ Window \in Nat /\ Window - 1 \in Nat
  BY WindowAssumption, SeqModAssumption, ModFacts DEF Seqs
<1>2. \A n \in Roles : NewEnd(n) \in Ends
  BY <1>1, TicksAssumption DEF NewEnd, Ends, None
<1>3. link \in Settings
  BY LinksAssumption, Zenon DEF Init
<1>4. end \in [Roles -> Ends] /\ wire \in [Roles -> Seq(Packets)]
  BY <1>2 DEF Init
<1>5. received \in [Roles -> Seq(Seq(Bytes))] /\ closed \in [Roles -> Reasons]
  BY DEF Init, Reasons
<1>6. out \in [Roles -> Seq(Sent)]
  <2>1. [seq |-> 0, age |-> 0] \in Sent
    BY <1>1, Zenon DEF Sent
  <2>2. << >> \in Seq(Sent) /\ <<[seq |-> 0, age |-> 0]>> \in Seq(Sent)
    BY <2>1
  <2> QED  BY <2>2, Zenon DEF Init
<1>7. ASSUME NEW n \in Roles PROVE Sending(n)
  <2>1. link.sdus[n] \in Seq(Nat)
    BY <1>3, Zenon DEF Settings, Roles
  <2>2. end[n] = NewEnd(n)
    BY Zenon DEF Init
  <2>3. end[n].txQueued = 0 /\ end[n].txMsg = None /\ end[n].txSent = 0
    BY <2>2 DEF NewEnd
  <2> QED  BY <2>1, <2>3 DEF Sending
<1> QED  BY <1>3, <1>4, <1>5, <1>6, <1>7, Zenon DEF Types

\* The bytes from a + 1 to b of a sequence.
LEMMA SubSeqFacts ==
    ASSUME NEW S, NEW s \in Seq(S), NEW a \in Nat, NEW b \in Nat, a <= b, b <= Len(s)
    PROVE  /\ SubSeq(s, a + 1, b) \in Seq(S)
           /\ Len(SubSeq(s, a + 1, b)) = b - a
           /\ \A i \in 1 .. b - a : SubSeq(s, a + 1, b)[i] = s[a + i]
  OBVIOUS

\* What an end keeps when a packet departs with the ACK it owes, and what it changes.
LEMMA DepartFacts ==
    ASSUME NEW s \in Ends, s.remoteWin # 0
    PROVE  LET d == Depart(TakeAck(s))
           IN  /\ d \in Ends
               /\ d.txNext = Inc(s.txNext) /\ d.newest = s.txNext /\ d.expecting = TRUE
               /\ d.oldest = IF s.expecting THEN s.oldest ELSE s.txNext
               /\ d.remoteWin = s.remoteWin - 1
               /\ d.unackedRx = None /\ d.rxNext = s.rxNext
               /\ d.rxLen = s.rxLen /\ d.rxBuf = s.rxBuf
               /\ d.txQueued = s.txQueued /\ d.txMsg = s.txMsg /\ d.txSent = s.txSent
<1> DEFINE r == TakeAck(s)
<1>1. /\ s.txNext \in Seqs /\ s.remoteWin \in Nat /\ s.unackedRx \in Seqs \union {None}
      /\ Window \in Nat
  BY WindowAssumption, Zenon DEF Ends
<1>2. /\ r \in Ends
      /\ r.txNext = s.txNext /\ r.expecting = s.expecting /\ r.oldest = s.oldest
      /\ r.remoteWin = s.remoteWin /\ r.unackedRx = None /\ r.rxNext = s.rxNext
      /\ r.rxLen = s.rxLen /\ r.rxBuf = s.rxBuf
      /\ r.txQueued = s.txQueued /\ r.txMsg = s.txMsg /\ r.txSent = s.txSent
  BY <1>1, Zenon DEF TakeAck, Ends
<1> HIDE DEF r
<1>3. Inc(r.txNext) \in Seqs
  BY <1>1, <1>2, IncFacts, Zenon
<1> DEFINE d == Depart(r)
<1>4. d \in Ends
  <2> DEFINE old == IF r.expecting THEN r.oldest ELSE r.txNext
             age == IF r.expecting THEN r.since ELSE 0
             win == IF r.remoteWin = 0 THEN 0 ELSE r.remoteWin - 1
  <2>1. old \in Seqs /\ age \in Nat /\ win \in Nat /\ r.txNext \in Seqs
    BY <1>2 DEF Ends
  <2> DEFINE d1 == [r EXCEPT !.expecting = TRUE, !.oldest = old, !.since = age]
             d2 == [d1 EXCEPT !.newest = r.txNext, !.txNext = Inc(r.txNext),
                      !.remoteWin = win, !.inFlight = TRUE]
  <2>0. r \in Ends
    BY <1>2, Zenon
  <2> HIDE DEF old, age, win, d
  <2>2. d1 \in Ends
    BY <2>0, <2>1, Zenon DEF Ends
  <2> HIDE DEF d1
  <2>3. d2 \in Ends
    BY <2>2, <2>1, <1>3, Zenon DEF Ends
  <2>4. d = d2
    BY Zenon DEF Depart, d, d1, old, age, win
  <2> QED  BY <2>3, <2>4, Zenon
<1>5. /\ d.txNext = Inc(r.txNext) /\ d.newest = r.txNext /\ d.expecting = TRUE
      /\ d.oldest = IF r.expecting THEN r.oldest ELSE r.txNext
      /\ d.remoteWin = IF r.remoteWin = 0 THEN 0 ELSE r.remoteWin - 1
      /\ d.unackedRx = r.unackedRx /\ d.rxNext = r.rxNext
      /\ d.rxLen = r.rxLen /\ d.rxBuf = r.rxBuf
      /\ d.txQueued = r.txQueued /\ d.txMsg = r.txMsg /\ d.txSent = r.txSent
  BY <1>2, Zenon DEF Depart, Ends
<1> HIDE DEF d
<1> QED  BY <1>2, <1>4, <1>5, Zenon DEF d, r

\* End n puts packet k on the wire, with the ACK it owes.
Writes(n, k) ==
    /\ closed[n] = "open"
    /\ k \in Packets /\ k.seq = end[n].txNext /\ k.ack = end[n].unackedRx
    /\ wire' = [wire EXCEPT ![Peer(n)] = Append(@, k)]
    /\ out' = [out EXCEPT ![n] = Append(@, [seq |-> k.seq, age |-> 0])]
    /\ end[n].remoteWin # 0
    /\ LET d == Depart(TakeAck(end[n]))
           f == end'[n]
       IN  /\ end' \in [Roles -> Ends] /\ end'[Peer(n)] = end[Peer(n)]
           /\ f.txNext = d.txNext /\ f.newest = d.newest /\ f.expecting = d.expecting
           /\ f.oldest = d.oldest /\ f.remoteWin = d.remoteWin
           /\ f.unackedRx = d.unackedRx /\ f.rxNext = d.rxNext
           /\ f.rxLen = d.rxLen /\ f.rxBuf = d.rxBuf /\ f.txQueued = d.txQueued
    /\ UNCHANGED <<link, received, closed>>

\* Packet k carries the bytes of the SDU under way up to upTo.
CarriesNext(n, k, upTo) ==
    LET e == end[n]
        f == end'[n]
    IN  /\ e.txMsg # None
        /\ k.data
        /\ k.begin = (e.txSent = 0)
        /\ k.cont = ~k.begin
        /\ k.len = link.sdus[n][e.txMsg]
        /\ k.payload = SubSeq(Sdu(n, e.txMsg), e.txSent + 1, upTo)
        /\ \/ k.end /\ upTo = k.len /\ f.txMsg = None /\ f.txSent = 0
           \/ /\ ~k.end /\ e.txSent < upTo /\ upTo < k.len
              /\ f.txMsg = e.txMsg /\ f.txSent = upTo

\* next_gatt_write cuts a fragment that is not empty, but for an empty SDU.
LEMMA WriteShape ==
    ASSUME Types, NEW n \in Roles, NextGattWrite(n)
    PROVE  \E k \in Packets, upTo \in Nat : Writes(n, k) /\ CarriesNext(n, k, upTo)
<1> DEFINE s      == end[n]
           msg    == Sdu(n, s.txMsg)
           first  == s.txSent = 0
           header == 2 + (IF s.unackedRx # None THEN 1 ELSE 0)
                       + (IF first THEN 2 ELSE 0)
           last   == Len(msg) - s.txSent + header <= SegmentSize
           upTo   == IF last THEN Len(msg) ELSE s.txSent + SegmentSize - header
           k      == [ack |-> s.unackedRx, seq |-> s.txNext, data |-> TRUE,
                      begin |-> first, cont |-> ~first, end |-> last,
                      len |-> Len(msg),
                      payload |-> SubSeq(msg, s.txSent + 1, upTo)]
           d      == Depart(TakeAck(s))
           f      == [d EXCEPT !.txMsg  = IF last THEN None ELSE @,
                               !.txSent = IF last THEN 0 ELSE upTo]
<1>1. /\ s \in Ends /\ MaySendData(s) /\ closed[n] = "open"
      /\ wire' = [wire EXCEPT ![Peer(n)] = Append(@, k)]
      /\ out' = [out EXCEPT ![n] = Append(@, [seq |-> k.seq, age |-> 0])]
      /\ end' = [end EXCEPT ![n] = f]
      /\ UNCHANGED <<link, received, closed>>
  BY Zenon DEF NextGattWrite, Emit, IsOpen, Types
<1>2. /\ s.txMsg # None /\ s.remoteWin # 0
      /\ s.txMsg \in 1 .. Len(link.sdus[n]) /\ s.txSent \in Nat
      /\ s.txSent = 0 \/ s.txSent < link.sdus[n][s.txMsg]
      /\ s.txNext \in Seqs /\ s.unackedRx \in Seqs \union {None}
  <2>1. s.txMsg # None /\ s.remoteWin # 0
    BY <1>1, Zenon DEF MaySendData
  <2>2. s.txMsg \in Nat \union {None} /\ s.txSent \in Nat /\ s.txNext \in Seqs
        /\ s.unackedRx \in Seqs \union {None}
    BY <1>1, Zenon DEF Ends
  <2>3. Sending(n) /\ link.sdus[n] \in Seq(Nat)
    BY Zenon DEF Types, Settings, Roles
  <2> QED  BY <2>1, <2>2, <2>3 DEF Sending
<1>3. msg \in Seq(Bytes) /\ Len(msg) = link.sdus[n][s.txMsg] /\ Len(msg) \in Nat
  BY <1>2, SduFacts, Zenon
<1>4. /\ upTo \in Nat /\ upTo <= Len(msg)
      /\ last => upTo = Len(msg)
      /\ ~last => s.txSent < upTo /\ upTo < Len(msg)
      /\ last \in BOOLEAN /\ first \in BOOLEAN
  <2> HIDE DEF msg
  <2>1. header \in 2 .. 5
    OBVIOUS
  <2> HIDE DEF header
  <2>2. /\ last => upTo = Len(msg)
        /\ ~last => upTo = s.txSent + SegmentSize - header
    BY Zenon
  <2>3. ~last => Len(msg) - s.txSent + header > SegmentSize
    BY <1>2, <1>3, <2>1, SegmentAssumption
  <2>6. last \in BOOLEAN /\ first \in BOOLEAN
    OBVIOUS
  <2> HIDE DEF upTo, last
  <2>4. ~last => s.txSent < upTo /\ upTo < Len(msg) /\ upTo \in Nat
    <3>1. s.txSent \in Nat /\ Len(msg) \in Nat
      BY <1>2, <1>3, Zenon
    <3> QED  BY <3>1, <2>1, <2>2, <2>3, SegmentAssumption
  <2>5. upTo \in Nat /\ upTo <= Len(msg)
    BY <1>3, <2>2, <2>4
  <2> QED  BY <2>2, <2>4, <2>5, <2>6, Zenon
<1> HIDE DEF upTo, last
<1>5. k \in Packets
  <2>0. s.txSent \in Nat /\ s.txSent <= upTo
    <3> HIDE DEF msg
    <3> QED  BY <1>2, <1>3, <1>4
  <2>1. SubSeq(msg, s.txSent + 1, upTo) \in Seq(Bytes)
    BY <2>0, <1>3, <1>4, SubSeqFacts, Zenon
  <2> QED  BY <2>1, <1>2, <1>3, <1>4, Zenon DEF Packets
<1>6. /\ d \in Ends /\ d.txMsg = s.txMsg
  BY <1>1, <1>2, DepartFacts, Zenon
<1> HIDE DEF d
<1>7. /\ f \in Ends
      /\ f.txNext = d.txNext /\ f.newest = d.newest /\ f.expecting = d.expecting
      /\ f.oldest = d.oldest /\ f.remoteWin = d.remoteWin
      /\ f.unackedRx = d.unackedRx /\ f.rxNext = d.rxNext
      /\ f.rxLen = d.rxLen /\ f.rxBuf = d.rxBuf /\ f.txQueued = d.txQueued
      /\ f.txMsg = IF last THEN None ELSE s.txMsg
      /\ f.txSent = IF last THEN 0 ELSE upTo
  BY <1>4, <1>6, Zenon DEF Ends
<1>8. end'[n] = f /\ end' \in [Roles -> Ends] /\ end'[Peer(n)] = end[Peer(n)]
  <2> HIDE DEF f
  <2> QED  BY <1>1, <1>7, PeerFacts, Zenon DEF Types
<1> HIDE DEF f, msg
<1>9. k.seq = s.txNext /\ k.ack = s.unackedRx
  BY Zenon
<1>10. Writes(n, k)
  BY <1>1, <1>2, <1>5, <1>7, <1>8, <1>9, Zenon DEF Writes, d
<1>11. CarriesNext(n, k, upTo)
  BY <1>2, <1>3, <1>4, <1>7, <1>8, Zenon DEF CarriesNext, msg
<1> QED  BY <1>4, <1>5, <1>10, <1>11, Zenon

\* handle_timeout writes a standalone ACK.
LEMMA AckShape ==
    ASSUME Types, NEW n \in Roles, HandleSendAck(n)
    PROVE  \E k \in Packets : /\ Writes(n, k) /\ ~k.data
                              /\ end'[n].txMsg = end[n].txMsg
                              /\ end'[n].txSent = end[n].txSent
<1> DEFINE s == end[n]
           d == Depart(TakeAck(s))
           k == [ack |-> s.unackedRx, seq |-> s.txNext, data |-> FALSE,
                 begin |-> FALSE, cont |-> FALSE, end |-> FALSE,
                 len |-> 0, payload |-> << >>]
<1>1. /\ s \in Ends /\ s.remoteWin # 0 /\ closed[n] = "open"
      /\ wire' = [wire EXCEPT ![Peer(n)] = Append(@, k)]
      /\ out' = [out EXCEPT ![n] = Append(@, [seq |-> k.seq, age |-> 0])]
      /\ end' = [end EXCEPT ![n] = d]
      /\ UNCHANGED <<link, received, closed>>
  BY Zenon DEF HandleSendAck, MaySendAck, Emit, IsOpen, Types
<1>2. s.txNext \in Seqs /\ s.unackedRx \in Seqs \union {None}
  BY <1>1, Zenon DEF Ends
<1>3. k \in Packets /\ k.seq = s.txNext /\ k.ack = s.unackedRx /\ ~k.data
  BY <1>2 DEF Packets
<1>4. d \in Ends /\ d.txMsg = s.txMsg /\ d.txSent = s.txSent
  BY <1>1, DepartFacts, Zenon
<1> HIDE DEF k, d
<1>5. end'[n] = d /\ end' \in [Roles -> Ends] /\ end'[Peer(n)] = end[Peer(n)]
  BY <1>1, <1>4, PeerFacts, Zenon DEF Types
<1>6. Writes(n, k)
  BY <1>1, <1>3, <1>5, Zenon DEF Writes, d
<1> QED  BY <1>3, <1>4, <1>5, <1>6, Zenon

\* End n takes packet k in.
Reads(n, k) ==
    /\ closed[n] = "open" /\ wire[n] # << >> /\ k = Head(wire[n]) /\ k \in Packets
    /\ Verdict(end[n], k) = "open"
    /\ wire' = [wire EXCEPT ![n] = Tail(@)]
    /\ out' = [out EXCEPT ![n] = Uncovered(@, k.ack)]
    /\ LET s == end[n]
           r == ReceiveAck(s, k.ack)
           f == end'[n]
       IN  /\ end' \in [Roles -> Ends] /\ end'[Peer(n)] = end[Peer(n)]
           /\ f.txNext = s.txNext /\ f.newest = s.newest
           /\ f.oldest = r.oldest /\ f.expecting = r.expecting /\ f.remoteWin = r.remoteWin
           /\ f.rxNext = Inc(k.seq) /\ f.unackedRx = k.seq
           /\ ~k.data => f.rxLen = s.rxLen /\ f.rxBuf = s.rxBuf
           /\ k.data /\ k.end => f.rxLen = None /\ f.rxBuf = << >>
           /\ k.data /\ ~k.end => /\ f.rxLen = IF s.rxLen = None THEN k.len ELSE s.rxLen
                                  /\ f.rxBuf = Gathered(s, k)
           /\ f.txMsg = s.txMsg /\ f.txSent = s.txSent /\ f.txQueued = s.txQueued
           /\ received' = [received EXCEPT ![n] =
                 IF k.data /\ k.end
                 THEN Append(@, SubSeq(Gathered(s, k), 1,
                                  IF s.rxLen = None THEN k.len ELSE s.rxLen))
                 ELSE @]
    /\ UNCHANGED <<link, closed>>

\* receive_ack keeps an engine well formed.
LEMMA ReceiveAckFacts ==
    ASSUME NEW s \in Ends, NEW a \in Seqs \union {None}
    PROVE  LET r == ReceiveAck(s, a)
           IN  /\ r \in Ends
               /\ r.txNext = s.txNext /\ r.newest = s.newest /\ r.localWin = s.localWin
               /\ r.ackDue = s.ackDue /\ r.rxLen = s.rxLen /\ r.rxBuf = s.rxBuf
               /\ r.txMsg = s.txMsg /\ r.txSent = s.txSent /\ r.txQueued = s.txQueued
<1>1. CASE a = None
  BY <1>1, Zenon DEF ReceiveAck
<1>2. CASE a # None
  <2> DEFINE w == AdjustRemoteWindow(s, a)
             r == ReceiveAck(s, a)
             old == IF a = s.newest THEN a ELSE Inc(a)
             exp == a # s.newest
             age == IF a = s.newest THEN 0 ELSE s.since
  <2>1. a \in Seqs /\ s.newest \in Seqs /\ s.since \in Nat /\ SeqMod \in Nat \ {0}
    BY <1>2, WindowAssumption, SeqModAssumption DEF Ends
  <2>2. w \in Nat
    BY <2>1, WindowAssumption DEF AdjustRemoteWindow, Seqs
  <2>3. old \in Seqs /\ age \in Nat
    BY <2>1, IncFacts, Zenon
  <2>4. exp \in BOOLEAN
    BY Zenon
  <2>5. r = [s EXCEPT !.oldest = old, !.expecting = exp, !.since = age, !.remoteWin = w]
    BY <1>2, Zenon DEF ReceiveAck
  <2> HIDE DEF w, old, exp, age, r
  <2>6. r \in Ends
    BY <2>2, <2>3, <2>4, <2>5, Zenon DEF Ends
  <2>7. /\ r.txNext = s.txNext /\ r.newest = s.newest /\ r.localWin = s.localWin
        /\ r.ackDue = s.ackDue /\ r.rxLen = s.rxLen /\ r.rxBuf = s.rxBuf
        /\ r.txMsg = s.txMsg /\ r.txSent = s.txSent /\ r.txQueued = s.txQueued
    BY <2>5, Zenon DEF Ends
  <2> QED  BY <2>6, <2>7, Zenon DEF r
<1> QED  BY <1>1, <1>2, Zenon

\* So does the rest of on_indication.
LEMMA AcceptFacts ==
    ASSUME NEW r \in Ends, NEW seq \in Seqs
    PROVE  LET g == Accept(r, seq)
           IN  /\ g \in Ends
               /\ g.rxNext = Inc(seq) /\ g.unackedRx = seq
               /\ g.txNext = r.txNext /\ g.newest = r.newest /\ g.oldest = r.oldest
               /\ g.expecting = r.expecting /\ g.remoteWin = r.remoteWin
               /\ g.rxLen = r.rxLen /\ g.rxBuf = r.rxBuf
               /\ g.txMsg = r.txMsg /\ g.txSent = r.txSent /\ g.txQueued = r.txQueued
<1> DEFINE left == IF r.localWin = 0 THEN 0 ELSE r.localWin - 1
           due  == IF left <= 1 THEN 0 ELSE AckSend
           ack  == IF r.ackDue = None THEN due ELSE Minimum(r.ackDue, due)
           g    == Accept(r, seq)
<1>1. r.localWin \in Nat /\ r.ackDue \in Nat \union {None} /\ AckSend \in Nat
  BY TicksAssumption, Zenon DEF Ends
<1>2. left \in Nat /\ due \in Nat
  BY <1>1
<1>3. ack \in Nat \union {None}
  <2> HIDE DEF due
  <2> QED  BY <1>1, <1>2, Zenon DEF Minimum
<1>4. Inc(seq) \in Seqs
  BY IncFacts, Zenon
<1>5. g = [r EXCEPT !.rxNext = Inc(seq), !.localWin = left, !.unackedRx = seq,
                    !.ackDue = ack]
  BY Zenon DEF Accept
<1> HIDE DEF left, due, ack, g
<1>6. g \in Ends
  BY <1>2, <1>3, <1>4, <1>5, Zenon DEF Ends
<1>7. /\ g.rxNext = Inc(seq) /\ g.unackedRx = seq
      /\ g.txNext = r.txNext /\ g.newest = r.newest /\ g.oldest = r.oldest
      /\ g.expecting = r.expecting /\ g.remoteWin = r.remoteWin
      /\ g.rxLen = r.rxLen /\ g.rxBuf = r.rxBuf
      /\ g.txMsg = r.txMsg /\ g.txSent = r.txSent /\ g.txQueued = r.txQueued
  BY <1>5, Zenon DEF Ends
<1> QED  BY <1>6, <1>7, Zenon DEF g

\* Engine g with another reassembly state.
Buffer(g, len, buf) == [g EXCEPT !.rxLen = len, !.rxBuf = buf]

\* Setting the reassembly state touches no other field.
LEMMA BufferFacts ==
    ASSUME NEW g \in Ends, NEW len \in Nat \union {None}, NEW buf \in Seq(Bytes)
    PROVE  LET f == Buffer(g, len, buf)
           IN  /\ f \in Ends
               /\ f.rxNext = g.rxNext /\ f.unackedRx = g.unackedRx
               /\ f.txNext = g.txNext /\ f.newest = g.newest /\ f.oldest = g.oldest
               /\ f.expecting = g.expecting /\ f.remoteWin = g.remoteWin
               /\ f.rxLen = len /\ f.rxBuf = buf
               /\ f.txMsg = g.txMsg /\ f.txSent = g.txSent /\ f.txQueued = g.txQueued
<1> DEFINE f == [g EXCEPT !.rxLen = len, !.rxBuf = buf]
<1>1. f \in Ends
  BY Zenon DEF Ends
<1>2. /\ f.rxNext = g.rxNext /\ f.unackedRx = g.unackedRx
      /\ f.txNext = g.txNext /\ f.newest = g.newest /\ f.oldest = g.oldest
      /\ f.expecting = g.expecting /\ f.remoteWin = g.remoteWin
      /\ f.rxLen = len /\ f.rxBuf = buf
      /\ f.txMsg = g.txMsg /\ f.txSent = g.txSent /\ f.txQueued = g.txQueued
  BY Zenon DEF Ends
<1> QED  BY <1>1, <1>2, Zenon DEF Buffer

\* Reassembly touches the reassembly state only.
LEMMA ReassembleFacts ==
    ASSUME NEW s \in Ends, NEW g \in Ends, NEW k \in Packets,
           g.rxLen = s.rxLen, g.rxBuf = s.rxBuf
    PROVE  LET f == Reassemble(g, k)
           IN  /\ f \in Ends
               /\ f.rxNext = g.rxNext /\ f.unackedRx = g.unackedRx
               /\ f.txNext = g.txNext /\ f.newest = g.newest /\ f.oldest = g.oldest
               /\ f.expecting = g.expecting /\ f.remoteWin = g.remoteWin
               /\ ~k.data => f.rxLen = s.rxLen /\ f.rxBuf = s.rxBuf
               /\ k.data /\ k.end => f.rxLen = None /\ f.rxBuf = << >>
               /\ k.data /\ ~k.end => /\ f.rxLen = IF s.rxLen = None THEN k.len ELSE s.rxLen
                                      /\ f.rxBuf = Gathered(s, k)
               /\ f.txMsg = g.txMsg /\ f.txSent = g.txSent /\ f.txQueued = g.txQueued
<1> DEFINE len == IF s.rxLen = None THEN k.len ELSE s.rxLen
           buf == Gathered(s, k)
<1>1. CASE ~k.data
  BY <1>1, Zenon DEF Reassemble
<1>2. CASE k.data /\ k.end
  <2>1. Reassemble(g, k) = Buffer(g, None, << >>)
    BY <1>2, Zenon DEF Reassemble, Buffer
  <2>2. None \in Nat \union {None} /\ << >> \in Seq(Bytes)
    OBVIOUS
  <2>3. LET f == Buffer(g, None, << >>)
        IN  /\ f \in Ends
            /\ f.rxNext = g.rxNext /\ f.unackedRx = g.unackedRx
            /\ f.txNext = g.txNext /\ f.newest = g.newest /\ f.oldest = g.oldest
            /\ f.expecting = g.expecting /\ f.remoteWin = g.remoteWin
            /\ f.rxLen = None /\ f.rxBuf = << >>
            /\ f.txMsg = g.txMsg /\ f.txSent = g.txSent /\ f.txQueued = g.txQueued
    BY <2>2, BufferFacts, Zenon
  <2> QED  BY <1>2, <2>1, <2>3, Zenon
<1>3. CASE k.data /\ ~k.end
  <2>1. Reassemble(g, k) = Buffer(g, len, buf)
    BY <1>3, Zenon DEF Reassemble, Gathered, Buffer
  <2>2. len \in Nat \union {None}
    BY Zenon DEF Ends, Packets
  <2>3. buf \in Seq(Bytes)
    <3>1. k.payload \in Seq(Bytes) /\ s.rxBuf \in Seq(Bytes)
      BY Zenon DEF Ends, Packets
    <3> QED  BY <3>1 DEF Gathered
  <2> HIDE DEF len, buf
  <2>4. LET f == Buffer(g, len, buf)
        IN  /\ f \in Ends
            /\ f.rxNext = g.rxNext /\ f.unackedRx = g.unackedRx
            /\ f.txNext = g.txNext /\ f.newest = g.newest /\ f.oldest = g.oldest
            /\ f.expecting = g.expecting /\ f.remoteWin = g.remoteWin
            /\ f.rxLen = len /\ f.rxBuf = buf
            /\ f.txMsg = g.txMsg /\ f.txSent = g.txSent /\ f.txQueued = g.txQueued
    BY <2>2, <2>3, BufferFacts, Zenon
  <2> QED  BY <1>3, <2>1, <2>4, Zenon DEF len, buf
<1> QED  BY <1>1, <1>2, <1>3, Zenon

\* on_indication returns Ok, or an error that closes the link.
Rejects(n, k) ==
    /\ closed[n] = "open" /\ wire[n] # << >> /\ k = Head(wire[n]) /\ k \in Packets
    /\ Verdict(end[n], k) # "open"
    /\ wire' = [wire EXCEPT ![n] = Tail(@)]
    /\ closed' = [closed EXCEPT ![n] = Verdict(end[n], k)]
    /\ UNCHANGED <<link, end, received, out>>

\* on_indication takes the packet at the head of the wire or refuses it.
LEMMA ReadShape ==
    ASSUME Types, NEW n \in Roles, OnIndication(n)
    PROVE  \E k \in Packets : Reads(n, k) \/ Rejects(n, k)
<1> DEFINE s == end[n]
           k == Head(wire[n])
           r == ReceiveAck(s, k.ack)
           g == Accept(r, k.seq)
           f == Reassemble(g, k)
<1>1. /\ s \in Ends /\ k \in Packets /\ wire[n] # << >> /\ closed[n] = "open"
      /\ wire' = [wire EXCEPT ![n] = Tail(@)]
  <2>1. wire[n] \in Seq(Packets) /\ s \in Ends
    BY Zenon DEF Types
  <2>2. wire[n] # << >> /\ closed[n] = "open" /\ wire' = [wire EXCEPT ![n] = Tail(@)]
    BY Zenon DEF OnIndication, IsOpen
  <2>3. k \in Packets
    BY <2>1, <2>2
  <2> QED  BY <2>1, <2>2, <2>3, Zenon
<1> HIDE DEF k
<1>2. CASE Verdict(s, k) # "open"
  BY <1>1, <1>2, Zenon DEF OnIndication, Rejects, k
<1>3. CASE Verdict(s, k) = "open"
  <2>1. /\ end' = [end EXCEPT ![n] = f]
        /\ received' = [received EXCEPT ![n] =
              IF k.data /\ k.end
              THEN Append(@, SubSeq(Gathered(s, k), 1,
                               IF s.rxLen = None THEN k.len ELSE s.rxLen))
              ELSE @]
        /\ out' = [out EXCEPT ![n] = Uncovered(@, k.ack)]
        /\ UNCHANGED <<link, closed>>
    BY <1>3, Zenon DEF OnIndication, k
  <2>2. k.ack \in Seqs \union {None} /\ k.seq \in Seqs
    BY <1>1, Zenon DEF Packets
  <2>3. /\ r \in Ends
        /\ r.txNext = s.txNext /\ r.newest = s.newest
        /\ r.rxLen = s.rxLen /\ r.rxBuf = s.rxBuf
        /\ r.txMsg = s.txMsg /\ r.txSent = s.txSent /\ r.txQueued = s.txQueued
    BY <1>1, <2>2, ReceiveAckFacts, Zenon
  <2> HIDE DEF r
  <2>4. /\ g \in Ends
        /\ g.rxNext = Inc(k.seq) /\ g.unackedRx = k.seq
        /\ g.txNext = r.txNext /\ g.newest = r.newest /\ g.oldest = r.oldest
        /\ g.expecting = r.expecting /\ g.remoteWin = r.remoteWin
        /\ g.rxLen = r.rxLen /\ g.rxBuf = r.rxBuf
        /\ g.txMsg = r.txMsg /\ g.txSent = r.txSent /\ g.txQueued = r.txQueued
    BY <2>2, <2>3, AcceptFacts, Zenon
  <2> HIDE DEF g
  <2>5. g.rxLen = s.rxLen /\ g.rxBuf = s.rxBuf
    BY <2>3, <2>4, Zenon
  <2>6. /\ f \in Ends
        /\ f.rxNext = g.rxNext /\ f.unackedRx = g.unackedRx
        /\ f.txNext = g.txNext /\ f.newest = g.newest /\ f.oldest = g.oldest
        /\ f.expecting = g.expecting /\ f.remoteWin = g.remoteWin
        /\ ~k.data => f.rxLen = s.rxLen /\ f.rxBuf = s.rxBuf
        /\ k.data /\ k.end => f.rxLen = None /\ f.rxBuf = << >>
        /\ k.data /\ ~k.end => /\ f.rxLen = IF s.rxLen = None THEN k.len ELSE s.rxLen
                               /\ f.rxBuf = Gathered(s, k)
        /\ f.txMsg = g.txMsg /\ f.txSent = g.txSent /\ f.txQueued = g.txQueued
    BY <1>1, <2>4, <2>5, ReassembleFacts
  <2> HIDE DEF f
  <2>7. end'[n] = f /\ end' \in [Roles -> Ends] /\ end'[Peer(n)] = end[Peer(n)]
    BY <2>1, <2>6, PeerFacts, Zenon DEF Types
  <2>8. /\ f.txNext = s.txNext /\ f.newest = s.newest
        /\ f.oldest = r.oldest /\ f.expecting = r.expecting /\ f.remoteWin = r.remoteWin
        /\ f.rxNext = Inc(k.seq) /\ f.unackedRx = k.seq
        /\ f.txMsg = s.txMsg /\ f.txSent = s.txSent /\ f.txQueued = s.txQueued
    BY <2>3, <2>4, <2>6, Zenon
  <2>9. Reads(n, k)
    BY <1>1, <1>3, <2>1, <2>6, <2>7, <2>8, Zenon DEF Reads, k, r
  <2> QED  BY <1>1, <2>9, Zenon
<1> QED  BY <1>2, <1>3, Zenon

\* Where the SDUs of end n are cut next: the SDU, and the bytes of it that went before.
SenderAt(n) ==
    IF end[n].txMsg = None THEN [sdu |-> end[n].txQueued + 1, off |-> 0]
    ELSE [sdu |-> end[n].txMsg, off |-> end[n].txSent]

\* A step that moves no packet.
Quiet ==
    /\ UNCHANGED <<link, wire, received>>
    /\ end' \in [Roles -> Ends]
    /\ closed' \in [Roles -> Reasons]
    /\ out' \in [Roles -> Seq(Sent)]
    /\ \A m \in Roles :
         LET s == end[m]
             f == end'[m]
         IN  /\ f.txNext = s.txNext /\ f.newest = s.newest /\ f.oldest = s.oldest
             /\ f.expecting = s.expecting /\ f.remoteWin = s.remoteWin
             /\ f.rxNext = s.rxNext /\ f.unackedRx = s.unackedRx
             /\ f.rxLen = s.rxLen /\ f.rxBuf = s.rxBuf
             /\ s.txQueued <= f.txQueued /\ Sending(m)' /\ SenderAt(m)' = SenderAt(m)
             /\ Len(out'[m]) = Len(out[m])
             /\ \A i \in 1 .. Len(out[m]) : out'[m][i].seq = out[m][i].seq
             /\ closed'[m] = closed[m] \/ {closed'[m], closed[m]} \cap Errors = {}

\* The end of a link, and a step of nothing.
LEMMA ClosingIsQuiet ==
    ASSUME Types, UNCHANGED <<link, end, wire, received, out>>,
           \/ UNCHANGED closed
           \/ \E n \in Roles, why \in {"AckTimedOut", "Closed", "Disconnected"} :
                IsOpen(n) /\ closed' = [closed EXCEPT ![n] = why]
    PROVE  Quiet
<1>1. closed \in [Roles -> Reasons] /\ closed' \in [Roles -> Reasons]
  BY Zenon DEF Types, Reasons
<1>2. ASSUME NEW m \in Roles
      PROVE  closed'[m] = closed[m] \/ {closed'[m], closed[m]} \cap Errors = {}
  BY <1>1, <1>2, Zenon DEF IsOpen, Errors
<1>3. ASSUME NEW m \in Roles
      PROVE  /\ end[m].txQueued <= end'[m].txQueued
             /\ Sending(m)' /\ SenderAt(m)' = SenderAt(m)
  <2>1. end[m].txQueued \in Nat /\ Sending(m)
    BY Zenon DEF Types, Ends
  <2> QED  BY <2>1 DEF Sending, SenderAt
<1> QED  BY <1>1, <1>2, <1>3, Zenon DEF Types, Quiet

\* queue_message only moves the SDU from the queue to tx_pending.
LEMMA QueueIsQuiet ==
    ASSUME Types, NEW n \in Roles, QueueMessage(n)
    PROVE  Quiet
<1> DEFINE s == end[n]
           f == [s EXCEPT !.txQueued = @ + 1, !.txMsg = s.txQueued + 1, !.txSent = 0]
<1>1. /\ s \in Ends /\ s.txMsg = None /\ s.txQueued < Len(link.sdus[n])
      /\ s.txQueued \in Nat /\ link.sdus[n] \in Seq(Nat) /\ s.txSent \in Nat
  BY Zenon DEF QueueMessage, Types, Ends, Settings, Roles
<1>2. end' = [end EXCEPT ![n] = f] /\ UNCHANGED <<link, wire, received, closed, out>>
  BY Zenon DEF QueueMessage
<1>3. f \in Ends
  <2> DEFINE q == s.txQueued + 1
  <2>1. q \in Nat /\ 0 \in Nat /\ s \in Ends
    BY <1>1
  <2>2. f = [s EXCEPT !.txQueued = q, !.txMsg = q, !.txSent = 0]
    BY Zenon
  <2> HIDE DEF q, f, s
  <2> QED  BY <2>1, <2>2, Zenon DEF Ends
<1>4. /\ f.txNext = s.txNext /\ f.newest = s.newest /\ f.oldest = s.oldest
      /\ f.expecting = s.expecting /\ f.remoteWin = s.remoteWin
      /\ f.rxNext = s.rxNext /\ f.unackedRx = s.unackedRx
      /\ f.rxLen = s.rxLen /\ f.rxBuf = s.rxBuf
      /\ f.txQueued = s.txQueued + 1 /\ f.txMsg = s.txQueued + 1 /\ f.txSent = 0
  BY <1>1, Zenon DEF Ends
<1> HIDE DEF f
<1>5. end'[n] = f /\ end' \in [Roles -> Ends] /\ \A m \in Roles \ {n} : end'[m] = end[m]
  BY <1>2, <1>3, Zenon DEF Types
<1>6. /\ s.txQueued <= f.txQueued /\ Sending(n)' /\ SenderAt(n)' = SenderAt(n)
  <2>1. /\ f.txQueued <= Len(link.sdus[n]) /\ s.txQueued <= f.txQueued
        /\ f.txMsg # None /\ f.txMsg # 0
    BY <1>1, <1>4 DEF None
  <2> QED  BY <1>1, <1>2, <1>4, <1>5, <2>1, Zenon DEF Sending, SenderAt
<1>7. ASSUME NEW m \in Roles, m # n
      PROVE  /\ end[m].txQueued <= end'[m].txQueued
             /\ Sending(m)' /\ SenderAt(m)' = SenderAt(m)
  <2>1. end[m].txQueued \in Nat /\ Sending(m)
    BY Zenon DEF Types, Ends
  <2>2. end'[m] = end[m] /\ link' = link
    BY <1>2, <1>5, <1>7, Zenon
  <2> QED  BY <2>1, <2>2 DEF Sending, SenderAt
<1>8. ASSUME NEW m \in Roles, m # n
      PROVE  end'[m] = end[m]
  BY <1>5, <1>8, Zenon
<1> QED  BY <1>2, <1>4, <1>5, <1>6, <1>7, <1>8, Zenon DEF Types, Quiet

\* gatt_write_completed frees the slot.
LEMMA CompletionIsQuiet ==
    ASSUME Types, NEW n \in Roles, GattWriteCompleted(n)
    PROVE  Quiet
<1> DEFINE s == end[n]
           f == [s EXCEPT !.inFlight = FALSE]
<1>1. s \in Ends /\ end' = [end EXCEPT ![n] = f]
      /\ UNCHANGED <<link, wire, received, closed, out>>
  BY Zenon DEF GattWriteCompleted, Types
<1>2. f \in Ends
  BY <1>1, Zenon DEF Ends
<1>3. /\ f.txNext = s.txNext /\ f.newest = s.newest /\ f.oldest = s.oldest
      /\ f.expecting = s.expecting /\ f.remoteWin = s.remoteWin
      /\ f.rxNext = s.rxNext /\ f.unackedRx = s.unackedRx
      /\ f.rxLen = s.rxLen /\ f.rxBuf = s.rxBuf
      /\ f.txQueued = s.txQueued /\ f.txMsg = s.txMsg /\ f.txSent = s.txSent
  BY <1>1, Zenon DEF Ends
<1> HIDE DEF f
<1>4. end'[n] = f /\ end' \in [Roles -> Ends] /\ \A m \in Roles \ {n} : end'[m] = end[m]
  BY <1>1, <1>2, Zenon DEF Types
<1>5. ASSUME NEW m \in Roles
      PROVE  /\ end[m].txQueued <= end'[m].txQueued
             /\ Sending(m)' /\ SenderAt(m)' = SenderAt(m)
  <2>1. end[m].txQueued \in Nat /\ Sending(m)
    BY Zenon DEF Types, Ends
  <2>2. /\ end'[m].txQueued = end[m].txQueued /\ end'[m].txMsg = end[m].txMsg
        /\ end'[m].txSent = end[m].txSent /\ link' = link
    BY <1>1, <1>3, <1>4, Zenon
  <2>3. end[m].txQueued <= end'[m].txQueued
    BY <2>1, <2>2
  <2> QED  BY <2>1, <2>2, <2>3, Zenon DEF Sending, SenderAt
<1>6. ASSUME NEW m \in Roles, m # n
      PROVE  end'[m] = end[m]
  BY <1>4, <1>6, Zenon
<1> QED  BY <1>1, <1>3, <1>4, <1>5, <1>6, Zenon DEF Types, Quiet

\* The clock moves nothing but the ages and the deadlines.
LEMMA TickIsQuiet ==
    ASSUME Types, Tick
    PROVE  Quiet
<1> DEFINE due(m) == IF end[m].ackDue \in {None, 0} THEN end[m].ackDue ELSE end[m].ackDue - 1
           age(m) == IF end[m].expecting THEN Older(end[m].since) ELSE end[m].since
           f(m)   == [end[m] EXCEPT !.ackDue = due(m), !.since = age(m)]
           o(m)   == [i \in 1 .. Len(out[m]) |-> [out[m][i] EXCEPT !.age = Older(@)]]
<1>1. /\ end' = [m \in Roles |-> f(m)] /\ out' = [m \in Roles |-> o(m)]
      /\ UNCHANGED <<link, wire, received, closed>>
  BY Zenon DEF Tick
<1>2. ASSUME NEW a \in Nat PROVE Older(a) \in Nat
  BY <1>2 DEF Types, Settings, Older
<1>3. ASSUME NEW m \in Roles
      PROVE  /\ f(m) \in Ends
             /\ f(m).txNext = end[m].txNext /\ f(m).newest = end[m].newest
             /\ f(m).oldest = end[m].oldest /\ f(m).expecting = end[m].expecting
             /\ f(m).remoteWin = end[m].remoteWin /\ f(m).rxNext = end[m].rxNext
             /\ f(m).unackedRx = end[m].unackedRx
             /\ f(m).rxLen = end[m].rxLen /\ f(m).rxBuf = end[m].rxBuf
             /\ f(m).txQueued = end[m].txQueued /\ f(m).txMsg = end[m].txMsg
             /\ f(m).txSent = end[m].txSent
  <2>1. end[m] \in Ends
    BY Zenon DEF Types
  <2>2. end[m].ackDue \in Nat \union {None} /\ end[m].since \in Nat
    BY <2>1, Zenon DEF Ends
  <2>3. due(m) \in Nat \union {None} /\ age(m) \in Nat
    BY <2>2, <1>2
  <2> HIDE DEF due, age
  <2>4. f(m) \in Ends
    BY <2>1, <2>3, Zenon DEF Ends
  <2>5. /\ f(m).txNext = end[m].txNext /\ f(m).newest = end[m].newest
        /\ f(m).oldest = end[m].oldest /\ f(m).expecting = end[m].expecting
        /\ f(m).remoteWin = end[m].remoteWin /\ f(m).rxNext = end[m].rxNext
        /\ f(m).unackedRx = end[m].unackedRx
        /\ f(m).rxLen = end[m].rxLen /\ f(m).rxBuf = end[m].rxBuf
        /\ f(m).txQueued = end[m].txQueued /\ f(m).txMsg = end[m].txMsg
        /\ f(m).txSent = end[m].txSent
    BY <2>1, Zenon DEF Ends
  <2> QED  BY <2>4, <2>5, Zenon
<1>4. ASSUME NEW m \in Roles
      PROVE  /\ o(m) \in Seq(Sent) /\ Len(o(m)) = Len(out[m])
             /\ \A i \in 1 .. Len(out[m]) : o(m)[i].seq = out[m][i].seq
  <2>1. out[m] \in Seq(Sent) /\ Len(out[m]) \in Nat
    BY DEF Types
  <2>2. ASSUME NEW i \in 1 .. Len(out[m])
        PROVE  /\ [out[m][i] EXCEPT !.age = Older(@)] \in Sent
               /\ [out[m][i] EXCEPT !.age = Older(@)].seq = out[m][i].seq
    <3>1. out[m][i] \in Sent
      BY <2>1
    <3>2. Older(out[m][i].age) \in Nat
      BY <3>1, <1>2, Zenon DEF Sent
    <3> QED  BY <3>1, <3>2, Zenon DEF Sent
  <2>3. o(m) \in Seq(Sent) /\ Len(o(m)) = Len(out[m])
    BY <2>1, <2>2
  <2> QED  BY <2>2, <2>3, Zenon
<1> HIDE DEF f, o
<1>5. end' \in [Roles -> Ends] /\ out' \in [Roles -> Seq(Sent)]
  BY <1>1, <1>3, <1>4, Zenon
<1>6. ASSUME NEW m \in Roles PROVE end'[m] = f(m) /\ out'[m] = o(m)
  BY <1>1, Zenon
<1>7. ASSUME NEW m \in Roles
      PROVE  /\ end[m].txQueued <= end'[m].txQueued
             /\ Sending(m)' /\ SenderAt(m)' = SenderAt(m)
  <2>1. end[m].txQueued \in Nat /\ Sending(m)
    BY Zenon DEF Types, Ends
  <2>2. /\ end'[m].txQueued = end[m].txQueued /\ end'[m].txMsg = end[m].txMsg
        /\ end'[m].txSent = end[m].txSent /\ link' = link
    BY <1>1, <1>3, <1>6, Zenon
  <2>3. end[m].txQueued <= end'[m].txQueued
    BY <2>1, <2>2
  <2> QED  BY <2>1, <2>2, <2>3, Zenon DEF Sending, SenderAt
<1>8. ASSUME NEW m \in Roles
      PROVE  /\ end'[m].txNext = end[m].txNext /\ end'[m].newest = end[m].newest
             /\ end'[m].oldest = end[m].oldest /\ end'[m].expecting = end[m].expecting
             /\ end'[m].remoteWin = end[m].remoteWin /\ end'[m].rxNext = end[m].rxNext
             /\ end'[m].unackedRx = end[m].unackedRx
             /\ end'[m].rxLen = end[m].rxLen /\ end'[m].rxBuf = end[m].rxBuf
             /\ Len(out'[m]) = Len(out[m])
             /\ \A i \in 1 .. Len(out[m]) : out'[m][i].seq = out[m][i].seq
  <2>1. end'[m] = f(m) /\ out'[m] = o(m)
    BY <1>6, Zenon
  <2>2. /\ f(m).txNext = end[m].txNext /\ f(m).newest = end[m].newest
        /\ f(m).oldest = end[m].oldest /\ f(m).expecting = end[m].expecting
        /\ f(m).remoteWin = end[m].remoteWin /\ f(m).rxNext = end[m].rxNext
        /\ f(m).unackedRx = end[m].unackedRx
        /\ f(m).rxLen = end[m].rxLen /\ f(m).rxBuf = end[m].rxBuf
    BY <1>3, Zenon
  <2>3. /\ Len(o(m)) = Len(out[m])
        /\ \A i \in 1 .. Len(out[m]) : o(m)[i].seq = out[m][i].seq
    BY <1>4, Zenon
  <2>4. /\ end'[m].txNext = end[m].txNext /\ end'[m].newest = end[m].newest
        /\ end'[m].oldest = end[m].oldest /\ end'[m].expecting = end[m].expecting
        /\ end'[m].remoteWin = end[m].remoteWin /\ end'[m].rxNext = end[m].rxNext
        /\ end'[m].unackedRx = end[m].unackedRx
        /\ end'[m].rxLen = end[m].rxLen /\ end'[m].rxBuf = end[m].rxBuf
    BY <2>1, <2>2, Zenon
  <2>5. /\ Len(out'[m]) = Len(out[m])
        /\ \A i \in 1 .. Len(out[m]) : out'[m][i].seq = out[m][i].seq
    BY <2>1, <2>3, Zenon
  <2> QED  BY <2>4, <2>5
<1>9. UNCHANGED <<link, wire, received, closed>> /\ closed' \in [Roles -> Reasons]
  BY <1>1, Zenon DEF Types
<1> QED  BY <1>5, <1>7, <1>8, <1>9, Zenon DEF Quiet

\* Packet k carries no data, and the SDU under way stays where it is.
PlainAck(n, k) ==
    ~k.data /\ end'[n].txMsg = end[n].txMsg /\ end'[n].txSent = end[n].txSent

\* A step moves no packet, or writes, takes in or refuses one.
LEMMA StepShape ==
    ASSUME Types, [Next]_vars
    PROVE  \/ Quiet
           \/ \E n \in Roles, k \in Packets :
                \/ Writes(n, k) /\ \E upTo \in Nat : CarriesNext(n, k, upTo)
                \/ Writes(n, k) /\ PlainAck(n, k)
                \/ Reads(n, k)
                \/ Rejects(n, k)
<1>1. CASE UNCHANGED vars
  BY <1>1, ClosingIsQuiet, Zenon DEF vars
<1>2. CASE Tick
  BY <1>2, TickIsQuiet, Zenon
<1>3. ASSUME NEW n \in Roles,
             HandleAckTimeout(n) \/ Close(n) \/ Disconnected(n)
      PROVE  Quiet
  <2>1. UNCHANGED <<link, end, wire, received, out>> /\ IsOpen(n)
    BY <1>3, Zenon DEF HandleAckTimeout, Close, Disconnected
  <2>2. \E why \in {"AckTimedOut", "Closed", "Disconnected"} :
          closed' = [closed EXCEPT ![n] = why]
    BY <1>3, Zenon DEF HandleAckTimeout, Close, Disconnected
  <2> QED  BY <2>1, <2>2, ClosingIsQuiet, Zenon
<1>4. ASSUME NEW n \in Roles, QueueMessage(n) \/ GattWriteCompleted(n)
      PROVE  Quiet
  BY <1>4, QueueIsQuiet, CompletionIsQuiet, Zenon
<1>5. ASSUME NEW n \in Roles, NextGattWrite(n)
      PROVE  \E k \in Packets : Writes(n, k) /\ \E upTo \in Nat : CarriesNext(n, k, upTo)
  BY <1>5, WriteShape, Zenon
<1>6. ASSUME NEW n \in Roles, HandleSendAck(n)
      PROVE  \E k \in Packets : Writes(n, k) /\ PlainAck(n, k)
  BY <1>6, AckShape, Zenon DEF PlainAck
<1>7. ASSUME NEW n \in Roles, OnIndication(n)
      PROVE  \E k \in Packets : Reads(n, k) \/ Rejects(n, k)
  BY <1>7, ReadShape, Zenon
<1> QED  BY <1>1, <1>2, <1>3, <1>4, <1>5, <1>6, <1>7, Zenon DEF Next

\* Every step keeps the state well formed.
LEMMA TypesStep == Types /\ [Next]_vars => Types'
<1> SUFFICES ASSUME Types, [Next]_vars PROVE Types'
  BY Zenon
<1>1. CASE Quiet
  BY <1>1, Zenon DEF Quiet, Types
<1>2. ASSUME NEW n \in Roles, NEW k \in Packets, Writes(n, k)
      PROVE  /\ link' \in Settings /\ end' \in [Roles -> Ends]
             /\ wire' \in [Roles -> Seq(Packets)] /\ received' \in [Roles -> Seq(Seq(Bytes))]
             /\ closed' \in [Roles -> Reasons] /\ out' \in [Roles -> Seq(Sent)]
             /\ Sending(Peer(n))'
             /\ end'[n].txQueued = end[n].txQueued
  <2>1. [seq |-> k.seq, age |-> 0] \in Sent
    BY Zenon DEF Packets, Sent
  <2>2. Append(wire[Peer(n)], k) \in Seq(Packets)
        /\ Append(out[n], [seq |-> k.seq, age |-> 0]) \in Seq(Sent)
    BY <2>1, PeerFacts DEF Types
  <2>3. wire' \in [Roles -> Seq(Packets)] /\ out' \in [Roles -> Seq(Sent)]
    BY <1>2, <2>2, Zenon DEF Writes, Types
  <2>4. Sending(Peer(n)) /\ end'[Peer(n)] = end[Peer(n)] /\ link' = link
    BY <1>2, PeerFacts, Zenon DEF Writes, Types
  <2>5. Sending(Peer(n))'
    BY <2>4, Zenon DEF Sending
  <2>6. end'[n].txQueued = end[n].txQueued
    <3>1. end[n] \in Ends /\ end[n].remoteWin # 0
      BY <1>2, Zenon DEF Writes, Types
    <3> QED  BY <1>2, <3>1, DepartFacts, Zenon DEF Writes
  <2> QED  BY <1>2, <2>3, <2>5, <2>6, Zenon DEF Writes, Types
<1>3. ASSUME NEW n \in Roles, NEW k \in Packets, NEW upTo \in Nat,
             Writes(n, k), CarriesNext(n, k, upTo)
      PROVE  Sending(n)'
  <2>1. link' = link /\ end'[n].txQueued = end[n].txQueued /\ Sending(n)
    BY <1>3, <1>2, Zenon DEF Writes, Types
  <2> QED  BY <1>3, <2>1, Zenon DEF CarriesNext, Sending
<1>4. ASSUME NEW n \in Roles, NEW k \in Packets, Writes(n, k), PlainAck(n, k)
      PROVE  Sending(n)'
  <2>1. link' = link /\ end'[n].txQueued = end[n].txQueued /\ Sending(n)
    BY <1>4, <1>2, Zenon DEF Writes, Types
  <2> QED  BY <1>4, <2>1, Zenon DEF PlainAck, Sending
<1>5. ASSUME NEW n \in Roles, NEW k \in Packets, Rejects(n, k)
      PROVE  Types'
  <2>1. Verdict(end[n], k) \in Reasons
    BY Zenon DEF Verdict, Reasons, Errors
  <2>2. closed' \in [Roles -> Reasons]
    BY <1>5, <2>1, Zenon DEF Rejects, Types
  <2>3. Tail(wire[n]) \in Seq(Packets)
    BY <1>5 DEF Rejects, Types
  <2>4. wire' \in [Roles -> Seq(Packets)]
    BY <1>5, <2>3, Zenon DEF Rejects, Types
  <2>5. ASSUME NEW m \in Roles PROVE Sending(m)'
    BY <1>5, Zenon DEF Rejects, Types, Sending
  <2> QED  BY <1>5, <2>2, <2>4, <2>5, Zenon DEF Rejects, Types
<1>6. ASSUME NEW n \in Roles, NEW k \in Packets, Reads(n, k)
      PROVE  Types'
  <2> DEFINE sdu == SubSeq(Gathered(end[n], k), 1,
                           IF end[n].rxLen = None THEN k.len ELSE end[n].rxLen)
  <2>1. Tail(wire[n]) \in Seq(Packets)
    BY <1>6 DEF Reads, Types
  <2>2. Uncovered(out[n], k.ack) \in Seq(Sent)
    <3> DEFINE c == {i \in 1 .. Len(out[n]) : out[n][i].seq = k.ack}
               i == CHOOSE j \in c : TRUE
    <3>1. out[n] \in Seq(Sent)
      BY Zenon DEF Types
    <3>2. CASE c = {}
      BY <3>1, <3>2, Zenon DEF Uncovered
    <3>3. CASE c # {}
      <4>1. i \in 1 .. Len(out[n])
        BY <3>3, Zenon
      <4> HIDE DEF i
      <4>2. SubSeq(out[n], 1 + i, Len(out[n])) \in Seq(Sent)
        BY <3>1, <4>1
      <4> QED  BY <3>3, <4>2, Zenon DEF Uncovered, i
    <3> QED  BY <3>2, <3>3, Zenon
  <2>3. wire' \in [Roles -> Seq(Packets)] /\ out' \in [Roles -> Seq(Sent)]
    BY <1>6, <2>1, <2>2, Zenon DEF Reads, Types
  <2>4. received' \in [Roles -> Seq(Seq(Bytes))]
    <3> DEFINE s == end[n]
               expected == IF s.rxLen = None THEN k.len ELSE s.rxLen
    <3>1. s \in Ends /\ Verdict(s, k) = "open" /\ received[n] \in Seq(Seq(Bytes))
      BY <1>6, Zenon DEF Reads, Types
    <3>2. /\ s.rxLen \in Nat \union {None} /\ k.len \in Nat
          /\ s.rxBuf \in Seq(Bytes) /\ k.payload \in Seq(Bytes)
      BY <3>1, Zenon DEF Ends, Packets
    <3>3. expected \in Nat
      BY <3>2, Zenon
    <3>4. Gathered(s, k) \in Seq(Bytes)
      BY <3>2 DEF Gathered
    <3>5. CASE k.data /\ k.end
      <4>1. ~(Len(Gathered(s, k)) < expected)
        BY <3>1, <3>5, Zenon DEF Verdict
      <4> HIDE DEF expected
      <4>2. SubSeq(Gathered(s, k), 1, expected) \in Seq(Bytes)
        BY <3>3, <3>4, <4>1
      <4>3. Append(received[n], SubSeq(Gathered(s, k), 1, expected)) \in Seq(Seq(Bytes))
        BY <3>1, <4>2
      <4>4. received' = [received EXCEPT ![n] =
                           Append(@, SubSeq(Gathered(s, k), 1, expected))]
        BY <1>6, <3>5, Zenon DEF Reads, expected
      <4> QED  BY <4>3, <4>4, Zenon DEF Types
    <3>6. CASE ~(k.data /\ k.end)
      <4>1. received' = [received EXCEPT ![n] = @]
        BY <1>6, <3>6, Zenon DEF Reads
      <4> QED  BY <3>1, <4>1, Zenon DEF Types
    <3> QED  BY <3>5, <3>6, Zenon
  <2>5. ASSUME NEW m \in Roles PROVE Sending(m)'
    <3>1. /\ end'[m].txQueued = end[m].txQueued /\ end'[m].txMsg = end[m].txMsg
          /\ end'[m].txSent = end[m].txSent /\ link' = link /\ Sending(m)
      BY <1>6, PeerFacts, Zenon DEF Reads, Types
    <3> QED  BY <3>1, Zenon DEF Sending
  <2> QED  BY <1>6, <2>3, <2>4, <2>5, Zenon DEF Reads, Types
<1> QED  BY <1>1, <1>2, <1>3, <1>4, <1>5, <1>6, StepShape, PeerFacts, Zenon DEF Types
-----------------------------------------------------------------------------
\* The packets n has out, and those of them still on their way, are numbered up to
\* n's next number, and the peer expects the first it has not had.
Numbering(n) ==
    LET t == end[n].txNext
        w == wire[Peer(n)]
    IN  /\ Len(w) <= Len(out[n])
        /\ Numbered(out[n], t)
        /\ Numbered(w, t)
        /\ closed[Peer(n)] \notin Errors => end[Peer(n)].rxNext = Before(t, Len(w))

\* n's outstanding interval is the packets it has out, and they and the credit left
\* exceed the window by one at most: at the peripheral, which starts with the handshake
\* response out, and at the central where the numbers wrap.
Interval(n) ==
    LET e == end[n]
        o == out[n]
    IN  /\ e.remoteWin + Len(o) <= Window + 1
        /\ e.expecting <=> Len(o) # 0
        /\ Len(o) # 0 => /\ e.newest = Before(e.txNext, 1)
                         /\ e.oldest = Before(e.txNext, Len(o))
        /\ n = "Central" /\ e.remoteWin + Len(o) = Window + 1 =>
             Len(o) # 0 /\ e.newest < Before(e.txNext, Len(o) + 1)

\* ACK a is of a packet n has out and the peer has had: Len(wire[Peer(n)]) came after it.
AckOf(n, a) ==
    Behind(end[n].txNext, a) \in Len(wire[Peer(n)]) + 1 .. Len(out[n])

\* The ACKs on their way to n are of such packets, each of a later one than the last; the
\* one the peer owes is of the last packet it has had, and later than them all.
Acks(n) ==
    LET t == end[n].txNext
        w == wire[n]
        u == end[Peer(n)].unackedRx
    IN  /\ \A j \in 1 .. Len(w) : w[j].ack # None => AckOf(n, w[j].ack)
        /\ \A i, j \in 1 .. Len(w) :
             i < j /\ w[i].ack # None /\ w[j].ack # None =>
               Behind(t, w[j].ack) < Behind(t, w[i].ack)
        /\ closed[Peer(n)] \notin Errors /\ u # None =>
             /\ Behind(t, u) = Len(wire[Peer(n)]) + 1
             /\ AckOf(n, u)
             /\ \A j \in 1 .. Len(w) :
                  w[j].ack # None => Behind(t, u) < Behind(t, w[j].ack)

LinkInv == \A n \in Roles : Numbering(n) /\ Interval(n) /\ Acks(n)

\* The numbers in question.
LEMMA LinkFacts ==
    ASSUME Types, NEW n \in Roles, Numbering(n), Interval(n)
    PROVE  /\ end[n].txNext \in Seqs /\ end[n].remoteWin \in Nat
           /\ end[n].newest \in Seqs /\ end[n].oldest \in Seqs
           /\ out[n] \in Seq(Sent) /\ Len(out[n]) \in Nat
           /\ wire[n] \in Seq(Packets) /\ Len(wire[n]) \in Nat
           /\ wire[Peer(n)] \in Seq(Packets) /\ Len(wire[Peer(n)]) \in Nat
           /\ end[Peer(n)].unackedRx \in Seqs \union {None}
           /\ \A j \in 1 .. Len(wire[n]) : wire[n][j].ack \in Seqs \union {None}
           /\ Len(out[n]) < SeqMod /\ Len(out[n]) <= Window + 1
           /\ end[n].remoteWin # 0 => Len(out[n]) + 1 < SeqMod
           /\ Len(wire[Peer(n)]) <= Len(out[n])
           /\ Window \in Nat /\ SeqMod \in Nat
<1>1. end[n] \in Ends /\ end[Peer(n)] \in Ends
  BY PeerFacts, Zenon DEF Types
<1>2. /\ end[n].txNext \in Seqs /\ end[n].remoteWin \in Nat
      /\ end[n].newest \in Seqs /\ end[n].oldest \in Seqs
      /\ end[Peer(n)].unackedRx \in Seqs \union {None}
  BY <1>1, Zenon DEF Ends
<1>3. out[n] \in Seq(Sent) /\ wire[n] \in Seq(Packets) /\ wire[Peer(n)] \in Seq(Packets)
  BY PeerFacts, Zenon DEF Types
<1>4. Len(out[n]) \in Nat /\ Len(wire[n]) \in Nat /\ Len(wire[Peer(n)]) \in Nat
  BY <1>3
<1>5. \A j \in 1 .. Len(wire[n]) : wire[n][j].ack \in Seqs \union {None}
  <2>1. \A j \in 1 .. Len(wire[n]) : wire[n][j] \in Packets
    BY <1>3
  <2> QED  BY <2>1, Zenon DEF Packets
<1>6. /\ end[n].remoteWin + Len(out[n]) <= Window + 1
      /\ Len(wire[Peer(n)]) <= Len(out[n])
  BY Zenon DEF Numbering, Interval
<1>7. /\ Len(out[n]) < SeqMod /\ Len(out[n]) <= Window + 1
      /\ end[n].remoteWin # 0 => Len(out[n]) + 1 < SeqMod
      /\ Window \in Nat /\ SeqMod \in Nat
  <2>1. end[n].remoteWin \in Nat
    BY <1>2, Zenon
  <2> QED  BY <2>1, <1>4, <1>6, WindowAssumption, SeqModAssumption
<1> QED  BY <1>2, <1>3, <1>4, <1>5, <1>6, <1>7, Zenon

\* A packet departs: the numbers of its sender.
LEMMA WriteNumbers ==
    ASSUME Types, NEW n \in Roles, NEW k, Writes(n, k), Numbering(n), Interval(n)
    PROVE  Numbering(n)' /\ Interval(n)'
<1> DEFINE p == Peer(n)
           t == end[n].txNext
           o == out[n]
           w == wire[p]
           x == [seq |-> k.seq, age |-> 0]
<1>1. /\ p \in Roles /\ p # n
      /\ end[n] \in Ends /\ end[n].remoteWin # 0
  BY PeerFacts, Zenon DEF Writes, Types
<1>2. /\ t \in Seqs /\ end[n].remoteWin \in Nat
      /\ o \in Seq(Sent) /\ Len(o) \in Nat /\ w \in Seq(Packets) /\ Len(w) \in Nat
      /\ Len(o) + 1 < SeqMod /\ Len(w) <= Len(o) /\ SeqMod \in Nat /\ Window \in Nat
  BY <1>1, LinkFacts, Zenon
<1>3. /\ wire'[p] = Append(w, k) /\ out'[n] = Append(o, x)
      /\ end'[p] = end[p] /\ closed' = closed
  BY <1>1, Zenon DEF Writes, Types
<1>4. /\ end'[n].txNext = Inc(t) /\ end'[n].newest = t /\ end'[n].expecting = TRUE
      /\ end'[n].oldest = IF end[n].expecting THEN end[n].oldest ELSE t
      /\ end'[n].remoteWin = end[n].remoteWin - 1
  <2> DEFINE d == Depart(TakeAck(end[n]))
  <2>1. /\ d.txNext = Inc(t) /\ d.newest = t /\ d.expecting = TRUE
        /\ d.oldest = IF end[n].expecting THEN end[n].oldest ELSE t
        /\ d.remoteWin = end[n].remoteWin - 1
    BY <1>1, DepartFacts, Zenon
  <2>2. /\ end'[n].txNext = d.txNext /\ end'[n].newest = d.newest
        /\ end'[n].expecting = d.expecting /\ end'[n].oldest = d.oldest
        /\ end'[n].remoteWin = d.remoteWin
    BY Zenon DEF Writes
  <2> HIDE DEF d
  <2> QED  BY <2>1, <2>2, Zenon
<1>5. Len(Append(w, k)) = Len(w) + 1 /\ Len(Append(o, x)) = Len(o) + 1
  BY <1>2
<1>6. Numbered(Append(w, k), Inc(t)) /\ Numbered(Append(o, x), Inc(t))
  <2>1. k.seq = t /\ x.seq = t
    BY Zenon DEF Writes
  <2>2. Numbered(w, t) /\ Numbered(o, t)
    BY Zenon DEF Numbering
  <2>3. Len(w) < SeqMod /\ Len(o) < SeqMod
    BY <1>2
  <2> QED  BY <1>2, <2>1, <2>2, <2>3, NumberedAppend, Zenon
<1>7. Numbering(n)'
  <2>1. Len(w) + 1 <= Len(o) + 1
    BY <1>2
  <2>2. Before(Inc(t), Len(w) + 1) = Before(t, Len(w))
    <3>1. Len(w) \in 0 .. SeqMod - 1
      BY <1>2
    <3> QED  BY <1>2, <3>1, BeforeFacts, Zenon
  <2>3. closed[p] \notin Errors => end[p].rxNext = Before(t, Len(w))
    BY Zenon DEF Numbering
  <2> QED  BY <1>3, <1>4, <1>5, <1>6, <2>1, <2>2, <2>3, Zenon DEF Numbering
<1>8. Interval(n)'
  <2>1. /\ Before(Inc(t), 1) = t
        /\ Before(Inc(t), Len(o) + 1) = Before(t, Len(o))
        /\ Before(Inc(t), (Len(o) + 1) + 1) = Before(t, Len(o) + 1)
        /\ Before(t, 0) = t
    <3>1. /\ 0 \in 0 .. SeqMod - 1 /\ Len(o) \in 0 .. SeqMod - 1
          /\ Len(o) + 1 \in 0 .. SeqMod - 1 /\ 0 + 1 = 1
      BY <1>2
    <3> QED  BY <1>2, <3>1, BeforeFacts
  <2>2. /\ end'[n].remoteWin + (Len(o) + 1) = end[n].remoteWin + Len(o)
        /\ Len(o) + 1 # 0
    <3>1. end'[n].remoteWin = end[n].remoteWin - 1 /\ end[n].remoteWin \in Nat
          /\ Len(o) \in Nat
      BY <1>2, <1>4, Zenon
    <3> QED  BY <3>1
  <2>3. end'[n].oldest = Before(Inc(t), Len(o) + 1)
    <3>1. CASE Len(o) = 0
      BY <3>1, <1>4, <2>1, Zenon DEF Interval
    <3>2. CASE Len(o) # 0
      BY <3>2, <1>4, <2>1, Zenon DEF Interval
    <3> QED  BY <3>1, <3>2, Zenon
  <2>4. ASSUME n = "Central", end[n].remoteWin + Len(o) = Window + 1
        PROVE  t < Before(t, Len(o) + 1)
    <3>1. Len(o) # 0 /\ Before(t, 1) < Before(t, Len(o) + 1)
      BY <2>4, Zenon DEF Interval
    <3> QED  BY <1>2, <3>1 DEF Before, Seqs
  <2> QED  BY <1>3, <1>4, <1>5, <2>1, <2>2, <2>3, <2>4, Zenon DEF Interval
<1> QED  BY <1>7, <1>8, Zenon

\* The ACKs on their way to its sender.
LEMMA WriteAcks ==
    ASSUME Types, NEW n \in Roles, NEW k, Writes(n, k), Numbering(n), Interval(n), Acks(n)
    PROVE  Acks(n)'
<1> DEFINE p == Peer(n)
           t == end[n].txNext
           w == wire[n]
           u == end[p].unackedRx
<1>1. /\ p \in Roles /\ p # n /\ end[n] \in Ends /\ end[n].remoteWin # 0
  BY PeerFacts, Zenon DEF Writes, Types
<1>2. /\ t \in Seqs /\ Len(out[n]) \in Nat /\ Len(wire[p]) \in Nat
      /\ out[n] \in Seq(Sent) /\ wire[p] \in Seq(Packets)
      /\ Len(out[n]) < SeqMod /\ SeqMod \in Nat /\ u \in Seqs \union {None}
      /\ \A j \in 1 .. Len(w) : w[j].ack \in Seqs \union {None}
  BY LinkFacts, Zenon
<1>3. /\ wire'[p] = Append(wire[p], k) /\ wire'[n] = w
      /\ out'[n] = Append(out[n], [seq |-> k.seq, age |-> 0])
      /\ end'[p] = end[p] /\ closed' = closed
  BY <1>1, Zenon DEF Writes, Types
<1>4. end'[n].txNext = Inc(t)
  BY <1>1, DepartFacts, Zenon DEF Writes
<1>5. Len(wire'[p]) = Len(wire[p]) + 1 /\ Len(out'[n]) = Len(out[n]) + 1
  BY <1>2, <1>3
<1>6. ASSUME NEW a \in Seqs, AckOf(n, a)
      PROVE  /\ AckOf(n, a)' /\ Behind(Inc(t), a) = Behind(t, a) + 1
             /\ Behind(t, a) \in Nat
  <2>1. Behind(t, a) \in Len(wire[p]) + 1 .. Len(out[n])
    BY <1>6, Zenon DEF AckOf
  <2>2. Behind(t, a) \in Nat /\ Behind(t, a) < SeqMod
    BY <1>2, <2>1
  <2>3. Behind(Inc(t), a) = Behind(t, a) + 1
    BY <1>2, <2>2, BehindFacts, Zenon
  <2>4. Behind(t, a) + 1 \in (Len(wire[p]) + 1) + 1 .. Len(out[n]) + 1
    BY <1>2, <2>1
  <2> QED  BY <1>4, <1>5, <2>2, <2>3, <2>4, Zenon DEF AckOf
<1>7. \A j \in 1 .. Len(w) : w[j].ack # None => w[j].ack \in Seqs /\ AckOf(n, w[j].ack)
  BY <1>2, Zenon DEF Acks
<1>8. ASSUME NEW i \in 1 .. Len(w), NEW j \in 1 .. Len(w),
             i < j, w[i].ack # None, w[j].ack # None
      PROVE  Behind(Inc(t), w[j].ack) < Behind(Inc(t), w[i].ack)
  <2>1. Behind(t, w[j].ack) < Behind(t, w[i].ack)
    BY <1>8, Zenon DEF Acks
  <2>2. /\ Behind(Inc(t), w[j].ack) = Behind(t, w[j].ack) + 1 /\ Behind(t, w[j].ack) \in Nat
        /\ Behind(Inc(t), w[i].ack) = Behind(t, w[i].ack) + 1 /\ Behind(t, w[i].ack) \in Nat
    BY <1>6, <1>7, <1>8, Zenon
  <2> QED  BY <2>1, <2>2
<1>9. ASSUME closed[p] \notin Errors, u # None
      PROVE  /\ Behind(Inc(t), u) = (Len(wire[p]) + 1) + 1
             /\ AckOf(n, u)'
             /\ \A j \in 1 .. Len(w) :
                  w[j].ack # None => Behind(Inc(t), u) < Behind(Inc(t), w[j].ack)
  <2>1. /\ u \in Seqs /\ Behind(t, u) = Len(wire[p]) + 1 /\ AckOf(n, u)
    BY <1>2, <1>9, Zenon DEF Acks
  <2>2. Behind(Inc(t), u) = Behind(t, u) + 1 /\ AckOf(n, u)' /\ Behind(t, u) \in Nat
    BY <1>3, <1>6, <2>1, Zenon DEF AckOf
  <2>3. ASSUME NEW j \in 1 .. Len(w), w[j].ack # None
        PROVE  Behind(Inc(t), u) < Behind(Inc(t), w[j].ack)
    <3>1. Behind(t, u) < Behind(t, w[j].ack)
      BY <1>9, <2>3, Zenon DEF Acks
    <3>2. Behind(Inc(t), w[j].ack) = Behind(t, w[j].ack) + 1 /\ Behind(t, w[j].ack) \in Nat
      BY <1>6, <1>7, <2>3, Zenon
    <3> QED  BY <2>2, <3>1, <3>2
  <2> QED  BY <2>1, <2>2, <2>3, Zenon
<1> QED  BY <1>3, <1>4, <1>5, <1>6, <1>7, <1>8, <1>9, Zenon DEF Acks

\* The other direction: the ACK that was owed is now on its way.
LEMMA WritePeer ==
    ASSUME Types, NEW n \in Roles, NEW k, Writes(n, k),
           Numbering(Peer(n)), Interval(Peer(n)), Acks(Peer(n))
    PROVE  Numbering(Peer(n))' /\ Interval(Peer(n))' /\ Acks(Peer(n))'
<1> DEFINE p == Peer(n)
           w == wire[p]
           u == end[n].unackedRx
<1>1. /\ p \in Roles /\ p # n /\ Peer(p) = n /\ end[n] \in Ends /\ end[n].remoteWin # 0
      /\ closed[n] = "open" /\ k.ack = u
  BY PeerFacts, Zenon DEF Writes, Types
<1>2. /\ wire'[p] = Append(w, k) /\ wire'[n] = wire[n] /\ out'[p] = out[p]
      /\ end'[p] = end[p] /\ closed' = closed
  BY <1>1, Zenon DEF Writes, Types
<1>3. end'[n].rxNext = end[n].rxNext /\ end'[n].unackedRx = None
  BY <1>1, DepartFacts, Zenon DEF Writes
<1>4. Numbering(p)' /\ Interval(p)'
  BY <1>1, <1>2, <1>3, Zenon DEF Numbering, Interval
<1>5. w \in Seq(Packets) /\ Len(w) \in Nat
  BY <1>1, LinkFacts, Zenon
<1>6. /\ Len(Append(w, k)) = Len(w) + 1 /\ Append(w, k)[Len(w) + 1] = k
      /\ \A j \in 1 .. Len(w) : Append(w, k)[j] = w[j]
  BY <1>5
<1>7. ASSUME NEW j \in 1 .. Len(w) + 1 PROVE j \in 1 .. Len(w) \/ j = Len(w) + 1
  BY <1>5
<1>8. closed[n] \notin Errors
  BY <1>1, Zenon DEF Errors
<1>9. \A a : AckOf(p, a)' <=> AckOf(p, a)
  BY <1>1, <1>2, Zenon DEF AckOf
<1>10. ASSUME NEW j \in 1 .. Len(w) + 1, Append(w, k)[j].ack # None
       PROVE  AckOf(p, Append(w, k)[j].ack)
  BY <1>1, <1>6, <1>7, <1>8, <1>10, Zenon DEF Acks
<1>11. ASSUME NEW i \in 1 .. Len(w) + 1, NEW j \in 1 .. Len(w) + 1, i < j,
              Append(w, k)[i].ack # None, Append(w, k)[j].ack # None
       PROVE  Behind(end[p].txNext, Append(w, k)[j].ack)
                < Behind(end[p].txNext, Append(w, k)[i].ack)
  <2>1. i \in 1 .. Len(w)
    BY <1>5, <1>11
  <2>2. CASE j \in 1 .. Len(w)
    BY <1>6, <1>11, <2>1, <2>2, Zenon DEF Acks
  <2>3. CASE j = Len(w) + 1
    <3>1. u # None /\ w[i].ack # None
      BY <1>1, <1>6, <1>11, <2>1, <2>3, Zenon
    <3>2. Behind(end[p].txNext, u) < Behind(end[p].txNext, w[i].ack)
      BY <1>1, <1>8, <2>1, <3>1, Zenon DEF Acks
    <3> QED  BY <1>1, <1>6, <2>1, <2>3, <3>2, Zenon
  <2> QED  BY <1>7, <2>2, <2>3, Zenon
<1>12. Acks(p)'
  BY <1>1, <1>2, <1>3, <1>6, <1>9, <1>10, <1>11, Zenon DEF Acks
<1> QED  BY <1>4, <1>12, Zenon

\* Of the packets out, the first on the wire is the one expected and its ACK, if it has one,
\* is of a packet out: receive_ack and the test of the sequence number let it pass.
LEMMA ExpectedPacket ==
    ASSUME Types, NEW n \in Roles, LinkInv, closed[n] = "open", wire[n] # << >>
    PROVE  LET k == Head(wire[n])
           IN  /\ k.seq = end[n].rxNext
               /\ k.ack # None => ValidAck(end[n], k.ack) /\ AckOf(n, k.ack) /\ k.ack \in Seqs
<1> DEFINE p == Peer(n)
           k == Head(wire[n])
           s == end[n]
           t == end[n].txNext
<1>1. /\ p \in Roles /\ Peer(p) = n
      /\ Numbering(n) /\ Interval(n) /\ Acks(n) /\ Numbering(p) /\ Interval(p)
  BY PeerFacts, Zenon DEF LinkInv
<1>2. /\ t \in Seqs /\ Len(out[n]) \in Nat /\ Len(wire[p]) \in Nat
      /\ Len(out[n]) < SeqMod /\ SeqMod \in Nat /\ s.newest \in Seqs /\ s.oldest \in Seqs
      /\ wire[n] \in Seq(Packets)
      /\ \A j \in 1 .. Len(wire[n]) : wire[n][j].ack \in Seqs \union {None}
  BY <1>1, LinkFacts, Zenon
<1>3. /\ Len(wire[n]) \in Nat /\ 1 \in 1 .. Len(wire[n]) /\ k = wire[n][1]
  BY <1>2
<1>4. k.seq = s.rxNext
  <2>1. closed[n] \notin Errors
    BY Zenon DEF Errors
  <2>2. k.seq = Before(end[p].txNext, Len(wire[n]))
    BY <1>1, <1>2, NumberedTail, Zenon DEF Numbering
  <2> QED  BY <1>1, <2>1, <2>2, Zenon DEF Numbering
<1>5. ASSUME k.ack # None
      PROVE  ValidAck(s, k.ack) /\ AckOf(n, k.ack) /\ k.ack \in Seqs
  <2> DEFINE a == k.ack
             d == Behind(t, a)
             m == Len(out[n])
  <2>1. a \in Seqs /\ AckOf(n, a)
    BY <1>1, <1>2, <1>3, <1>5, Zenon DEF Acks
  <2>2. d \in Len(wire[p]) + 1 .. m
    BY <2>1, Zenon DEF AckOf
  <2>3. d \in 1 .. m /\ m # 0
    <3> HIDE DEF d, m
    <3> QED  BY <1>2, <2>2 DEF m
  <2>4. s.expecting /\ s.newest = Before(t, 1) /\ s.oldest = Before(t, m)
    BY <1>1, <2>3, Zenon DEF Interval
  <2>5. IF s.newest >= s.oldest THEN a <= s.newest /\ a >= s.oldest
        ELSE a <= s.newest \/ a >= s.oldest
    <3>1. m \in 1 .. SeqMod - 1
      BY <1>2, <2>3
    <3>2. IF Before(t, 1) >= Before(t, m)
          THEN a <= Before(t, 1) /\ a >= Before(t, m)
          ELSE a <= Before(t, 1) \/ a >= Before(t, m)
      BY <1>2, <2>1, <2>3, <3>1, IntervalTest, Zenon
    <3> QED  BY <2>4, <3>2, Zenon
  <2> QED  BY <2>1, <2>4, <2>5, Zenon DEF ValidAck
<1> QED  BY <1>4, <1>5, Zenon

\* A packet is taken in: the numbers and ACKs of its sender.
LEMMA ReadNumbers ==
    ASSUME Types, NEW n \in Roles, NEW k, Reads(n, k), LinkInv
    PROVE  Numbering(Peer(n))' /\ Interval(Peer(n))' /\ Acks(Peer(n))'
<1> DEFINE p == Peer(n)
           t == end[p].txNext
           w == wire[n]
<1>1. /\ p \in Roles /\ p # n /\ Peer(p) = n
      /\ Numbering(p) /\ Interval(p) /\ Acks(p)
  BY PeerFacts, Zenon DEF LinkInv
<1>2. /\ t \in Seqs /\ Len(out[p]) \in Nat /\ Len(w) \in Nat /\ w \in Seq(Packets)
      /\ Len(out[p]) < SeqMod /\ SeqMod \in Nat /\ Len(w) <= Len(out[p])
      /\ \A j \in 1 .. Len(wire[p]) : wire[p][j].ack \in Seqs \union {None}
  BY <1>1, LinkFacts, Zenon
<1>3. /\ wire'[n] = Tail(w) /\ wire'[p] = wire[p] /\ out'[p] = out[p] /\ closed' = closed
      /\ end'[p] = end[p] /\ end'[n].rxNext = Inc(k.seq) /\ end'[n].unackedRx = k.seq
      /\ w # << >> /\ k = Head(w)
  BY <1>1, Zenon DEF Reads, Types
<1>4. /\ Numbered(Tail(w), t) /\ Len(Tail(w)) = Len(w) - 1 /\ k.seq = Before(t, Len(w))
  BY <1>1, <1>2, <1>3, NumberedTail, Zenon DEF Numbering
<1>5. Len(w) \in 1 .. SeqMod - 1 /\ Len(w) \in 0 .. SeqMod - 1 /\ Len(w) > 0
      /\ (Len(w) - 1) + 1 = Len(w) /\ Len(w) - 1 <= Len(out[p])
  BY <1>2, <1>3
<1>6. /\ Inc(k.seq) = Before(t, Len(w) - 1) /\ k.seq \in Seqs
      /\ Behind(t, k.seq) = Len(w)
  <2>1. /\ Inc(Before(t, Len(w))) = Before(t, Len(w) - 1) /\ Before(t, Len(w)) \in Seqs
        /\ Behind(t, Before(t, Len(w))) = Len(w)
    BY <1>2, <1>5, BeforeFacts, Zenon
  <2> QED  BY <1>4, <2>1, Zenon
<1>7. Numbering(p)' /\ Interval(p)'
  BY <1>1, <1>3, <1>4, <1>5, <1>6, Zenon DEF Numbering, Interval
<1>8. ASSUME NEW a, AckOf(p, a)
      PROVE  /\ Behind(t, a) \in (Len(w) - 1) + 1 .. Len(out[p])
             /\ Len(w) < Behind(t, a)
  <2>1. Behind(t, a) \in Len(w) + 1 .. Len(out[p])
    BY <1>1, <1>8, Zenon DEF AckOf
  <2> QED  BY <1>2, <2>1
<1>9. Len(w) \in (Len(w) - 1) + 1 .. Len(out[p])
  BY <1>2, <1>5
<1>10. Acks(p)'
  <2>1. \A j \in 1 .. Len(wire[p]) : wire[p][j].ack # None => AckOf(p, wire[p][j].ack)
    BY <1>1, Zenon DEF Acks
  <2>2. ASSUME NEW j \in 1 .. Len(wire[p]), wire[p][j].ack # None
        PROVE  /\ AckOf(p, wire[p][j].ack)'
               /\ Behind(t, k.seq) < Behind(t, wire[p][j].ack)
    BY <1>1, <1>3, <1>4, <1>6, <1>8, <2>1, <2>2, Zenon DEF AckOf
  <2>3. AckOf(p, end[n].unackedRx)' /\ Behind(t, k.seq) = (Len(w) - 1) + 1
    BY <1>1, <1>3, <1>4, <1>5, <1>6, <1>9, Zenon DEF AckOf
  <2> QED  BY <1>1, <1>3, <1>4, <2>2, <2>3, Zenon DEF Acks
<1> QED  BY <1>7, <1>10, Zenon

\* adjust_remote_window: the credit left after an ACK of the packet d back, one too many
\* where the numbers wrap between it and the newest.
LEMMA CreditFacts ==
    ASSUME NEW s, NEW t \in Seqs, NEW a \in Seqs, s.newest = Before(t, 1),
           Behind(t, a) \in 1 .. Window + 1
    PROVE  AdjustRemoteWindow(s, a) =
             IF Before(t, 1) < a THEN Window + 2 - Behind(t, a)
             ELSE Window + 1 - Behind(t, a)
<1> DEFINE b == Before(t, 1)
           d == Behind(t, a)
<1>1. /\ SeqMod \in Nat \ {0} /\ Window \in Nat /\ Window + 1 < SeqMod
      /\ t \in 0 .. SeqMod - 1 /\ a \in 0 .. SeqMod - 1 /\ b \in 0 .. SeqMod - 1
  BY WindowAssumption, SeqModAssumption DEF Seqs, Before
<1>2. d \in 1 .. Window + 1
  BY Zenon
<1>3. CASE b < a
  <2>1. b = a + d - 1 - SeqMod /\ d > 1
    BY <1>1, <1>2, <1>3 DEF Before, Behind
  <2>2. /\ a + Window > SeqMod - 1
        /\ (a + Window) - (b + (SeqMod - 1)) = Window + 2 - d
        /\ Window + 2 - d \in Nat /\ Window + 2 - d < SeqMod
    <3> HIDE DEF b, d
    <3> QED  BY <1>1, <1>2, <2>1
  <2>3. (Window + 2 - d) % SeqMod = Window + 2 - d
    BY <1>1, <2>2, ModFacts, Zenon
  <2>4. AdjustRemoteWindow(s, a) = ((a + Window) - (b + (SeqMod - 1))) % SeqMod
    BY <1>3, <2>2, Zenon DEF AdjustRemoteWindow
  <2> QED  BY <1>3, <2>2, <2>3, <2>4, Zenon
<1>4. CASE ~(b < a)
  <2>1. b = a + d - 1
    BY <1>1, <1>2, <1>4 DEF Before, Behind
  <2>2. /\ (a + Window) - b = Window + 1 - d
        /\ Window + 1 - d \in Nat /\ Window + 1 - d < SeqMod
    <3> HIDE DEF b, d
    <3> QED  BY <1>1, <1>2, <2>1
  <2>3. (Window + 1 - d) % SeqMod = Window + 1 - d
    BY <1>1, <2>2, ModFacts, Zenon
  <2>4. AdjustRemoteWindow(s, a) = ((a + Window) - b) % SeqMod
    BY <1>4, Zenon DEF AdjustRemoteWindow
  <2> QED  BY <1>4, <2>2, <2>3, <2>4, Zenon
<1> QED  BY <1>3, <1>4, Zenon

\* The fields receive_ack sets.
LEMMA ReceiveAckSets ==
    ASSUME NEW s \in Ends, NEW a \in Seqs
    PROVE  LET r == ReceiveAck(s, a)
           IN  /\ r.oldest = IF a = s.newest THEN a ELSE Inc(a)
               /\ r.expecting = (a # s.newest)
               /\ r.remoteWin = AdjustRemoteWindow(s, a)
<1>1. a # None
  BY DEF Seqs, None
<1> QED  BY <1>1, Zenon DEF ReceiveAck, Ends

\* A packet is taken in: the numbers of the end that takes it.
LEMMA ReadInterval ==
    ASSUME Types, NEW n \in Roles, NEW k, Reads(n, k), LinkInv, k.ack # None
    PROVE  Numbering(n)' /\ Interval(n)'
<1> DEFINE p == Peer(n)
           s == end[n]
           t == end[n].txNext
           a == k.ack
           d == Behind(t, a)
           o == Uncovered(out[n], a)
<1>1. /\ p \in Roles /\ p # n /\ Numbering(n) /\ Interval(n) /\ end[n] \in Ends
  BY PeerFacts, Zenon DEF LinkInv, Types
<1>2. /\ t \in Seqs /\ Len(out[n]) \in Nat /\ Len(wire[p]) \in Nat /\ out[n] \in Seq(Sent)
      /\ Len(out[n]) < SeqMod /\ SeqMod \in Nat /\ Len(wire[p]) <= Len(out[n])
      /\ Len(out[n]) <= Window + 1 /\ Window \in Nat
  BY <1>1, LinkFacts, Zenon
<1>3. a \in Seqs /\ d \in Len(wire[p]) + 1 .. Len(out[n])
  <2>1. closed[n] = "open" /\ wire[n] # << >> /\ k = Head(wire[n])
    BY Zenon DEF Reads
  <2> QED  BY <2>1, ExpectedPacket, Zenon DEF AckOf
<1>4. /\ d \in 1 .. Len(out[n]) /\ d \in 1 .. Window + 1 /\ d \in 0 .. SeqMod - 1 /\ d > 0
      /\ d \in Nat /\ Len(wire[p]) <= d - 1
  <2> HIDE DEF d
  <2> QED  BY <1>2, <1>3
<1>5. /\ Numbered(o, t) /\ Len(o) = d - 1
  BY <1>1, <1>2, <1>3, <1>4, UncoveredFacts, Zenon DEF Numbering
<1>6. /\ wire'[p] = wire[p] /\ out'[n] = o /\ closed' = closed
      /\ end'[p] = end[p] /\ end'[n].txNext = t /\ end'[n].newest = s.newest
  BY <1>1, Zenon DEF Reads, Types
<1>7. /\ end'[n].oldest = IF a = s.newest THEN a ELSE Inc(a)
      /\ end'[n].expecting = (a # s.newest)
      /\ end'[n].remoteWin = AdjustRemoteWindow(s, a)
  <2>1. /\ end'[n].oldest = ReceiveAck(s, a).oldest
        /\ end'[n].expecting = ReceiveAck(s, a).expecting
        /\ end'[n].remoteWin = ReceiveAck(s, a).remoteWin
    BY Zenon DEF Reads
  <2>2. /\ ReceiveAck(s, a).oldest = IF a = s.newest THEN a ELSE Inc(a)
        /\ ReceiveAck(s, a).expecting = (a # s.newest)
        /\ ReceiveAck(s, a).remoteWin = AdjustRemoteWindow(s, a)
    BY <1>1, <1>3, ReceiveAckSets, Zenon
  <2> HIDE DEF s, a
  <2> QED  BY <2>1, <2>2, Zenon
<1>8. Numbering(n)'
  BY <1>1, <1>4, <1>5, <1>6, Zenon DEF Numbering
<1>9. s.newest = Before(t, 1)
  <2>1. Len(out[n]) # 0
    BY <1>2, <1>4
  <2> QED  BY <1>1, <2>1, Zenon DEF Interval
<1>10. Before(t, d) = a /\ Inc(a) = Before(t, d - 1)
  <2>1. Before(t, d) = a
    BY <1>2, <1>3, BehindFacts, Zenon
  <2>2. Inc(Before(t, d)) = Before(t, d - 1)
    BY <1>2, <1>4, BeforeFacts, Zenon
  <2> QED  BY <2>1, <2>2, Zenon
<1>11. d = 1 <=> a = s.newest
  <2>1. 1 \in 0 .. SeqMod - 1 /\ 1 > 0
    BY <1>2, <1>4
  <2>2. Behind(t, Before(t, 1)) = 1
    BY <1>2, <2>1, BeforeFacts, Zenon
  <2> QED  BY <1>9, <1>10, <2>2, Zenon
<1>12. end'[n].remoteWin = IF s.newest < a THEN Window + 2 - d ELSE Window + 1 - d
  BY <1>2, <1>3, <1>4, <1>7, <1>9, CreditFacts, Zenon
<1>13. /\ end'[n].remoteWin + (d - 1) <= Window + 1
       /\ end'[n].remoteWin + (d - 1) = Window + 1 => s.newest < a
  <2> HIDE DEF d
  <2>1. CASE s.newest < a
    BY <1>2, <1>4, <1>12, <2>1
  <2>2. CASE ~(s.newest < a)
    BY <1>2, <1>4, <1>12, <2>2
  <2> QED  BY <2>1, <2>2, Zenon
<1>14. (d - 1) + 1 = d /\ (d = 1 <=> d - 1 = 0)
  <2> HIDE DEF d
  <2> QED  BY <1>4
<1>15. s.newest < a => d # 1
  <2>1. s.newest \in Nat
    BY <1>1 DEF Ends, Seqs
  <2> QED  BY <1>11, <2>1
<1>16. Interval(n)'
  <2> HIDE DEF d
  <2>1. end'[n].expecting <=> d - 1 # 0
    BY <1>7, <1>11, <1>14, Zenon
  <2>2. d - 1 # 0 => end'[n].oldest = Before(t, d - 1)
    BY <1>7, <1>10, <1>11, <1>14, Zenon
  <2>3. Before(t, (d - 1) + 1) = a
    BY <1>10, <1>14, Zenon
  <2> QED  BY <1>5, <1>6, <1>9, <1>13, <1>14, <1>15, <2>1, <2>2, <2>3, Zenon DEF Interval
<1> QED  BY <1>8, <1>16, Zenon

\* A packet without an ACK leaves the outstanding interval as it is.
LEMMA ReadPlain ==
    ASSUME Types, NEW n \in Roles, NEW k, Reads(n, k), k.ack = None
    PROVE  /\ out'[n] = out[n] /\ end'[n].oldest = end[n].oldest
           /\ end'[n].expecting = end[n].expecting /\ end'[n].remoteWin = end[n].remoteWin
<1>1. out[n] \in Seq(Sent)
  BY Zenon DEF Types
<1>2. {i \in 1 .. Len(out[n]) : out[n][i].seq = None} = {}
  <2>1. ASSUME NEW i \in 1 .. Len(out[n]) PROVE out[n][i].seq # None
    <3>1. out[n][i] \in Sent
      BY <1>1, <2>1
    <3>2. out[n][i].seq \in Seqs
      BY <3>1, Zenon DEF Sent
    <3> QED  BY <3>2, SeqModAssumption DEF Seqs, None
  <2> QED  BY <2>1, Zenon
<1>3. Uncovered(out[n], None) = out[n]
  BY <1>2, Zenon DEF Uncovered
<1>4. ReceiveAck(end[n], k.ack) = end[n]
  BY Zenon DEF ReceiveAck
<1> QED  BY <1>3, <1>4, Zenon DEF Reads, Types

\* The ACKs still on their way to the end that takes it.
LEMMA ReadAcks ==
    ASSUME Types, NEW n \in Roles, NEW k, Reads(n, k), LinkInv
    PROVE  Numbering(n)' /\ Interval(n)' /\ Acks(n)'
<1> DEFINE p == Peer(n)
           t == end[n].txNext
           w == wire[n]
           u == end[p].unackedRx
<1>1. /\ p \in Roles /\ p # n /\ Numbering(n) /\ Interval(n) /\ Acks(n)
  BY PeerFacts, Zenon DEF LinkInv
<1>2. /\ w \in Seq(Packets) /\ w # << >> /\ k = Head(w)
      /\ wire'[n] = Tail(w) /\ wire'[p] = wire[p] /\ closed' = closed
      /\ end'[p] = end[p] /\ end'[n].txNext = t /\ end'[n].newest = end[n].newest
      /\ out'[n] = Uncovered(out[n], k.ack)
  BY <1>1, Zenon DEF Reads, Types
<1>3. /\ Len(w) \in Nat \ {0} /\ k = w[1] /\ Len(Tail(w)) = Len(w) - 1
  BY <1>2
<1>4. ASSUME NEW j \in 1 .. Len(Tail(w))
      PROVE  j + 1 \in 1 .. Len(w) /\ 1 < j + 1 /\ 1 \in 1 .. Len(w) /\ Tail(w)[j] = w[j + 1]
  <2>1. j \in 1 .. Len(w) - 1
    BY <1>3, <1>4, Zenon
  <2>2. j + 1 \in 1 .. Len(w) /\ 1 < j + 1 /\ 1 \in 1 .. Len(w)
    BY <1>3, <2>1
  <2>3. Tail(w)[j] = w[j + 1]
    BY <1>2, <2>1
  <2> QED  BY <2>2, <2>3, Zenon
<1>5. ASSUME NEW i \in 1 .. Len(Tail(w)), NEW j \in 1 .. Len(Tail(w)), i < j,
             Tail(w)[i].ack # None, Tail(w)[j].ack # None
      PROVE  Behind(t, Tail(w)[j].ack) < Behind(t, Tail(w)[i].ack)
  <2>1. i + 1 < j + 1
    BY <1>5
  <2>2. /\ i + 1 \in 1 .. Len(w) /\ j + 1 \in 1 .. Len(w)
        /\ Tail(w)[i] = w[i + 1] /\ Tail(w)[j] = w[j + 1]
    BY <1>4, Zenon
  <2> QED  BY <1>1, <1>5, <2>1, <2>2, Zenon DEF Acks
<1>6. ASSUME NEW j \in 1 .. Len(Tail(w)), Tail(w)[j].ack # None
      PROVE  /\ AckOf(n, Tail(w)[j].ack)
             /\ k.ack # None => Behind(t, Tail(w)[j].ack) < Behind(t, k.ack)
             /\ closed[p] \notin Errors /\ u # None =>
                  Behind(t, u) < Behind(t, Tail(w)[j].ack)
  <2>1. /\ j + 1 \in 1 .. Len(w) /\ 1 < j + 1 /\ 1 \in 1 .. Len(w) /\ Tail(w)[j] = w[j + 1]
    BY <1>4, Zenon
  <2>2. w[j + 1].ack # None
    BY <1>6, <2>1, Zenon
  <2> QED  BY <1>1, <1>3, <2>1, <2>2, Zenon DEF Acks
<1>7. CASE k.ack = None
  <2>1. /\ out'[n] = out[n] /\ end'[n].oldest = end[n].oldest
        /\ end'[n].expecting = end[n].expecting /\ end'[n].remoteWin = end[n].remoteWin
    BY <1>7, ReadPlain, Zenon
  <2>2. Numbering(n)' /\ Interval(n)'
    BY <1>1, <1>2, <2>1, Zenon DEF Numbering, Interval
  <2>3. \A a : Behind(end'[n].txNext, a) \in Len(wire'[p]) + 1 .. Len(out'[n]) <=> AckOf(n, a)
    BY <1>2, <2>1, Zenon DEF AckOf
  <2>4. Acks(n)'
    BY <1>1, <1>2, <1>5, <1>6, <2>3, Zenon DEF Acks, AckOf
  <2> QED  BY <2>2, <2>4, Zenon
<1>8. CASE k.ack # None
  <2> DEFINE d == Behind(t, k.ack)
  <2>1. Numbering(n)' /\ Interval(n)'
    BY <1>8, ReadInterval, Zenon
  <2>2. /\ t \in Seqs /\ Len(out[n]) \in Nat /\ Len(wire[p]) \in Nat /\ out[n] \in Seq(Sent)
        /\ Len(out[n]) < SeqMod
    BY <1>1, LinkFacts, Zenon
  <2>3. k.ack \in Seqs /\ AckOf(n, k.ack)
    <3>1. closed[n] = "open"
      BY Zenon DEF Reads
    <3> QED  BY <1>2, <1>8, <3>1, ExpectedPacket, Zenon
  <2>4. d \in Len(wire[p]) + 1 .. Len(out[n])
    BY <2>3, Zenon DEF AckOf
  <2>5. d \in 1 .. Len(out[n]) /\ d \in Nat
    <3> HIDE DEF d
    <3> QED  BY <2>2, <2>4
  <2>6. Len(out'[n]) = d - 1
    <3>1. Numbered(out[n], t)
      BY <1>1, Zenon DEF Numbering
    <3>2. Len(Uncovered(out[n], k.ack)) = d - 1
      BY <2>2, <2>3, <2>5, <3>1, UncoveredFacts, Zenon
    <3> QED  BY <1>2, <3>2, Zenon
  <2>7. ASSUME NEW a, AckOf(n, a), Behind(t, a) < d
        PROVE  Behind(end'[n].txNext, a) \in Len(wire'[p]) + 1 .. Len(out'[n])
    <3>1. Behind(t, a) \in Len(wire[p]) + 1 .. Len(out[n])
      BY <2>7, Zenon DEF AckOf
    <3>2. Behind(t, a) \in Len(wire[p]) + 1 .. d - 1
      <4> HIDE DEF d
      <4> QED  BY <2>2, <2>5, <2>7, <3>1
    <3> QED  BY <1>2, <2>6, <3>2, Zenon
  <2>8. closed[p] \notin Errors /\ u # None =>
          /\ Behind(t, u) = Len(wire[p]) + 1
          /\ AckOf(n, u) /\ Behind(t, u) < d
    <3>1. 1 \in 1 .. Len(w)
      BY <1>3
    <3> QED  BY <1>1, <1>3, <1>8, <3>1, Zenon DEF Acks
  <2>9. Acks(n)'
    BY <1>1, <1>2, <1>5, <1>6, <1>8, <2>7, <2>8, Zenon DEF Acks, AckOf
  <2> QED  BY <2>1, <2>9, Zenon
<1> QED  BY <1>7, <1>8, Zenon

\* A packet is refused: the end that refuses it is closed for good.
LEMMA RejectKeeps ==
    ASSUME Types, NEW n \in Roles, NEW k, Rejects(n, k), LinkInv
    PROVE  LinkInv'
<1> DEFINE p == Peer(n)
           w == wire[n]
<1>1. /\ p \in Roles /\ p # n /\ Peer(p) = n
      /\ Numbering(n) /\ Interval(n) /\ Acks(n) /\ Numbering(p) /\ Interval(p) /\ Acks(p)
  BY PeerFacts, Zenon DEF LinkInv
<1>2. /\ w \in Seq(Packets) /\ w # << >> /\ wire'[n] = Tail(w) /\ wire'[p] = wire[p]
      /\ end' = end /\ out' = out /\ closed'[p] = closed[p]
  BY <1>1, Zenon DEF Rejects, Types
<1>3. closed'[n] \in Errors
  <2>1. Verdict(end[n], k) \in Errors
    BY Zenon DEF Rejects, Verdict, Errors
  <2> QED  BY <2>1, Zenon DEF Rejects, Types
<1>4. /\ Len(w) \in Nat \ {0} /\ Len(Tail(w)) = Len(w) - 1
  BY <1>2
<1>5. Numbered(Tail(w), end[p].txNext)
  BY <1>1, <1>2, NumberedTail, Zenon DEF Numbering
<1>6. /\ Len(out[p]) \in Nat /\ Len(w) <= Len(out[p])
  BY <1>1, LinkFacts, Zenon
<1>7. Len(w) - 1 <= Len(out[p])
  BY <1>4, <1>6
<1>8. Numbering(p)' /\ Interval(p)'
  BY <1>1, <1>2, <1>3, <1>4, <1>5, <1>7, Zenon DEF Numbering, Interval
<1>9. ASSUME NEW a, AckOf(p, a)
      PROVE  Behind(end[p].txNext, a) \in (Len(w) - 1) + 1 .. Len(out[p])
  <2>1. Behind(end[p].txNext, a) \in Len(w) + 1 .. Len(out[p])
    BY <1>1, <1>9, Zenon DEF AckOf
  <2> QED  BY <1>4, <1>6, <2>1
<1>10. Acks(p)'
  BY <1>1, <1>2, <1>3, <1>4, <1>9, Zenon DEF Acks, AckOf
<1>11. Numbering(n)' /\ Interval(n)'
  BY <1>1, <1>2, Zenon DEF Numbering, Interval
<1>12. Acks(n)'
  <2>1. ASSUME NEW j \in 1 .. Len(Tail(w))
        PROVE  j + 1 \in 1 .. Len(w) /\ Tail(w)[j] = w[j + 1]
    <3>1. j \in 1 .. Len(w) - 1
      BY <1>4, <2>1, Zenon
    <3>2. j + 1 \in 1 .. Len(w)
      BY <1>4, <3>1
    <3>3. Tail(w)[j] = w[j + 1]
      BY <1>2, <3>1
    <3> QED  BY <3>2, <3>3, Zenon
  <2>2. ASSUME NEW i \in 1 .. Len(Tail(w)), NEW j \in 1 .. Len(Tail(w)), i < j
        PROVE  i + 1 < j + 1
    BY <2>2
  <2>3. ASSUME NEW j \in 1 .. Len(Tail(w)), Tail(w)[j].ack # None
        PROVE  /\ AckOf(n, Tail(w)[j].ack)
               /\ closed[p] \notin Errors /\ end[p].unackedRx # None =>
                    Behind(end[n].txNext, end[p].unackedRx) <
                      Behind(end[n].txNext, Tail(w)[j].ack)
    <3>1. j + 1 \in 1 .. Len(w) /\ Tail(w)[j] = w[j + 1] /\ w[j + 1].ack # None
      BY <2>1, <2>3, Zenon
    <3> QED  BY <1>1, <3>1, Zenon DEF Acks
  <2>4. ASSUME NEW i \in 1 .. Len(Tail(w)), NEW j \in 1 .. Len(Tail(w)), i < j,
               Tail(w)[i].ack # None, Tail(w)[j].ack # None
        PROVE  Behind(end[n].txNext, Tail(w)[j].ack) < Behind(end[n].txNext, Tail(w)[i].ack)
    <3>1. /\ i + 1 \in 1 .. Len(w) /\ j + 1 \in 1 .. Len(w) /\ i + 1 < j + 1
          /\ Tail(w)[i] = w[i + 1] /\ Tail(w)[j] = w[j + 1]
      BY <2>1, <2>2, <2>4, Zenon
    <3> QED  BY <1>1, <2>4, <3>1, Zenon DEF Acks
  <2> QED  BY <1>1, <1>2, <2>3, <2>4, Zenon DEF Acks, AckOf
<1> QED  BY <1>8, <1>10, <1>11, <1>12, PeerFacts, Zenon DEF LinkInv

\* A step that moves no packet.
LEMMA QuietKeeps ==
    ASSUME Types, Quiet, LinkInv
    PROVE  LinkInv'
<1> SUFFICES ASSUME NEW n \in Roles PROVE Numbering(n)' /\ Interval(n)' /\ Acks(n)'
  BY Zenon DEF LinkInv
<1> DEFINE p == Peer(n)
<1>1. /\ p \in Roles /\ Numbering(n) /\ Interval(n) /\ Acks(n)
  BY PeerFacts, Zenon DEF LinkInv
<1>2. /\ wire' = wire /\ end'[n].txNext = end[n].txNext /\ end'[n].newest = end[n].newest
      /\ end'[n].oldest = end[n].oldest /\ end'[n].expecting = end[n].expecting
      /\ end'[n].remoteWin = end[n].remoteWin
      /\ Len(out'[n]) = Len(out[n])
      /\ \A i \in 1 .. Len(out[n]) : out'[n][i].seq = out[n][i].seq
  BY Zenon DEF Quiet
<1>3. /\ end'[p].rxNext = end[p].rxNext /\ end'[p].unackedRx = end[p].unackedRx
      /\ closed'[p] \notin Errors => closed[p] \notin Errors
  BY <1>1, Zenon DEF Quiet
<1>4. Numbered(out'[n], end[n].txNext)
  BY <1>1, <1>2, Zenon DEF Numbering, Numbered
<1>5. Numbering(n)' /\ Interval(n)'
  BY <1>1, <1>2, <1>3, <1>4, Zenon DEF Numbering, Interval
<1>6. Acks(n)'
  BY <1>1, <1>2, <1>3, Zenon DEF Acks, AckOf
<1> QED  BY <1>5, <1>6, Zenon

\* BtpSession::new, in either role.
LEMMA NewEndFacts ==
    /\ LET e == NewEnd("Central")
       IN  /\ e.txNext = 0 /\ e.remoteWin = Window /\ ~e.expecting
           /\ e.rxNext = 1 % SeqMod /\ e.unackedRx = 0
    /\ LET e == NewEnd("Peripheral")
       IN  /\ e.txNext = 1 % SeqMod /\ e.remoteWin = Window /\ e.expecting
           /\ e.oldest = 0 /\ e.newest = 0
           /\ e.rxNext = 0 /\ e.unackedRx = None
  BY Zenon DEF NewEnd

\* At the handshake's end nothing is on the wire, and the central owes the ACK of the
\* response.
LEMMA LinkInit == Init => LinkInv
<1> SUFFICES ASSUME Init, NEW n \in Roles PROVE Numbering(n) /\ Interval(n) /\ Acks(n)
  BY Zenon DEF LinkInv
<1>1. SeqMod \in Nat /\ Window \in Nat \ {0} /\ Window + 1 < SeqMod /\ 1 % SeqMod = 1
  BY WindowAssumption, SeqModAssumption, ModFacts
<1>2. /\ wire[n] = << >> /\ wire[Peer(n)] = << >> /\ end[n] = NewEnd(n)
      /\ end[Peer(n)] = NewEnd(Peer(n)) /\ closed[Peer(n)] = "open"
  BY PeerFacts, Zenon DEF Init
<1>3. CASE n = "Central"
  <2>1. out[n] = << >> /\ Peer(n) = "Peripheral"
    BY <1>3, Zenon DEF Init, Peer, Roles
  <2>2. /\ end[n].txNext = 0 /\ end[n].remoteWin = Window /\ ~end[n].expecting
        /\ end[Peer(n)].rxNext = 0 /\ end[Peer(n)].unackedRx = None
    BY <1>1, <1>2, <1>3, <2>1, NewEndFacts, Zenon
  <2> QED  BY <1>1, <1>2, <2>1, <2>2 DEF Numbering, Numbered, Interval, Acks, Before
<1>4. CASE n = "Peripheral"
  <2>1. out[n] = <<[seq |-> 0, age |-> 0]>> /\ Peer(n) = "Central"
    BY <1>4, Zenon DEF Init, Peer, Roles
  <2>2. /\ end[n].txNext = 1 /\ end[n].remoteWin = Window /\ end[n].expecting
        /\ end[n].oldest = 0 /\ end[n].newest = 0
        /\ end[Peer(n)].rxNext = 1 /\ end[Peer(n)].unackedRx = 0
    BY <1>1, <1>2, <1>4, <2>1, NewEndFacts, Zenon
  <2>3. Len(out[n]) = 1 /\ out[n][1].seq = 0
    BY <2>1
  <2>4. Before(1, 1) = 0 /\ Before(1, 0) = 1 /\ Behind(1, 0) = 1
    BY <1>1 DEF Before, Behind
  <2>5. Numbering(n)
    BY <1>1, <1>2, <2>2, <2>3, <2>4 DEF Numbering, Numbered
  <2>6. Interval(n)
    BY <1>1, <1>4, <2>2, <2>3, <2>4 DEF Interval
  <2>7. Acks(n)
    BY <1>2, <2>2, <2>3, <2>4 DEF Acks, AckOf
  <2> QED  BY <2>5, <2>6, <2>7, Zenon
<1> QED  BY <1>3, <1>4, Zenon DEF Roles

\* Every step keeps the numbers, the outstanding intervals and the ACKs in agreement.
LEMMA LinkStep == Types /\ LinkInv /\ [Next]_vars => LinkInv'
<1> SUFFICES ASSUME Types, LinkInv, [Next]_vars PROVE LinkInv'
  BY Zenon
<1>1. ASSUME NEW n \in Roles, NEW k \in Packets, Writes(n, k) PROVE LinkInv'
  <2>1. /\ Peer(n) \in Roles /\ Numbering(n) /\ Interval(n) /\ Acks(n)
        /\ Numbering(Peer(n)) /\ Interval(Peer(n)) /\ Acks(Peer(n))
    BY PeerFacts, Zenon DEF LinkInv
  <2>2. Numbering(n)' /\ Interval(n)' /\ Acks(n)'
    BY <1>1, <2>1, WriteNumbers, WriteAcks, Zenon
  <2>3. Numbering(Peer(n))' /\ Interval(Peer(n))' /\ Acks(Peer(n))'
    BY <1>1, <2>1, WritePeer, Zenon
  <2> QED  BY <2>2, <2>3, PeerFacts, Zenon DEF LinkInv
<1>2. ASSUME NEW n \in Roles, NEW k \in Packets, Reads(n, k) PROVE LinkInv'
  <2>1. Numbering(n)' /\ Interval(n)' /\ Acks(n)'
    BY <1>2, ReadAcks, Zenon
  <2>2. Numbering(Peer(n))' /\ Interval(Peer(n))' /\ Acks(Peer(n))'
    BY <1>2, ReadNumbers, Zenon
  <2> QED  BY <2>1, <2>2, PeerFacts, Zenon DEF LinkInv
<1> QED  BY <1>1, <1>2, StepShape, QuietKeeps, RejectKeeps, Zenon

\* What the outstanding interval says of the central's window.
LEMMA IntervalKeepsWindow ==
    ASSUME Types, LinkInv
    PROVE  WindowRespectedUnlessWrapping
<1> DEFINE n == "Central"
           e == end[n]
           o == out[n]
           t == e.txNext
<1>1. n \in Roles /\ Numbering(n) /\ Interval(n)
  BY Zenon DEF LinkInv, Roles
<1>2. /\ t \in Seqs /\ e.remoteWin \in Nat /\ Len(o) \in Nat /\ Len(o) < SeqMod
      /\ Len(o) <= Window + 1 /\ Window \in Nat /\ SeqMod \in Nat /\ o \in Seq(Sent)
  BY <1>1, LinkFacts, Zenon
<1>3. CASE Len(o) <= Window
  <2>1. \A b \in BOOLEAN : Len(o) <= Window + (IF b THEN 1 ELSE 0)
    BY <1>2, <1>3
  <2> QED  BY <2>1, Zenon DEF WindowRespectedUnlessWrapping
<1>4. CASE Len(o) = Window + 1
  <2>1. e.remoteWin + Len(o) = Window + 1 /\ Len(o) # 0
    <3>1. e.remoteWin + Len(o) <= Window + 1
      BY <1>1, Zenon DEF Interval
    <3> QED  BY <1>2, <1>4, <3>1
  <2>2. /\ e.newest = Before(t, 1) /\ e.newest < Before(t, Len(o) + 1)
    BY <1>1, <2>1, Zenon DEF Interval
  <2>3. 1 \in 1 .. Len(o) /\ Len(o) \in 1 .. Len(o)
        /\ Len(o) + 1 - 1 = Len(o) /\ Len(o) + 1 - Len(o) = 1
    BY <1>2, <2>1
  <2>4. /\ o[1].seq = Before(t, Len(o) + 1 - 1)
        /\ o[Len(o)].seq = Before(t, Len(o) + 1 - Len(o))
    BY <1>1, <2>3, Zenon DEF Numbering, Numbered
  <2>5. (Before(t, Len(o)) + SeqMod - 1) % SeqMod = Before(t, Len(o) + 1)
    <3>1. Len(o) + 1 <= SeqMod /\ Len(o) >= 1
      BY <1>2, <2>1
    <3>2. Len(o) \in 0 .. SeqMod - 1
      BY <1>2
    <3>3. Before(t, Len(o)) \in Seqs
      BY <1>2, <3>2, BeforeFacts, Zenon
    <3>4. (Before(t, Len(o)) + SeqMod - 1) % SeqMod =
            IF Before(t, Len(o)) = 0 THEN SeqMod - 1 ELSE Before(t, Len(o)) - 1
      BY <3>3, DecFacts, Zenon
    <3>5. (IF Before(t, Len(o)) = 0 THEN SeqMod - 1 ELSE Before(t, Len(o)) - 1) =
            Before(t, Len(o) + 1)
      <4> HIDE DEF t, o
      <4> QED  BY <1>2, <3>1 DEF Before, Seqs
    <3> HIDE DEF t, o
    <3> QED  BY <3>4, <3>5
  <2>6. o # << >> /\ o[Len(o)].seq < (o[1].seq + SeqMod - 1) % SeqMod
    <3>1. o # << >>
      BY <2>1
    <3>2. o[Len(o)].seq = e.newest /\ o[1].seq = Before(t, Len(o))
      BY <2>2, <2>3, <2>4, Zenon
    <3> QED  BY <2>2, <2>5, <3>1, <3>2, Zenon
  <2>7. Len(o) <= Window + (IF TRUE THEN 1 ELSE 0)
    BY <1>2, <1>4, Zenon
  <2> QED  BY <2>6, <2>7, Zenon DEF WindowRespectedUnlessWrapping
<1> QED  BY <1>2, <1>3, <1>4

\* The central keeps to the window, the one packet aside that the arithmetic of
\* adjust_remote_window lets through when the numbers wrap: for every window, every
\* modulus beyond it and whatever is queued.
THEOREM BtpKeepsToWindow == Spec => []WindowRespectedUnlessWrapping
<1>1. Init => Types /\ LinkInv
  BY TypesInit, LinkInit, Zenon
<1>2. Types /\ LinkInv /\ [Next]_vars => Types' /\ LinkInv'
  BY TypesStep, LinkStep, Zenon
<1>3. Types /\ LinkInv => WindowRespectedUnlessWrapping
  BY IntervalKeepsWindow, Zenon
<1> QED  BY <1>1, <1>2, <1>3, PTL DEF Spec
-----------------------------------------------------------------------------

\* Two pieces of a sequence that meet make one.
LEMMA PiecesJoin ==
    ASSUME NEW S, NEW s \in Seq(S), NEW a \in Nat, NEW b \in Nat, a <= b, b <= Len(s)
    PROVE  /\ SubSeq(s, 1, a) \o SubSeq(s, a + 1, b) = SubSeq(s, 1, b)
           /\ SubSeq(s, 1, b) \in Seq(S) /\ Len(SubSeq(s, 1, b)) = b
<1> DEFINE l == SubSeq(s, 1, a)
           m == SubSeq(s, a + 1, b)
           r == SubSeq(s, 1, b)
<1>1. l \in Seq(S) /\ Len(l) = a /\ \A i \in 1 .. a : l[i] = s[i]
  OBVIOUS
<1>2. m \in Seq(S) /\ Len(m) = b - a /\ \A i \in 1 .. b - a : m[i] = s[a + i]
  BY SubSeqFacts, Zenon
<1>3. r \in Seq(S) /\ Len(r) = b /\ \A i \in 1 .. b : r[i] = s[i]
  OBVIOUS
<1> HIDE DEF l, m, r
<1>5. l \o m \in Seq(S) /\ Len(l \o m) = b
  <2>1. \A x, y \in Seq(S) : x \o y \in Seq(S) /\ Len(x \o y) = Len(x) + Len(y)
    OBVIOUS
  <2>2. a + (b - a) = b
    OBVIOUS
  <2> QED  BY <1>1, <1>2, <2>1, <2>2, Zenon
<1>6. ASSUME NEW i \in 1 .. b PROVE (l \o m)[i] = r[i]
  <2>1. CASE i <= a
    <3>1. i \in 1 .. a
      BY <2>1
    <3>2. (l \o m)[i] = l[i]
      BY <1>1, <1>2, <3>1
    <3> QED  BY <1>1, <1>3, <3>1, <3>2, Zenon
  <2>2. CASE ~(i <= a)
    <3>1. i - a \in 1 .. b - a /\ a + (i - a) = i
      BY <2>2
    <3>2. (l \o m)[i] = m[i - a]
      BY <1>1, <1>2, <2>2, <3>1
    <3> QED  BY <1>2, <1>3, <3>1, <3>2, Zenon
  <2> QED  BY <2>1, <2>2, Zenon
<1>7. l \o m = r
  BY <1>3, <1>5, <1>6
<1> QED  BY <1>3, <1>7, Zenon DEF l, m, r

\* A position in the stream of SDUs, and SDU k of end n, of the lengths lens.
Positions == [sdu : Nat, off : Nat]
Message(n, lens, k) == [i \in 1 .. lens[k] |-> <<n, k, i>>]

\* Packet k takes the stream of end n, which has queued q SDUs, from position a to b.
Carries(n, lens, q, k, a, b) ==
    \/ ~k.data /\ b = a
    \/ /\ k.data
       /\ a.sdu \in 1 .. q
       /\ k.begin = (a.off = 0)
       /\ k.cont = ~k.begin
       /\ k.len = lens[a.sdu]
       /\ \/ /\ k.end /\ b = [sdu |-> a.sdu + 1, off |-> 0]
             /\ a.off <= k.len
             /\ k.payload = SubSeq(Message(n, lens, a.sdu), a.off + 1, k.len)
          \/ /\ ~k.end /\ b.sdu = a.sdu /\ a.off < b.off /\ b.off < k.len
             /\ k.payload = SubSeq(Message(n, lens, a.sdu), a.off + 1, b.off)

\* Where the SDUs end p has taken reach to.
ReceiverAt(p) == [sdu |-> Len(received[p]) + 1, off |-> Len(end[p].rxBuf)]

\* The packets on the wire carry the stream of end n on from where the peer has got to.
Stream(n) ==
    LET p == Peer(n)
    IN  \E cur \in [1 .. Len(wire[p]) + 1 -> Positions] :
          /\ closed[p] \notin Errors => cur[1] = ReceiverAt(p)
          /\ cur[Len(wire[p]) + 1] = SenderAt(n)
          /\ \A j \in 1 .. Len(wire[p]) :
               Carries(n, link.sdus[n], end[n].txQueued, wire[p][j], cur[j], cur[j + 1])

\* The peer has taken the SDUs of end n one after the other, and a part of the next.
Gathering(n) ==
    LET p == Peer(n)
        s == end[p]
        k == Len(received[p]) + 1
    IN  /\ Len(received[p]) <= end[n].txQueued
        /\ \A i \in 1 .. Len(received[p]) :
             received[p][i] = Message(n, link.sdus[n], i)
        /\ s.rxLen = None => s.rxBuf = << >>
        /\ s.rxLen # None =>
             /\ k \in 1 .. end[n].txQueued
             /\ s.rxLen = link.sdus[n][k]
             /\ 0 < Len(s.rxBuf) /\ Len(s.rxBuf) < s.rxLen
             /\ s.rxBuf = SubSeq(Message(n, link.sdus[n], k), 1, Len(s.rxBuf))

StreamInv == \A n \in Roles : Stream(n) /\ Gathering(n)

\* A longer queue changes nothing on the wire.
LEMMA CarriesOn ==
    ASSUME NEW n, NEW lens, NEW q \in Nat, NEW r \in Nat, q <= r, NEW k, NEW a, NEW b,
           Carries(n, lens, q, k, a, b)
    PROVE  Carries(n, lens, r, k, a, b)
<1>1. 1 .. q \subseteq 1 .. r
  OBVIOUS
<1> QED  BY <1>1, Zenon DEF Carries

\* Steps in which neither what end n sends nor what its peer takes moves.
LEMMA StreamStays ==
    ASSUME Types, NEW n \in Roles, Stream(n), Gathering(n), link' = link,
           wire'[Peer(n)] = wire[Peer(n)], received'[Peer(n)] = received[Peer(n)],
           end'[Peer(n)].rxLen = end[Peer(n)].rxLen,
           end'[Peer(n)].rxBuf = end[Peer(n)].rxBuf,
           SenderAt(n)' = SenderAt(n),
           end'[n].txQueued \in Nat, end[n].txQueued <= end'[n].txQueued,
           closed'[Peer(n)] \notin Errors => closed[Peer(n)] \notin Errors
    PROVE  Stream(n)' /\ Gathering(n)'
<1> DEFINE p == Peer(n)
           q == end[n].txQueued
<1>1. p \in Roles /\ received[p] \in Seq(Seq(Bytes)) /\ q \in Nat
  BY PeerFacts, Zenon DEF Types, Ends
<1>2. Len(received[p]) \in Nat
  BY <1>1
<1>3. /\ \A i : i \in 1 .. q => i \in 1 .. end'[n].txQueued
      /\ Len(received[p]) <= q => Len(received[p]) <= end'[n].txQueued
  BY <1>1, <1>2
<1>4. Gathering(n)'
  BY <1>3, Zenon DEF Gathering
<1>5. ReceiverAt(p)' = ReceiverAt(p)
  BY Zenon DEF ReceiverAt
<1>6. PICK cur \in [1 .. Len(wire[p]) + 1 -> Positions] :
          /\ closed[p] \notin Errors => cur[1] = ReceiverAt(p)
          /\ cur[Len(wire[p]) + 1] = SenderAt(n)
          /\ \A j \in 1 .. Len(wire[p]) :
               Carries(n, link.sdus[n], q, wire[p][j], cur[j], cur[j + 1])
  BY Zenon DEF Stream
<1>7. \A j \in 1 .. Len(wire[p]) :
         Carries(n, link.sdus[n], end'[n].txQueued, wire[p][j], cur[j], cur[j + 1])
  BY <1>1, <1>6, CarriesOn, Zenon
<1>8. \E c \in [1 .. Len(wire'[p]) + 1 -> Positions] :
          /\ closed'[p] \notin Errors => c[1] = ReceiverAt(p)'
          /\ c[Len(wire'[p]) + 1] = SenderAt(n)'
          /\ \A j \in 1 .. Len(wire'[p]) :
               Carries(n, link'.sdus[n], end'[n].txQueued, wire'[p][j], c[j], c[j + 1])
  BY <1>5, <1>6, <1>7, Zenon
<1>9. Stream(n)'
  BY <1>8, Zenon DEF Stream
<1> QED  BY <1>4, <1>9, Zenon

\* A packet written takes the stream from where the sender was to where it is then.
LEMMA WriteCarries ==
    ASSUME Types, NEW n \in Roles, NEW k \in Packets, Writes(n, k),
           \/ \E upTo \in Nat : CarriesNext(n, k, upTo)
           \/ PlainAck(n, k)
    PROVE  /\ SenderAt(n)' \in Positions
           /\ Carries(n, link.sdus[n], end[n].txQueued, k, SenderAt(n), SenderAt(n)')
<1> DEFINE e == end[n]
           f == end'[n]
           q == e.txQueued
           lens == link.sdus[n]
<1>1. /\ e \in Ends /\ f \in Ends /\ f.txQueued = q
  <2>1. e \in Ends /\ f \in Ends
    BY Zenon DEF Types, Writes
  <2>2. Depart(TakeAck(e)).txQueued = q
    BY <2>1, DepartFacts, Zenon DEF Writes
  <2> QED  BY <2>1, <2>2, Zenon DEF Writes
<1>2. /\ q \in Nat /\ e.txMsg \in Nat \union {None} /\ e.txSent \in Nat
      /\ f.txMsg \in Nat \union {None} /\ f.txSent \in Nat
  BY <1>1, Zenon DEF Ends
<1>3. q + 1 \in Nat /\ 0 \in Nat
  BY <1>2
<1>4. SenderAt(n)' \in Positions
  <2>1. \A a, b \in Nat : [sdu |-> a, off |-> b] \in Positions
    BY Zenon DEF Positions
  <2>2. f.txMsg # None => f.txMsg \in Nat
    BY <1>2, Zenon
  <2> QED  BY <1>1, <1>2, <1>3, <2>1, <2>2, Zenon DEF SenderAt
<1>5. CASE PlainAck(n, k)
  <2>1. SenderAt(n)' = SenderAt(n)
    BY <1>1, <1>5, Zenon DEF SenderAt, PlainAck
  <2> QED  BY <1>4, <1>5, <2>1, Zenon DEF Carries, PlainAck
<1>6. ASSUME NEW upTo \in Nat, CarriesNext(n, k, upTo)
      PROVE  Carries(n, lens, q, k, SenderAt(n), SenderAt(n)')
  <2> DEFINE a == [sdu |-> e.txMsg, off |-> e.txSent]
  <2>1. /\ e.txMsg # None /\ k.data /\ k.begin = (e.txSent = 0) /\ k.cont = ~k.begin
        /\ k.len = lens[e.txMsg]
        /\ k.payload = SubSeq(Message(n, lens, e.txMsg), e.txSent + 1, upTo)
    BY <1>6, Zenon DEF CarriesNext, Sdu, Message
  <2>2. SenderAt(n) = a
    BY <2>1, Zenon DEF SenderAt
  <2>3. a.sdu = e.txMsg /\ a.off = e.txSent
    BY Zenon
  <2>4. /\ e.txMsg = q /\ e.txMsg # 0
        /\ e.txSent = 0 \/ e.txSent < lens[e.txMsg]
        /\ q <= Len(lens)
    BY <2>1, Zenon DEF Types, Sending
  <2>5. lens \in Seq(Nat)
    BY Zenon DEF Types, Settings, Roles
  <2>6. /\ e.txMsg \in 1 .. q /\ lens[e.txMsg] \in Nat
    <3>0. Len(lens) \in Nat
      BY <2>5
    <3>1. Len(lens) \in Nat /\ q # 0 /\ q <= Len(lens)
      BY <2>4, <3>0, Zenon
    <3>2. q \in 1 .. q /\ q \in 1 .. Len(lens)
      BY <1>2, <3>1
    <3>3. lens[q] \in Nat
      BY <2>5, <3>2
    <3> QED  BY <2>4, <3>2, <3>3, Zenon
  <2>7. e.txSent <= k.len
    BY <1>2, <2>1, <2>4, <2>6
  <2>8. CASE k.end
    <3>1. upTo = k.len /\ f.txMsg = None
      BY <1>6, <2>8, Zenon DEF CarriesNext
    <3>2. SenderAt(n)' = [sdu |-> e.txMsg + 1, off |-> 0]
      BY <1>1, <2>4, <3>1, Zenon DEF SenderAt
    <3>3. Carries(n, lens, q, k, a, [sdu |-> e.txMsg + 1, off |-> 0])
      BY <2>1, <2>3, <2>6, <2>7, <2>8, <3>1, Zenon DEF Carries
    <3> QED  BY <2>2, <3>2, <3>3, Zenon
  <2>9. CASE ~k.end
    <3> DEFINE b == [sdu |-> e.txMsg, off |-> upTo]
    <3>1. /\ e.txSent < upTo /\ upTo < k.len /\ f.txMsg = e.txMsg /\ f.txSent = upTo
      BY <1>6, <2>9, Zenon DEF CarriesNext
    <3>2. SenderAt(n)' = b
      BY <2>1, <3>1, Zenon DEF SenderAt
    <3>3. b.sdu = e.txMsg /\ b.off = upTo
      BY Zenon
    <3>4. Carries(n, lens, q, k, a, b)
      <4> HIDE DEF a, b
      <4> QED  BY <2>1, <2>3, <2>6, <2>9, <3>1, <3>3, Zenon DEF Carries
    <3> QED  BY <2>2, <3>2, <3>4, Zenon
  <2> QED  BY <2>8, <2>9, Zenon
<1> QED  BY <1>4, <1>5, <1>6, Zenon

\* The stream of the end that writes a packet.
LEMMA StreamGrows ==
    ASSUME Types, NEW n \in Roles, NEW k \in Packets, Writes(n, k),
           \/ \E upTo \in Nat : CarriesNext(n, k, upTo)
           \/ PlainAck(n, k),
           Stream(n), Gathering(n)
    PROVE  Stream(n)' /\ Gathering(n)'
<1> DEFINE p == Peer(n)
           w == wire[p]
           q == end[n].txQueued
           lens == link.sdus[n]
<1>1. /\ p \in Roles /\ p # n /\ w \in Seq(Packets) /\ end[n] \in Ends
  BY PeerFacts, Zenon DEF Types
<1>2. /\ wire'[p] = Append(w, k) /\ closed' = closed /\ link' = link
      /\ received' = received /\ end'[p] = end[p]
  BY <1>1, Zenon DEF Writes, Types
<1>3. end'[n].txQueued = q
  <2>1. Depart(TakeAck(end[n])).txQueued = q
    BY <1>1, DepartFacts, Zenon DEF Writes
  <2> QED  BY <2>1, Zenon DEF Writes
<1>4. Gathering(n)'
  BY <1>2, <1>3, Zenon DEF Gathering
<1>5. ReceiverAt(p)' = ReceiverAt(p)
  BY <1>2, Zenon DEF ReceiverAt
<1>6. PICK cur \in [1 .. Len(w) + 1 -> Positions] :
          /\ closed[p] \notin Errors => cur[1] = ReceiverAt(p)
          /\ cur[Len(w) + 1] = SenderAt(n)
          /\ \A j \in 1 .. Len(w) :
               Carries(n, lens, q, w[j], cur[j], cur[j + 1])
  BY Zenon DEF Stream
<1>7. /\ SenderAt(n)' \in Positions
      /\ Carries(n, lens, q, k, SenderAt(n), SenderAt(n)')
  BY WriteCarries, Zenon
<1> DEFINE c == [j \in 1 .. Len(w) + 2 |->
                   IF j \in 1 .. Len(w) + 1 THEN cur[j] ELSE SenderAt(n)']
<1>8. /\ Len(w) \in Nat /\ Len(Append(w, k)) = Len(w) + 1
      /\ Append(w, k)[Len(w) + 1] = k
      /\ \A j \in 1 .. Len(w) : Append(w, k)[j] = w[j]
  BY <1>1
<1>9. /\ Len(Append(w, k)) + 1 = Len(w) + 2 /\ (Len(w) + 1) + 1 = Len(w) + 2
      /\ Len(w) + 2 \in 1 .. Len(w) + 2 /\ Len(w) + 2 \notin 1 .. Len(w) + 1
      /\ 1 \in 1 .. Len(w) + 1 /\ Len(w) + 1 \in 1 .. Len(w) + 1
      /\ 1 .. Len(w) + 1 \subseteq 1 .. Len(w) + 2
      /\ \A j \in 1 .. Len(Append(w, k)) : j \in 1 .. Len(w) \/ j = Len(w) + 1
      /\ \A j \in 1 .. Len(w) : j \in 1 .. Len(w) + 1 /\ j + 1 \in 1 .. Len(w) + 1
  BY <1>8
<1>10. /\ c \in [1 .. Len(w) + 2 -> Positions]
       /\ c[Len(w) + 2] = SenderAt(n)'
       /\ \A j \in 1 .. Len(w) + 1 : c[j] = cur[j]
  BY <1>6, <1>7, <1>9, Zenon
<1> HIDE DEF c
<1>11. ASSUME NEW j \in 1 .. Len(Append(w, k))
       PROVE  Carries(n, lens, q, Append(w, k)[j], c[j], c[j + 1])
  <2>1. CASE j \in 1 .. Len(w)
    <3>1. c[j] = cur[j] /\ c[j + 1] = cur[j + 1] /\ Append(w, k)[j] = w[j]
      BY <1>8, <1>9, <1>10, <2>1, Zenon
    <3> QED  BY <1>6, <2>1, <3>1, Zenon
  <2>2. CASE j = Len(w) + 1
    <3>1. c[Len(w) + 1] = SenderAt(n) /\ c[(Len(w) + 1) + 1] = SenderAt(n)'
      BY <1>6, <1>9, <1>10, Zenon
    <3> QED  BY <1>7, <1>8, <2>2, <3>1, Zenon
  <2> QED  BY <1>9, <2>1, <2>2, Zenon
<1>12. \E d \in [1 .. Len(wire'[p]) + 1 -> Positions] :
          /\ closed'[p] \notin Errors => d[1] = ReceiverAt(p)'
          /\ d[Len(wire'[p]) + 1] = SenderAt(n)'
          /\ \A j \in 1 .. Len(wire'[p]) :
               Carries(n, link'.sdus[n], end'[n].txQueued, wire'[p][j], d[j], d[j + 1])
  <2>1. c \in [1 .. Len(wire'[p]) + 1 -> Positions]
    BY <1>2, <1>9, <1>10, Zenon
  <2>2. closed'[p] \notin Errors => c[1] = ReceiverAt(p)'
    BY <1>2, <1>5, <1>6, <1>9, <1>10, Zenon
  <2>3. c[Len(wire'[p]) + 1] = SenderAt(n)'
    BY <1>2, <1>9, <1>10, Zenon
  <2>4. \A j \in 1 .. Len(wire'[p]) :
          Carries(n, link'.sdus[n], end'[n].txQueued, wire'[p][j], c[j], c[j + 1])
    BY <1>2, <1>3, <1>11, Zenon
  <2> QED  BY <2>1, <2>2, <2>3, <2>4, Zenon
<1>13. Stream(n)'
  BY <1>12, Zenon DEF Stream
<1> QED  BY <1>4, <1>13, Zenon

\* The SDUs as the stream has them.
LEMMA MessageFacts ==
    ASSUME Types, NEW n \in Roles, NEW x \in 1 .. end[n].txQueued
    PROVE  /\ x \in 1 .. Len(link.sdus[n]) /\ link.sdus[n][x] \in Nat
           /\ Message(n, link.sdus[n], x) \in Seq(Bytes)
           /\ Len(Message(n, link.sdus[n], x)) = link.sdus[n][x]
           /\ Message(n, link.sdus[n], x) = Sdu(n, x)
<1>1. link.sdus[n] \in Seq(Nat) /\ end[n] \in Ends
  BY Zenon DEF Types, Settings, Roles
<1>2. end[n].txQueued \in Nat /\ end[n].txQueued <= Len(link.sdus[n])
  BY <1>1, Zenon DEF Types, Sending, Ends
<1>3. Len(link.sdus[n]) \in Nat
  BY <1>1
<1>4. x \in 1 .. Len(link.sdus[n])
  BY <1>2, <1>3
<1>5. Message(n, link.sdus[n], x) = Sdu(n, x)
  BY Zenon DEF Message, Sdu
<1> QED  BY <1>4, <1>5, SduFacts, Zenon

\* A data packet that carries the stream on from where the receiver has got to begins an
\* SDU exactly when none is under way, and what is then gathered is the front of that SDU.
LEMMA TakenFacts ==
    ASSUME Types, NEW n \in Roles, Gathering(n), NEW k \in Packets, NEW b \in Positions,
           k.data,
           Carries(n, link.sdus[n], end[n].txQueued, k, ReceiverAt(Peer(n)), b)
    PROVE  LET s    == end[Peer(n)]
               x    == Len(received[Peer(n)]) + 1
               m    == Message(n, link.sdus[n], x)
               upTo == IF k.end THEN k.len ELSE b.off
           IN  /\ x \in 1 .. end[n].txQueued /\ k.len = link.sdus[n][x]
               /\ upTo \in Nat /\ upTo <= k.len
               /\ k.begin = (s.rxLen = None) /\ k.cont = ~k.begin
               /\ s.rxLen # None => s.rxLen = k.len
               /\ Gathered(s, k) = SubSeq(m, 1, upTo)
               /\ Len(Gathered(s, k)) = upTo
<1> DEFINE p    == Peer(n)
           s    == end[p]
           x    == Len(received[p]) + 1
           lens == link.sdus[n]
           m    == Message(n, lens, x)
           upTo == IF k.end THEN k.len ELSE b.off
           off  == Len(s.rxBuf)
           a    == ReceiverAt(p)
<1>1. a.sdu = x /\ a.off = off
  BY Zenon DEF ReceiverAt
<1>2. /\ x \in 1 .. end[n].txQueued /\ k.len = lens[x]
      /\ k.begin = (off = 0) /\ k.cont = ~k.begin
  BY <1>1, Zenon DEF Carries
<1>3. /\ k.end => off <= k.len /\ k.payload = SubSeq(m, off + 1, k.len)
      /\ ~k.end => off < b.off /\ b.off < k.len /\ k.payload = SubSeq(m, off + 1, b.off)
  BY <1>1, Zenon DEF Carries
<1>4. /\ lens[x] \in Nat /\ m \in Seq(Bytes) /\ Len(m) = lens[x]
  BY <1>2, MessageFacts, Zenon
<1>5. b.off \in Nat /\ p \in Roles /\ s \in Ends
  BY PeerFacts, Zenon DEF Positions, Types
<1>6. s.rxBuf \in Seq(Bytes)
  BY <1>5, Zenon DEF Ends
<1>7. off \in Nat
  BY <1>6
<1>8. /\ upTo \in Nat /\ upTo <= k.len /\ off <= upTo /\ k.payload = SubSeq(m, off + 1, upTo)
  <2>1. CASE k.end
    <3>1. k.len \in Nat /\ k.len <= k.len
      BY <1>2, <1>4
    <3> QED  BY <1>3, <2>1, <3>1, Zenon
  <2>2. CASE ~k.end
    <3>0. off < b.off /\ b.off < k.len /\ k.len \in Nat
      BY <1>2, <1>3, <1>4, <2>2, Zenon
    <3>1. b.off <= k.len /\ off <= b.off
      <4> HIDE DEF off
      <4> QED  BY <1>5, <1>7, <3>0
    <3> QED  BY <1>3, <1>5, <2>2, <3>1, Zenon
  <2> QED  BY <2>1, <2>2, Zenon
<1>9. SubSeq(m, 1, off) \o SubSeq(m, off + 1, upTo) = SubSeq(m, 1, upTo)
      /\ Len(SubSeq(m, 1, upTo)) = upTo
  <2>1. upTo <= Len(m)
    BY <1>2, <1>4, <1>8, Zenon
  <2>2. upTo \in Nat /\ off <= upTo /\ m \in Seq(Bytes)
    BY <1>4, <1>8, Zenon
  <2> HIDE DEF upTo, off, m
  <2> QED  BY <1>7, <2>1, <2>2, PiecesJoin, Zenon
<1>10. CASE s.rxLen = None
  <2>1. s.rxBuf = << >>
    BY <1>10, Zenon DEF Gathering
  <2>2. off = 0 /\ off + 1 = 1
    BY <2>1
  <2>3. Gathered(s, k) = SubSeq(m, 1, upTo)
    BY <1>8, <1>10, <2>2, Zenon DEF Gathered
  <2> QED  BY <1>2, <1>8, <1>9, <1>10, <2>2, <2>3, Zenon
<1>11. CASE s.rxLen # None
  <2>1. /\ s.rxLen = lens[x] /\ 0 < off /\ s.rxBuf = SubSeq(m, 1, off)
    BY <1>11, Zenon DEF Gathering
  <2>2. off # 0
    BY <1>7, <2>1
  <2>3. Gathered(s, k) = SubSeq(m, 1, upTo)
    <3>1. Gathered(s, k) = s.rxBuf \o k.payload
      BY <1>11, Zenon DEF Gathered
    <3> HIDE DEF upTo, off
    <3> QED  BY <1>8, <1>9, <2>1, <3>1, Zenon
  <2> QED  BY <1>2, <1>8, <1>9, <1>11, <2>1, <2>2, <2>3, Zenon
<1> QED  BY <1>10, <1>11, Zenon

\* The head of the wire carries the stream on from where the receiver is.
LEMMA HeadCarries ==
    ASSUME Types, NEW n \in Roles, Stream(n), wire[Peer(n)] # << >>,
           closed[Peer(n)] = "open"
    PROVE  \E cur \in [1 .. Len(wire[Peer(n)]) + 1 -> Positions] :
             /\ cur[Len(wire[Peer(n)]) + 1] = SenderAt(n)
             /\ \A j \in 1 .. Len(wire[Peer(n)]) :
                  Carries(n, link.sdus[n], end[n].txQueued, wire[Peer(n)][j],
                          cur[j], cur[j + 1])
             /\ cur[1 + 1] \in Positions
             /\ Carries(n, link.sdus[n], end[n].txQueued, Head(wire[Peer(n)]),
                        ReceiverAt(Peer(n)), cur[1 + 1])
<1> DEFINE p == Peer(n)
<1>1. PICK cur \in [1 .. Len(wire[p]) + 1 -> Positions] :
          /\ closed[p] \notin Errors => cur[1] = ReceiverAt(p)
          /\ cur[Len(wire[p]) + 1] = SenderAt(n)
          /\ \A j \in 1 .. Len(wire[p]) :
               Carries(n, link.sdus[n], end[n].txQueued, wire[p][j], cur[j], cur[j + 1])
  BY Zenon DEF Stream
<1>2. wire[p] \in Seq(Packets)
  BY PeerFacts, Zenon DEF Types
<1>3. /\ Head(wire[p]) = wire[p][1] /\ 1 \in 1 .. Len(wire[p])
      /\ 1 + 1 \in 1 .. Len(wire[p]) + 1
  BY <1>2
<1>4. "open" \notin Errors
  BY Zenon DEF Errors
<1>5. /\ cur[1 + 1] \in Positions
      /\ Carries(n, link.sdus[n], end[n].txQueued, Head(wire[p]), ReceiverAt(p), cur[1 + 1])
  BY <1>1, <1>3, <1>4, Zenon
<1> QED  BY <1>1, <1>5, Zenon

\* on_indication takes the packet at hand, unless its SDU is beyond the reassembly cap.
LEMMA VerdictFacts ==
    ASSUME Types, LinkInv, NEW n \in Roles, Stream(n), Gathering(n), NEW k \in Packets,
           closed[Peer(n)] = "open", wire[Peer(n)] # << >>, k = Head(wire[Peer(n)]),
           Verdict(end[Peer(n)], k) # "open"
    PROVE  /\ Verdict(end[Peer(n)], k) = "ReassemblyOverflow"
           /\ \E x \in 1 .. Len(link.sdus[n]) : link.sdus[n][x] > link.rxCap
<1> DEFINE p == Peer(n)
           s == end[p]
           x == Len(received[p]) + 1
           lens == link.sdus[n]
<1>1. p \in Roles /\ Peer(p) = n
  BY PeerFacts, Zenon
<1>2. k.seq = s.rxNext /\ (k.ack # None => ValidAck(s, k.ack))
  BY <1>1, ExpectedPacket, Zenon
<1>3. PICK cur \in [1 .. Len(wire[p]) + 1 -> Positions] :
          /\ cur[1 + 1] \in Positions
          /\ Carries(n, lens, end[n].txQueued, Head(wire[p]), ReceiverAt(p), cur[1 + 1])
  BY HeadCarries, Zenon
<1>7. /\ cur[1 + 1] \in Positions
      /\ Carries(n, lens, end[n].txQueued, k, ReceiverAt(p), cur[1 + 1])
  BY <1>3, Zenon
<1>8. k.data
  BY <1>2, Zenon DEF Verdict
<1> DEFINE upTo == IF k.end THEN k.len ELSE cur[1 + 1].off
<1>9. /\ x \in 1 .. end[n].txQueued /\ k.len = lens[x]
      /\ upTo \in Nat /\ upTo <= k.len
      /\ k.begin = (s.rxLen = None) /\ k.cont = ~k.begin
      /\ s.rxLen # None => s.rxLen = k.len
      /\ Len(Gathered(s, k)) = upTo
  BY <1>7, <1>8, TakenFacts, Zenon
<1>10. x \in 1 .. Len(lens) /\ lens[x] \in Nat
  BY <1>9, MessageFacts, Zenon
<1>11. link.rxCap \in Nat
  BY Zenon DEF Types, Settings
<1>12. ~(k.end /\ Len(Gathered(s, k)) < k.len)
  <2>1. k.end => Len(Gathered(s, k)) = k.len
    BY <1>9, Zenon
  <2> QED  BY <1>9, <1>10, <2>1
<1>13. /\ Verdict(s, k) = "ReassemblyOverflow"
       /\ \/ k.len > link.rxCap
          \/ Len(Gathered(s, k)) > link.rxCap
  BY <1>2, <1>8, <1>9, <1>12, Zenon DEF Verdict
<1>14. lens[x] > link.rxCap
  <2> HIDE DEF upTo, x, lens
  <2> QED  BY <1>9, <1>10, <1>11, <1>13
<1> QED  BY <1>10, <1>13, <1>14, Zenon

\* The wire loses its first packet.
LEMMA StreamShifts ==
    ASSUME Types, NEW n \in Roles, NEW cur \in [1 .. Len(wire[Peer(n)]) + 1 -> Positions],
           cur[Len(wire[Peer(n)]) + 1] = SenderAt(n),
           \A j \in 1 .. Len(wire[Peer(n)]) :
             Carries(n, link.sdus[n], end[n].txQueued, wire[Peer(n)][j], cur[j], cur[j + 1]),
           wire[Peer(n)] # << >>, wire'[Peer(n)] = Tail(wire[Peer(n)]),
           link' = link, end'[n] = end[n],
           closed'[Peer(n)] \notin Errors => ReceiverAt(Peer(n))' = cur[1 + 1]
    PROVE  Stream(n)'
<1> DEFINE p == Peer(n)
           w == wire[p]
           v == Tail(w)
           c == [j \in 1 .. Len(w) |-> cur[j + 1]]
<1>1. w \in Seq(Packets)
  BY PeerFacts, Zenon DEF Types
<1>2. /\ Len(w) \in Nat \ {0} /\ Len(v) = Len(w) - 1
      /\ \A j \in 1 .. Len(w) - 1 : v[j] = w[j + 1]
  BY <1>1
<1>3. /\ Len(v) + 1 = Len(w) /\ 1 \in 1 .. Len(w) /\ Len(w) \in 1 .. Len(w)
      /\ \A j \in 1 .. Len(w) : j + 1 \in 1 .. Len(w) + 1
      /\ \A j \in 1 .. Len(w) - 1 : j \in 1 .. Len(w) /\ j + 1 \in 1 .. Len(w)
  BY <1>2
<1>4. /\ c \in [1 .. Len(w) -> Positions]
      /\ \A j \in 1 .. Len(w) : c[j] = cur[j + 1]
  BY <1>3, Zenon
<1> HIDE DEF c
<1>5. ASSUME NEW j \in 1 .. Len(v)
      PROVE  Carries(n, link.sdus[n], end[n].txQueued, v[j], c[j], c[j + 1])
  <2>1. j \in 1 .. Len(w) - 1
    BY <1>2, Zenon
  <2>2. v[j] = w[j + 1] /\ c[j] = cur[j + 1] /\ c[j + 1] = cur[(j + 1) + 1]
    BY <1>2, <1>3, <1>4, <2>1, Zenon
  <2>3. j + 1 \in 1 .. Len(w)
    BY <1>3, <2>1, Zenon
  <2> QED  BY <2>2, <2>3, Zenon
<1>6. SenderAt(n)' = SenderAt(n)
  BY Zenon DEF SenderAt
<1>7. \E d \in [1 .. Len(wire'[p]) + 1 -> Positions] :
          /\ closed'[p] \notin Errors => d[1] = ReceiverAt(p)'
          /\ d[Len(wire'[p]) + 1] = SenderAt(n)'
          /\ \A j \in 1 .. Len(wire'[p]) :
               Carries(n, link'.sdus[n], end'[n].txQueued, wire'[p][j], d[j], d[j + 1])
  <2>1. c \in [1 .. Len(wire'[p]) + 1 -> Positions]
    BY <1>3, <1>4, Zenon
  <2>2. closed'[p] \notin Errors => c[1] = ReceiverAt(p)'
    BY <1>3, <1>4, Zenon
  <2>3. c[Len(wire'[p]) + 1] = SenderAt(n)'
    BY <1>3, <1>4, <1>6, Zenon
  <2>4. \A j \in 1 .. Len(wire'[p]) :
          Carries(n, link'.sdus[n], end'[n].txQueued, wire'[p][j], c[j], c[j + 1])
    BY <1>5, Zenon
  <2> QED  BY <2>1, <2>2, <2>3, <2>4, Zenon
<1> QED  BY <1>7, Zenon DEF Stream

\* The receiver takes a packet, and is where that packet takes the stream.
LEMMA StreamTaken ==
    ASSUME Types, NEW n \in Roles, Gathering(n), NEW k, Reads(Peer(n), k),
           NEW b \in Positions,
           Carries(n, link.sdus[n], end[n].txQueued, k, ReceiverAt(Peer(n)), b)
    PROVE  /\ Gathering(n)'
           /\ ReceiverAt(Peer(n))' = b
<1> DEFINE p    == Peer(n)
           s    == end[p]
           f    == end'[p]
           g    == received[p]
           x    == Len(g) + 1
           lens == link.sdus[n]
           m    == Message(n, lens, x)
           upTo == IF k.end THEN k.len ELSE b.off
           len  == IF s.rxLen = None THEN k.len ELSE s.rxLen
<1>1. p \in Roles /\ p # n /\ Peer(p) = n
  BY PeerFacts, Zenon
<1>2. /\ k \in Packets /\ end'[n] = end[n] /\ link' = link
      /\ g \in Seq(Seq(Bytes)) /\ f \in Ends /\ s \in Ends
  BY <1>1, Zenon DEF Reads, Types
<1>3. received'[p] = IF k.data /\ k.end THEN Append(g, SubSeq(Gathered(s, k), 1, len)) ELSE g
  BY <1>1, Zenon DEF Reads, Types
<1>4. Len(g) \in Nat
  BY <1>2
<1>5. /\ Len(g) <= end[n].txQueued
      /\ \A i \in 1 .. Len(g) : g[i] = Message(n, lens, i)
      /\ s.rxLen = None => s.rxBuf = << >>
      /\ s.rxLen # None =>
           /\ x \in 1 .. end[n].txQueued
           /\ s.rxLen = lens[x]
           /\ 0 < Len(s.rxBuf) /\ Len(s.rxBuf) < s.rxLen
           /\ s.rxBuf = SubSeq(m, 1, Len(s.rxBuf))
  BY Zenon DEF Gathering
<1>6. CASE ~k.data
  <2>1. f.rxLen = s.rxLen /\ f.rxBuf = s.rxBuf /\ received'[p] = g
    BY <1>3, <1>6, Zenon DEF Reads
  <2>2. b = ReceiverAt(p)
    BY <1>6, Zenon DEF Carries
  <2>3. ReceiverAt(p)' = ReceiverAt(p)
    BY <2>1, Zenon DEF ReceiverAt
  <2>4. Gathering(n)'
    BY <1>2, <1>5, <2>1, Zenon DEF Gathering
  <2> QED  BY <2>2, <2>3, <2>4, Zenon
<1>7. CASE k.data
  <2>1. /\ x \in 1 .. end[n].txQueued /\ k.len = lens[x]
        /\ upTo \in Nat /\ upTo <= k.len
        /\ s.rxLen # None => s.rxLen = k.len
        /\ Gathered(s, k) = SubSeq(m, 1, upTo)
        /\ Len(Gathered(s, k)) = upTo
    BY <1>2, <1>7, TakenFacts, Zenon
  <2>2. len = k.len
    BY <2>1, Zenon
  <2>3. m \in Seq(Bytes) /\ Len(m) = lens[x] /\ lens[x] \in Nat
    BY <2>1, MessageFacts, Zenon
  <2>4. ReceiverAt(p).sdu = x /\ ReceiverAt(p).off = Len(s.rxBuf)
    BY Zenon DEF ReceiverAt
  <2>5. CASE k.end
    <3>1. f.rxLen = None /\ f.rxBuf = << >>
      BY <1>7, <2>5, Zenon DEF Reads
    <3>2. SubSeq(Gathered(s, k), 1, len) = m
      <4>1. SubSeq(m, 1, Len(m)) = m
        <5> HIDE DEF m
        <5> QED  BY <2>3
      <4>2. upTo = Len(m) /\ len = Len(m)
        BY <2>1, <2>2, <2>3, <2>5, Zenon
      <4> QED  BY <2>1, <4>1, <4>2, Zenon
    <3>3. received'[p] = Append(g, m)
      <4>1. received'[p] = Append(g, SubSeq(Gathered(s, k), 1, len))
        BY <1>3, <1>7, <2>5, Zenon
      <4> HIDE DEF g, m, s, len
      <4> QED  BY <3>2, <4>1, Zenon
    <3>4. /\ Len(Append(g, m)) = x /\ Append(g, m)[x] = m
          /\ \A i \in 1 .. Len(g) : Append(g, m)[i] = g[i]
          /\ \A i \in 1 .. x : i \in 1 .. Len(g) \/ i = x
      <4> HIDE DEF m
      <4> QED  BY <1>2, <1>4, <2>3
    <3>5. b = [sdu |-> x + 1, off |-> 0]
      BY <1>7, <2>4, <2>5, Zenon DEF Carries
    <3>6. Len(<< >>) = 0
      BY Zenon
    <3>7. ReceiverAt(p)' = b
      <4>1. Len(received'[p]) = x /\ Len(f.rxBuf) = 0
        BY <3>1, <3>3, <3>4, <3>6, Zenon
      <4>2. ReceiverAt(p)' = [sdu |-> Len(received'[p]) + 1, off |-> Len(f.rxBuf)]
        BY Zenon DEF ReceiverAt
      <4> HIDE DEF x, f
      <4> QED  BY <3>5, <4>1, <4>2, Zenon
    <3>8. x <= end[n].txQueued
      BY <1>4, <2>1
    <3>9. \A i \in 1 .. x : Append(g, m)[i] = Message(n, lens, i)
      BY <1>5, <3>4, Zenon
    <3>10. Gathering(n)'
      BY <1>2, <3>1, <3>3, <3>4, <3>8, <3>9, Zenon DEF Gathering
    <3> QED  BY <3>7, <3>10, Zenon
  <2>6. CASE ~k.end
    <3>1. f.rxLen = len /\ f.rxBuf = Gathered(s, k) /\ received'[p] = g
      BY <1>3, <1>7, <2>6, Zenon DEF Reads
    <3>2. b.sdu = x /\ Len(s.rxBuf) < b.off /\ b.off < k.len
      BY <1>7, <2>4, <2>6, Zenon DEF Carries
    <3>3. b = [sdu |-> b.sdu, off |-> b.off] /\ b.off \in Nat
      BY Zenon DEF Positions
    <3>4. upTo = b.off
      BY <2>6, Zenon
    <3>5. ReceiverAt(p)' = b
      <4>1. Len(received'[p]) + 1 = b.sdu /\ Len(f.rxBuf) = b.off
        BY <2>1, <3>1, <3>2, <3>4, Zenon
      <4>2. ReceiverAt(p)' = [sdu |-> Len(received'[p]) + 1, off |-> Len(f.rxBuf)]
        BY Zenon DEF ReceiverAt
      <4> HIDE DEF f
      <4> QED  BY <3>3, <4>1, <4>2, Zenon
    <3>6. k.len # None
      <4>1. k.len \in Nat
        BY <2>1, <2>3, Zenon
      <4> QED  BY <4>1 DEF None
    <3>7. 0 < b.off
      <4>1. Len(s.rxBuf) \in Nat
        <5>1. s.rxBuf \in Seq(Bytes)
          BY <1>2, Zenon DEF Ends
        <5> QED  BY <5>1
      <4> QED  BY <3>2, <3>3, <4>1
    <3>8. Len(f.rxBuf) = b.off /\ f.rxLen = k.len /\ f.rxBuf = SubSeq(m, 1, b.off)
      BY <2>1, <2>2, <3>1, <3>4, Zenon
    <3>9. Gathering(n)'
      BY <1>2, <1>5, <2>1, <3>1, <3>2, <3>6, <3>7, <3>8, Zenon DEF Gathering
    <3> QED  BY <3>5, <3>9, Zenon
  <2> QED  BY <2>5, <2>6, Zenon
<1> QED  BY <1>6, <1>7, Zenon

\* Neither end has sent anything.
LEMMA StreamInit == Init => StreamInv
<1> SUFFICES ASSUME Init, NEW n \in Roles PROVE Stream(n) /\ Gathering(n)
  BY Zenon DEF StreamInv
<1> DEFINE p == Peer(n)
<1>1. p \in Roles /\ Types
  BY PeerFacts, TypesInit, Zenon
<1>2. wire[p] = << >> /\ received[p] = << >> /\ end[p] = NewEnd(p) /\ end[n] = NewEnd(n)
  BY <1>1, Zenon DEF Init
<1>3. /\ end[p].rxLen = None /\ end[p].rxBuf = << >>
      /\ end[n].txMsg = None /\ end[n].txQueued = 0
  BY <1>2 DEF NewEnd
<1>4. Gathering(n)
  BY <1>2, <1>3 DEF Gathering
<1>5. ReceiverAt(p) = [sdu |-> 1, off |-> 0] /\ SenderAt(n) = [sdu |-> 1, off |-> 0]
  BY <1>2, <1>3 DEF ReceiverAt, SenderAt
<1> DEFINE c == [j \in 1 .. 1 |-> [sdu |-> 1, off |-> 0]]
<1>6. /\ Len(wire[p]) + 1 = 1 /\ 1 \in 1 .. 1 /\ \A j \in 1 .. Len(wire[p]) : FALSE
      /\ [sdu |-> 1, off |-> 0] \in Positions
  BY <1>2 DEF Positions
<1>7. c \in [1 .. 1 -> Positions] /\ c[1] = [sdu |-> 1, off |-> 0]
  BY <1>6, Zenon
<1>8. Stream(n)
  BY <1>5, <1>6, <1>7, Zenon DEF Stream
<1> QED  BY <1>4, <1>8, Zenon

\* Each step, in either direction.
LEMMA StreamStep == Types /\ LinkInv /\ StreamInv /\ [Next]_vars => StreamInv'
<1> SUFFICES ASSUME Types, LinkInv, StreamInv, [Next]_vars,
                    NEW n \in Roles
             PROVE  Stream(n)' /\ Gathering(n)'
  BY Zenon DEF StreamInv
<1> DEFINE p == Peer(n)
<1>1. /\ Stream(n) /\ Gathering(n) /\ p \in Roles /\ p # n /\ Peer(p) = n
      /\ \A m \in Roles : m = n \/ m = p
  BY PeerFacts, Zenon DEF StreamInv
<1>2. /\ end[n].txQueued \in Nat
      /\ end[n].txQueued <= end[n].txQueued
  <2>1. end[n].txQueued \in Nat
    BY Zenon DEF Types, Ends
  <2> QED  BY <2>1
<1>3. CASE Quiet
  <2>1. /\ wire' = wire /\ received' = received /\ link' = link
        /\ end'[p].rxLen = end[p].rxLen /\ end'[p].rxBuf = end[p].rxBuf
        /\ SenderAt(n)' = SenderAt(n)
        /\ end[n].txQueued <= end'[n].txQueued /\ end' \in [Roles -> Ends]
        /\ closed'[p] \notin Errors => closed[p] \notin Errors
    BY <1>1, <1>3, Zenon DEF Quiet
  <2>2. end'[n].txQueued \in Nat
    BY <2>1, Zenon DEF Ends
  <2> QED  BY <1>1, <2>1, <2>2, StreamStays, Zenon
<1>4. ASSUME NEW k \in Packets, Writes(n, k),
             \/ \E upTo \in Nat : CarriesNext(n, k, upTo)
             \/ PlainAck(n, k)
      PROVE  Stream(n)' /\ Gathering(n)'
  BY <1>1, <1>4, StreamGrows, Zenon
<1>5. ASSUME NEW k \in Packets, Writes(p, k)
      PROVE  Stream(n)' /\ Gathering(n)'
  <2>1. /\ wire'[p] = wire[p] /\ received' = received /\ link' = link
        /\ end'[n] = end[n] /\ closed' = closed
    BY <1>1, <1>5, Zenon DEF Writes, Types
  <2>2. end'[p].rxLen = end[p].rxLen /\ end'[p].rxBuf = end[p].rxBuf
    <3>1. end[p] \in Ends /\ end[p].remoteWin # 0
      BY <1>1, <1>5, Zenon DEF Writes, Types
    <3>2. /\ Depart(TakeAck(end[p])).rxLen = end[p].rxLen
          /\ Depart(TakeAck(end[p])).rxBuf = end[p].rxBuf
      BY <3>1, DepartFacts, Zenon
    <3> QED  BY <1>5, <3>2, Zenon DEF Writes
  <2>3. SenderAt(n)' = SenderAt(n) /\ end'[n].txQueued = end[n].txQueued
    BY <2>1, Zenon DEF SenderAt
  <2> QED  BY <1>1, <1>2, <2>1, <2>2, <2>3, StreamStays, Zenon
<1>6. ASSUME NEW k \in Packets, Reads(n, k) \/ Rejects(n, k)
      PROVE  Stream(n)' /\ Gathering(n)'
  <2>1. /\ wire'[p] = wire[p] /\ received'[p] = received[p] /\ link' = link
        /\ end'[p] = end[p] /\ closed'[p] = closed[p]
    BY <1>1, <1>6, Zenon DEF Reads, Rejects, Types
  <2>2. SenderAt(n)' = SenderAt(n) /\ end'[n].txQueued = end[n].txQueued
    BY <1>6, Zenon DEF SenderAt, Reads, Rejects
  <2> QED  BY <1>1, <1>2, <2>1, <2>2, StreamStays, Zenon
<1>7. ASSUME NEW k \in Packets, Reads(p, k)
      PROVE  Stream(n)' /\ Gathering(n)'
  <2>1. /\ wire[p] # << >> /\ k = Head(wire[p]) /\ closed[p] = "open"
        /\ wire'[p] = Tail(wire[p]) /\ link' = link /\ end'[n] = end[n]
    BY <1>1, <1>7, Zenon DEF Reads, Types
  <2>2. PICK cur \in [1 .. Len(wire[p]) + 1 -> Positions] :
             /\ cur[Len(wire[p]) + 1] = SenderAt(n)
             /\ \A j \in 1 .. Len(wire[p]) :
                  Carries(n, link.sdus[n], end[n].txQueued, wire[p][j], cur[j], cur[j + 1])
             /\ cur[1 + 1] \in Positions
             /\ Carries(n, link.sdus[n], end[n].txQueued, Head(wire[p]), ReceiverAt(p),
                        cur[1 + 1])
    BY <1>1, <2>1, HeadCarries, Zenon
  <2>3. Gathering(n)' /\ ReceiverAt(p)' = cur[1 + 1]
    BY <1>1, <1>7, <2>1, <2>2, StreamTaken, Zenon
  <2>4. Stream(n)'
    BY <2>1, <2>2, <2>3, StreamShifts, Zenon
  <2> QED  BY <2>3, <2>4, Zenon
<1>8. ASSUME NEW k \in Packets, Rejects(p, k)
      PROVE  Stream(n)' /\ Gathering(n)'
  <2>1. /\ wire[p] # << >> /\ closed[p] = "open"
        /\ wire'[p] = Tail(wire[p]) /\ link' = link /\ end' = end /\ received' = received
    BY <1>1, <1>8, Zenon DEF Rejects, Types
  <2>2. closed'[p] \in Errors
    <3>1. Verdict(end[p], k) \in Errors
      BY <1>8, Zenon DEF Rejects, Verdict, Errors
    <3> QED  BY <1>1, <1>8, <3>1, Zenon DEF Rejects, Types
  <2>3. Gathering(n)'
    BY <1>1, <2>1, Zenon DEF Gathering
  <2>4. PICK cur \in [1 .. Len(wire[p]) + 1 -> Positions] :
             /\ cur[Len(wire[p]) + 1] = SenderAt(n)
             /\ \A j \in 1 .. Len(wire[p]) :
                  Carries(n, link.sdus[n], end[n].txQueued, wire[p][j], cur[j], cur[j + 1])
    BY <1>1, <2>1, HeadCarries, Zenon
  <2>5. Stream(n)'
    BY <2>1, <2>2, <2>4, StreamShifts, Zenon
  <2> QED  BY <2>3, <2>5, Zenon
<1> QED  BY <1>1, <1>3, <1>4, <1>5, <1>6, <1>7, <1>8, StepShape, Zenon

\* An end closes with an error only over an SDU beyond the cap.
LEMMA RefusalStep ==
    Types /\ LinkInv /\ StreamInv /\ NoProtocolError /\ [Next]_vars => NoProtocolError'
<1> SUFFICES ASSUME Types, LinkInv, StreamInv, NoProtocolError, [Next]_vars,
                    NEW p \in Roles, closed'[p] \in Errors
             PROVE  /\ closed'[p] = "ReassemblyOverflow"
                    /\ \E x \in 1 .. Len(link'.sdus[Peer(p)]) :
                         link'.sdus[Peer(p)][x] > link'.rxCap
  BY Zenon DEF NoProtocolError
<1>1. link' = link
  <2>1. Quiet => link' = link
    BY Zenon DEF Quiet
  <2>2. ASSUME NEW n, NEW k, Writes(n, k) PROVE link' = link
    BY <2>2, Zenon DEF Writes
  <2>3. ASSUME NEW n, NEW k, Reads(n, k) PROVE link' = link
    BY <2>3, Zenon DEF Reads
  <2>4. ASSUME NEW n, NEW k, Rejects(n, k) PROVE link' = link
    BY <2>4, Zenon DEF Rejects
  <2> QED  BY <2>1, <2>2, <2>3, <2>4, StepShape, Zenon
<1>2. CASE closed'[p] = closed[p]
  BY <1>1, <1>2, Zenon DEF NoProtocolError
<1>3. ASSUME NEW k \in Packets, Rejects(p, k)
      PROVE  /\ closed'[p] = "ReassemblyOverflow"
             /\ \E x \in 1 .. Len(link.sdus[Peer(p)]) : link.sdus[Peer(p)][x] > link.rxCap
  <2> DEFINE n == Peer(p)
  <2>1. n \in Roles /\ Peer(n) = p /\ Stream(n) /\ Gathering(n)
    BY PeerFacts, Zenon DEF StreamInv
  <2>2. /\ closed[p] = "open" /\ wire[p] # << >> /\ k = Head(wire[p])
        /\ Verdict(end[p], k) # "open" /\ closed'[p] = Verdict(end[p], k)
    BY <1>3, Zenon DEF Rejects, Types
  <2>3. /\ Verdict(end[p], k) = "ReassemblyOverflow"
        /\ \E x \in 1 .. Len(link.sdus[n]) : link.sdus[n][x] > link.rxCap
    BY <2>1, <2>2, VerdictFacts, Zenon
  <2> QED  BY <2>2, <2>3, Zenon
<1>4. closed'[p] = closed[p] \/ \E k \in Packets : Rejects(p, k)
  <2>1. CASE Quiet
    BY <2>1, Zenon DEF Quiet
  <2>2. ASSUME NEW n \in Roles, NEW k \in Packets, Writes(n, k) \/ Reads(n, k)
        PROVE  closed' = closed
    BY <2>2, Zenon DEF Writes, Reads
  <2>3. ASSUME NEW n \in Roles, NEW k \in Packets, Rejects(n, k), n # p
        PROVE  closed'[p] = closed[p]
    BY <2>3, Zenon DEF Rejects, Types
  <2> QED  BY <2>1, <2>2, <2>3, StepShape, Zenon
<1> QED  BY <1>1, <1>2, <1>3, <1>4, Zenon

\* Two ends that both follow session.rs never refuse each other's packets, whatever they
\* queue and however their steps interleave, unless an SDU exceeds RX_REASSEMBLY_CAP.
THEOREM BtpNeverRefuses == Spec => []NoProtocolError
<1>1. Init => Types /\ LinkInv /\ StreamInv /\ NoProtocolError
  <2>1. Init => NoProtocolError
    BY Zenon DEF Init, NoProtocolError, Errors
  <2> QED  BY <2>1, TypesInit, LinkInit, StreamInit, Zenon
<1>2. Types /\ LinkInv /\ StreamInv /\ NoProtocolError /\ [Next]_vars =>
        Types' /\ LinkInv' /\ StreamInv' /\ NoProtocolError'
  BY TypesStep, LinkStep, StreamStep, RefusalStep, Zenon
<1> QED  BY <1>1, <1>2, PTL DEF Spec

\* on_indication hands the application the peer's SDUs whole, once and in order.
THEOREM BtpDeliversInOrder == Spec => []SdusArriveInOrder
<1>1. Init => Types /\ LinkInv /\ StreamInv
  BY TypesInit, LinkInit, StreamInit, Zenon
<1>2. Types /\ LinkInv /\ StreamInv /\ [Next]_vars => Types' /\ LinkInv' /\ StreamInv'
  BY TypesStep, LinkStep, StreamStep, Zenon
<1>3. Types /\ StreamInv => SdusArriveInOrder
  <2>1. SUFFICES ASSUME Types, StreamInv, NEW p \in Roles
                 PROVE  /\ Len(received[p]) <= end[Peer(p)].txQueued
                        /\ \A k \in 1 .. Len(received[p]) : received[p][k] = Sdu(Peer(p), k)
    BY Zenon DEF SdusArriveInOrder
  <2>2. Peer(p) \in Roles /\ Peer(Peer(p)) = p /\ Gathering(Peer(p))
    BY <2>1, PeerFacts, Zenon DEF StreamInv
  <2> QED  BY <2>2, Zenon DEF Gathering, Message, Sdu
<1> QED  BY <1>1, <1>2, <1>3, PTL DEF Spec
=============================================================================
