--------------------------- MODULE SecureSession ----------------------------
(***************************************************************************)
(* Two nodes that hold the two ends of one secure session                  *)
(* (matter-transport, session.rs, struct Session and the SessionManager    *)
(* calls that work on one), exchanging packets over a datagram network     *)
(* that loses, duplicates and reorders: a packet once sent stays in net,   *)
(* and may be delivered any number of times, at any time, or never.        *)
(*                                                                         *)
(* Each node is the code of this repository, and the application above it  *)
(* may call the public operations in any order: send on a new, a tracked   *)
(* or a forgotten exchange, finish or abort an exchange, flush the ACKs.   *)
(* A call that changes nothing, for it returns an error first or has       *)
(* nothing to do, is no step.                                              *)
(***************************************************************************)
EXTENDS Mrp, ReplayWindow

CONSTANTS
    Nodes,               \* the two ends
    TransportReliable,   \* the nodes whose session has transport_reliable set
    MaxSends,            \* bound: application messages each node may send
    FirstCounter         \* the outbound counter each node's session starts at

ASSUME NodesAssumption == \A a, b, c \in Nodes : a = b \/ b = c \/ a = c
ASSUME ExchangeIdsAssumption == 0 \in ExchangeIds
ASSUME TransportReliableAssumption == TransportReliable \subseteq Nodes
ASSUME FirstCounterAssumption == FirstCounter \in [Nodes -> 1 .. MaxCounter]

VARIABLES
    counter,      \* outbound_counter of each node's session
    nextXid,      \* next_exchange_id of each node's manager
    window,       \* the replay window of each node's session
    mrp,          \* the MRP state of each node's session
    net,          \* every packet sent
    transmitted,  \* history: times each reliable message went out
    outcome,      \* history: how each reliable message ended
    accepted,     \* history: times MRP took each peer packet; unless it is a
                  \* bare ACK, that hands it to the application
    refused,      \* history: peer messages refused with ExchangeTableFull
    lostAcks      \* history: owed ACKs the node gave up

vars == <<counter, nextXid, window, mrp, net, transmitted, outcome, accepted,
          refused, lostAcks>>

history == <<transmitted, outcome, accepted, refused, lostAcks>>

NoAck == 0   \* no message has counter 0: a session's counter starts above it

\* A packet as the receiver sees it after decryption: message counter,
\* exchange id, the I and R flags, the acknowledged counter (the A flag), and
\* whether it is a bare standalone ACK.
Packets == [from : Nodes, ctr : Counters, xid : ExchangeIds, ini : BOOLEAN,
            rel : BOOLEAN, ack : Counters, bare : BOOLEAN]

AckPacket(n, ctr, x, ack) ==
    [from |-> n, ctr |-> ctr, xid |-> x.id, ini |-> x.ours,
     rel |-> FALSE, ack |-> ack, bare |-> TRUE]

SentBy(n) == {m \in net : m.from = n}

\* The packets of the peer that MRP took.
Heard(n) == {m \in net \ SentBy(n) : accepted[n][m.ctr] > 0}

AcksOwed(n) == mrp[n].owed \cup mrp[n].displaced

\* The exchanges an application can name: those it sent on and those it was
\* handed a message of, tracked still or reclaimed since.
Known(n) ==
    {[id |-> m.xid, ours |-> m.ini] : m \in SentBy(n)}
      \cup {OfInbound(m.xid, m.ini) :
              m \in {k \in Heard(n) : ~k.bare}}

\* The counters of pending messages, and outcomes updated by how those that
\* left the table left it.
Waiting(s) == {p.ctr : p \in s.pending}

Settle(n, after, how) ==
    [outcome EXCEPT ![n] =
       [c \in Counters |-> IF c \in Waiting(mrp[n]) \ Waiting(after)
                           THEN how ELSE @[c]]]

\* advance_exchange_id, wrapping over the ids.
NextXid(id) == IF id + 1 \in ExchangeIds THEN id + 1 ELSE 0

Init ==
    /\ counter = FirstCounter
    /\ nextXid = [n \in Nodes |-> 0]
    /\ window = [n \in Nodes |-> NewWindow]
    /\ mrp = [n \in Nodes |-> NewMrp]
    /\ net = {}
    /\ transmitted = [n \in Nodes |-> [c \in Counters |-> 0]]
    /\ outcome = [n \in Nodes |-> [c \in Counters |-> "none"]]
    /\ accepted = [n \in Nodes |-> [c \in Counters |-> 0]]
    /\ refused = [n \in Nodes |-> {}]
    /\ lostAcks = [n \in Nodes |-> {}]
-----------------------------------------------------------------------------
\* encode_on past its error returns: build on exchange x with the ACK owed on
\* x riding along, encrypt under the next counter, commit.
EncodeOn(n, x, wantReliable) ==
    LET reliable == wantReliable /\ n \notin TransportReliable
        ride     == {a.ctr : a \in On(mrp[n].owed, x)}
        ack      == IF ride = {} THEN NoAck ELSE CHOOSE c \in ride : TRUE
    IN  /\ Cardinality({m \in SentBy(n) : ~m.bare}) < MaxSends[n]
        /\ counter[n] < MaxCounter
        /\ net' = net \cup {[from |-> n, ctr |-> counter[n], xid |-> x.id,
                             ini |-> x.ours, rel |-> reliable, ack |-> ack,
                             bare |-> FALSE]}
        /\ mrp' = [mrp EXCEPT ![n] = Send(@, x, counter[n], reliable)]
        /\ counter' = [counter EXCEPT ![n] = @ + 1]
        /\ transmitted' = [transmitted EXCEPT ![n][counter[n]] =
                              IF reliable THEN 1 ELSE 0]
        /\ UNCHANGED <<window, outcome, accepted, refused, lostAcks>>

\* encode_outbound with no exchange id.
EncodeNew(n, reliable) ==
    /\ EncodeOn(n, [id |-> nextXid[n], ours |-> TRUE], reliable)
    /\ nextXid' = [nextXid EXCEPT ![n] = NextXid(@)]

\* encode_outbound with an exchange id.
EncodeById(n, id, reliable) ==
    /\ EncodeOn(n, Resolve(mrp[n], id), reliable)
    /\ UNCHANGED nextXid

\* encode_outbound_with_role.
EncodeWithRole(n, x, reliable) ==
    /\ EncodeOn(n, x, reliable)
    /\ UNCHANGED nextXid
-----------------------------------------------------------------------------
\* fold_timer_event over fired ACKs: each takes the next outbound counter
\* while there is one; the rest are lost (SessionCounterExhausted).  num is
\* the numbering, MaxCounter for an ACK that got none; the order is left open.
EmitNumbered(n, acks, next, num) ==
    /\ \A c \in counter[n] .. next - 1 : \E a \in acks : num[a] = c
    /\ \A a, b \in acks : num[a] = num[b] => a = b \/ num[a] = next
    /\ \A a \in acks : num[a] = next => next = MaxCounter
    /\ counter' = [counter EXCEPT ![n] = next]
    /\ net' = net \cup {AckPacket(n, num[a], a.xch, a.ctr) :
                          a \in {b \in acks : num[b] < next}}
    /\ lostAcks' = [lostAcks EXCEPT ![n] =
                      @ \cup {a.ctr : a \in {b \in acks : num[b] = next}}]

EmitAcks(n, acks) ==
    \E next \in counter[n] .. MaxCounter :
      \E num \in [acks -> counter[n] .. next] : EmitNumbered(n, acks, next, num)

\* SessionManager::handle_timeout on the session, at an instant when the
\* messages due and the ACKs dueAcks have reached their deadline.
HandleTimeout(n, due, dueAcks) ==
    /\ due \cup dueAcks \cup mrp[n].displaced # {}
    /\ mrp' = [mrp EXCEPT ![n] = HandleTimeoutMrp(@, due, dueAcks)]
    /\ EmitAcks(n, dueAcks \cup mrp[n].displaced)
    /\ transmitted' = [transmitted EXCEPT ![n] =
          [c \in Counters |->
             @[c] + IF \E p \in due : p.ctr = c /\ p.left > 0 THEN 1 ELSE 0]]
    /\ outcome' = Settle(n, mrp'[n], "expired")
    /\ UNCHANGED <<nextXid, window, accepted, refused>>

\* end_exchange: finish_exchange and abort_exchange, by key.
EndExchange(n, x, abort) ==
    LET flushed == FlushExchange(mrp[n], x)
    IN  /\ x \in mrp[n].exchanges \/ HasWork(mrp[n], x)
        /\ mrp' = [mrp EXCEPT ![n] =
              IF abort THEN CloseExchange(flushed, x) ELSE flushed]
        /\ EmitAcks(n, On(AcksOwed(n), x))
        /\ outcome' = Settle(n, mrp'[n], "aborted")
        /\ UNCHANGED <<nextXid, window, transmitted, accepted, refused>>

\* flush_session_acks.
FlushSessionAcks(n) ==
    /\ AcksOwed(n) # {}
    /\ mrp' = [mrp EXCEPT ![n] = FlushAll(@)]
    /\ EmitAcks(n, AcksOwed(n))
    /\ UNCHANGED <<nextXid, window, transmitted, outcome, accepted, refused>>
-----------------------------------------------------------------------------
\* decode_inbound of a packet the replay window takes and MRP refuses: the
\* window has already recorded the counter.
DecodeTableFull(n, m) ==
    /\ Classify(window[n], m.ctr) = "ok"
    /\ TableFull(mrp[n], OfInbound(m.xid, m.ini))
    /\ window' = [window EXCEPT ![n] = Record(@, m.ctr)]
    /\ refused' = [refused EXCEPT ![n] = @ \cup {m.ctr}]
    /\ UNCHANGED <<counter, nextXid, mrp, net, transmitted, outcome, accepted,
                   lostAcks>>

\* decode_inbound of a packet that both take: AppMessage or AckOnly.
DecodeAccepted(n, m) ==
    LET x    == OfInbound(m.xid, m.ini)
        done == ProcessInbound(mrp[n], x, m.ctr, m.ack, m.rel)
    IN  /\ Classify(window[n], m.ctr) = "ok"
        /\ ~TableFull(mrp[n], x)
        /\ window' = [window EXCEPT ![n] = Record(@, m.ctr)]
        /\ mrp' = [mrp EXCEPT ![n] =
              IF n \in TransportReliable /\ ~m.bare THEN CancelAck(done, x)
              ELSE done]
        /\ outcome' = Settle(n, mrp'[n], "acked")
        /\ accepted' = [accepted EXCEPT ![n][m.ctr] = @ + 1]
        /\ lostAcks' = [lostAcks EXCEPT ![n] =
              IF m.rel THEN @ \cup {a.ctr : a \in DroppedByOwe(mrp[n], x)}
              ELSE @]
        /\ UNCHANGED <<counter, nextXid, net, transmitted, refused>>

\* The ACK built under the next counter without spending it.
DecodeDuplicateUnspent(n, m) ==
    /\ Classify(window[n], m.ctr) # "ok"
    /\ m.rel
    /\ n \notin TransportReliable
    /\ counter[n] < MaxCounter
    /\ net' = net \cup {AckPacket(n, counter[n], OfInbound(m.xid, m.ini), m.ctr)}
    /\ mrp' = [mrp EXCEPT ![n] = ForgetAckFor(@, m.ctr)]
    /\ UNCHANGED <<counter, nextXid, window, history>>

\* answer_duplicate: an authentic duplicate of a reliable message is ACKed on
\* the spot, and an ACK still owed for it is forgotten.
DecodeDuplicate(n, m) ==
    /\ Classify(window[n], m.ctr) # "ok"
    /\ m.rel
    /\ n \notin TransportReliable
    /\ counter[n] < MaxCounter
    /\ net' = net \cup {AckPacket(n, counter[n], OfInbound(m.xid, m.ini), m.ctr)}
    /\ counter' = [counter EXCEPT ![n] = @ + 1]
    /\ mrp' = [mrp EXCEPT ![n] = ForgetAckFor(@, m.ctr)]
    /\ UNCHANGED <<nextXid, window, history>>

Next ==
    \E n \in Nodes :
      \/ \E reliable \in BOOLEAN :
           \/ EncodeNew(n, reliable)
           \/ \E x \in Known(n) : EncodeById(n, x.id, reliable)
           \/ \E x \in Known(n) : EncodeWithRole(n, x, reliable)
      \/ \E due \in SUBSET mrp[n].pending, dueAcks \in SUBSET mrp[n].owed :
           HandleTimeout(n, due, dueAcks)
      \/ \E x \in Known(n), abort \in BOOLEAN : EndExchange(n, x, abort)
      \/ FlushSessionAcks(n)
      \/ \E m \in net \ SentBy(n) :
           \/ DecodeTableFull(n, m)
           \/ DecodeAccepted(n, m)
           \/ DecodeDuplicate(n, m)

\* The driver sleeps until poll_timeout and then calls handle_timeout, so an
\* entry that stays in a table reaches its deadline and has its turn.
RetransmitTimer(n, c) ==
    \E due \in SUBSET mrp[n].pending, dueAcks \in SUBSET mrp[n].owed :
      /\ \E p \in due : p.ctr = c
      /\ HandleTimeout(n, due, dueAcks)

AckTimer(n, c) ==
    \E due \in SUBSET mrp[n].pending, dueAcks \in SUBSET mrp[n].owed :
      /\ \E a \in dueAcks \cup mrp[n].displaced : a.ctr = c
      /\ HandleTimeout(n, due, dueAcks)

Spec == Init /\ [][Next]_vars

FairSpec ==
    /\ Spec
    /\ \A n \in Nodes, c \in Counters :
         WF_vars(RetransmitTimer(n, c)) /\ WF_vars(AckTimer(n, c))
-----------------------------------------------------------------------------
\* The state has the shape of the code's structs; an exchange owes at most one
\* buffered ACK (the map of the code is keyed by exchange).
TypeOK ==
    /\ counter \in [Nodes -> 1 .. MaxCounter]
    /\ nextXid \in [Nodes -> ExchangeIds]
    /\ window \in [Nodes -> Windows]
    /\ mrp \in [Nodes -> MrpStates]
    /\ \A n \in Nodes : \A a, b \in mrp[n].owed : a.xch = b.xch => a = b
    /\ net \subseteq Packets
    /\ transmitted \in [Nodes -> [Counters -> Nat]]
    /\ outcome \in [Nodes -> [Counters -> {"none", "acked", "expired", "aborted"}]]
    /\ accepted \in [Nodes -> [Counters -> Nat]]
    /\ refused \in [Nodes -> SUBSET Counters]
    /\ lostAcks \in [Nodes -> SUBSET Counters]

\* The exchange table never loses an exchange that still has a retransmit or
\* an ACK to its name: every entry of the other tables is on a tracked
\* exchange, whatever order sends, ACKs, timers and closes come in.
WorkIsTracked ==
    \A n \in Nodes :
      \A e \in mrp[n].pending \cup AcksOwed(n) : e.xch \in mrp[n].exchanges

\* The exchange table leaks nothing: an exchange is reclaimed once it goes
\* idle (mrp.rs, MAX_EXCHANGES_PER_SESSION), so a tracked exchange has work.
IdleIsReclaimed ==
    \A n \in Nodes : \A x \in mrp[n].exchanges : HasWork(mrp[n], x)

\* The exchange table is its work: it holds every exchange with something to
\* do and, on a session that does not ride a reliable transport, no other.
TableHoldsTheWork ==
    /\ WorkIsTracked
    /\ TransportReliable = {} => IdleIsReclaimed

\* A message counter is spent on one packet only, so no AEAD nonce is used
\* for two plaintexts, by whichever path the packets were built.
CounterNamesOnePacket ==
    \A m1, m2 \in net : m1.from = m2.from /\ m1.ctr = m2.ctr => m1 = m2

\* A message reaches the application at most once, however often the peer or
\* the network repeats it.
AcceptedAtMostOnce ==
    \A n \in Nodes, c \in Counters : accepted[n][c] <= 1

\* A reliable message whose retransmission an ACK stopped was handled by the
\* peer: delivered, or refused for want of an exchange slot, or behind the
\* peer's replay window.
AckedMeansHandled ==
    \A n \in Nodes, c \in Counters :
      outcome[n][c] = "acked" =>
        \E p \in Nodes \ {n} :
          \/ accepted[p][c] > 0
          \/ c \in refused[p]
          \/ window[p].highest - c > Width

\* Every reliable message that was delivered is ACKed: the ACK is owed, or a
\* packet carried it, or the node gave it up where the code says so (the
\* displaced queue is full, the session's counter is exhausted).
AcceptedIsAcknowledged ==
    \A n \in Nodes \ TransportReliable : \A m \in Heard(n) :
      m.rel =>
        \/ \E a \in AcksOwed(n) : a.ctr = m.ctr
        \/ \E k \in SentBy(n) : k.ack = m.ctr
        \/ m.ctr \in lostAcks[n]

\* An ACK is buffered only until some packet carries it: a duplicate answered
\* on the spot, a piggyback, a timer and a finish never acknowledge the same
\* delivery twice.
OwedIsUnsent ==
    \A n \in Nodes : \A a \in AcksOwed(n) : \A k \in SentBy(n) : k.ack # a.ctr

\* A reliable message goes out at most max_transmissions times, and is only
\* reported Expired when the budget is spent.
TransmissionBudget ==
    \A n \in Nodes, c \in Counters :
      /\ transmitted[n][c] <= MaxTransmissions
      /\ outcome[n][c] = "expired" => transmitted[n][c] = MaxTransmissions

\* Retransmission stops for good: once an ACK of a message was taken, or the
\* message expired or its exchange was aborted, it is not transmitted again.
SettledIsNotResent ==
    [][\A n \in Nodes, c \in Counters :
         transmitted'[n][c] # transmitted[n][c] =>
           /\ outcome[n][c] = "none"
           /\ \A m \in Heard(n) : m.ack # c]_vars

\* Every reliable message is eventually acknowledged, expired or aborted.
ReliableSettles ==
    \A n \in Nodes, c \in Counters :
      (\E p \in mrp[n].pending : p.ctr = c) ~> outcome[n][c] # "none"

\* Every ACK a node owes eventually leaves its tables.
OwedAckLeaves ==
    \A n \in Nodes, c \in Counters :
      (\E a \in AcksOwed(n) : a.ctr = c) ~> ~(\E a \in AcksOwed(n) : a.ctr = c)
=============================================================================
