-------------------------------- MODULE Mrp ---------------------------------
(***************************************************************************)
(* The Message Reliability Protocol state of one secure session            *)
(* (matter-transport, mrp.rs, struct MrpState), as operators on a state    *)
(* value.  A state is a record of the four tables of the struct:           *)
(*   exchanges  the live exchanges, keyed by id AND by who started them;   *)
(*   pending    pending_acks: our reliable messages not yet acknowledged;  *)
(*   owed       pending_outbound_acks: at most one ACK we owe per exchange;*)
(*   displaced  displaced_acks: owed ACKs pushed out by a newer one, due   *)
(*              at once.                                                   *)
(* Deadlines are left out: which entries are due is an argument of         *)
(* HandleTimeoutMrp, so every timing, jitter and back-off is covered.  The *)
(* packet bytes of a pending message are the packet of that counter, and   *)
(* the recent_reliable ring, which nothing reads, is left out.             *)
(***************************************************************************)
EXTENDS Integers, FiniteSets

CONSTANTS
    ExchangeIds,        \* exchange ids, u16 in the code
    MaxExchanges,       \* MAX_EXCHANGES_PER_SESSION
    MaxDisplaced,       \* MAX_DISPLACED_ACKS
    MaxTransmissions    \* MrpConfig::max_transmissions

ASSUME MaxExchangesAssumption == MaxExchanges \in Nat
ASSUME MaxDisplacedAssumption == MaxDisplaced \in Nat
ASSUME MaxTransmissionsAssumption == MaxTransmissions \in Nat \ {0}

\* ExchangeKey: ours is is_local_initiator.
ExchangeKeys == [id : ExchangeIds, ours : BOOLEAN]

PendingAcks == [ctr : Nat, xch : ExchangeKeys, left : 0 .. MaxTransmissions]

OwedAcks == [xch : ExchangeKeys, ctr : Nat]

MrpStates == [exchanges : SUBSET ExchangeKeys,
              pending   : SUBSET PendingAcks,
              owed      : SUBSET OwedAcks,
              displaced : SUBSET OwedAcks]

NewMrp == [exchanges |-> {}, pending |-> {}, owed |-> {}, displaced |-> {}]

\* ExchangeKey::of_inbound: I=1 means the peer started the exchange.
OfInbound(id, peerIsInitiator) == [id |-> id, ours |-> ~peerIsInitiator]

\* resolve: a bare id means our exchange while we track one, else the peer's.
Resolve(s, id) ==
    IF [id |-> id, ours |-> TRUE] \in s.exchanges
    THEN [id |-> id, ours |-> TRUE]
    ELSE [id |-> id, ours |-> FALSE]

On(acks, x) == {a \in acks : a.xch = x}

HasWork(s, x) ==
    On(s.pending, x) \cup On(s.owed, x) \cup On(s.displaced, x) # {}

\* exchange_is_idle that looks at the retransmits only.
ReclaimIgnoringAcks(s, X) ==
    [s EXCEPT !.exchanges = @ \ {x \in X : On(s.pending, x) = {}}]

\* reclaim_if_idle, for every exchange of X.
ReclaimIfIdle(s, X) == [s EXCEPT !.exchanges = @ \ {x \in X : ~HasWork(s, x)}]
-----------------------------------------------------------------------------
\* mark_packet_sent seeded with the whole budget: one transmission too many.
SendFullBudget(s, x, ctr, reliable) ==
    LET sent == [s EXCEPT !.exchanges = @ \cup {x}, !.owed = @ \ On(@, x)]
    IN  IF reliable
        THEN [sent EXCEPT !.pending =
                @ \cup {[ctr |-> ctr, xch |-> x, left |-> MaxTransmissions]}]
        ELSE ReclaimIfIdle(sent, {x})

\* commit_outbound, which drains the ACK that rides the message, then
\* mark_packet_sent_on.  The table's cap is not tested here.
Send(s, x, ctr, reliable) ==
    LET sent == [s EXCEPT !.exchanges = @ \cup {x}, !.owed = @ \ On(@, x)]
    IN  IF reliable
        THEN [sent EXCEPT !.pending =
                @ \cup {[ctr |-> ctr, xch |-> x, left |-> MaxTransmissions - 1]}]
        ELSE ReclaimIfIdle(sent, {x})
-----------------------------------------------------------------------------
\* process_inbound refuses a message that would need a new slot of a full
\* table.
TableFull(s, x) == x \notin s.exchanges /\ Cardinality(s.exchanges) >= MaxExchanges

\* An ACK matched by the exchange it rides.
ReceiveAckByExchange(s, x, ack) ==
    IF ack = 0 THEN s ELSE [s EXCEPT !.pending = @ \ On(@, x)]

\* The A flag: the ACK is matched by counter alone, whatever exchange it
\* rides; a message it settles on another exchange may leave that one idle.
ReceiveAck(s, x, ack) ==
    LET acked == {p \in s.pending : p.ctr = ack}
    IN  ReclaimIfIdle([s EXCEPT !.pending = @ \ acked],
                      {p.xch : p \in acked} \ {x})

\* A second reliable message on an exchange overwrites the ACK of the first.
OweOverwriting(s, x, ctr) ==
    [s EXCEPT !.owed = (@ \ On(@, x)) \cup {[xch |-> x, ctr |-> ctr]}]

\* The R flag: owe an ACK; the one it displaces becomes due at once, or is
\* dropped when the queue is full.
Owe(s, x, ctr) ==
    [s EXCEPT !.owed      = (@ \ On(@, x)) \cup {[xch |-> x, ctr |-> ctr]},
              !.displaced = IF Cardinality(@) < MaxDisplaced
                            THEN @ \cup On(s.owed, x)
                            ELSE @]

\* The ACKs that Owe drops.
DroppedByOwe(s, x) ==
    IF Cardinality(s.displaced) < MaxDisplaced THEN {} ELSE On(s.owed, x)

\* process_inbound of a message on exchange x that is not refused.
ProcessInbound(s, x, ctr, ack, reliable) ==
    LET tracked == [s EXCEPT !.exchanges = @ \cup {x}]
        acked   == ReceiveAck(tracked, x, ack)
        owing   == IF reliable THEN Owe(acked, x, ctr) ELSE acked
    IN  ReclaimIfIdle(owing, {x})

\* cancel_pending_outbound_ack: no reclaim.
CancelAck(s, x) ==
    [s EXCEPT !.owed = @ \ On(@, x), !.displaced = @ \ On(@, x)]

\* forget_ack_for that looks at the buffered ACKs and not at the displaced.
ForgetOwedOnly(s, ctr) ==
    LET gone == {a \in s.owed : a.ctr = ctr}
    IN  ReclaimIfIdle([s EXCEPT !.owed = @ \ gone], {a.xch : a \in gone})

\* forget_ack_for.
ForgetAckFor(s, ctr) ==
    LET gone == {a \in s.owed \cup s.displaced : a.ctr = ctr}
    IN  ReclaimIfIdle([s EXCEPT !.owed = @ \ gone, !.displaced = @ \ gone],
                      {a.xch : a \in gone})
-----------------------------------------------------------------------------
\* A tick that reports an exhausted message and leaves it in the table.
AfterTurnKeeping(pending, due) ==
    (pending \ due)
      \cup {[p EXCEPT !.left = IF @ > 0 THEN @ - 1 ELSE 0] : p \in due}

\* The pending messages after the due ones had their turn: a due message with
\* no attempt left is removed (Expired), the others lose one (Retransmit).
AfterTurn(pending, due) ==
    (pending \ due)
      \cup {[p EXCEPT !.left = @ - 1] : p \in {q \in due : q.left > 0}}

\* A tick that fires the buffered ACKs and leaves them in the table.
HandleTimeoutKeepingAcks(s, due, dueAcks) ==
    ReclaimIfIdle([s EXCEPT !.pending   = AfterTurn(@, due),
                            !.displaced = {}],
                  {e.xch : e \in {p \in due : p.left = 0} \cup s.displaced})

\* handle_timeout with the messages due and the owed ACKs dueAcks due;
\* displaced ACKs are always due.
HandleTimeoutMrp(s, due, dueAcks) ==
    ReclaimIfIdle([s EXCEPT !.pending   = AfterTurn(@, due),
                            !.owed      = @ \ dueAcks,
                            !.displaced = {}],
                  {e.xch : e \in {p \in due : p.left = 0}
                                   \cup dueAcks \cup s.displaced})

\* flush_exchange_acks_on.
FlushExchange(s, x) == ReclaimIfIdle(CancelAck(s, x), {x})

\* close_exchange_on.
CloseExchange(s, x) ==
    [exchanges |-> s.exchanges \ {x},
     pending   |-> s.pending \ On(s.pending, x),
     owed      |-> s.owed \ On(s.owed, x),
     displaced |-> s.displaced \ On(s.displaced, x)]

\* flush_all_acks: every exchange that owes an ACK, one after the other.
FlushAll(s) ==
    ReclaimIfIdle([s EXCEPT !.owed = {}, !.displaced = {}],
                  {a.xch : a \in s.owed \cup s.displaced})
=============================================================================
