------------------------- MODULE UnsecuredExchange --------------------------
(***************************************************************************)
(* The initiator's end of a session-establishment exchange: stop and wait  *)
(* over datagrams (matter-commissioning, driver/unsecured.rs).  An         *)
(* exchange `x` is the UnsecuredExchange together with the locals of the   *)
(* send that is in progress: the frame, whether it is acknowledged, and    *)
(* how many waits it has served.                                           *)
(*                                                                         *)
(* Frames of this layer carry the exchange number `ex`, the ephemeral node *)
(* id of the sender `src` or of the receiver `dst`, the message counter    *)
(* `ctr` where the receiver looks at it, an opcode and a body.  Durations  *)
(* are in units; `mrp` gives the retransmission delays of a peer's         *)
(* MrpConfig in order.                                                     *)
(***************************************************************************)
EXTENDS Case, Sequences, Functions

CONSTANT Cap                \* MAX_HANDSHAKE_RETRANSMIT_WINDOW

ASSUME CapAssumption == Cap \in Nat \ {0}

Lesser(a, b) == IF a < b THEN a ELSE b
Less(a, b) == IF a > b THEN a - b ELSE 0        \* saturating_sub

Total(schedule) == FoldFunction(+, 0, schedule)

\* handshake_schedule: each delay is cut to the cap, and the schedule ends
\* before the delay that would take the total past it, except the first.
HandshakeSchedule(mrp) ==
    LET delays == [n \in 1 .. Len(mrp) |-> Lesser(mrp[n], Cap)]
        Fits(n) == \A m \in 2 .. n : Total(SubSeq(delays, 1, m)) <= Cap
    IN  SubSeq(delays, 1, CHOOSE n \in 1 .. Len(mrp) :
                              Fits(n) /\ (n = Len(mrp) \/ ~Fits(n + 1)))

\* new_with_mrp.
NewExchange(ex, src, mrp) ==
    [ex |-> ex, src |-> src, schedule |-> HandshakeSchedule(mrp),
     budget |-> Total(HandshakeSchedule(mrp)), spent |-> 0, last |-> 0,
     frame |-> None, acked |-> FALSE, attempts |-> 0]

\* encode_unsecured of one message, and the start of a send.
Sending(x, op, body) ==
    [x EXCEPT !.frame = [ex |-> x.ex, src |-> x.src, op |-> op, body |-> body],
              !.acked = FALSE, !.attempts = 0]

\* send_standalone_ack.
StandaloneAck(x) == [ex |-> x.ex, src |-> x.src, op |-> "Ack", body |-> None]

\* resize_peer_mrp: the time already waited is not given back.
ResizePeerMrp(x, mrp) ==
    [x EXCEPT !.schedule = HandshakeSchedule(mrp),
              !.budget = Less(Total(HandshakeSchedule(mrp)), x.spent)]

\* Session id 0: only such a frame belongs to an exchange of this layer.
Unsecured(f) == "ex" \in DOMAIN f

\* Taking any reply on the exchange, whichever attempt it was addressed to.
SameExchange(x, f) == Unsecured(f) /\ f.ex = x.ex

\* The frames that are not skipped at once: unsecured, on this exchange, and
\* addressed to this attempt's ephemeral node id or to none.
Ours(x, f) == Unsecured(f) /\ f.ex = x.ex /\ f.dst \in {None, x.src}

\* The response a step waits for: none of the skip rules apply.
IsAwaited(x, f, expected) ==
    /\ Ours(x, f)
    /\ f.op # "Ack"
    /\ f.ctr > x.last
    /\ f.op \in expected \cup {"StatusReport"}

Consumed(x, f) == [x EXCEPT !.last = f.ctr]

\* Any other frame: an acknowledgement ends the retransmissions, the rest is
\* skipped.  Until then every turn of the loop sends the frame again.
Skipped(x, f) == [x EXCEPT !.acked = @ \/ (Ours(x, f) /\ f.op = "Ack")]

Resends(x) == IF x.acked THEN {} ELSE {x.frame}

Wait(x) == Lesser(x.schedule[x.attempts + 1], x.budget)

\* A wait runs out before the acknowledgement: it is spent from the budget of
\* the whole handshake.
Spent(x) == [x EXCEPT !.budget = Less(@, Wait(x)),
                      !.spent = @ + Wait(x),
                      !.attempts = @ + 1]

\* After a timeout: no wait of the schedule, or no budget, is left.
OutOfTime(x) == x.acked \/ Spent(x).attempts >= Len(x.schedule) \/ Spent(x).budget = 0
=============================================================================
