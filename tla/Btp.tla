-------------------------------- MODULE Btp ---------------------------------
(***************************************************************************)
(* The Bluetooth Transport Protocol engine (matter-ble, session.rs, struct *)
(* BtpSession): both ends of a BLE link after the handshake, each running  *)
(* the code's engine in its role, over the two FIFO directions of a GATT   *)
(* connection.  The engine fragments one message (SDU) at a time, numbers  *)
(* every packet, standalone ACKs included, holds at most a window of       *)
(* unacknowledged packets in flight, and has one GATT write outstanding.   *)
(*                                                                         *)
(* Time is counted in ticks.  A tick passes only when nothing can happen   *)
(* at once: packets, GATT completions and due timers are served at once,   *)
(* while the application queues SDUs whenever the pump listens.  Ages stop *)
(* at maxAge: with maxAge < ackTimeout the ACK timeout lies beyond the     *)
(* horizon of the model.                                                   *)
(*                                                                         *)
(* Each engine is driven by the pump of central.rs, which first writes all *)
(* the data the engine offers, then the ACK that is due, each write        *)
(* awaited, and only then selects on commands and indications.  The        *)
(* peripheral is a device; it is given the same engine and pump.           *)
(***************************************************************************)
EXTENDS Integers, Sequences

CONSTANTS
    Window,        \* the negotiated receive window, at most 6 in the code
    SegmentSize,   \* the negotiated fragment size in bytes, 6 .. 244
    SeqMod,        \* the sequence numbers, 2^8 in the code
    AckSend,       \* ACK_SEND_TIMEOUT, in ticks
    Links,         \* the settings of the link considered, see below
    SeqBound       \* bound: no packet is numbered from here on; none if SeqMod

\* One setting of a link:
\*   rxCap       RX_REASSEMBLY_CAP
\*   ackTimeout  ACK_TIMEOUT, in ticks
\*   maxAge      bound: ages are counted up to here
\*   mayClose    the ends that may go away on their own
\*   sdus        bound: the lengths of the SDUs each end queues, in order
Settings ==
    [rxCap : Nat, ackTimeout : Nat, maxAge : Nat,
     mayClose : SUBSET {"Central", "Peripheral"},
     sdus : [{"Central", "Peripheral"} -> Seq(Nat)]]

ASSUME WindowAssumption == Window \in Nat \ {0} /\ Window + 1 < SeqMod
ASSUME SegmentAssumption == SegmentSize \in Nat /\ SegmentSize >= 6
ASSUME SeqModAssumption == SeqMod \in Nat
ASSUME TicksAssumption == AckSend \in Nat
ASSUME LinksAssumption == Links \subseteq Settings

VARIABLES
    link,       \* the setting of this link, one of Links; never changes
    end,        \* the engine of each end
    wire,       \* packets on their way to each end, in order
    received,   \* the SDUs each end handed to its application
    closed,     \* "open", or why the end's pump tore the link down
    out         \* history: packets each end sent that no ACK has covered

vars == <<link, end, wire, received, closed, out>>

Roles == {"Central", "Peripheral"}
Peer(n) == IF n = "Central" THEN "Peripheral" ELSE "Central"

None == -1
Seqs == 0 .. SeqMod - 1

\* u8::wrapping_add.
Inc(seq) == (seq + 1) % SeqMod
Minimum(a, b) == IF a <= b THEN a ELSE b

\* The k-th SDU of end n: its bytes, each told apart from every other.
Sdu(n, k) == [i \in 1 .. link.sdus[n][k] |-> <<n, k, i>>]

\* BtpSession::new.  The handshake response is packet 0 of the peripheral.
\* ackDue is ticks to ack_due_at, since is ticks from tx_unacked_since;
\* txMsg is the SDU in tx_pending, txQueued the SDUs queued so far.
NewEnd(role) ==
    LET central == role = "Central"
    IN  [localWin  |-> IF central THEN Window - 1 ELSE Window,
         rxNext    |-> IF central THEN 1 % SeqMod ELSE 0,
         rxLen     |-> None,
         rxBuf     |-> << >>,
         unackedRx |-> IF central THEN 0 ELSE None,
         ackDue    |-> IF central THEN AckSend ELSE None,
         txNext    |-> IF central THEN 0 ELSE 1 % SeqMod,
         oldest    |-> 0,
         newest    |-> 0,
         expecting |-> ~central,
         since     |-> 0,
         remoteWin |-> Window,
         txMsg     |-> None,
         txSent    |-> 0,
         inFlight  |-> FALSE,
         txQueued  |-> 0]

Init ==
    /\ link \in Links
    /\ end = [n \in Roles |-> NewEnd(n)]
    /\ wire = [n \in Roles |-> << >>]
    /\ received = [n \in Roles |-> << >>]
    /\ closed = [n \in Roles |-> "open"]
    /\ out = [n \in Roles |-> IF n = "Central" THEN << >>
                              ELSE <<[seq |-> 0, age |-> 0]>>]

IsOpen(n) == closed[n] = "open"
-----------------------------------------------------------------------------
\* The gate of next_gatt_write that lets data use the last slot of the remote
\* window without an ACK to re-open the local one.
MaySendUnreserved(s) ==
    /\ ~s.inFlight
    /\ s.txMsg # None
    /\ s.remoteWin # 0

\* The gates of next_gatt_write.
MaySendData(s) ==
    /\ ~s.inFlight
    /\ s.txMsg # None
    /\ s.remoteWin # 0
    /\ s.remoteWin <= 1 => s.unackedRx # None

\* handle_timeout, AckTimedOut: checked before anything else.
TimedOut(s) == s.expecting /\ s.since >= link.ackTimeout

\* The send-ack timer is due and the ACK is not deferred.
MaySendAck(s) ==
    /\ s.ackDue = 0
    /\ s.unackedRx # None
    /\ ~s.inFlight
    /\ s.remoteWin # 0

\* drive_outbound has nothing to write, and the pump waits in its select.
Drained(s) == ~s.inFlight /\ ~MaySendData(s) /\ ~MaySendAck(s) /\ ~TimedOut(s)

\* queue_message that lets a new SDU replace one not fully sent.
QueueMessageReplacing(n) ==
    /\ IsOpen(n)
    /\ Drained(end[n])
    /\ end[n].txQueued < Len(link.sdus[n])
    /\ end' = [end EXCEPT ![n].txQueued = @ + 1,
                          ![n].txMsg = end[n].txQueued + 1,
                          ![n].txSent = 0]
    /\ UNCHANGED <<link, wire, received, closed, out>>

\* queue_message; MessageInFlight while an SDU still has unsent fragments.
QueueMessage(n) ==
    /\ IsOpen(n)
    /\ Drained(end[n])
    /\ end[n].txMsg = None
    /\ end[n].txQueued < Len(link.sdus[n])
    /\ end' = [end EXCEPT ![n].txQueued = @ + 1,
                          ![n].txMsg = end[n].txQueued + 1,
                          ![n].txSent = 0]
    /\ UNCHANGED <<link, wire, received, closed, out>>

\* register_outbound_seq for the packet numbered s.txNext, together with what
\* every departure does: debit the remote window and latch the GATT slot.
Depart(s) ==
    [s EXCEPT !.expecting = TRUE,
              !.oldest    = IF s.expecting THEN @ ELSE s.txNext,
              !.since     = IF s.expecting THEN @ ELSE 0,
              !.newest    = s.txNext,
              !.txNext    = Inc(@),
              !.remoteWin = IF @ = 0 THEN 0 ELSE @ - 1,
              !.inFlight  = TRUE]

\* A pending ACK leaves with a packet.
TakeAck(s) ==
    IF s.unackedRx = None THEN s
    ELSE [s EXCEPT !.unackedRx = None, !.ackDue = None, !.localWin = Window]

Emit(n, packet) ==
    /\ packet.seq < SeqBound
    /\ wire' = [wire EXCEPT ![Peer(n)] = Append(@, packet)]
    /\ out' = [out EXCEPT ![n] = Append(@, [seq |-> packet.seq, age |-> 0])]

\* next_gatt_write, Some(packet).
NextGattWrite(n) ==
    LET s      == end[n]
        msg    == Sdu(n, s.txMsg)
        first  == s.txSent = 0
        header == 2 + (IF s.unackedRx # None THEN 1 ELSE 0)
                    + (IF first THEN 2 ELSE 0)
        last   == Len(msg) - s.txSent + header <= SegmentSize
        upTo   == IF last THEN Len(msg) ELSE s.txSent + SegmentSize - header
    IN  /\ IsOpen(n)
        /\ MaySendData(s)
        /\ Emit(n, [ack |-> s.unackedRx, seq |-> s.txNext, data |-> TRUE,
                    begin |-> first, cont |-> ~first, end |-> last,
                    len |-> Len(msg),
                    payload |-> SubSeq(msg, s.txSent + 1, upTo)])
        /\ end' = [end EXCEPT ![n] =
              [Depart(TakeAck(s)) EXCEPT
                 !.txMsg  = IF last THEN None ELSE @,
                 !.txSent = IF last THEN 0 ELSE upTo]]
        /\ UNCHANGED <<link, received, closed>>

\* gatt_write_completed.
GattWriteCompleted(n) ==
    /\ IsOpen(n)
    /\ end[n].inFlight
    /\ end' = [end EXCEPT ![n].inFlight = FALSE]
    /\ UNCHANGED <<link, wire, received, closed, out>>
-----------------------------------------------------------------------------
\* The interval test of receive_ack that overlooks the wrap past the last
\* sequence number.
ValidAckNoWrap(s, ack) ==
    /\ s.expecting
    /\ ack <= s.newest /\ ack >= s.oldest

\* The interval test of receive_ack.
ValidAck(s, ack) ==
    /\ s.expecting
    /\ IF s.newest >= s.oldest
       THEN ack <= s.newest /\ ack >= s.oldest
       ELSE ack <= s.newest \/ ack >= s.oldest

\* A credit that ignores what was sent after the packet acknowledged.
AdjustRemoteWindowFull(s, ack) == Window

\* adjust_remote_window; SeqMod - 1 is u8::MAX.
AdjustRemoteWindow(s, ack) ==
    LET boundary == ack + Window
    IN  IF boundary > SeqMod - 1 /\ s.newest < ack
        THEN (boundary - (s.newest + (SeqMod - 1))) % SeqMod
        ELSE (boundary - s.newest) % SeqMod

\* receive_ack of a valid ACK; with no ACK in the packet nothing changes.
ReceiveAck(s, ack) ==
    IF ack = None THEN s
    ELSE [s EXCEPT !.oldest    = IF ack = s.newest THEN ack ELSE Inc(ack),
                   !.expecting = ack # s.newest,
                   !.since     = IF ack = s.newest THEN 0 ELSE @,
                   !.remoteWin = AdjustRemoteWindow(s, ack)]

\* What every accepted packet does: advance rx_next_seq, debit the local
\* window, owe an ACK, and arm_ack_timer, at once when the window is nearly
\* full.
Accept(s, seq) ==
    LET left == IF s.localWin = 0 THEN 0 ELSE s.localWin - 1
        due  == IF left <= 1 THEN 0 ELSE AckSend
    IN  [s EXCEPT !.rxNext    = Inc(seq),
                  !.localWin  = left,
                  !.unackedRx = seq,
                  !.ackDue    = IF @ = None THEN due ELSE Minimum(@, due)]

\* The bytes reassembled once packet p is added.
Gathered(s, p) == IF s.rxLen = None THEN p.payload ELSE s.rxBuf \o p.payload

\* The error on_indication returns for packet p, "open" when it returns Ok.
Verdict(s, p) ==
    LET expected == IF s.rxLen = None THEN p.len ELSE s.rxLen
    IN  IF p.ack # None /\ ~ValidAck(s, p.ack) THEN "InvalidAck"
        ELSE IF p.seq # s.rxNext THEN "InvalidSequence"
        ELSE IF ~p.data THEN "open"
        ELSE IF s.rxLen # None /\ (p.begin \/ ~(p.cont \/ p.end))
             THEN "ReassemblerInvalidState"
        ELSE IF s.rxLen = None /\ ~p.begin THEN "ReassemblerInvalidState"
        ELSE IF s.rxLen = None /\ p.len > link.rxCap THEN "ReassemblyOverflow"
        ELSE IF s.rxLen # None /\ Len(Gathered(s, p)) > link.rxCap
             THEN "ReassemblyOverflow"
        ELSE IF p.end /\ Len(Gathered(s, p)) < expected
             THEN "ReassemblerInvalidState"
        ELSE "open"

\* The reassembly state after packet p.
Reassemble(s, p) ==
    IF ~p.data THEN s
    ELSE IF p.end THEN [s EXCEPT !.rxLen = None, !.rxBuf = << >>]
    ELSE [s EXCEPT !.rxLen = IF @ = None THEN p.len ELSE @,
                   !.rxBuf = Gathered(s, p)]

\* What the packets of sequence ps that ACK ack does not cover are.
Uncovered(ps, ack) ==
    LET covered == {i \in 1 .. Len(ps) : ps[i].seq = ack}
    IN  IF covered = {} THEN ps
        ELSE SubSeq(ps, 1 + (CHOOSE i \in covered : TRUE), Len(ps))

\* on_indication of the next packet; an error closes the link.
OnIndication(n) ==
    /\ IsOpen(n)
    /\ Drained(end[n])
    /\ wire[n] # << >>
    /\ wire' = [wire EXCEPT ![n] = Tail(@)]
    /\ LET s == end[n]
           p == Head(wire[n])
       IN  \/ /\ Verdict(s, p) # "open"
              /\ closed' = [closed EXCEPT ![n] = Verdict(s, p)]
              /\ UNCHANGED <<link, end, received, out>>
           \/ /\ Verdict(s, p) = "open"
              /\ end' = [end EXCEPT ![n] =
                    Reassemble(Accept(ReceiveAck(s, p.ack), p.seq), p)]
              /\ received' = [received EXCEPT ![n] =
                    IF p.data /\ p.end
                    THEN Append(@, SubSeq(Gathered(s, p), 1,
                                     IF s.rxLen = None THEN p.len ELSE s.rxLen))
                    ELSE @]
              /\ out' = [out EXCEPT ![n] = Uncovered(@, p.ack)]
              /\ UNCHANGED <<link, closed>>
-----------------------------------------------------------------------------
\* An ACK timeout looked at only once the send-ack timer is not deferred.
HandleAckTimeoutStarved(n) ==
    /\ IsOpen(n)
    /\ ~end[n].inFlight
    /\ ~MaySendData(end[n])
    /\ TimedOut(end[n])
    /\ end[n].ackDue = 0 => end[n].remoteWin # 0
    /\ closed' = [closed EXCEPT ![n] = "AckTimedOut"]
    /\ UNCHANGED <<link, end, wire, received, out>>

\* handle_timeout, AckTimedOut: the pump tears the link down.
HandleAckTimeout(n) ==
    /\ IsOpen(n)
    /\ ~end[n].inFlight
    /\ ~MaySendData(end[n])
    /\ TimedOut(end[n])
    /\ closed' = [closed EXCEPT ![n] = "AckTimedOut"]
    /\ UNCHANGED <<link, end, wire, received, out>>

\* handle_timeout, Ok(Some(packet)): a standalone ACK, itself a numbered
\* packet.
HandleSendAck(n) ==
    /\ IsOpen(n)
    /\ ~MaySendData(end[n])
    /\ ~TimedOut(end[n])
    /\ MaySendAck(end[n])
    /\ Emit(n, [ack |-> end[n].unackedRx, seq |-> end[n].txNext, data |-> FALSE,
                begin |-> FALSE, cont |-> FALSE, end |-> FALSE,
                len |-> 0, payload |-> << >>])
    /\ end' = [end EXCEPT ![n] = Depart(TakeAck(@))]
    /\ UNCHANGED <<link, received, closed>>

\* pump_loop: the channel's owner closes it or drops it.
Close(n) ==
    /\ IsOpen(n)
    /\ n \in link.mayClose
    /\ closed' = [closed EXCEPT ![n] = "Closed"]
    /\ UNCHANGED <<link, end, wire, received, out>>

\* pump_loop: DeviceDisconnected, or the indication stream ends.  The stack
\* below may also never notice that the peer is gone.
Disconnected(n) ==
    /\ IsOpen(n)
    /\ ~IsOpen(Peer(n))
    /\ closed' = [closed EXCEPT ![n] = "Disconnected"]
    /\ UNCHANGED <<link, end, wire, received, out>>

\* Something the engines or the link do at once.
Urgent ==
    \E n \in Roles :
      /\ IsOpen(n)
      /\ \/ wire[n] # << >>
         \/ end[n].inFlight
         \/ TimedOut(end[n])
         \/ MaySendAck(end[n]) /\ end[n].txNext < SeqBound
         \/ MaySendData(end[n]) /\ end[n].txNext < SeqBound

Older(age) == IF age < link.maxAge THEN age + 1 ELSE age

\* The clock.
Tick ==
    /\ ~Urgent
    /\ end' = [n \in Roles |->
          [end[n] EXCEPT !.ackDue = IF @ \in {None, 0} THEN @ ELSE @ - 1,
                         !.since  = IF end[n].expecting THEN Older(@) ELSE @]]
    /\ out' = [n \in Roles |->
          [i \in 1 .. Len(out[n]) |-> [out[n][i] EXCEPT !.age = Older(@)]]]
    /\ UNCHANGED <<link, wire, received, closed>>

Next ==
    \/ \E n \in Roles :
         \/ QueueMessage(n)
         \/ NextGattWrite(n)
         \/ GattWriteCompleted(n)
         \/ OnIndication(n)
         \/ HandleAckTimeout(n)
         \/ HandleSendAck(n)
         \/ Close(n)
         \/ Disconnected(n)
    \/ Tick

Spec == Init /\ [][Next]_vars

\* The pump of central.rs writes what next_gatt_write offers, releases the
\* slot when the write resolves, feeds every indication, and sleeps until
\* poll_timeout; the link delivers what was written.
FairSpec ==
    /\ Spec
    /\ WF_vars(Tick)
    /\ \A n \in Roles :
         /\ WF_vars(NextGattWrite(n))
         /\ WF_vars(GattWriteCompleted(n))
         /\ WF_vars(OnIndication(n))
         /\ WF_vars(HandleSendAck(n))
         /\ WF_vars(HandleAckTimeout(n))
-----------------------------------------------------------------------------
Errors == {"InvalidAck", "InvalidSequence", "ReassemblerInvalidState",
           "ReassemblyOverflow"}

\* Each application gets exactly the peer's SDUs, whole, once and in order,
\* across fragmentation, piggybacked ACKs and the wrap of sequence numbers.
SdusArriveInOrder ==
    \A n \in Roles :
      /\ Len(received[n]) <= end[Peer(n)].txQueued
      /\ \A k \in 1 .. Len(received[n]) : received[n][k] = Sdu(Peer(n), k)

\* Two ends that both follow the code never refuse each other's packets, a
\* message beyond the reassembly cap excepted: every ACK lies in the
\* outstanding interval, every sequence number is the one expected, every
\* fragment fits the reassembly state.
NoProtocolError ==
    \A n \in Roles :
      closed[n] \in Errors =>
        /\ closed[n] = "ReassemblyOverflow"
        /\ \E k \in 1 .. Len(link.sdus[Peer(n)]) :
             link.sdus[Peer(n)][k] > link.rxCap

\* remote_window is "how many more data fragments we may put on the wire
\* before we must wait for an ack" (session.rs): a central never has more than
\* a window of packets that the peer has not acknowledged.
WindowRespected == Len(out["Central"]) <= Window

\* The same as far as it holds: the window is exceeded by one packet at most,
\* and only while the packets from the last one acknowledged to the newest
\* wrap past the last sequence number.
WindowRespectedUnlessWrapping ==
    LET o     == out["Central"]
        wraps == o # << >> /\ o[Len(o)].seq < (o[1].seq + SeqMod - 1) % SeqMod
    IN  Len(o) <= Window + (IF wraps THEN 1 ELSE 0)

\* Nobody waits on everybody: an SDU that was queued is delivered unless the
\* link is torn down, although each end may send into a closed window only
\* after the other's ACK.
QueuedIsDelivered ==
    \A n \in Roles :
      end[n].txQueued > Len(received[Peer(n)]) ~>
        \/ end[n].txQueued = Len(received[Peer(n)])
        \/ ~IsOpen(n)
        \/ ~IsOpen(Peer(n))

\* A peer that falls silent is noticed without help from the stack: an end
\* that awaits an ACK from it closes in the end, and an ACK of its own that is
\* stuck behind a closed window does not put that off.
SilentPeerIsNoticed ==
    \A n \in Roles :
      ~IsOpen(Peer(n)) /\ end[n].expecting ~> ~IsOpen(n)
=============================================================================
