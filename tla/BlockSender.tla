---------------------------- MODULE BlockSender -----------------------------
(***************************************************************************)
(* The receiver-driven BDX sender (matter-bdx, sender.rs), sans I/O.  The  *)
(* image is the bytes 0 .. ImageLen - 1, each standing for itself, so a    *)
(* block is the sequence of the bytes it carries.                          *)
(***************************************************************************)
EXTENDS Naturals, Sequences

CONSTANTS ImageLen,         \* image.len()
          MaxBlock          \* the max_block_size the provider serves with

ASSUME BlockAssumption == ImageLen \in Nat /\ MaxBlock \in Nat

Image == [n \in 1 .. ImageLen |-> n - 1]

\* from_shared.
NewSender == [state |-> "AwaitingInit", block |-> MaxBlock, offset |-> 0, next |-> 0]

Send(b, op, n, data) == [sender |-> b, op |-> op, n |-> n, data |-> data]
Abort(b) == [sender |-> [b EXCEPT !.state = "Aborted"], op |-> "Abort", n |-> 0,
             data |-> <<>>]

\* accept_receive_init, for a receiver-driven proposal.
AcceptReceiveInit(b, proposed) ==
    IF b.state # "AwaitingInit" THEN Abort(b)
    ELSE Send([b EXCEPT !.state = "Sending",
                        !.block = IF proposed < @ THEN proposed ELSE @],
              "ReceiveAccept", 0, <<>>)

\* handle_block_query: the next block; the block that reaches the end of the
\* image is the BlockEOF.
HandleBlockQuery(b, n) ==
    IF b.state # "Sending" \/ n # b.next THEN Abort(b)
    ELSE LET end == IF b.offset + b.block < ImageLen THEN b.offset + b.block
                    ELSE ImageLen
             eof == end = ImageLen
         IN  Send([b EXCEPT !.offset = end, !.next = @ + 1,
                            !.state = IF eof THEN "AwaitingEofAck" ELSE @],
                  IF eof THEN "BlockEof" ELSE "Block", n,
                  SubSeq(Image, b.offset + 1, end))

\* handle_block_ack_eof: the acknowledged block is the last one sent.
HandleBlockAckEof(b, n) ==
    IF b.state # "AwaitingEofAck" \/ n + 1 # b.next THEN Abort(b)
    ELSE Send([b EXCEPT !.state = "Complete"], "Done", n, <<>>)
=============================================================================
