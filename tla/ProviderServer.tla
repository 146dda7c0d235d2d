--------------------------- MODULE ProviderServer ---------------------------
(***************************************************************************)
(* The OTA provider server (matter-controller, provider_server.rs): it     *)
(* accepts CASE sessions one after the other and serves the update on each *)
(* until the requestor reports the update applied.                         *)
(*                                                                         *)
(* The server `s` is sequential.  Between two receptions it does not wait  *)
(* for anything, so one step of it is Handle(s, f): everything from the    *)
(* reception of the frame f to the next reception, its sends collected in  *)
(* s.out.  s.pc tells which reception it is blocked in.  A frame of a      *)
(* secured session carries the session's keys and id, the number `seq` of  *)
(* the message and, for BDX, its block counter or block size `n`.          *)
(*                                                                         *)
(* Left out: the discard budget of an accept that has no Sigma1 yet (64    *)
(* frames; running out takes no credential and begins the same wait anew)  *)
(* and the backstop on frames that serve nothing (1024 and more).          *)
(***************************************************************************)
EXTENDS UnsecuredExchange, BlockSender

CONSTANTS Pool,             \* the credentials minted for the serve
          Expected,         \* the node the serve is pinned to
          MaxFrames,        \* MAX_AWAIT_SIGMA3_FRAMES
          Slack             \* messages allowed beyond one per block

ASSUME ServerAssumption == {Pool, MaxFrames, Slack} \subseteq Nat \ {0}

\* new, with_resumption_records and with_expected_peer.  The fields after
\* `why` are history: the sessions whose keys the responder has derived, and
\* the attempts it answered with the Sigma2 of another.
NewServer(records) ==
    [pc |-> "accept", creds |-> Pool, accepts |-> 0, ctr |-> 1, records |-> records,
     m1 |-> None, resp |-> None, frames |-> 0, sess |-> None, seen |-> {},
     bdx |-> None, progress |-> 0, out |-> {}, why |-> None,
     derived |-> <<>>, mixed |-> {}]

Fails(s, why) == [s EXCEPT !.pc = "failed", !.why = why]

\* The outer loop of serve_ota_once: wait for the next Sigma1, unless the
\* pool is used up.
NextAccept(s) == IF s.creds = 0 THEN Fails(s, "Exhausted")
                 ELSE [s EXCEPT !.pc = "accept", !.sess = None, !.resp = None,
                                !.m1 = None, !.frames = 0]

\* encode_unsecured_reply and send: on the exchange of m, addressed to the
\* node id m came from, sent to where the Sigma1 came from.
Reply(s, m, op, body) ==
    [s EXCEPT !.ctr = @ + 1,
              !.out = @ \cup {[to |-> s.m1.src[1], ex |-> m.ex, dst |-> m.src,
                               ctr |-> s.ctr, op |-> op, body |-> body]}]

\* Keeping the record of the session that is resumed.
KeepRecord(s, record) == s

\* The record of a session that is resumed is used up.
TakeRecord(s, record) == [s EXCEPT !.records = @ \ {record}]

\* accept_case once a Sigma1 is in hand: it takes a credential, resumes if the
\* id offered is known and answers in full if not.
BeginHandshake(s, m1) ==
    LET r == NewResponder(s.accepts + 1, s.accepts + 1)
        known == IF ResumptionRequested(m1.body)
                 THEN {d \in s.records : d.id = m1.body.resume.id} ELSE {}
        begun == [s EXCEPT !.creds = @ - 1, !.accepts = @ + 1, !.m1 = m1, !.frames = 0]
        full == AnswerInFull(r, m1.body)
    IN  IF known = {}
        THEN Reply([begun EXCEPT !.pc = "sigma3", !.resp = full], m1, "Sigma2", full.reply)
        ELSE LET record == CHOOSE d \in known : TRUE
                 taken == TakeRecord(begun, record)
                 resumed == AcceptResumption(r, m1.body, record)
             IN  IF resumed = Failed
                 THEN [NextAccept(taken) EXCEPT !.why = "Mac"]
                 ELSE Reply([taken EXCEPT !.pc = "resume", !.resp = resumed,
                                          !.derived = Append(@, resumed.output)],
                            m1, "Sigma2Resume", resumed.reply)

\* The wait for a Sigma1: anything else is discarded.
AwaitSigma1(s, f) == IF Unsecured(f) /\ f.op = "Sigma1" THEN BeginHandshake(s, f) ELSE s

\* A frame carried into the next accept.
Carry(s, f) == LET n == NextAccept(s) IN IF n.pc = "accept" THEN AwaitSigma1(n, f) ELSE n

\* One frame of the budget for the initiator's next message is gone.
Budget(s) == IF s.frames + 1 >= MaxFrames THEN NextAccept(s)
             ELSE [s EXCEPT !.frames = @ + 1]

\* Any Sigma1 is taken for a retransmission: the reply is sent again, on the
\* exchange this Sigma1 came on.
ReplyAgain(s, f, op) ==
    Reply([s EXCEPT !.mixed = IF f.src = s.m1.src THEN @ ELSE @ \cup {f.src}],
          f, op, s.resp.reply)

\* Storing the record of whoever completed the handshake.
EstablishedUnpinned(s) ==
    LET record == s.resp.output.record
        kept == [s EXCEPT !.records = @ \cup {record}]
    IN  IF record.node # Expected THEN NextAccept(kept)
        ELSE [kept EXCEPT !.pc = "serve", !.sess = s.resp.output, !.seen = {},
                          !.progress = 0]

\* The end of accept_case: the pinned node only, then the rotated record is
\* kept for the next accept and the session is registered.
Established(s) ==
    LET record == s.resp.output.record
    IN  IF record.node # Expected THEN NextAccept(s)
        ELSE [s EXCEPT !.records = @ \cup {record}, !.pc = "serve",
                       !.sess = s.resp.output, !.seen = {}, !.progress = 0]

\* complete_full up to the success report.
AwaitSigma3(s, f) ==
    IF ~Unsecured(f) THEN NextAccept(s)
    ELSE CASE f.op = "Sigma3" ->
                LET r == HandleSigma3(s.resp, f.body)
                IN  IF r = Failed THEN NextAccept(s)
                    ELSE Reply([s EXCEPT !.pc = "close", !.resp = r,
                                         !.derived = Append(@, r.output)],
                               f, "StatusReport", None)
           [] f.op = "Ack"    -> Budget(s)
           [] f.op = "Sigma1" -> Budget(ReplyAgain(s, f, "Sigma2"))
           [] OTHER           -> NextAccept(s)

\* complete_resumed.
AwaitReport(s, f) ==
    IF ~Unsecured(f) THEN NextAccept(s)
    ELSE CASE f.op = "StatusReport" -> Established(Reply(s, f, "Ack", None))
           [] f.op = "Ack"    -> Budget(s)
           [] f.op = "Sigma1" -> Budget(ReplyAgain(s, f, "Sigma2Resume"))
           [] OTHER           -> NextAccept(s)

\* A reply on the session, to the request f.
Respond(s, f, op, n, data) ==
    [s EXCEPT !.out = @ \cup {[to |-> s.m1.src[1], keys |-> s.sess.keys, re |-> f.seq,
                               op |-> op, n |-> n, data |-> data]}]

\* Serving a transfer on with the sender of an earlier one.
NotRearmed(s, f) == s.bdx

\* Starting over from where the earlier transfer stopped.
RearmedInPlace(s, f) ==
    IF f.op = "ReceiveInit" /\ s.bdx # None
    THEN [s.bdx EXCEPT !.state = "AwaitingInit", !.next = 0] ELSE s.bdx

\* A ReceiveInit starts the transfer over, on whichever session it comes.
Armed(s, f) == IF f.op = "ReceiveInit" /\ s.bdx # None THEN NewSender ELSE s.bdx

\* The BDX arm of serve_ota_once.
Transfer(s, f) ==
    IF s.bdx = None THEN Fails(s, "BeforeQuery")
    ELSE LET o == CASE f.op = "ReceiveInit" -> AcceptReceiveInit(Armed(s, f), f.n)
                    [] f.op = "BlockQuery"  -> HandleBlockQuery(s.bdx, f.n)
                    [] f.op = "BlockAckEof" -> HandleBlockAckEof(s.bdx, f.n)
             t == [s EXCEPT !.bdx = o.sender]
         IN  CASE o.op = "Abort" -> Fails(Respond(t, f, "StatusReport", 0, <<>>), "Transfer")
               [] o.op = "Done"  -> t
               [] OTHER          -> Respond(t, f, o.op, o.n, o.data)

\* The dispatch of one new message of the session.
Dispatch(s, f) ==
    CASE f.op = "QueryImage" -> Respond([s EXCEPT !.bdx = NewSender], f,
                                        "QueryImageResponse", 0, <<>>)
      [] f.op = "ApplyUpdateRequest" -> Respond(s, f, "ApplyUpdateResponse", 0, <<>>)
      [] f.op = "NotifyUpdateApplied" -> [Respond(s, f, "Success", 0, <<>>)
                                             EXCEPT !.pc = "done"]
      [] f.op = "StatusReport" -> Fails(s, "PeerAborted")
      [] OTHER -> Transfer(s, f)

\* One more message served, within the bound on a session.
MaxProgress == ImageLen \div (IF MaxBlock = 0 THEN 1 ELSE MaxBlock) + Slack

Served(s) ==
    LET n == [s EXCEPT !.progress = @ + 1]
    IN  IF n.pc = "serve" /\ n.progress >= MaxProgress THEN Fails(n, "Unfinished") ELSE n

\* The inner loop: an unsecured frame ends the session and is carried into
\* the next accept; a frame of another session, or one already seen, is
\* skipped; the rest is served.
Serve(s, f) ==
    CASE Unsecured(f) -> Carry(s, f)
      [] ~Unsecured(f) /\ (\/ f.keys # s.sess.keys \/ f.sid # s.sess.local
                           \/ f.seq \in s.seen) -> s
      [] OTHER -> Served(Dispatch([s EXCEPT !.seen = @ \cup {f.seq}], f))

\* The one reception after the success report: a secured frame is served
\* first, a Sigma1 on another exchange opens the next accept.
Close(s, f) ==
    LET e == Established(s)
    IN  CASE e.pc = "serve" /\ ~Unsecured(f) -> Serve(e, f)
          [] /\ e.pc = "serve" /\ Unsecured(f)
             /\ f.op = "Sigma1" /\ f.ex # s.m1.ex -> Carry(e, f)
          [] OTHER -> e

Handle(s, f) ==
    CASE s.pc = "accept" -> AwaitSigma1(s, f)
      [] s.pc = "sigma3" -> AwaitSigma3(s, f)
      [] s.pc = "resume" -> AwaitReport(s, f)
      [] s.pc = "close"  -> Close(s, f)
      [] s.pc = "serve"  -> Serve(s, f)
=============================================================================
