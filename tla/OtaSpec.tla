------------------------------ MODULE OtaSpec -------------------------------
(***************************************************************************)
(* The OTA provider server serving over a network that loses, delays,      *)
(* reorders and repeats datagrams.  Nodes open CASE sessions to it with    *)
(* the repository's own initiator driver (run_case_establish_with over an  *)
(* UnsecuredExchange), as its loopback tests do, and the pinned node then  *)
(* acts as OTA requestor.                                                  *)
(*                                                                         *)
(* A datagram once sent, to the server (`inbox`) or to a node (`back`),    *)
(* may be delivered at any later time, again and again, or never; so a     *)
(* retransmission adds nothing to what is in the network, and a delivery   *)
(* without effect is left out.                                             *)
(*                                                                         *)
(* dev[n] is node n: its handshake attempt (initiator i, exchange x), the  *)
(* session it holds, the record it keeps and how far its update is.  A     *)
(* node may drop a session at any time and connect again (reboot, link     *)
(* loss, no answer); what it has loaded is lost with the session.          *)
(***************************************************************************)
EXTENDS ProviderServer

CONSTANTS Nodes,            \* the nodes that connect
          Proposals,        \* block sizes a ReceiveInit proposes
          Settings          \* of the server's records, the pinned node's record,
                            \* the delays an attempt starts from and those that
                            \* Sigma2 carries, if any, how often each
                            \* node connects (a bound), and whether the random
                            \* exchange ids of the attempts collide

\* The values of Case: an attempt is a node and a number, a secret an attempt
\* and an accept, and what a handshake yields is made of those.
Attempts == Nodes \X Nat
Secrets == Attempts \X Nat
Records == [id : Int, secret : Secrets, node : Nodes]
Keys == ({"full"} \X Attempts \X Nat) \cup ({"resumed"} \X Secrets \X Attempts \X Int)
Outputs == [keys : Keys, local : Nat, peer : Nat, record : Records]
Sigma1s == [rand : Attempts, sid : Nat,
            resume : {None} \cup [id : Int, mic : Secrets \X Attempts \X Int]]
Resumptions == [eph : Nat, sid : Nat, s1 : Sigma1s, output : Outputs,
                reply : [id : Nat, sid : Nat, mic : Secrets \X Attempts \X Nat]]
Completions == [eph : Nat, sid : Nat, s1 : Sigma1s, output : Outputs,
                reply : [eph : Nat, sid : Nat, id : Nat, s1 : Sigma1s]]

\* What an earlier serve left with the two sides: records of the pinned node,
\* from attempts of its own, under ids that no accept to come draws again.
Left(g) == g.records \cup ({g.record} \ {None})

ASSUME OtaAssumption ==
    /\ Expected \in Nodes
    /\ \A g \in Settings :
         /\ g.attempts \in [Nodes -> Nat]
         /\ Left(g) \subseteq Records
         /\ \A r \in Left(g) : r.id <= 0 /\ r.node = Expected /\ r.secret[1][1] = Expected
         /\ \A q, r \in Left(g) : q.id = r.id => q = r

\* None is not a value that a machine, a frame or a failure may also have.
ASSUME NoneAssumption ==
    None \notin Attempts \cup Outputs \cup Resumptions \cup Completions \cup {"Mac", "Crypto"}

VARIABLES s, dev, inbox, back, set

vars == <<s, dev, inbox, back, set>>

NewNode(record) ==
    [pc |-> "idle", why |-> None, att |-> 0, i |-> None, x |-> None, sess |-> None,
     record |-> record, phase |-> "query", seq |-> 0, frame |-> None,
     image |-> <<>>, next |-> 0]

Init == \E g \in Settings :
    /\ s = NewServer(g.records)
    /\ dev = [n \in Nodes |-> NewNode(IF n = Expected THEN g.record ELSE None)]
    /\ inbox = {} /\ back = {}
    /\ set = g

-----------------------------------------------------------------------------
\* The initiator: run_case_establish_with.

Waiting(n) == dev[n].pc \in {"sigma1", "sigma3", "close"}

\* From the call up to the wait for Sigma2.  `phase` is where the update goes
\* on after a restart of the node.  (A bound: nobody connects to a server that
\* has returned.)
Connect(n, record, phase) ==
    /\ ~Waiting(n) /\ dev[n].att < set.attempts[n] /\ s.pc \notin {"done", "failed"}
    /\ LET att == dev[n].att + 1
           i == NewInitiator(<<n, att>>, n, att, record)
           ex == IF set.collide THEN 0 ELSE att
           x == Sending(NewExchange(ex, <<n, att>>, set.mrp), "Sigma1", Start(i))
       IN  /\ dev' = [dev EXCEPT ![n] =
                         [NewNode(@.record) EXCEPT !.pc = "sigma1", !.att = att, !.i = i,
                                                   !.x = x, !.phase = phase,
                                                   !.image = dev[n].image]]
           /\ inbox' = inbox \cup {x.frame}
    /\ UNCHANGED <<s, back, set>>

Expects(d) == CASE d.pc = "sigma3"      -> {"StatusReport"}
                [] d.pc = "sigma1"      -> {"Sigma2"} \cup (IF d.i.record = None THEN {}
                                                          ELSE {"Sigma2Resume"})

\* The driver returns the session and the caller keeps the record.
Up(d) == [d EXCEPT !.pc = "up", !.record = d.sess.record]

Resized(x) == IF set.params = None THEN x ELSE ResizePeerMrp(x, set.params)

\* What the driver does with the response it waited for: its next state and
\* the frames it sends.
Proceed(d, f) ==
    LET x == Consumed(d.x, f)
        Stop(why) == [d EXCEPT !.pc = "failed", !.why = why, !.x = x]
        Step(pc, out, op, body) ==
            LET e == [d EXCEPT !.pc = pc, !.sess = out, !.x = Sending(Resized(x), op, body)]
            IN  IF out = Failed THEN <<Stop("Crypto"), {}>> ELSE <<e, {e.x.frame}>>
    IN  CASE d.pc = "sigma3" -> <<Up([d EXCEPT !.x = x]), {StandaloneAck(x)}>>
          [] d.pc = "sigma1" /\ f.op = "StatusReport" ->
                <<Stop("Rejected"), {StandaloneAck(x)}>>
          [] d.pc = "sigma1" /\ f.op = "Sigma2Resume" ->
                Step("close", HandleSigma2Resume(d.i, f.body), "StatusReport", None)
          [] OTHER ->
                Step("sigma3", HandleSigma2(d.i, f.body), "Sigma3", Sigma3(d.i, f.body))

\* send_and_recv_any takes a frame off the socket.
Receives(n, f) ==
    /\ f.to = n /\ dev[n].pc \in {"sigma1", "sigma3"}
    /\ \E d \in {dev[n]} : \E x \in {Skipped(d.x, f)} :
       \E r \in {IF IsAwaited(d.x, f, Expects(d)) THEN Proceed(d, f)
                 ELSE <<[d EXCEPT !.x = x], Resends(x)>>} :
         /\ dev' = [dev EXCEPT ![n] = r[1]]
         /\ inbox' = inbox \cup r[2]
    /\ dev' # dev
    /\ UNCHANGED <<s, back, set>>

\* send_and_await_ack does: only the acknowledgement ends it.
ReceivesAck(n, f) ==
    /\ f.to = n /\ dev[n].pc = "close"
    /\ Ours(dev[n].x, f) /\ f.op = "Ack"
    /\ dev' = [dev EXCEPT ![n] = Up(@)]
    /\ UNCHANGED <<s, inbox, back, set>>

\* A wait of either runs out.  The last one fails the handshake, but a missing
\* acknowledgement of the report does not.
TimesOut(n) ==
    /\ Waiting(n)
    /\ LET d == dev[n]
           x == IF d.x.acked THEN d.x ELSE Spent(d.x)
           last == OutOfTime(d.x)
       IN  /\ dev' = [dev EXCEPT ![n] =
                         CASE ~last -> [d EXCEPT !.x = x]
                           [] last /\ d.pc = "close" -> Up([d EXCEPT !.x = x])
                           [] OTHER -> [d EXCEPT !.pc = "failed", !.why = "Timeout",
                                                 !.x = x]]
           /\ inbox' = IF last THEN inbox ELSE inbox \cup {x.frame}
    /\ UNCHANGED <<s, back, set>>

-----------------------------------------------------------------------------
\* The requestor's dialogue, as the loopback tests drive it.

\* Where an update may go on after a restart: a download that was under way is
\* begun again, by a new query or from the image URI the node remembers.
Restarts(phase) == IF phase \in {"init", "block"} THEN {"query", "init"} ELSE {phase}

RequestOf(phase) == CASE phase = "query"  -> "QueryImage"
                      [] phase = "init"   -> "ReceiveInit"
                      [] phase = "block"  -> "BlockQuery"
                      [] phase = "apply"  -> "ApplyUpdateRequest"
                      [] phase = "notify" -> "NotifyUpdateApplied"

Secured(d, op, k) == [keys |-> d.sess.keys, sid |-> d.sess.peer, seq |-> d.seq + 1,
                      op |-> op, n |-> k]

\* The next request of the dialogue.
Request(n) ==
    LET d == dev[n]
    IN  /\ d.pc = "up" /\ d.frame = None /\ d.phase # "done"
        /\ \E k \in CASE d.phase = "init"  -> Proposals
                       [] d.phase = "block" -> {d.next}
                       [] OTHER             -> {0} :
             LET f == Secured(d, RequestOf(d.phase), k)
             IN  /\ dev' = [dev EXCEPT ![n].seq = f.seq, ![n].frame = f]
                 /\ inbox' = inbox \cup {f}
        /\ UNCHANGED <<s, back, set>>

\* The node cannot store a block: it aborts the transfer and the update.
AbortsTransfer(n) ==
    /\ dev[n].pc = "up" /\ dev[n].phase = "block" /\ dev[n].frame = None
    /\ inbox' = inbox \cup {Secured(dev[n], "StatusReport", 0)}
    /\ dev' = [dev EXCEPT ![n].pc = "failed", ![n].why = "Aborted", ![n].phase = "query"]
    /\ UNCHANGED <<s, back, set>>

\* An answer on the session.  The last block is acknowledged with a
\* BlockAckEOF, which nothing answers; any other answer (the StatusReport of an
\* abort) ends the update.
Answered(n, f) ==
    /\ f.to = n /\ ~Unsecured(f)
    /\ dev[n].pc = "up" /\ dev[n].frame # None
    /\ f.keys = dev[n].sess.keys /\ f.re = dev[n].frame.seq
    /\ LET d == [dev[n] EXCEPT !.frame = None]
           Block(phase, k) == [d EXCEPT !.phase = phase, !.image = @ \o f.data,
                                        !.next = f.n + 1, !.seq = @ + k]
           then == CASE f.op = "QueryImageResponse"  -> [d EXCEPT !.phase = "init"]
                     [] f.op = "ReceiveAccept"       -> [d EXCEPT !.phase = "block",
                                                                  !.image = <<>>, !.next = 0]
                     [] f.op = "Block"               -> Block("block", 0)
                     [] f.op = "BlockEof"            -> Block("apply", 1)
                     [] f.op = "ApplyUpdateResponse" -> [d EXCEPT !.phase = "notify"]
                     [] f.op = "Success"             -> [d EXCEPT !.phase = "done"]
                     [] OTHER                        -> [d EXCEPT !.pc = "failed",
                                                                  !.why = "Aborted"]
       IN  /\ dev' = [dev EXCEPT ![n] = then]
           /\ inbox' = IF f.op = "BlockEof"
                       THEN inbox \cup {Secured(d, "BlockAckEof", f.n)} ELSE inbox
    /\ UNCHANGED <<s, back, set>>

-----------------------------------------------------------------------------
\* The server handles one frame, and its replies leave.
Serves(f) ==
    /\ s.pc \notin {"done", "failed"}
    /\ \E t \in {Handle(s, f)} :
         /\ s' = [t EXCEPT !.out = {}]
         /\ back' = back \cup t.out
    /\ s' # s
    /\ UNCHANGED <<dev, inbox, set>>

Next ==
    \/ \E n \in Nodes : \E record \in {None, dev[n].record},
                         phase \in Restarts(dev[n].phase) :
         Connect(n, record, phase)
    \/ \E n \in Nodes, f \in back : Receives(n, f) \/ ReceivesAck(n, f)
    \/ \E n \in Nodes : TimesOut(n)
    \/ Request(Expected)
    \/ AbortsTransfer(Expected)
    \/ \E f \in back : Answered(Expected, f)
    \/ \E f \in inbox : Serves(f)

Spec == Init /\ [][Next]_vars

-----------------------------------------------------------------------------
\* A node whose driver has returned a session shares it with the server: some
\* accept derived the same keys, with each other's session ids, and the two
\* hold the same record for resuming it (the driver returns Ok without the
\* last acknowledgement; the record's id rotates at every accept).
KeysAgree ==
    \A n \in Nodes : dev[n].pc = "up" =>
        \E k \in DOMAIN s.derived :
            LET mine == dev[n].sess
                theirs == s.derived[k]
            IN  /\ theirs.keys = mine.keys /\ theirs.record = mine.record
                /\ theirs.local = mine.peer /\ theirs.peer = mine.local

\* No two accepts ever derive the same session keys, however a Sigma1 is
\* repeated: message counters start anew in every session, so keys used twice
\* would encrypt two messages under one nonce (swap_remove in accept_case).
SessionKeysFresh ==
    \A j, k \in DOMAIN s.derived : s.derived[j].keys = s.derived[k].keys => j = k

\* Between parties that follow the protocol a handshake message never fails to
\* verify, whatever is late or repeated and whichever exchange ids collide
\* (the cross-attempt guard of send_and_recv_any), with two exceptions.  At a
\* node: an attempt whose Sigma1 the server took for a retransmission of an
\* earlier attempt's, and answered with the Sigma2 of that one.  At the server:
\* a Sigma3 that answers the Sigma2 of an earlier accept, since complete_full
\* takes any Sigma3 for the one it waits for.  It fails this accept and costs
\* its credential; a Sigma3 that answers this accept's Sigma2 never does.
HandshakesVerify ==
    /\ s.why # "Mac"
    /\ \A n \in Nodes : dev[n].why = "Crypto" => dev[n].x.src \in s.mixed
    /\ s.pc = "sigma3" =>
         \A f \in inbox : Unsecured(f) /\ f.op = "Sigma3" =>
             (HandleSigma3(s.resp, f.body) = Failed => f.body.s2.eph < s.accepts)

\* A node other than the pinned one can complete a handshake, but it is never
\* served and leaves no record it could resume (accept_case: "a rejected peer
\* must leave no resumption state behind").
PinnedPeerOnly ==
    /\ \A r \in s.records : r.node = Expected
    /\ s.pc = "serve" => s.sess.record.node = Expected

\* A node that applies the update has the whole image, in order, whatever was
\* repeated and however often the download began anew on another session.
ImageIntact ==
    dev[Expected].phase \in {"apply", "notify", "done"} => dev[Expected].image = Image

\* Late, repeated and lost frames, restarts and failed handshakes never end the
\* serve while a credential is left: only the node's own abort does ("only
\* pool exhaustion (or the caller's deadline) ends the serve").
ServeFailsOnlyWhenSpent == s.pc = "failed" => s.why \in {"Exhausted", "PeerAborted"}
=============================================================================
