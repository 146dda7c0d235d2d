-------------------------------- MODULE Case --------------------------------
(***************************************************************************)
(* The two CASE state machines of matter-crypto (case/initiator.rs and     *)
(* case/responder.rs), sans I/O.  Cryptography is symbolic: a MIC or a key *)
(* is the tuple of what it is derived from, and what was sealed under a    *)
(* transcript opens exactly under the same transcript.  The initiator's    *)
(* random and ephemeral key are its attempt, the responder's are its       *)
(* accept, and a resumption id is the accept that drew it.  All parties    *)
(* hold valid certificates of one fabric and Sigma1 is addressed to this   *)
(* responder, so the certificate and destination checks succeed.           *)
(***************************************************************************)
EXTENDS Naturals

CONSTANT None               \* Option::None

Failed == None              \* the machine returned an error

\* ResumptionRecord: the id to present, the ECDH secret, whose session it was.
Record(id, secret, node) == [id |-> id, secret |-> secret, node |-> node]

\* CaseInitiator::new / new_with_resumption: `record` is None for a plain one.
NewInitiator(attempt, node, sid, record) ==
    [rand |-> attempt, node |-> node, sid |-> sid, record |-> record]

\* CaseInitiator::start: the Sigma1 message, with the resumption fields when
\* there is a record.
Start(i) ==
    [rand   |-> i.rand,
     sid    |-> i.sid,
     resume |-> IF i.record = None THEN None
                ELSE [id  |-> i.record.id,
                      mic |-> <<i.record.secret, i.rand, i.record.id>>]]

FullKeys(rand, eph) == <<"full", rand, eph>>
ResumedKeys(secret, rand, oldId) == <<"resumed", secret, rand, oldId>>

\* A finished handshake: what CaseSessionOutput tells its holder.
Output(keys, local, peer, record) ==
    [keys |-> keys, local |-> local, peer |-> peer, record |-> record]

\* CaseResponder::new and handle_sigma1.
NewResponder(accept, sid) == [eph |-> accept, sid |-> sid, s1 |-> None,
                              reply |-> None, output |-> None]

ResumptionRequested(s1) == s1.resume # None

\* build_sigma2: sealed under a key salted with the hash of Sigma1.
Sigma2(r, s1) == [eph |-> r.eph, sid |-> r.sid, id |-> r.eph, s1 |-> s1]

\* The new-session arm of handle_sigma1, and reject_resumption: both build the
\* Sigma2 of a full handshake.
AnswerInFull(r, s1) == [r EXCEPT !.s1 = s1, !.reply = Sigma2(r, s1)]

\* A responder that derives the next secret anew instead of keeping it.
AcceptResumptionNewSecret(r, s1, record) ==
    IF s1.resume.mic # <<record.secret, s1.rand, record.id>>
    THEN Failed
    ELSE [r EXCEPT
            !.s1 = s1,
            !.reply = [id |-> r.eph, sid |-> r.sid,
                       mic |-> <<record.secret, s1.rand, r.eph>>],
            !.output = Output(ResumedKeys(record.secret, s1.rand, record.id),
                              r.sid, s1.sid,
                              Record(r.eph, <<s1.rand, r.eph>>, record.node))]

\* accept_resumption: the MIC proves the initiator holds the record's secret;
\* the keys come from the id presented, the MIC and the next record carry a
\* fresh id and the same secret.  next_message then completes the machine.
AcceptResumption(r, s1, record) ==
    IF s1.resume.mic # <<record.secret, s1.rand, record.id>>
    THEN Failed
    ELSE [r EXCEPT
            !.s1 = s1,
            !.reply = [id |-> r.eph, sid |-> r.sid,
                       mic |-> <<record.secret, s1.rand, r.eph>>],
            !.output = Output(ResumedKeys(record.secret, s1.rand, record.id),
                              r.sid, s1.sid,
                              Record(r.eph, record.secret, record.node))]

\* handle_sigma3 / process_sigma3: opens only under the transcript this
\* machine has seen; the initiator's node comes from its certificate.
HandleSigma3(r, s3) ==
    IF s3.s1 # r.s1 \/ s3.s2 # r.reply
    THEN Failed
    ELSE [r EXCEPT !.output = Output(FullKeys(r.s1.rand, r.eph), r.sid, r.s1.sid,
                                     Record(r.eph, <<r.s1.rand, r.eph>>, s3.node))]

\* CaseInitiator::handle_sigma2 / process_sigma2.
HandleSigma2(i, s2) ==
    IF s2.s1 # Start(i)
    THEN Failed
    ELSE Output(FullKeys(i.rand, s2.eph), i.sid, s2.sid,
                Record(s2.id, <<i.rand, s2.eph>>, i.node))

\* The Sigma3 process_sigma2 builds.
Sigma3(i, s2) == [node |-> i.node, s1 |-> Start(i), s2 |-> s2]

\* CaseInitiator::handle_sigma2_resume.
HandleSigma2Resume(i, s2r) ==
    IF i.record = None \/ s2r.mic # <<i.record.secret, i.rand, s2r.id>>
    THEN Failed
    ELSE Output(ResumedKeys(i.record.secret, i.rand, i.record.id), i.sid, s2r.sid,
                Record(s2r.id, i.record.secret, i.node))
=============================================================================
