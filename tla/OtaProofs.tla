----------------------------- MODULE OtaProofs ------------------------------
(***************************************************************************)
(* Proofs about OtaSpec: the sessions that the OTA provider server and the *)
(* nodes agree on, for every number of nodes, attempts and credentials.    *)
(*                                                                         *)
(* The server's invariant is stated of a server record v, the frames b     *)
(* sent to it and the frames o it has sent, so that it can be followed     *)
(* through the operators that Handle is made of, one after the other.      *)
(***************************************************************************)
EXTENDS OtaSpec, TLAPS

ServerFields == {"pc", "creds", "accepts", "ctr", "records", "m1", "resp", "frames", "sess",
                 "seen", "bdx", "progress", "out", "why", "derived", "mixed"}
NodeFields == {"pc", "why", "att", "i", "x", "sess", "record", "phase", "seq", "frame",
               "image", "next"}
ExchangeFields == {"ex", "src", "schedule", "budget", "spent", "last", "frame", "acked",
                   "attempts"}

\* The sessions derived, and the records known to anyone: those left by an
\* earlier serve and those of the sessions derived.
Sessions(v) == {v.derived[k] : k \in DOMAIN v.derived}
Known(v, g) == Left(g) \cup {o.record : o \in Sessions(v)}

Pending(v) == v.pc \in {"sigma3", "resume", "close"}

\* The node whose attempt a secret comes from.
Owner(secret) == secret[1][1]

\* A session derived carries the number of its accept, in its record and, after
\* a full handshake, in its keys; a resumed one has used up the id it came from.
Derivation(v, o) ==
    /\ o.record.id \in 1 .. v.accepts
    /\ v.pc = "sigma3" => o.record.id # v.accepts
    /\ \/ o.keys[1] = "full" /\ o.keys[3] = o.record.id
       \/ /\ o.keys[1] = "resumed"
          /\ o.keys[4] \in Int /\ o.keys[4] < v.accepts
          /\ \A r \in v.records : r.id # o.keys[4]

\* The server's records and its sessions.
Ledger(v, g) ==
    /\ v.accepts \in Nat
    /\ v.derived \in Seq(Outputs)
    /\ v.records \subseteq Known(v, g)
    /\ \A r \in v.records : /\ r.node = Expected /\ Owner(r.secret) = Expected
                            /\ Pending(v) => r.id < v.accepts
    /\ \A q, r \in v.records : q.id = r.id => q = r
    /\ \A q, r \in Known(v, g) : q.id = r.id => q.secret = r.secret
    /\ \A o \in Sessions(v) : Derivation(v, o)
    /\ \A j, k \in DOMAIN v.derived : v.derived[j].keys = v.derived[k].keys => j = k

OfKind(b, op) == {f \in b : Unsecured(f) /\ f.op = op}

\* The answer `body` resumes, for the Sigma1 h, one of the sessions D.
Resumes(D, h, body) ==
    h.body.resume # None /\
    \E o \in D :
        /\ o = Output(ResumedKeys(o.record.secret, h.src, h.body.resume.id), body.sid,
                      h.body.sid, Record(body.id, o.record.secret, Expected))
        /\ body.mic = <<o.record.secret, h.src, body.id>>
        /\ h.body.resume.mic = <<o.record.secret, h.src, h.body.resume.id>>
        /\ Owner(o.record.secret) = Expected

\* The session that a Sigma3 completes.
Completed(s3) ==
    Output(FullKeys(s3.s1.rand, s3.s2.eph), s3.s2.sid, s3.s1.sid,
           Record(s3.s2.eph, <<s3.s1.rand, s3.s2.eph>>, s3.node))

\* What the server has in hand between two receptions of one accept.
Phase(v, b) ==
    /\ v.pc \in {"accept", "sigma3", "resume", "close", "serve", "done", "failed"}
    /\ Pending(v) => v.m1 \in OfKind(b, "Sigma1") /\ v.accepts > 0
    /\ v.pc = "sigma3" =>
         v.resp = AnswerInFull(NewResponder(v.accepts, v.accepts), v.m1.body)
    /\ v.pc = "resume" => Resumes(Sessions(v), v.m1, v.resp.reply)
    /\ v.pc \in {"resume", "close"} =>
         /\ v.resp.output \in Sessions(v)
         /\ v.resp.output.record.id = v.accepts
         /\ Owner(v.resp.output.record.secret) = v.resp.output.record.node
    /\ v.pc = "serve" => v.sess.record.node = Expected
    /\ v.why # "Mac"

\* A frame sent by the server, which has derived the sessions D and answered
\* the attempts M with another's Sigma2.
Sent(D, M, b, f) ==
    Unsecured(f) =>
      /\ f.dst \in Attempts
      /\ f.op = "Sigma2" =>
           \E h \in OfKind(b, "Sigma1") :
             /\ f.dst # h.src => f.dst \in M
             /\ f.body \in [eph : Nat, sid : Nat, id : Nat, s1 : Sigma1s]
             /\ f.body.s1 = h.body
      /\ f.op = "Sigma2Resume" =>
           \E h \in OfKind(b, "Sigma1") :
             /\ f.dst # h.src => f.dst \in M
             /\ f.body.id \in Nat /\ f.body.sid \in Nat
             /\ Resumes(D, h, f.body)
      /\ f.op = "StatusReport" =>
           \E h \in OfKind(b, "Sigma3") :
             /\ h.src = f.dst
             /\ h.body.s2.id = h.body.s2.eph
             /\ Completed(h.body) \in D

\* A frame sent to the server.
Arrived(K, f) ==
    Unsecured(f) =>
      /\ f.src \in Attempts
      /\ f.op = "Sigma1" =>
           /\ f.body \in Sigma1s
           /\ f.body.rand = f.src
           /\ f.body.resume # None =>
                \E r \in K : /\ f.body.resume.id = r.id
                             /\ f.body.resume.mic = <<r.secret, f.src, r.id>>
      /\ f.op = "Sigma3" => f.body.s1.rand = f.src /\ f.body.node = f.src[1]

Server(v, b, o, g) ==
    /\ DOMAIN v = ServerFields
    /\ Ledger(v, g)
    /\ Phase(v, b)
    /\ \A f \in o \cup v.out : Sent(Sessions(v), v.mixed, b, f)

\* The record r may be one that the node n holds.
Holds(K, n, r) == r # None => r \in K /\ Owner(r.secret) = n

\* The session `mine` is the other end of one of the sessions D.
Agrees(D, mine) ==
    \E o \in D : /\ o.keys = mine.keys /\ o.record = mine.record
                 /\ o.local = mine.peer /\ o.peer = mine.local

\* The node n in the state d.
Node(n, d, b, v, g) ==
    /\ DOMAIN d = NodeFields /\ d.att \in Nat
    /\ Holds(Known(v, g), n, d.record)
    /\ d.pc # "idle" =>
         /\ d.i = NewInitiator(<<n, d.att>>, n, d.att, d.i.record)
         /\ Holds(Known(v, g), n, d.i.record)
         /\ DOMAIN d.x = ExchangeFields /\ d.x.src = <<n, d.att>>
    /\ d.pc \in {"sigma1", "sigma3", "close"} => d.x.frame \in b
    /\ d.pc \in {"sigma3", "close", "up"} => Owner(d.sess.record.secret) = n
    /\ d.pc \in {"close", "up"} => Agrees(Sessions(v), d.sess)
    /\ d.why = "Crypto" => d.pc # "idle" /\ d.x.src \in v.mixed

\* The Sigma3 that d has sent, and the session it then expects.
Offered(d, s3) ==
    /\ s3 = Sigma3(d.i, s3.s2)
    /\ s3.s2.s1 = Start(d.i)
    /\ d.sess = HandleSigma2(d.i, s3.s2)

\* A frame of the node n in the state d: none is of an attempt to come.
Own(n, d, f) ==
    Unsecured(f) /\ f.src[1] = n =>
      /\ f.src[2] <= d.att
      /\ f.src[2] = d.att /\ f.op = "Sigma1" => f.body = Start(d.i)
      /\ f.src[2] = d.att /\ f.op = "Sigma3" =>
           d.pc # "sigma1" /\ (d.pc = "sigma3" => Offered(d, f.body))

IInv ==
    /\ set \in Settings
    /\ s.out = {}
    /\ Server(s, inbox, back, set)
    /\ \A f \in inbox : Arrived(Known(s, set), f)
    /\ DOMAIN dev = Nodes
    /\ \A n \in Nodes : Node(n, dev[n], inbox, s, set)
    /\ \A n \in Nodes : \A f \in inbox : Own(n, dev[n], f)

-----------------------------------------------------------------------------
\* One more session derived.
LEMMA AppendFacts ==
    ASSUME NEW q \in Seq(Outputs), NEW e \in Outputs
    PROVE  /\ Append(q, e) \in Seq(Outputs)
           /\ DOMAIN Append(q, e) = DOMAIN q \cup {Len(q) + 1}
           /\ Len(q) + 1 \notin DOMAIN q
           /\ \A k \in DOMAIN q : Append(q, e)[k] = q[k]
           /\ Append(q, e)[Len(q) + 1] = e
  OBVIOUS

\* Handling that leaves the server between two accepts, or with the session it
\* had: the ledger is as it was, and what is sent, if anything, is secured.
Rests(v, w) ==
    /\ DOMAIN w = ServerFields
    /\ w.accepts = v.accepts /\ w.records = v.records
    /\ w.derived = v.derived /\ w.mixed = v.mixed
    /\ w.pc \in {"accept", "serve", "done", "failed"}
    /\ w.pc = "serve" => v.pc = "serve" /\ w.sess = v.sess
    /\ w.why = v.why \/ w.why # "Mac"
    /\ \A f \in w.out : f \in v.out \/ ~Unsecured(f)

\* The sessions derived and the attempts mixed up are never forgotten.
Grows(v, w) == Sessions(v) \subseteq Sessions(w) /\ v.mixed \subseteq w.mixed

\* Such handling keeps the server's invariant.
LEMMA RestsServer ==
    ASSUME NEW v, NEW w, NEW b, NEW o, NEW g, Server(v, b, o, g), Rests(v, w)
    PROVE  Server(w, b, o, g) /\ Sessions(w) = Sessions(v) /\ Grows(v, w)
<1>1. Sessions(w) = Sessions(v) /\ Known(w, g) = Known(v, g)
  BY Zenon DEF Rests, Sessions, Known
<1>2. w.pc # "sigma3" /\ ~Pending(w)
  BY Zenon DEF Rests, Pending
<1>3. \A e \in Sessions(v) : Derivation(v, e) => Derivation(w, e)
  BY <1>2, Zenon DEF Rests, Derivation
<1>4. Ledger(w, g)
  BY <1>1, <1>2, <1>3, Zenon DEF Server, Ledger, Rests
<1>5. Phase(w, b)
  BY <1>2, Zenon DEF Server, Phase, Rests, Pending
<1>6. ASSUME NEW f \in o \cup w.out
      PROVE  Sent(Sessions(w), w.mixed, b, f)
  BY <1>1, <1>6 DEF Server, Rests, Sent
<1> QED
  BY <1>1, <1>4, <1>5, <1>6, Zenon DEF Server, Rests, Grows

\* Step after step.
LEMMA GrowsTrans ==
    ASSUME NEW v, NEW w, NEW z, Grows(v, w), Grows(w, z)
    PROVE  Grows(v, z)
  BY Zenon DEF Grows

\* Handling of either kind, one after the other.
LEMMA RestsTrans ==
    ASSUME NEW v, NEW w, NEW z, Rests(v, w), Rests(w, z)
    PROVE  Rests(v, z)
  BY Zenon DEF Rests

\* The end of an accept.
LEMMA NextAcceptRests ==
    ASSUME NEW v, DOMAIN v = ServerFields
    PROVE  /\ Rests(v, NextAccept(v))
           /\ NextAccept(v).pc \in {"accept", "failed"}
           /\ NextAccept(v).out = v.out
  BY Zenon DEF Rests, NextAccept, Fails, ServerFields, Pending

\* A failure of the serve.
LEMMA FailsRests ==
    ASSUME NEW v, DOMAIN v = ServerFields, NEW why, why # "Mac"
    PROVE  Rests(v, Fails(v, why))
  BY Zenon DEF Rests, Fails, ServerFields, Pending

\* A reply on the session.
LEMMA RespondRests ==
    ASSUME NEW v, DOMAIN v = ServerFields, v.pc = "serve",
           NEW f, NEW op, NEW n, NEW data
    PROVE  /\ Rests(v, Respond(v, f, op, n, data))
           /\ Respond(v, f, op, n, data).pc = "serve"
<1>1. \A h : h = [to |-> v.m1.src[1], keys |-> v.sess.keys, re |-> f.seq, op |-> op,
                   n |-> n, data |-> data] => ~Unsecured(h)
  BY Zenon DEF Unsecured
<1> QED
  BY <1>1, Zenon DEF Rests, Respond, ServerFields, Pending

\* A message of the transfer, whatever the sender makes of it.
LEMMA TransferRests ==
    ASSUME NEW v, DOMAIN v = ServerFields, v.pc = "serve", NEW f
    PROVE  Rests(v, Transfer(v, f))
<1>1. Rests(v, Fails(v, "BeforeQuery"))
  BY FailsRests, Zenon
<1> DEFINE c == CASE f.op = "ReceiveInit" -> AcceptReceiveInit(Armed(v, f), f.n)
                  [] f.op = "BlockQuery"  -> HandleBlockQuery(v.bdx, f.n)
                  [] f.op = "BlockAckEof" -> HandleBlockAckEof(v.bdx, f.n)
           t == [v EXCEPT !.bdx = c.sender]
<1>2. v.bdx # None =>
        Transfer(v, f) = CASE c.op = "Abort" -> Fails(Respond(t, f, "StatusReport", 0, <<>>),
                                                      "Transfer")
                           [] c.op = "Done"  -> t
                           [] OTHER          -> Respond(t, f, c.op, c.n, c.data)
  BY Zenon DEF Transfer
<1> HIDE DEF c
<1>3. Rests(v, t) /\ DOMAIN t = ServerFields /\ t.pc = "serve"
  BY Zenon DEF Rests, ServerFields, Pending
<1> HIDE DEF t
<1>4. ASSUME NEW op, NEW n, NEW data
      PROVE  /\ Rests(v, Respond(t, f, op, n, data))
             /\ Rests(v, Fails(Respond(t, f, op, n, data), "Transfer"))
  <2>1. Rests(t, Respond(t, f, op, n, data))
    BY <1>3, RespondRests, Zenon
  <2>2. Rests(v, Respond(t, f, op, n, data))
    BY <1>3, <2>1, RestsTrans, Zenon
  <2>3. DOMAIN Respond(t, f, op, n, data) = ServerFields
    BY <2>1, Zenon DEF Rests
  <2>4. Rests(Respond(t, f, op, n, data), Fails(Respond(t, f, op, n, data), "Transfer"))
    BY <2>3, FailsRests, Zenon
  <2> QED
    BY <2>2, <2>4, RestsTrans, Zenon
<1>5. v.bdx = None => Transfer(v, f) = Fails(v, "BeforeQuery")
  BY Zenon DEF Transfer
<1>6. CASE v.bdx = None
  BY <1>1, <1>5, <1>6, Zenon
<1>7. CASE v.bdx # None
  BY <1>2, <1>3, <1>4, <1>7, Zenon
<1> QED
  BY <1>6, <1>7, Zenon

\* A new message of the session.
LEMMA DispatchRests ==
    ASSUME NEW v, DOMAIN v = ServerFields, v.pc = "serve", NEW f
    PROVE  Rests(v, Dispatch(v, f))
<1> DEFINE t == [v EXCEPT !.bdx = NewSender]
<1>1. Rests(v, t) /\ DOMAIN t = ServerFields /\ t.pc = "serve"
  BY Zenon DEF Rests, ServerFields, Pending
<1> HIDE DEF t
<1>2. Rests(v, Respond(t, f, "QueryImageResponse", 0, <<>>))
  BY <1>1, RespondRests, RestsTrans, Zenon
<1>3. Rests(v, Respond(v, f, "ApplyUpdateResponse", 0, <<>>))
  BY RespondRests, Zenon
<1> DEFINE u == Respond(v, f, "Success", 0, <<>>)
<1>4. Rests(v, u)
  BY RespondRests, Zenon
<1> HIDE DEF u
<1>5. Rests(v, [u EXCEPT !.pc = "done"])
  BY <1>4, Zenon DEF Rests, ServerFields, Pending
<1>6. Rests(v, Fails(v, "PeerAborted"))
  BY FailsRests, Zenon
<1>7. Rests(v, Transfer(v, f))
  BY TransferRests, Zenon
<1>8. Dispatch(v, f) \in {Respond(t, f, "QueryImageResponse", 0, <<>>),
                          Respond(v, f, "ApplyUpdateResponse", 0, <<>>),
                          [u EXCEPT !.pc = "done"], Fails(v, "PeerAborted"),
                          Transfer(v, f)}
  BY Zenon DEF Dispatch, t, u
<1> QED
  BY <1>2, <1>3, <1>5, <1>6, <1>7, <1>8, Zenon

\* A reception while a session is served and the frame does not end it.
LEMMA ServedRests ==
    ASSUME NEW v, DOMAIN v = ServerFields, v.pc = "serve", NEW f
    PROVE  Rests(v, Served(Dispatch([v EXCEPT !.seen = @ \cup {f.seq}], f)))
<1> DEFINE t == [v EXCEPT !.seen = @ \cup {f.seq}]
<1>1. Rests(v, t) /\ DOMAIN t = ServerFields /\ t.pc = "serve"
  BY Zenon DEF Rests, ServerFields, Pending
<1> HIDE DEF t
<1> DEFINE u == Dispatch(t, f)
<1>2. Rests(v, u)
  BY <1>1, DispatchRests, RestsTrans, Zenon
<1> HIDE DEF u
<1> DEFINE w == [u EXCEPT !.progress = @ + 1]
<1>3. Rests(v, w) /\ DOMAIN w = ServerFields
  BY <1>2, Zenon DEF Rests, ServerFields, Pending
<1> HIDE DEF w
<1>4. Rests(v, Fails(w, "Unfinished"))
  BY <1>3, FailsRests, RestsTrans, Zenon
<1>5. Served(u) \in {w, Fails(w, "Unfinished")}
  BY Zenon DEF Served, w
<1>6. Rests(v, Served(u))
  BY <1>3, <1>4, <1>5, Zenon
<1> QED
  BY <1>6, Zenon DEF u, t

\* Whatever differs in the fields that the invariant does not mention.
Alike(v, w) ==
    /\ DOMAIN w = ServerFields
    /\ w.pc = v.pc /\ w.accepts = v.accepts /\ w.records = v.records /\ w.m1 = v.m1
    /\ w.resp = v.resp /\ w.sess = v.sess /\ w.why = v.why /\ w.derived = v.derived

\* Frames may be sent in addition, and more attempts counted as answered with
\* another's Sigma2.
LEMMA AlikeServer ==
    ASSUME NEW v, NEW w, NEW b, NEW o, NEW g, Server(v, b, o, g),
           Alike(v, w), v.mixed \subseteq w.mixed,
           \A f \in w.out : f \in v.out \/ Sent(Sessions(v), w.mixed, b, f)
    PROVE  Server(w, b, o, g) /\ Sessions(w) = Sessions(v) /\ Grows(v, w)
<1>1. Sessions(w) = Sessions(v) /\ Known(w, g) = Known(v, g) /\ (Pending(w) = Pending(v))
  BY Zenon DEF Alike, Sessions, Known, Pending
<1>2. \A e \in Sessions(v) : Derivation(v, e) => Derivation(w, e)
  BY Zenon DEF Alike, Derivation
<1>3. Ledger(w, g)
  BY <1>1, <1>2, Zenon DEF Server, Ledger, Alike
<1>4. Phase(w, b)
  BY <1>1, Zenon DEF Server, Phase, Alike
<1>5. ASSUME NEW f \in o \cup w.out
      PROVE  Sent(Sessions(w), w.mixed, b, f)
  <2>1. CASE f \in o \cup v.out
    BY <1>1, <2>1, Zenon DEF Server, Sent
  <2>2. CASE f \notin o \cup v.out
    BY <1>1, <2>2, Zenon
  <2> QED
    BY <2>1, <2>2, Zenon
<1> QED
  BY <1>1, <1>3, <1>4, <1>5, Zenon DEF Server, Alike, Grows

\* A frame sent in the course of a handshake.
LEMMA ReplyServer ==
    ASSUME NEW v, NEW b, NEW o, NEW g, Server(v, b, o, g), NEW m, NEW op, NEW body,
           Sent(Sessions(v), v.mixed, b,
                [to |-> v.m1.src[1], ex |-> m.ex, dst |-> m.src, ctr |-> v.ctr,
                 op |-> op, body |-> body])
    PROVE  /\ Server(Reply(v, m, op, body), b, o, g)
           /\ Reply(v, m, op, body).pc = v.pc
           /\ Reply(v, m, op, body).resp = v.resp
           /\ Sessions(Reply(v, m, op, body)) = Sessions(v)
           /\ Grows(v, Reply(v, m, op, body))
<1> DEFINE w == Reply(v, m, op, body)
           f == [to |-> v.m1.src[1], ex |-> m.ex, dst |-> m.src, ctr |-> v.ctr,
                 op |-> op, body |-> body]
<1>1. Alike(v, w) /\ w.mixed = v.mixed /\ w.out = v.out \cup {f}
  BY Zenon DEF Reply, Alike, Server, ServerFields
<1> HIDE DEF w
<1>2. \A h \in w.out : h \in v.out \/ Sent(Sessions(v), w.mixed, b, h)
  BY <1>1, Zenon
<1>3. Server(w, b, o, g) /\ Sessions(w) = Sessions(v) /\ Grows(v, w)
  BY <1>1, <1>2, AlikeServer, Zenon
<1>4. w.pc = v.pc /\ w.resp = v.resp
  BY <1>1, Zenon DEF Alike
<1> QED
  BY <1>3, <1>4, Zenon DEF w

\* One frame less to wait.
LEMMA BudgetServer ==
    ASSUME NEW v, NEW b, NEW o, NEW g, Server(v, b, o, g)
    PROVE  Server(Budget(v), b, o, g) /\ Grows(v, Budget(v))
<1> DEFINE w == [v EXCEPT !.frames = @ + 1]
<1>1. Alike(v, w) /\ w.mixed = v.mixed /\ w.out = v.out
  BY Zenon DEF Alike, Server, ServerFields
<1> HIDE DEF w
<1>2. Server(w, b, o, g) /\ Grows(v, w)
  BY <1>1, AlikeServer, Zenon
<1>3. Rests(v, NextAccept(v))
  BY NextAcceptRests, Zenon DEF Server
<1>4. Server(NextAccept(v), b, o, g) /\ Grows(v, NextAccept(v))
  BY <1>3, RestsServer, Zenon
<1>5. Budget(v) \in {w, NextAccept(v)}
  BY Zenon DEF Budget, w
<1> QED
  BY <1>2, <1>4, <1>5, Zenon

\* The reply to a Sigma1, sent again for another one.
LEMMA ReplyAgainServer ==
    ASSUME NEW v, NEW b, NEW o, NEW g, Server(v, b, o, g), NEW f, NEW op,
           \A M, c : /\ v.mixed \subseteq M
                     /\ f.src # v.m1.src => f.src \in M
                     => Sent(Sessions(v), M, b,
                             [to |-> v.m1.src[1], ex |-> f.ex, dst |-> f.src, ctr |-> c,
                              op |-> op, body |-> v.resp.reply])
    PROVE  Server(ReplyAgain(v, f, op), b, o, g) /\ Grows(v, ReplyAgain(v, f, op))
<1> DEFINE w == [v EXCEPT !.mixed = IF f.src = v.m1.src THEN @ ELSE @ \cup {f.src}]
<1>1. /\ Alike(v, w) /\ w.out = v.out /\ w.ctr = v.ctr
      /\ w.mixed = IF f.src = v.m1.src THEN v.mixed ELSE v.mixed \cup {f.src}
  BY Zenon DEF Alike, Server, ServerFields
<1> HIDE DEF w
<1>2. v.mixed \subseteq w.mixed /\ (f.src # v.m1.src => f.src \in w.mixed)
  BY <1>1, Zenon
<1>3. Server(w, b, o, g) /\ Sessions(w) = Sessions(v) /\ Grows(v, w)
  BY <1>1, <1>2, AlikeServer, Zenon
<1>4. w.m1 = v.m1 /\ w.resp = v.resp
  BY <1>1, Zenon DEF Alike
<1> DEFINE h == [to |-> v.m1.src[1], ex |-> f.ex, dst |-> f.src, ctr |-> w.ctr,
                 op |-> op, body |-> v.resp.reply]
<1>5. Sent(Sessions(v), w.mixed, b, h)
  BY <1>2, Zenon
<1>6. Sent(Sessions(w), w.mixed, b, [to |-> w.m1.src[1], ex |-> f.ex, dst |-> f.src,
                                     ctr |-> w.ctr, op |-> op, body |-> v.resp.reply])
  BY <1>3, <1>4, <1>5, Zenon
<1>7. /\ Server(Reply(w, f, op, v.resp.reply), b, o, g)
      /\ Grows(w, Reply(w, f, op, v.resp.reply))
  BY <1>3, <1>6, ReplyServer, Zenon
<1>8. ReplyAgain(v, f, op) = Reply(w, f, op, v.resp.reply)
  BY <1>4, Zenon DEF ReplyAgain, w
<1> QED
  BY <1>3, <1>7, <1>8, GrowsTrans, Zenon

\* The session is registered, or its node turned away.
LEMMA EstablishedServer ==
    ASSUME NEW v, NEW b, NEW o, NEW g, Server(v, b, o, g), v.pc \in {"resume", "close"}
    PROVE  /\ Server(Established(v), b, o, g)
           /\ Grows(v, Established(v))
           /\ Established(v).pc \in {"serve", "accept", "failed"}
<1> DEFINE r == v.resp.output.record
           w == [v EXCEPT !.records = @ \cup {r}, !.pc = "serve",
                          !.sess = v.resp.output, !.seen = {}, !.progress = 0]
<1>1. CASE r.node # Expected
  <2>1. Established(v) = NextAccept(v)
    BY <1>1, Zenon DEF Established
  <2>2. Rests(v, NextAccept(v)) /\ NextAccept(v).pc \in {"accept", "failed"}
    BY NextAcceptRests, Zenon DEF Server
  <2> QED
    BY <2>1, <2>2, RestsServer, Zenon
<1>2. CASE r.node = Expected
  <2>1. Established(v) = w
    BY <1>2, Zenon DEF Established
  <2>2. /\ DOMAIN w = ServerFields
        /\ w.accepts = v.accepts /\ w.records = v.records \cup {r} /\ w.derived = v.derived
        /\ w.mixed = v.mixed /\ w.out = v.out /\ w.why = v.why
        /\ w.pc = "serve" /\ w.sess = v.resp.output
    BY Zenon DEF Server, ServerFields
  <2> HIDE DEF w
  <2>3. Sessions(w) = Sessions(v) /\ Known(w, g) = Known(v, g) /\ ~Pending(w) /\ Pending(v)
    BY <2>2, Zenon DEF Sessions, Known, Pending
  <2>4. /\ v.resp.output \in Sessions(v) /\ r.id = v.accepts /\ Owner(r.secret) = r.node
        /\ v.why # "Mac"
    BY Zenon DEF Server, Phase
  <2>5. r \in Known(v, g)
    BY <2>4, Zenon DEF Known
  <2>6. \A q \in v.records : q.node = Expected /\ Owner(q.secret) = Expected /\ q.id < v.accepts
    BY <2>3, Zenon DEF Server, Ledger
  <2>7. v.accepts \in Nat
    BY Zenon DEF Server, Ledger
  <2>8. \A q \in v.records : q.id # r.id
    BY <2>4, <2>6, <2>7
  <2>9. ASSUME NEW e \in Sessions(v)
        PROVE  Derivation(w, e)
    <3>1. Derivation(v, e)
      BY Zenon DEF Server, Ledger
    <3>2. CASE e.keys[1] = "full" /\ e.keys[3] = e.record.id
      BY <2>2, <3>1, <3>2, Zenon DEF Derivation
    <3>3. CASE /\ e.keys[1] = "resumed"
               /\ e.keys[4] \in Int /\ e.keys[4] < v.accepts
               /\ \A q \in v.records : q.id # e.keys[4]
      <4>1. \A q \in w.records : q.id # e.keys[4]
        BY <2>2, <2>4, <2>7, <3>3
      <4> QED
        BY <2>2, <3>1, <3>3, <4>1, Zenon DEF Derivation
    <3> QED
      BY <3>1, <3>2, <3>3, Zenon DEF Derivation
  <2>10. \A q, t \in w.records : q.id = t.id => q = t
    <3>1. \A q, t \in v.records : q.id = t.id => q = t
      BY Zenon DEF Server, Ledger
    <3> QED
      BY <2>2, <2>8, <3>1, Zenon
  <2>11. Ledger(w, g)
    <3>1. w.records \subseteq Known(w, g)
      BY <2>2, <2>3, <2>5, Zenon DEF Server, Ledger
    <3>2. \A q \in w.records : q.node = Expected /\ Owner(q.secret) = Expected
      BY <1>2, <2>2, <2>4, <2>6, Zenon
    <3> QED
      BY <2>2, <2>3, <2>9, <2>10, <3>1, <3>2, Zenon DEF Server, Ledger
  <2>12. Phase(w, b)
    BY <1>2, <2>2, <2>3, <2>4, Zenon DEF Phase
  <2>13. \A f \in o \cup w.out : Sent(Sessions(w), w.mixed, b, f)
    BY <2>2, <2>3, Zenon DEF Server
  <2>14. Server(w, b, o, g)
    BY <2>2, <2>11, <2>12, <2>13, Zenon DEF Server
  <2> QED
    BY <2>1, <2>2, <2>3, <2>14, Zenon DEF Grows
<1> QED
  BY <1>1, <1>2, Zenon

\* A session more: the frames sent before still stand.
LEMMA SentGrows ==
    ASSUME NEW D, NEW E, NEW M, NEW N, NEW b, NEW c, NEW f,
           Sent(D, M, b, f), D \subseteq E, M \subseteq N, b \subseteq c
    PROVE  Sent(E, N, c, f)
<1>1. \A h, body : Resumes(D, h, body) => Resumes(E, h, body)
  BY Zenon DEF Resumes
<1>2. \A op : OfKind(b, op) \subseteq OfKind(c, op)
  BY Zenon DEF OfKind
<1> QED
  BY <1>1, <1>2, Zenon DEF Sent

\* The server's ledger when an accept begins that answers in full.
LEMMA BegunLedger ==
    ASSUME NEW v, NEW w, NEW g, Ledger(v, g), g \in Settings, ~Pending(v),
           w.accepts = v.accepts + 1, w.records \subseteq v.records, w.derived = v.derived
    PROVE  /\ Ledger(w, g)
           /\ \A r \in Known(v, g) : r.id < w.accepts
           /\ \A e \in Sessions(v) : e.record.id # w.accepts
<1>1. Sessions(w) = Sessions(v) /\ Known(w, g) = Known(v, g)
  BY Zenon DEF Sessions, Known
<1>2. v.accepts \in Nat /\ w.accepts \in Nat
  BY DEF Ledger
<1>3. \A e \in Sessions(v) : Derivation(v, e)
  BY Zenon DEF Ledger
<1>4. \A e \in Sessions(v) : e.record.id \in Nat /\ e.record.id < w.accepts
  BY <1>2, <1>3 DEF Derivation
<1>5. \A r \in Left(g) : r.id \in Int /\ r.id <= 0
  BY OtaAssumption, Zenon DEF Records
<1>6. \A r \in Known(v, g) : r.id < w.accepts
  BY <1>2, <1>4, <1>5 DEF Known
<1>7. ASSUME NEW e \in Sessions(v)
      PROVE  Derivation(w, e)
  <2>1. e.record.id \in 1 .. w.accepts /\ e.record.id # w.accepts
    BY <1>2, <1>3, <1>4 DEF Derivation
  <2>2. ASSUME e.keys[1] = "resumed", e.keys[4] \in Int, e.keys[4] < v.accepts,
               \A r \in v.records : r.id # e.keys[4]
        PROVE  e.keys[4] < w.accepts /\ \A r \in w.records : r.id # e.keys[4]
    BY <1>2, <2>2
  <2> QED
    BY <1>3, <2>1, <2>2, Zenon DEF Derivation
<1>8. \A r \in w.records : r \in v.records /\ r.id < w.accepts
  BY <1>6, Zenon DEF Ledger
<1>9. \A e \in Sessions(v) : e.record.id # w.accepts
  BY <1>2, <1>4
<1>10. Ledger(w, g)
  BY <1>1, <1>2, <1>7, <1>8, Zenon DEF Ledger
<1> QED
  BY <1>6, <1>9, <1>10, Zenon

\* The session e of the current accept is derived, after a full handshake or
\* from a record that no session has used.
Derives(v, w, e) ==
    /\ v.accepts > 0 /\ e \in Outputs
    /\ w.derived = Append(v.derived, e) /\ w.accepts = v.accepts /\ w.records = v.records
    /\ w.pc # "sigma3"
    /\ \A r \in v.records : r.id < v.accepts
    /\ \A d \in Sessions(v) : d.record.id # v.accepts
    /\ e.record.id = v.accepts
    /\ \/ e.keys[1] = "full" /\ e.keys[3] = v.accepts
       \/ /\ e.keys[1] = "resumed" /\ e.keys[4] \in Int /\ e.keys[4] < v.accepts
          /\ \A r \in v.records : r.id # e.keys[4]
          /\ \A d \in Sessions(v) : d.keys[1] = "resumed" => d.keys[4] # e.keys[4]

\* The server's ledger has one more session then, with keys of its own.
LEMMA DerivedLedger ==
    ASSUME NEW v, NEW w, NEW g, NEW e, Ledger(v, g), g \in Settings, Derives(v, w, e)
    PROVE  /\ Ledger(w, g)
           /\ Sessions(w) = Sessions(v) \cup {e}
           /\ Known(w, g) = Known(v, g) \cup {e.record}
<1> USE DEF Derives
<1>1. v.accepts \in Nat /\ v.derived \in Seq(Outputs)
  BY Zenon DEF Ledger
<1> DEFINE m == Len(v.derived) + 1
<1>2. /\ w.derived \in Seq(Outputs)
      /\ DOMAIN w.derived = DOMAIN v.derived \cup {m} /\ m \notin DOMAIN v.derived
      /\ \A k \in DOMAIN v.derived : w.derived[k] = v.derived[k]
      /\ w.derived[m] = e
  BY <1>1, AppendFacts
<1> HIDE DEF m
<1>3. Sessions(w) = Sessions(v) \cup {e}
  BY <1>2 DEF Sessions
<1>4. Known(w, g) = Known(v, g) \cup {e.record}
  BY <1>3, Zenon DEF Known
<1>5. \A d \in Sessions(v) : Derivation(v, d)
  BY Zenon DEF Ledger
<1>6. ASSUME NEW r \in Known(v, g)
      PROVE  r.id # v.accepts
  <2>1. CASE r \in Left(g)
    BY <1>1, <2>1, OtaAssumption DEF Records
  <2>2. CASE r \notin Left(g)
    BY <2>2, Zenon DEF Known
  <2> QED
    BY <2>1, <2>2, Zenon
<1>7. \A q, r \in Known(w, g) : q.id = r.id => q.secret = r.secret
  <2>1. \A q, r \in Known(v, g) : q.id = r.id => q.secret = r.secret
    BY Zenon DEF Ledger
  <2>2. ASSUME NEW q \in Known(w, g), NEW r \in Known(w, g), q.id = r.id
        PROVE  q.secret = r.secret
    <3>1. q \in Known(v, g) \cup {e.record} /\ r \in Known(v, g) \cup {e.record}
      BY <1>4, Zenon
    <3>2. CASE q \in Known(v, g) /\ r \in Known(v, g)
      BY <2>1, <2>2, <3>2, Zenon
    <3>3. CASE q = e.record /\ r \in Known(v, g)
      BY <1>6, <2>2, <3>3, Zenon
    <3>4. CASE q \in Known(v, g) /\ r = e.record
      BY <1>6, <2>2, <3>4, Zenon
    <3> QED
      BY <3>1, <3>2, <3>3, <3>4, Zenon
  <2> QED
    BY <2>2, Zenon
<1>8. \A d \in Sessions(w) : Derivation(w, d)
  <2>1. \A d \in Sessions(v) : Derivation(w, d)
    BY <1>5, Zenon DEF Derivation
  <2>2. Derivation(w, e)
    BY <1>1 DEF Derivation
  <2> QED
    BY <1>3, <2>1, <2>2, Zenon
<1>9. \A d \in Sessions(v) : d.keys # e.keys
  <2> SUFFICES ASSUME NEW d \in Sessions(v), d.keys = e.keys
               PROVE  FALSE
    BY Zenon
  <2>1. Derivation(v, d)
    BY <1>5, Zenon
  <2>2. "full" # "resumed"
    BY Zenon
  <2>3. CASE e.keys[1] = "full" /\ e.keys[3] = v.accepts
    BY <2>1, <2>2, <2>3, Zenon DEF Derivation
  <2>4. CASE e.keys[1] = "resumed"
    BY <2>1, <2>2, <2>4, Zenon DEF Derivation
  <2> QED
    BY <2>3, <2>4, Zenon
<1>10. \A j, k \in DOMAIN w.derived : w.derived[j].keys = w.derived[k].keys => j = k
  <2>1. \A j, k \in DOMAIN v.derived : v.derived[j].keys = v.derived[k].keys => j = k
    BY Zenon DEF Ledger
  <2>2. ASSUME NEW k \in DOMAIN v.derived
        PROVE  w.derived[k].keys # e.keys
    <3>1. v.derived[k] \in Sessions(v)
      BY Zenon DEF Sessions
    <3> QED
      BY <1>2, <1>9, <3>1, Zenon
  <2> QED
    BY <1>2, <2>1, <2>2, Zenon
<1>11. w.records \subseteq Known(w, g)
  BY <1>4, Zenon DEF Ledger
<1>12. Ledger(w, g)
  BY <1>1, <1>2, <1>7, <1>8, <1>10, <1>11, Zenon DEF Ledger
<1> QED
  BY <1>3, <1>4, <1>12, Zenon

\* Everything the two sides know of is well formed.
LEMMA KnownTypes ==
    ASSUME NEW v, NEW g, Ledger(v, g), g \in Settings
    PROVE  Known(v, g) \subseteq Records /\ Sessions(v) \subseteq Outputs
<1>1. Sessions(v) \subseteq Outputs
  BY DEF Sessions, Ledger
<1>2. Left(g) \subseteq Records
  BY OtaAssumption, Zenon
<1>3. \A e \in Outputs : e.record \in Records
  BY Zenon DEF Outputs
<1> QED
  BY <1>1, <1>2, <1>3, Zenon DEF Known

\* accept_resumption succeeds for a record that is the presented one.
LEMMA ResumptionFacts ==
    ASSUME NEW a \in Nat, NEW s1 \in Sigma1s, NEW r \in Records, s1.resume # None,
           s1.resume.id = r.id, s1.resume.mic = <<r.secret, s1.rand, r.id>>
    PROVE  LET t == AcceptResumption(NewResponder(a, a), s1, r)
           IN  /\ t # Failed
               /\ t.output = Output(ResumedKeys(r.secret, s1.rand, r.id), a, s1.sid,
                                    Record(a, r.secret, r.node))
               /\ t.output \in Outputs
               /\ t.reply = [id |-> a, sid |-> a, mic |-> <<r.secret, s1.rand, a>>]
<1> DEFINE t == AcceptResumption(NewResponder(a, a), s1, r)
           e == Output(ResumedKeys(r.secret, s1.rand, r.id), a, s1.sid,
                       Record(a, r.secret, r.node))
           p == [id |-> a, sid |-> a, mic |-> <<r.secret, s1.rand, a>>]
<1>1. t = [eph |-> a, sid |-> a, s1 |-> s1, reply |-> p, output |-> e]
  BY Zenon DEF AcceptResumption, NewResponder
<1>2. s1.rand \in Attempts /\ s1.sid \in Nat
  BY Zenon DEF Sigma1s
<1>3. r.secret \in Secrets /\ r.id \in Int /\ r.node \in Nodes
  BY Zenon DEF Records
<1>4. ResumedKeys(r.secret, s1.rand, r.id) \in Keys
  BY <1>2, <1>3, Zenon DEF ResumedKeys, Keys
<1>5. Record(a, r.secret, r.node) \in Records
  BY <1>3 DEF Record, Records
<1>6. e \in Outputs
  BY <1>2, <1>4, <1>5, Zenon DEF Output, Outputs
<1>7. <<r.secret, s1.rand, a>> \in Secrets \X Attempts \X Nat
  BY <1>2, <1>3, Zenon
<1> HIDE DEF e
<1>8. t \in Resumptions
  BY <1>1, <1>6, <1>7 DEF Resumptions
<1>9. t # Failed
  BY <1>8, NoneAssumption, Zenon DEF Failed
<1> QED
  BY <1>1, <1>6, <1>9 DEF e

\* A Sigma1 is answered.
LEMMA BeginServer ==
    ASSUME NEW v, NEW b, NEW o, NEW g, Server(v, b, o, g), g \in Settings,
           v.pc = "accept", NEW f \in OfKind(b, "Sigma1"), Arrived(Known(v, g), f)
    PROVE  Server(BeginHandshake(v, f), b, o, g) /\ Grows(v, BeginHandshake(v, f))
<1> DEFINE a == v.accepts + 1
           p == NewResponder(a, a)
           known == IF ResumptionRequested(f.body)
                    THEN {d \in v.records : d.id = f.body.resume.id} ELSE {}
           begun == [v EXCEPT !.creds = @ - 1, !.accepts = @ + 1, !.m1 = f, !.frames = 0]
           full == AnswerInFull(p, f.body)
           r == CHOOSE d \in known : TRUE
           taken == TakeRecord(begun, r)
           resumed == AcceptResumption(p, f.body, r)
           opened == [begun EXCEPT !.pc = "sigma3", !.resp = full]
           again == [taken EXCEPT !.pc = "resume", !.resp = resumed,
                                  !.derived = Append(@, resumed.output)]
<1>1. BeginHandshake(v, f) =
        IF known = {} THEN Reply(opened, f, "Sigma2", full.reply)
        ELSE IF resumed = Failed THEN [NextAccept(taken) EXCEPT !.why = "Mac"]
             ELSE Reply(again, f, "Sigma2Resume", resumed.reply)
  BY Zenon DEF BeginHandshake
<1>2. /\ DOMAIN v = ServerFields /\ Ledger(v, g) /\ v.accepts \in Nat /\ a \in Nat
      /\ a > 0 /\ v.why # "Mac" /\ ~Pending(v)
  BY DEF Server, Ledger, Phase, Pending
<1>3. /\ f \in b /\ Unsecured(f) /\ f.op = "Sigma1" /\ f.src \in Attempts
      /\ f.body \in Sigma1s /\ f.body.rand = f.src
  BY Zenon DEF Arrived, OfKind
<1>4. CASE known = {}
  <2>1. /\ DOMAIN opened = ServerFields /\ opened.pc = "sigma3" /\ opened.resp = full
        /\ opened.accepts = a /\ opened.records = v.records /\ opened.derived = v.derived
        /\ opened.m1 = f /\ opened.out = v.out /\ opened.why = v.why
        /\ opened.mixed = v.mixed
    BY <1>2, Zenon DEF ServerFields
  <2> HIDE DEF opened
  <2>2. Ledger(opened, g)
    BY <1>2, <2>1, BegunLedger, Zenon
  <2>3. Sessions(opened) = Sessions(v)
    BY <2>1, Zenon DEF Sessions
  <2>4. Phase(opened, b)
    BY <1>2, <2>1, Zenon DEF Phase, Pending
  <2>5. \A h \in o \cup opened.out : Sent(Sessions(opened), opened.mixed, b, h)
    BY <2>1, <2>3, Zenon DEF Server
  <2>6. Server(opened, b, o, g)
    BY <2>1, <2>2, <2>4, <2>5, Zenon DEF Server
  <2>7. full.reply = [eph |-> a, sid |-> a, id |-> a, s1 |-> f.body]
    BY Zenon DEF AnswerInFull, NewResponder, Sigma2
  <2> HIDE DEF full
  <2>8. ASSUME NEW h, h = [to |-> opened.m1.src[1], ex |-> f.ex, dst |-> f.src,
                           ctr |-> opened.ctr, op |-> "Sigma2", body |-> full.reply]
        PROVE  Sent(Sessions(opened), opened.mixed, b, h)
    <3>1. h.dst = f.src /\ h.op = "Sigma2" /\ h.body = full.reply
      BY <2>8, Zenon
    <3>2. /\ full.reply \in [eph : Nat, sid : Nat, id : Nat, s1 : Sigma1s]
          /\ full.reply.s1 = f.body
      BY <1>2, <1>3, <2>7
    <3> QED
      BY <1>3, <3>1, <3>2, Zenon DEF Sent
  <2>9. /\ Server(Reply(opened, f, "Sigma2", full.reply), b, o, g)
        /\ Grows(opened, Reply(opened, f, "Sigma2", full.reply))
    BY <2>6, <2>8, ReplyServer, Zenon
  <2>10. Grows(v, opened)
    BY <2>1, <2>3, Zenon DEF Grows
  <2> QED
    BY <1>1, <1>4, <2>9, <2>10, GrowsTrans, Zenon
<1>5. CASE known # {}
  <2>1. r \in known
    BY <1>5, Zenon
  <2>2. f.body.resume # None /\ r \in v.records /\ r.id = f.body.resume.id
    BY <2>1 DEF ResumptionRequested
  <2> HIDE DEF r
  <2>3. r \in Known(v, g) /\ r \in Records /\ r.node = Expected /\ Owner(r.secret) = Expected
    BY <1>2, <2>2, KnownTypes, Zenon DEF Ledger
  <2>4. f.body.resume.mic = <<r.secret, f.src, r.id>>
    <3>1. PICK q \in Known(v, g) : /\ f.body.resume.id = q.id
                                   /\ f.body.resume.mic = <<q.secret, f.src, q.id>>
      BY <1>3, <2>2, Zenon DEF Arrived
    <3>2. q.secret = r.secret
      BY <1>2, <2>2, <2>3, <3>1, Zenon DEF Ledger
    <3> QED
      BY <2>2, <3>1, <3>2, Zenon
  <2> DEFINE e == Output(ResumedKeys(r.secret, f.src, r.id), a, f.body.sid,
                         Record(a, r.secret, Expected))
  <2>5. /\ resumed # Failed /\ resumed.output = e /\ e \in Outputs
        /\ resumed.reply = [id |-> a, sid |-> a, mic |-> <<r.secret, f.src, a>>]
    <3>1. f.body.resume.mic = <<r.secret, f.body.rand, r.id>>
      BY <1>3, <2>4, Zenon
    <3>2. f.body.resume.id = r.id
      BY <2>2, Zenon
    <3>3. /\ resumed # Failed
          /\ resumed.output = Output(ResumedKeys(r.secret, f.body.rand, r.id), a, f.body.sid,
                                     Record(a, r.secret, r.node))
          /\ resumed.output \in Outputs
          /\ resumed.reply = [id |-> a, sid |-> a, mic |-> <<r.secret, f.body.rand, a>>]
      BY <1>2, <1>3, <2>2, <2>3, <3>1, <3>2, ResumptionFacts, Zenon
    <3> HIDE DEF resumed
    <3> QED
      BY <1>3, <2>3, <3>3, Zenon
  <2> HIDE DEF resumed
  <2>6. /\ DOMAIN taken = ServerFields /\ taken.pc = "accept"
        /\ taken.accepts = a /\ taken.records = v.records \ {r}
        /\ taken.derived = v.derived /\ taken.m1 = f /\ taken.out = v.out
        /\ taken.why = v.why /\ taken.mixed = v.mixed
    BY <1>2, Zenon DEF ServerFields, TakeRecord
  <2> HIDE DEF taken
  <2>7. /\ Ledger(taken, g) /\ \A q \in Known(v, g) : q.id < a
        /\ \A d \in Sessions(v) : d.record.id # a
    BY <1>2, <2>6, BegunLedger
  <2>8. /\ DOMAIN again = ServerFields /\ again.pc = "resume" /\ again.resp = resumed
        /\ again.accepts = a /\ again.records = v.records \ {r}
        /\ again.derived = Append(v.derived, e) /\ again.m1 = f /\ again.out = v.out
        /\ again.why = v.why /\ again.mixed = v.mixed
    BY <2>5, <2>6, Zenon DEF ServerFields
  <2> HIDE DEF again
  <2>9. Sessions(taken) = Sessions(v)
    BY <2>6, Zenon DEF Sessions
  <2>10. e.keys[1] = "resumed" /\ e.keys[4] = r.id /\ e.record.id = a
    BY Zenon DEF Output, ResumedKeys, Record
  <2>11. e.record.secret = r.secret /\ e.record.node = Expected
    BY Zenon DEF Output, Record
  <2> HIDE DEF e
  <2>12. r.id \in Int /\ r.id < a
    BY <2>3, <2>7, Zenon DEF Records
  <2>13. \A q \in taken.records : q.id < a /\ q.id # r.id
    BY <1>2, <2>2, <2>6, <2>7, Zenon DEF Ledger
  <2>14. \A d \in Sessions(v) : d.keys[1] = "resumed" => d.keys[4] # r.id
    <3>1. \A d \in Sessions(v) : Derivation(v, d)
      BY <1>2, Zenon DEF Ledger
    <3>2. "full" # "resumed"
      BY Zenon
    <3> QED
      BY <2>2, <3>1, <3>2, Zenon DEF Derivation
  <2>15. Ledger(again, g) /\ Sessions(again) = Sessions(v) \cup {e}
    <3>1. /\ again.derived = Append(taken.derived, e) /\ again.accepts = taken.accepts
          /\ again.records = taken.records /\ again.pc # "sigma3" /\ taken.accepts > 0
      BY <1>2, <2>6, <2>8, Zenon
    <3>2. /\ e.record.id = taken.accepts /\ e.keys[1] = "resumed" /\ e.keys[4] \in Int
          /\ e.keys[4] < taken.accepts /\ \A q \in taken.records : q.id # e.keys[4]
          /\ \A q \in taken.records : q.id < taken.accepts
      BY <2>6, <2>10, <2>12, <2>13, Zenon
    <3>3. /\ \A d \in Sessions(taken) : d.record.id # taken.accepts
          /\ \A d \in Sessions(taken) : d.keys[1] = "resumed" => d.keys[4] # e.keys[4]
      BY <2>6, <2>7, <2>9, <2>10, <2>14, Zenon
    <3>4. Derives(taken, again, e)
      BY <2>5, <3>1, <3>2, <3>3, Zenon DEF Derives
    <3>5. Ledger(again, g) /\ Sessions(again) = Sessions(taken) \cup {e}
      <4>1. Ledger(taken, g)
        BY <2>7, Zenon
      <4> QED
        BY <3>4, <4>1, DerivedLedger
    <3> QED
      BY <2>9, <3>5, Zenon
  <2>16. Resumes(Sessions(again), f, resumed.reply)
    <3>1. e = Output(ResumedKeys(e.record.secret, f.src, f.body.resume.id),
                     resumed.reply.sid, f.body.sid,
                     Record(resumed.reply.id, e.record.secret, Expected))
      <4>1. resumed.reply.sid = a /\ resumed.reply.id = a
        BY <2>5
      <4> QED
        BY <2>2, <2>11, <4>1, Zenon DEF e
    <3>2. /\ resumed.reply.mic = <<e.record.secret, f.src, resumed.reply.id>>
          /\ f.body.resume.mic = <<e.record.secret, f.src, f.body.resume.id>>
          /\ Owner(e.record.secret) = Expected
      BY <2>2, <2>3, <2>4, <2>5, <2>11
    <3> QED
      BY <2>2, <2>15, <3>1, <3>2, Zenon DEF Resumes
  <2>17. Phase(again, b)
    BY <1>2, <2>3, <2>5, <2>8, <2>10, <2>11, <2>15, <2>16, Zenon DEF Phase, Pending
  <2>18. \A h \in o \cup again.out : Sent(Sessions(again), again.mixed, b, h)
    BY <2>8, <2>15, SentGrows, Zenon DEF Server
  <2>19. Server(again, b, o, g)
    BY <2>8, <2>15, <2>17, <2>18, Zenon DEF Server
  <2>20. ASSUME NEW h, h = [to |-> again.m1.src[1], ex |-> f.ex, dst |-> f.src,
                            ctr |-> again.ctr, op |-> "Sigma2Resume",
                            body |-> resumed.reply]
         PROVE  Sent(Sessions(again), again.mixed, b, h)
    <3>1. h.dst = f.src /\ h.op = "Sigma2Resume" /\ h.body = resumed.reply
      BY <2>20, Zenon
    <3>2. resumed.reply.id \in Nat /\ resumed.reply.sid \in Nat
      BY <1>2, <2>5
    <3> QED
      BY <1>3, <2>16, <3>1, <3>2, Zenon DEF Sent
  <2>21. /\ Server(Reply(again, f, "Sigma2Resume", resumed.reply), b, o, g)
         /\ Grows(again, Reply(again, f, "Sigma2Resume", resumed.reply))
    BY <2>19, <2>20, ReplyServer, Zenon
  <2>22. Grows(v, again)
    BY <2>8, <2>15, Zenon DEF Grows
  <2> QED
    BY <1>1, <1>5, <2>5, <2>21, <2>22, GrowsTrans, Zenon
<1> QED
  BY <1>4, <1>5, Zenon

\* A piece of handling that takes the server from v to w.
Leads(v, w, b, o, g) == Server(w, b, o, g) /\ Grows(v, w)

\* One piece after another.
LEMMA LeadsTrans ==
    ASSUME NEW v, NEW w, NEW z, NEW b, NEW o, NEW g,
           Leads(v, w, b, o, g), Leads(w, z, b, o, g)
    PROVE  Leads(v, z, b, o, g)
  BY GrowsTrans, Zenon DEF Leads

\* The end of an accept or of a session.
LEMMA NextAcceptLeads ==
    ASSUME NEW v, NEW b, NEW o, NEW g, Server(v, b, o, g)
    PROVE  /\ Leads(v, NextAccept(v), b, o, g)
           /\ NextAccept(v).pc \in {"accept", "failed"}
<1>1. DOMAIN v = ServerFields
  BY Zenon DEF Server
<1>2. Rests(v, NextAccept(v)) /\ NextAccept(v).pc \in {"accept", "failed"}
  BY <1>1, NextAcceptRests, Zenon
<1>3. Server(NextAccept(v), b, o, g) /\ Grows(v, NextAccept(v))
  BY <1>2, RestsServer, Zenon
<1> QED
  BY <1>2, <1>3, Zenon DEF Leads

\* Nothing.
LEMMA StaysLeads ==
    ASSUME NEW v, NEW b, NEW o, NEW g, Server(v, b, o, g)
    PROVE  Leads(v, v, b, o, g)
  BY Zenon DEF Leads, Grows

\* What a frame says of the records known remains so.
LEMMA ArrivedGrows ==
    ASSUME NEW v, NEW w, NEW g, NEW f, Arrived(Known(v, g), f), Grows(v, w)
    PROVE  Arrived(Known(w, g), f)
<1>1. Known(v, g) \subseteq Known(w, g)
  BY Zenon DEF Known, Grows
<1> QED
  BY <1>1, Zenon DEF Arrived

\* The wait for a Sigma1.
LEMMA AwaitSigma1Leads ==
    ASSUME NEW v, NEW b, NEW o, NEW g, Server(v, b, o, g), g \in Settings,
           v.pc = "accept", NEW f \in b, Arrived(Known(v, g), f)
    PROVE  Leads(v, AwaitSigma1(v, f), b, o, g)
<1>1. CASE Unsecured(f) /\ f.op = "Sigma1"
  <2>1. f \in OfKind(b, "Sigma1")
    BY <1>1, Zenon DEF OfKind
  <2>2. AwaitSigma1(v, f) = BeginHandshake(v, f)
    BY <1>1, Zenon DEF AwaitSigma1
  <2>3. Server(BeginHandshake(v, f), b, o, g) /\ Grows(v, BeginHandshake(v, f))
    BY <2>1, BeginServer, Zenon
  <2> QED
    BY <2>2, <2>3, Zenon DEF Leads
<1>2. CASE ~(Unsecured(f) /\ f.op = "Sigma1")
  <2>1. AwaitSigma1(v, f) = v
    BY <1>2, Zenon DEF AwaitSigma1
  <2> QED
    BY <2>1, StaysLeads, Zenon
<1> QED
  BY <1>1, <1>2, Zenon

\* A frame carried into the next accept.
LEMMA CarryLeads ==
    ASSUME NEW v, NEW b, NEW o, NEW g, Server(v, b, o, g), g \in Settings,
           NEW f \in b, Arrived(Known(v, g), f)
    PROVE  Leads(v, Carry(v, f), b, o, g)
<1> DEFINE w == NextAccept(v)
<1>1. Leads(v, w, b, o, g)
  BY NextAcceptLeads, Zenon
<1> HIDE DEF w
<1>2. Server(w, b, o, g) /\ Arrived(Known(w, g), f)
  BY <1>1, ArrivedGrows, Zenon DEF Leads
<1>3. w.pc = "accept" => Leads(w, AwaitSigma1(w, f), b, o, g)
  BY <1>2, AwaitSigma1Leads, Zenon
<1>4. Carry(v, f) = IF w.pc = "accept" THEN AwaitSigma1(w, f) ELSE w
  BY Zenon DEF Carry, w
<1> QED
  BY <1>1, <1>3, <1>4, LeadsTrans, Zenon

\* The wait for a Sigma3.
LEMMA AwaitSigma3Leads ==
    ASSUME NEW v, NEW b, NEW o, NEW g, Server(v, b, o, g), g \in Settings,
           v.pc = "sigma3", NEW f \in b, \A h \in b : Arrived(Known(v, g), h)
    PROVE  Leads(v, AwaitSigma3(v, f), b, o, g)
<1> DEFINE p == HandleSigma3(v.resp, f.body)
           done == [v EXCEPT !.pc = "close", !.resp = p, !.derived = Append(@, p.output)]
<1>1. /\ DOMAIN v = ServerFields /\ Ledger(v, g) /\ v.accepts \in Nat /\ v.accepts > 0
      /\ v.why # "Mac" /\ Pending(v) /\ v.m1 \in OfKind(b, "Sigma1")
      /\ v.resp = AnswerInFull(NewResponder(v.accepts, v.accepts), v.m1.body)
  BY Zenon DEF Server, Ledger, Phase, Pending
<1>2. /\ v.m1 \in b /\ v.m1.body \in Sigma1s /\ v.m1.body.rand = v.m1.src
      /\ v.m1.src \in Attempts
  BY <1>1, Zenon DEF Arrived, OfKind
<1>3. v.resp = [eph |-> v.accepts, sid |-> v.accepts, s1 |-> v.m1.body,
                reply |-> [eph |-> v.accepts, sid |-> v.accepts, id |-> v.accepts,
                           s1 |-> v.m1.body],
                output |-> None]
  BY <1>1, Zenon DEF AnswerInFull, NewResponder, Sigma2
<1>4. CASE Unsecured(f) /\ f.op = "Sigma3" /\ p # Failed
  <2>1. f.src \in Attempts /\ f.body.s1.rand = f.src /\ f.body.node = f.src[1]
    BY <1>4, Zenon DEF Arrived
  <2>2. f.body.s1 = v.m1.body /\ f.body.s2 = v.resp.reply
    BY <1>3, <1>4 DEF HandleSigma3
  <2> DEFINE a == v.accepts
             e == Output(FullKeys(f.src, a), a, f.body.s1.sid,
                         Record(a, <<f.src, a>>, f.src[1]))
  <2>3. p = [v.resp EXCEPT !.output =
               Output(FullKeys(v.resp.s1.rand, v.resp.eph), v.resp.sid, v.resp.s1.sid,
                      Record(v.resp.eph, <<v.resp.s1.rand, v.resp.eph>>, f.body.node))]
    BY <1>4, Zenon DEF HandleSigma3
  <2>4. v.resp.eph = a /\ v.resp.sid = a /\ v.resp.s1 = f.body.s1 /\ "output" \in DOMAIN v.resp
    BY <1>3, <2>2
  <2>5. p.output = e
    <3>1. p = [v.resp EXCEPT !.output = e]
      BY <2>1, <2>3, <2>4, Zenon
    <3> QED
      BY <2>4, <3>1, Zenon
  <2>6. e \in Outputs
    <3>1. f.src[1] \in Nodes
      BY <2>1, Zenon DEF Attempts
    <3>2. FullKeys(f.src, a) \in Keys
      BY <1>1, <2>1, Zenon DEF FullKeys, Keys
    <3>3. Record(a, <<f.src, a>>, f.src[1]) \in Records
      BY <1>1, <2>1, <3>1 DEF Record, Records, Secrets
    <3>4. f.body.s1.sid \in Nat
      BY <1>2, <2>2, Zenon DEF Sigma1s
    <3> QED
      BY <1>1, <3>2, <3>3, <3>4, Zenon DEF Output, Outputs
  <2>7. /\ e.keys[1] = "full" /\ e.keys[3] = a /\ e.record.id = a
        /\ e.record.secret = <<f.src, a>> /\ e.record.node = f.src[1]
    BY Zenon DEF Output, FullKeys, Record
  <2>8. e = Completed(f.body) /\ f.body.s2.id = f.body.s2.eph
    <3>1. f.body.s2.eph = a /\ f.body.s2.sid = a /\ f.body.s2.id = a
      BY <1>3, <2>2
    <3> QED
      BY <2>1, <3>1, Zenon DEF Completed
  <2> HIDE DEF e, p
  <2>9. /\ DOMAIN done = ServerFields /\ done.pc = "close" /\ done.resp = p
        /\ done.accepts = a /\ done.records = v.records
        /\ done.derived = Append(v.derived, e) /\ done.m1 = v.m1 /\ done.out = v.out
        /\ done.why = v.why /\ done.mixed = v.mixed
    BY <1>1, <2>5, Zenon DEF ServerFields
  <2> HIDE DEF done
  <2>10. Derives(v, done, e)
    <3>1. \A r \in v.records : r.id < v.accepts
      BY <1>1, Zenon DEF Ledger
    <3>2. \A d \in Sessions(v) : d.record.id # v.accepts
      BY <1>1, Zenon DEF Ledger, Derivation
    <3> QED
      BY <1>1, <2>6, <2>7, <2>9, <3>1, <3>2, Zenon DEF Derives
  <2>11. Ledger(done, g) /\ Sessions(done) = Sessions(v) \cup {e}
    BY <1>1, <2>10, DerivedLedger
  <2>12. Owner(e.record.secret) = e.record.node
    BY <2>7 DEF Owner
  <2>13. Phase(done, b)
    BY <1>1, <2>5, <2>7, <2>9, <2>11, <2>12, Zenon DEF Phase, Pending
  <2>14. \A h \in o \cup done.out : Sent(Sessions(done), done.mixed, b, h)
    BY <2>9, <2>11, SentGrows, Zenon DEF Server
  <2>15. Server(done, b, o, g)
    BY <2>9, <2>11, <2>13, <2>14, Zenon DEF Server
  <2>16. ASSUME NEW h, h = [to |-> done.m1.src[1], ex |-> f.ex, dst |-> f.src,
                            ctr |-> done.ctr, op |-> "StatusReport", body |-> None]
         PROVE  Sent(Sessions(done), done.mixed, b, h)
    <3>1. h.dst = f.src /\ h.op = "StatusReport"
      BY <2>16, Zenon
    <3>2. f \in OfKind(b, "Sigma3")
      BY <1>4, Zenon DEF OfKind
    <3>3. Completed(f.body) \in Sessions(done)
      BY <2>8, <2>11, Zenon
    <3> QED
      BY <2>1, <2>8, <3>1, <3>2, <3>3, Zenon DEF Sent
  <2>17. /\ Server(Reply(done, f, "StatusReport", None), b, o, g)
         /\ Grows(done, Reply(done, f, "StatusReport", None))
    BY <2>15, <2>16, ReplyServer, Zenon
  <2>18. Grows(v, done)
    BY <2>9, <2>11, Zenon DEF Grows
  <2>19. AwaitSigma3(v, f) = Reply(done, f, "StatusReport", None)
    BY <1>4, Zenon DEF AwaitSigma3, done, p
  <2> QED
    BY <2>17, <2>18, <2>19, GrowsTrans, Zenon DEF Leads
<1>5. CASE Unsecured(f) /\ f.op = "Sigma1"
  <2>1. f.src \in Attempts
    BY <1>5, Zenon DEF Arrived
  <2>2. /\ v.resp.reply \in [eph : Nat, sid : Nat, id : Nat, s1 : Sigma1s]
        /\ v.resp.reply.s1 = v.m1.body
    BY <1>1, <1>2, <1>3
  <2>3. ASSUME NEW M, NEW c, v.mixed \subseteq M, f.src # v.m1.src => f.src \in M,
               NEW h, h = [to |-> v.m1.src[1], ex |-> f.ex, dst |-> f.src, ctr |-> c,
                           op |-> "Sigma2", body |-> v.resp.reply]
        PROVE  Sent(Sessions(v), M, b, h)
    <3>1. h.dst = f.src /\ h.op = "Sigma2" /\ h.body = v.resp.reply
      BY <2>3, Zenon
    <3> QED
      BY <1>1, <2>1, <2>2, <2>3, <3>1, Zenon DEF Sent
  <2>4. Leads(v, ReplyAgain(v, f, "Sigma2"), b, o, g)
    BY <2>3, ReplyAgainServer, Zenon DEF Leads
  <2>5. Leads(ReplyAgain(v, f, "Sigma2"), Budget(ReplyAgain(v, f, "Sigma2")), b, o, g)
    BY <2>4, BudgetServer, Zenon DEF Leads
  <2>6. AwaitSigma3(v, f) = Budget(ReplyAgain(v, f, "Sigma2"))
    BY <1>5, Zenon DEF AwaitSigma3
  <2> QED
    BY <2>4, <2>5, <2>6, LeadsTrans, Zenon
<1>6. CASE Unsecured(f) /\ f.op = "Ack"
  <2>1. AwaitSigma3(v, f) = Budget(v)
    BY <1>6, Zenon DEF AwaitSigma3
  <2> QED
    BY <2>1, BudgetServer, Zenon DEF Leads
<1>7. CASE /\ ~(Unsecured(f) /\ f.op = "Sigma3" /\ p # Failed)
           /\ ~(Unsecured(f) /\ f.op = "Sigma1")
           /\ ~(Unsecured(f) /\ f.op = "Ack")
  <2>1. AwaitSigma3(v, f) = NextAccept(v)
    BY <1>7, Zenon DEF AwaitSigma3
  <2> QED
    BY <2>1, NextAcceptLeads, Zenon
<1> QED
  BY <1>4, <1>5, <1>6, <1>7, Zenon

\* The wait for the report that ends a resumption.
LEMMA AwaitReportLeads ==
    ASSUME NEW v, NEW b, NEW o, NEW g, Server(v, b, o, g), g \in Settings,
           v.pc = "resume", NEW f \in b, \A h \in b : Arrived(Known(v, g), h)
    PROVE  Leads(v, AwaitReport(v, f), b, o, g)
<1>1. /\ v.m1 \in OfKind(b, "Sigma1") /\ v.m1 \in b
      /\ Resumes(Sessions(v), v.m1, v.resp.reply)
  BY Zenon DEF Server, Phase, Pending, OfKind
<1>2. CASE Unsecured(f) /\ f.op = "StatusReport"
  <2>1. f.src \in Attempts
    BY <1>2, Zenon DEF Arrived
  <2>2. ASSUME NEW h, h = [to |-> v.m1.src[1], ex |-> f.ex, dst |-> f.src,
                           ctr |-> v.ctr, op |-> "Ack", body |-> None]
        PROVE  Sent(Sessions(v), v.mixed, b, h)
    <3>1. h.dst = f.src /\ h.op = "Ack"
      BY <2>2, Zenon
    <3> QED
      BY <2>1, <3>1, Zenon DEF Sent
  <2> DEFINE w == Reply(v, f, "Ack", None)
  <2>3. Server(w, b, o, g) /\ Grows(v, w) /\ w.pc = v.pc
    <3>1. Server(Reply(v, f, "Ack", None), b, o, g) /\ Grows(v, Reply(v, f, "Ack", None))
      BY <2>2, ReplyServer, Zenon
    <3>2. Reply(v, f, "Ack", None).pc = v.pc
      BY Zenon DEF Reply, Server, ServerFields
    <3> QED
      BY <3>1, <3>2, Zenon
  <2> HIDE DEF w
  <2>4. Leads(w, Established(w), b, o, g)
    BY <2>3, EstablishedServer, Zenon DEF Leads
  <2>5. AwaitReport(v, f) = Established(w)
    BY <1>2, Zenon DEF AwaitReport, w
  <2> QED
    BY <2>3, <2>4, <2>5, LeadsTrans, Zenon DEF Leads
<1>3. CASE Unsecured(f) /\ f.op = "Sigma1"
  <2>1. f.src \in Attempts
    BY <1>3, Zenon DEF Arrived
  <2>2. v.resp.reply.id \in Nat /\ v.resp.reply.sid \in Nat
    <3>1. PICK e \in Sessions(v) :
            e = Output(ResumedKeys(e.record.secret, v.m1.src, v.m1.body.resume.id),
                       v.resp.reply.sid, v.m1.body.sid,
                       Record(v.resp.reply.id, e.record.secret, Expected))
      BY <1>1, Zenon DEF Resumes
    <3>2. e \in Outputs /\ Derivation(v, e)
      BY KnownTypes, Zenon DEF Server, Ledger
    <3>3. v.resp.reply.sid = e.local /\ v.resp.reply.id = e.record.id
      <4>1. \A k, l, m, i, t, n : /\ Output(k, l, m, Record(i, t, n)).local = l
                                 /\ Output(k, l, m, Record(i, t, n)).record.id = i
        BY Zenon DEF Output, Record
      <4> QED
        BY <3>1, <4>1
    <3>4. e.local \in Nat /\ e.record.id \in Nat
      BY <3>2 DEF Derivation, Outputs, Server, Ledger
    <3> QED
      BY <3>3, <3>4, Zenon
  <2>3. ASSUME NEW M, NEW c, v.mixed \subseteq M, f.src # v.m1.src => f.src \in M,
               NEW h, h = [to |-> v.m1.src[1], ex |-> f.ex, dst |-> f.src, ctr |-> c,
                           op |-> "Sigma2Resume", body |-> v.resp.reply]
        PROVE  Sent(Sessions(v), M, b, h)
    <3>1. h.dst = f.src /\ h.op = "Sigma2Resume" /\ h.body = v.resp.reply
      BY <2>3, Zenon
    <3> QED
      BY <1>1, <2>1, <2>2, <2>3, <3>1, Zenon DEF Sent
  <2>4. Leads(v, ReplyAgain(v, f, "Sigma2Resume"), b, o, g)
    BY <2>3, ReplyAgainServer, Zenon DEF Leads
  <2>5. Leads(ReplyAgain(v, f, "Sigma2Resume"), Budget(ReplyAgain(v, f, "Sigma2Resume")),
              b, o, g)
    BY <2>4, BudgetServer, Zenon DEF Leads
  <2>6. AwaitReport(v, f) = Budget(ReplyAgain(v, f, "Sigma2Resume"))
    BY <1>3, Zenon DEF AwaitReport
  <2> QED
    BY <2>4, <2>5, <2>6, LeadsTrans, Zenon
<1>4. CASE Unsecured(f) /\ f.op = "Ack"
  <2>1. AwaitReport(v, f) = Budget(v)
    BY <1>4, Zenon DEF AwaitReport
  <2> QED
    BY <2>1, BudgetServer, Zenon DEF Leads
<1>5. CASE /\ ~(Unsecured(f) /\ f.op = "StatusReport")
           /\ ~(Unsecured(f) /\ f.op = "Sigma1")
           /\ ~(Unsecured(f) /\ f.op = "Ack")
  <2>1. AwaitReport(v, f) = NextAccept(v)
    BY <1>5, Zenon DEF AwaitReport
  <2> QED
    BY <2>1, NextAcceptLeads, Zenon
<1> QED
  BY <1>2, <1>3, <1>4, <1>5, Zenon

\* A reception while a session is served.
LEMMA ServeLeads ==
    ASSUME NEW v, NEW b, NEW o, NEW g, Server(v, b, o, g), g \in Settings,
           v.pc = "serve", NEW f \in b, Arrived(Known(v, g), f)
    PROVE  Leads(v, Serve(v, f), b, o, g)
<1> DEFINE w == Served(Dispatch([v EXCEPT !.seen = @ \cup {f.seq}], f))
<1>1. Leads(v, Carry(v, f), b, o, g)
  BY CarryLeads, Zenon
<1>2. Leads(v, v, b, o, g)
  BY StaysLeads, Zenon
<1>3. Rests(v, w)
  BY ServedRests, Zenon DEF Server
<1>4. Leads(v, w, b, o, g)
  BY <1>3, RestsServer, Zenon DEF Leads
<1>5. Serve(v, f) \in {Carry(v, f), v, w}
  BY Zenon DEF Serve
<1> HIDE DEF w
<1> QED
  BY <1>1, <1>2, <1>4, <1>5, Zenon

\* The reception after the success report.
LEMMA CloseLeads ==
    ASSUME NEW v, NEW b, NEW o, NEW g, Server(v, b, o, g), g \in Settings,
           v.pc = "close", NEW f \in b, Arrived(Known(v, g), f)
    PROVE  Leads(v, Close(v, f), b, o, g)
<1> DEFINE w == Established(v)
<1>1. Leads(v, w, b, o, g)
  BY EstablishedServer, Zenon DEF Leads
<1>2. Close(v, f) \in {w, Carry(w, f)} \/ (w.pc = "serve" /\ Close(v, f) = Serve(w, f))
  BY Zenon DEF Close
<1> HIDE DEF w
<1>3. Server(w, b, o, g) /\ Arrived(Known(w, g), f)
  BY <1>1, ArrivedGrows, Zenon DEF Leads
<1>4. Leads(w, Carry(w, f), b, o, g)
  BY <1>3, CarryLeads, Zenon
<1>5. w.pc = "serve" => Leads(w, Serve(w, f), b, o, g)
  BY <1>3, ServeLeads, Zenon
<1> QED
  BY <1>1, <1>2, <1>4, <1>5, LeadsTrans, Zenon

\* What the server does with a frame.
LEMMA HandleLeads ==
    ASSUME NEW v, NEW b, NEW o, NEW g, Server(v, b, o, g), g \in Settings,
           v.pc \in {"accept", "sigma3", "resume", "close", "serve"},
           NEW f \in b, \A h \in b : Arrived(Known(v, g), h)
    PROVE  Leads(v, Handle(v, f), b, o, g)
<1>1. CASE v.pc = "accept"
  BY <1>1, AwaitSigma1Leads, Zenon DEF Handle
<1>2. CASE v.pc = "sigma3"
  BY <1>2, AwaitSigma3Leads, Zenon DEF Handle
<1>3. CASE v.pc = "resume"
  BY <1>3, AwaitReportLeads, Zenon DEF Handle
<1>4. CASE v.pc = "close"
  BY <1>4, CloseLeads, Zenon DEF Handle
<1>5. CASE v.pc = "serve"
  BY <1>5, ServeLeads, Zenon DEF Handle
<1> QED
  BY <1>1, <1>2, <1>3, <1>4, <1>5, Zenon

-----------------------------------------------------------------------------
\* More frames in the network change nothing for the server.
LEMMA ServerBox ==
    ASSUME NEW v, NEW b, NEW c, NEW o, NEW g, Server(v, b, o, g), b \subseteq c
    PROVE  Server(v, c, o, g)
<1>1. \A op : OfKind(b, op) \subseteq OfKind(c, op)
  BY Zenon DEF OfKind
<1>2. Phase(v, c)
  BY <1>1, Zenon DEF Server, Phase
<1>3. \A f \in o \cup v.out : Sent(Sessions(v), v.mixed, c, f)
  BY SentGrows, Zenon DEF Server
<1> QED
  BY <1>2, <1>3, Zenon DEF Server

\* A node is as it was when the server has moved on and more frames are sent.
LEMMA NodeGrows ==
    ASSUME NEW n, NEW d, NEW b, NEW c, NEW v, NEW w, NEW g,
           Node(n, d, b, v, g), b \subseteq c, Grows(v, w)
    PROVE  Node(n, d, c, w, g)
<1>1. Known(v, g) \subseteq Known(w, g)
  BY Zenon DEF Known, Grows
<1>2. \A r : Holds(Known(v, g), n, r) => Holds(Known(w, g), n, r)
  BY <1>1, Zenon DEF Holds
<1>3. \A m : Agrees(Sessions(v), m) => Agrees(Sessions(w), m)
  BY Zenon DEF Agrees, Grows
<1> QED
  BY <1>2, <1>3, Zenon DEF Node, Grows

\* A step of the node n into the state e, which sends the frames F.
LEMMA NodeStep ==
    ASSUME IInv, NEW n \in Nodes, NEW e, NEW F,
           dev' = [dev EXCEPT ![n] = e], inbox' = inbox \cup F, UNCHANGED <<s, back, set>>,
           Node(n, e, inbox \cup F, s, set),
           \A f \in inbox \cup F : Own(n, e, f),
           \A f \in F : /\ Arrived(Known(s, set), f)
                        /\ Unsecured(f) => f.src[1] = n
    PROVE  IInv'
<1>1. set' \in Settings /\ s'.out = {}
  BY Zenon DEF IInv
<1>2. Server(s, inbox', back, set)
  BY ServerBox, Zenon DEF IInv
<1>3. Server(s, inbox, back, set)'
  BY <1>2, Zenon
<1>4. \A f \in inbox' : Arrived(Known(s, set), f)
  BY Zenon DEF IInv
<1>5. (\A f \in inbox : Arrived(Known(s, set), f))'
  BY <1>4, Zenon
<1>6. DOMAIN dev' = Nodes /\ dev'[n] = e /\ \A m \in Nodes \ {n} : dev'[m] = dev[m]
  BY Zenon DEF IInv
<1>7. ASSUME NEW m \in Nodes
      PROVE  Node(m, dev'[m], inbox', s, set)
  <2>1. CASE m = n
    BY <1>6, <2>1, Zenon
  <2>2. CASE m # n
    <3>1. Node(m, dev[m], inbox, s, set) /\ Grows(s, s) /\ inbox \subseteq inbox'
      BY Zenon DEF IInv, Grows
    <3>2. Node(m, dev[m], inbox', s, set)
      BY <3>1, NodeGrows, Zenon
    <3> QED
      BY <1>6, <2>2, <3>2, Zenon
  <2> QED
    BY <2>1, <2>2, Zenon
<1>8. (\A m \in Nodes : Node(m, dev[m], inbox, s, set))'
  BY <1>7, Zenon
<1>9. ASSUME NEW m \in Nodes, NEW f \in inbox'
      PROVE  Own(m, dev'[m], f)
  <2>1. CASE m = n
    BY <1>6, <2>1, Zenon
  <2>2. CASE m # n /\ f \in inbox
    BY <1>6, <2>2, Zenon DEF IInv
  <2>3. CASE m # n /\ f \in F
    BY <2>3, Zenon DEF Own
  <2> QED
    BY <2>1, <2>2, <2>3, Zenon
<1>10. (\A m \in Nodes : \A f \in inbox : Own(m, dev[m], f))'
  BY <1>9, Zenon
<1> QED
  BY <1>1, <1>3, <1>5, <1>6, <1>8, <1>10, Zenon DEF IInv

\* A node in the state e has the attempt, the session and the record of the
\* state d, and goes on with them or has given up for another reason than a
\* message that did not verify.
Keeps(d, e) ==
    /\ DOMAIN e = NodeFields /\ d.pc # "idle"
    /\ e.att = d.att /\ e.i = d.i /\ e.record = d.record /\ e.sess = d.sess
    /\ DOMAIN e.x = ExchangeFields /\ e.x.src = d.x.src /\ e.x.frame = d.x.frame
    /\ e.pc = d.pc \/ e.pc = "failed"
    /\ e.why = d.why \/ e.why # "Crypto"

\* Such a step keeps what holds of the node and of its frames.
LEMMA KeepsNode ==
    ASSUME NEW n, NEW d, NEW e, NEW b, NEW v, NEW g, Node(n, d, b, v, g), Keeps(d, e)
    PROVE  Node(n, e, b, v, g) /\ \A f : Own(n, d, f) => Own(n, e, f)
<1>1. Node(n, e, b, v, g)
  BY Zenon DEF Node, Keeps
<1>2. \A s3 : Offered(d, s3) => Offered(e, s3)
  BY Zenon DEF Offered, Keeps
<1>3. \A f : Own(n, d, f) => Own(n, e, f)
  BY <1>2, Zenon DEF Own, Keeps
<1> QED
  BY <1>1, <1>3, Zenon

\* A frame that means nothing to a handshake: secured, or an acknowledgement or
\* a report of the node's own attempt.
Plain(n, d, f) ==
    Unsecured(f) => f.op \in {"Ack", "StatusReport"} /\ f.src = <<n, d.att>>

\* Such a frame is as the server and the node expect.
LEMMA PlainFrame ==
    ASSUME NEW n \in Nodes, NEW d, d.att \in Nat, NEW f, Plain(n, d, f), NEW K
    PROVE  /\ Arrived(K, f) /\ Own(n, d, f)
           /\ Unsecured(f) => f.src[1] = n
<1>1. Unsecured(f) => f.src \in Attempts /\ f.src[1] = n /\ f.src[2] = d.att
  BY DEF Plain, Attempts
<1>2. Unsecured(f) => f.op # "Sigma1" /\ f.op # "Sigma3"
  BY Zenon DEF Plain
<1>3. Arrived(K, f)
  BY <1>1, <1>2, Zenon DEF Arrived
<1>4. Own(n, d, f)
  BY <1>1, <1>2 DEF Own
<1> QED
  BY <1>1, <1>3, <1>4, Zenon

\* A step of a node that keeps what it has and sends only such frames.
LEMMA KeepsStep ==
    ASSUME IInv, NEW n \in Nodes, NEW e, NEW F,
           dev' = [dev EXCEPT ![n] = e], inbox' = inbox \cup F, UNCHANGED <<s, back, set>>,
           Keeps(dev[n], e), \A f \in F : f \in inbox \/ Plain(n, e, f)
    PROVE  IInv'
<1>1. Node(n, dev[n], inbox \cup F, s, set)
  <2>1. Node(n, dev[n], inbox, s, set) /\ Grows(s, s)
    BY Zenon DEF IInv, Grows
  <2> QED
    BY <2>1, NodeGrows, Zenon
<1>2. Node(n, e, inbox \cup F, s, set) /\ \A f : Own(n, dev[n], f) => Own(n, e, f)
  BY <1>1, KeepsNode, Zenon
<1>3. e.att \in Nat
  BY <1>2, Zenon DEF Node
<1> DEFINE G == F \ inbox
<1>4. inbox' = inbox \cup G /\ inbox \cup G = inbox \cup F
  BY Zenon
<1>5. ASSUME NEW f \in G
      PROVE  Arrived(Known(s, set), f) /\ Own(n, e, f) /\ (Unsecured(f) => f.src[1] = n)
  <2>1. Plain(n, e, f)
    BY <1>5, Zenon
  <2> QED
    BY <1>3, <2>1, PlainFrame, Zenon
<1>6. \A f \in inbox \cup G : Own(n, e, f)
  BY <1>2, <1>5, Zenon DEF IInv
<1>7. Node(n, e, inbox \cup G, s, set)
  BY <1>2, <1>4, Zenon
<1> HIDE DEF G
<1> QED
  BY <1>4, <1>5, <1>6, <1>7, NodeStep, Zenon

\* The driver of the node returns the session that it had in the state d.
Rises(d, e) ==
    /\ DOMAIN e = NodeFields /\ d.pc # "idle" /\ e.pc = "up"
    /\ e.att = d.att /\ e.i = d.i /\ e.record = d.sess.record /\ e.sess = d.sess
    /\ DOMAIN e.x = ExchangeFields /\ e.x.src = d.x.src /\ e.why = d.why

\* It may, once the session is the other end of one that the server derived.
LEMMA RisesStep ==
    ASSUME IInv, NEW n \in Nodes, NEW e, NEW F,
           dev' = [dev EXCEPT ![n] = e], inbox' = inbox \cup F, UNCHANGED <<s, back, set>>,
           Rises(dev[n], e), \A f \in F : Plain(n, e, f),
           Agrees(Sessions(s), dev[n].sess), Owner(dev[n].sess.record.secret) = n
    PROVE  IInv'
<1>1. Node(n, dev[n], inbox, s, set)
  BY Zenon DEF IInv
<1>2. Holds(Known(s, set), n, e.record)
  BY Zenon DEF Holds, Agrees, Known, Rises
<1>3. Node(n, e, inbox \cup F, s, set)
  BY <1>1, <1>2, Zenon DEF Node, Rises
<1>4. e.att \in Nat
  BY <1>3, Zenon DEF Node
<1>5. \A f \in F : Arrived(Known(s, set), f) /\ Own(n, e, f) /\ (Unsecured(f) => f.src[1] = n)
  BY <1>4, PlainFrame, Zenon
<1>6. \A f \in inbox : Own(n, e, f)
  <2>1. \A f \in inbox : Own(n, dev[n], f)
    BY Zenon DEF IInv
  <2> QED
    BY <2>1, Zenon DEF Own, Rises
<1> QED
  BY <1>3, <1>5, <1>6, NodeStep, Zenon

\* What changes in an exchange while one message is being sent.
LEMMA ExchangeKept ==
    ASSUME NEW x, DOMAIN x = ExchangeFields, NEW f,
           NEW y \in {x, Skipped(x, f), Consumed(x, f), Spent(x)}
    PROVE  DOMAIN y = ExchangeFields /\ y.src = x.src /\ y.frame = x.frame /\ y.ex = x.ex
  BY Zenon DEF ExchangeFields, Skipped, Consumed, Spent

\* The next message of an exchange.
LEMMA SendingFacts ==
    ASSUME NEW x, DOMAIN x = ExchangeFields, NEW op, NEW body
    PROVE  /\ DOMAIN Sending(x, op, body) = ExchangeFields
           /\ Sending(x, op, body).src = x.src
           /\ Sending(x, op, body).frame = [ex |-> x.ex, src |-> x.src, op |-> op, body |-> body]
  BY Zenon DEF ExchangeFields, Sending

\* Other retransmission delays for the same exchange.
LEMMA ResizedFacts ==
    ASSUME NEW x, DOMAIN x = ExchangeFields
    PROVE  DOMAIN Resized(x) = ExchangeFields /\ Resized(x).src = x.src
  BY Zenon DEF ExchangeFields, Resized, ResizePeerMrp

\* A wait runs out.
LEMMA TimesOutKeeps ==
    ASSUME IInv, NEW n \in Nodes, TimesOut(n)
    PROVE  IInv'
<1> DEFINE d == dev[n]
           x == IF d.x.acked THEN d.x ELSE Spent(d.x)
           last == OutOfTime(d.x)
           up == Up([d EXCEPT !.x = x])
           e == CASE ~last -> [d EXCEPT !.x = x]
                  [] last /\ d.pc = "close" -> Up([d EXCEPT !.x = x])
                  [] OTHER -> [d EXCEPT !.pc = "failed", !.why = "Timeout", !.x = x]
           F == IF last THEN {} ELSE {x.frame}
<1>1. /\ dev' = [dev EXCEPT ![n] = e] /\ UNCHANGED <<s, back, set>>
      /\ inbox' = IF last THEN inbox ELSE inbox \cup {x.frame}
      /\ d.pc \in {"sigma1", "sigma3", "close"}
  BY Zenon DEF TimesOut, Waiting
<1>2. Node(n, d, inbox, s, set)
  BY Zenon DEF IInv
<1>3. /\ DOMAIN d = NodeFields /\ DOMAIN d.x = ExchangeFields /\ d.x.frame \in inbox
      /\ d.pc # "idle"
  BY <1>1, <1>2, Zenon DEF Node
<1>4. DOMAIN x = ExchangeFields /\ x.src = d.x.src /\ x.frame = d.x.frame
  BY <1>3, ExchangeKept, Zenon
<1>5. inbox' = inbox \cup {}
  BY <1>1, <1>3, <1>4, Zenon
<1> HIDE DEF x, last
<1>6. CASE last /\ d.pc = "close"
  <2>1. e = up
    BY <1>6, Zenon
  <2>2. Agrees(Sessions(s), d.sess) /\ Owner(d.sess.record.secret) = n
    BY <1>2, <1>6, Zenon DEF Node
  <2>3. Rises(d, up)
    BY <1>3, <1>4, Zenon DEF Up, NodeFields, Rises
  <2> HIDE DEF up
  <2>4. dev' = [dev EXCEPT ![n] = up]
    BY <1>1, <2>1, Zenon
  <2> DEFINE G == {f \in inbox : FALSE}
  <2>5. inbox' = inbox \cup G /\ \A f \in G : Plain(n, up, f)
    BY <1>5, Zenon
  <2> HIDE DEF G
  <2> QED
    BY <1>1, <2>2, <2>3, <2>4, <2>5, RisesStep, Zenon
<1>7. CASE ~(last /\ d.pc = "close")
  <2>1. Keeps(d, e)
    <3>1. e \in {[d EXCEPT !.x = x], [d EXCEPT !.pc = "failed", !.why = "Timeout", !.x = x]}
      BY <1>7, Zenon
    <3> HIDE DEF e
    <3> QED
      BY <1>3, <1>4, <3>1, Zenon DEF Keeps, NodeFields
  <2> HIDE DEF e
  <2> QED
    BY <1>1, <1>5, <2>1, KeepsStep, Zenon
<1> QED
  BY <1>6, <1>7, Zenon

\* The dialogue of the update: neither a request, nor an abort, nor an answer
\* touches the handshake.
LEMMA DialogueKeeps ==
    ASSUME IInv, NEW n \in Nodes,
           Request(n) \/ AbortsTransfer(n) \/ \E f \in back : Answered(n, f)
    PROVE  IInv'
<1> DEFINE d == dev[n]
<1>1. d.pc = "up" /\ UNCHANGED <<s, back, set>>
  BY Zenon DEF Request, AbortsTransfer, Answered
<1>2. /\ DOMAIN d = NodeFields /\ d.pc # "idle" /\ DOMAIN d.x = ExchangeFields
      /\ n \in DOMAIN dev
  BY <1>1, Zenon DEF IInv, Node
<1>3. \A c, op, k, e : Plain(n, e, Secured(c, op, k))
  BY Zenon DEF Plain, Secured, Unsecured
<1>4. CASE Request(n)
  <2>1. PICK k : LET f == Secured(d, RequestOf(d.phase), k)
                 IN  /\ dev' = [dev EXCEPT ![n].seq = f.seq, ![n].frame = f]
                     /\ inbox' = inbox \cup {f}
    BY <1>4, Zenon DEF Request
  <2> DEFINE f == Secured(d, RequestOf(d.phase), k)
             e == [d EXCEPT !.seq = f.seq, !.frame = f]
  <2> HIDE DEF f
  <2>2. dev' = [dev EXCEPT ![n] = e] /\ inbox' = inbox \cup {f}
    BY <1>2, <2>1, Zenon DEF f
  <2>3. Keeps(d, e)
    BY <1>2, Zenon DEF Keeps, NodeFields
  <2> HIDE DEF e
  <2>4. Plain(n, e, f)
    BY <1>3, Zenon DEF f
  <2> QED
    BY <1>1, <2>2, <2>3, <2>4, KeepsStep, Zenon
<1>5. CASE AbortsTransfer(n)
  <2> DEFINE f == Secured(d, "StatusReport", 0)
             e == [d EXCEPT !.pc = "failed", !.why = "Aborted", !.phase = "query"]
  <2>1. dev' = [dev EXCEPT ![n] = e] /\ inbox' = inbox \cup {f}
    BY <1>2, <1>5, Zenon DEF AbortsTransfer
  <2>2. Keeps(d, e)
    BY <1>2, Zenon DEF Keeps, NodeFields
  <2> HIDE DEF e
  <2>3. Plain(n, e, f)
    BY <1>3, Zenon
  <2> HIDE DEF f
  <2> QED
    BY <1>1, <2>1, <2>2, <2>3, KeepsStep, Zenon
<1>6. CASE \E f \in back : Answered(n, f)
  <2>1. PICK f \in back : Answered(n, f)
    BY <1>6, Zenon
  <2> DEFINE c == [d EXCEPT !.frame = None]
             Block(phase, k) == [c EXCEPT !.phase = phase, !.image = @ \o f.data,
                                          !.next = f.n + 1, !.seq = @ + k]
             e == CASE f.op = "QueryImageResponse"  -> [c EXCEPT !.phase = "init"]
                    [] f.op = "ReceiveAccept"       -> [c EXCEPT !.phase = "block",
                                                                 !.image = <<>>, !.next = 0]
                    [] f.op = "Block"               -> Block("block", 0)
                    [] f.op = "BlockEof"            -> Block("apply", 1)
                    [] f.op = "ApplyUpdateResponse" -> [c EXCEPT !.phase = "notify"]
                    [] f.op = "Success"             -> [c EXCEPT !.phase = "done"]
                    [] OTHER                        -> [c EXCEPT !.pc = "failed",
                                                                 !.why = "Aborted"]
             F == IF f.op = "BlockEof" THEN {Secured(c, "BlockAckEof", f.n)} ELSE {}
  <2>2. /\ dev' = [dev EXCEPT ![n] = e]
        /\ inbox' = IF f.op = "BlockEof" THEN inbox \cup {Secured(c, "BlockAckEof", f.n)}
                    ELSE inbox
    BY <2>1, Zenon DEF Answered
  <2>3. Keeps(d, c) /\ c.pc = "up"
    BY <1>1, <1>2, Zenon DEF Keeps, NodeFields
  <2> HIDE DEF c
  <2>4. Keeps(d, e)
    <3>1. Keeps(d, [c EXCEPT !.phase = "init"]) /\ Keeps(d, [c EXCEPT !.phase = "notify"])
      BY <2>3, Zenon DEF Keeps, NodeFields
    <3>2. /\ Keeps(d, [c EXCEPT !.phase = "done"])
          /\ Keeps(d, [c EXCEPT !.pc = "failed", !.why = "Aborted"])
      BY <2>3, Zenon DEF Keeps, NodeFields
    <3>3. Keeps(d, [c EXCEPT !.phase = "block", !.image = <<>>, !.next = 0])
      BY <2>3, Zenon DEF Keeps, NodeFields
    <3>4. \A p, k : Keeps(d, Block(p, k))
      BY <2>3, Zenon DEF Keeps, NodeFields
    <3> HIDE DEF Block
    <3> QED
      BY <3>1, <3>2, <3>3, <3>4, Zenon
  <2> HIDE DEF e
  <2>5. inbox' = inbox \cup F /\ \A h \in F : Plain(n, e, h)
    BY <1>3, <2>2, Zenon
  <2> HIDE DEF F
  <2> QED
    BY <1>1, <2>2, <2>4, <2>5, KeepsStep, Zenon
<1> QED
  BY <1>4, <1>5, <1>6, Zenon

\* A node that has sent its Sigma3 expects the session that the server derives
\* from it.
LEMMA OfferedAgrees ==
    ASSUME NEW d, NEW s3, NEW D, Offered(d, s3), s3.s2.id = s3.s2.eph, Completed(s3) \in D
    PROVE  Agrees(D, d.sess)
<1>1. d.sess = Output(FullKeys(d.i.rand, s3.s2.eph), d.i.sid, s3.s2.sid,
                      Record(s3.s2.id, <<d.i.rand, s3.s2.eph>>, d.i.node))
  BY Zenon DEF Offered, HandleSigma2
<1>2. s3.node = d.i.node /\ s3.s1 = Start(d.i)
  BY DEF Offered, Sigma3
<1>3. s3.s1.rand = d.i.rand /\ s3.s1.sid = d.i.sid
  BY <1>2 DEF Start
<1>4. Completed(s3) = Output(FullKeys(d.i.rand, s3.s2.eph), s3.s2.sid, d.i.sid,
                             Record(s3.s2.id, <<d.i.rand, s3.s2.eph>>, d.i.node))
  BY <1>2, <1>3, Zenon DEF Completed
<1>5. /\ Completed(s3).keys = d.sess.keys /\ Completed(s3).record = d.sess.record
      /\ Completed(s3).local = d.sess.peer /\ Completed(s3).peer = d.sess.local
  <2>1. \A k, l, m, r : /\ Output(k, l, m, r).keys = k /\ Output(k, l, m, r).record = r
                        /\ Output(k, l, m, r).local = l /\ Output(k, l, m, r).peer = m
    BY Zenon DEF Output
  <2> QED
    BY <1>1, <1>4, <2>1
<1> QED
  BY <1>5, Zenon DEF Agrees

\* The initiator of an attempt.
LEMMA InitiatorFacts ==
    ASSUME NEW n, NEW a, NEW i, i = NewInitiator(<<n, a>>, n, a, i.record)
    PROVE  i.rand = <<n, a>> /\ i.node = n /\ i.sid = a
<1>1. \A r : /\ NewInitiator(<<n, a>>, n, a, r).rand = <<n, a>>
             /\ NewInitiator(<<n, a>>, n, a, r).node = n
             /\ NewInitiator(<<n, a>>, n, a, r).sid = a
  BY Zenon DEF NewInitiator
<1> QED
  BY <1>1, Zenon

\* What process_sigma2 yields for an answer that opens.
LEMMA Sigma2Facts ==
    ASSUME NEW n \in Nodes, NEW a \in Nat, NEW i, i = NewInitiator(<<n, a>>, n, a, i.record),
           NEW s2 \in [eph : Nat, sid : Nat, id : Nat, s1 : Sigma1s], s2.s1 = Start(i)
    PROVE  /\ HandleSigma2(i, s2) # Failed
           /\ Owner(HandleSigma2(i, s2).record.secret) = n
<1>1. i.rand = <<n, a>> /\ i.node = n /\ i.sid = a
  BY InitiatorFacts
<1>2. s2.eph \in Nat /\ s2.sid \in Nat /\ s2.id \in Nat
  BY Zenon
<1> DEFINE r == Record(s2.id, <<<<n, a>>, s2.eph>>, n)
           e == Output(FullKeys(<<n, a>>, s2.eph), a, s2.sid, r)
<1>3. HandleSigma2(i, s2) = e
  BY <1>1, Zenon DEF HandleSigma2
<1>4. <<n, a>> \in Attempts
  BY Zenon DEF Attempts
<1>5. r \in Records
  BY <1>2, <1>4 DEF Record, Records, Secrets
<1>6. FullKeys(<<n, a>>, s2.eph) \in Keys
  BY <1>2, <1>4, Zenon DEF FullKeys, Keys
<1>7. Owner(r.secret) = n /\ e.record = r
  BY Zenon DEF Owner, Record, Output
<1> HIDE DEF r
<1>8. e \in Outputs
  BY <1>2, <1>5, <1>6, Zenon DEF Output, Outputs
<1> HIDE DEF e
<1> QED
  BY <1>3, <1>7, <1>8, NoneAssumption, Zenon DEF Failed

\* What handle_sigma2_resume yields: it fails only for the answer to another
\* attempt, and a session it yields is the one that the server resumed.
LEMMA Sigma2ResumeFacts ==
    ASSUME NEW n \in Nodes, NEW a \in Nat, NEW i, i = NewInitiator(<<n, a>>, n, a, i.record),
           i.record # None, i.record \in Records, Owner(i.record.secret) = n,
           NEW D, NEW h, NEW body, body.id \in Nat, body.sid \in Nat, Resumes(D, h, body),
           h.src = <<n, a>> => h.body = Start(i)
    PROVE  /\ HandleSigma2Resume(i, body) = Failed => h.src # <<n, a>>
           /\ HandleSigma2Resume(i, body) # Failed =>
                /\ Agrees(D, HandleSigma2Resume(i, body))
                /\ Owner(HandleSigma2Resume(i, body).record.secret) = n
<1>1. i.rand = <<n, a>> /\ i.node = n /\ i.sid = a
  BY InitiatorFacts
<1>2. PICK o \in D :
        /\ o = Output(ResumedKeys(o.record.secret, h.src, h.body.resume.id), body.sid,
                      h.body.sid, Record(body.id, o.record.secret, Expected))
        /\ body.mic = <<o.record.secret, h.src, body.id>>
        /\ h.body.resume.mic = <<o.record.secret, h.src, h.body.resume.id>>
        /\ Owner(o.record.secret) = Expected
  BY Zenon DEF Resumes
<1> DEFINE r == Record(body.id, i.record.secret, n)
           k == ResumedKeys(i.record.secret, <<n, a>>, i.record.id)
           e == Output(k, a, body.sid, r)
           out == HandleSigma2Resume(i, body)
<1>3. body.mic = <<i.record.secret, <<n, a>>, body.id>> => out = e
  BY <1>1, Zenon DEF HandleSigma2Resume
<1>4. out # Failed => body.mic = <<i.record.secret, <<n, a>>, body.id>>
  BY <1>1, Zenon DEF HandleSigma2Resume
<1>5. <<n, a>> \in Attempts /\ i.record.secret \in Secrets /\ i.record.id \in Int
  BY Zenon DEF Attempts, Records
<1>6. r \in Records /\ k \in Keys
  BY <1>5 DEF Record, Records, ResumedKeys, Keys
<1>7. /\ e.keys = k /\ e.local = a /\ e.peer = body.sid /\ e.record = r
      /\ r.secret = i.record.secret
  BY Zenon DEF Output, Record
<1>8. e \in Outputs
  <2> HIDE DEF r, k
  <2> QED
    BY <1>6, Zenon DEF Output, Outputs
<1>9. e # Failed
  BY <1>8, NoneAssumption, Zenon DEF Failed
<1> HIDE DEF out, e
<1>10. h.src = <<n, a>> => /\ h.body.resume.id = i.record.id /\ h.body.sid = a
                           /\ h.body.resume.mic = <<i.record.secret, <<n, a>>, i.record.id>>
  BY <1>1 DEF Start
<1>11. ASSUME h.src = <<n, a>>
       PROVE  out # Failed
  <2>1. o.record.secret = i.record.secret
    BY <1>2, <1>10, <1>11
  <2>2. body.mic = <<i.record.secret, <<n, a>>, body.id>>
    BY <1>2, <1>11, <2>1, Zenon
  <2> QED
    BY <1>3, <1>9, <2>2, Zenon
<1>12. ASSUME out # Failed
       PROVE  Agrees(D, out) /\ Owner(out.record.secret) = n
  <2>1. out = e
    BY <1>3, <1>4, <1>12, Zenon
  <2>2. o.record.secret = i.record.secret /\ h.src = <<n, a>>
    BY <1>2, <1>4, <1>12
  <2>3. n = Expected
    BY <1>2, <2>2, Zenon
  <2>4. h.body.resume.id = i.record.id /\ h.body.sid = a
    BY <1>10, <2>2, Zenon
  <2>5. o = Output(k, body.sid, a, r)
    <3>1. o = Output(ResumedKeys(i.record.secret, <<n, a>>, i.record.id), body.sid, a,
                     Record(body.id, i.record.secret, n))
      BY <1>2, <2>2, <2>3, <2>4, Zenon
    <3> QED
      BY <3>1, Zenon
  <2> HIDE DEF k, r
  <2>6. o.keys = k /\ o.local = body.sid /\ o.peer = a /\ o.record = r
    BY <2>5, Zenon DEF Output
  <2>7. Agrees(D, e)
    BY <1>7, <2>6, Zenon DEF Agrees
  <2> QED
    BY <1>7, <2>1, <2>7, Zenon
<1> QED
  BY <1>11, <1>12, Zenon DEF out

\* A node begins an attempt.
LEMMA ConnectKeeps ==
    ASSUME IInv, NEW n \in Nodes, NEW record \in {None, dev[n].record}, NEW phase,
           Connect(n, record, phase)
    PROVE  IInv'
<1> DEFINE d == dev[n]
           a == d.att + 1
           i == NewInitiator(<<n, a>>, n, a, record)
           z == NewExchange(IF set.collide THEN 0 ELSE a, <<n, a>>, set.mrp)
           x == Sending(z, "Sigma1", Start(i))
           e == [NewNode(d.record) EXCEPT !.pc = "sigma1", !.att = a, !.i = i,
                                          !.x = x, !.phase = phase, !.image = d.image]
<1>1. /\ dev' = [dev EXCEPT ![n] = [NewNode(@.record) EXCEPT
                                      !.pc = "sigma1", !.att = a, !.i = i, !.x = x,
                                      !.phase = phase, !.image = d.image]]
      /\ inbox' = inbox \cup {x.frame} /\ UNCHANGED <<s, back, set>>
  BY Zenon DEF Connect
<1>2. Node(n, d, inbox, s, set) /\ n \in DOMAIN dev
  BY Zenon DEF IInv
<1>3. a \in Nat /\ d.att \in Nat /\ d.att < a /\ Holds(Known(s, set), n, record)
  BY <1>2 DEF Node, Holds
<1>4. DOMAIN z = ExchangeFields /\ z.src = <<n, a>>
  BY Zenon DEF NewExchange, ExchangeFields
<1> HIDE DEF z
<1>5. /\ DOMAIN x = ExchangeFields /\ x.src = <<n, a>>
      /\ x.frame = [ex |-> z.ex, src |-> <<n, a>>, op |-> "Sigma1", body |-> Start(i)]
  BY <1>4, SendingFacts
<1> HIDE DEF x
<1>6. i = NewInitiator(<<n, a>>, n, a, i.record) /\ i.record = record
  BY Zenon DEF NewInitiator
<1>7. i.rand = <<n, a>> /\ i.node = n /\ i.sid = a
  BY <1>6, InitiatorFacts
<1> HIDE DEF i
<1>8. dev' = [dev EXCEPT ![n] = e]
  BY <1>1, <1>2, Zenon
<1>9. /\ DOMAIN e = NodeFields /\ e.pc = "sigma1" /\ e.att = a /\ e.i = i /\ e.x = x
      /\ e.record = d.record /\ e.why = None
  BY Zenon DEF NewNode, NodeFields
<1> HIDE DEF e
<1> DEFINE f == x.frame
<1>10. /\ Unsecured(f) /\ f.src = <<n, a>> /\ f.op = "Sigma1" /\ f.body = Start(i)
       /\ f.src[1] = n /\ f.src[2] = a
  BY <1>5 DEF Unsecured
<1>11. None # "Crypto"
  BY NoneAssumption, Zenon
<1>12. Node(n, e, inbox \cup {f}, s, set)
  BY <1>2, <1>3, <1>5, <1>6, <1>9, <1>11, Zenon DEF Node
<1>13. Arrived(Known(s, set), f)
  <2>1. <<n, a>> \in Attempts
    BY <1>3, Zenon DEF Attempts
  <2>2. CASE record = None
    <3>1. Start(i) = [rand |-> <<n, a>>, sid |-> a, resume |-> None]
      BY <1>6, <1>7, <2>2, Zenon DEF Start
    <3>2. Start(i) \in Sigma1s /\ Start(i).rand = <<n, a>> /\ Start(i).resume = None
      BY <1>3, <2>1, <3>1 DEF Sigma1s
    <3> QED
      BY <1>10, <2>1, <3>2, Zenon DEF Arrived
  <2>3. CASE record # None
    <3> DEFINE q == [id |-> record.id, mic |-> <<record.secret, <<n, a>>, record.id>>]
    <3>1. Start(i) = [rand |-> <<n, a>>, sid |-> a, resume |-> q]
      BY <1>6, <1>7, <2>3, Zenon DEF Start
    <3>2. record \in Known(s, set) /\ record \in Records
      BY <1>3, <2>3, KnownTypes, Zenon DEF Holds, IInv, Server
    <3>3. record.id \in Int /\ record.secret \in Secrets
      BY <3>2, Zenon DEF Records
    <3>4. /\ q \in [id : Int, mic : Secrets \X Attempts \X Int]
          /\ q.id = record.id /\ q.mic = <<record.secret, <<n, a>>, record.id>>
      BY <2>1, <3>3, Zenon
    <3> HIDE DEF q
    <3>5. Start(i) \in Sigma1s /\ Start(i).rand = <<n, a>> /\ Start(i).resume = q
      BY <1>3, <2>1, <3>1, <3>4 DEF Sigma1s
    <3> QED
      BY <1>10, <2>1, <3>2, <3>4, <3>5, Zenon DEF Arrived
  <2> QED
    BY <2>2, <2>3, Zenon
<1>14. Own(n, e, f)
  BY <1>3, <1>9, <1>10 DEF Own
<1>15. ASSUME NEW h \in inbox
       PROVE  Own(n, e, h)
  <2>1. Own(n, d, h) /\ Arrived(Known(s, set), h)
    BY Zenon DEF IInv
  <2>2. Unsecured(h) => h.src[2] \in Nat
    BY <2>1, Zenon DEF Arrived, Attempts
  <2> QED
    BY <1>3, <1>9, <2>1, <2>2 DEF Own
<1> DEFINE F == {f}
<1>16. /\ inbox' = inbox \cup F /\ Node(n, e, inbox \cup F, s, set)
       /\ \A h \in inbox \cup F : Own(n, e, h)
       /\ \A h \in F : Arrived(Known(s, set), h) /\ (Unsecured(h) => h.src[1] = n)
  BY <1>1, <1>10, <1>12, <1>13, <1>14, <1>15, Zenon
<1> HIDE DEF F
<1> QED
  BY <1>1, <1>8, <1>16, NodeStep, Zenon

\* A frame that a node takes is of the server, and for its attempt.
LEMMA OursFacts ==
    ASSUME IInv, NEW n \in Nodes, dev[n].pc # "idle", NEW f \in back, Ours(dev[n].x, f)
    PROVE  /\ Unsecured(f) /\ f.dst = <<n, dev[n].att>> /\ dev[n].x.src = <<n, dev[n].att>>
           /\ Sent(Sessions(s), s.mixed, inbox, f)
<1>1. Sent(Sessions(s), s.mixed, inbox, f)
  BY Zenon DEF IInv, Server
<1>2. Unsecured(f) /\ f.dst \in {None, dev[n].x.src}
  BY Zenon DEF Ours
<1>3. f.dst # None
  BY <1>1, <1>2, NoneAssumption, Zenon DEF Sent
<1>4. dev[n].x.src = <<n, dev[n].att>>
  BY Zenon DEF IInv, Node
<1> QED
  BY <1>1, <1>2, <1>3, <1>4, Zenon

\* The acknowledgement that ends a resumption.
LEMMA ReceivesAckKeeps ==
    ASSUME IInv, NEW n \in Nodes, NEW f \in back, ReceivesAck(n, f)
    PROVE  IInv'
<1> DEFINE d == dev[n]
           e == Up(d)
           G == {h \in inbox : FALSE}
<1>1. /\ d.pc = "close" /\ dev' = [dev EXCEPT ![n] = Up(@)] /\ UNCHANGED <<s, back, set>>
      /\ inbox' = inbox
  BY Zenon DEF ReceivesAck
<1>2. Node(n, d, inbox, s, set) /\ n \in DOMAIN dev
  BY Zenon DEF IInv
<1>3. DOMAIN d = NodeFields /\ DOMAIN d.x = ExchangeFields
  BY <1>1, <1>2, Zenon DEF Node
<1>4. Rises(d, e)
  BY <1>1, <1>3, Zenon DEF Rises, Up, NodeFields
<1>5. Agrees(Sessions(s), d.sess) /\ Owner(d.sess.record.secret) = n
  BY <1>1, <1>2, Zenon DEF Node
<1>6. dev' = [dev EXCEPT ![n] = e]
  BY <1>1, <1>2, Zenon
<1>7. inbox' = inbox \cup G /\ \A h \in G : Plain(n, e, h)
  BY <1>1, Zenon
<1> HIDE DEF e, G
<1> QED
  BY <1>1, <1>4, <1>5, <1>6, <1>7, RisesStep, Zenon

\* The driver stops at a message that does not verify: the answer to another
\* attempt.
LEMMA CryptoStep ==
    ASSUME IInv, NEW n \in Nodes, dev[n].pc = "sigma1", dev[n].x.src \in s.mixed,
           NEW f, NEW e,
           e = [dev[n] EXCEPT !.pc = "failed", !.why = "Crypto", !.x = Consumed(dev[n].x, f)],
           dev' = [dev EXCEPT ![n] = e], inbox' = inbox, UNCHANGED <<s, back, set>>
    PROVE  IInv'
<1> DEFINE d == dev[n]
           y == Consumed(d.x, f)
           G == {h \in inbox : FALSE}
<1>1. Node(n, d, inbox, s, set)
  BY Zenon DEF IInv
<1>2. DOMAIN d = NodeFields /\ DOMAIN d.x = ExchangeFields
  BY <1>1, Zenon DEF Node
<1>3. DOMAIN y = ExchangeFields /\ y.src = d.x.src
  BY <1>2, ExchangeKept, Zenon
<1>0. e = [d EXCEPT !.pc = "failed", !.why = "Crypto", !.x = y]
  BY Zenon
<1> HIDE DEF y
<1>4. /\ DOMAIN e = NodeFields /\ e.pc = "failed" /\ e.why = "Crypto" /\ e.x = y
      /\ e.att = d.att /\ e.i = d.i /\ e.record = d.record
  BY <1>2, <1>0, Zenon DEF NodeFields
<1>5. inbox' = inbox \cup G /\ inbox \cup G = inbox
  BY Zenon
<1>6. Node(n, e, inbox \cup G, s, set)
  BY <1>1, <1>3, <1>4, <1>5, Zenon DEF Node
<1>7. \A h \in inbox : Own(n, d, h)
  BY Zenon DEF IInv
<1>8. \A h \in inbox \cup G : Own(n, e, h)
  BY <1>4, <1>5, <1>7, Zenon DEF Own
<1>9. \A h \in G : Arrived(Known(s, set), h) /\ (Unsecured(h) => h.src[1] = n)
  BY Zenon
<1> HIDE DEF G
<1> QED
  BY <1>5, <1>6, <1>8, <1>9, NodeStep, Zenon

\* The driver goes on to the step pc with the session out, and sends a message.
Advances(n, d, e, pc, out, op, body) ==
    /\ DOMAIN e = NodeFields /\ e.pc = pc /\ e.sess = out /\ e.why = d.why
    /\ e.att = d.att /\ e.i = d.i /\ e.record = d.record
    /\ DOMAIN e.x = ExchangeFields /\ e.x.src = d.x.src
    /\ Unsecured(e.x.frame) /\ e.x.frame.src = <<n, d.att>>
    /\ e.x.frame.op = op /\ e.x.frame.body = body

\* It does so on the same attempt.
LEMMA AdvancesFacts ==
    ASSUME NEW n, NEW d, DOMAIN d = NodeFields, DOMAIN d.x = ExchangeFields,
           d.x.src = <<n, d.att>>, NEW pc, NEW out, NEW op, NEW body, NEW f
    PROVE  Advances(n, d, [d EXCEPT !.pc = pc, !.sess = out,
                                    !.x = Sending(Resized(Consumed(d.x, f)), op, body)],
                    pc, out, op, body)
<1> DEFINE y == Consumed(d.x, f)
           z == Resized(y)
           x == Sending(z, op, body)
           e == [d EXCEPT !.pc = pc, !.sess = out, !.x = x]
<1>1. DOMAIN y = ExchangeFields /\ y.src = d.x.src
  BY ExchangeKept, Zenon
<1> HIDE DEF y
<1>2. DOMAIN z = ExchangeFields /\ z.src = d.x.src
  BY <1>1, ResizedFacts, Zenon
<1> HIDE DEF z
<1>3. /\ DOMAIN x = ExchangeFields /\ x.src = d.x.src
      /\ x.frame = [ex |-> z.ex, src |-> d.x.src, op |-> op, body |-> body]
  BY <1>2, SendingFacts
<1> HIDE DEF x
<1>4. /\ Unsecured(x.frame) /\ x.frame.src = <<n, d.att>>
      /\ x.frame.op = op /\ x.frame.body = body
  BY <1>3 DEF Unsecured
<1>5. /\ DOMAIN e = NodeFields /\ e.pc = pc /\ e.sess = out /\ e.why = d.why
      /\ e.att = d.att /\ e.i = d.i /\ e.record = d.record /\ e.x = x
  BY Zenon DEF NodeFields
<1> HIDE DEF e
<1>6. Advances(n, d, e, pc, out, op, body)
  BY <1>3, <1>4, <1>5, Zenon DEF Advances
<1> QED
  BY <1>6, Zenon DEF e, x, y, z

\* After a Sigma2Resume: the session is the other end of the one resumed.
LEMMA ResumeStep ==
    ASSUME IInv, NEW n \in Nodes, dev[n].pc = "sigma1", NEW out, NEW e,
           dev' = [dev EXCEPT ![n] = e], inbox' = inbox \cup {e.x.frame},
           UNCHANGED <<s, back, set>>,
           Advances(n, dev[n], e, "close", out, "StatusReport", None),
           Agrees(Sessions(s), out), Owner(out.record.secret) = n
    PROVE  IInv'
<1> DEFINE d == dev[n]
           F == {e.x.frame}
<1>1. Node(n, d, inbox, s, set)
  BY Zenon DEF IInv
<1>2. Node(n, e, inbox \cup F, s, set)
  BY <1>1, Zenon DEF Node, Advances
<1>3. Plain(n, e, e.x.frame) /\ e.att \in Nat
  BY <1>1, Zenon DEF Plain, Advances, Node
<1>4. \A h \in F : Arrived(Known(s, set), h) /\ Own(n, e, h) /\ (Unsecured(h) => h.src[1] = n)
  BY <1>3, PlainFrame
<1>5. \A h \in inbox : Own(n, d, h)
  BY Zenon DEF IInv
<1>6. \A h \in inbox \cup F : Own(n, e, h)
  BY <1>4, <1>5, Zenon DEF Own, Advances
<1>7. inbox' = inbox \cup F
  BY Zenon
<1> HIDE DEF F
<1> QED
  BY <1>2, <1>4, <1>6, <1>7, NodeStep, Zenon

\* After a Sigma2: the Sigma3 is the first of the attempt.
LEMMA FullStep ==
    ASSUME IInv, NEW n \in Nodes, dev[n].pc = "sigma1", NEW e, NEW s2,
           dev' = [dev EXCEPT ![n] = e], inbox' = inbox \cup {e.x.frame},
           UNCHANGED <<s, back, set>>, s2.s1 = Start(dev[n].i),
           Advances(n, dev[n], e, "sigma3", HandleSigma2(dev[n].i, s2), "Sigma3",
                    Sigma3(dev[n].i, s2)),
           Owner(HandleSigma2(dev[n].i, s2).record.secret) = n
    PROVE  IInv'
<1> DEFINE d == dev[n]
           h == e.x.frame
           F == {h}
<1>1. Node(n, d, inbox, s, set)
  BY Zenon DEF IInv
<1>2. Node(n, e, inbox \cup F, s, set)
  BY <1>1, Zenon DEF Node, Advances
<1>3. d.i.rand = <<n, d.att>> /\ d.i.node = n /\ d.att \in Nat
  BY <1>1, InitiatorFacts DEF Node
<1>4. /\ Unsecured(h) /\ h.src = <<n, d.att>> /\ h.op = "Sigma3" /\ h.body = Sigma3(d.i, s2)
      /\ h.src[1] = n /\ h.src[2] = d.att
  BY DEF Advances
<1>5. h.body.s2 = s2 /\ h.body.node = n /\ h.body.s1 = Start(d.i)
  BY <1>3, <1>4 DEF Sigma3
<1>6. h.body.s1.rand = <<n, d.att>>
  BY <1>3, <1>5 DEF Start
<1>7. <<n, d.att>> \in Attempts
  BY <1>3, Zenon DEF Attempts
<1>8. Arrived(Known(s, set), h)
  BY <1>4, <1>5, <1>6, <1>7, Zenon DEF Arrived
<1>9. Offered(e, h.body)
  BY <1>4, <1>5, Zenon DEF Offered, Advances
<1>10. Own(n, e, h)
  BY <1>3, <1>4, <1>9 DEF Own, Advances
<1>11. \A g \in inbox : Own(n, d, g)
  BY Zenon DEF IInv
<1>12. \A g \in inbox : Own(n, e, g)
  BY <1>11, Zenon DEF Own, Advances
<1>13. /\ \A g \in F : Arrived(Known(s, set), g) /\ (Unsecured(g) => g.src[1] = n)
       /\ \A g \in inbox \cup F : Own(n, e, g)
       /\ inbox' = inbox \cup F
  BY <1>4, <1>8, <1>10, <1>12, Zenon
<1> HIDE DEF F
<1> QED
  BY <1>2, <1>13, NodeStep, Zenon

\* A node takes a frame off the socket.
LEMMA ReceivesKeeps ==
    ASSUME IInv, NEW n \in Nodes, NEW f \in back, Receives(n, f)
    PROVE  IInv'
<1> DEFINE d == dev[n]
           y == Skipped(d.x, f)
           x == Consumed(d.x, f)
           r == IF IsAwaited(d.x, f, Expects(d)) THEN Proceed(d, f)
                ELSE <<[d EXCEPT !.x = y], Resends(y)>>
<1>1. /\ d.pc \in {"sigma1", "sigma3"} /\ dev' = [dev EXCEPT ![n] = r[1]]
      /\ inbox' = inbox \cup r[2] /\ UNCHANGED <<s, back, set>>
  <2>1. \E k \in {r} : dev' = [dev EXCEPT ![n] = k[1]] /\ inbox' = inbox \cup k[2]
    BY Zenon DEF Receives
  <2>2. d.pc \in {"sigma1", "sigma3"} /\ UNCHANGED <<s, back, set>>
    BY Zenon DEF Receives
  <2> HIDE DEF r
  <2> QED
    BY <2>1, <2>2, Zenon
<1>2. Node(n, d, inbox, s, set) /\ n \in DOMAIN dev
  BY Zenon DEF IInv
<1>3. /\ DOMAIN d = NodeFields /\ DOMAIN d.x = ExchangeFields /\ d.x.src = <<n, d.att>>
      /\ d.att \in Nat /\ d.pc # "idle" /\ d.x.frame \in inbox
      /\ d.i = NewInitiator(<<n, d.att>>, n, d.att, d.i.record)
      /\ Holds(Known(s, set), n, d.i.record)
  BY <1>1, <1>2, Zenon DEF Node
<1>4. CASE ~IsAwaited(d.x, f, Expects(d))
  <2> DEFINE e == [d EXCEPT !.x = y]
             F == Resends(y)
  <2>1. DOMAIN y = ExchangeFields /\ y.src = d.x.src /\ y.frame = d.x.frame
    BY <1>3, ExchangeKept, Zenon
  <2>2. r = <<e, F>>
    BY <1>4, Zenon
  <2>3. r[1] = e /\ r[2] = F
    BY <2>2
  <2> HIDE DEF y, r
  <2>4. Keeps(d, e)
    BY <1>3, <2>1, Zenon DEF Keeps, NodeFields
  <2>5. \A h \in F : h \in inbox \/ Plain(n, e, h)
    BY <1>3, <2>1, Zenon DEF Resends
  <2>6. dev' = [dev EXCEPT ![n] = e] /\ inbox' = inbox \cup F
    BY <1>1, <2>3, Zenon
  <2> HIDE DEF e, F
  <2> QED
    BY <1>1, <2>4, <2>5, <2>6, KeepsStep, Zenon
<1>5. CASE IsAwaited(d.x, f, Expects(d))
  <2>1. r = Proceed(d, f)
    BY <1>5, Zenon
  <2> HIDE DEF r, y
  <2>2. /\ Unsecured(f) /\ f.dst = <<n, d.att>>
        /\ Sent(Sessions(s), s.mixed, inbox, f)
    BY <1>3, <1>5, OursFacts, Zenon DEF IsAwaited
  <2>3. DOMAIN x = ExchangeFields /\ x.src = d.x.src /\ x.frame = d.x.frame
    BY <1>3, ExchangeKept, Zenon
  <2> DEFINE Ack == {StandaloneAck(x)}
  <2>4. \A h \in Ack : Unsecured(h) => h.op = "Ack" /\ h.src = <<n, d.att>>
    BY <1>3, <2>3 DEF StandaloneAck
  <2>5. CASE d.pc = "sigma3"
    <3> DEFINE e == Up([d EXCEPT !.x = x])
    <3>1. r[1] = e /\ r[2] = Ack
      <4>1. r = <<e, Ack>>
        BY <2>1, <2>5, Zenon DEF Proceed
      <4> QED
        BY <4>1, Zenon
    <3> HIDE DEF x, Ack
    <3>2. Rises(d, e) /\ e.att = d.att
      BY <1>3, <2>3, <2>5, Zenon DEF Rises, Up, NodeFields
    <3>3. \A h \in Ack : Plain(n, e, h)
      BY <2>4, <3>2, Zenon DEF Plain
    <3>4. f.op = "StatusReport"
      BY <1>5, <2>5, Zenon DEF IsAwaited, Expects
    <3>5. PICK h \in OfKind(inbox, "Sigma3") :
            /\ h.src = <<n, d.att>> /\ h.body.s2.id = h.body.s2.eph
            /\ Completed(h.body) \in Sessions(s)
      BY <2>2, <3>4, Zenon DEF Sent
    <3>6. h \in inbox /\ Unsecured(h) /\ h.op = "Sigma3" /\ Own(n, d, h)
      BY Zenon DEF OfKind, IInv
    <3>7. Offered(d, h.body)
      BY <2>5, <3>5, <3>6 DEF Own
    <3>8. Agrees(Sessions(s), d.sess)
      BY <3>5, <3>7, OfferedAgrees, Zenon
    <3>9. Owner(d.sess.record.secret) = n
      BY <1>2, <2>5, Zenon DEF Node
    <3>10. dev' = [dev EXCEPT ![n] = e] /\ inbox' = inbox \cup Ack
      BY <1>1, <3>1, Zenon
    <3> HIDE DEF e
    <3> QED
      BY <1>1, <3>2, <3>3, <3>8, <3>9, <3>10, RisesStep, Zenon
  <2>6. CASE d.pc = "sigma1" /\ f.op = "StatusReport"
    <3> DEFINE e == [d EXCEPT !.pc = "failed", !.why = "Rejected", !.x = x]
    <3>1. r[1] = e /\ r[2] = Ack
      <4>1. r = <<e, Ack>>
        BY <2>1, <2>6, Zenon DEF Proceed
      <4> QED
        BY <4>1, Zenon
    <3> HIDE DEF x, Ack
    <3>2. Keeps(d, e) /\ e.att = d.att
      BY <1>3, <2>3, Zenon DEF Keeps, NodeFields
    <3>3. \A h \in Ack : h \in inbox \/ Plain(n, e, h)
      BY <2>4, <3>2, Zenon DEF Plain
    <3> HIDE DEF e
    <3>4. dev' = [dev EXCEPT ![n] = e] /\ inbox' = inbox \cup Ack
      BY <1>1, <3>1, Zenon
    <3> QED
      BY <1>1, <3>2, <3>3, <3>4, KeepsStep, Zenon
  <2> DEFINE c == [d EXCEPT !.pc = "failed", !.why = "Crypto", !.x = x]
  <2>7. ASSUME d.pc = "sigma1", <<n, d.att>> \in s.mixed, r = <<c, {}>>
        PROVE  IInv'
    <3>1. c = [d EXCEPT !.pc = "failed", !.why = "Crypto", !.x = Consumed(d.x, f)]
      BY Zenon
    <3> HIDE DEF c
    <3>2. r[1] = c /\ r[2] = {}
      BY <2>7, Zenon
    <3>3. dev' = [dev EXCEPT ![n] = c] /\ inbox' = inbox
      BY <1>1, <3>2, Zenon
    <3>4. d.x.src \in s.mixed
      BY <1>3, <2>7, Zenon
    <3> QED
      BY <1>1, <2>7, <3>1, <3>3, <3>4, CryptoStep, Zenon
  <2>8. CASE d.pc = "sigma1" /\ f.op = "Sigma2Resume"
    <3> DEFINE out == HandleSigma2Resume(d.i, f.body)
               e == [d EXCEPT !.pc = "close", !.sess = out,
                              !.x = Sending(Resized(x), "StatusReport", None)]
    <3>1. r = IF out = Failed THEN <<c, {}>> ELSE <<e, {e.x.frame}>>
      BY <2>1, <2>8, Zenon DEF Proceed
    <3>2. d.i.record # None
      BY <1>5, <2>8, Zenon DEF IsAwaited, Expects
    <3>3. d.i.record \in Records /\ Owner(d.i.record.secret) = n
      BY <1>3, <3>2, KnownTypes, Zenon DEF Holds, IInv, Server
    <3>4. PICK h \in OfKind(inbox, "Sigma1") :
            /\ <<n, d.att>> # h.src => <<n, d.att>> \in s.mixed
            /\ f.body.id \in Nat /\ f.body.sid \in Nat
            /\ Resumes(Sessions(s), h, f.body)
      BY <2>2, <2>8, Zenon DEF Sent
    <3>5. h.src = <<n, d.att>> => h.body = Start(d.i)
      BY DEF OfKind, IInv, Own
    <3>6. /\ out = Failed => h.src # <<n, d.att>>
          /\ out # Failed => Agrees(Sessions(s), out) /\ Owner(out.record.secret) = n
      BY <1>3, <3>2, <3>3, <3>4, <3>5, Sigma2ResumeFacts
    <3>7. CASE out = Failed
      BY <2>7, <2>8, <3>1, <3>4, <3>6, <3>7, Zenon
    <3>8. CASE out # Failed
      <4>1. Advances(n, d, e, "close", out, "StatusReport", None)
        BY <1>3, AdvancesFacts, Zenon
      <4>2. r = <<e, {e.x.frame}>>
        BY <3>1, <3>8, Zenon
      <4> HIDE DEF e, out
      <4>3. r[1] = e /\ r[2] = {e.x.frame}
        BY <4>2, Zenon
      <4>4. dev' = [dev EXCEPT ![n] = e] /\ inbox' = inbox \cup {e.x.frame}
        BY <1>1, <4>3, Zenon
      <4> QED
        BY <1>1, <2>8, <3>6, <3>8, <4>1, <4>4, ResumeStep, Zenon
    <3> QED
      BY <3>7, <3>8, Zenon
  <2>9. CASE d.pc = "sigma1" /\ f.op \notin {"Sigma2Resume", "StatusReport"}
    <3> DEFINE out == HandleSigma2(d.i, f.body)
               e == [d EXCEPT !.pc = "sigma3", !.sess = out,
                              !.x = Sending(Resized(x), "Sigma3", Sigma3(d.i, f.body))]
    <3>1. r = IF out = Failed THEN <<c, {}>> ELSE <<e, {e.x.frame}>>
      BY <2>1, <2>9, Zenon DEF Proceed
    <3>2. f.op = "Sigma2"
      BY <1>5, <2>9, Zenon DEF IsAwaited, Expects
    <3>3. PICK h \in OfKind(inbox, "Sigma1") :
            /\ <<n, d.att>> # h.src => <<n, d.att>> \in s.mixed
            /\ f.body \in [eph : Nat, sid : Nat, id : Nat, s1 : Sigma1s]
            /\ f.body.s1 = h.body
      BY <2>2, <3>2, Zenon DEF Sent
    <3>4. h.src = <<n, d.att>> => h.body = Start(d.i)
      BY DEF OfKind, IInv, Own
    <3>5. CASE f.body.s1 = Start(d.i)
      <4>1. out # Failed /\ Owner(out.record.secret) = n
        BY <1>3, <3>3, <3>5, Sigma2Facts
      <4>2. Advances(n, d, e, "sigma3", out, "Sigma3", Sigma3(d.i, f.body))
        BY <1>3, AdvancesFacts, Zenon
      <4>3. r = <<e, {e.x.frame}>>
        BY <3>1, <4>1, Zenon
      <4> HIDE DEF e
      <4>4. r[1] = e /\ r[2] = {e.x.frame}
        BY <4>3, Zenon
      <4>5. dev' = [dev EXCEPT ![n] = e] /\ inbox' = inbox \cup {e.x.frame}
        BY <1>1, <4>4, Zenon
      <4> QED
        BY <1>1, <2>9, <3>5, <4>1, <4>2, <4>5, FullStep, Zenon
    <3>6. CASE f.body.s1 # Start(d.i)
      <4>1. out = Failed
        BY <3>6, Zenon DEF HandleSigma2
      <4>2. <<n, d.att>> \in s.mixed
        BY <3>3, <3>4, <3>6, Zenon
      <4> QED
        BY <2>7, <2>9, <3>1, <4>1, <4>2, Zenon
    <3> QED
      BY <3>5, <3>6, Zenon
  <2> QED
    BY <1>1, <2>5, <2>6, <2>8, <2>9, Zenon
<1> QED
  BY <1>4, <1>5, Zenon

-----------------------------------------------------------------------------
\* The server handles a frame.
LEMMA ServesKeeps ==
    ASSUME IInv, NEW f \in inbox, Serves(f)
    PROVE  IInv'
<1> DEFINE t == Handle(s, f)
<1>1. /\ s.pc \notin {"done", "failed"} /\ s' = [t EXCEPT !.out = {}]
      /\ back' = back \cup t.out /\ UNCHANGED <<dev, inbox, set>>
  BY Zenon DEF Serves
<1>2. /\ set \in Settings /\ Server(s, inbox, back, set)
      /\ \A h \in inbox : Arrived(Known(s, set), h)
  BY Zenon DEF IInv
<1>3. s.pc \in {"accept", "sigma3", "resume", "close", "serve"}
  BY <1>1, <1>2, Zenon DEF Server, Phase
<1>4. Leads(s, t, inbox, back, set)
  BY <1>2, <1>3, HandleLeads, Zenon
<1> HIDE DEF t
<1>5. Server(t, inbox, back, set) /\ Grows(s, t)
  BY <1>4, Zenon DEF Leads
<1>6. /\ DOMAIN s' = ServerFields /\ s'.out = {}
      /\ \A k \in ServerFields \ {"out"} : s'[k] = t[k]
  BY <1>1, <1>5, Zenon DEF Server, ServerFields
<1>7. /\ s'.pc = t.pc /\ s'.accepts = t.accepts /\ s'.records = t.records /\ s'.m1 = t.m1
      /\ s'.resp = t.resp /\ s'.sess = t.sess /\ s'.why = t.why
      /\ s'.derived = t.derived /\ s'.mixed = t.mixed
  BY <1>6, Zenon DEF ServerFields
<1>8. /\ Sessions(s') = Sessions(t) /\ Known(s', set) = Known(t, set)
      /\ Pending(s') = Pending(t) /\ Grows(s, s')
  BY <1>5, <1>7, Zenon DEF Sessions, Known, Pending, Grows
<1>9. \A o : Derivation(t, o) => Derivation(s', o)
  BY <1>7, Zenon DEF Derivation
<1>10. Ledger(s', set)
  BY <1>5, <1>7, <1>8, <1>9, Zenon DEF Server, Ledger
<1>11. Phase(s', inbox)
  BY <1>5, <1>7, <1>8, Zenon DEF Server, Phase
<1>12. \A h \in back' \cup s'.out : Sent(Sessions(s'), s'.mixed, inbox, h)
  BY <1>1, <1>5, <1>6, <1>7, <1>8, Zenon DEF Server
<1>13. Server(s', inbox, back', set)
  BY <1>6, <1>10, <1>11, <1>12, Zenon DEF Server
<1>14. \A h \in inbox : Arrived(Known(s', set), h)
  BY <1>2, <1>8, ArrivedGrows, Zenon
<1>15. ASSUME NEW n \in Nodes
       PROVE  Node(n, dev[n], inbox, s', set)
  BY <1>8, NodeGrows, Zenon DEF IInv
<1>16. Server(s, inbox, back, set)' /\ (\A h \in inbox : Arrived(Known(s, set), h))'
  BY <1>1, <1>13, <1>14, Zenon
<1>17. (\A n \in Nodes : Node(n, dev[n], inbox, s, set))'
  BY <1>1, <1>15, Zenon
<1>18. (\A n \in Nodes : \A h \in inbox : Own(n, dev[n], h))' /\ DOMAIN dev' = Nodes
  BY <1>1, Zenon DEF IInv
<1> QED
  BY <1>1, <1>2, <1>6, <1>16, <1>17, <1>18, Zenon DEF IInv

\* The invariant holds at the start.
LEMMA InitInvariant == Init => IInv
<1> SUFFICES ASSUME NEW g \in Settings,
                    s = NewServer(g.records),
                    dev = [n \in Nodes |-> NewNode(IF n = Expected THEN g.record ELSE None)],
                    inbox = {}, back = {}, set = g
             PROVE  IInv
  BY Zenon DEF Init
<1>1. /\ DOMAIN s = ServerFields /\ s.pc = "accept" /\ s.accepts = 0 /\ s.records = g.records
      /\ s.out = {} /\ s.why = None /\ s.derived = <<>> /\ s.mixed = {}
  BY Zenon DEF NewServer, ServerFields
<1>2. Sessions(s) = {} /\ Known(s, g) = Left(g)
  BY <1>1 DEF Sessions, Known
<1>3. /\ Left(g) \subseteq Records /\ g.records \subseteq Left(g)
      /\ \A r \in Left(g) : r.node = Expected /\ Owner(r.secret) = Expected
      /\ \A q, r \in Left(g) : q.id = r.id => q = r
  BY OtaAssumption, Zenon DEF Left, Owner
<1>4. Ledger(s, g)
  BY <1>1, <1>2, <1>3 DEF Ledger, Pending
<1>5. Phase(s, inbox)
  BY <1>1, NoneAssumption, Zenon DEF Phase, Pending
<1>6. Server(s, inbox, back, set)
  BY <1>1, <1>4, <1>5, Zenon DEF Server
<1>7. ASSUME NEW n \in Nodes
      PROVE  Node(n, dev[n], inbox, s, set)
  <2> DEFINE r == IF n = Expected THEN g.record ELSE None
  <2>1. dev[n] = NewNode(r)
    BY Zenon
  <2>2. Holds(Known(s, g), n, r)
    BY <1>2, <1>3, Zenon DEF Holds, Left
  <2> HIDE DEF r
  <2>3. /\ DOMAIN dev[n] = NodeFields /\ dev[n].att = 0 /\ dev[n].record = r
        /\ dev[n].pc = "idle" /\ dev[n].why = None
    BY <2>1, Zenon DEF NewNode, NodeFields
  <2> QED
    BY <2>2, <2>3, NoneAssumption DEF Node
<1> QED
  BY <1>1, <1>6, <1>7, Zenon DEF IInv

\* Every step keeps the invariant.
LEMMA NextInvariant == IInv /\ [Next]_vars => IInv'
<1> SUFFICES ASSUME IInv, [Next]_vars
             PROVE  IInv'
  BY Zenon
<1>1. ASSUME NEW n \in Nodes, NEW record \in {None, dev[n].record}, NEW phase,
             Connect(n, record, phase)
      PROVE  IInv'
  BY <1>1, ConnectKeeps, Zenon
<1>2. ASSUME NEW n \in Nodes, NEW f \in back, Receives(n, f)
      PROVE  IInv'
  BY <1>2, ReceivesKeeps, Zenon
<1>3. ASSUME NEW n \in Nodes, NEW f \in back, ReceivesAck(n, f)
      PROVE  IInv'
  BY <1>3, ReceivesAckKeeps, Zenon
<1>4. ASSUME NEW n \in Nodes, TimesOut(n)
      PROVE  IInv'
  BY <1>4, TimesOutKeeps, Zenon
<1>5. CASE \/ Request(Expected) \/ AbortsTransfer(Expected)
           \/ \E f \in back : Answered(Expected, f)
  BY <1>5, OtaAssumption, DialogueKeeps, Zenon
<1>6. ASSUME NEW f \in inbox, Serves(f)
      PROVE  IInv'
  BY <1>6, ServesKeeps, Zenon
<1>7. CASE UNCHANGED vars
  <2>1. /\ s' = s /\ dev' = dev /\ inbox' = inbox /\ back' = back /\ set' = set
    BY <1>7, Zenon DEF vars
  <2> QED
    BY <2>1, Zenon DEF IInv
<1> QED
  BY <1>1, <1>2, <1>3, <1>4, <1>5, <1>6, <1>7, Zenon DEF Next

\* The server's ledger of records and sessions, what it has in hand, every
\* frame under way and every node's attempt stay consistent (accept_case and
\* run_case_establish_with over any network).
THEOREM OtaInvariant == Spec => []IInv
  BY InitInvariant, NextInvariant, PTL DEF Spec

-----------------------------------------------------------------------------
\* The Sigma2 q is of an accept so far; of the accept in hand there is one.
Issued(v, q) ==
    /\ q.eph \in Nat /\ q.eph <= v.accepts
    /\ v.pc = "sigma3" /\ q.eph = v.accepts => q = v.resp.reply

\* Every Sigma2 under way, and every one that a Sigma3 under way answers, with
\* the Sigma1 it was sealed for.
Answering ==
    /\ \A f \in OfKind(back, "Sigma2") : Issued(s, f.body)
    /\ \A f \in OfKind(inbox, "Sigma3") : /\ Issued(s, f.body.s2)
                                          /\ f.body.s1 = f.body.s2.s1

\* A piece of the server's handling, from v to w: a Sigma2 is made by a new
\* accept only, and sent only by the accept it is of.
Turns(v, w) ==
    /\ w.accepts \in {v.accepts, v.accepts + 1}
    /\ w.accepts = v.accepts /\ w.pc = "sigma3" => v.pc = "sigma3" /\ w.resp = v.resp
    /\ \A f \in OfKind(w.out, "Sigma2") : f \in v.out \/ Issued(w, f.body)

\* Handling that begins no accept and goes on with none.
LEMMA RestsTurns ==
    ASSUME NEW v, NEW w, Rests(v, w)
    PROVE  Turns(v, w)
  BY Zenon DEF Rests, Turns, OfKind

\* The piece z after such handling w.
LEMMA AfterTurns ==
    ASSUME NEW v, NEW w, NEW z, w.accepts = v.accepts, w.pc # "sigma3",
           \A f \in OfKind(w.out, "Sigma2") : f \in v.out, Turns(w, z)
    PROVE  Turns(v, z)
  BY Zenon DEF Turns, OfKind

\* A frame is added to those going out.
Replies(v, w, op, body) ==
    /\ DOMAIN w = ServerFields /\ w.accepts = v.accepts /\ w.pc = v.pc /\ w.resp = v.resp
    /\ \A f \in OfKind(w.out, "Sigma2") : f \in v.out \/ (op = "Sigma2" /\ f.body = body)

\* That is all Reply does to the handshake.
LEMMA ReplyFacts ==
    ASSUME NEW v, DOMAIN v = ServerFields, NEW m, NEW op, NEW body
    PROVE  Replies(v, Reply(v, m, op, body), op, body)
<1> DEFINE w == Reply(v, m, op, body)
           h == [to |-> v.m1.src[1], ex |-> m.ex, dst |-> m.src, ctr |-> v.ctr,
                 op |-> op, body |-> body]
<1>1. /\ DOMAIN w = ServerFields /\ w.accepts = v.accepts /\ w.pc = v.pc
      /\ w.resp = v.resp /\ w.out = v.out \cup {h}
  BY Zenon DEF Reply, ServerFields
<1>2. h.op = op /\ h.body = body
  BY Zenon
<1> HIDE DEF w, h
<1>3. \A f \in OfKind(w.out, "Sigma2") : f \in v.out \/ (op = "Sigma2" /\ f.body = body)
  BY <1>1, <1>2, Zenon DEF OfKind
<1> QED
  BY <1>1, <1>3, Zenon DEF w, Replies

\* A new accept.
LEMMA BeginTurns ==
    ASSUME NEW v, DOMAIN v = ServerFields, v.accepts \in Nat, NEW m1
    PROVE  Turns(v, BeginHandshake(v, m1))
<1> DEFINE a == v.accepts + 1
           r == NewResponder(a, a)
           known == IF ResumptionRequested(m1.body)
                    THEN {d \in v.records : d.id = m1.body.resume.id} ELSE {}
           begun == [v EXCEPT !.creds = @ - 1, !.accepts = @ + 1, !.m1 = m1, !.frames = 0]
           full == AnswerInFull(r, m1.body)
           wait == [begun EXCEPT !.pc = "sigma3", !.resp = full]
           record == CHOOSE d \in known : TRUE
           taken == TakeRecord(begun, record)
           resumed == AcceptResumption(r, m1.body, record)
           again == [taken EXCEPT !.pc = "resume", !.resp = resumed,
                                  !.derived = Append(@, resumed.output)]
           gone == [NextAccept(taken) EXCEPT !.why = "Mac"]
<1>1. a \in Nat /\ a # v.accepts
  OBVIOUS
<1>2. full.reply.eph = a
  BY Zenon DEF AnswerInFull, NewResponder, Sigma2
<1>3. DOMAIN begun = ServerFields /\ begun.accepts = a /\ begun.out = v.out
  BY Zenon DEF ServerFields
<1>4. BeginHandshake(v, m1) =
        IF known = {} THEN Reply(wait, m1, "Sigma2", full.reply)
        ELSE IF resumed = Failed THEN gone
             ELSE Reply(again, m1, "Sigma2Resume", resumed.reply)
  BY Zenon DEF BeginHandshake
<1> HIDE DEF a, begun, full, known, resumed, record
<1>5. Turns(v, Reply(wait, m1, "Sigma2", full.reply))
  <2>1. /\ DOMAIN wait = ServerFields /\ wait.accepts = a /\ wait.out = v.out
        /\ wait.pc = "sigma3" /\ wait.resp = full
    BY <1>3, Zenon DEF ServerFields
  <2> HIDE DEF wait
  <2> DEFINE w == Reply(wait, m1, "Sigma2", full.reply)
  <2>0. Replies(wait, w, "Sigma2", full.reply)
    BY <2>1, ReplyFacts, Zenon
  <2> HIDE DEF w
  <2>2. /\ w.accepts = a /\ w.resp = full
        /\ \A f \in OfKind(w.out, "Sigma2") : f \in v.out \/ f.body = full.reply
    BY <2>0, <2>1, Zenon DEF Replies
  <2>3. Issued(w, full.reply)
    BY <1>1, <1>2, <2>2 DEF Issued
  <2>4. Turns(v, w)
    BY <1>1, <2>2, <2>3, Zenon DEF Turns, a
  <2> QED
    BY <2>4, Zenon DEF w
<1>6. DOMAIN taken = ServerFields /\ taken.accepts = a /\ taken.out = v.out
  BY <1>3, Zenon DEF TakeRecord, ServerFields
<1> HIDE DEF taken
<1>7. Turns(v, gone)
  <2>1. /\ DOMAIN NextAccept(taken) = ServerFields /\ NextAccept(taken).accepts = a
        /\ NextAccept(taken).out = v.out /\ NextAccept(taken).pc # "sigma3"
    BY <1>6, NextAcceptRests, Zenon DEF Rests
  <2>2. gone.accepts = a /\ gone.out = v.out
    BY <2>1, Zenon DEF ServerFields
  <2> HIDE DEF gone
  <2> QED
    BY <1>1, <2>2, Zenon DEF Turns, OfKind, a
<1>8. Turns(v, Reply(again, m1, "Sigma2Resume", resumed.reply))
  <2>1. DOMAIN again = ServerFields /\ again.accepts = a /\ again.out = v.out
    BY <1>6, Zenon DEF ServerFields
  <2> HIDE DEF again
  <2> DEFINE w == Reply(again, m1, "Sigma2Resume", resumed.reply)
  <2>0. Replies(again, w, "Sigma2Resume", resumed.reply)
    BY <2>1, ReplyFacts, Zenon
  <2> HIDE DEF w
  <2>2. w.accepts = a /\ \A f \in OfKind(w.out, "Sigma2") : f \in v.out
    BY <2>0, <2>1, Zenon DEF Replies
  <2>3. Turns(v, w)
    BY <1>1, <2>2, Zenon DEF Turns, a
  <2> QED
    BY <2>3, Zenon DEF w
<1> QED
  BY <1>4, <1>5, <1>7, <1>8, Zenon

\* The end of an accept or of a session.
LEMMA NextAcceptTurns ==
    ASSUME NEW v, DOMAIN v = ServerFields
    PROVE  Turns(v, NextAccept(v))
  BY NextAcceptRests, RestsTurns, Zenon

\* Nothing.
LEMMA StaysTurns ==
    ASSUME NEW v
    PROVE  Turns(v, v)
  BY Zenon DEF Turns, OfKind

\* The wait for a Sigma1.
LEMMA AwaitSigma1Turns ==
    ASSUME NEW v, DOMAIN v = ServerFields, v.accepts \in Nat, NEW f
    PROVE  Turns(v, AwaitSigma1(v, f))
<1>1. AwaitSigma1(v, f) \in {v, BeginHandshake(v, f)}
  BY Zenon DEF AwaitSigma1
<1> QED
  BY <1>1, BeginTurns, StaysTurns, Zenon

\* A frame carried into the next accept.
LEMMA CarryTurns ==
    ASSUME NEW v, DOMAIN v = ServerFields, v.accepts \in Nat, NEW f
    PROVE  Turns(v, Carry(v, f))
<1> DEFINE w == NextAccept(v)
<1>1. Turns(v, w)
  BY NextAcceptTurns, Zenon
<1>2. Rests(v, w) /\ w.out = v.out
  BY NextAcceptRests, Zenon
<1>3. Carry(v, f) \in {w, AwaitSigma1(w, f)}
  BY Zenon DEF Carry
<1> HIDE DEF w
<1>4. /\ DOMAIN w = ServerFields /\ w.accepts = v.accepts /\ w.pc # "sigma3"
      /\ \A h \in OfKind(w.out, "Sigma2") : h \in v.out
  BY <1>2, Zenon DEF Rests, OfKind
<1>5. Turns(w, AwaitSigma1(w, f))
  BY <1>4, AwaitSigma1Turns, Zenon
<1>6. Turns(v, AwaitSigma1(w, f))
  BY <1>4, <1>5, AfterTurns, Zenon
<1> QED
  BY <1>1, <1>3, <1>6, Zenon

\* The session is registered, or its node turned away.
LEMMA EstablishedFacts ==
    ASSUME NEW v, DOMAIN v = ServerFields
    PROVE  /\ DOMAIN Established(v) = ServerFields /\ Established(v).accepts = v.accepts
           /\ Established(v).out = v.out /\ Established(v).pc # "sigma3"
<1> DEFINE w == [v EXCEPT !.records = @ \cup {v.resp.output.record}, !.pc = "serve",
                          !.sess = v.resp.output, !.seen = {}, !.progress = 0]
<1>1. /\ DOMAIN w = ServerFields /\ w.accepts = v.accepts /\ w.out = v.out
      /\ w.pc # "sigma3"
  BY Zenon DEF ServerFields
<1>2. /\ DOMAIN NextAccept(v) = ServerFields /\ NextAccept(v).accepts = v.accepts
      /\ NextAccept(v).out = v.out /\ NextAccept(v).pc # "sigma3"
  BY NextAcceptRests, Zenon DEF Rests
<1>3. Established(v) \in {w, NextAccept(v)}
  BY Zenon DEF Established
<1> HIDE DEF w
<1> QED
  BY <1>1, <1>2, <1>3, Zenon

\* One frame less to wait.
LEMMA BudgetTurns ==
    ASSUME NEW v, DOMAIN v = ServerFields, NEW u, v.accepts = u.accepts, v.resp = u.resp,
           v.pc = u.pc, \A f \in OfKind(v.out, "Sigma2") : f \in u.out \/ Issued(v, f.body)
    PROVE  Turns(u, Budget(v))
<1> DEFINE w == [v EXCEPT !.frames = @ + 1]
<1>1. w.accepts = v.accepts /\ w.out = v.out /\ w.pc = v.pc /\ w.resp = v.resp
  BY Zenon DEF ServerFields
<1>2. Budget(v) \in {w, NextAccept(v)}
  BY Zenon DEF Budget
<1> HIDE DEF w
<1>3. Turns(u, w)
  BY <1>1, Zenon DEF Turns, Issued
<1>4. /\ NextAccept(v).accepts = v.accepts /\ NextAccept(v).out = v.out
      /\ NextAccept(v).pc # "sigma3"
  BY NextAcceptRests, Zenon DEF Rests
<1>5. Turns(u, NextAccept(v))
  BY <1>4, Zenon DEF Turns, Issued
<1> QED
  BY <1>2, <1>3, <1>5, Zenon

\* The reply in hand, sent again.
LEMMA ReplyAgainTurns ==
    ASSUME NEW v, DOMAIN v = ServerFields, NEW f, NEW op,
           op = "Sigma2" => Issued(v, v.resp.reply)
    PROVE  Turns(v, Budget(ReplyAgain(v, f, op)))
<1> DEFINE u == [v EXCEPT !.mixed = IF f.src = v.m1.src THEN @ ELSE @ \cup {f.src}]
           w == ReplyAgain(v, f, op)
<1>1. /\ DOMAIN u = ServerFields /\ u.accepts = v.accepts /\ u.out = v.out
      /\ u.pc = v.pc /\ u.resp = v.resp
  BY Zenon DEF ServerFields
<1>2. w = Reply(u, f, op, v.resp.reply)
  BY Zenon DEF ReplyAgain
<1> HIDE DEF u, w
<1>3. Replies(u, w, op, v.resp.reply)
  BY <1>1, <1>2, ReplyFacts, Zenon
<1>4. DOMAIN w = ServerFields /\ w.accepts = v.accepts /\ w.resp = v.resp /\ w.pc = v.pc
  BY <1>1, <1>3, Zenon DEF Replies
<1>5. \A h \in OfKind(w.out, "Sigma2") : h \in v.out \/ Issued(w, h.body)
  BY <1>1, <1>3, <1>4, Zenon DEF Replies, Issued
<1>6. Turns(v, Budget(w))
  BY <1>4, <1>5, BudgetTurns, Zenon
<1> QED
  BY <1>6, Zenon DEF w

\* The wait for a Sigma3.
LEMMA AwaitSigma3Turns ==
    ASSUME NEW v, DOMAIN v = ServerFields, Issued(v, v.resp.reply), NEW f
    PROVE  Turns(v, AwaitSigma3(v, f))
<1> DEFINE p == HandleSigma3(v.resp, f.body)
           done == [v EXCEPT !.pc = "close", !.resp = p, !.derived = Append(@, p.output)]
           w == Reply(done, f, "StatusReport", None)
<1>1. AwaitSigma3(v, f) \in {w, NextAccept(v), Budget(v), Budget(ReplyAgain(v, f, "Sigma2"))}
  BY Zenon DEF AwaitSigma3
<1>2. DOMAIN done = ServerFields /\ done.accepts = v.accepts /\ done.pc = "close" /\ done.out = v.out
  BY Zenon DEF ServerFields
<1> HIDE DEF done
<1>3. Replies(done, w, "StatusReport", None)
  BY <1>2, ReplyFacts, Zenon
<1> HIDE DEF w
<1>4. Turns(v, w)
  BY <1>2, <1>3, Zenon DEF Turns, Replies
<1>5. \A h \in OfKind(v.out, "Sigma2") : h \in v.out
  BY Zenon DEF OfKind
<1>6. Turns(v, Budget(v))
  BY <1>5, BudgetTurns, Zenon
<1>7. Turns(v, NextAccept(v)) /\ Turns(v, Budget(ReplyAgain(v, f, "Sigma2")))
  BY NextAcceptTurns, ReplyAgainTurns, Zenon
<1> QED
  BY <1>1, <1>4, <1>6, <1>7, Zenon

\* The wait for the report that ends a resumption.
LEMMA AwaitReportTurns ==
    ASSUME NEW v, DOMAIN v = ServerFields, NEW f
    PROVE  Turns(v, AwaitReport(v, f))
<1> DEFINE u == Reply(v, f, "Ack", None)
           w == Established(u)
<1>1. AwaitReport(v, f) \in {w, NextAccept(v), Budget(v),
                             Budget(ReplyAgain(v, f, "Sigma2Resume"))}
  BY Zenon DEF AwaitReport
<1>2. Replies(v, u, "Ack", None)
  BY ReplyFacts, Zenon
<1> HIDE DEF u
<1>3. /\ DOMAIN u = ServerFields /\ u.accepts = v.accepts
      /\ \A h \in OfKind(u.out, "Sigma2") : h \in v.out
  BY <1>2, Zenon DEF Replies
<1>4. w.accepts = u.accepts /\ w.out = u.out /\ w.pc # "sigma3"
  BY <1>3, EstablishedFacts, Zenon
<1> HIDE DEF w
<1>5. Turns(v, w)
  BY <1>3, <1>4, Zenon DEF Turns
<1>6. \A h \in OfKind(v.out, "Sigma2") : h \in v.out
  BY Zenon DEF OfKind
<1>7. Turns(v, Budget(v))
  BY <1>6, BudgetTurns, Zenon
<1>8. Turns(v, NextAccept(v)) /\ Turns(v, Budget(ReplyAgain(v, f, "Sigma2Resume")))
  BY NextAcceptTurns, ReplyAgainTurns, Zenon
<1> QED
  BY <1>1, <1>5, <1>7, <1>8, Zenon

\* A reception while a session is served.
LEMMA ServeTurns ==
    ASSUME NEW v, DOMAIN v = ServerFields, v.accepts \in Nat, v.pc = "serve", NEW f
    PROVE  Turns(v, Serve(v, f))
<1> DEFINE w == Served(Dispatch([v EXCEPT !.seen = @ \cup {f.seq}], f))
<1>1. Serve(v, f) \in {Carry(v, f), v, w}
  BY Zenon DEF Serve
<1>2. Turns(v, w)
  BY ServedRests, RestsTurns, Zenon
<1> HIDE DEF w
<1> QED
  BY <1>1, <1>2, CarryTurns, StaysTurns, Zenon

\* The reception after the success report.
LEMMA CloseTurns ==
    ASSUME NEW v, DOMAIN v = ServerFields, v.accepts \in Nat, NEW f
    PROVE  Turns(v, Close(v, f))
<1> DEFINE w == Established(v)
<1>1. Close(v, f) \in {w, Carry(w, f)} \/ (w.pc = "serve" /\ Close(v, f) = Serve(w, f))
  BY Zenon DEF Close
<1>2. DOMAIN w = ServerFields /\ w.accepts = v.accepts /\ w.out = v.out /\ w.pc # "sigma3"
  BY EstablishedFacts, Zenon
<1> HIDE DEF w
<1>3. Turns(w, w) /\ Turns(w, Carry(w, f)) /\ (w.pc = "serve" => Turns(w, Serve(w, f)))
  BY <1>2, StaysTurns, CarryTurns, ServeTurns, Zenon
<1>4. \A h \in OfKind(w.out, "Sigma2") : h \in v.out
  BY <1>2, Zenon DEF OfKind
<1>5. Turns(w, Close(v, f))
  BY <1>1, <1>3, Zenon
<1> QED
  BY <1>2, <1>4, <1>5, AfterTurns, Zenon

\* What the server does with a frame.
LEMMA HandleTurns ==
    ASSUME NEW v, DOMAIN v = ServerFields, v.accepts \in Nat,
           v.pc \in {"accept", "sigma3", "resume", "close", "serve"},
           v.pc = "sigma3" => Issued(v, v.resp.reply), NEW f
    PROVE  Turns(v, Handle(v, f))
<1>1. CASE v.pc = "accept"
  BY <1>1, AwaitSigma1Turns, Zenon DEF Handle
<1>2. CASE v.pc = "sigma3"
  BY <1>2, AwaitSigma3Turns, Zenon DEF Handle
<1>3. CASE v.pc = "resume"
  BY <1>3, AwaitReportTurns, Zenon DEF Handle
<1>4. CASE v.pc = "close"
  BY <1>4, CloseTurns, Zenon DEF Handle
<1>5. CASE v.pc = "serve"
  BY <1>5, ServeTurns, Zenon DEF Handle
<1> QED
  BY <1>1, <1>2, <1>3, <1>4, <1>5, Zenon

\* The Sigma2 of the accept in hand carries its number.
LEMMA PendingIssued ==
    ASSUME NEW v, v.accepts \in Nat,
           v.resp = AnswerInFull(NewResponder(v.accepts, v.accepts), v.m1.body)
    PROVE  Issued(v, v.resp.reply) /\ v.resp.reply.s1 = v.resp.s1
<1>1. v.resp.reply = [eph |-> v.accepts, sid |-> v.accepts, id |-> v.accepts,
                      s1 |-> v.m1.body] /\ v.resp.s1 = v.m1.body
  BY Zenon DEF AnswerInFull, NewResponder, Sigma2
<1>2. v.resp.reply.eph = v.accepts /\ v.resp.reply.s1 = v.resp.s1
  BY <1>1
<1>3. v.accepts <= v.accepts
  OBVIOUS
<1> QED
  BY <1>2, <1>3, Zenon DEF Issued

\* A Sigma2 stays one of an accept so far.
LEMMA IssuedTurns ==
    ASSUME NEW v, NEW w, v.accepts \in Nat, Turns(v, w), NEW q, Issued(v, q)
    PROVE  Issued(w, q)
<1>1. CASE w.accepts = v.accepts
  BY <1>1, Zenon DEF Turns, Issued
<1>2. CASE w.accepts = v.accepts + 1
  BY <1>2 DEF Issued
<1> QED
  BY <1>1, <1>2, Zenon DEF Turns

\* The server handles a frame.
LEMMA ServesAnswering ==
    ASSUME IInv, Answering, NEW f \in inbox, Serves(f)
    PROVE  Answering'
<1> DEFINE t == Handle(s, f)
<1>1. /\ s.pc \notin {"done", "failed"} /\ s' = [t EXCEPT !.out = {}]
      /\ back' = back \cup t.out /\ inbox' = inbox
  BY Zenon DEF Serves
<1>2. Server(s, inbox, back, set) /\ s.out = {} /\ set \in Settings
  BY Zenon DEF IInv
<1>3. DOMAIN s = ServerFields /\ s.accepts \in Nat
  BY <1>2, Zenon DEF Server, Ledger
<1>4. s.pc \in {"accept", "sigma3", "resume", "close", "serve"}
  BY <1>1, <1>2, Zenon DEF Server, Phase
<1>5. s.pc = "sigma3" => s.resp = AnswerInFull(NewResponder(s.accepts, s.accepts), s.m1.body)
  BY <1>2, Zenon DEF Server, Phase
<1>6. s.pc = "sigma3" => Issued(s, s.resp.reply)
  BY <1>3, <1>5, PendingIssued, Zenon
<1>7. Turns(s, t)
  BY <1>3, <1>4, <1>6, HandleTurns, Zenon
<1>8. Leads(s, t, inbox, back, set)
  BY <1>2, <1>4, HandleLeads, Zenon DEF IInv
<1> HIDE DEF t
<1>9. DOMAIN t = ServerFields
  BY <1>8, Zenon DEF Leads, Server
<1>10. s'.accepts = t.accepts /\ s'.pc = t.pc /\ s'.resp = t.resp
  BY <1>1, <1>9, Zenon DEF ServerFields
<1>11. \A q : Issued(t, q) => Issued(s', q)
  BY <1>10, Zenon DEF Issued
<1>12. \A q : Issued(s, q) => Issued(s', q)
  BY <1>3, <1>7, <1>11, IssuedTurns, Zenon
<1>13. \A h \in OfKind(back', "Sigma2") : Issued(s', h.body)
  <2>1. \A h \in OfKind(t.out, "Sigma2") : Issued(t, h.body)
    BY <1>2, <1>7, Zenon DEF Turns
  <2> QED
    BY <1>1, <1>11, <1>12, <2>1, Zenon DEF OfKind, Answering
<1>14. \A h \in OfKind(inbox', "Sigma3") : Issued(s', h.body.s2) /\ h.body.s1 = h.body.s2.s1
  BY <1>1, <1>12, Zenon DEF Answering
<1> QED
  BY <1>13, <1>14, Zenon DEF Answering

\* The frames F of a step of a node hold no Sigma3 but such as answers a Sigma2
\* that the node has received.
LEMMA NodeAnswering ==
    ASSUME Answering, NEW F, inbox' = inbox \cup F, s' = s, back' = back,
           \A h \in OfKind(F, "Sigma3") :
             \/ h \in inbox
             \/ \E f \in OfKind(back, "Sigma2") : h.body.s2 = f.body /\ h.body.s1 = f.body.s1
    PROVE  Answering'
<1>1. ASSUME NEW h \in OfKind(inbox', "Sigma3")
      PROVE  Issued(s, h.body.s2) /\ h.body.s1 = h.body.s2.s1
  <2>1. h \in OfKind(inbox, "Sigma3") \/ h \in OfKind(F, "Sigma3") \ inbox
    BY <1>1, Zenon DEF OfKind
  <2>2. CASE h \in OfKind(inbox, "Sigma3")
    BY <2>2, Zenon DEF Answering
  <2>3. CASE h \in OfKind(F, "Sigma3") \ inbox
    <3>1. PICK f \in OfKind(back, "Sigma2") : h.body.s2 = f.body /\ h.body.s1 = f.body.s1
      BY <2>3, Zenon
    <3>2. Issued(s, f.body)
      BY Zenon DEF Answering
    <3> QED
      BY <3>1, <3>2, Zenon
  <2> QED
    BY <2>1, <2>2, <2>3, Zenon
<1> QED
  BY <1>1, Zenon DEF Answering

\* The steps of a node that send no new handshake message, or a Sigma1.
LEMMA OtherAnswering ==
    ASSUME IInv, Answering, NEW n \in Nodes,
           \/ \E record, phase : Connect(n, record, phase)
           \/ \E f \in back : ReceivesAck(n, f) \/ Answered(n, f)
           \/ TimesOut(n) \/ Request(n) \/ AbortsTransfer(n)
    PROVE  Answering'
<1> DEFINE G == {h \in inbox : FALSE}
<1>0. inbox = inbox \cup G /\ OfKind(G, "Sigma3") = {}
  BY Zenon DEF OfKind
<1>1. \A d, op, k : ~Unsecured(Secured(d, op, k))
  BY Zenon DEF Secured, Unsecured
<1>2. \A d, op, k : OfKind({Secured(d, op, k)}, "Sigma3") = {}
  BY <1>1, Zenon DEF OfKind
<1> HIDE DEF G
<1>3. ASSUME NEW record, NEW phase, Connect(n, record, phase)
      PROVE  Answering'
  <2> DEFINE z == NewExchange(IF set.collide THEN 0 ELSE dev[n].att + 1,
                              <<n, dev[n].att + 1>>, set.mrp)
             c == Start(NewInitiator(<<n, dev[n].att + 1>>, n, dev[n].att + 1, record))
             F == {Sending(z, "Sigma1", c).frame}
  <2>1. inbox' = inbox \cup F /\ s' = s /\ back' = back
    BY <1>3, Zenon DEF Connect
  <2>2. DOMAIN z = ExchangeFields
    BY Zenon DEF NewExchange, ExchangeFields
  <2> HIDE DEF z, c
  <2>3. Sending(z, "Sigma1", c).frame.op = "Sigma1"
    BY <2>2, Zenon DEF Sending, ExchangeFields
  <2>4. OfKind(F, "Sigma3") = {}
    BY <2>3, Zenon DEF OfKind
  <2> HIDE DEF F
  <2> QED
    BY <2>1, <2>4, NodeAnswering, Zenon
<1>4. ASSUME NEW f \in back, ReceivesAck(n, f)
      PROVE  Answering'
  <2>1. inbox' = inbox \cup G /\ s' = s /\ back' = back
    BY <1>0, <1>4, Zenon DEF ReceivesAck
  <2> QED
    BY <1>0, <2>1, NodeAnswering, Zenon
<1>5. ASSUME NEW f \in back, Answered(n, f)
      PROVE  Answering'
  <2> DEFINE F == {Secured([dev[n] EXCEPT !.frame = None], "BlockAckEof", f.n)}
  <2>1. s' = s /\ back' = back /\ (inbox' = inbox \cup F \/ inbox' = inbox)
    BY <1>5, Zenon DEF Answered
  <2>2. OfKind(F, "Sigma3") = {}
    BY <1>2, Zenon
  <2> HIDE DEF F
  <2>3. \E H \in {F, G} : inbox' = inbox \cup H /\ OfKind(H, "Sigma3") = {}
    BY <1>0, <2>1, <2>2, Zenon
  <2> QED
    BY <2>1, <2>3, NodeAnswering, Zenon
<1>6. CASE TimesOut(n)
  <2> DEFINE x == IF dev[n].x.acked THEN dev[n].x ELSE Spent(dev[n].x)
             F == {x.frame}
  <2>1. /\ s' = s /\ back' = back /\ (inbox' = inbox \cup F \/ inbox' = inbox)
        /\ dev[n].pc \in {"sigma1", "sigma3", "close"}
    BY <1>6, Zenon DEF TimesOut, Waiting
  <2>2. DOMAIN dev[n].x = ExchangeFields /\ dev[n].x.frame \in inbox
    BY <2>1, Zenon DEF IInv, Node
  <2>3. x.frame = dev[n].x.frame
    BY <2>2, ExchangeKept, Zenon
  <2> HIDE DEF x
  <2>4. inbox' = inbox \cup G
    BY <1>0, <2>1, <2>2, <2>3, Zenon
  <2> QED
    BY <1>0, <2>1, <2>4, NodeAnswering, Zenon
<1>7. CASE Request(n)
  <2>1. PICK k : inbox' = inbox \cup {Secured(dev[n], RequestOf(dev[n].phase), k)}
    BY <1>7, Zenon DEF Request
  <2>2. s' = s /\ back' = back
    BY <1>7, Zenon DEF Request
  <2> QED
    BY <1>2, <2>1, <2>2, NodeAnswering, Zenon
<1>8. CASE AbortsTransfer(n)
  <2>1. inbox' = inbox \cup {Secured(dev[n], "StatusReport", 0)} /\ s' = s /\ back' = back
    BY <1>8, Zenon DEF AbortsTransfer
  <2> QED
    BY <1>2, <2>1, NodeAnswering, Zenon
<1> QED
  BY <1>3, <1>4, <1>5, <1>6, <1>7, <1>8, Zenon

\* A node takes a frame off the socket: a new Sigma3 answers a Sigma2 that
\* opened, and so was sealed for the Sigma1 of the attempt.
LEMMA ReceivesAnswering ==
    ASSUME IInv, Answering, NEW n \in Nodes, NEW f \in back, Receives(n, f)
    PROVE  Answering'
<1> DEFINE d == dev[n]
           y == Skipped(d.x, f)
           x == Consumed(d.x, f)
           r == IF IsAwaited(d.x, f, Expects(d)) THEN Proceed(d, f)
                ELSE <<[d EXCEPT !.x = y], Resends(y)>>
<1>1. inbox' = inbox \cup r[2] /\ d.pc \in {"sigma1", "sigma3"} /\ s' = s /\ back' = back
  <2>1. \E k \in {r} : inbox' = inbox \cup k[2]
    BY Zenon DEF Receives
  <2>2. d.pc \in {"sigma1", "sigma3"} /\ s' = s /\ back' = back
    BY Zenon DEF Receives
  <2> HIDE DEF r
  <2> QED
    BY <2>1, <2>2, Zenon
<1>2. /\ DOMAIN d = NodeFields /\ DOMAIN d.x = ExchangeFields /\ d.x.src = <<n, d.att>>
      /\ d.x.frame \in inbox
  BY <1>1, Zenon DEF IInv, Node
<1>3. ASSUME NEW F, r[2] = F,
             \A h \in OfKind(F, "Sigma3") :
               \/ h \in inbox
               \/ \E g \in OfKind(back, "Sigma2") : /\ h.body.s2 = g.body
                                                    /\ h.body.s1 = g.body.s1
      PROVE  Answering'
  <2> HIDE DEF r
  <2>1. inbox' = inbox \cup F
    BY <1>1, <1>3, Zenon
  <2> QED
    BY <1>1, <1>3, <2>1, NodeAnswering, Zenon
<1>4. CASE ~IsAwaited(d.x, f, Expects(d))
  <2>1. r[2] = Resends(y)
    BY <1>4, Zenon
  <2>2. y.frame = d.x.frame
    BY <1>2, ExchangeKept, Zenon
  <2> HIDE DEF y, r
  <2>3. \A h \in Resends(y) : h \in inbox
    BY <1>2, <2>2, Zenon DEF Resends
  <2> QED
    BY <1>3, <2>1, <2>3, Zenon DEF OfKind
<1>5. CASE IsAwaited(d.x, f, Expects(d))
  <2>1. r = Proceed(d, f)
    BY <1>5, Zenon
  <2> HIDE DEF r, y
  <2>2. DOMAIN x = ExchangeFields
    BY <1>2, ExchangeKept, Zenon
  <2>3. OfKind({StandaloneAck(x)}, "Sigma3") = {}
    <3>1. StandaloneAck(x).op = "Ack"
      BY Zenon DEF StandaloneAck
    <3> QED
      BY <3>1, Zenon DEF OfKind
  <2>5. CASE d.pc = "sigma3" \/ (d.pc = "sigma1" /\ f.op = "StatusReport")
    <3>1. \E e : r = <<e, {StandaloneAck(x)}>>
      BY <2>1, <2>5, Zenon DEF Proceed
    <3>2. r[2] = {StandaloneAck(x)}
      <4>1. PICK e : r = <<e, {StandaloneAck(x)}>>
        BY <3>1, Zenon
      <4> QED
        BY <4>1, Zenon
    <3> QED
      BY <1>3, <2>3, <3>2, Zenon
  <2> DEFINE stop == [d EXCEPT !.pc = "failed", !.why = "Crypto", !.x = x]
  <2>6. ASSUME NEW e, NEW F, r = <<e, F>>, OfKind(F, "Sigma3") = {}
        PROVE  Answering'
    <3>1. r[2] = F
      BY <2>6, Zenon
    <3> QED
      BY <1>3, <2>6, <3>1, Zenon
  <2>7. CASE d.pc = "sigma1" /\ f.op = "Sigma2Resume"
    <3> DEFINE out == HandleSigma2Resume(d.i, f.body)
               e == [d EXCEPT !.pc = "close", !.sess = out,
                              !.x = Sending(Resized(x), "StatusReport", None)]
    <3>1. r \in {<<stop, {}>>, <<e, {e.x.frame}>>}
      BY <2>1, <2>7, Zenon DEF Proceed
    <3>4. Advances(n, d, e, "close", out, "StatusReport", None)
      BY <1>2, AdvancesFacts, Zenon
    <3> HIDE DEF e, stop
    <3>2. e.x.frame.op = "StatusReport"
      BY <3>4, Zenon DEF Advances
    <3>3. OfKind({e.x.frame}, "Sigma3") = {} /\ OfKind({}, "Sigma3") = {}
      BY <3>2, Zenon DEF OfKind
    <3> QED
      BY <2>6, <3>1, <3>3, Zenon
  <2>8. CASE d.pc = "sigma1" /\ f.op \notin {"Sigma2Resume", "StatusReport"}
    <3> DEFINE out == HandleSigma2(d.i, f.body)
               e == [d EXCEPT !.pc = "sigma3", !.sess = out,
                              !.x = Sending(Resized(x), "Sigma3", Sigma3(d.i, f.body))]
    <3>1. r = IF out = Failed THEN <<stop, {}>> ELSE <<e, {e.x.frame}>>
      BY <2>1, <2>8, Zenon DEF Proceed
    <3>2. f.op = "Sigma2" /\ Unsecured(f)
      BY <1>5, <2>8, Zenon DEF IsAwaited, Expects, Ours
    <3>8. Advances(n, d, e, "sigma3", out, "Sigma3", Sigma3(d.i, f.body))
      BY <1>2, AdvancesFacts, Zenon
    <3>3. e.x.frame.body = Sigma3(d.i, f.body)
      <4> HIDE DEF e, out
      <4> QED
        BY <3>8, Zenon DEF Advances
    <3>4. out # Failed => f.body.s1 = Start(d.i)
      BY Zenon DEF HandleSigma2
    <3>5. Sigma3(d.i, f.body).s2 = f.body /\ Sigma3(d.i, f.body).s1 = Start(d.i)
      BY Zenon DEF Sigma3
    <3> HIDE DEF e, stop, out
    <3>6. CASE out = Failed
      <4>1. r = <<stop, {}>> /\ OfKind({}, "Sigma3") = {}
        BY <3>1, <3>6, Zenon DEF OfKind
      <4> QED
        BY <2>6, <4>1, Zenon
    <3>7. CASE out # Failed
      <4>1. r[2] = {e.x.frame}
        BY <3>1, <3>7, Zenon
      <4>2. f \in OfKind(back, "Sigma2")
        BY <3>2, Zenon DEF OfKind
      <4>3. e.x.frame.body.s2 = f.body /\ e.x.frame.body.s1 = f.body.s1
        BY <3>3, <3>4, <3>5, <3>7, Zenon
      <4>4. \A h \in OfKind({e.x.frame}, "Sigma3") : h = e.x.frame
        BY Zenon DEF OfKind
      <4> QED
        BY <1>3, <4>1, <4>2, <4>3, <4>4, Zenon
    <3> QED
      BY <3>6, <3>7, Zenon
  <2> QED
    BY <1>1, <2>5, <2>7, <2>8, Zenon
<1> QED
  BY <1>4, <1>5, Zenon

\* Every Sigma3 under way answers the Sigma2 of one accept (complete_full draws
\* the ephemeral key of a Sigma2 anew at every accept and sends no other).
LEMMA AnsweringInvariant == Spec => []Answering
<1>1. Init => Answering
  BY Zenon DEF Init, Answering, OfKind
<1>2. ASSUME IInv, Answering, [Next]_vars
      PROVE  Answering'
  <2>1. ASSUME NEW n \in Nodes, NEW f \in back, Receives(n, f)
        PROVE  Answering'
    BY <1>2, <2>1, ReceivesAnswering, Zenon
  <2>2. ASSUME NEW f \in inbox, Serves(f)
        PROVE  Answering'
    BY <1>2, <2>2, ServesAnswering, Zenon
  <2>3. CASE \E n \in Nodes : \/ \E record, phase : Connect(n, record, phase)
                              \/ \E f \in back : ReceivesAck(n, f) \/ Answered(n, f)
                              \/ TimesOut(n) \/ Request(n) \/ AbortsTransfer(n)
    BY <1>2, <2>3, OtherAnswering, Zenon
  <2>4. CASE UNCHANGED vars
    <3>1. s' = s /\ inbox' = inbox /\ back' = back
      BY <2>4, Zenon DEF vars
    <3> QED
      BY <1>2, <3>1, Zenon DEF Answering
  <2> QED
    BY <1>2, <2>1, <2>2, <2>3, <2>4, OtaAssumption, Zenon DEF Next
<1> QED
  BY <1>1, <1>2, OtaInvariant, PTL DEF Spec

\* A node whose driver has returned a session shares it, keys, session ids and
\* record, with the server.
THEOREM OtaKeysAgree == Spec => []KeysAgree
<1>1. ASSUME IInv, NEW n \in Nodes, dev[n].pc = "up"
      PROVE  \E k \in DOMAIN s.derived :
               /\ s.derived[k].keys = dev[n].sess.keys
               /\ s.derived[k].record = dev[n].sess.record
               /\ s.derived[k].local = dev[n].sess.peer
               /\ s.derived[k].peer = dev[n].sess.local
  <2>1. Agrees(Sessions(s), dev[n].sess)
    BY <1>1, Zenon DEF IInv, Node
  <2> QED
    BY <2>1, Zenon DEF Agrees, Sessions
<1>2. IInv => KeysAgree
  BY <1>1, Zenon DEF KeysAgree
<1> QED
  BY <1>2, OtaInvariant, PTL

\* No two accepts of a serve ever derive the same session keys.
THEOREM OtaSessionKeysFresh == Spec => []SessionKeysFresh
<1>1. IInv => SessionKeysFresh
  BY Zenon DEF IInv, Server, Ledger, SessionKeysFresh
<1> QED
  BY <1>1, OtaInvariant, PTL

\* A Sigma3 that answers the Sigma2 in hand completes the handshake.
LEMMA AnswerCompletes ==
    ASSUME NEW a \in Nat, NEW s1 \in Sigma1s, NEW r, r = AnswerInFull(NewResponder(a, a), s1),
           NEW s3, s3.node \in Nodes, s3.s1 = r.s1, s3.s2 = r.reply
    PROVE  HandleSigma3(r, s3) # Failed
<1> DEFINE d == Record(a, <<s1.rand, a>>, s3.node)
           o == Output(FullKeys(s1.rand, a), a, s1.sid, d)
           q == [eph |-> a, sid |-> a, id |-> a, s1 |-> s1]
<1>1. r = [eph |-> a, sid |-> a, s1 |-> s1, reply |-> q, output |-> None]
  BY Zenon DEF AnswerInFull, NewResponder, Sigma2
<1>2. r.s1 = s1 /\ r.eph = a /\ r.sid = a
  BY <1>1
<1>3. HandleSigma3(r, s3) = [r EXCEPT !.output = o]
  BY <1>2, Zenon DEF HandleSigma3
<1>4. s1.rand \in Attempts /\ s1.sid \in Nat
  BY Zenon DEF Sigma1s
<1>5. d \in Records
  BY <1>4 DEF Record, Records, Secrets
<1>6. FullKeys(s1.rand, a) \in Keys
  BY <1>4, Zenon DEF FullKeys, Keys
<1> HIDE DEF d
<1>7. o \in Outputs
  BY <1>4, <1>5, <1>6, Zenon DEF Output, Outputs
<1> HIDE DEF o
<1>8. q \in [eph : Nat, sid : Nat, id : Nat, s1 : Sigma1s]
  BY Zenon
<1> HIDE DEF q
<1> DEFINE c == [eph |-> a, sid |-> a, s1 |-> s1, reply |-> q, output |-> o]
<1>9. [r EXCEPT !.output = o] = c
  BY <1>1
<1>10. c \in Completions
  BY <1>7, <1>8, Zenon DEF Completions
<1> HIDE DEF c
<1> QED
  BY <1>3, <1>9, <1>10, NoneAssumption, Zenon DEF Failed

\* No handshake message fails to verify, but for an attempt that the server took
\* for a retransmission of another and a Sigma3 that comes after its accept.
THEOREM OtaHandshakesVerify == Spec => []HandshakesVerify
<1>1. ASSUME IInv, Answering, s.pc = "sigma3", NEW f \in inbox, Unsecured(f), f.op = "Sigma3",
             HandleSigma3(s.resp, f.body) = Failed
      PROVE  f.body.s2.eph < s.accepts
  <2>1. /\ s.accepts \in Nat
        /\ s.resp = AnswerInFull(NewResponder(s.accepts, s.accepts), s.m1.body)
    BY <1>1, Zenon DEF IInv, Server, Ledger, Phase
  <2>2. s.resp.reply.s1 = s.resp.s1
    BY <2>1, PendingIssued, Zenon
  <2>3. Issued(s, f.body.s2) /\ f.body.s1 = f.body.s2.s1
    BY <1>1, Zenon DEF Answering, OfKind
  <2>4. f.body.s2 # s.resp.reply
    <3>1. s.m1.body \in Sigma1s
      BY <1>1, Zenon DEF IInv, Server, Phase, Pending, OfKind, Arrived
    <3>2. f.body.node \in Nodes
      BY <1>1, Zenon DEF IInv, Arrived, Attempts
    <3>3. f.body.s2 = s.resp.reply => HandleSigma3(s.resp, f.body) # Failed
      BY <2>1, <2>2, <2>3, <3>1, <3>2, AnswerCompletes, Zenon
    <3> QED
      BY <1>1, <3>3, Zenon
  <2>5. f.body.s2.eph # s.accepts /\ f.body.s2.eph \in Nat /\ f.body.s2.eph <= s.accepts
    BY <1>1, <2>3, <2>4, Zenon DEF Issued
  <2> QED
    BY <2>1, <2>5
<1>2. IInv => s.why # "Mac" /\ \A n \in Nodes : dev[n].why = "Crypto" => dev[n].x.src \in s.mixed
  BY Zenon DEF IInv, Server, Phase, Node
<1>3. IInv /\ Answering => HandshakesVerify
  BY <1>1, <1>2, Zenon DEF HandshakesVerify
<1> QED
  BY <1>3, OtaInvariant, AnsweringInvariant, PTL

\* Only the pinned node is served, and only it leaves records.
THEOREM OtaPinnedPeerOnly == Spec => []PinnedPeerOnly
<1>1. IInv => PinnedPeerOnly
  BY Zenon DEF IInv, Server, Ledger, Phase, PinnedPeerOnly
<1> QED
  BY <1>1, OtaInvariant, PTL
=============================================================================
