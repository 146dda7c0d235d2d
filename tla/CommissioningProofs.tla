------------------------- MODULE CommissioningProofs ------------------------
(***************************************************************************)
(* A commissioning run, for every network, every transport, every local    *)
(* fault and every sequence of losses, refusals, lapses and restarts: what *)
(* the driver believes at each stage is true of the device.                *)
(***************************************************************************)
EXTENDS Commissioning, CommissionerProofs

Devices ==
    [genuine : BOOLEAN, Pase : BOOLEAN, Case : BOOLEAN, armed : BOOLEAN, root : BOOLEAN,
     noc : BOOLEAN, staged : BOOLEAN, joined : BOOLEAN, committed : BOOLEAN,
     breadcrumb : Nat, unarmed : BOOLEAN]

\* A device that bears no trace of the run but its sessions.
Clean(d) ==
    /\ ~d.Case /\ ~d.armed /\ ~d.root /\ ~d.noc /\ ~d.staged /\ ~d.joined /\ ~d.committed
    /\ d.breadcrumb = 0

\* The stages between the armed fail-safe and CommissioningComplete.
Guarded ==
    {"ConfigRegulatory", "SendPaiCertRequest", "SendDacCertRequest",
     "SendAttestationRequest", "AttestationVerification", "SendOpCertSigningRequest",
     "ValidateCsr", "GenerateNocChain", "SendTrustedRootCert", "SendNoc",
     "ReadNetworkCommissioningInfo", "NetworkSetup", "FailsafeBeforeNetworkEnable",
     "NetworkEnable", "EvictPreviousCaseSessions", "FindOperationalForComplete",
     "SendComplete"}

\* The driver lost touch with the device, or the device undid the run.
Lost(u) == u \cap {"Timeout", "SessionClosed", "ReplyLost"} # {}
Undone(u) == u \cap {"Lapse", "Reboot"} # {}

\* The device is on the network the run was to bring it to.
Reachable(d, s) == d.noc /\ (d.joined \/ s.network = "AlreadyOnNetwork")

Replied == phase = "waiting" /\ reply # NoReply

\* The driver's phase, its request and its machine fit each other.
DriverInv ==
    /\ MachineInv(sm)
    /\ \/ phase = "polling" /\ Quiet(sm) /\ request = NoRequest
       \/ phase = "waiting" /\ request = sm.pending /\ sm.pending \in Requests
       \/ phase = "case" /\ sm.awaitingCase /\ request = NoRequest
       \/ phase = "rollback" /\ request = RollbackRequest
       \/ phase = "done" /\ sm.stage = "Cleanup" /\ request = NoRequest
       \/ phase = "failed" /\ request = NoRequest
    /\ acted \in BOOLEAN /\ pase \in BOOLEAN
    /\ request = NoRequest => ~acted
    /\ reply # NoReply => acted
    /\ Replied => reply \in Replies(request.expect, {request.nonce})
    /\ ~pase => "SessionClosed" \in upset

\* What the device has done and undone, whoever asked for it.
DeviceInv ==
    /\ device \in Devices
    /\ device.noc => device.root
    /\ device.joined => device.staged
    /\ device.Case => Reachable(device, sm)
    /\ device.committed => Reachable(device, sm) /\ ~device.armed
    /\ device.armed \/ device.committed \/ Clean(device)

\* Only a genuine device gets past its certificates.
GenuineInv ==
    /\ device.root => device.genuine
    /\ sm.pai = "genuine" => device.genuine
    /\ Replied /\ request.stage = "SendPaiCertRequest" /\ reply.status = "ok"
         => (reply.cert = "genuine" => device.genuine)

\* Unless it lapsed, the fail-safe is armed while the driver relies on it.
FailsafeInv ==
    Undone(upset) \/
      /\ ~device.unarmed
      /\ phase \in {"polling", "waiting", "case"} /\ sm.stage \in Guarded
           /\ ~(sm.stage = "SendComplete" /\ acted) => device.armed
      /\ Replied /\ sm.stage = "ArmFailsafe" /\ reply.status = "ok" => device.armed

\* The device is committed exactly when the driver may come to know it, and
\* a run that fails leaves no trace.
CommitInv ==
    /\ device.committed =>
         \/ phase = "waiting" /\ sm.stage = "SendComplete" /\ acted
         \/ phase \in {"polling", "done"} /\ sm.stage = "Cleanup"
         \/ phase \in {"rollback", "failed"} /\ Lost(upset)
    /\ phase \in {"polling", "done"} /\ sm.stage = "Cleanup" => device.committed
    /\ Replied /\ sm.stage = "SendComplete" => (reply.status = "ok" <=> device.committed)
    /\ (phase = "rollback" /\ acted) \/ phase = "failed" => Clean(device) \/ Lost(upset)

IInv == DriverInv /\ DeviceInv /\ GenuineInv /\ FailsafeInv /\ CommitInv
-----------------------------------------------------------------------------
\* A request of the machine is a request, and none of the two other values.
LEMMA RequestFields ==
    /\ \A q \in Requests : /\ q.stage \in WireStages /\ q.stage \notin {None, "Rollback"}
                           /\ q.breadcrumb \in Nat /\ q.nonce \in Nat /\ q.type = "Request"
                           /\ q.session \in {"Pase", "Case"} /\ q # NoRequest
                           /\ q # RollbackRequest /\ q.expect \in Expectations
    /\ RollbackRequest.stage = "Rollback" /\ RollbackRequest.session = "Pase"
    /\ RollbackRequest # NoRequest
<1>1. \A q \in Requests : /\ q.stage \in WireStages /\ q.breadcrumb \in Nat /\ q.nonce \in Nat
                          /\ q.type = "Request" /\ q.session \in {"Pase", "Case"}
                          /\ q.expect \in Expectations
  BY Zenon DEF Requests
<1>2. None \notin WireStages /\ "Rollback" \notin WireStages
  BY WireStageTypes, Zenon DEF None
<1>3. /\ NoRequest.stage = None
      /\ RollbackRequest.stage = "Rollback" /\ RollbackRequest.session = "Pase"
  BY Zenon DEF NoRequest, RollbackRequest
<1>4. None # "Rollback"
  BY Zenon DEF None
<1> HIDE DEF NoRequest, RollbackRequest
<1>. QED
  BY <1>1, <1>2, <1>3, <1>4, Zenon

\* The undone device bears no trace.
LEMMA RevertedFields ==
    ASSUME NEW d \in Devices
    PROVE  /\ Reverted(d) \in Devices /\ Clean(Reverted(d))
           /\ Reverted(d).genuine = d.genuine /\ Reverted(d).unarmed = d.unarmed
           /\ ~Reverted(d).Pase
BY ZenonT(30) DEF Reverted, Fresh, Devices, Clean

\* What a request of the machine changes on the device.
LEMMA AppliedFields ==
    ASSUME NEW d \in Devices, NEW q \in Requests
    PROVE  LET x == Applied(d, q)
           IN  /\ x \in Devices
               /\ x.genuine = d.genuine /\ x.unarmed = d.unarmed /\ x.Case = d.Case
               /\ x.root <=> d.root \/ q.stage = "SendTrustedRootCert"
               /\ x.noc <=> IF q.stage = "SendNoc" THEN d.root ELSE d.noc
               /\ x.staged <=> d.staged \/ q.stage = "NetworkSetup"
               /\ x.joined <=> IF q.stage = "NetworkEnable" THEN d.staged ELSE d.joined
               /\ x.committed <=> d.committed \/ q.stage = "SendComplete"
               /\ x.armed <=> q.stage \in ArmStages \/ (d.armed /\ q.stage # "SendComplete")
               /\ x.breadcrumb = d.breadcrumb \/ q.stage \in BreadcrumbStages
<1> DEFINE crumb == IF q.stage \in BreadcrumbStages THEN q.breadcrumb ELSE d.breadcrumb
           x == Applied(d, q)
<1>1. /\ crumb \in Nat /\ (crumb = d.breadcrumb \/ q.stage \in BreadcrumbStages)
      /\ q.stage \in WireStages /\ q.stage # "Rollback"
  BY RequestFields, Zenon DEF Devices
<1>2. Applied(d, q) =
        CASE q.stage \in ArmStages -> [d EXCEPT !.armed = TRUE, !.breadcrumb = crumb]
          [] q.stage = "SendTrustedRootCert" -> [d EXCEPT !.root = TRUE]
          [] q.stage = "SendNoc" -> [d EXCEPT !.noc = d.root]
          [] q.stage = "NetworkSetup" -> [d EXCEPT !.staged = TRUE, !.breadcrumb = crumb]
          [] q.stage = "NetworkEnable" -> [d EXCEPT !.joined = d.staged, !.breadcrumb = crumb]
          [] q.stage = "SendComplete" ->
               [d EXCEPT !.committed = TRUE, !.armed = FALSE, !.Pase = FALSE]
          [] OTHER -> [d EXCEPT !.breadcrumb = crumb]
  BY <1>1, Zenon DEF Applied, ArmStages
<1> HIDE DEF crumb
<1>3. CASE q.stage \in ArmStages
  BY <1>1, <1>2, <1>3, ZenonT(30) DEF Devices, ArmStages
<1>4. CASE q.stage = "SendTrustedRootCert"
  BY <1>1, <1>2, <1>4, ZenonT(30) DEF Devices, ArmStages
<1>5. CASE q.stage = "SendNoc"
  BY <1>1, <1>2, <1>5 DEF Devices, ArmStages
<1>6. CASE q.stage = "NetworkSetup"
  BY <1>1, <1>2, <1>6, ZenonT(30) DEF Devices, ArmStages
<1>7. CASE q.stage = "NetworkEnable"
  BY <1>1, <1>2, <1>7, ZenonT(30) DEF Devices, ArmStages
<1>8. CASE q.stage = "SendComplete"
  BY <1>1, <1>2, <1>8, ZenonT(30) DEF Devices, ArmStages
<1>9. CASE q.stage \notin ArmStages \cup {"SendTrustedRootCert", "SendNoc", "NetworkSetup",
                                         "NetworkEnable", "SendComplete"}
  BY <1>1, <1>2, <1>9 DEF Devices
<1>. QED
  BY <1>3, <1>4, <1>5, <1>6, <1>7, <1>8, <1>9, Zenon

\* A refusal is a reply to anything, and CommissioningComplete is answered
\* with nothing else than success.
LEMMA ReplyKinds ==
    ASSUME NEW e \in Expectations, NEW N
    PROVE  /\ Reply("error") \in Replies(e, N) /\ Reply("error").status = "error"
           /\ \A r \in Replies(e, N) :
                r.status = "empty" => e = "NetworkCommissioningInfo"
<1>1. Reply("error") \in Plain({"malformed", "error"}) /\ Reply("error").status = "error"
  BY Zenon DEF Reply, Plain, Carrying
<1>2. \A A, C, M, T, F, L : \A r \in Carrying(A, C, M, T, F, L) : r.status \in A
  BY Zenon DEF Carrying
<1>3. \A A : \A r \in Plain(A) : r.status \in A
  BY <1>2, Zenon DEF Plain
<1>4. ASSUME NEW r \in Replies(e, N), r.status = "empty"
      PROVE  e = "NetworkCommissioningInfo"
  <2>1. SUFFICES ASSUME e # "NetworkCommissioningInfo"
                 PROVE  r.status \in {"malformed", "error", "ok"}
    BY <1>4, Zenon
  <2>2. CASE r \in Plain({"malformed", "error"})
    BY <1>3, <2>2, Zenon
  <2>3. CASE r \notin Plain({"malformed", "error"})
    <3>1. \/ r \in Carrying({"ok"}, {"genuine"}, {0}, Durations, {{}}, {0})
          \/ r \in Carrying({"ok"}, {"genuine", "other"}, {0}, {0}, {{}}, {0})
          \/ r \in Carrying({"ok"}, {"genuine", "other"}, N, {0}, {{}}, {0})
          \/ r \in Plain({"ok"})
      BY <2>1, <2>3, Zenon DEF Replies
    <3>2. r.status \in {"ok"}
      BY <1>2, <1>3, <3>1, Zenon
    <3>. QED
      BY <3>2, Zenon
  <2>. QED
    BY <2>2, <2>3, Zenon
<1>. QED
  BY <1>1, <1>4, Zenon DEF Replies
-----------------------------------------------------------------------------
\* A run starts from a machine that waits for nothing and a device without a
\* trace.
LEMMA RunInit == Init => IInv
<1> SUFFICES ASSUME Init PROVE IInv
  BY Zenon
<1>1. MachineInv(sm) /\ Quiet(sm) /\ sm.stage = "SecurePairing" /\ sm.pai = None
  BY NewIsReady, ReadyIsFine DEF Init, Ready, NewCommissioner
<1>2. device \in Devices /\ Clean(device) /\ ~device.unarmed
  BY DEF Init, Fresh, Devices, Clean
<1>3. DriverInv
  BY <1>1, Zenon DEF Init, DriverInv, Replied
<1>4. DeviceInv
  BY <1>2, Zenon DEF DeviceInv, Clean
<1>5. GenuineInv
  BY <1>1, <1>2, Zenon DEF Init, GenuineInv, Clean, Replied, None
<1>6. FailsafeInv
  BY <1>1, <1>2, Zenon DEF Init, FailsafeInv, Replied, Guarded
<1>7. CommitInv
  BY <1>1, <1>2, Zenon DEF Init, CommitInv, Clean, Replied
<1>. QED
  BY <1>3, <1>4, <1>5, <1>6, <1>7, Zenon DEF IInv

\* What went wrong stays on record.
LEMMA UpsetGrows ==
    ASSUME NEW u, NEW v, u \subseteq v
    PROVE  (Lost(u) => Lost(v)) /\ (Undone(u) => Undone(v))
BY Zenon DEF Lost, Undone

\* A failed exit of the poll loop: nothing is committed unless the driver lost
\* touch, and without PASE it did.
LEMMA ExitKeeps ==
    ASSUME IInv, Exit, reply' = NoReply, UNCHANGED device, upset \subseteq upset',
           MachineInv(sm'), sm'.network = sm.network,
           sm'.pai = "genuine" => device.genuine,
           pase' \in BOOLEAN, ~pase' => "SessionClosed" \in upset',
           device.committed => Lost(upset')
    PROVE  IInv'
<1>1. \/ pase' /\ phase' = "rollback" /\ request' = RollbackRequest /\ acted' = FALSE
      \/ ~pase' /\ phase' = "failed" /\ request' = NoRequest /\ acted' = FALSE
  BY Zenon DEF Exit, Idle, Send
<1>2. ~pase' => Lost(upset')
  BY Zenon DEF Lost
<1>3. ~Replied'
  BY <1>1, Zenon DEF Replied
<1>4. DriverInv'
  BY <1>1, <1>3, Zenon DEF DriverInv
<1>5. DeviceInv'
  BY Zenon DEF IInv, DeviceInv, Reachable, Clean
<1>6. GenuineInv'
  BY <1>3, Zenon DEF IInv, GenuineInv
<1>7. FailsafeInv'
  <2>1. Undone(upset) => Undone(upset')
    BY UpsetGrows, Zenon
  <2>2. phase' \notin {"polling", "waiting", "case"}
    BY <1>1, Zenon
  <2>. QED
    BY <1>3, <2>1, <2>2, Zenon DEF IInv, FailsafeInv
<1>8. CommitInv'
  BY <1>1, <1>2, <1>3, Zenon DEF CommitInv
<1>. QED
  BY <1>4, <1>5, <1>6, <1>7, <1>8, Zenon DEF IInv

\* poll, and what the driver starts.
LEMMA PollLoopKeeps ==
    ASSUME IInv, PollLoop
    PROVE  IInv'
<1>1. PICK o \in Poll(sm) :
         /\ sm' = o.sm
         /\ CASE o.returns.type = "Request" /\ o.returns.session = "Pase" ->
                   /\ IF pase THEN Send("waiting", o.returns) ELSE Exit
                   /\ UNCHANGED <<caseUp, signer, upset>>
              [] o.returns.type = "Request" /\ caseUp ->
                   /\ Send("waiting", o.returns)
                   /\ UNCHANGED <<caseUp, signer, upset>>
              [] o.returns.type = "EstablishCase" /\ signer ->
                   /\ Idle("case")
                   /\ signer' = FALSE
                   /\ UNCHANGED <<caseUp, upset>>
              [] o.returns.type = "Done" ->
                   /\ Idle("done")
                   /\ UNCHANGED <<caseUp, signer, upset>>
              [] OTHER ->
                   /\ Exit
                   /\ upset' = upset \cup
                        {f \in LocalFaults : o.returns = [type |-> "Error", error |-> f]}
                   /\ UNCHANGED <<caseUp, signer>>
  BY Zenon DEF PollLoop
<1>2. phase = "polling" /\ Quiet(sm) /\ request = NoRequest /\ MachineInv(sm) /\ ~acted
      /\ reply = NoReply /\ pase \in BOOLEAN /\ (~pase => "SessionClosed" \in upset)
  BY Zenon DEF PollLoop, IInv, DriverInv
<1>3. UNCHANGED <<pase, reply, device>>
  BY Zenon DEF PollLoop
<1>4. MachineInv(sm')
  BY <1>1, <1>2, PollKeeps, Zenon
<1>5. /\ Polled(sm, o)
      /\ sm'.stage = sm.stage \/ <<sm.stage, sm'.stage>> \in PollMoves
      /\ sm.stage = "Cleanup" => o.returns.type = "Done"
  BY <1>1, <1>2, PollMovesOn, Zenon DEF Quiet
<1>6. sm'.network = sm.network /\ sm'.pai = sm.pai
      /\ (o.returns.type = "Error" \/ o.returns = sm'.pending)
  BY <1>1, <1>5, Zenon DEF Polled
<1>7. /\ sm'.stage \in Guarded => sm.stage \in Guarded
      /\ sm'.stage = "Cleanup" <=> sm.stage = "Cleanup"
  BY <1>5, Zenon DEF PollMoves, Guarded
<1>8. sm.pai = "genuine" => device.genuine
  BY Zenon DEF IInv, GenuineInv
<1>9. device.committed <=> sm.stage = "Cleanup"
  BY <1>2, Zenon DEF IInv, CommitInv
<1>10. \/ Exit /\ upset \subseteq upset' /\ o.returns.type # "Done"
       \/ Send("waiting", o.returns) /\ o.returns.type = "Request" /\ upset' = upset
       \/ Idle("case") /\ o.returns.type = "EstablishCase" /\ upset' = upset
       \/ Idle("done") /\ o.returns.type = "Done" /\ upset' = upset
  BY <1>1, Zenon
<1>11. CASE Exit /\ upset \subseteq upset' /\ o.returns.type # "Done"
  <2>1. ~device.committed
    BY <1>5, <1>9, <1>11, Zenon
  <2>. QED
    BY <1>2, <1>3, <1>4, <1>6, <1>8, <1>11, <2>1, ExitKeeps, Zenon
<1>12. CASE ~Exit \/ ~(upset \subseteq upset') \/ o.returns.type = "Done"
  <2>1. /\ upset' = upset /\ acted' = FALSE
        /\ \/ phase' = "waiting" /\ request' = o.returns /\ o.returns.type = "Request"
           \/ phase' = "case" /\ request' = NoRequest /\ o.returns.type = "EstablishCase"
           \/ phase' = "done" /\ request' = NoRequest /\ o.returns.type = "Done"
    BY <1>10, <1>12, Zenon DEF Send, Idle
  <2>2. o.returns = sm'.pending
    BY <1>6, <2>1, Zenon
  <2>3. sm'.pending \in Actions
    BY <1>4, Zenon DEF MachineInv, Machines
  <2>4. /\ o.returns.type = "Request" => sm'.pending \in Requests
        /\ o.returns.type = "EstablishCase" => sm'.awaitingCase
        /\ o.returns.type = "Done" => sm'.stage = "Cleanup"
    <3>1. o.returns.type = "Request" => sm'.pending \in Requests
      BY <2>2, <2>3, NoActionType DEF Actions, None
    <3>. QED
      BY <1>4, <2>2, <3>1, Zenon DEF MachineInv, Waiting
  <2>5. ~Replied'
    BY <1>2, <1>3, Zenon DEF Replied
  <2>6. DriverInv'
    BY <1>2, <1>3, <1>4, <2>1, <2>2, <2>4, <2>5, RequestFields, Zenon DEF DriverInv
  <2>7. DeviceInv'
    BY <1>3, <1>6, Zenon DEF IInv, DeviceInv, Reachable, Clean
  <2>8. GenuineInv'
    BY <1>3, <1>6, <2>5, Zenon DEF IInv, GenuineInv
  <2>9. FailsafeInv'
    BY <1>2, <1>3, <1>7, <2>1, <2>5, Zenon DEF IInv, FailsafeInv
  <2>10. CommitInv'
    <3>1. sm.stage = "Cleanup" => phase' = "done"
      BY <1>5, <2>1, Zenon
    <3>. QED
      BY <1>3, <1>7, <1>9, <2>1, <2>4, <2>5, <3>1, Zenon DEF CommitInv
  <2>. QED
    BY <2>6, <2>7, <2>8, <2>9, <2>10, Zenon DEF IInv
<1>. QED
  BY <1>11, <1>12, Zenon

\* The reply arrives.
LEMMA TakeReplyKeeps ==
    ASSUME IInv, TakeReply
    PROVE  IInv'
<1>1. reply # NoReply /\ reply' = NoReply /\ acted /\ UNCHANGED <<pase, device, upset>>
  BY Zenon DEF TakeReply, IInv, DriverInv
<1>2. ~Replied'
  BY <1>1, Zenon DEF Replied
<1>3. CASE phase = "rollback"
  <2>1. phase' = "failed" /\ request' = NoRequest /\ acted' = FALSE /\ UNCHANGED sm
    BY <1>3, Zenon DEF TakeReply, Idle, Send
  <2>2. DriverInv'
    BY <1>1, <1>2, <2>1, Zenon DEF IInv, DriverInv
  <2>3. DeviceInv'
    BY <1>1, <2>1, Zenon DEF IInv, DeviceInv, Reachable, Clean
  <2>4. GenuineInv'
    BY <1>1, <1>2, <2>1, Zenon DEF IInv, GenuineInv
  <2>5. FailsafeInv'
    BY <1>1, <1>2, <2>1, Zenon DEF IInv, FailsafeInv
  <2>6. CommitInv'
    BY <1>1, <1>2, <1>3, <2>1, Zenon DEF IInv, CommitInv, Clean, Lost
  <2>. QED
    BY <2>2, <2>3, <2>4, <2>5, <2>6, Zenon DEF IInv
<1>4. CASE phase # "rollback"
  <2> DEFINE e == request.expect
             o == OnResponse(sm, e, reply)
             t == IF e = "NetworkCommissioningInfo" THEN reply.connectMaxTime ELSE 0
  <2>1. phase = "waiting"
    BY <1>4, Zenon DEF TakeReply
  <2>2. /\ sm' = IF o.ok /\ t > 0 THEN SetConnectMaxTime(o.sm, t) ELSE o.sm
        /\ IF o.ok THEN Idle("polling") ELSE Exit
    BY <1>4, Zenon DEF TakeReply
  <2>3. MachineInv(sm) /\ request = sm.pending /\ request \in Requests /\ Replied
    BY <1>1, <2>1, Zenon DEF IInv, DriverInv, Replied
  <2>4. /\ e \in Expectations /\ reply \in Replies(e, {request.nonce})
        /\ {request.nonce} \in SUBSET Nat
    BY <2>3, RequestFields, Zenon DEF IInv, DriverInv
  <2>5. sm.awaiting = e /\ sm.stage = request.stage /\ sm.stage \in WireStages
        /\ e = ExpectOf[sm.stage]
    BY <2>3, RequestFields, Zenon DEF MachineInv, Waiting
  <2>6. MachineInv(o.sm)
    BY <2>3, <2>4, ResponseKeeps, Zenon
  <2>7. /\ o.sm.network = sm.network
        /\ e # "PaiCertChainResponse" \/ ~o.ok => o.sm.pai = sm.pai
        /\ e = "PaiCertChainResponse" /\ o.ok => o.sm.pai = reply.cert
        /\ o.ok \in BOOLEAN
        /\ o.ok => /\ reply.status \in {"ok", "empty"} /\ o.sm.pending = NoAction
                   /\ <<sm.stage, o.sm.stage>> \in ReplyMoves
        /\ ~o.ok => o.sm.stage = "Failed"
        /\ sm.stage = "SendComplete" /\ reply.status = "ok" => o.ok
    BY <2>3, <2>4, <2>5, ResponseMoves
  <2>8. t \in Nat
    BY <2>4, ReplyTypes, Zenon
  <2> HIDE DEF o, t, e
  <2>9. /\ MachineInv(sm')
        /\ sm'.network = o.sm.network /\ sm'.pai = o.sm.pai /\ sm'.stage = o.sm.stage
        /\ sm'.pending = o.sm.pending
    <3>1. CASE o.ok /\ t > 0
      <4>1. MachineInv(SetConnectMaxTime(o.sm, t)) /\ o.sm \in Machines
        BY <2>6, <2>8, SetConnectMaxTimeKeeps, Zenon DEF MachineInv
      <4>. QED
        BY <2>2, <3>1, <4>1, Zenon DEF SetConnectMaxTime, Machines
    <3>2. CASE ~(o.ok /\ t > 0)
      BY <2>2, <2>6, <3>2, Zenon
    <3>. QED
      BY <3>1, <3>2, Zenon
  <2>10. reply.status = "empty" => e = "NetworkCommissioningInfo"
    BY <2>4, ReplyKinds, Zenon
  <2>11. sm.stage = "SendPaiCertRequest" <=> e = "PaiCertChainResponse"
    BY <2>5, WireStage, Zenon
  <2>12. sm'.pai = "genuine" => device.genuine
    <3>1. CASE e = "PaiCertChainResponse" /\ o.ok
      <4>1. reply.status = "ok" /\ request.stage = "SendPaiCertRequest" /\ sm'.pai = reply.cert
        BY <2>5, <2>7, <2>9, <2>10, <2>11, <3>1, Zenon
      <4>. QED
        BY <2>3, <4>1, Zenon DEF IInv, GenuineInv
    <3>2. CASE e # "PaiCertChainResponse" \/ ~o.ok
      BY <2>7, <2>9, <3>2, Zenon DEF IInv, GenuineInv
    <3>. QED
      BY <3>1, <3>2, Zenon
  <2>13. CASE o.ok
    <3>1. phase' = "polling" /\ request' = NoRequest /\ acted' = FALSE
      BY <2>2, <2>13, Zenon DEF Idle, Send
    <3>2. Quiet(sm')
      <4>1. sm'.pending = NoAction /\ sm'.pending.type = None /\ None # "Request"
            /\ None # "EstablishCase"
        BY <2>7, <2>9, <2>13, NoActionType, Zenon DEF NoAction, None
      <4>. QED
        BY <2>9, <4>1, Zenon DEF Quiet, MachineInv, Waiting, Machines
    <3>3. DriverInv'
      BY <1>1, <1>2, <2>9, <3>1, <3>2, Zenon DEF IInv, DriverInv
    <3>4. DeviceInv'
      BY <1>1, <2>7, <2>9, Zenon DEF IInv, DeviceInv, Reachable, Clean
    <3>5. GenuineInv'
      BY <1>1, <1>2, <2>12, Zenon DEF IInv, GenuineInv
    <3>6. <<sm.stage, sm'.stage>> \in ReplyMoves
      BY <2>7, <2>9, <2>13, Zenon
    <3>7. FailsafeInv'
      <4>1. sm'.stage \in Guarded =>
               \/ sm.stage \in Guarded /\ sm.stage # "SendComplete"
               \/ sm.stage = "ArmFailsafe"
        BY <3>6, Zenon DEF ReplyMoves, Guarded
      <4>2. sm.stage = "ArmFailsafe" => reply.status = "ok"
        BY <2>5, <2>7, <2>10, <2>13, WireStage, Zenon
      <4>. QED
        BY <1>1, <1>2, <2>1, <2>3, <3>1, <4>1, <4>2, Zenon DEF IInv, FailsafeInv
    <3>8. CommitInv'
      <4>1. sm'.stage = "Cleanup" <=> sm.stage = "SendComplete"
        BY <3>6, Zenon DEF ReplyMoves
      <4>2. sm.stage = "SendComplete" => device.committed
        <5>1. sm.stage = "SendComplete" => reply.status = "ok"
          BY <2>5, <2>7, <2>10, <2>13, WireStage, Zenon
        <5>. QED
          BY <2>3, <5>1, Zenon DEF IInv, CommitInv
      <4>3. device.committed => sm.stage = "SendComplete"
        BY <2>1, Zenon DEF IInv, CommitInv
      <4>. QED
        BY <1>1, <1>2, <3>1, <4>1, <4>2, <4>3, Zenon DEF CommitInv
    <3>. QED
      BY <3>3, <3>4, <3>5, <3>7, <3>8, Zenon DEF IInv
  <2>14. CASE ~o.ok
    <3>1. ~device.committed
      BY <2>1, <2>3, <2>7, <2>14, Zenon DEF IInv, CommitInv
    <3>2. Exit
      BY <2>2, <2>14, Zenon
    <3>. QED
      BY <1>1, <2>7, <2>9, <2>12, <3>1, <3>2, ExitKeeps, Zenon DEF IInv, DriverInv
  <2>. QED
    BY <2>7, <2>13, <2>14, Zenon
<1>. QED
  BY <1>3, <1>4, Zenon

\* A wait that ends without a reply.
LEMMA TimeoutKeeps ==
    ASSUME IInv, Timeout
    PROVE  IInv'
<1>1. reply' = NoReply /\ UNCHANGED <<sm, pase, device>> /\ upset \subseteq upset'
      /\ "Timeout" \in upset'
  BY Zenon DEF Timeout
<1>2. Lost(upset')
  BY <1>1, Zenon DEF Lost
<1>3. CASE phase # "rollback"
  BY <1>1, <1>2, <1>3, ExitKeeps DEF Timeout, IInv, DriverInv, GenuineInv
<1>4. CASE phase = "rollback"
  <2>1. phase' = "failed" /\ request' = NoRequest /\ acted' = FALSE
    BY <1>4, Zenon DEF Timeout, Idle, Send
  <2>2. ~Replied'
    BY <1>1, Zenon DEF Replied
  <2>3. DriverInv'
    BY <1>1, <2>1, <2>2, Zenon DEF IInv, DriverInv
  <2>4. DeviceInv'
    BY <1>1, Zenon DEF IInv, DeviceInv, Reachable, Clean
  <2>5. GenuineInv'
    BY <1>1, <2>2, Zenon DEF IInv, GenuineInv
  <2>6. FailsafeInv'
    BY <1>1, <2>1, <2>2, UpsetGrows, Zenon DEF IInv, FailsafeInv
  <2>7. CommitInv'
    BY <1>2, <2>1, <2>2, Zenon DEF CommitInv
  <2>. QED
    BY <2>3, <2>4, <2>5, <2>6, <2>7, Zenon DEF IInv
<1>. QED
  BY <1>3, <1>4, Zenon

\* The device closed the session.
LEMMA SessionClosedKeeps ==
    ASSUME IInv, SessionClosed
    PROVE  IInv'
<1>1. /\ Exit /\ reply' = NoReply /\ UNCHANGED <<sm, device>> /\ upset \subseteq upset'
      /\ "SessionClosed" \in upset' /\ pase' = FALSE
  BY Zenon DEF SessionClosed
<1>2. Lost(upset')
  BY <1>1, Zenon DEF Lost
<1>. QED
  BY <1>1, <1>2, ExitKeeps, Zenon DEF IInv, DriverInv, GenuineInv

\* The outcome of CASE leaves the network and the PAI alone.
LEMMA CaseMoves ==
    ASSUME NEW s, MachineInv(s), s.awaitingCase
    PROVE  /\ s.stage = "FindOperationalForComplete"
           /\ Quiet(OnCaseEstablished(s).sm)
           /\ OnCaseEstablished(s).sm.stage = "SendComplete"
           /\ OnCaseEstablished(s).sm.network = s.network
           /\ OnCaseEstablished(s).sm.pai = s.pai
           /\ OnCaseFailed(s).sm.network = s.network
           /\ OnCaseFailed(s).sm.pai = s.pai
<1> DEFINE z == [s EXCEPT !.awaitingCase = FALSE]
<1>1. s \in Machines /\ s.stage = "FindOperationalForComplete"
  BY Zenon DEF MachineInv, Waiting
<1>2. z \in Machines /\ ~z.awaitingCase /\ z.network = s.network /\ z.pai = s.pai
  BY <1>1, Zenon DEF Machines
<1>3. OnCaseFailed(s).sm = Fail(z) /\ OnCaseEstablished(s).sm = Advance(z, "SendComplete")
  BY Zenon DEF OnCaseFailed, OnCaseEstablished
<1>4. "SendComplete" \in Stages /\ "Failed" \in Stages
  BY StagesAre, Zenon
<1> HIDE DEF z
<1>. QED
  BY <1>1, <1>2, <1>3, <1>4, AdvanceFields, SMTT(30) DEF Fail, Quiet

\* CASE is established with a device that is on its network.
LEMMA EstablishCaseKeeps ==
    ASSUME IInv, EstablishCase
    PROVE  IInv'
<1>1. /\ phase = "case" /\ sm.awaitingCase /\ MachineInv(sm) /\ Reachable(device, sm)
      /\ ~acted /\ reply = NoReply
  BY Zenon DEF EstablishCase, IInv, DriverInv, Reachable
<1>2. /\ sm' = OnCaseEstablished(sm).sm /\ device' = [device EXCEPT !.Case = TRUE]
      /\ phase' = "polling" /\ request' = NoRequest /\ acted' = FALSE
      /\ UNCHANGED <<reply, pase, upset>>
  BY Zenon DEF EstablishCase, Idle, Send
<1>3. MachineInv(sm')
  BY <1>1, <1>2, CaseKeeps, Zenon
<1>4. /\ sm.stage = "FindOperationalForComplete" /\ sm'.stage = "SendComplete" /\ Quiet(sm')
      /\ sm'.network = sm.network /\ sm'.pai = sm.pai
  BY <1>1, <1>2, CaseMoves, Zenon
<1>5. /\ device' \in Devices /\ device'.genuine = device.genuine
      /\ device'.armed = device.armed /\ device'.root = device.root /\ device'.noc = device.noc
      /\ device'.staged = device.staged /\ device'.joined = device.joined
      /\ device'.committed = device.committed /\ device'.unarmed = device.unarmed
  BY <1>2, Zenon DEF IInv, DeviceInv, Devices
<1>6. ~Replied'
  BY <1>1, <1>2, Zenon DEF Replied
<1>7. DriverInv'
  BY <1>1, <1>2, <1>3, <1>4, <1>6, Zenon DEF IInv, DriverInv
<1>8. DeviceInv'
  <2>1. ~Clean(device)
    BY <1>1, Zenon DEF Clean, Reachable
  <2>. QED
    BY <1>1, <1>4, <1>5, <2>1, Zenon DEF IInv, DeviceInv, Reachable
<1>9. GenuineInv'
  BY <1>4, <1>5, <1>6, Zenon DEF IInv, GenuineInv
<1>10. FailsafeInv'
  BY <1>1, <1>2, <1>4, <1>5, <1>6, Zenon DEF IInv, FailsafeInv, Guarded
<1>11. CommitInv'
  BY <1>1, <1>2, <1>4, <1>5, <1>6, Zenon DEF IInv, CommitInv
<1>. QED
  BY <1>7, <1>8, <1>9, <1>10, <1>11, Zenon DEF IInv

\* CASE is not established.
LEMMA CaseFailedKeeps ==
    ASSUME IInv, CaseFailed
    PROVE  IInv'
<1>1. /\ phase = "case" /\ sm.awaitingCase /\ MachineInv(sm) /\ reply = NoReply
      /\ ~device.committed
  BY Zenon DEF CaseFailed, IInv, DriverInv, CommitInv
<1>2. /\ sm' = OnCaseFailed(sm).sm /\ upset \subseteq upset' /\ Exit
      /\ UNCHANGED <<reply, pase, device>>
  BY Zenon DEF CaseFailed
<1>3. MachineInv(sm')
  BY <1>1, <1>2, CaseKeeps, Zenon
<1>4. sm'.network = sm.network /\ sm'.pai = sm.pai
  BY <1>1, <1>2, CaseMoves, Zenon
<1>. QED
  BY <1>1, <1>2, <1>3, <1>4, ExitKeeps, Zenon DEF IInv, DriverInv, GenuineInv
-----------------------------------------------------------------------------
\* The device acts on a request of the machine.
LEMMA RequestActsKeeps ==
    ASSUME IInv, DeviceActs, phase = "waiting"
    PROVE  IInv'
<1>1. /\ ~acted /\ acted' = TRUE /\ Alive
      /\ UNCHANGED <<sm, phase, request, pase>>
  BY Zenon DEF DeviceActs, driverVars, IInv, DriverInv
<1>2. /\ MachineInv(sm) /\ request = sm.pending /\ request \in Requests
      /\ request.stage \in WireStages /\ request.stage # "Rollback" /\ request # NoRequest
  BY RequestFields, Zenon DEF IInv, DriverInv
<1>3. /\ sm.stage = request.stage /\ request.expect = ExpectOf[sm.stage]
      /\ request.session = IF sm.stage = "SendComplete" THEN "Case" ELSE "Pase"
  BY <1>2, RequestFields, Zenon DEF MachineInv, Waiting
<1>4. device \in Devices /\ ~device.committed /\ upset \subseteq upset'
  BY <1>1, Zenon DEF IInv, DeviceInv, CommitInv, DeviceActs
<1>5. /\ reply' # NoReply /\ reply' \in Replies(request.expect, {request.nonce})
      /\ \/ /\ reply' = Reply("error") /\ reply'.status = "error"
            /\ \/ device' = device
               \/ /\ device' = [device EXCEPT !.unarmed = TRUE]
                  /\ request.stage \in NeedsFailsafe /\ ~device.armed
         \/ /\ device' = Applied(device, request)
            /\ request.stage \in NeedsFailsafe => device.armed
            /\ reply'.status \in {"ok", "empty"}
            /\ request.stage \in ProofStages => (reply'.cert = "genuine") = device.genuine
  <2>1. request.expect \in Expectations
    BY <1>2, RequestFields, Zenon
  <2>2. Reply("error") \in Replies(request.expect, {request.nonce})
        /\ Reply("error").status = "error"
    BY <2>1, ReplyKinds, Zenon
  <2>3. NoReply.status = None /\ None \notin {"ok", "empty", "error"}
    BY Zenon DEF NoReply, None
  <2>4. \A r \in Answers(device, request) :
          /\ r \in Replies(request.expect, {request.nonce}) /\ r.status \in {"ok", "empty"}
          /\ request.stage \in ProofStages => (r.cert = "genuine") = device.genuine
    BY <1>2, Zenon DEF Answers
  <2>5. \/ /\ request.stage \in NeedsFailsafe => device.armed
           /\ device' = Applied(device, request)
           /\ reply' \in Answers(device, request)
        \/ /\ request.stage \in NeedsFailsafe /\ ~device.armed
           /\ device' = [device EXCEPT !.unarmed = TRUE]
           /\ reply' = Reply("error")
        \/ reply' = Reply("error") /\ device' = device
    BY Zenon DEF DeviceActs
  <2> HIDE DEF NoReply
  <2>. QED
    BY <2>2, <2>3, <2>4, <2>5, Zenon
<1>6. DriverInv'
  BY <1>1, <1>2, <1>4, <1>5, Zenon DEF IInv, DriverInv, Replied
<1>7. Undone(upset) => Undone(upset')
  BY <1>4, UpsetGrows, Zenon
<1>8. CASE device' = Applied(device, request) /\ reply'.status \in {"ok", "empty"}
           /\ (request.stage \in NeedsFailsafe => device.armed)
           /\ (request.stage \in ProofStages => (reply'.cert = "genuine") = device.genuine)
  <2>1. /\ device' \in Devices
        /\ device'.genuine = device.genuine /\ device'.unarmed = device.unarmed
        /\ device'.Case = device.Case
        /\ device'.root <=> device.root \/ request.stage = "SendTrustedRootCert"
        /\ device'.noc <=> IF request.stage = "SendNoc" THEN device.root ELSE device.noc
        /\ device'.staged <=> device.staged \/ request.stage = "NetworkSetup"
        /\ device'.joined <=>
             IF request.stage = "NetworkEnable" THEN device.staged ELSE device.joined
        /\ device'.committed <=> device.committed \/ request.stage = "SendComplete"
        /\ device'.armed <=>
             request.stage \in ArmStages \/ (device.armed /\ request.stage # "SendComplete")
        /\ device'.breadcrumb = device.breadcrumb \/ request.stage \in BreadcrumbStages
    BY <1>2, <1>4, <1>8, AppliedFields, SMTT(30)
  <2>2. DeviceInv'
    <3>1. device'.Case => Reachable(device', sm')
      BY <1>1, <2>1, Zenon DEF IInv, DeviceInv, Reachable
    <3>2. request.stage = "SendComplete" => device.Case
      BY <1>1, <1>3, Zenon DEF Alive
    <3>3. device'.armed \/ device'.committed \/ Clean(device')
      <4>1. SUFFICES ASSUME ~device'.armed, ~device'.committed
                     PROVE  Clean(device')
        BY Zenon
      <4>2. request.stage # "SendComplete" /\ request.stage \notin ArmStages
            /\ ~device.armed
        BY <2>1, <4>1, Zenon
      <4>3. request.stage \notin NeedsFailsafe
        BY <1>8, <4>2, Zenon
      <4>4. request.stage \notin BreadcrumbStages \cup {"SendTrustedRootCert", "SendNoc",
                                                        "NetworkSetup", "NetworkEnable"}
        BY <4>2, <4>3, Zenon DEF BreadcrumbStages, NeedsFailsafe, ArmStages
      <4>5. Clean(device)
        BY <1>4, <4>2, Zenon DEF IInv, DeviceInv
      <4>. QED
        BY <2>1, <4>1, <4>2, <4>4, <4>5, Zenon DEF Clean
    <3>4. device'.committed => Reachable(device', sm') /\ ~device'.armed
      BY <1>4, <2>1, <3>1, <3>2, Zenon DEF ArmStages
    <3>5. (device'.noc => device'.root) /\ (device'.joined => device'.staged)
      BY <2>1, Zenon DEF IInv, DeviceInv
    <3>. QED
      BY <2>1, <3>1, <3>3, <3>4, <3>5, Zenon DEF DeviceInv
  <2>3. GenuineInv'
    <3>1. request.stage = "SendTrustedRootCert" => device.genuine
      BY <1>2, <1>3, Zenon DEF IInv, GenuineInv, MachineInv, Proven, Attested, Credentialed,
                        AttestationHolds
    <3>2. request.stage = "SendPaiCertRequest" => (reply'.cert = "genuine") = device.genuine
      BY <1>8, Zenon DEF ProofStages
    <3>. QED
      BY <1>1, <2>1, <3>1, <3>2, Zenon DEF IInv, GenuineInv
  <2>4. FailsafeInv'
    <3>1. request.stage = "ArmFailsafe" => device'.armed
      BY <2>1, Zenon DEF ArmStages
    <3>2. sm.stage \in Guarded /\ sm.stage # "SendComplete" /\ device.armed => device'.armed
      BY <1>3, <2>1, Zenon
    <3>. QED
      BY <1>1, <1>3, <1>7, <2>1, <3>1, <3>2, Zenon DEF IInv, FailsafeInv
  <2>5. CommitInv'
    <3>1. sm.stage = "SendComplete" => reply'.status = "ok"
      <4>1. sm.stage = "SendComplete" => request.expect # "NetworkCommissioningInfo"
        BY <1>2, <1>3, WireStage, Zenon
      <4>2. request.expect \in Expectations
        BY <1>2, RequestFields, Zenon
      <4>. QED
        BY <1>5, <1>8, <4>1, <4>2, ReplyKinds, Zenon
    <3>. QED
      BY <1>1, <1>3, <1>4, <2>1, <3>1, Zenon DEF IInv, CommitInv
  <2>. QED
    BY <1>6, <2>2, <2>3, <2>4, <2>5, Zenon DEF IInv
<1>9. CASE /\ reply'.status = "error"
           /\ \/ device' = device
              \/ /\ device' = [device EXCEPT !.unarmed = TRUE]
                 /\ request.stage \in NeedsFailsafe /\ ~device.armed
  <2>1. /\ device' \in Devices
        /\ device'.genuine = device.genuine /\ device'.Case = device.Case
        /\ device'.armed = device.armed /\ device'.root = device.root
        /\ device'.noc = device.noc /\ device'.staged = device.staged
        /\ device'.joined = device.joined /\ device'.committed = device.committed
        /\ device'.breadcrumb = device.breadcrumb
    BY <1>4, <1>9, Zenon DEF Devices
  <2>2. DeviceInv'
    BY <1>1, <2>1, Zenon DEF IInv, DeviceInv, Reachable, Clean
  <2>3. GenuineInv'
    BY <1>1, <1>9, <2>1, Zenon DEF IInv, GenuineInv
  <2>4. FailsafeInv'
    <3>1. request.stage \in NeedsFailsafe => request.stage \in Guarded
      BY Zenon DEF NeedsFailsafe, Guarded
    <3>2. Undone(upset) \/ device' = device
      BY <1>1, <1>3, <1>9, <3>1, Zenon DEF IInv, FailsafeInv
    <3>. QED
      BY <1>1, <1>7, <1>9, <3>2, Zenon DEF IInv, FailsafeInv
  <2>5. CommitInv'
    BY <1>1, <1>4, <1>9, <2>1, Zenon DEF IInv, CommitInv
  <2>. QED
    BY <1>6, <2>2, <2>3, <2>4, <2>5, Zenon DEF IInv
<1>. QED
  BY <1>5, <1>8, <1>9, Zenon

\* The device acts on the rollback: it undoes the run, or has nothing to undo.
LEMMA RollbackActsKeeps ==
    ASSUME IInv, DeviceActs, phase # "waiting"
    PROVE  IInv'
<1>1. /\ acted' = TRUE /\ UNCHANGED <<sm, phase, request, pase>> /\ request # NoRequest
  BY Zenon DEF DeviceActs, driverVars
<1>2. phase = "rollback" /\ request = RollbackRequest /\ request.stage = "Rollback"
  BY <1>1, RequestFields, Zenon DEF IInv, DriverInv
<1>3. device' = IF device.armed THEN Reverted(device) ELSE device
  <2>1. Applied(device, request) = IF device.armed THEN Reverted(device) ELSE device
    BY <1>2, Zenon DEF Applied, ArmStages
  <2>2. request.stage \notin NeedsFailsafe
    BY <1>2, Zenon DEF NeedsFailsafe
  <2>3. device' = Applied(device, request)
    BY <1>2, <2>2, Zenon DEF DeviceActs
  <2>. QED
    BY <2>1, <2>3, Zenon
<1>4. upset \subseteq upset'
  BY Zenon DEF DeviceActs
<1>5. /\ Reverted(device) \in Devices /\ Clean(Reverted(device))
      /\ Reverted(device).genuine = device.genuine /\ Reverted(device).unarmed = device.unarmed
      /\ device \in Devices
  BY RevertedFields, Zenon DEF IInv, DeviceInv
<1>6. ~Replied'
  BY <1>1, <1>2, Zenon DEF Replied
<1>7. DriverInv'
  BY <1>1, <1>2, <1>4, <1>6, RequestFields, Zenon DEF IInv, DriverInv
<1>8. DeviceInv'
  BY <1>1, <1>3, <1>5, Zenon DEF IInv, DeviceInv, Clean, Reachable
<1>9. GenuineInv'
  BY <1>1, <1>3, <1>5, <1>6, Zenon DEF IInv, GenuineInv, Clean
<1>10. FailsafeInv'
  BY <1>1, <1>2, <1>3, <1>4, <1>5, <1>6, UpsetGrows, Zenon DEF IInv, FailsafeInv
<1>11. CommitInv'
  <2>1. Lost(upset) => Lost(upset')
    BY <1>4, UpsetGrows, Zenon
  <2>2. device.committed => Lost(upset)
    BY <1>2, Zenon DEF IInv, CommitInv
  <2>3. Clean(device') \/ device.committed
    BY <1>3, <1>5, Zenon DEF IInv, DeviceInv
  <2>. QED
    BY <1>1, <1>2, <1>6, <2>1, <2>2, <2>3, Zenon DEF CommitInv, Clean
<1>. QED
  BY <1>7, <1>8, <1>9, <1>10, <1>11, Zenon DEF IInv

\* An acknowledgement, or the loss of a reply, is nothing to the device.
LEMMA NetworkKeeps ==
    ASSUME IInv, UNCHANGED <<sm, phase, request, pase, acted, device>>,
           reply' \in {reply, NoReply}, upset \subseteq upset'
    PROVE  IInv'
<1>1. Replied' => Replied /\ reply' = reply
  BY Zenon DEF Replied
<1>2. /\ Undone(upset) => Undone(upset')
      /\ Lost(upset) => Lost(upset')
  BY UpsetGrows, Zenon
<1>3. DriverInv'
  BY <1>1, Zenon DEF IInv, DriverInv
<1>4. DeviceInv'
  BY Zenon DEF IInv, DeviceInv, Reachable, Clean
<1>5. GenuineInv'
  BY <1>1, Zenon DEF IInv, GenuineInv
<1>6. FailsafeInv'
  BY <1>1, <1>2, Zenon DEF IInv, FailsafeInv
<1>7. CommitInv'
  BY <1>1, <1>2, Zenon DEF IInv, CommitInv, Clean
<1>. QED
  BY <1>3, <1>4, <1>5, <1>6, <1>7, Zenon DEF IInv

\* The fail-safe lapses, or the device restarts before it is committed.
LEMMA RevertKeeps ==
    ASSUME IInv, UNCHANGED <<sm, phase, request, pase, acted>>,
           ~device.committed, device' = Reverted(device),
           reply' \in {reply, NoReply}, upset \subseteq upset', Undone(upset')
    PROVE  IInv'
<1>1. Replied' => Replied /\ reply' = reply
  BY Zenon DEF Replied
<1>2. /\ device' \in Devices /\ Clean(device') /\ device'.genuine = device.genuine
  BY RevertedFields, Zenon DEF IInv, DeviceInv
<1>3. DriverInv'
  BY <1>1, Zenon DEF IInv, DriverInv
<1>4. DeviceInv'
  BY <1>2, Zenon DEF DeviceInv, Clean
<1>5. GenuineInv'
  BY <1>1, <1>2, Zenon DEF IInv, GenuineInv, Clean
<1>6. FailsafeInv'
  BY Zenon DEF FailsafeInv
<1>7. CommitInv'
  BY <1>1, <1>2, Zenon DEF IInv, CommitInv, Clean
<1>. QED
  BY <1>3, <1>4, <1>5, <1>6, <1>7, Zenon DEF IInv

\* The device restarts after it was committed: it stays on the fabric.
LEMMA RebootKeeps ==
    ASSUME IInv, Reboot
    PROVE  IInv'
<1>1. /\ UNCHANGED <<sm, phase, request, pase, acted>> /\ reply' = NoReply
      /\ upset \subseteq upset' /\ Undone(upset')
  BY Zenon DEF Reboot, driverVars, Undone
<1>2. CASE ~device.committed
  BY <1>1, <1>2, RevertKeeps, Zenon DEF Reboot
<1>3. CASE device.committed
  <2>1. device' = [device EXCEPT !.Pase = FALSE, !.Case = FALSE]
    BY <1>3, Zenon DEF Reboot
  <2>2. /\ device' \in Devices /\ ~device'.Case /\ device'.genuine = device.genuine
        /\ device'.armed = device.armed /\ device'.root = device.root
        /\ device'.noc = device.noc /\ device'.staged = device.staged
        /\ device'.joined = device.joined /\ device'.committed
    BY <1>3, <2>1, Zenon DEF IInv, DeviceInv, Devices
  <2>3. ~Replied' /\ (Lost(upset) => Lost(upset'))
    BY <1>1, UpsetGrows, Zenon DEF Replied
  <2>4. DriverInv'
    BY <1>1, <2>3, Zenon DEF IInv, DriverInv
  <2>5. DeviceInv'
    BY <1>1, <1>3, <2>2, Zenon DEF IInv, DeviceInv, Reachable
  <2>6. GenuineInv'
    BY <1>1, <2>2, <2>3, Zenon DEF IInv, GenuineInv
  <2>7. FailsafeInv'
    BY <1>1, Zenon DEF FailsafeInv
  <2>8. CommitInv'
    BY <1>1, <1>3, <2>2, <2>3, Zenon DEF IInv, CommitInv
  <2>. QED
    BY <2>4, <2>5, <2>6, <2>7, <2>8, Zenon DEF IInv
<1>. QED
  BY <1>2, <1>3, Zenon

\* Every step of the run keeps the invariant.
LEMMA StepKeeps ==
    ASSUME IInv, [Next]_vars
    PROVE  IInv'
<1>1. CASE PollLoop
  BY <1>1, PollLoopKeeps, Zenon
<1>2. CASE TakeReply
  BY <1>2, TakeReplyKeeps, Zenon
<1>3. CASE Timeout
  BY <1>3, TimeoutKeeps, Zenon
<1>4. CASE SessionClosed
  BY <1>4, SessionClosedKeeps, Zenon
<1>5. CASE EstablishCase
  BY <1>5, EstablishCaseKeeps, Zenon
<1>6. CASE CaseFailed
  BY <1>6, CaseFailedKeeps, Zenon
<1>7. CASE DeviceActs
  BY <1>7, RequestActsKeeps, RollbackActsKeeps, Zenon
<1>8. CASE DeviceAcks
  BY <1>8, NetworkKeeps, Zenon DEF DeviceAcks
<1>9. CASE ReplyLost
  BY <1>9, NetworkKeeps, Zenon DEF ReplyLost, driverVars
<1>10. CASE Lapse
  <2>1. Undone(upset') /\ upset \subseteq upset'
    BY <1>10, Zenon DEF Lapse, Undone
  <2>2. ~device.committed
    BY <1>10, Zenon DEF Lapse, IInv, DeviceInv
  <2>. QED
    BY <1>10, <2>1, <2>2, RevertKeeps, Zenon DEF Lapse, driverVars
<1>11. CASE Reboot
  BY <1>11, RebootKeeps, Zenon
<1>12. CASE UNCHANGED vars
  BY <1>12, NetworkKeeps, Zenon DEF vars, driverVars
<1>. QED
  BY <1>1, <1>2, <1>3, <1>4, <1>5, <1>6, <1>7, <1>8, <1>9, <1>10, <1>11, <1>12, Zenon DEF Next

\* The invariant of a run.
LEMMA RunIsSound == Spec => []IInv
<1>1. Init => IInv
  BY RunInit, Zenon
<1>2. IInv /\ [Next]_vars => IInv'
  BY StepKeeps, Zenon
<1>. QED
  BY <1>1, <1>2, PTL DEF Spec
-----------------------------------------------------------------------------
\* Done is what run_commission returns after CommissioningComplete: the device
\* is on the fabric for good, and on the network it was given.
THEOREM RunEndsCommissioned == Spec => []DoneMeansCommissioned
<1>1. IInv => DoneMeansCommissioned
  BY Zenon DEF IInv, DriverInv, DeviceInv, CommitInv, Reachable, DoneMeansCommissioned
<1>. QED
  BY <1>1, RunIsSound, PTL

\* The driver's attestation checks stand between any device and a certificate
\* of the fabric.
THEOREM RunTrustsGenuineDevices == Spec => []OnlyGenuineDevices
<1>1. IInv => OnlyGenuineDevices
  BY Zenon DEF IInv, DeviceInv, GenuineInv, OnlyGenuineDevices
<1>. QED
  BY <1>1, RunIsSound, PTL

\* No command of the driver meets a device whose fail-safe was never armed.
THEOREM RunArmsFirst == Spec => []AlwaysUnderFailsafe
<1>1. IInv => AlwaysUnderFailsafe
  BY Zenon DEF IInv, FailsafeInv, Undone, AlwaysUnderFailsafe
<1>. QED
  BY <1>1, RunIsSound, PTL

\* Nothing but what it is, its PASE session and a refusal tells clean devices
\* apart.
LEMMA CleanIsFresh ==
    ASSUME NEW d \in Devices, NEW x \in Devices, Clean(d), Clean(x),
           x.genuine = d.genuine, x.Pase = d.Pase, x.unarmed = d.unarmed
    PROVE  d = x
<1>1. \A y \in Devices :
        y = [genuine |-> y.genuine, Pase |-> y.Pase, Case |-> y.Case, armed |-> y.armed,
             root |-> y.root, noc |-> y.noc, staged |-> y.staged, joined |-> y.joined,
             committed |-> y.committed, breadcrumb |-> y.breadcrumb, unarmed |-> y.unarmed]
  BY DEF Devices
<1>2. /\ x.Case = d.Case /\ x.armed = d.armed /\ x.root = d.root /\ x.noc = d.noc
      /\ x.staged = d.staged /\ x.joined = d.joined /\ x.committed = d.committed
      /\ x.breadcrumb = d.breadcrumb
  BY Zenon DEF Devices, Clean
<1>. QED
  BY <1>1, <1>2, Zenon

\* disarm_on_exit and rollback leave no trace of a failed run the driver could
\* still reach.
THEOREM RunUndoesFailure == Spec => []FailedRunIsUndone
<1>1. ASSUME IInv, phase = "failed",
             upset \cap {"Timeout", "SessionClosed", "ReplyLost"} = {}
      PROVE  device = [Reverted(device) EXCEPT !.Pase = device.Pase]
  <2>1. Clean(device) /\ device \in Devices
    BY <1>1, Zenon DEF IInv, CommitInv, DeviceInv, Lost
  <2> DEFINE x == [Reverted(device) EXCEPT !.Pase = device.Pase]
  <2>2. /\ x \in Devices
        /\ x.genuine = device.genuine /\ x.Pase = device.Pase
        /\ x.unarmed = device.unarmed /\ Clean(x)
    BY <2>1, Zenon DEF Clean, Devices, Reverted, Fresh
  <2> HIDE DEF x
  <2>3. device = x
    BY <2>1, <2>2, CleanIsFresh, Zenon
  <2>. QED
    BY <2>3, Zenon DEF x
<1>2. IInv => FailedRunIsUndone
  BY <1>1, Zenon DEF FailedRunIsUndone
<1>. QED
  BY <1>2, RunIsSound, PTL
=============================================================================
