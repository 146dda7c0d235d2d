--------------------------- MODULE Commissioning ----------------------------
(***************************************************************************)
(* A commissioning run: the driver (matter-commissioning,                  *)
(* driver/commission.rs, run_commission and run_poll_loop) steps the       *)
(* Commissioner, carries its requests to a device over the PASE and CASE   *)
(* sessions, and rolls the device back when the run fails.                 *)
(*                                                                         *)
(* The device is not in the repository.  It is modelled by what the driver *)
(* relies on: a fail-safe that must be armed for anything to be changed,   *)
(* that undoes every change when it lapses or is disarmed, and that        *)
(* CommissioningComplete makes permanent.  The sessions are those of       *)
(* module SecureSession: a request is acted on at most once; it is         *)
(* acknowledged on its own or by its reply; without either, the            *)
(* retransmissions run out.                                                *)
(***************************************************************************)
EXTENDS Commissioner

CONSTANTS
    Reliabilities, \* of the PASE transport: "Mrp" or "TransportProvides" (BLE)
    Faults         \* what may go wrong: "Loss", "Lapse", "Reboot", "Reject"

ASSUME ReliabilitiesAssumption == Reliabilities \subseteq {"Mrp", "TransportProvides"}
ASSUME RunFaultsAssumption == Faults \subseteq {"Loss", "Lapse", "Reboot", "Reject"}

VARIABLES
    sm,         \* the Commissioner
    reliability,\* of the transport PASE runs over, fixed for the run
    phase,      \* where run_commission is
    request,    \* the request the driver awaits the reply to
    acked,      \* whether its acknowledgement reached the driver
    acted,      \* whether the device has acted on it
    reply,      \* the device's reply on its way
    pase,       \* the driver still has the PASE session
    caseUp,     \* case_slot is filled
    signer,     \* commissioner_signer is still there to take
    device,     \* the device
    upset       \* history: what went wrong so far

driverVars == <<sm, reliability, phase, request, acked, pase, caseUp, signer>>
vars == <<driverVars, acted, reply, device, upset>>

NoRequest == [stage |-> None]
NoReply == [status |-> None]

\* rollback: ArmFailSafe(0) over PASE.
RollbackRequest == [stage |-> "Rollback", session |-> "Pase", seconds |-> 0]

\* A device that is not commissioned; a genuine one proves what it is.
Fresh(genuine) ==
    [genuine |-> genuine, Pase |-> TRUE, Case |-> FALSE, armed |-> FALSE, root |-> FALSE,
     noc |-> FALSE, staged |-> FALSE, joined |-> FALSE, committed |-> FALSE,
     breadcrumb |-> 0, unarmed |-> FALSE]

Init ==
    /\ \E network \in Networks : sm = NewCommissioner(network)
    /\ reliability \in Reliabilities
    /\ phase = "polling"
    /\ request = NoRequest
    /\ acked = FALSE
    /\ acted = FALSE
    /\ reply = NoReply
    /\ pase = TRUE
    /\ caseUp = FALSE
    /\ signer = TRUE
    /\ \E genuine \in BOOLEAN : device = Fresh(genuine)
    /\ upset = {}

\* The fail-safe is gone and takes every change with it, the PASE session too.
Reverted(d) == [Fresh(d.genuine) EXCEPT !.Pase = FALSE, !.unarmed = d.unarmed]
-----------------------------------------------------------------------------
\* The driver sends a request and waits for its reply.
Send(next, q) ==
    /\ phase' = next
    /\ request' = q
    /\ acked' = FALSE
    /\ acted' = FALSE
    /\ UNCHANGED reliability

\* The driver waits for no reply.
Idle(next) == Send(next, NoRequest)

\* A failed exit of run_poll_loop that leaves the device to its fail-safe.
ExitWithoutDisarm == Idle("failed")

\* A failed exit of run_poll_loop: disarm_on_exit, then rollback over PASE,
\* which is encoded only while the session is there.
Exit == IF pase' THEN Send("rollback", RollbackRequest) ELSE Idle("failed")

\* run_poll_loop: poll, and start what it asks for.
PollLoop ==
    /\ phase = "polling"
    /\ UNCHANGED pase
    /\ \E o \in Poll(sm) :
         /\ sm' = o.sm
         /\ CASE o.returns.type = "Request" /\ o.returns.session = "Pase" ->
                   /\ IF pase THEN Send("waiting", o.returns) ELSE Exit
                   /\ UNCHANGED <<caseUp, signer, upset>>
              [] o.returns.type = "Request" /\ caseUp ->
                   /\ Send("waiting", o.returns)
                   /\ UNCHANGED <<caseUp, signer, upset>>
              [] o.returns.type = "EstablishCase" /\ signer ->
                   /\ Idle("case")
                   /\ signer' = FALSE
                   /\ UNCHANGED <<caseUp, upset>>
              [] o.returns.type = "Done" ->
                   /\ Idle("done")
                   /\ UNCHANGED <<caseUp, signer, upset>>
              [] OTHER ->
                   /\ Exit
                   /\ upset' = upset \cup
                        {f \in LocalFaults : o.returns = [type |-> "Error", error |-> f]}
                   /\ UNCHANGED <<caseUp, signer>>
    /\ UNCHANGED <<reply, device>>

\* The reply arrives: dispatch_invoke or dispatch_read returns, the machine
\* takes it, and ConnectMaxTimeSeconds is set beside the network read.  The
\* reply of a rollback ends the run.
TakeReply ==
    /\ phase \in {"waiting", "rollback"}
    /\ reply # NoReply
    /\ reply' = NoReply
    /\ UNCHANGED pase
    /\ IF phase = "rollback"
       THEN Idle("failed") /\ UNCHANGED sm
       ELSE LET o == OnResponse(sm, request.expect, reply)
                t == IF request.expect = "NetworkCommissioningInfo"
                     THEN reply.connectMaxTime ELSE 0
            IN  /\ sm' = IF o.ok /\ t > 0 THEN SetConnectMaxTime(o.sm, t) ELSE o.sm
                /\ IF o.ok THEN Idle("polling") ELSE Exit
    /\ UNCHANGED <<caseUp, signer, device, upset>>

\* with_response_deadline that trusts the reliable transport.
DeadlineNever == FALSE

\* with_response_deadline: only PASE over BLE has a deadline of its own.
Deadline == reliability = "TransportProvides" /\ request.session = "Pase"

Alive == device[request.session]

\* MRP's budget runs out for want of an acknowledgement, or the deadline
\* fires; both are DriverError::Timeout.
Timeout ==
    /\ phase \in {"waiting", "rollback"}
    /\ "Loss" \in Faults \/ ~Alive
    /\ ~acked \/ Deadline
    /\ reply' = NoReply
    /\ upset' = upset \cup {"Timeout"}
    /\ UNCHANGED pase
    /\ IF phase = "rollback"
       THEN Idle("failed")
       ELSE Exit
    /\ UNCHANGED <<sm, caseUp, signer, device>>

\* The device says CloseSession on the PASE session it gave up:
\* take_close_session removes ours, and the round trip that waits on it fails.
\* A CloseSession on the CASE session ends its round trip the way Timeout does.
SessionClosed ==
    /\ phase \in {"waiting", "rollback"}
    /\ request.session = "Pase"
    /\ ~device.Pase
    /\ pase' = FALSE
    /\ reply' = NoReply
    /\ upset' = upset \cup {"SessionClosed"}
    /\ Exit
    /\ UNCHANGED <<sm, caseUp, signer, device>>

\* establish_case_session finds the device on its network and completes CASE.
EstablishCase ==
    /\ phase = "case"
    /\ device.noc
    /\ sm.network = "AlreadyOnNetwork" \/ device.joined
    /\ sm' = OnCaseEstablished(sm).sm
    /\ caseUp' = TRUE
    /\ device' = [device EXCEPT !.Case = TRUE]
    /\ Idle("polling")
    /\ UNCHANGED <<reply, pase, signer, upset>>

\* It does not: on_response(CaseFailed) fails the machine and the run.
CaseFailed ==
    /\ phase = "case"
    /\ "Loss" \in Faults \/ ~device.noc
    /\ sm' = OnCaseFailed(sm).sm
    /\ upset' = upset \cup {"CaseFailed"}
    /\ UNCHANGED pase
    /\ Exit
    /\ UNCHANGED <<reply, caseUp, signer, device>>
-----------------------------------------------------------------------------
\* The stages whose command the device takes only under its fail-safe.
NeedsFailsafe == {"ConfigRegulatory", "SendTrustedRootCert", "SendNoc", "NetworkSetup",
                  "NetworkEnable", "SendComplete"}

\* The stages whose reply proves what the device is.
ProofStages == {"SendPaiCertRequest", "SendDacCertRequest", "SendAttestationRequest"}

\* The device acts on command q.
Applied(d, q) ==
    LET crumb == IF q.stage \in BreadcrumbStages THEN q.breadcrumb ELSE d.breadcrumb
    IN  CASE q.stage = "Rollback" -> IF d.armed THEN Reverted(d) ELSE d
          [] q.stage \in ArmStages -> [d EXCEPT !.armed = TRUE, !.breadcrumb = crumb]
          [] q.stage = "SendTrustedRootCert" -> [d EXCEPT !.root = TRUE]
          [] q.stage = "SendNoc" -> [d EXCEPT !.noc = d.root]
          [] q.stage = "NetworkSetup" -> [d EXCEPT !.staged = TRUE, !.breadcrumb = crumb]
          [] q.stage = "NetworkEnable" -> [d EXCEPT !.joined = d.staged, !.breadcrumb = crumb]
          [] q.stage = "SendComplete" ->
               [d EXCEPT !.committed = TRUE, !.armed = FALSE, !.Pase = FALSE]
          [] OTHER -> [d EXCEPT !.breadcrumb = crumb]

\* Its replies: it echoes the nonce and signs as what it is.
Answers(d, q) ==
    IF q.stage = "Rollback" THEN {Reply("ok")}
    ELSE {r \in Replies(q.expect, {q.nonce}) :
            /\ r.status \in {"ok", "empty"}
            /\ q.stage \in ProofStages => (r.cert = "genuine") = d.genuine}

\* Whether the machine can go on with reply r: the CSR is signed, the network
\* is one the device has.
Usable(q, r) ==
    /\ q.stage = "SendOpCertSigningRequest" => r.cert = "genuine"
    /\ q.stage = "ReadNetworkCommissioningInfo" => NetworkRoute(sm, r) # None

\* The device acts on the request once and replies, or refuses it.
DeviceActs ==
    /\ request # NoRequest
    /\ ~acted
    /\ Alive
    /\ acted' = TRUE
    /\ \/ /\ request.stage \in NeedsFailsafe => device.armed
          /\ device' = Applied(device, request)
          /\ \E r \in Answers(device, request) :
               /\ Usable(request, r) \/ "Reject" \in Faults
               /\ reply' = r
               /\ upset' = IF Usable(request, r) THEN upset ELSE upset \cup {"Reject"}
       \/ /\ request.stage \in NeedsFailsafe /\ ~device.armed
          /\ device' = [device EXCEPT !.unarmed = TRUE]
          /\ reply' = Reply("error")
          /\ UNCHANGED upset
       \/ /\ "Reject" \in Faults
          /\ request.stage # "Rollback"
          /\ reply' = Reply("error")
          /\ upset' = upset \cup {"Reject"}
          /\ UNCHANGED device
    /\ UNCHANGED driverVars

\* The device acknowledges the request by itself, ahead of its reply.
DeviceAcks ==
    /\ acted
    /\ ~acked
    /\ Alive
    /\ acked' = TRUE
    /\ UNCHANGED <<sm, reliability, phase, request, pase, caseUp, signer, acted, reply,
                   device, upset>>

\* The reply never gets through: the device's own retransmissions run out.
ReplyLost ==
    /\ "Loss" \in Faults
    /\ reply # NoReply
    /\ reply' = NoReply
    /\ upset' = upset \cup {"ReplyLost"}
    /\ UNCHANGED <<driverVars, acted, device>>

\* The fail-safe's timer runs out.
Lapse ==
    /\ device.armed
    /\ "Lapse" \in Faults \/ phase = "failed"
    /\ device' = Reverted(device)
    /\ upset' = upset \cup {"Lapse"}
    /\ UNCHANGED <<driverVars, acted, reply>>

\* The device restarts, once: sessions, replies and uncommitted changes go.
Reboot ==
    /\ "Reboot" \in Faults
    /\ "Reboot" \notin upset
    /\ device' = IF device.committed THEN [device EXCEPT !.Pase = FALSE, !.Case = FALSE]
                 ELSE Reverted(device)
    /\ reply' = NoReply
    /\ upset' = upset \cup {"Reboot"}
    /\ UNCHANGED <<driverVars, acted>>

Next ==
    \/ PollLoop
    \/ TakeReply
    \/ Timeout
    \/ SessionClosed
    \/ EstablishCase
    \/ CaseFailed
    \/ DeviceActs
    \/ DeviceAcks
    \/ ReplyLost
    \/ Lapse
    \/ Reboot
    \/ phase \in {"done", "failed"} /\ UNCHANGED vars

Spec == Init /\ [][Next]_vars

\* The driver's task is polled until it returns, MRP's and the deadline's timers
\* fire, and a device that is up acts on what reaches it.
FairSpec ==
    /\ Spec
    /\ WF_vars(PollLoop)
    /\ WF_vars(TakeReply)
    /\ WF_vars(Timeout)
    /\ WF_vars(EstablishCase \/ CaseFailed)
    /\ WF_vars(DeviceActs)
-----------------------------------------------------------------------------
Over == phase \in {"done", "failed"}

\* The driver is in one of its phases, and waits exactly while it has a request
\* out.
TypeOK ==
    /\ phase \in {"polling", "waiting", "case", "rollback", "done", "failed"}
    /\ phase \in {"waiting", "rollback"} <=> request # NoRequest
    /\ acked => acted
    /\ upset \subseteq LocalFaults \cup {"Timeout", "SessionClosed", "CaseFailed", "Reject",
                                        "ReplyLost", "Lapse", "Reboot"}

\* A run that reports success has left the device on the fabric for good, and
\* on the network it was given, whatever was lost or restarted on the way.
DoneMeansCommissioned ==
    phase = "done" =>
      /\ device.committed /\ device.noc
      /\ device.joined \/ sm.network = "AlreadyOnNetwork"

\* No certificate of the fabric is ever on a device that could not prove it is
\* genuine.
OnlyGenuineDevices == device.root \/ device.noc => device.genuine

\* The driver asks for nothing that needs the fail-safe before it is armed: a
\* device refuses for that reason only after the fail-safe lapsed.
AlwaysUnderFailsafe == device.unarmed => upset \cap {"Lapse", "Reboot"} # {}

\* A failed run that could still talk to the device has put it back as it was
\* before it returns.
FailedRunIsUndone ==
    phase = "failed" /\ upset \cap {"Timeout", "SessionClosed", "ReplyLost"} = {} =>
      device = [Reverted(device) EXCEPT !.Pase = device.Pase]

\* A genuine device is commissioned if nothing goes wrong: neither the replies
\* it may give nor the network it is to join lead the machine astray.
Commissions == device.genuine /\ [](upset = {}) => <>(phase = "done")

\* "Under TransportProvides MRP is off and nothing at the exchange layer times
\* out, so the future is wrapped in a timeout" (commission.rs): no request over
\* PASE waits for ever.
PaseRequestsEnd ==
    reliability = "TransportProvides" /\ phase = "waiting" /\ request.session = "Pase"
      ~> phase # "waiting"
=============================================================================
