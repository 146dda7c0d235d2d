---------------------------- MODULE Commissioner ----------------------------
(***************************************************************************)
(* The commissioning state machine (matter-commissioning,                  *)
(* state_machine/commissioner.rs, struct Commissioner).  The machine is a  *)
(* record and each call of its interface a function of it: poll has a set  *)
(* of outcomes, for local operations may fail; the other calls have one.   *)
(* Module CommissionerSpec lets any caller make them, module Commissioning *)
(* the driver.                                                             *)
(*                                                                         *)
(* Payloads are what the decoders of the code tell apart: whether a reply  *)
(* decodes, its status, and the few values that steer the machine.         *)
(***************************************************************************)
EXTENDS Integers

CONSTANTS
    Networks,     \* the NetworkCredentials: "WiFi", "Thread", "AlreadyOnNetwork"
    LocalFaults,  \* the local operations that may fail: "Rng", "CertBuild", "IssueNoc"
    Durations     \* bound: the seconds a device may report, 0 for "not reported"

ASSUME NetworksAssumption == Networks \subseteq {"WiFi", "Thread", "AlreadyOnNetwork"}
ASSUME FaultsAssumption == LocalFaults \subseteq {"Rng", "CertBuild", "IssueNoc"}
ASSUME DurationsAssumption == Durations \subseteq Nat /\ 0 \in Durations

None == "None"

\* The action of a stage that takes no request, and no action at all.
Bare(type) == [type |-> type]
NoAction == Bare(None)
NoEvidence == [cert |-> None, nonce |-> 0]

\* enum Stage, in the order of next_stage.
StageOrder == <<
    "SecurePairing", "ReadCommissioningInfo", "ArmFailsafe", "ConfigRegulatory",
    "SendPaiCertRequest", "SendDacCertRequest", "SendAttestationRequest",
    "AttestationVerification", "SendOpCertSigningRequest", "ValidateCsr",
    "GenerateNocChain", "SendTrustedRootCert", "SendNoc",
    "ReadNetworkCommissioningInfo", "NetworkSetup", "FailsafeBeforeNetworkEnable",
    "NetworkEnable", "EvictPreviousCaseSessions", "FindOperationalForComplete",
    "SendComplete", "Cleanup", "Failed">>

Stages == {StageOrder[i] : i \in 1 .. 22}

\* The Expectation each stage that talks to the device waits for.
ExpectOf ==
    [ReadCommissioningInfo        |-> "CommissioningInfo",
     ArmFailsafe                  |-> "ArmFailsafeResponse",
     ConfigRegulatory             |-> "SetRegulatoryConfigResponse",
     SendPaiCertRequest           |-> "PaiCertChainResponse",
     SendDacCertRequest           |-> "DacCertChainResponse",
     SendAttestationRequest       |-> "AttestationResponse",
     SendOpCertSigningRequest     |-> "CsrResponse",
     SendTrustedRootCert          |-> "AddTrustedRootResponse",
     SendNoc                      |-> "NocResponse",
     ReadNetworkCommissioningInfo |-> "NetworkCommissioningInfo",
     NetworkSetup                 |-> "NetworkConfigResponse",
     FailsafeBeforeNetworkEnable  |-> "ArmFailsafeResponse",
     NetworkEnable                |-> "ConnectNetworkResponse",
     SendComplete                 |-> "CommissioningCompleteResponse"]

WireStages == DOMAIN ExpectOf
Expectations == {ExpectOf[st] : st \in WireStages}
NonceStages == {"SendAttestationRequest", "SendOpCertSigningRequest"}
BreadcrumbStages == {"ArmFailsafe", "ConfigRegulatory", "NetworkSetup",
                     "FailsafeBeforeNetworkEnable", "NetworkEnable"}
ArmStages == {"ArmFailsafe", "FailsafeBeforeNetworkEnable"}

\* The stages in which the device is given, or has, the fabric's credentials.
Credentialed == {"SendTrustedRootCert", "SendNoc", "ReadNetworkCommissioningInfo",
                 "NetworkSetup", "FailsafeBeforeNetworkEnable", "NetworkEnable",
                 "EvictPreviousCaseSessions", "FindOperationalForComplete",
                 "SendComplete", "Cleanup"}

DefaultFailsafeSeconds == 60
DefaultConnectMaxTimeSeconds == 90

\* Commissioner::new of a valid configuration.  cert slots hold None or whether
\* what the device sent is genuine; drawn counts the nonces drawn so far, so
\* that no two are equal.
NewCommissioner(network) ==
    [stage          |-> "SecurePairing",
     network        |-> network,
     pai            |-> None,
     dac            |-> None,
     attNonce       |-> 0,
     attestation    |-> NoEvidence,
     csrNonce       |-> 0,
     csr            |-> NoEvidence,
     verifiedCsr    |-> FALSE,
     issuedNoc      |-> FALSE,
     failsafe       |-> DefaultFailsafeSeconds,
     connectMaxTime |-> 0,
     breadcrumb     |-> 1,
     drawn          |-> 0,
     awaitingCase   |-> FALSE,
     awaiting       |-> None,
     pending        |-> NoAction]

\* advance.
Advance(s, next) == [s EXCEPT !.stage = next, !.awaiting = None, !.pending = NoAction]

\* The transition into Failed that poll and on_response share.
Fail(s) == Advance(s, "Failed")

\* network_enable_failsafe_seconds.
NetworkEnableFailsafeSeconds(s) ==
    IF s.connectMaxTime > 0 THEN s.connectMaxTime ELSE DefaultConnectMaxTimeSeconds

ArmSeconds(s) ==
    CASE s.stage = "FailsafeBeforeNetworkEnable" -> NetworkEnableFailsafeSeconds(s)
      [] s.stage = "ArmFailsafe" -> s.failsafe
      [] OTHER -> 0
-----------------------------------------------------------------------------
\* The outcomes of dispatch_stage: the machine and what poll returns.  Poll
\* caches an action it returns.
Ok(s, action) == {[sm |-> [s EXCEPT !.pending = action], returns |-> action]}
Err(s, error) == {[sm |-> s, returns |-> [type |-> "Error", error |-> error]]}
MayErr(s, fault) == IF fault \in LocalFaults THEN Err(s, fault) ELSE {}

\* The request of wire stage s.stage, and the machine once it is built.
Ask(s) ==
    LET crumb == s.stage \in BreadcrumbStages
        nonce == IF s.stage \in NonceStages THEN s.drawn + 1 ELSE 0
        asked == [s EXCEPT
            !.awaiting   = ExpectOf[s.stage],
            !.breadcrumb = IF crumb THEN @ + 1 ELSE @,
            !.drawn      = IF nonce > 0 THEN nonce ELSE @,
            !.attNonce   = IF s.stage = "SendAttestationRequest" THEN nonce ELSE @,
            !.csrNonce   = IF s.stage = "SendOpCertSigningRequest" THEN nonce ELSE @]
    IN  Ok(asked, [type       |-> "Request",
                   stage      |-> s.stage,
                   expect     |-> ExpectOf[s.stage],
                   session    |-> IF s.stage = "SendComplete" THEN "Case" ELSE "Pase",
                   seconds    |-> ArmSeconds(s),
                   breadcrumb |-> IF crumb THEN s.breadcrumb ELSE 0,
                   nonce      |-> nonce])

\* Requests that need a nonce, a certificate or network credentials first.
AskNonce(s) == Ask(s) \cup MayErr(s, "Rng")
AskRoot(s) == Ask(s) \cup MayErr(s, "CertBuild")
AskNoc(s) ==
    IF s.issuedNoc THEN Ask(s) \cup MayErr(s, "CertBuild")
    ELSE Err(s, "OutOfOrderResponse")
AskNetwork(s) ==
    IF s.network # "AlreadyOnNetwork" THEN Ask(s)
    ELSE Err([s EXCEPT !.breadcrumb = @ + 1], "OutOfOrderResponse")

\* A run_attestation_verification that takes any genuine response, whichever
\* nonce it was made for.
AttestationHoldsAnyNonce(s) ==
    /\ s.pai = "genuine"
    /\ s.dac = "genuine"
    /\ s.attestation.cert = "genuine"

\* run_attestation_verification: the chain, the response's signature, the
\* nonce echoed and the certification declaration.
AttestationHolds(s) ==
    /\ s.pai = "genuine"
    /\ s.dac = "genuine"
    /\ s.attestation.cert = "genuine"
    /\ s.attNonce # 0
    /\ s.attestation.nonce = s.attNonce

\* A run_validate_csr that compares with the nonce of the attestation request.
CsrHoldsWrongNonce(s) ==
    /\ s.dac # None
    /\ s.csr.cert = "genuine"
    /\ s.csr.nonce = s.attNonce

\* run_validate_csr: the CSR's own signature, the nonce, the DAC's signature.
CsrHolds(s) ==
    /\ s.dac # None
    /\ s.csrNonce # 0
    /\ s.csr.cert = "genuine"
    /\ s.csr.nonce = s.csrNonce

\* The off-wire stages run on into the next request within one poll.
GenerateNocChain(s) ==
    IF ~s.verifiedCsr THEN Err(s, "OutOfOrderResponse")
    ELSE MayErr(s, "IssueNoc")
         \cup AskRoot(Advance([s EXCEPT !.issuedNoc = TRUE], "SendTrustedRootCert"))

ValidateCsr(s) ==
    IF ~CsrHolds(s) THEN Err(s, "Csr")
    ELSE GenerateNocChain(Advance([s EXCEPT !.verifiedCsr = TRUE], "GenerateNocChain"))

\* A failed attestation that is reported and passed over.
VerifyAttestationLenient(s) == AskNonce(Advance(s, "SendOpCertSigningRequest"))

VerifyAttestation(s) ==
    IF ~AttestationHolds(s) THEN Err(Fail(s), "Attestation")
    ELSE AskNonce(Advance(s, "SendOpCertSigningRequest"))

FindOperational(s) == Ok([s EXCEPT !.awaitingCase = TRUE], Bare("EstablishCase"))

Cleanup(s) == IF s.issuedNoc THEN Ok(s, Bare("Done")) ELSE Err(s, "OutOfOrderResponse")

\* dispatch_stage.
DispatchStage(s) ==
    CASE s.stage = "SecurePairing" -> Ask([s EXCEPT !.stage = "ReadCommissioningInfo"])
      [] s.stage \in NonceStages -> AskNonce(s)
      [] s.stage = "AttestationVerification" -> VerifyAttestation(s)
      [] s.stage = "ValidateCsr" -> ValidateCsr(s)
      [] s.stage = "GenerateNocChain" -> GenerateNocChain(s)
      [] s.stage = "SendTrustedRootCert" -> AskRoot(s)
      [] s.stage = "SendNoc" -> AskNoc(s)
      [] s.stage \in {"NetworkSetup", "NetworkEnable"} -> AskNetwork(s)
      [] s.stage = "EvictPreviousCaseSessions" ->
           FindOperational(Advance(s, "FindOperationalForComplete"))
      [] s.stage = "FindOperationalForComplete" -> FindOperational(s)
      [] s.stage = "Cleanup" -> Cleanup(s)
      [] s.stage = "Failed" -> Ok([s EXCEPT !.awaiting = None], Bare("Abort"))
      [] OTHER -> Ask(s)

\* poll.
Poll(s) ==
    IF s.pending # NoAction THEN {[sm |-> s, returns |-> s.pending]} ELSE DispatchStage(s)
-----------------------------------------------------------------------------
\* What a device may answer a request that expects e with: a decodable reply
\* has the fields the handler reads.  nonces are the nonces it may echo.
Reply(status) ==
    [status |-> status, cert |-> "genuine", nonce |-> 0, expiry |-> 0,
     cumulative |-> 0, features |-> {}, connectMaxTime |-> 0]

\* Replies whose fields are taken from the given sets.
Carrying(statuses, certs, nonces, times, features, limits) ==
    [status : statuses, cert : certs, nonce : nonces, expiry : times,
     cumulative : times, features : features, connectMaxTime : limits]

Plain(statuses) == Carrying(statuses, {"genuine"}, {0}, {0}, {{}}, {0})

Replies(e, nonces) ==
    Plain({"malformed", "error"}) \cup
    CASE e = "CommissioningInfo" ->
           Carrying({"ok"}, {"genuine"}, {0}, Durations, {{}}, {0})
      [] e \in {"PaiCertChainResponse", "DacCertChainResponse"} ->
           Carrying({"ok"}, {"genuine", "other"}, {0}, {0}, {{}}, {0})
      [] e \in {"AttestationResponse", "CsrResponse"} ->
           Carrying({"ok"}, {"genuine", "other"}, nonces, {0}, {{}}, {0})
      [] e = "NetworkCommissioningInfo" ->
           Plain({"empty"}) \cup
           Carrying({"ok"}, {"genuine"}, {0}, {0},
                    {{}, {"WiFi"}, {"WiFi", "Thread"}, {"Ethernet"}}, Durations)
      [] OTHER -> Plain({"ok"})

\* The expiry kept from BasicCommissioningInfo, capped by the device's limit.
CappedFailsafe(s, r) ==
    LET wanted == IF r.expiry > 0 THEN r.expiry ELSE s.failsafe
    IN  IF r.cumulative > 0 /\ r.cumulative < wanted THEN r.cumulative ELSE wanted

\* Where a reply to the network read leads; None when it cannot be used.
NetworkRoute(s, r) ==
    IF s.network = "AlreadyOnNetwork"
    THEN IF r.status = "empty" \/ r.features # {} THEN "EvictPreviousCaseSessions" ELSE None
    ELSE IF r.status = "ok" /\ s.network \in r.features THEN "NetworkSetup" ELSE None

\* A first read that leads past the fail-safe.
StageAfterInfoUnarmed == "ConfigRegulatory"

\* The stage after the first read.
StageAfterInfo == "ArmFailsafe"

\* The stage after a good ArmFailSafe reply: two stages send one.
StageAfterArm(s) ==
    CASE s.stage = "ArmFailsafe" -> "ConfigRegulatory"
      [] s.stage = "FailsafeBeforeNetworkEnable" -> "NetworkEnable"
      [] OTHER -> None

\* The stage after a good reply to a request that expects e.
StageAfter(s, e, r) ==
    CASE e = "CommissioningInfo" -> StageAfterInfo
      [] e = "ArmFailsafeResponse" -> StageAfterArm(s)
      [] e = "SetRegulatoryConfigResponse" -> "SendPaiCertRequest"
      [] e = "PaiCertChainResponse" -> "SendDacCertRequest"
      [] e = "DacCertChainResponse" -> "SendAttestationRequest"
      [] e = "AttestationResponse" -> "AttestationVerification"
      [] e = "CsrResponse" -> "ValidateCsr"
      [] e = "AddTrustedRootResponse" -> "SendNoc"
      [] e = "NocResponse" -> "ReadNetworkCommissioningInfo"
      [] e = "NetworkCommissioningInfo" -> NetworkRoute(s, r)
      [] e = "NetworkConfigResponse" -> "FailsafeBeforeNetworkEnable"
      [] e = "ConnectNetworkResponse" -> "EvictPreviousCaseSessions"
      [] e = "CommissioningCompleteResponse" -> "Cleanup"

\* What a good reply leaves in the slots.
Store(s, e, r) ==
    CASE e = "CommissioningInfo" -> [s EXCEPT !.failsafe = CappedFailsafe(s, r)]
      [] e = "PaiCertChainResponse" -> [s EXCEPT !.pai = r.cert]
      [] e = "DacCertChainResponse" -> [s EXCEPT !.dac = r.cert]
      [] e = "AttestationResponse" ->
           [s EXCEPT !.attestation = [cert |-> r.cert, nonce |-> r.nonce]]
      [] e = "CsrResponse" -> [s EXCEPT !.csr = [cert |-> r.cert, nonce |-> r.nonce]]
      [] OTHER -> s

\* handle_response that does not look at CommissioningComplete's error code.
HandleResponseUnchecked(s, e, r) ==
    LET usable == \/ r.status = "ok"
                  \/ r.status = "empty" /\ e = "NetworkCommissioningInfo"
                  \/ r.status = "error" /\ e = "CommissioningCompleteResponse"
        next   == IF usable THEN StageAfter(s, e, r) ELSE None
    IN  IF next = None THEN [sm |-> Fail(s), ok |-> FALSE]
        ELSE [sm |-> Advance(Store(s, e, r), next), ok |-> TRUE]

\* handle_response: the machine after it, and whether it returned Ok.
HandleResponse(s, e, r) ==
    LET usable == r.status = "ok" \/ (r.status = "empty" /\ e = "NetworkCommissioningInfo")
        next   == IF usable THEN StageAfter(s, e, r) ELSE None
    IN  IF next = None THEN [sm |-> Fail(s), ok |-> FALSE]
        ELSE [sm |-> Advance(Store(s, e, r), next), ok |-> TRUE]

\* on_response; a reply nobody waits for changes nothing.
OnResponse(s, e, r) ==
    IF s.awaiting = None \/ s.awaiting # e THEN [sm |-> s, ok |-> FALSE]
    ELSE HandleResponse(s, e, r)

\* on_response(CaseFailed) and on_case_established.
OnCaseFailed(s) ==
    IF ~s.awaitingCase THEN [sm |-> s, ok |-> FALSE]
    ELSE [sm |-> Fail([s EXCEPT !.awaitingCase = FALSE]), ok |-> FALSE]

OnCaseEstablished(s) ==
    IF ~s.awaitingCase THEN [sm |-> s, ok |-> FALSE]
    ELSE [sm |-> Advance([s EXCEPT !.awaitingCase = FALSE], "SendComplete"), ok |-> TRUE]

\* set_connect_max_time_seconds.
SetConnectMaxTime(s, seconds) == [s EXCEPT !.connectMaxTime = seconds]
=============================================================================
