------------------------- MODULE CommissionerProofs -------------------------
(***************************************************************************)
(* The commissioning state machine hands out credentials only on proof,    *)
(* and waits for exactly what it asked for: for every network, every local *)
(* fault and every sequence of calls and replies.                          *)
(***************************************************************************)
EXTENDS CommissionerSpec, TLAPS

USE DurationsAssumption

Certs == {None, "genuine", "other"}

Requests == [type : {"Request"}, stage : WireStages, expect : Expectations,
             session : {"Case", "Pase"}, seconds : Nat, breadcrumb : Nat, nonce : Nat]

Actions == {Bare(t) : t \in {None, "EstablishCase", "Done", "Abort"}} \cup Requests

Evidence == [cert : Certs, nonce : Nat]

Machines ==
    [stage : Stages, network : Networks, pai : Certs, dac : Certs, attNonce : Nat,
     attestation : Evidence, csrNonce : Nat, csr : Evidence, verifiedCsr : BOOLEAN,
     issuedNoc : BOOLEAN, failsafe : Nat, connectMaxTime : Nat, breadcrumb : Nat,
     drawn : Nat, awaitingCase : BOOLEAN, awaiting : Expectations \cup {None},
     pending : Actions]

\* The stages after a verified attestation, and after a verified CSR.
Attested == {"SendOpCertSigningRequest", "ValidateCsr", "GenerateNocChain"} \cup Credentialed
Signed == {"GenerateNocChain"} \cup Credentialed

\* What the slots prove at each stage.  The nonce of the CSR is drawn after
\* that of the attestation, which is then never drawn again.
Proven(s) ==
    /\ s.attNonce <= s.drawn
    /\ s.stage \in Attested => AttestationHolds(s)
    /\ s.stage \in Signed => CsrHolds(s) /\ s.verifiedCsr
    /\ s.stage \in Credentialed => s.issuedNoc
    /\ s.csrNonce # 0 => s.csrNonce > s.attNonce /\ s.stage \in Attested \cup {"Failed"}

\* What the machine waits for is what its outstanding action asked for.
Waiting(s) ==
    /\ s.awaiting # None =>
         /\ s.stage \in WireStages
         /\ s.awaiting = ExpectOf[s.stage]
         /\ s.pending.type = "Request"
         /\ s.pending.expect = s.awaiting
         /\ s.pending.stage = s.stage
         /\ s.pending.session = IF s.stage = "SendComplete" THEN "Case" ELSE "Pase"
    /\ s.pending.type = "Request" => s.awaiting # None
    /\ s.pending.type = "Done" => s.stage = "Cleanup"
    /\ s.awaitingCase <=> s.pending.type = "EstablishCase"
    /\ s.awaitingCase => s.stage = "FindOperationalForComplete"
    /\ s.stage = "Failed" => s.pending.type \in {None, "Abort"}

\* A machine with nothing outstanding.
Quiet(s) == s.awaiting = None /\ ~s.awaitingCase /\ s.pending = NoAction

MachineInv(s) == s \in Machines /\ Proven(s) /\ Waiting(s)

\* A machine between two actions.
Ready(s) == s \in Machines /\ Proven(s) /\ Quiet(s)

\* Each wire stage expects a reply of its own, the two that arm the fail-safe
\* excepted.
LEMMA WireStage ==
    ASSUME NEW st \in WireStages
    PROVE  \/ st = "ReadCommissioningInfo" /\ ExpectOf[st] = "CommissioningInfo"
           \/ st = "ArmFailsafe" /\ ExpectOf[st] = "ArmFailsafeResponse"
           \/ st = "ConfigRegulatory" /\ ExpectOf[st] = "SetRegulatoryConfigResponse"
           \/ st = "SendPaiCertRequest" /\ ExpectOf[st] = "PaiCertChainResponse"
           \/ st = "SendDacCertRequest" /\ ExpectOf[st] = "DacCertChainResponse"
           \/ st = "SendAttestationRequest" /\ ExpectOf[st] = "AttestationResponse"
           \/ st = "SendOpCertSigningRequest" /\ ExpectOf[st] = "CsrResponse"
           \/ st = "SendTrustedRootCert" /\ ExpectOf[st] = "AddTrustedRootResponse"
           \/ st = "SendNoc" /\ ExpectOf[st] = "NocResponse"
           \/ st = "ReadNetworkCommissioningInfo" /\ ExpectOf[st] = "NetworkCommissioningInfo"
           \/ st = "NetworkSetup" /\ ExpectOf[st] = "NetworkConfigResponse"
           \/ st = "FailsafeBeforeNetworkEnable" /\ ExpectOf[st] = "ArmFailsafeResponse"
           \/ st = "NetworkEnable" /\ ExpectOf[st] = "ConnectNetworkResponse"
           \/ st = "SendComplete" /\ ExpectOf[st] = "CommissioningCompleteResponse"
BY DEF WireStages, ExpectOf

\* A wire stage is a stage, and its expectation one of the expectations.
LEMMA WireStageTypes ==
    /\ WireStages = {"ReadCommissioningInfo", "ArmFailsafe", "ConfigRegulatory",
                     "SendPaiCertRequest", "SendDacCertRequest", "SendAttestationRequest",
                     "SendOpCertSigningRequest", "SendTrustedRootCert", "SendNoc",
                     "ReadNetworkCommissioningInfo", "NetworkSetup",
                     "FailsafeBeforeNetworkEnable", "NetworkEnable", "SendComplete"}
    /\ \A st \in WireStages : ExpectOf[st] \in Expectations /\ ExpectOf[st] # None
    /\ None \notin Expectations
<1>1. WireStages = {"ReadCommissioningInfo", "ArmFailsafe", "ConfigRegulatory",
                     "SendPaiCertRequest", "SendDacCertRequest", "SendAttestationRequest",
                     "SendOpCertSigningRequest", "SendTrustedRootCert", "SendNoc",
                     "ReadNetworkCommissioningInfo", "NetworkSetup",
                     "FailsafeBeforeNetworkEnable", "NetworkEnable", "SendComplete"}
  BY Zenon DEF WireStages, ExpectOf
<1>2. \A st \in WireStages : ExpectOf[st] \in Expectations /\ ExpectOf[st] # None
  BY WireStage, Zenon DEF Expectations, None
<1>. QED
  BY <1>1, <1>2, Zenon DEF Expectations

\* The stages, one by one.
LEMMA StagesAre ==
    Stages = {"SecurePairing", "ReadCommissioningInfo", "ArmFailsafe", "ConfigRegulatory",
              "SendPaiCertRequest", "SendDacCertRequest", "SendAttestationRequest",
              "AttestationVerification", "SendOpCertSigningRequest", "ValidateCsr",
              "GenerateNocChain", "SendTrustedRootCert", "SendNoc",
              "ReadNetworkCommissioningInfo", "NetworkSetup", "FailsafeBeforeNetworkEnable",
              "NetworkEnable", "EvictPreviousCaseSessions", "FindOperationalForComplete",
              "SendComplete", "Cleanup", "Failed"}
BY DEF Stages, StageOrder
-----------------------------------------------------------------------------
\* A machine between two actions waits for nothing.
LEMMA ReadyIsFine ==
    ASSUME NEW s, Ready(s)
    PROVE  MachineInv(s)
BY DEF Ready, MachineInv, Waiting, Quiet, NoAction, Bare, None

\* Only no action has no type.
LEMMA NoActionType ==
    /\ \A a \in Actions : a.type = None => a = NoAction
    /\ \A t : Bare(t).type = t
    /\ \A t \in {None, "EstablishCase", "Done", "Abort"} : Bare(t) \in Actions
BY DEF Actions, Requests, Bare, NoAction, None

\* advance moves the cursor and clears what was outstanding, nothing else.
LEMMA AdvanceFields ==
    ASSUME NEW s \in Machines, NEW next \in Stages
    PROVE  /\ Advance(s, next) \in Machines
           /\ Advance(s, next).stage = next
           /\ Advance(s, next).awaiting = None
           /\ Advance(s, next).pending = NoAction
           /\ Advance(s, next).network = s.network
           /\ Advance(s, next).pai = s.pai
           /\ Advance(s, next).dac = s.dac
           /\ Advance(s, next).attNonce = s.attNonce
           /\ Advance(s, next).attestation = s.attestation
           /\ Advance(s, next).csrNonce = s.csrNonce
           /\ Advance(s, next).csr = s.csr
           /\ Advance(s, next).verifiedCsr = s.verifiedCsr
           /\ Advance(s, next).issuedNoc = s.issuedNoc
           /\ Advance(s, next).drawn = s.drawn
           /\ Advance(s, next).awaitingCase = s.awaitingCase
<1>1. NoAction \in Actions
  BY NoActionType, Zenon DEF NoAction
<1>. QED
  BY <1>1, Zenon DEF Advance, Machines

\* advance leaves the machine ready when the slots prove what the next stage
\* relies upon.
LEMMA AdvanceReady ==
    ASSUME NEW s \in Machines, NEW next \in Stages, Proven(s), ~s.awaitingCase,
           next \in Attested => AttestationHolds(s),
           next \in Signed => CsrHolds(s) /\ s.verifiedCsr,
           next \in Credentialed => s.issuedNoc,
           s.csrNonce # 0 => next \in Attested \cup {"Failed"}
    PROVE  Ready(Advance(s, next))
BY AdvanceFields DEF Ready, Quiet, Proven, AttestationHolds, CsrHolds

\* The transition into Failed.
LEMMA FailReady ==
    ASSUME NEW s \in Machines, Proven(s), ~s.awaitingCase
    PROVE  Ready(Fail(s))
<1>1. "Failed" \in Stages /\ "Failed" \notin Attested /\ "Failed" \notin Signed
      /\ "Failed" \notin Credentialed
  BY StagesAre, Zenon DEF Attested, Signed, Credentialed
<1>. QED
  BY <1>1, AdvanceReady, Zenon DEF Fail

\* Building a request keeps what is proved, for nonces are fresh, and waits
\* for the reply of its own stage.
LEMMA AskKeeps ==
    ASSUME NEW s, Ready(s), s.stage \in WireStages, NEW o \in Ask(s)
    PROVE  MachineInv(o.sm)
<1> DEFINE crumb == s.stage \in BreadcrumbStages
           nonce == IF s.stage \in NonceStages THEN s.drawn + 1 ELSE 0
           asked == [s EXCEPT
             !.awaiting   = ExpectOf[s.stage],
             !.breadcrumb = IF crumb THEN @ + 1 ELSE @,
             !.drawn      = IF nonce > 0 THEN nonce ELSE @,
             !.attNonce   = IF s.stage = "SendAttestationRequest" THEN nonce ELSE @,
             !.csrNonce   = IF s.stage = "SendOpCertSigningRequest" THEN nonce ELSE @]
           a == [type       |-> "Request",
                 stage      |-> s.stage,
                 expect     |-> ExpectOf[s.stage],
                 session    |-> IF s.stage = "SendComplete" THEN "Case" ELSE "Pase",
                 seconds    |-> ArmSeconds(s),
                 breadcrumb |-> IF crumb THEN s.breadcrumb ELSE 0,
                 nonce      |-> nonce]
           z == [asked EXCEPT !.pending = a]
<1>1. o.sm = z
  BY DEF Ask, Ok
<1>2. s \in Machines /\ Proven(s) /\ Quiet(s)
  BY Zenon DEF Ready
<1>3. ExpectOf[s.stage] \in Expectations /\ ExpectOf[s.stage] # None
  BY WireStageTypes, Zenon
<1>4. nonce \in Nat /\ (s.stage \in NonceStages => nonce = s.drawn + 1)
      /\ (s.stage \notin NonceStages => nonce = 0) /\ s.drawn \in Nat
  BY <1>2 DEF Machines
<1>5. ArmSeconds(s) \in Nat
  BY <1>2, Zenon
     DEF ArmSeconds, NetworkEnableFailsafeSeconds, DefaultConnectMaxTimeSeconds, Machines
<1>6. a \in Requests
  BY <1>2, <1>3, <1>4, <1>5, Zenon DEF Requests, Machines
<1>7. /\ a \in Actions /\ a.type = "Request" /\ a.expect = ExpectOf[s.stage] /\ a.stage = s.stage
      /\ a.session = IF s.stage = "SendComplete" THEN "Case" ELSE "Pase"
  BY <1>6, Zenon DEF Actions
<1> HIDE DEF a, nonce, crumb
<1>8. /\ z \in Machines
      /\ z.stage = s.stage /\ z.pai = s.pai /\ z.dac = s.dac
      /\ z.attestation = s.attestation /\ z.csr = s.csr
      /\ z.verifiedCsr = s.verifiedCsr /\ z.issuedNoc = s.issuedNoc
      /\ z.awaitingCase = s.awaitingCase
      /\ z.awaiting = ExpectOf[s.stage] /\ z.pending = a
      /\ z.drawn = IF nonce > 0 THEN nonce ELSE s.drawn
      /\ z.attNonce = IF s.stage = "SendAttestationRequest" THEN nonce ELSE s.attNonce
      /\ z.csrNonce = IF s.stage = "SendOpCertSigningRequest" THEN nonce ELSE s.csrNonce
  <2>1. asked \in Machines
    <3> DEFINE b == IF crumb THEN s.breadcrumb + 1 ELSE s.breadcrumb
               d == IF nonce > 0 THEN nonce ELSE s.drawn
               n == IF s.stage = "SendAttestationRequest" THEN nonce ELSE s.attNonce
               c == IF s.stage = "SendOpCertSigningRequest" THEN nonce ELSE s.csrNonce
    <3>1. b \in Nat /\ d \in Nat /\ n \in Nat /\ c \in Nat
      BY <1>2, <1>4 DEF Machines
    <3>2. asked = [s EXCEPT !.awaiting = ExpectOf[s.stage], !.breadcrumb = b, !.drawn = d,
                            !.attNonce = n, !.csrNonce = c]
      BY <1>2, Zenon DEF Machines
    <3> HIDE DEF asked, b, d, n, c
    <3>. QED
      BY <3>1, <3>2, <1>2, <1>3, Zenon DEF Machines
  <2>2. /\ asked.stage = s.stage /\ asked.pai = s.pai /\ asked.dac = s.dac
        /\ asked.attestation = s.attestation /\ asked.csr = s.csr
        /\ asked.verifiedCsr = s.verifiedCsr /\ asked.issuedNoc = s.issuedNoc
        /\ asked.awaitingCase = s.awaitingCase
        /\ asked.awaiting = ExpectOf[s.stage]
        /\ asked.drawn = IF nonce > 0 THEN nonce ELSE s.drawn
        /\ asked.attNonce = IF s.stage = "SendAttestationRequest" THEN nonce ELSE s.attNonce
        /\ asked.csrNonce = IF s.stage = "SendOpCertSigningRequest" THEN nonce ELSE s.csrNonce
    BY <1>2, Zenon DEF Machines
  <2> HIDE DEF asked
  <2>3. z \in Machines
    BY <2>1, <1>7, Zenon DEF Machines
  <2>4. /\ z.stage = asked.stage /\ z.pai = asked.pai /\ z.dac = asked.dac
        /\ z.attestation = asked.attestation /\ z.csr = asked.csr
        /\ z.verifiedCsr = asked.verifiedCsr /\ z.issuedNoc = asked.issuedNoc
        /\ z.awaitingCase = asked.awaitingCase /\ z.awaiting = asked.awaiting
        /\ z.drawn = asked.drawn /\ z.attNonce = asked.attNonce
        /\ z.csrNonce = asked.csrNonce /\ z.pending = a
    BY <2>1, Zenon DEF Machines
  <2> HIDE DEF z
  <2>. QED
    BY <2>2, <2>3, <2>4, Zenon
<1> HIDE DEF z
<1>9. s.attNonce \in Nat /\ s.csrNonce \in Nat
  BY <1>2, Zenon DEF Machines
<1>10. Proven(z)
  <2>1. CASE s.stage = "SendAttestationRequest"
    <3>1. s.csrNonce = 0 /\ s.stage \notin Attested /\ s.stage \notin Signed
          /\ s.stage \notin Credentialed /\ s.stage \in NonceStages
      BY <2>1, <1>2, <1>9, Zenon DEF Proven, Attested, Signed, Credentialed, NonceStages
    <3>. QED
      BY <2>1, <3>1, <1>8, <1>4 DEF Proven
  <2>2. CASE s.stage = "SendOpCertSigningRequest"
    <3>1. s.stage \in Attested /\ s.stage \notin Signed
          /\ s.stage \notin Credentialed /\ s.stage \in NonceStages
      BY <2>2, Zenon DEF Attested, Signed, Credentialed, NonceStages
    <3>. QED
      BY <2>2, <3>1, <1>2, <1>8, <1>4, <1>9 DEF Proven, AttestationHolds
  <2>3. CASE s.stage \notin NonceStages
    BY <2>3, <1>2, <1>8, <1>4 DEF Proven, AttestationHolds, CsrHolds, NonceStages
  <2>. QED
    BY <2>1, <2>2, <2>3, Zenon DEF NonceStages
<1>11. Waiting(z)
  <2>1. s.stage # "Failed" /\ ~s.awaitingCase
    BY <1>2, WireStageTypes, Zenon DEF Quiet
  <2>. QED
    BY <2>1, <1>3, <1>7, <1>8, Zenon DEF Waiting
<1>. QED
  BY <1>1, <1>8, <1>10, <1>11, Zenon DEF MachineInv

\* A failed local operation leaves the machine as it was.
LEMMA ErrKeeps ==
    ASSUME NEW s, Ready(s), NEW error
    PROVE  /\ \A o \in Err(s, error) : MachineInv(o.sm)
           /\ \A o \in MayErr(s, error) : MachineInv(o.sm)
BY ReadyIsFine DEF Err, MayErr

\* The requests that need something made first.
LEMMA AskWithFaultsKeeps ==
    ASSUME NEW s, Ready(s), s.stage \in WireStages
    PROVE  /\ \A o \in AskNonce(s) : MachineInv(o.sm)
           /\ \A o \in AskRoot(s) : MachineInv(o.sm)
           /\ \A o \in AskNoc(s) : MachineInv(o.sm)
           /\ \A o \in AskNetwork(s) : MachineInv(o.sm)
<1>1. \A o \in Ask(s) : MachineInv(o.sm)
  BY AskKeeps, Zenon
<1>2. \A error : /\ \A o \in Err(s, error) : MachineInv(o.sm)
                 /\ \A o \in MayErr(s, error) : MachineInv(o.sm)
  BY ErrKeeps, Zenon
<1>3. \A o \in AskNetwork(s) : MachineInv(o.sm)
  <2> DEFINE z == [s EXCEPT !.breadcrumb = @ + 1]
  <2>1. Ready(z)
    BY DEF Ready, Machines, Proven, Quiet, AttestationHolds, CsrHolds
  <2> HIDE DEF z
  <2>2. \A o \in Err(z, "OutOfOrderResponse") : MachineInv(o.sm)
    BY <2>1, ErrKeeps, Zenon
  <2>. QED
    BY <1>1, <2>2, Zenon DEF AskNetwork, z
<1>. QED
  BY <1>1, <1>2, <1>3, Zenon DEF AskNonce, AskRoot, AskNoc

\* Setting a flag of the chain.
LEMMA FlagReady ==
    ASSUME NEW s, Ready(s)
    PROVE  /\ Ready([s EXCEPT !.issuedNoc = TRUE])
           /\ [s EXCEPT !.issuedNoc = TRUE].issuedNoc
           /\ [s EXCEPT !.issuedNoc = TRUE].verifiedCsr = s.verifiedCsr
           /\ CsrHolds(s) => CsrHolds([s EXCEPT !.issuedNoc = TRUE])
           /\ AttestationHolds(s) => AttestationHolds([s EXCEPT !.issuedNoc = TRUE])
           /\ Ready([s EXCEPT !.verifiedCsr = TRUE])
           /\ [s EXCEPT !.verifiedCsr = TRUE].verifiedCsr
           /\ CsrHolds(s) => CsrHolds([s EXCEPT !.verifiedCsr = TRUE])
           /\ AttestationHolds(s) => AttestationHolds([s EXCEPT !.verifiedCsr = TRUE])
BY ZenonT(30) DEF Ready, Machines, Proven, Quiet, AttestationHolds, CsrHolds

\* Issuing the certificate chain: the stage is past both checks.
LEMMA GenerateNocChainKeeps ==
    ASSUME NEW s, Ready(s), s.stage = "GenerateNocChain", NEW o \in GenerateNocChain(s)
    PROVE  MachineInv(o.sm)
<1> DEFINE z == [s EXCEPT !.issuedNoc = TRUE]
<1>1. AttestationHolds(s) /\ CsrHolds(s) /\ s.verifiedCsr
  BY Zenon DEF Ready, Proven, Attested, Signed
<1>2. Ready(z) /\ AttestationHolds(z) /\ CsrHolds(z) /\ z.verifiedCsr /\ z.issuedNoc
  BY <1>1, FlagReady, Zenon
<1>3. "SendTrustedRootCert" \in Stages /\ "SendTrustedRootCert" \in Attested
      /\ "SendTrustedRootCert" \in WireStages
  BY StagesAre, WireStageTypes, Zenon DEF Attested, Credentialed
<1> HIDE DEF z
<1>4. z \in Machines /\ Proven(z) /\ ~z.awaitingCase
  BY <1>2, Zenon DEF Ready, Quiet
<1>5. Ready(Advance(z, "SendTrustedRootCert"))
  BY <1>2, <1>3, <1>4, AdvanceReady, Zenon
<1>6. Advance(z, "SendTrustedRootCert").stage = "SendTrustedRootCert"
  BY <1>3, <1>4, AdvanceFields, Zenon
<1>7. \A p \in AskRoot(Advance(z, "SendTrustedRootCert")) : MachineInv(p.sm)
  BY <1>3, <1>5, <1>6, AskWithFaultsKeeps, Zenon
<1>8. \A p \in MayErr(s, "IssueNoc") : MachineInv(p.sm)
  BY ErrKeeps, Zenon
<1>9. \A p \in Err(s, "OutOfOrderResponse") : MachineInv(p.sm)
  BY ErrKeeps, Zenon
<1>. QED
  BY <1>7, <1>8, <1>9, Zenon DEF GenerateNocChain, z

\* Validating the CSR, then issuing the chain.
LEMMA ValidateCsrKeeps ==
    ASSUME NEW s, Ready(s), s.stage = "ValidateCsr", NEW o \in ValidateCsr(s)
    PROVE  MachineInv(o.sm)
<1> DEFINE z == [s EXCEPT !.verifiedCsr = TRUE]
<1>1. CASE ~CsrHolds(s)
  <2>1. \A p \in Err(s, "Csr") : MachineInv(p.sm)
    BY ErrKeeps, Zenon
  <2>. QED
    BY <1>1, <2>1, Zenon DEF ValidateCsr
<1>2. CASE CsrHolds(s)
  <2>1. AttestationHolds(s)
    BY Zenon DEF Ready, Proven, Attested
  <2>2. Ready(z) /\ AttestationHolds(z) /\ CsrHolds(z) /\ z.verifiedCsr
    BY <1>2, <2>1, FlagReady, Zenon
  <2>3. "GenerateNocChain" \in Stages /\ "GenerateNocChain" \in Attested
        /\ "GenerateNocChain" \notin Credentialed
    BY StagesAre, Zenon DEF Attested, Credentialed
  <2> HIDE DEF z
  <2>4. z \in Machines /\ Proven(z) /\ ~z.awaitingCase
    BY <2>2, Zenon DEF Ready, Quiet
  <2>5. Ready(Advance(z, "GenerateNocChain"))
    BY <2>2, <2>3, <2>4, AdvanceReady, Zenon
  <2>6. Advance(z, "GenerateNocChain").stage = "GenerateNocChain"
    BY <2>3, <2>4, AdvanceFields, Zenon
  <2>7. \A p \in GenerateNocChain(Advance(z, "GenerateNocChain")) : MachineInv(p.sm)
    BY <2>5, <2>6, GenerateNocChainKeeps, Zenon
  <2>. QED
    BY <1>2, <2>7, Zenon DEF ValidateCsr, z
<1>. QED
  BY <1>1, <1>2, Zenon

\* Verifying the attestation.
LEMMA VerifyAttestationKeeps ==
    ASSUME NEW s, Ready(s), s.stage = "AttestationVerification", NEW o \in VerifyAttestation(s)
    PROVE  MachineInv(o.sm)
<1>1. s \in Machines /\ Proven(s) /\ ~s.awaitingCase
  BY Zenon DEF Ready, Quiet
<1>2. CASE ~AttestationHolds(s)
  <2>1. Ready(Fail(s))
    BY <1>1, FailReady, Zenon
  <2>2. \A p \in Err(Fail(s), "Attestation") : MachineInv(p.sm)
    BY <2>1, ErrKeeps, Zenon
  <2>. QED
    BY <1>2, <2>2, Zenon DEF VerifyAttestation
<1>3. CASE AttestationHolds(s)
  <2>1. "SendOpCertSigningRequest" \in Stages /\ "SendOpCertSigningRequest" \in Attested
        /\ "SendOpCertSigningRequest" \notin Credentialed
        /\ "SendOpCertSigningRequest" \notin Signed
        /\ "SendOpCertSigningRequest" \in WireStages
    BY StagesAre, WireStageTypes, Zenon DEF Attested, Credentialed, Signed
  <2>2. Ready(Advance(s, "SendOpCertSigningRequest"))
    BY <1>1, <1>3, <2>1, AdvanceReady, Zenon
  <2>3. Advance(s, "SendOpCertSigningRequest").stage = "SendOpCertSigningRequest"
    BY <1>1, <2>1, AdvanceFields, Zenon
  <2>4. \A p \in AskNonce(Advance(s, "SendOpCertSigningRequest")) : MachineInv(p.sm)
    BY <2>1, <2>2, <2>3, AskWithFaultsKeeps, Zenon
  <2>. QED
    BY <1>3, <2>4, Zenon DEF VerifyAttestation
<1>. QED
  BY <1>2, <1>3, Zenon

\* Returning an action that takes no request.
LEMMA BareFields ==
    ASSUME NEW s, Ready(s), NEW t \in {"EstablishCase", "Done", "Abort"},
           NEW w \in BOOLEAN, w <=> t = "EstablishCase",
           w => s.stage = "FindOperationalForComplete",
           t = "Done" => s.stage = "Cleanup",
           s.stage = "Failed" => t = "Abort"
    PROVE  MachineInv([[s EXCEPT !.awaitingCase = w] EXCEPT !.pending = Bare(t)])
<1> DEFINE y == [s EXCEPT !.awaitingCase = w]
           z == [y EXCEPT !.pending = Bare(t)]
<1>1. Bare(t) \in Actions /\ Bare(t).type = t /\ t # "Request" /\ t # None
  BY NoActionType, Zenon DEF None
<1>2. y \in Machines /\ Proven(y) /\ y.awaiting = None /\ y.awaitingCase = w /\ y.stage = s.stage
  BY DEF Ready, Machines, Proven, Quiet, AttestationHolds, CsrHolds
<1> HIDE DEF y
<1>3. /\ z \in Machines /\ z.awaiting = None /\ z.awaitingCase = w
      /\ z.pending = Bare(t) /\ z.stage = s.stage
  BY <1>1, <1>2, Zenon DEF Machines
<1>4. Proven(z)
  BY <1>2, Zenon DEF Machines, Proven, AttestationHolds, CsrHolds
<1> HIDE DEF z
<1>5. Waiting(z)
  BY <1>1, <1>3, Zenon DEF Waiting
<1>6. MachineInv(z)
  BY <1>3, <1>4, <1>5, Zenon DEF MachineInv
<1>. QED
  BY <1>6, Zenon DEF z, y

\* The actions that take no request.
LEMMA BareKeeps ==
    ASSUME NEW s, Ready(s)
    PROVE  /\ s.stage = "FindOperationalForComplete" =>
                \A o \in FindOperational(s) : MachineInv(o.sm)
           /\ s.stage = "Cleanup" => \A o \in Cleanup(s) : MachineInv(o.sm)
           /\ s.stage = "Failed" =>
                \A o \in Ok([s EXCEPT !.awaiting = None], Bare("Abort")) : MachineInv(o.sm)
<1>1. s = [s EXCEPT !.awaitingCase = FALSE] /\ s = [s EXCEPT !.awaiting = None]
  BY Zenon DEF Ready, Machines, Quiet
<1>2. \A o \in Err(s, "OutOfOrderResponse") : MachineInv(o.sm)
  BY ErrKeeps, Zenon
<1>3. \A y, a : \A o \in Ok(y, a) : o.sm = [y EXCEPT !.pending = a]
  BY DEF Ok
<1>4. s.stage = "FindOperationalForComplete" =>
        MachineInv([[s EXCEPT !.awaitingCase = TRUE] EXCEPT !.pending = Bare("EstablishCase")])
  BY BareFields, Zenon
<1>5. s.stage = "Cleanup" =>
        MachineInv([[s EXCEPT !.awaitingCase = FALSE] EXCEPT !.pending = Bare("Done")])
  BY BareFields, Zenon
<1>6. s.stage = "Failed" =>
        MachineInv([[s EXCEPT !.awaitingCase = FALSE] EXCEPT !.pending = Bare("Abort")])
  BY BareFields, Zenon
<1>7. s.stage = "FindOperationalForComplete" =>
        \A o \in FindOperational(s) : MachineInv(o.sm)
  BY <1>3, <1>4, Zenon DEF FindOperational
<1>8. s.stage = "Cleanup" => \A o \in Ok(s, Bare("Done")) : MachineInv(o.sm)
  <2>1. [s EXCEPT !.pending = Bare("Done")]
          = [[s EXCEPT !.awaitingCase = FALSE] EXCEPT !.pending = Bare("Done")]
    BY <1>1, Zenon
  <2>. QED
    BY <2>1, <1>3, <1>5, SMTT(30)
<1>9. s.stage = "Failed" =>
        \A o \in Ok([s EXCEPT !.awaiting = None], Bare("Abort")) : MachineInv(o.sm)
  <2>1. [[s EXCEPT !.awaiting = None] EXCEPT !.pending = Bare("Abort")]
          = [[s EXCEPT !.awaitingCase = FALSE] EXCEPT !.pending = Bare("Abort")]
    BY <1>1, Zenon
  <2>2. \A o \in Ok([s EXCEPT !.awaiting = None], Bare("Abort")) :
           o.sm = [[s EXCEPT !.awaitingCase = FALSE] EXCEPT !.pending = Bare("Abort")]
    BY <2>1 DEF Ok
  <2>. QED
    BY <2>2, <1>6, Zenon
<1>10. s.stage = "Cleanup" => \A o \in Cleanup(s) : MachineInv(o.sm)
  BY <1>2, <1>8, Zenon DEF Cleanup
<1>. QED
  BY <1>7, <1>9, <1>10, Zenon

\* poll keeps the invariant: an outstanding action is returned again, and
\* without one the machine waits for nothing.
LEMMA PollKeeps ==
    ASSUME NEW s, MachineInv(s), NEW o \in Poll(s)
    PROVE  MachineInv(o.sm)
<1>1. CASE s.pending # NoAction
  BY <1>1 DEF Poll
<1>2. CASE s.pending = NoAction
  <2>1. Ready(s)
    BY <1>2, NoActionType, Zenon DEF MachineInv, Waiting, Ready, Quiet, NoAction, None
  <2>2. o \in DispatchStage(s)
    BY <1>2, Zenon DEF Poll
  <2>3. s \in Machines /\ Proven(s) /\ ~s.awaitingCase /\ s.stage \in Stages
    BY <2>1, Zenon DEF Ready, Quiet, Machines
  <2>4. CASE s.stage = "SecurePairing"
    <3> DEFINE z == [s EXCEPT !.stage = "ReadCommissioningInfo"]
    <3>1. "ReadCommissioningInfo" \in Stages /\ "ReadCommissioningInfo" \in WireStages
          /\ "ReadCommissioningInfo" \notin Attested /\ "ReadCommissioningInfo" \notin Signed
          /\ "ReadCommissioningInfo" \notin Credentialed
      BY StagesAre, WireStageTypes, Zenon DEF Attested, Signed, Credentialed
    <3>2. s.csrNonce = 0
      BY <2>3, <2>4, Zenon DEF Proven, Attested, Credentialed
    <3>3. /\ z \in Machines /\ z.stage = "ReadCommissioningInfo" /\ Quiet(z)
          /\ z.csrNonce = 0 /\ z.attNonce = s.attNonce /\ z.drawn = s.drawn
      BY <2>1, <3>1, <3>2, Zenon DEF Ready, Machines, Quiet
    <3>4. o \in Ask(z)
      BY <2>2, <2>4, Zenon DEF DispatchStage, NonceStages
    <3> HIDE DEF z
    <3>5. Ready(z)
      BY <2>3, <3>1, <3>3, Zenon DEF Ready, Proven
    <3>. QED
      BY <3>1, <3>3, <3>4, <3>5, AskKeeps, Zenon
  <2>5. CASE s.stage \in NonceStages
    <3>1. o \in AskNonce(s) /\ s.stage \in WireStages
      BY <2>2, <2>5, WireStageTypes, Zenon DEF DispatchStage, NonceStages
    <3>. QED
      BY <3>1, <2>1, AskWithFaultsKeeps, Zenon
  <2>6. CASE s.stage = "AttestationVerification"
    <3>1. o \in VerifyAttestation(s)
      BY <2>2, <2>6, Zenon DEF DispatchStage, NonceStages
    <3>. QED
      BY <3>1, <2>1, <2>6, VerifyAttestationKeeps, Zenon
  <2>7. CASE s.stage = "ValidateCsr"
    <3>1. o \in ValidateCsr(s)
      BY <2>2, <2>7, Zenon DEF DispatchStage, NonceStages
    <3>. QED
      BY <3>1, <2>1, <2>7, ValidateCsrKeeps, Zenon
  <2>8. CASE s.stage = "GenerateNocChain"
    <3>1. o \in GenerateNocChain(s)
      BY <2>2, <2>8, Zenon DEF DispatchStage, NonceStages
    <3>. QED
      BY <3>1, <2>1, <2>8, GenerateNocChainKeeps, Zenon
  <2>9. CASE s.stage \in {"SendTrustedRootCert", "SendNoc", "NetworkSetup", "NetworkEnable"}
    <3>1. (o \in AskRoot(s) \/ o \in AskNoc(s) \/ o \in AskNetwork(s)) /\ s.stage \in WireStages
      BY <2>2, <2>9, WireStageTypes, Zenon DEF DispatchStage, NonceStages
    <3>. QED
      BY <3>1, <2>1, AskWithFaultsKeeps, Zenon
  <2>10. CASE s.stage = "EvictPreviousCaseSessions"
    <3> DEFINE z == Advance(s, "FindOperationalForComplete")
    <3>1. "FindOperationalForComplete" \in Stages /\ "FindOperationalForComplete" \in Credentialed
      BY StagesAre, Zenon DEF Credentialed
    <3>2. "FindOperationalForComplete" \in Attested
      BY Zenon DEF Attested, Credentialed
    <3>3. AttestationHolds(s) /\ CsrHolds(s) /\ s.verifiedCsr /\ s.issuedNoc
      BY <2>3, <2>10, Zenon DEF Proven, Attested, Signed, Credentialed
    <3>4. Ready(z)
      BY <2>3, <3>1, <3>2, <3>3, AdvanceReady, Zenon
    <3>5. z.stage = "FindOperationalForComplete"
      BY <2>3, <3>1, AdvanceFields, Zenon
    <3>6. o \in FindOperational(z)
      BY <2>2, <2>10, Zenon DEF DispatchStage, NonceStages
    <3> HIDE DEF z
    <3>. QED
      BY <3>4, <3>5, <3>6, BareKeeps, Zenon
  <2>11. CASE s.stage = "FindOperationalForComplete"
    <3>1. o \in FindOperational(s)
      BY <2>2, <2>11, Zenon DEF DispatchStage, NonceStages
    <3>. QED
      BY <3>1, <2>1, <2>11, BareKeeps, Zenon
  <2>12. CASE s.stage = "Cleanup"
    <3>1. o \in Cleanup(s)
      BY <2>2, <2>12, Zenon DEF DispatchStage, NonceStages
    <3>. QED
      BY <3>1, <2>1, <2>12, BareKeeps, Zenon
  <2>13. CASE s.stage = "Failed"
    <3>1. o \in Ok([s EXCEPT !.awaiting = None], Bare("Abort"))
      BY <2>2, <2>13, Zenon DEF DispatchStage, NonceStages
    <3>. QED
      BY <3>1, <2>1, <2>13, BareKeeps, Zenon
  <2>14. CASE s.stage \in {"ReadCommissioningInfo", "ArmFailsafe", "ConfigRegulatory",
                           "SendPaiCertRequest", "SendDacCertRequest",
                           "ReadNetworkCommissioningInfo", "FailsafeBeforeNetworkEnable",
                           "SendComplete"}
    <3>1. o \in Ask(s) /\ s.stage \in WireStages
      BY <2>2, <2>14, WireStageTypes, Zenon DEF DispatchStage, NonceStages
    <3>. QED
      BY <3>1, <2>1, AskKeeps, Zenon
  <2>. QED
    BY <2>3, <2>4, <2>5, <2>6, <2>7, <2>8, <2>9, <2>10, <2>11, <2>12, <2>13, <2>14, StagesAre,
       Zenon
       DEF NonceStages
<1>. QED
  BY <1>1, <1>2, Zenon
-----------------------------------------------------------------------------
\* What a reply carries.
LEMMA ReplyTypes ==
    ASSUME NEW e \in Expectations, NEW nonces \in SUBSET Nat, NEW r \in Replies(e, nonces)
    PROVE  /\ r.cert \in {"genuine", "other"} /\ r.nonce \in Nat
           /\ r.expiry \in Nat /\ r.cumulative \in Nat /\ r.connectMaxTime \in Nat
<1> DEFINE Good(R) == \A x \in R : /\ x.cert \in {"genuine", "other"} /\ x.nonce \in Nat
                                   /\ x.expiry \in Nat /\ x.cumulative \in Nat
                                   /\ x.connectMaxTime \in Nat
<1>1. ASSUME NEW A, NEW C \in SUBSET {"genuine", "other"}, NEW N \in SUBSET Nat,
             NEW T \in SUBSET Nat, NEW F, NEW L \in SUBSET Nat
      PROVE  Good(Carrying(A, C, N, T, F, L))
  BY Zenon DEF Carrying
<1>2. \A A : Good(Plain(A))
  BY <1>1, Zenon DEF Plain
<1>3. Good(Carrying({"ok"}, {"genuine"}, {0}, Durations, {{}}, {0}))
  BY <1>1, Zenon
<1>4. Good(Carrying({"ok"}, {"genuine", "other"}, {0}, {0}, {{}}, {0}))
  BY <1>1, Zenon
<1>5. Good(Carrying({"ok"}, {"genuine", "other"}, nonces, {0}, {{}}, {0}))
  BY <1>1, Zenon
<1>6. Good(Carrying({"ok"}, {"genuine"}, {0}, {0},
                    {{}, {"WiFi"}, {"WiFi", "Thread"}, {"Ethernet"}}, Durations))
  BY <1>1, Zenon
<1> HIDE DEF Good
<1>7. Good(Replies(e, nonces))
  BY <1>2, <1>3, <1>4, <1>5, <1>6, Zenon DEF Replies, Good
<1>. QED
  BY <1>7, Zenon DEF Good

\* on_response keeps the invariant: a reply is taken only in the stage that
\* asked for it, so the slots it fills are not yet relied upon.
LEMMA ResponseKeeps ==
    ASSUME NEW s, MachineInv(s), NEW e \in Expectations, NEW nonces \in SUBSET Nat,
           NEW r \in Replies(e, nonces)
    PROVE  MachineInv(OnResponse(s, e, r).sm)
<1> DEFINE usable == r.status = "ok" \/ (r.status = "empty" /\ e = "NetworkCommissioningInfo")
           next   == IF usable THEN StageAfter(s, e, r) ELSE None
<1>1. CASE s.awaiting = None \/ s.awaiting # e
  BY <1>1, Zenon DEF OnResponse
<1>2. CASE s.awaiting # None /\ s.awaiting = e
  <2>1. s \in Machines /\ Proven(s) /\ Waiting(s) /\ s.drawn \in Nat
    BY Zenon DEF MachineInv, Machines
  <2>2. ~s.awaitingCase /\ s.stage \in WireStages /\ ExpectOf[s.stage] = e
    BY <1>2, <2>1, Zenon DEF Waiting
  <2>3. CASE next = None
    <3>1. OnResponse(s, e, r).sm = Fail(s)
      BY <1>2, <2>3, Zenon DEF OnResponse, HandleResponse
    <3>2. Ready(Fail(s))
      BY <2>1, <2>2, FailReady, Zenon
    <3>. QED
      BY <3>1, <3>2, ReadyIsFine, Zenon
  <2>4. CASE next # None
    <3> DEFINE z == Store(s, e, r)
    <3>1. OnResponse(s, e, r).sm = Advance(z, next)
      BY <1>2, <2>4, Zenon DEF OnResponse, HandleResponse
    <3>2. next = StageAfter(s, e, r)
      BY <2>4, Zenon
    <3>3. /\ r.cert \in {"genuine", "other"} /\ r.nonce \in Nat
          /\ r.expiry \in Nat /\ r.cumulative \in Nat
      BY <2>1, ReplyTypes, Zenon
    <3>4. /\ z \in Machines
          /\ z.stage = s.stage /\ z.awaitingCase = s.awaitingCase
          /\ z.attNonce = s.attNonce /\ z.csrNonce = s.csrNonce /\ z.drawn = s.drawn
          /\ z.verifiedCsr = s.verifiedCsr /\ z.issuedNoc = s.issuedNoc
          /\ e # "PaiCertChainResponse" => z.pai = s.pai
          /\ e # "DacCertChainResponse" => z.dac = s.dac
          /\ e # "AttestationResponse" => z.attestation = s.attestation
          /\ e # "CsrResponse" => z.csr = s.csr
      <4>1. CASE e = "CommissioningInfo"
        <5>1. CappedFailsafe(s, r) \in Nat
          BY <2>1, <3>3, Zenon DEF CappedFailsafe, Machines
        <5>2. z = [s EXCEPT !.failsafe = CappedFailsafe(s, r)]
          BY <4>1, Zenon DEF Store
        <5> HIDE DEF z
        <5>. QED
          BY <2>1, <5>1, <5>2, Zenon DEF Machines
      <4>2. CASE e = "PaiCertChainResponse"
        <5>1. z = [s EXCEPT !.pai = r.cert]
          BY <4>2, Zenon DEF Store
        <5> HIDE DEF z
        <5>. QED
          BY <2>1, <3>3, <4>2, <5>1, Zenon DEF Machines, Certs
      <4>3. CASE e = "DacCertChainResponse"
        <5>1. z = [s EXCEPT !.dac = r.cert]
          BY <4>3, Zenon DEF Store
        <5> HIDE DEF z
        <5>. QED
          BY <2>1, <3>3, <4>3, <5>1, Zenon DEF Machines, Certs
      <4>4. CASE e \in {"AttestationResponse", "CsrResponse"}
        <5>1. z = IF e = "AttestationResponse"
                  THEN [s EXCEPT !.attestation = [cert |-> r.cert, nonce |-> r.nonce]]
                  ELSE [s EXCEPT !.csr = [cert |-> r.cert, nonce |-> r.nonce]]
          BY <4>4, Zenon DEF Store
        <5>2. [cert |-> r.cert, nonce |-> r.nonce] \in Evidence
          BY <3>3, Zenon DEF Evidence, Certs
        <5> HIDE DEF z
        <5>. QED
          BY <2>1, <4>4, <5>1, <5>2, Zenon DEF Machines
      <4>5. CASE e \notin {"CommissioningInfo", "PaiCertChainResponse", "DacCertChainResponse",
                           "AttestationResponse", "CsrResponse"}
        <5>1. z = s
          BY <4>5, Zenon DEF Store
        <5>. QED
          BY <2>1, <5>1, Zenon
      <4>. QED
        BY <4>1, <4>2, <4>3, <4>4, <4>5, Zenon
    <3> HIDE DEF z
    <3>5. /\ next \in Stages
          /\ next \in Signed => next \in Credentialed /\ s.stage \in Credentialed
          /\ next \in Attested => s.stage \in Attested
          /\ next \in Credentialed => s.stage \in Credentialed
          /\ s.stage \in Attested => next \in Attested
          /\ s.stage \in Signed => s.stage \in Credentialed
          /\ s.stage \in Credentialed =>
               e \notin {"PaiCertChainResponse", "DacCertChainResponse",
                         "AttestationResponse", "CsrResponse"}
          /\ s.stage \in Attested =>
               e \notin {"PaiCertChainResponse", "DacCertChainResponse", "AttestationResponse"}
          /\ s.stage # "Failed"
      <4>1. /\ e = "NetworkCommissioningInfo" =>
                 next \in {"EvictPreviousCaseSessions", "NetworkSetup"}
            /\ e = "ArmFailsafeResponse" =>
                 \/ s.stage = "ArmFailsafe" /\ next = "ConfigRegulatory"
                 \/ s.stage = "FailsafeBeforeNetworkEnable" /\ next = "NetworkEnable"
        BY <2>4, <3>2, Zenon DEF StageAfter, NetworkRoute, StageAfterArm
      <4>2. /\ e = "CommissioningInfo" => next = "ArmFailsafe"
            /\ e = "SetRegulatoryConfigResponse" => next = "SendPaiCertRequest"
            /\ e = "PaiCertChainResponse" => next = "SendDacCertRequest"
            /\ e = "DacCertChainResponse" => next = "SendAttestationRequest"
            /\ e = "AttestationResponse" => next = "AttestationVerification"
            /\ e = "CsrResponse" => next = "ValidateCsr"
            /\ e = "AddTrustedRootResponse" => next = "SendNoc"
            /\ e = "NocResponse" => next = "ReadNetworkCommissioningInfo"
            /\ e = "NetworkConfigResponse" => next = "FailsafeBeforeNetworkEnable"
            /\ e = "ConnectNetworkResponse" => next = "EvictPreviousCaseSessions"
            /\ e = "CommissioningCompleteResponse" => next = "Cleanup"
        BY <3>2, Zenon DEF StageAfter, StageAfterInfo
      <4> HIDE DEF next
      <4>. QED
        BY <2>2, <4>1, <4>2, WireStage, StagesAre, Zenon DEF Attested, Signed, Credentialed
    <3> HIDE DEF next
    <3>6. Ready(Advance(z, next))
      <4>1. Proven(z)
        BY <2>1, <3>4, <3>5, Zenon DEF Proven, AttestationHolds, CsrHolds, Attested, Signed
      <4>2. next \in Attested => AttestationHolds(z)
        BY <4>1, <3>4, <3>5, Zenon DEF Proven
      <4>3. next \in Signed => CsrHolds(z) /\ z.verifiedCsr
        BY <4>1, <3>4, <3>5, Zenon DEF Proven, Signed
      <4>4. next \in Credentialed => z.issuedNoc
        BY <4>1, <3>4, <3>5, Zenon DEF Proven
      <4>5. z.csrNonce # 0 => next \in Attested \cup {"Failed"}
        BY <4>1, <3>4, <3>5, Zenon DEF Proven
      <4>. QED
        BY <2>2, <3>4, <3>5, <4>1, <4>2, <4>3, <4>4, <4>5, AdvanceReady, Zenon
    <3>. QED
      BY <3>1, <3>6, ReadyIsFine, Zenon
  <2>. QED
    BY <2>3, <2>4, Zenon
<1>. QED
  BY <1>1, <1>2, Zenon

\* The outcome of CASE is taken only while it is awaited.
LEMMA CaseKeeps ==
    ASSUME NEW s, MachineInv(s)
    PROVE  MachineInv(OnCaseFailed(s).sm) /\ MachineInv(OnCaseEstablished(s).sm)
<1>1. CASE ~s.awaitingCase
  BY <1>1, Zenon DEF OnCaseFailed, OnCaseEstablished
<1>2. CASE s.awaitingCase
  <2> DEFINE z == [s EXCEPT !.awaitingCase = FALSE]
  <2>1. s \in Machines /\ Proven(s) /\ s.stage = "FindOperationalForComplete"
    BY <1>2, Zenon DEF MachineInv, Waiting
  <2>2. AttestationHolds(s) /\ CsrHolds(s) /\ s.verifiedCsr /\ s.issuedNoc
    BY <2>1, Zenon DEF Proven, Attested, Signed, Credentialed
  <2>3. /\ z \in Machines /\ Proven(z) /\ ~z.awaitingCase
        /\ AttestationHolds(z) /\ CsrHolds(z) /\ z.verifiedCsr /\ z.issuedNoc
    BY <2>1, <2>2, Zenon DEF Machines, Proven, AttestationHolds, CsrHolds
  <2> HIDE DEF z
  <2>4. Ready(Fail(z))
    BY <2>3, FailReady, Zenon
  <2>5. "SendComplete" \in Stages /\ "SendComplete" \in Attested
    BY StagesAre, Zenon DEF Attested, Credentialed
  <2>6. Ready(Advance(z, "SendComplete"))
    BY <2>3, <2>5, AdvanceReady, Zenon
  <2>7. OnCaseFailed(s).sm = Fail(z) /\ OnCaseEstablished(s).sm = Advance(z, "SendComplete")
    BY <1>2, Zenon DEF OnCaseFailed, OnCaseEstablished, z
  <2>. QED
    BY <2>4, <2>6, <2>7, ReadyIsFine, Zenon
<1>. QED
  BY <1>1, <1>2, Zenon

\* set_connect_max_time_seconds writes a field nothing else depends on.
LEMMA SetConnectMaxTimeKeeps ==
    ASSUME NEW s, MachineInv(s), NEW t \in Nat
    PROVE  MachineInv(SetConnectMaxTime(s, t))
BY DEF MachineInv, SetConnectMaxTime, Machines, Proven, Waiting, AttestationHolds, CsrHolds

\* A new machine has proved nothing and waits for nothing.
LEMMA NewIsReady ==
    ASSUME NEW network \in Networks
    PROVE  Ready(NewCommissioner(network))
<1> DEFINE s == NewCommissioner(network)
<1>1. NoAction \in Actions /\ NoEvidence \in Evidence
  BY NoActionType, Zenon DEF NoAction, NoEvidence, Evidence, Certs
<1>2. "SecurePairing" \in Stages
  BY StagesAre, Zenon
<1>3. s \in Machines
  BY <1>1, <1>2, Zenon DEF NewCommissioner, Machines, Certs, DefaultFailsafeSeconds
<1>4. Proven(s) /\ Quiet(s)
  BY DEF NewCommissioner, Proven, Quiet, Attested, Signed, Credentialed
<1>. QED
  BY <1>3, <1>4, Zenon DEF Ready
-----------------------------------------------------------------------------
\* The stages that poll passes by itself.
PollMoves ==
    {<<"SecurePairing", "ReadCommissioningInfo">>,
     <<"AttestationVerification", "SendOpCertSigningRequest">>,
     <<"AttestationVerification", "Failed">>,
     <<"ValidateCsr", "GenerateNocChain">>,
     <<"ValidateCsr", "SendTrustedRootCert">>,
     <<"GenerateNocChain", "SendTrustedRootCert">>,
     <<"EvictPreviousCaseSessions", "FindOperationalForComplete">>}

\* What no outcome of a poll changes, and what it returns: the action it
\* caches, or an error.
Polled(s, o) ==
    /\ o.sm.network = s.network /\ o.sm.pai = s.pai
    /\ o.returns.type = "Error" \/ o.returns = o.sm.pending

\* An outcome that leaves the cursor where it is.
Stays(s, o) == Polled(s, o) /\ o.sm.stage = s.stage

\* Returning an action.
LEMMA OkStays ==
    ASSUME NEW s, NEW y, y.stage = s.stage, y.network = s.network, y.pai = s.pai,
           {"stage", "network", "pai", "pending"} \subseteq DOMAIN y,
           NEW a, NEW o \in Ok(y, a)
    PROVE  Stays(s, o)
<1>1. o.sm = [y EXCEPT !.pending = a] /\ o.returns = a
  BY DEF Ok
<1>2. /\ [y EXCEPT !.pending = a].stage = y.stage /\ [y EXCEPT !.pending = a].pai = y.pai
      /\ [y EXCEPT !.pending = a].network = y.network /\ [y EXCEPT !.pending = a].pending = a
  BY Zenon
<1>. QED
  BY <1>1, <1>2, Zenon DEF Stays, Polled

\* Requests and errors leave the cursor where it is.
LEMMA AskStays ==
    ASSUME NEW s \in Machines
    PROVE  /\ \A o \in Ask(s) : Stays(s, o)
           /\ \A error : \A o \in Err(s, error) \cup MayErr(s, error) : Stays(s, o)
           /\ \A o \in AskNonce(s) : Stays(s, o)
           /\ \A o \in AskRoot(s) : Stays(s, o)
           /\ \A o \in AskNoc(s) : Stays(s, o)
           /\ \A o \in AskNetwork(s) : Stays(s, o)
<1>1. ASSUME NEW o \in Ask(s) PROVE Stays(s, o)
  <2> DEFINE crumb == s.stage \in BreadcrumbStages
             nonce == IF s.stage \in NonceStages THEN s.drawn + 1 ELSE 0
             asked == [s EXCEPT
               !.awaiting   = ExpectOf[s.stage],
               !.breadcrumb = IF crumb THEN @ + 1 ELSE @,
               !.drawn      = IF nonce > 0 THEN nonce ELSE @,
               !.attNonce   = IF s.stage = "SendAttestationRequest" THEN nonce ELSE @,
               !.csrNonce   = IF s.stage = "SendOpCertSigningRequest" THEN nonce ELSE @]
             a == [type       |-> "Request",
                   stage      |-> s.stage,
                   expect     |-> ExpectOf[s.stage],
                   session    |-> IF s.stage = "SendComplete" THEN "Case" ELSE "Pase",
                   seconds    |-> ArmSeconds(s),
                   breadcrumb |-> IF crumb THEN s.breadcrumb ELSE 0,
                   nonce      |-> nonce]
  <2>1. o \in Ok(asked, a)
    BY Zenon DEF Ask
  <2>2. /\ asked.stage = s.stage /\ asked.network = s.network /\ asked.pai = s.pai
        /\ {"stage", "network", "pai", "pending"} \subseteq DOMAIN asked
    BY Zenon DEF Machines
  <2> HIDE DEF asked, a
  <2>. QED
    BY <2>1, <2>2, OkStays, Zenon
<1>2. \A error : \A o \in Err(s, error) \cup MayErr(s, error) : Stays(s, o)
  BY DEF Err, MayErr, Stays, Polled
<1>3. ASSUME NEW o \in AskNetwork(s) PROVE Stays(s, o)
  <2>1. \A p \in Err([s EXCEPT !.breadcrumb = @ + 1], "OutOfOrderResponse") : Stays(s, p)
    BY DEF Err, Stays, Polled, Machines
  <2>. QED
    BY <1>1, <2>1, Zenon DEF AskNetwork
<1>. QED
  BY <1>1, <1>2, <1>3, Zenon DEF AskNonce, AskRoot, AskNoc

\* So do the actions that take no request.
LEMMA BareStays ==
    ASSUME NEW s \in Machines
    PROVE  /\ \A o \in FindOperational(s) : Stays(s, o)
           /\ \A o \in Cleanup(s) : Stays(s, o)
           /\ \A o \in Ok([s EXCEPT !.awaiting = None], Bare("Abort")) : Stays(s, o)
<1>1. \A y \in {s, [s EXCEPT !.awaitingCase = TRUE], [s EXCEPT !.awaiting = None]} :
        /\ y.stage = s.stage /\ y.network = s.network /\ y.pai = s.pai
        /\ {"stage", "network", "pai", "pending"} \subseteq DOMAIN y
  BY Zenon DEF Machines
<1>2. \A o \in FindOperational(s) : Stays(s, o)
  BY <1>1, OkStays, Zenon DEF FindOperational
<1>3. \A o \in Ok([s EXCEPT !.awaiting = None], Bare("Abort")) : Stays(s, o)
  BY <1>1, OkStays, Zenon
<1>4. \A o \in Ok(s, Bare("Done")) : Stays(s, o)
  BY <1>1, OkStays, Zenon
<1>5. \A o \in Err(s, "OutOfOrderResponse") : Stays(s, o)
  BY AskStays, Zenon
<1>. QED
  BY <1>2, <1>3, <1>4, <1>5, Zenon DEF Cleanup

\* Issuing the chain leads to the request for the root, or nowhere.
LEMMA GenerateNocChainMoves ==
    ASSUME NEW s \in Machines, NEW o \in GenerateNocChain(s)
    PROVE  Polled(s, o) /\ o.sm.stage \in {s.stage, "SendTrustedRootCert"}
<1> DEFINE z == [s EXCEPT !.issuedNoc = TRUE]
           y == Advance(z, "SendTrustedRootCert")
<1>1. z \in Machines /\ z.network = s.network /\ z.pai = s.pai
  BY Zenon DEF Machines
<1> HIDE DEF z
<1>2. y \in Machines /\ y.stage = "SendTrustedRootCert" /\ y.network = s.network /\ y.pai = s.pai
  BY <1>1, StagesAre, AdvanceFields
<1>3. o \in Err(s, "OutOfOrderResponse") \/ o \in MayErr(s, "IssueNoc") \/ o \in AskRoot(y)
  BY Zenon DEF GenerateNocChain, z
<1> HIDE DEF y
<1>4. CASE o \in AskRoot(y)
  <2>1. Stays(y, o)
    BY <1>2, <1>4, AskStays, Zenon
  <2>. QED
    BY <1>2, <2>1, Zenon DEF Stays, Polled
<1>5. CASE o \in Err(s, "OutOfOrderResponse") \/ o \in MayErr(s, "IssueNoc")
  <2>1. Stays(s, o)
    BY <1>5, AskStays, Zenon
  <2>. QED
    BY <2>1, Zenon DEF Stays
<1>. QED
  BY <1>3, <1>4, <1>5, Zenon

\* poll moves the cursor on over the stages that need no reply, and a machine
\* at its end says Done.
LEMMA PollMovesOn ==
    ASSUME NEW s, MachineInv(s), NEW o \in Poll(s)
    PROVE  /\ Polled(s, o)
           /\ o.sm.stage = s.stage \/ <<s.stage, o.sm.stage>> \in PollMoves
           /\ s.stage = "Cleanup" /\ s.pending = NoAction => o.returns.type = "Done"
<1>1. s \in Machines /\ s.stage \in Stages
  BY Zenon DEF MachineInv, Machines
<1>2. CASE s.pending # NoAction
  BY <1>2 DEF Poll, Polled
<1>3. CASE s.pending = NoAction
  <2>1. o \in DispatchStage(s)
    BY <1>3, Zenon DEF Poll
  <2>2. CASE s.stage = "SecurePairing"
    <3> DEFINE z == [s EXCEPT !.stage = "ReadCommissioningInfo"]
    <3>1. /\ z \in Machines /\ z.stage = "ReadCommissioningInfo" /\ o \in Ask(z)
          /\ z.network = s.network /\ z.pai = s.pai
      BY <1>1, <2>1, <2>2, StagesAre DEF Machines, DispatchStage, NonceStages
    <3> HIDE DEF z
    <3>2. Stays(z, o)
      BY <3>1, AskStays, Zenon
    <3>. QED
      BY <3>1, <3>2, <2>2, Zenon DEF Stays, Polled, PollMoves
  <2>3. CASE s.stage = "AttestationVerification"
    <3> DEFINE z == Advance(s, "SendOpCertSigningRequest")
    <3>1. /\ z \in Machines /\ z.stage = "SendOpCertSigningRequest"
          /\ z.network = s.network /\ z.pai = s.pai
      BY <1>1, StagesAre, AdvanceFields
    <3>2. /\ Fail(s) \in Machines /\ Fail(s).stage = "Failed"
          /\ Fail(s).network = s.network /\ Fail(s).pai = s.pai
      BY <1>1, StagesAre, AdvanceFields DEF Fail
    <3>3. o \in Err(Fail(s), "Attestation") \/ o \in AskNonce(z)
      BY <2>1, <2>3, Zenon DEF DispatchStage, NonceStages, VerifyAttestation
    <3> HIDE DEF z
    <3>4. Stays(Fail(s), o) \/ Stays(z, o)
      BY <3>1, <3>2, <3>3, AskStays, Zenon
    <3>. QED
      BY <3>1, <3>2, <3>4, <2>3, Zenon DEF Stays, Polled, PollMoves
  <2>4. CASE s.stage = "ValidateCsr"
    <3> DEFINE z == [s EXCEPT !.verifiedCsr = TRUE]
               y == Advance(z, "GenerateNocChain")
    <3>1. z \in Machines /\ z.network = s.network /\ z.pai = s.pai
      BY <1>1, Zenon DEF Machines
    <3>2. o \in Err(s, "Csr") \/ o \in GenerateNocChain(y)
      BY <2>1, <2>4, Zenon DEF DispatchStage, NonceStages, ValidateCsr
    <3> HIDE DEF z
    <3>3. y \in Machines /\ y.stage = "GenerateNocChain" /\ y.network = s.network /\ y.pai = s.pai
      BY <3>1, StagesAre, AdvanceFields
    <3> HIDE DEF y
    <3>4. CASE o \in Err(s, "Csr")
      <4>1. Stays(s, o)
        BY <1>1, <3>4, AskStays, Zenon
      <4>. QED
        BY <4>1, <2>4, Zenon DEF Stays
    <3>5. CASE o \in GenerateNocChain(y)
      <4>1. Polled(y, o) /\ o.sm.stage \in {y.stage, "SendTrustedRootCert"}
        BY <3>3, <3>5, GenerateNocChainMoves, Zenon
      <4>. QED
        BY <4>1, <3>3, <2>4, Zenon DEF Polled, PollMoves
    <3>. QED
      BY <3>2, <3>4, <3>5, Zenon
  <2>5. CASE s.stage = "GenerateNocChain"
    <3>1. o \in GenerateNocChain(s)
      BY <2>1, <2>5, Zenon DEF DispatchStage, NonceStages
    <3>. QED
      BY <1>1, <3>1, <2>5, GenerateNocChainMoves, Zenon DEF PollMoves
  <2>6. CASE s.stage = "EvictPreviousCaseSessions"
    <3> DEFINE z == Advance(s, "FindOperationalForComplete")
    <3>1. /\ z \in Machines /\ z.stage = "FindOperationalForComplete"
          /\ z.network = s.network /\ z.pai = s.pai
      BY <1>1, StagesAre, AdvanceFields
    <3>2. o \in FindOperational(z)
      BY <2>1, <2>6, Zenon DEF DispatchStage, NonceStages
    <3> HIDE DEF z
    <3>3. Stays(z, o)
      BY <3>1, <3>2, BareStays, Zenon
    <3>. QED
      BY <3>1, <3>3, <2>6, Zenon DEF Stays, Polled, PollMoves
  <2>7. CASE s.stage \in {"FindOperationalForComplete", "Failed"}
    <3>1. \/ o \in FindOperational(s)
          \/ o \in Ok([s EXCEPT !.awaiting = None], Bare("Abort"))
      BY <2>1, <2>7, Zenon DEF DispatchStage, NonceStages
    <3>2. Stays(s, o)
      BY <1>1, <3>1, BareStays, Zenon
    <3>. QED
      BY <3>2, <2>7, Zenon DEF Stays
  <2>8. CASE s.stage = "Cleanup"
    <3>1. o \in Cleanup(s)
      BY <2>1, <2>8, Zenon DEF DispatchStage, NonceStages
    <3>2. Stays(s, o)
      BY <1>1, <3>1, BareStays, Zenon
    <3>3. s.issuedNoc
      BY <2>8, Zenon DEF MachineInv, Proven, Credentialed
    <3>4. o.returns = Bare("Done")
      BY <3>1, <3>3 DEF Cleanup, Ok
    <3>5. o.returns.type = "Done"
      BY <3>4, NoActionType, Zenon
    <3>. QED
      BY <3>2, <3>5, Zenon DEF Stays
  <2>9. CASE s.stage \notin {"SecurePairing", "AttestationVerification", "ValidateCsr",
                             "GenerateNocChain", "EvictPreviousCaseSessions",
                             "FindOperationalForComplete", "Cleanup", "Failed"}
    <3>1. \/ o \in Ask(s) \/ o \in AskNonce(s) \/ o \in AskRoot(s)
          \/ o \in AskNoc(s) \/ o \in AskNetwork(s)
      BY <2>1, <2>9, Zenon DEF DispatchStage
    <3>2. Stays(s, o)
      BY <1>1, <3>1, AskStays, Zenon
    <3>. QED
      BY <3>2, <2>9, Zenon DEF Stays
  <2>. QED
    BY <2>2, <2>3, <2>4, <2>5, <2>6, <2>7, <2>8, <2>9, Zenon
<1>. QED
  BY <1>2, <1>3, Zenon

\* Where a good reply leads.
ReplyMoves ==
    {<<"ReadCommissioningInfo", "ArmFailsafe">>,
     <<"ArmFailsafe", "ConfigRegulatory">>,
     <<"ConfigRegulatory", "SendPaiCertRequest">>,
     <<"SendPaiCertRequest", "SendDacCertRequest">>,
     <<"SendDacCertRequest", "SendAttestationRequest">>,
     <<"SendAttestationRequest", "AttestationVerification">>,
     <<"SendOpCertSigningRequest", "ValidateCsr">>,
     <<"SendTrustedRootCert", "SendNoc">>,
     <<"SendNoc", "ReadNetworkCommissioningInfo">>,
     <<"ReadNetworkCommissioningInfo", "NetworkSetup">>,
     <<"ReadNetworkCommissioningInfo", "EvictPreviousCaseSessions">>,
     <<"NetworkSetup", "FailsafeBeforeNetworkEnable">>,
     <<"FailsafeBeforeNetworkEnable", "NetworkEnable">>,
     <<"NetworkEnable", "EvictPreviousCaseSessions">>,
     <<"SendComplete", "Cleanup">>}

\* The stage after a reply is one of those, and only a network read can lead
\* nowhere.
LEMMA StageAfterMoves ==
    ASSUME NEW s, NEW r, s.stage \in WireStages
    PROVE  LET next == StageAfter(s, ExpectOf[s.stage], r)
           IN  /\ next # None => next \in Stages /\ <<s.stage, next>> \in ReplyMoves
               /\ s.stage = "SendComplete" => next = "Cleanup"
<1> DEFINE e == ExpectOf[s.stage]
           next == StageAfter(s, e, r)
<1>1. /\ e = "NetworkCommissioningInfo" =>
           next \in {"EvictPreviousCaseSessions", "NetworkSetup", None}
      /\ e = "ArmFailsafeResponse" =>
           \/ s.stage = "ArmFailsafe" /\ next = "ConfigRegulatory"
           \/ s.stage = "FailsafeBeforeNetworkEnable" /\ next = "NetworkEnable"
           \/ next = None
  BY Zenon DEF StageAfter, NetworkRoute, StageAfterArm
<1>2. /\ e = "CommissioningInfo" => next = "ArmFailsafe"
      /\ e = "SetRegulatoryConfigResponse" => next = "SendPaiCertRequest"
      /\ e = "PaiCertChainResponse" => next = "SendDacCertRequest"
      /\ e = "DacCertChainResponse" => next = "SendAttestationRequest"
      /\ e = "AttestationResponse" => next = "AttestationVerification"
      /\ e = "CsrResponse" => next = "ValidateCsr"
      /\ e = "AddTrustedRootResponse" => next = "SendNoc"
      /\ e = "NocResponse" => next = "ReadNetworkCommissioningInfo"
      /\ e = "NetworkConfigResponse" => next = "FailsafeBeforeNetworkEnable"
      /\ e = "ConnectNetworkResponse" => next = "EvictPreviousCaseSessions"
      /\ e = "CommissioningCompleteResponse" => next = "Cleanup"
  BY Zenon DEF StageAfter, StageAfterInfo
<1> HIDE DEF next
<1>3. next # None => next \in Stages
  BY <1>1, <1>2, WireStage, StagesAre, Zenon
<1>4. next # None => <<s.stage, next>> \in ReplyMoves
  BY <1>1, <1>2, WireStage, Zenon DEF ReplyMoves
<1>5. s.stage = "SendComplete" => next = "Cleanup"
  BY <1>2, WireStage, Zenon
<1>. QED
  BY <1>3, <1>4, <1>5, Zenon DEF next

\* A reply that was asked for moves the machine on, and one that is refused
\* fails it.
LEMMA ResponseMoves ==
    ASSUME NEW s, MachineInv(s), NEW e \in Expectations, NEW r, s.awaiting = e
    PROVE  LET o == OnResponse(s, e, r)
           IN  /\ o.sm.network = s.network
               /\ e # "PaiCertChainResponse" \/ ~o.ok => o.sm.pai = s.pai
               /\ e = "PaiCertChainResponse" /\ o.ok => o.sm.pai = r.cert
               /\ o.ok \in BOOLEAN
               /\ o.ok => /\ r.status \in {"ok", "empty"} /\ o.sm.pending = NoAction
                          /\ <<s.stage, o.sm.stage>> \in ReplyMoves
               /\ ~o.ok => o.sm.stage = "Failed"
               /\ s.stage = "SendComplete" /\ r.status = "ok" => o.ok
<1> DEFINE o == OnResponse(s, e, r)
           usable == r.status = "ok" \/ (r.status = "empty" /\ e = "NetworkCommissioningInfo")
           next   == IF usable THEN StageAfter(s, e, r) ELSE None
           z == Store(s, e, r)
<1>1. s \in Machines /\ s.stage \in WireStages /\ ExpectOf[s.stage] = e /\ e # None
  BY WireStageTypes, Zenon DEF MachineInv, Waiting
<1>2. /\ next = None => o = [sm |-> Fail(s), ok |-> FALSE]
      /\ next # None => o = [sm |-> Advance(z, next), ok |-> TRUE]
  BY <1>1, Zenon DEF OnResponse, HandleResponse
<1>3. /\ Fail(s).stage = "Failed" /\ Fail(s).network = s.network /\ Fail(s).pai = s.pai
  BY <1>1, StagesAre, AdvanceFields DEF Fail
<1>4. /\ z.network = s.network
      /\ e # "PaiCertChainResponse" => z.pai = s.pai
      /\ e = "PaiCertChainResponse" => z.pai = r.cert
      /\ {"stage", "network", "pai", "pending", "awaiting"} \subseteq DOMAIN z
  BY <1>1, Zenon DEF Store, Machines
<1> HIDE DEF z
<1>5. /\ Advance(z, next).network = z.network /\ Advance(z, next).pai = z.pai
      /\ Advance(z, next).stage = next /\ Advance(z, next).pending = NoAction
  BY <1>4, Zenon DEF Advance
<1>6. /\ next # None => usable /\ <<s.stage, next>> \in ReplyMoves
      /\ s.stage = "SendComplete" /\ r.status = "ok" => next # None
  BY <1>1, StageAfterMoves, Zenon DEF None
<1> HIDE DEF next, o
<1> DEFINE Goal ==
             /\ o.sm.network = s.network
             /\ e # "PaiCertChainResponse" \/ ~o.ok => o.sm.pai = s.pai
             /\ e = "PaiCertChainResponse" /\ o.ok => o.sm.pai = r.cert
             /\ o.ok \in BOOLEAN
             /\ o.ok => /\ r.status \in {"ok", "empty"} /\ o.sm.pending = NoAction
                        /\ <<s.stage, o.sm.stage>> \in ReplyMoves
             /\ ~o.ok => o.sm.stage = "Failed"
             /\ s.stage = "SendComplete" /\ r.status = "ok" => o.ok
<1>7. ASSUME next = None PROVE Goal
  <2>1. o.sm = Fail(s) /\ o.ok = FALSE
    BY <1>2, <1>7
  <2>. QED
    BY <1>3, <1>6, <1>7, <2>1, Zenon
<1>8. ASSUME next # None PROVE Goal
  <2>1. o.sm = Advance(z, next) /\ o.ok = TRUE
    BY <1>2, <1>8
  <2>. QED
    BY <1>4, <1>5, <1>6, <1>8, <2>1, Zenon
<1>9. Goal
  BY <1>7, <1>8, Zenon
<1>. QED
  BY <1>9, Zenon DEF o
-----------------------------------------------------------------------------
\* A new machine has proved nothing and waits for nothing.
LEMMA MachineInit == CallerInit => MachineInv(machine)
BY NewIsReady, ReadyIsFine, Zenon DEF CallerInit

\* Every call of the interface keeps the invariant.
LEMMA MachineStep == MachineInv(machine) /\ [CallerNext]_callerVars => MachineInv(machine)'
<1> SUFFICES ASSUME MachineInv(machine), [CallerNext]_callerVars
             PROVE  MachineInv(machine')
  BY Zenon
<1>1. CASE CallPoll
  BY <1>1, PollKeeps, Zenon DEF CallPoll
<1>2. CASE CallOnResponse
  <2>1. 0 .. machine.drawn \in SUBSET Nat
    OBVIOUS
  <2>. QED
    BY <1>2, <2>1, ResponseKeeps, Zenon DEF CallOnResponse
<1>3. CASE CallOnCaseFailed
  BY <1>3, CaseKeeps, Zenon DEF CallOnCaseFailed
<1>4. CASE CallOnCaseEstablished
  BY <1>4, CaseKeeps, Zenon DEF CallOnCaseEstablished
<1>5. CASE CallSetConnectMaxTime
  BY <1>5, SetConnectMaxTimeKeeps, Zenon DEF CallSetConnectMaxTime
<1>6. CASE UNCHANGED callerVars
  BY <1>6, Zenon DEF callerVars
<1>. QED
  BY <1>1, <1>2, <1>3, <1>4, <1>5, <1>6, Zenon DEF CallerNext

\* Whatever its caller does and whatever the device answers, the machine
\* issues credentials only to a device that proved itself in this run.
THEOREM CommissionerNeedsProof == CallerSpec => []CredentialsNeedProof
<1>1. MachineInv(machine) => CredentialsNeedProof
  <2> SUFFICES ASSUME MachineInv(machine), machine.stage \in Credentialed
               PROVE  /\ machine.pai = "genuine" /\ machine.dac = "genuine"
                      /\ machine.attestation = [cert |-> "genuine", nonce |-> machine.attNonce]
                      /\ machine.csr = [cert |-> "genuine", nonce |-> machine.csrNonce]
                      /\ machine.attNonce # 0 /\ machine.csrNonce # 0
                      /\ machine.attNonce # machine.csrNonce
                      /\ machine.issuedNoc
    BY Zenon DEF CredentialsNeedProof
  <2>1. machine \in Machines /\ AttestationHolds(machine) /\ CsrHolds(machine)
        /\ machine.issuedNoc
        /\ machine.csrNonce > machine.attNonce
    BY Zenon DEF MachineInv, Proven, Attested, Signed, CsrHolds
  <2>2. machine.attestation \in Evidence /\ machine.csr \in Evidence
        /\ machine.attNonce \in Nat /\ machine.csrNonce \in Nat
    BY <2>1, Zenon DEF Machines
  <2>. QED
    BY <2>1, <2>2 DEF AttestationHolds, CsrHolds, Evidence
<1>. QED
  BY <1>1, MachineInit, MachineStep, PTL DEF CallerSpec

\* The machine waits for exactly what its outstanding action asked for.
THEOREM CommissionerWaits == CallerSpec => []WaitsForItsAction
<1>1. MachineInv(machine) => WaitsForItsAction
  BY Zenon DEF MachineInv, Waiting, WaitsForItsAction
<1>. QED
  BY <1>1, MachineInit, MachineStep, PTL DEF CallerSpec
-----------------------------------------------------------------------------
\* The place of each stage in the order of next_stage.
LEMMA IndexIs ==
    /\ Index("SecurePairing") = 1
    /\ Index("ReadCommissioningInfo") = 2
    /\ Index("ArmFailsafe") = 3
    /\ Index("ConfigRegulatory") = 4
    /\ Index("SendPaiCertRequest") = 5
    /\ Index("SendDacCertRequest") = 6
    /\ Index("SendAttestationRequest") = 7
    /\ Index("AttestationVerification") = 8
    /\ Index("SendOpCertSigningRequest") = 9
    /\ Index("ValidateCsr") = 10
    /\ Index("GenerateNocChain") = 11
    /\ Index("SendTrustedRootCert") = 12
    /\ Index("SendNoc") = 13
    /\ Index("ReadNetworkCommissioningInfo") = 14
    /\ Index("NetworkSetup") = 15
    /\ Index("FailsafeBeforeNetworkEnable") = 16
    /\ Index("NetworkEnable") = 17
    /\ Index("EvictPreviousCaseSessions") = 18
    /\ Index("FindOperationalForComplete") = 19
    /\ Index("SendComplete") = 20
    /\ Index("Cleanup") = 21
    /\ Index("Failed") = 22
<1>1. ASSUME NEW k \in 1 .. 22
      PROVE  Index(StageOrder[k]) = k
  <2>1. \A i \in 1 .. 22 : StageOrder[i] = StageOrder[k] => i = k
    BY DEF StageOrder
  <2>. QED
    BY <2>1, Zenon DEF Index
<1>2. \A k \in 1 .. 22 : Index(StageOrder[k]) = k
  BY <1>1, Zenon
<1>. QED
  BY <1>2 DEF StageOrder

\* poll and on_response move the cursor on.
LEMMA MovesAdvance ==
    /\ \A m \in PollMoves \cup ReplyMoves : Index(m[2]) >= Index(m[1])
    /\ \A st \in Stages : Index(st) \in 1 .. 22 /\ Index("Failed") >= Index(st)
BY IndexIs, StagesAre DEF PollMoves, ReplyMoves

\* No call ever moves the cursor back, and none leaves Failed.
THEOREM CommissionerOnlyAdvances == CallerSpec => CursorOnlyAdvances
<1>1. MachineInv(machine) /\ [CallerNext]_callerVars
        => [Index(machine'.stage) >= Index(machine.stage)]_callerVars
  <2> SUFFICES ASSUME MachineInv(machine), CallerNext
               PROVE  Index(machine'.stage) >= Index(machine.stage)
    BY Zenon
  <2>1. machine \in Machines /\ machine.stage \in Stages
    BY Zenon DEF MachineInv, Machines
  <2>2. \A st \in Stages : Index(st) \in 1 .. 22 /\ Index("Failed") >= Index(st)
    BY MovesAdvance, Zenon
  <2>3. CASE CallPoll
    <3>1. machine'.stage = machine.stage \/ <<machine.stage, machine'.stage>> \in PollMoves
      BY <2>3, PollMovesOn, Zenon DEF CallPoll
    <3>. QED
      BY <2>1, <2>2, <3>1, MovesAdvance
  <2>4. CASE CallOnResponse
    <3>1. PICK e \in Expectations : \E r : machine' = OnResponse(machine, e, r).sm
      BY <2>4, Zenon DEF CallOnResponse
    <3>2. CASE machine.awaiting = e
      <4>1. machine'.stage = "Failed" \/ <<machine.stage, machine'.stage>> \in ReplyMoves
        BY <3>1, <3>2, ResponseMoves
      <4>. QED
        BY <2>1, <2>2, <4>1, MovesAdvance
    <3>3. CASE machine.awaiting # e
      BY <2>1, <2>2, <3>1, <3>3 DEF OnResponse
    <3>. QED
      BY <3>2, <3>3, Zenon
  <2>5. CASE CallOnCaseFailed
    <3>1. [machine EXCEPT !.awaitingCase = FALSE] \in Machines /\ "Failed" \in Stages
      BY <2>1, StagesAre, ZenonT(30) DEF Machines
    <3>2. Fail([machine EXCEPT !.awaitingCase = FALSE]).stage = "Failed"
      BY <3>1, AdvanceFields, Zenon DEF Fail
    <3>3. machine'.stage \in {machine.stage, "Failed"}
      BY <2>5, <3>2, Zenon DEF CallOnCaseFailed, OnCaseFailed
    <3>. QED
      BY <2>1, <2>2, <3>3
  <2>6. CASE CallOnCaseEstablished
    <3>1. [machine EXCEPT !.awaitingCase = FALSE] \in Machines /\ "SendComplete" \in Stages
      BY <2>1, StagesAre, ZenonT(30) DEF Machines
    <3>2. Advance([machine EXCEPT !.awaitingCase = FALSE], "SendComplete").stage = "SendComplete"
      BY <3>1, AdvanceFields, Zenon
    <3>3. machine.awaitingCase => machine.stage = "FindOperationalForComplete"
      BY Zenon DEF MachineInv, Waiting
    <3>4. \/ machine'.stage = machine.stage
          \/ machine'.stage = "SendComplete" /\ machine.stage = "FindOperationalForComplete"
      BY <2>6, <3>2, <3>3, Zenon DEF CallOnCaseEstablished, OnCaseEstablished
    <3>. QED
      BY <2>1, <2>2, <3>4, IndexIs
  <2>7. CASE CallSetConnectMaxTime
    <3>1. machine'.stage = machine.stage
      BY <2>7, <2>1, Zenon DEF CallSetConnectMaxTime, SetConnectMaxTime, Machines
    <3>. QED
      BY <2>1, <2>2, <3>1
  <2>. QED
    BY <2>3, <2>4, <2>5, <2>6, <2>7, Zenon DEF CallerNext
<1>. QED
  BY <1>1, MachineInit, MachineStep, PTL DEF CallerSpec, CursorOnlyAdvances
=============================================================================
