-------------------------- MODULE CommissionerSpec --------------------------
(***************************************************************************)
(* The commissioning state machine under any caller: it may poll, feed any *)
(* reply to any expectation and report the outcome of CASE, in any order,  *)
(* also when nothing was asked.                                            *)
(***************************************************************************)
EXTENDS Commissioner

VARIABLES
    machine,   \* the Commissioner
    result     \* what the last call returned

callerVars == <<machine, result>>

CallerInit ==
    /\ \E network \in Networks : machine = NewCommissioner(network)
    /\ result = [call |-> None]

CallPoll ==
    \E o \in Poll(machine) :
      /\ machine' = o.sm
      /\ result' = [call |-> "poll", returns |-> o.returns]

CallOnResponse ==
    \E e \in Expectations : \E r \in Replies(e, 0 .. machine.drawn) :
      LET o == OnResponse(machine, e, r)
      IN  /\ machine' = o.sm
          /\ result' = [call |-> "on_response", ok |-> o.ok, expect |-> e]

CallOnCaseFailed ==
    LET o == OnCaseFailed(machine)
    IN  machine' = o.sm /\ result' = [call |-> "on_case_failed", ok |-> o.ok]

CallOnCaseEstablished ==
    LET o == OnCaseEstablished(machine)
    IN  machine' = o.sm /\ result' = [call |-> "on_case_established", ok |-> o.ok]

\* Crate-private: the driver calls it once the network read was taken.
CallSetConnectMaxTime ==
    \E t \in Durations :
      /\ machine.stage \in {"NetworkSetup", "EvictPreviousCaseSessions"}
      /\ machine.pending = NoAction
      /\ machine' = SetConnectMaxTime(machine, t)
      /\ result' = [call |-> "set_connect_max_time"]

CallerNext ==
    \/ CallPoll
    \/ CallOnResponse
    \/ CallOnCaseFailed
    \/ CallOnCaseEstablished
    \/ CallSetConnectMaxTime

CallerSpec == CallerInit /\ [][CallerNext]_callerVars
-----------------------------------------------------------------------------
Index(stage) == CHOOSE i \in 1 .. 22 : StageOrder[i] = stage

\* The machine has the shape of the code's struct.
MachineTypeOK ==
    /\ machine.stage \in Stages /\ machine.network \in Networks
    /\ {machine.pai, machine.dac} \subseteq {None, "genuine", "other"}
    /\ {machine.attNonce, machine.csrNonce} \subseteq 0 .. machine.drawn
    /\ machine.drawn \in 0 .. 2
    /\ machine.breadcrumb \in 1 .. 6
    /\ machine.failsafe \in Durations \cup {DefaultFailsafeSeconds}
    /\ machine.awaiting \in Expectations \cup {None}
    /\ machine.pending.type \in {None, "Request", "EstablishCase", "Done", "Abort"}

\* The machine waits for exactly what its outstanding action asked for: a
\* request for its own reply, EstablishCase for the outcome of CASE, and
\* nothing once it is finished.
WaitsForItsAction ==
    /\ machine.awaiting # None =>
         /\ machine.pending.type = "Request"
         /\ machine.pending.expect = machine.awaiting
         /\ machine.pending.stage = machine.stage
    /\ machine.pending.type = "Request" => machine.awaiting # None
    /\ machine.awaitingCase <=> machine.pending.type = "EstablishCase"
    /\ machine.stage = "Failed" => machine.pending.type \in {None, "Abort"}

\* Whatever the caller does, the fabric's root and an operational certificate
\* are handed out only to a device whose attestation, made for the nonce of
\* this run, was verified, and whose CSR was.
CredentialsNeedProof ==
    machine.stage \in Credentialed =>
      /\ machine.pai = "genuine" /\ machine.dac = "genuine"
      /\ machine.attestation = [cert |-> "genuine", nonce |-> machine.attNonce]
      /\ machine.csr = [cert |-> "genuine", nonce |-> machine.csrNonce]
      /\ machine.attNonce # 0 /\ machine.csrNonce # 0 /\ machine.attNonce # machine.csrNonce
      /\ machine.issuedNoc

\* The cursor never goes back, whatever replies arrive late, twice or to the
\* wrong request; Failed is where it stays.
CursorOnlyAdvances == [][Index(machine'.stage) >= Index(machine.stage)]_callerVars
=============================================================================
