# A TLA+ model of the matter-rust controller

`matter-rust` is a Matter controller: it commissions devices over BLE or UDP,
keeps encrypted sessions with them and reads, writes, invokes and subscribes
over those sessions. This directory holds a formal model of its protocol core:
TLA+ modules translated from the Rust source, TLC configurations that check
them on small instances, and TLAPS proofs of the properties that matter most
for every value of the constants. `PROJECT.json` maps each definition to the
source lines it stands for.

To check a model: `tlc -config MCBtp.cfg MCBtp`. To check a proof:
`tlapm SessionDeliveryProofs.tla`.

## 1. The system

Everything is under `src/crates/`. The layers, from the wire up:

| Component | Source | State | Operations | Module |
|---|---|---|---|---|
| replay window | `matter-transport/src/framing.rs` | highest counter, bitmap of 32 behind it | `classify`, `check_and_record` | `ReplayWindow`, `ReplayWindowSpec` |
| MRP | `matter-transport/src/mrp.rs` | exchange table, retransmit table, owed ACKs, displaced ACKs | send, receive, timeout, close, flush, reclaim | `Mrp` |
| secure session | `matter-transport/src/session.rs` | outbound counter, next exchange id, replay window, MRP state | encode, decode, timers, end of an exchange, flush | `SecureSession` |
| session table | `matter-transport/src/session.rs` | id -> session, next id, creation order, cap | allocate, register, evict, remove | `SessionTable` |
| BTP engine | `matter-ble/src/session.rs` | windows, outstanding interval, reassembly, two timers | queue, write, complete, indicate, time out | `Btp` |
| BLE central | `matter-ble/src/central.rs` | pump loop around one engine | write all, then select | `Btp` (the pump's order) |
| commissioning state machine | `matter-commissioning/src/state_machine/` | stage, slots for the device's evidence, outstanding action | `poll`, `on_response`, `on_case_established`, `set_connect_max_time_seconds` | `Commissioner`, `CommissionerSpec` |
| commissioning driver | `matter-commissioning/src/driver/commission.rs`, `exchange.rs` | the run: sessions, outstanding request, rollback | poll loop, round trips, deadlines, rollback | `Commissioning` |
| CASE driver, unsecured exchange | `matter-commissioning/src/driver/{case,unsecured}.rs` | one handshake with its retransmission schedule | send, wait, retransmit, resize, report status | `UnsecuredExchange`, `OtaSpec` |
| CASE protocol | `matter-crypto/src/case/` | type-state machines around SIGMA, with resumption | one call per message | `Case` |
| controller actor | `matter-controller/src/actor.rs` | session cache, connects and their waiters, pending requests, subscriptions, resubscribe queue | one handler per command, completion, packet and timer | `Controller`, `ControllerSpec` |
| persistence | `matter-controller/src/{actor,state}.rs`, `store/file.rs` | what is in memory and in the store, save gate, group counter block | save, reserve, load | `Persistence` |
| BDX sender | `matter-bdx/src/sender.rs` | state, block size, offset, next block | init, block query, acknowledgement | `BlockSender` |
| OTA provider | `matter-controller/src/provider_server.rs`, `matter-ota/src/provider.rs` | credentials, resumption records, current session and transfer | accept, serve | `ProviderServer` |
| PASE | `matter-commissioning/src/driver/pase.rs`, `matter-crypto/src/pase/` | type-state machine around SPAKE2+ | one call per message | not modelled |
| report accumulator | `matter-interaction/src/accumulator.rs` | attribute values merged over chunks | push a chunk | not modelled |
| ICD check-in | `matter-crypto/src/checkin.rs`, `matter-controller/src/icd.rs` | none | decode, verify | not modelled |
| codec, certificates, clusters, setup payloads | `matter-codec`, `matter-cert`, `matter-clusters`, `matter-commissioning/src/{setup,noc}` | none | pure conversions | not modelled |
| UDP, discovery | `matter-transport/src/{tokio_udp,mdns_sd_discovery}.rs` | sockets, the mDNS daemon | I/O | not modelled |

How they interact. The controller, or the commissioning driver, asks the
session manager to encode a message; MRP gives it an exchange and a retransmit
entry and lets it carry the ACK the exchange owes; the packet goes out over UDP
or, fragmented by BTP, over BLE. What comes back is decrypted, passed through
the replay window, handed to MRP, and then to the application. Timers of MRP
and BTP are served by the owner's loop. Commissioning is a state machine that
only says what to send and what it waits for; the driver does the sending.
The controller actor is one task: it routes each request to the cached session
of its node or parks it behind a connect, keeps it until the reply, the MRP
expiry or its deadline, re-makes subscriptions that lapse, and saves what must
survive. The OTA provider server is a separate loop that accepts CASE sessions
on its own socket and serves one update over them.

What is hard about it:

* packets are lost, duplicated and reordered; a retransmission races its ACK;
* ACKs ride on any message of an exchange, are displaced by newer ones, and are
  repeated for duplicates; both nodes name exchanges from the same id space;
* tables are bounded, counters end, sequence numbers wrap;
* both BTP ends must be able to send an ACK into a window that is closed;
* a device may lapse, restart or refuse at any point of a commissioning run,
  and whatever was done by then must be undone;
* in the controller: callers share one connect attempt, requests are retried on
  a new session while the old answer may still come, subscriptions are re-made
  while reports arrive;
* detached saves run late, and the process may die between any two steps;
* a handshake message that is late or repeated may belong to another attempt.

`PROJECT.json` lists each as a hazard, at the line where it bites, with the
properties that would catch it, or why no property does.

## 2. The modules

### Replay window
`ReplayWindow` translates `ReplayWindow::classify` and `check_and_record`: a
window is `highest` and the set of set bits; `Record` shifts and sets. The
width is a constant (32 in the code). `ReplayWindowSpec` presents counters in
any order, any number of times. `MessageDedup` is the promise: remember every
counter ever accepted, refuse those seen and those more than `Width` behind.

### MRP and secure sessions
`Mrp` is `MrpState` as a record of its four tables and its operations as
functions on it (`Send`, `ProcessInbound`, `HandleTimeoutMrp`, ...). Deadlines
are left out: which entries are due is an argument, so every timing, jitter and
back-off is covered. `SecureSession` is the two ends of one session, both
running this code, over a network that is the set of all packets ever sent:
delivering any member at any time, any number of times or never, is loss,
duplication and reordering. One action is one call of the session manager:

| Action | Code |
|---|---|
| `EncodeNew`, `EncodeById`, `EncodeWithRole` | `encode_outbound(None / Some(id))`, `encode_outbound_with_role` |
| `HandleTimeout` | `handle_timeout` and `fold_timer_event`: retransmits, expiries and the standalone ACKs that fire, numbered in any order, an ACK lost where the counter ends |
| `EndExchange` | `finish_exchange`, `abort_exchange` |
| `FlushSessionAcks` | `flush_session_acks` |
| `DecodeAccepted`, `DecodeTableFull`, `DecodeDuplicate` | the three ways through `decode_inbound` once the packet authenticates |

Encryption is assumed to hide and authenticate; a packet is a record of the
header fields that steer the receiver. A call that returns an error before it
changes anything is no step. The variables named `transmitted`, `outcome`,
`accepted`, `refused` and `lostAcks` are history.

### BTP
`Btp` is both ends of a link after the handshake, over two FIFO channels. The
peripheral is a device and not in the repository; it is given the same engine.
The pump of `central.rs` is what drives an engine: it writes all the data the
engine offers, then the ACK that is due, each GATT write awaited, and only then
listens again; `Urgent` and `Drained` state that order. Time is ticks, and a
tick passes only when nothing can happen at once. `SeqBound` can stop the
numbering before it wraps; every run sets it to `SeqMod` and lets it wrap. A
link has one of a set of settings (`Links`): message lengths, the reassembly
cap, the ACK timeout, and who may go away.

### Commissioning
`Commissioner` is the struct of that name as a record and each method as a
function. `poll` has a set of outcomes, for randomness, certificate building
and the issuer may fail. A reply is what the handlers tell apart: whether it
decodes, its status, whether a certificate or a signature is genuine, which
nonce it echoes, and the few numbers the machine keeps. `CommissionerSpec` lets
any caller make any call at any time with any reply.

`Commissioning` composes it with the driver and a device. The device is external;
it is modelled by what the driver relies on: a fail-safe that must be armed for
anything to change, that undoes every change when it lapses or is disarmed, and
that CommissioningComplete makes permanent. A request is acted on at most once,
acknowledged on its own or by its reply, and gives up when retransmissions run
out, which is what `SecureSession` shows of a session. Loss, refusal, lapse of
the fail-safe and a restart of the device may come between any two steps.

### Controller
`Controller` is the struct `Actor` as one record `c`, and each handler as an
operator from `c` to the next. A piece of work is the same record whether the
code holds it as a `Pending`, a `ConnectWaiter` or a `PendingResubscribe`, so
losing it or doubling it shows. `SessionTable` is the session manager's table
underneath. `ControllerSpec` adds what is outside: callers, connect tasks, the
devices, and deadlines.

| Action | Code |
|---|---|
| `Ask` | the command arms for read, invoke, write and subscribe: `handle_*`, `send_request` on a cached session, else `enqueue_connect_waiter` |
| `TaskFinishes`, `ConnectDone` | the end of a spawned handshake; `handle_connect_done` with everything it resumes, fails or starts again |
| `Receive`, `AckArrives`, `CloseArrives`, `ReportArrives` | `handle_inbound` and the dispatch below it |
| `Timers` | the timer arm as a whole and in its order: MRP events, response deadlines, liveness, resubscribes, lookups |
| `Forget`, `DropHandle`, `Cancel`, `ResubscribeNow` | the commands of those names |
| `DeviceHandles`, `DeviceRestarts`, `DeviceCloses`, `DeviceRecords` | the device (external): it acts on a request once, answers or not, loses or closes sessions, records events |

The loop serves overdue timers before it looks at any channel, so each other
action happens when nothing is due. Deadlines are not measured: any may pass
next. What MRP does below is taken from `SecureSession`: a message is
acknowledged after the device had it, or given up.

Of a device the model takes that it gives up a subscription whose report was answered
InvalidSubscription, the answer of `answer_stray_report`. It records events only while one
subscription is asked for: a device that gives out a wire id twice could else have a report
taken for that of another subscription, which `find_report_subscription` puts down to a device
that does not comply. The consumer keeps up, so the buffer that drops reports and says
`Lagged` is not in the model.

### Persistence
`Persistence` keeps two copies of the state, `mem` and `disk`. A durable
operation changes `mem`, makes a save job with the next sequence number and
waits for it (`busy`), which is a step of its own (`OperationEnds`,
`ReserveEnds`), so detached jobs, failures and crashes come in between. A job
is written only if no later one was (`MayWrite`, the gate of `SaveJob::run`).
`Crash` loses the jobs that have not run; `Reopen` does not.

### CASE and OTA
`Case` is both CASE machines over symbolic cryptography: a key is the tuple of
what it is derived from. `UnsecuredExchange` is the initiator's stop-and-wait
exchange with the cap on its waits. `BlockSender` is the BDX sender over bytes
that stand for themselves. `ProviderServer` is the server's whole sequential
code as one operator, `Handle`: from the reception of a frame to the next
reception. `OtaSpec` composes them with nodes that run the repository's own
CASE driver and act as OTA requestor, over a network that keeps every datagram
for ever.

## 3. The runs

| Run | Configuration | What it shows |
|---|---|---|
| `replay_window` | width 3, counters 0..8 | the bitmap decides what the history of accepted counters decides: it implements `MessageDedup` (`ImplementsDedup`) |
| `session` | two nodes, 2 + 1 messages, 2 transmissions, window 1, 2 exchanges, 1 displaced ACK; counters end after 3 and 2 packets | every table, counter and ACK property below; 275,015 states |
| `session_live` | one message each, timers served | every reliable send settles (`ReliableSettles`), every owed ACK leaves (`OwedAckLeaves`) |
| `btp` | window 3, 6-byte fragments, sequence numbers modulo 8; two messages each way on a link that stands, or one too long to reassemble with a peripheral that may leave; 65,795 states | SDUs arrive whole and in order, no protocol error between two correct ends, the window is respected but where numbers wrap, what is queued is delivered, a silent peer is noticed even while an ACK cannot be sent |
| `btp_wrap` (violation) | the link that stands | the window is exceeded by one where numbers wrap |
| `commissioner` | any caller, all local faults | credentials need proof, whatever is called and answered in whatever order |
| `commissioning` | all networks, both transports, all faults | success means commissioned, only genuine devices get certificates, always under a fail-safe, failed runs are undone, undisturbed runs succeed, no wait over BLE is endless |
| `controller` | one node; a read and an action in any order or a write of two chunks after the read; 2 connects, 3 requests on the wire, 1 fault; 69,230 states | no caller is lost or answered twice, and each is answered; connects coalesce; sessions in use are registered; what acts on the device is repeated only after MRP gave up |
| `subscriptions` | one node, connected; 2 subscriptions, 2 wire ids, 3 events, 1 fault; 291,132 states | each subscription is in one place, reports find theirs, events once, in order and without gaps, only an overtaken request ends siblings |
| `controller_deadline` (violation) | one read | a read sent again after its deadline has no time left |
| `persistence` | 2 devices, 1 key set, blocks of 2 counters, 4 counters, 3 saves per actor, 1 restart; 3,439,501 states | no group counter twice, what a caller was told survives, a forgotten device stays forgotten |
| `ota` | the pinned node connecting twice, with a record from before or a slow server, or once beside another node; image of 3 bytes in blocks of 2; 299,336 states | keys agree and are fresh, handshakes verify, only the pinned node is served, the image is whole, only a spent pool or the node's abort fails the serve |

The session properties, in words. `TableHoldsTheWork`: no retransmit and no owed ACK
outlives its exchange, and no exchange outlives its work.
`CounterNamesOnePacket`: a counter, hence a nonce, is used for one packet only,
by whichever of the five paths it was numbered. `AcceptedAtMostOnce`: nothing is
handed up twice. `AckedMeansHandled`: an ACK is honest. `AcceptedIsAcknowledged`:
a reliable message taken is acknowledged, or its ACK is still owed, or it was
given up in one of the ways the code gives ACKs up. `OwedIsUnsent`: no ACK is owed
that was already repeated for a duplicate. `TransmissionBudget`: retransmission stops.

The controller's. `EveryCallerIsTracked`: a caller is in one pending exchange or one
queue of waiters until it has its one answer. `OneConnectPerNode`: something will end
each wait, and one connect serves all who wait for a node. `RepeatsOnlyIfGivenUp`: a
command is executed again only if MRP gave a message of it up, since neither a deadline
nor a CloseSession tells whether it was executed; the chunks of a write take effect in
order and once.
`ReportsFindTheirSubscription`: the index never leads to a subscription re-made since.
`EventsOnceAndInOrder`: what a consumer has been handed is an initial part of what the
device recorded, so the event filters of the attempts neither repeat nor skip. Three events
are the fewest at which a filter that skips one shows: one before the attempt breaks off, the
one skipped, one after it.
`OnlyOvertakenEndsSiblings`: a device ends a sibling subscription only for a request
that was sent before that sibling's own. `HandshakesVerify` has two exceptions, which are in
section 5: one at a node, one at the server. `ServeFailsOnlyWhenSpent` is what the server's comments promise of late frames.

Bounds. Each is named in its module. They are the smallest at which the case in
question happens: two messages on one exchange to displace an ACK, a window of
one to make the first message too old, two exchange slots to fill the table with
one from each side, counters that end on both nodes, a window of three to have
partial ACKs, eight sequence numbers to wrap; a request and another behind the same
connect, one reconnect, one restart of a device; a block of counters that ends in the
middle of a run and a last block that is shorter; a commissioner whose node id lies among
the devices'; two attempts, so that frames of one reach the other. `controller` has one
node, for nothing in the actor couples two but the session table at its cap. Constants of the code that only
scale (32 bits of window, 5 transmissions, 2^8 and 2^16 ids) are what the proofs
are for.

Fairness. `session_live`: weak fairness of each due timer, for the owner of a
session manager sleeps until `poll_timeout` and then calls `handle_timeout`; none
of delivery, so the properties hold over a network that loses everything.
`btp*`: weak fairness of every engine step and of time, for the pump is one task
that always runs on, and BLE delivers what it accepts while the link stands.
`commissioning*`: weak fairness of the driver's own steps, its timeouts and the
device's acting on a request that reached it; none of the faults, and none of an
acknowledged request's reply. `controller`: a request's deadline passes and is served, so
does that of the lookups, a handshake task ends and its completion is taken; nothing
is assumed of devices, the network or callers. These are written out in `FairSpec`
as weak fairness with the enabling condition spelled out, which TLC evaluates faster.

`CHECK_DEADLOCK FALSE` stands where the system stops: all messages sent and
settled, the run over, every bound used up.

## 4. What is proved

Eight modules hold proofs; nothing in them is assumed but the `ASSUME`s of the
modules they extend (constants are naturals, 0 is an exchange id, the first
counters are in range, a session has at most two ends, a BTP window and one packet more
are fewer than the sequence numbers: at most 6 against 256 in the code).

| Theorem | Module | For every |
|---|---|---|
| `WindowCorrect`, `WindowImplementsDedup` | `SessionLemmas` | width, counters |
| `SessionTypes`, `SessionTracksWork`, `SessionKeepsBudget` | `SecureSessionProofs` | exchange ids, table sizes, budgets, counters, reliable transports |
| `SessionCountersUnique`, `SessionDeliversOnce`, `SessionAcksAreHonest`, `SessionAcksWhatItTakes`, `SessionAcksOnce`, `SessionStopsResending` | `SessionDeliveryProofs` | the same, and width of the window |
| `BtpNeverRefuses`, `BtpDeliversInOrder`, `BtpKeepsToWindow` | `BtpProofs` | window, fragment size, modulus, SDUs, timeouts and caps |
| `CommissionerNeedsProof`, `CommissionerWaits`, `CommissionerOnlyAdvances` | `CommissionerProofs` | network kinds, durations, local faults |
| `RunEndsCommissioned`, `RunTrustsGenuineDevices`, `RunArmsFirst`, `RunUndoesFailure` | `CommissioningProofs` | the same, transports, and sequences of losses, refusals, lapses and restarts |
| `GroupCountersNeverRepeat`, `ToldIsStored`, `ForgottenStaysForgotten` | `PersistenceProofs` | block size, number of counters, devices, keys, saves and restarts |
| `OtaKeysAgree`, `OtaSessionKeysFresh`, `OtaHandshakesVerify`, `OtaPinnedPeerOnly` | `OtaProofs` | nodes, attempts, collisions of exchange ids, records from before, pool, image and block sizes |

*Replay window.* `WindowMatchesHistory` is inductive with the type invariant; the
work is the shift of the bitmap. The refinement then follows step by step: what
`classify` says of a counter is what the history says. `SessionLemmas` also holds the
facts about one recorded counter that the sessions need (recorded is seen, seen
stays seen, what is newly refused is too old).

*Sessions.* `SessionLemmas` shows for each operation on the tables that it keeps a state
well formed (`Good`) and leaves no idle exchange (`BusyBut(s, X)`, but for a set of
exempt exchanges). The exemption is needed twice: over BTP, where the code does
leave idle exchanges, and inside an operation, between taking an exchange and
giving it work. `SecureSessionProofs` lifts this to both nodes (`TypeInv`), with
`BudgetInv`: transmissions made and transmissions left add up to the budget, for
every pending message. `SessionDeliveryProofs` shows counters unique from the stronger fact
that every packet's counter is below the sender's next (`CounterInv`), delivery at most
once from `OnceInv`, an accepted counter is seen by the window, and the honesty of ACKs
from `AckInv`: every counter in an owed ACK, in an ACK on the wire, refused by the window or
in an `acked` outcome was handled. That no exchange outlives its work is claimed only where
`TransportReliable = {}`; section 5 says why.

Its second half turns to what becomes of an ACK. `OwedOnce` says that no two of the
places an ACK can wait in (an exchange, the displaced ones) hold one for the same counter;
with `OwedIsUnsent` and `AcceptedIsAcknowledged` it is inductive given `GotInv`, that a node
owes, sends and hands up only what its window has taken in. Every action but the taking
of a message then does one thing to the ACKs owed, `Discharged`: it takes some out, each in a
packet or given up, and no new packet acknowledges what stays. Here it matters that a
session has two ends: an ACK names a counter and not its sender, so with three a packet
for one could pass for an ACK to another. `SettledIsNotResent`, which is an action property
and in no run, follows from `UnackedInv`: no message that is still pending was
acknowledged by a packet its sender has taken.

*BTP.* All three properties relate the two ends, and what relates them is on the wire. Every
step is first shown to be one of four (`StepShape`): it writes a packet, takes one in,
refuses one, or moves none (`Quiet`). `LinkInv` says for each direction that the packets out
and those still on the wire are numbered up to the sender's counter and the receiver expects
the first of them (`Numbering`); that oldest and newest are the ends of what is out, and what
is out and the credit left exceed the window by one at most (`Interval`); and that the ACKs on
their way are of packets out that have left the wire, each of a later packet than the one before
it, with the ACK still owed the last of all (`Acks`). The order of the ACKs is what makes
the interval test pass: an ACK that was overtaken would point below the oldest. At the
central the extra packet is there only while the interval wraps, which is
`WindowRespectedUnlessWrapping`; it needs the window and one packet more to stay below the
modulus, or the numbers out would run into each other.
`StreamInv` says what the packets carry. There is a sequence of positions (SDU, offset) from
where the receiver is to where the sender is, and each packet on the wire takes the stream from
one to the next (`Stream`); what the receiver has gathered is the front of the SDU it is in
(`Gathering`). Writing adds a position at the end, taking a packet in drops the first.

*Commissioning machine.* The invariant `MachineInv` says what the slots prove at each
stage (`Proven`) and that what is awaited is what the outstanding action of this
very stage asked for (`Waiting`). The second is needed for the first: a reply fills
a slot only in the stage that asked, before anything relies on it. Nonces are
distinct because the CSR's is drawn after the attestation's, which then is never
drawn again.

*Commissioning run.* The four properties speak of the device, and what is true of it
depends on what the driver asked for and has not yet heard of. The invariant therefore has
five parts. `DriverInv`: the phase of the driver, the outstanding request and the machine
agree, with `MachineInv` inside. `DeviceInv`: the device changes in the order its commands
allow, and unless armed or committed bears no trace of the run. `GenuineInv`: a certificate
the machine holds for genuine came from a genuine device, and so does one in a reply that
is still under way. `FailsafeInv`: unless it lapsed, the fail-safe is armed at every stage
between the arming and CommissioningComplete; the exception is a CommissioningComplete the
device has acted on and whose reply is not here yet. `CommitInv`: the device is committed
exactly where the driver may still come to know it, and a run that failed has left no
trace unless it lost touch with the device. What `poll` and `on_response` do is
taken from the lemmas of `CommissionerProofs`; each action of the run is one lemma per part.

*Group counters.* That no counter went out twice is not inductive: it rests on what the
store holds. `IInv` adds that memory and store agree on the ceiling except while a
reservation is awaited (`CeilingsAgree`); that a detached save which may still be written
holds the ceiling of the store (`JobsAgree`), so that running late it takes nothing back;
that the awaited save is the newest (`AwaitedIsNewest`), so that once it is written the
gate refuses all that were made before; and that what was sent lies below the stored
ceiling and below the live counter (`CountersUsed`). The hypothesis is `Drained`.

*Durability.* `AcknowledgedSurvives` speaks of the store and `ForgottenNeverReturns` of
memory. Neither is inductive: a detached save may replace the store at any time, and a
restart makes memory of the store. `Truthful` says one thing, `Faithful`, of memory, of the
store and of every save the gate would still let through: the state holds what callers were
told is there, lacks what they were told is gone, and knows of no device that was not
started on. It adds that the awaited save is of memory, where the operation is done already
(`AwaitedIsDone`), and that a device which is still being commissioned was not reported
yet and is listed nowhere. That `devices.retain` keeps
exactly the other entries (`RetainFacts`) is shown by counting: the rank of a kept entry is
one-to-one onto `1 .. n`. The hypothesis is `Drained`, as for the counters; section 5 says
what happens without it.

*CASE and OTA.* The network keeps every datagram for ever, so the invariant must speak of
all frames ever sent. `IInv` has three parts. `Server`: the ledger (the records kept are of the
pinned node and under ids drawn so far, no two derived sessions share keys, and no
record has the id that a resumption has used up), the phase (what the responder has in hand belongs to
the accept in progress) and every frame sent to a node. `Node`: an attempt, its exchange and the
session it returned agree with what the server derived. `Arrived` and `Own`: what a frame to the
server may say, and that none of a node is of an attempt to come. Keys are fresh because a full
handshake's name the accept, and a resumption uses its record up and rotates its id; keys agree
because a node takes a Sigma2 or Sigma2Resume only if it was made for its own Sigma1.
`HandshakesVerify` also needs `Answering`: of each accept there is one Sigma2, so a Sigma3 that
answers the accept in hand answers that one and verifies. The assumptions are that the records
an earlier serve left are the pinned node's, under ids that are not drawn again, and that
`None` is none of the values it stands beside.

Only model-checked: all liveness, which is out of the prover's reach; everything about
`Controller`; `ImageIntact` and `ServeFailsOnlyWhenSpent`.

## 5. What the code does otherwise than it says

Two of these are runs that TLC refutes, quoted in `PROJECT.json`:

* `btp_wrap`: `adjust_remote_window` counts one packet too few when the outstanding
  interval wraps, so one packet more than the peer's window may be in flight.
  `WindowRespectedUnlessWrapping` states what does hold.
* `controller_deadline`: `resume_resend_pending` (`actor.rs:5258`) sends a read again with
  the deadline of its first attempt. If that deadline is why it is sent again, it is
  over already, and the next turn of the loop fails the read before the answer can come.

Seen while modelling, on instances that are not kept as runs:

* Over a reliable transport `decode_inbound` cancels an ACK without reclaiming the
  exchange it kept alive (`mrp.rs:1284`, against `mrp.rs:24`). Such exchanges stay until
  they are finished by name, and count against the table's limit.
* A failed CSR check or issuer returns its error and leaves the cursor
  (`commissioner.rs:625`), though the comment at `:390` says `poll` moves it to `Failed`.
  The driver gives up on any error, so a run is not affected.
* Over UDP nothing bounds the wait for the reply to a commissioning request that was
  acknowledged (`commission.rs:1099`, `:1083`). Over BLE the response deadline does
  (`PaseRequestsEnd`).
* A full session table evicts a session without telling the actor (`session.rs:760`). The
  cache keeps leading to it, and each request to that node then fails in `send_request`
  without a reconnect, for a failed send does not evict the route. It takes 256 sessions
  (`SessionsInUseAreRegistered` with `MaxSessions = 1` and two nodes).
* The save gate belongs to one actor. If a controller is dropped and its store opened
  again in the same process while a detached save is still to run, that save can take
  back what the second controller stored: with `Drained = FALSE`, `NoCounterTwice` and
  `AcknowledgedSurvives` fail. The code has nothing that waits for those saves: `Drained`
  restricts the model, not the program.
* `complete_full` and `complete_resumed` take a Sigma1 of a new attempt on the same
  exchange id for a retransmission and answer it with the old attempt's Sigma2, which the
  node cannot verify. This is the first exception in `HandshakesVerify`.
* `complete_full` takes any Sigma3 for the one it waits for, with no regard to exchange or
  sender (`provider_server.rs:701`). A Sigma3 of an earlier accept that is repeated or late
  fails in `handle_sigma3` (`:734`), ends the accept it reaches and costs its credential, though
  the node of this accept did nothing wrong. This is the second exception in
  `HandshakesVerify`. The same goes for the success report in `complete_resumed`: any is taken,
  and a late Sigma3 there, or a late report in `complete_full`, ends the accept.

Read in the code; no property forbids them:

* A connect that completes after its node was forgotten and asked for again serves, or
  fails, the waiters of the new connect (`actor.rs:5108`). No one is lost by it.
* Two commissions at once take the same next node id (`actor.rs:3103`).
* A durable operation whose save fails reports the error and keeps its change in memory,
  from where the next save stores it; only a counter reservation is undone.
* `evict_route_for_pull` leaves sessions behind that `remove_session_if_orphaned`'s
  comment says do not linger (`actor.rs:4585`).
* The expiry of a report's acknowledgement is matched to a pending request by its exchange
  number, which the two sides may both have chosen.
* `serve_ota_once` leaves a live session on any unsecured frame, a late acknowledgement or
  a repeated Sigma1 too, and the next accept takes another credential
  (`provider_server.rs:973`).
* While the server waits for Sigma3, a frame of a secured session fails the accept.
* `send_and_recv_any` starts its wait anew for each frame it skips, so frames of others
  lengthen a handshake beyond its budget, which counts whole waits.
* A `ReceiveInit` that proposes blocks of size 0 is accepted, and empty blocks are sent
  until the bound on messages per serve.

Smaller observations: local sends are not held to `MAX_EXCHANGES_PER_SESSION`
(`mrp.rs:914`); BTP's ACK timeout runs from the first fragment of a busy stretch, not from
the oldest outstanding one (`session.rs:379`); the fail-safe extension before the network
is enabled is not capped by the device's cumulative limit (`commissioner.rs:409`).

## 6. What would come next

1. **Proofs**: `EveryCallerIsTracked` for any number of nodes and requests; `ImageIntact`.
2. **Controller**: two nodes with the session table at its cap, once the code says what
   an eviction does to the cache; the browses and their sharing between lookups.
3. **PASE driver**, on `UnsecuredExchange`, and the discard budget of the accept loop.

## 7. Not modelled

Encodings (TLV, headers, certificates, setup codes), generated clusters, sockets and
the mDNS daemon have no state that interleaves with anything, or none under this
repository's control. Cryptography is assumed to do what it promises. Clock
arithmetic is abstracted to "may be due". The report accumulator folds the chunks of one
report, and a check-in message is decoded against one key: both are sequential and pure.
PASE runs on the unsecured exchange that is modelled; its own machine is a straight line.
Of the actor, the bookkeeping of browses, receive backoff, address checks of inbound
packets and byte limits are left out. Of the server, the discard budget of an accept and the
1024-frame backstop of a serve (`provider_server.rs:957`) are left out; the bound on messages
per serve is modelled, but `Slack` is the code's 64, which no transfer of the run uses up, so
`ServeFailsOnlyWhenSpent` says nothing of a serve that ends by it. `PROJECT.json` gives the reason for each part.
