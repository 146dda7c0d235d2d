---------------------------- MODULE Persistence ----------------------------
(***************************************************************************)
(* What the controller keeps across restarts (matter-controller: actor.rs, *)
(* state.rs, store/file.rs): the fabric, its devices with their resumption *)
(* records, group keys, ICD registrations, and the ceiling of the outbound *)
(* group counter.                                                          *)
(*                                                                         *)
(* A durable operation changes memory, serializes all of it, and awaits    *)
(* the write inside its select! arm (busy): the actor does nothing else,   *)
(* but detached best-effort saves (jobs) run on the blocking pool at any   *)
(* time, and the process may die between any two steps.  A save writes a   *)
(* temporary file and renames it, so the store is replaced or unchanged.   *)
(*                                                                         *)
(* Keys, certificates and addresses are left out; an epoch key and a       *)
(* resumption record are the number of the one that was made.              *)
(***************************************************************************)
EXTENDS Naturals, Sequences, FiniteSets

CONSTANTS Units,             \* devices to commission, each at most once
          KeySets,           \* group key set ids
          Block,             \* GROUP_COUNTER_BLOCK
          MaxCounter,        \* u32::MAX
          FirstNode,         \* FIRST_DEVICE_NODE_ID
          CommissionerNode,  \* the fabric's commissioner.node_id
          MaxSaves,          \* bound: saves an actor starts
          MaxRestarts,       \* bound: crashes and reopens
          Drained            \* TRUE: the store is reopened only after detached saves ended

ASSUME CounterAssumption ==
    Block \in Nat \ {0} /\ MaxCounter \in Nat /\ FirstNode \in Nat /\ MaxRestarts \in Nat

VARIABLES mem,      \* ControllerState
          disk,     \* what the store holds
          seq,      \* snapshot_seq
          gate,     \* the last sequence written, of each actor on this store
          gen,      \* which actor is running
          jobs,     \* detached saves that have not run
          busy,     \* the durable operation that is being awaited
          live,     \* group_counters: the next counter, or Unset
          tasks,    \* commission tasks that are running
          sent,     \* the group counters that went out, in order
          told      \* what callers were told, and what was made so far

vars == <<mem, disk, seq, gate, gen, jobs, busy, live, tasks, sent, told>>

Unset == MaxCounter + 1

NotBusy == [op |-> "none"]

NewGate == [g \in 0 .. MaxRestarts |-> 0]

EmptyState ==
    [fabric |-> FALSE, devices |-> <<>>, keys |-> [k \in KeySets |-> 0],
     icd |-> {}, ceiling |-> 0]

\* A store with a fabric, a key set each, the listed device, and no counter left.
Provisioned(u) ==
    [EmptyState EXCEPT !.fabric = TRUE, !.keys = [k \in KeySets |-> 1],
                       !.devices = <<[node |-> FirstNode, unit |-> u, rec |-> 0]>>]

\* A first start, or a start on the store of an earlier controller.
Init ==
    /\ \E u \in Units :
         \/ /\ mem = EmptyState
            /\ told = [fabric |-> FALSE, kept |-> {}, forgotten |-> {}, icd |-> {}, invalid |-> 0,
                       keys |-> [k \in KeySets |-> 0], made |-> 0, started |-> {}]
         \/ /\ mem = Provisioned(u)
            /\ told = [fabric |-> TRUE, kept |-> {u}, forgotten |-> {}, icd |-> {}, invalid |-> 0,
                       keys |-> mem.keys, made |-> 1, started |-> {u}]
    /\ disk = mem
    /\ seq = 0 /\ gen = 0 /\ gate = NewGate
    /\ jobs = {} /\ busy = NotBusy /\ live = Unset /\ tasks = {} /\ sent = <<>>

Idle == busy.op = "none"

-----------------------------------------------------------------------------
(********************************* Saving **********************************)

\* Mutant: the gate is not asked.
MayAlwaysWrite(g, job) == TRUE

\* SaveJob::run: a job older than the last one written is skipped, which counts as
\* success.
MayWrite(g, job) == job.seq >= g[job.gen]

\* The store after job ran; ok is whether the write works.
StoreAfter(job, ok) == IF ok /\ MayWrite(gate, job) THEN job.state ELSE disk

GateAfter(job, ok) ==
    IF ok /\ MayWrite(gate, job) THEN [gate EXCEPT ![job.gen] = job.seq] ELSE gate

\* save_job: memory as it is now, under the next sequence number.
SaveJob(state) == [gen |-> gen, seq |-> seq + 1, state |-> state]

\* durable_save_inputs and the await of save_offloaded: the operation op with its
\* argument arg has changed memory to state.
AwaitSave(op, arg, state) ==
    /\ seq < MaxSaves /\ mem' = state /\ seq' = seq + 1
    /\ busy' = [op |-> op, arg |-> arg, undo |-> mem.ceiling, job |-> SaveJob(state)]
    /\ UNCHANGED <<disk, gate, gen, jobs, live, sent>>

\* persist_best_effort.
PersistBestEffort(state) ==
    /\ seq < MaxSaves /\ mem' = state /\ seq' = seq + 1
    /\ jobs' = jobs \cup {SaveJob(state)}
    /\ UNCHANGED <<disk, gate, gen, busy, live, tasks, sent>>

DetachedSaveRuns(job, ok) ==
    /\ job \in jobs
    /\ jobs' = jobs \ {job}
    /\ disk' = StoreAfter(job, ok) /\ gate' = GateAfter(job, ok)
    /\ UNCHANGED <<mem, seq, gen, busy, live, tasks, sent, told>>

-----------------------------------------------------------------------------
(******************************* Operations ********************************)

DeviceAt(state, i) == state.devices[i]

NodesOf(state) == {state.devices[i].node : i \in DOMAIN state.devices}

UnitsOf(state) == {state.devices[i].unit : i \in DOMAIN state.devices}

\* The first entry of the device list for node n (iter().find).
FirstAt(state, n) ==
    CHOOSE i \in DOMAIN state.devices :
        /\ state.devices[i].node = n
        /\ \A j \in DOMAIN state.devices : state.devices[j].node = n => i <= j

SetRecord(state, n, r) == [state EXCEPT !.devices[FirstAt(state, n)].rec = r]

\* handle_create_fabric: an id that exists is refused.
CreateFabric ==
    /\ Idle /\ ~mem.fabric
    /\ AwaitSave("fabric", 0, [mem EXCEPT !.fabric = TRUE])
    /\ UNCHANGED <<tasks, told>>

\* handle_create_group: a new epoch key replaces the set's old one.
CreateGroup(k) ==
    /\ Idle /\ mem.fabric
    /\ AwaitSave("group", k, [mem EXCEPT !.keys[k] = told.made + 1])
    /\ told' = [told EXCEPT !.made = @ + 1]
    /\ UNCHANGED tasks

\* handle_persist_icd_registration.
PersistIcdRegistration(n) ==
    /\ Idle /\ mem.fabric
    /\ AwaitSave("icd", n, [mem EXCEPT !.icd = @ \cup {n}])
    /\ UNCHANGED <<tasks, told>>

\* next_device_node_id.
NextDeviceNodeId(state) ==
    LET nodes == NodesOf(state)
        next == IF nodes = {} THEN FirstNode
                ELSE (CHOOSE m \in nodes : \A n \in nodes : n <= m) + 1
    IN  IF next = CommissionerNode THEN next + 1 ELSE next

\* spawn_commission: the node id is chosen now, for a device that is not listed yet.
SpawnCommission(u) ==
    /\ Idle /\ mem.fabric /\ u \notin told.started
    /\ tasks' = tasks \cup {[unit |-> u, node |-> NextDeviceNodeId(mem)]}
    /\ told' = [told EXCEPT !.started = @ \cup {u}]
    /\ UNCHANGED <<mem, disk, seq, gate, gen, jobs, busy, live, sent>>

\* handle_commission_completion of a commission that worked.
CommissionDone(t) ==
    /\ Idle /\ t \in tasks /\ tasks' = tasks \ {t}
    /\ AwaitSave("commission", t.unit,
                 [mem EXCEPT !.devices = Append(@, [node |-> t.node, unit |-> t.unit, rec |-> 0])])
    /\ UNCHANGED told

CommissionFails(t) ==
    /\ Idle /\ t \in tasks /\ tasks' = tasks \ {t}
    /\ UNCHANGED <<mem, disk, seq, gate, gen, jobs, busy, live, sent, told>>

\* devices.retain: the entries of the other nodes, in their order.
RetainOthers(devices, n) ==
    LET others == {i \in DOMAIN devices : devices[i].node # n}
        Rank(i) == Cardinality({j \in others : j <= i})
    IN  [r \in 1 .. Cardinality(others) |-> devices[CHOOSE i \in others : Rank(i) = r]]

\* ForgetNode: the entry goes; for a node that is not listed nothing is saved.
ForgetNode(n) ==
    LET gone == {mem.devices[i].unit : i \in {j \in DOMAIN mem.devices : mem.devices[j].node = n}}
    IN  /\ Idle /\ n \in NodesOf(mem)
        /\ AwaitSave("forget", gone,
                     [mem EXCEPT !.devices = RetainOthers(@, n)])
        /\ told' = [told EXCEPT !.kept = @ \ gone]
        /\ UNCHANGED tasks

\* handle_invalidate_resumption_records.
InvalidateResumptionRecords ==
    /\ Idle /\ mem.fabric
    /\ AwaitSave("invalidate", told.made,
                 [mem EXCEPT !.devices = [i \in DOMAIN @ |-> [@[i] EXCEPT !.rec = 0]]])
    /\ UNCHANGED <<tasks, told>>

\* Mutant: a connect lists the node it reached when it is not there.
UpsertAnyDevice(state, n, r) ==
    LET unlisted == told.started \ UnitsOf(state)
    IN  IF n \in NodesOf(state) THEN SetRecord(state, n, r)
        ELSE IF unlisted = {} THEN state
        ELSE [state EXCEPT !.devices = Append(@,
                 [node |-> n, unit |-> CHOOSE u \in unlisted : TRUE, rec |-> r])]

\* upsert_device changes an entry and never makes one.
UpsertDevice(state, n, r) == IF n \in NodesOf(state) THEN SetRecord(state, n, r) ELSE state

\* A connect to n completed with a new resumption record (upsert_device), or an OTA
\* session rotated it (handle_store_resumption_record).
ConnectDone(n) ==
    /\ Idle /\ mem.fabric
    /\ LET state == UpsertDevice(mem, n, told.made + 1)
       IN  state # mem /\ PersistBestEffort(state)
    /\ told' = [told EXCEPT !.made = @ + 1]

\* recover_from_unusable_resumption_record.  Where there is no record to drop
\* it saves an unchanged state, which is left out.
RecoverFromUnusableRecord(n) ==
    /\ Idle /\ n \in NodesOf(mem)
    /\ DeviceAt(mem, FirstAt(mem, n)).rec # 0
    /\ PersistBestEffort(SetRecord(mem, n, 0))
    /\ UNCHANGED told

\* handle_set_node_vid_pid: what it changes is not modelled, that it saves is.
SetNodeVidPid(n) ==
    /\ Idle /\ n \in NodesOf(mem)
    /\ AwaitSave("vidpid", 0, mem)
    /\ UNCHANGED <<tasks, told>>

-----------------------------------------------------------------------------
(***************************** Group counters ******************************)

\* handle_invoke_group: the next counter is the live one, after a start the ceiling.
NextCounter == IF live = Unset THEN mem.ceiling ELSE live

\* The counter is used up whether or not the socket takes the message.
SendGroup(counter, ok) ==
    /\ live' = counter + 1
    /\ sent' = IF ok THEN Append(sent, counter) ELSE sent

\* A counter of the reserved block.
InvokeGroup(k, ok) ==
    /\ Idle /\ mem.fabric /\ mem.keys[k] # 0
    /\ NextCounter < mem.ceiling
    /\ SendGroup(NextCounter, ok)
    /\ UNCHANGED <<mem, disk, seq, gate, gen, jobs, busy, tasks, told>>

\* The block is used up: the next one, or what is left of the counters, is reserved
\* before anything is sent.
ReserveBlock(k) ==
    LET top == IF NextCounter + Block <= MaxCounter THEN NextCounter + Block ELSE MaxCounter
    IN  /\ Idle /\ mem.fabric /\ mem.keys[k] # 0
        /\ NextCounter >= mem.ceiling /\ NextCounter < MaxCounter
        /\ seq < MaxSaves /\ seq' = seq + 1
        /\ mem' = [mem EXCEPT !.ceiling = top]
        /\ busy' = [op |-> "reserve", arg |-> NextCounter, undo |-> mem.ceiling,
                    job |-> SaveJob(mem')]
        /\ live' = NextCounter
        /\ UNCHANGED <<disk, gate, gen, jobs, tasks, sent, told>>

-----------------------------------------------------------------------------
(***************************** The awaited save ****************************)

\* Mutant: the raised ceiling stays after a save that failed.
KeepCeiling(state) == state

\* The ceiling that never reached the store is taken back.
UndoReserve(state) == [state EXCEPT !.ceiling = busy.undo]

\* The awaited save works, or is skipped because a newer one landed.
SaveWorked(ok) == ok \/ ~MayWrite(gate, busy.job)

Reported ==
    CASE busy.op = "fabric" -> [told EXCEPT !.fabric = TRUE]
      [] busy.op = "group" -> [told EXCEPT !.keys[busy.arg] = mem.keys[busy.arg]]
      [] busy.op = "icd" -> [told EXCEPT !.icd = @ \cup {busy.arg}]
      [] busy.op = "commission" -> [told EXCEPT !.kept = @ \cup {busy.arg}]
      [] busy.op = "forget" -> [told EXCEPT !.forgotten = @ \cup busy.arg]
      [] busy.op = "invalidate" -> [told EXCEPT !.invalid = busy.arg]
      [] busy.op = "vidpid" -> told

\* The save runs and the operation ends: the caller is told of success only if the
\* save worked; if it did not, memory keeps what it was changed to.  (A crash between
\* the write and the answer leaves the same store with less told.)
OperationEnds(ok) ==
    /\ ~Idle /\ busy.op # "reserve"
    /\ disk' = StoreAfter(busy.job, ok) /\ gate' = GateAfter(busy.job, ok)
    /\ told' = IF SaveWorked(ok) THEN Reported ELSE told
    /\ busy' = NotBusy
    /\ UNCHANGED <<mem, seq, gen, jobs, live, tasks, sent>>

ReserveEnds(ok, sending) ==
    /\ busy.op = "reserve"
    /\ disk' = StoreAfter(busy.job, ok) /\ gate' = GateAfter(busy.job, ok)
    /\ IF SaveWorked(ok)
       THEN SendGroup(busy.arg, sending) /\ UNCHANGED mem
       ELSE mem' = UndoReserve(mem) /\ UNCHANGED <<live, sent>>
    /\ busy' = NotBusy
    /\ UNCHANGED <<seq, gen, jobs, tasks, told>>

-----------------------------------------------------------------------------
(******************************** Restarts *********************************)

\* A new actor loads the store.
Load ==
    /\ gen < MaxRestarts /\ gen' = gen + 1
    /\ mem' = disk /\ seq' = 0 /\ busy' = NotBusy /\ live' = Unset /\ tasks' = {}
    /\ gate' = IF jobs' = {} THEN NewGate ELSE gate
    /\ UNCHANGED <<disk, sent, told>>

\* The process dies: saves that have not run never do.
Crash == jobs' = {} /\ Load

\* The controller is dropped and opened again in the same process.  The code does not
\* wait for detached saves of the old actor; with Drained the model does.
Reopen ==
    /\ Idle /\ (Drained => jobs = {})
    /\ UNCHANGED jobs /\ Load

Next ==
    \/ CreateFabric
    \/ \E k \in KeySets : CreateGroup(k) \/ ReserveBlock(k) \/ \E ok \in BOOLEAN : InvokeGroup(k, ok)
    \/ \E u \in Units : SpawnCommission(u)
    \/ \E t \in tasks : CommissionDone(t) \/ CommissionFails(t)
    \/ \E n \in NodesOf(mem) : \/ ForgetNode(n) \/ SetNodeVidPid(n) \/ PersistIcdRegistration(n)
                               \/ RecoverFromUnusableRecord(n)
    \/ \E n \in FirstNode .. CommissionerNode + 1 : ConnectDone(n)
    \/ InvalidateResumptionRecords
    \/ \E ok \in BOOLEAN : OperationEnds(ok) \/ \E sending \in BOOLEAN : ReserveEnds(ok, sending)
    \/ \E job \in jobs, ok \in BOOLEAN : DetachedSaveRuns(job, ok)
    \/ Crash \/ Reopen

Spec == Init /\ [][Next]_vars

-----------------------------------------------------------------------------
(******************************* Properties ********************************)

\* No group counter goes out twice, across failed saves, crashes and restarts: each is
\* above every earlier one (GROUP_COUNTER_BLOCK: a crash skips values but never
\* reuses a sent one).
NoCounterTwice ==
    \A i, j \in DOMAIN sent : i < j => sent[i] < sent[j]

\* What a restart would load always holds every fabric, key set, registration and
\* device a caller was told of and no record that was reported invalid: a detached
\* save that was serialized earlier never takes a durable one back (SaveJob::run).
AcknowledgedSurvives ==
    /\ told.fabric => disk.fabric
    /\ told.kept \subseteq UnitsOf(disk)
    /\ told.icd \subseteq disk.icd
    /\ \A k \in KeySets : disk.keys[k] >= told.keys[k]
    /\ \A i \in DOMAIN disk.devices : disk.devices[i].rec \in {0} \cup (told.invalid + 1 .. told.made)

\* A device that was reported forgotten is never listed again, whatever connect to it
\* completes late and whatever restarts (upsert_device is update-only).
ForgottenNeverReturns == told.forgotten \cap UnitsOf(mem) = {}
=============================================================================
