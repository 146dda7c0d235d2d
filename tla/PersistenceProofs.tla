------------------------- MODULE PersistenceProofs --------------------------
(***************************************************************************)
(* What the controller's store guarantees, for every number of devices,    *)
(* key sets and block sizes, and every number of saves, failures, crashes  *)
(* and restarts, provided the store is reopened only after the detached    *)
(* saves of the last actor have ended (Drained): no outbound group counter *)
(* is ever used twice, nothing a caller was told of is lost, and nothing   *)
(* it was told is gone comes back.                                         *)
(*                                                                         *)
(* NoCounterTwice alone is not inductive.  What carries it (IInv) is that  *)
(* memory and store agree on the ceiling except while a reservation is     *)
(* awaited, and that no detached save which may still be written holds     *)
(* another one.                                                            *)
(*                                                                         *)
(* AcknowledgedSurvives speaks of the store and ForgottenNeverReturns of   *)
(* memory.  Neither is inductive: a detached save may replace the store    *)
(* and a restart makes the store memory.  The invariant (Truthful) says    *)
(* the same of memory, of the store and of every save the gate would still *)
(* let through, and that the operation being awaited has done to memory    *)
(* what its caller is about to be told.                                    *)
(***************************************************************************)
EXTENDS Persistence, TLAPS

\* A serialized state, as far as the counters are concerned.
Snapshot(x) == "ceiling" \in DOMAIN x /\ x.ceiling \in Nat

\* Every counter sent is below n.
SentBelow(n) == \A i \in DOMAIN sent : sent[i] < n

Typed ==
    /\ seq \in Nat /\ gen \in 0 .. MaxRestarts /\ gate \in [0 .. MaxRestarts -> Nat]
    /\ Snapshot(mem) /\ Snapshot(disk)
    /\ live \in Nat /\ sent \in Seq(Nat)
    /\ gate[gen] <= seq

\* A detached save holds the ceiling of the store, or comes too late to be written.
JobsAgree ==
    \A j \in jobs : /\ j.gen = gen /\ j.seq \in Nat /\ j.seq <= seq /\ Snapshot(j.state)
                    /\ j.seq >= gate[gen] => j.state.ceiling = disk.ceiling

\* The awaited save is the newest and holds the ceiling of memory.
AwaitedIsNewest ==
    busy.op # "none" =>
        /\ busy.job.gen = gen /\ busy.job.seq = seq
        /\ Snapshot(busy.job.state) /\ busy.job.state.ceiling = mem.ceiling
        /\ \A j \in jobs : j.seq < seq

\* Only a reservation under way separates memory from the store.
CeilingsAgree ==
    /\ busy.op # "reserve" => mem.ceiling = disk.ceiling
    /\ busy.op = "reserve" =>
         /\ busy.undo = disk.ceiling /\ busy.undo <= mem.ceiling
         /\ busy.arg \in Nat /\ busy.arg < mem.ceiling /\ SentBelow(busy.arg)

\* What was sent lies below the stored ceiling and below the next counter.
CountersUsed == SentBelow(disk.ceiling) /\ (live # Unset => SentBelow(live))

IInv == Typed /\ JobsAgree /\ AwaitedIsNewest /\ CeilingsAgree /\ CountersUsed /\ NoCounterTwice

-----------------------------------------------------------------------------

\* Appending a counter above all that were sent keeps the order, and n bounds the
\* longer sequence if it bounds the counter (SendGroup).
LEMMA SentGrows ==
    ASSUME NEW S \in Seq(Nat), NEW x \in Nat, NEW n \in Nat, x < n,
           \A i \in DOMAIN S : S[i] < x,
           \A i, j \in DOMAIN S : i < j => S[i] < S[j]
    PROVE  /\ Append(S, x) \in Seq(Nat)
           /\ \A i \in DOMAIN Append(S, x) : Append(S, x)[i] < n
           /\ \A i, j \in DOMAIN Append(S, x) : i < j => Append(S, x)[i] < Append(S, x)[j]
<1> DEFINE T == Append(S, x)
<1>1. T \in Seq(Nat) /\ DOMAIN T = 1 .. Len(S) + 1 /\ DOMAIN S = 1 .. Len(S) /\ Len(S) \in Nat
    OBVIOUS
<1>2. \A i \in DOMAIN S : T[i] = S[i] /\ S[i] \in Nat
    OBVIOUS
<1>3. T[Len(S) + 1] = x
    OBVIOUS
<1>4. \A i \in DOMAIN T : T[i] < n
    <2> SUFFICES ASSUME NEW i \in DOMAIN T PROVE T[i] < n
        BY Zenon
    <2>1. CASE i \in DOMAIN S
        BY <2>1, <1>2
    <2>2. CASE i = Len(S) + 1
        BY <2>2, <1>3, Zenon
    <2> QED
        BY <2>1, <2>2, <1>1
<1>5. \A i, j \in DOMAIN T : i < j => T[i] < T[j]
    <2> SUFFICES ASSUME NEW i \in DOMAIN T, NEW j \in DOMAIN T, i < j PROVE T[i] < T[j]
        BY Zenon
    <2>1. i \in DOMAIN S
        BY <1>1
    <2>2. CASE j \in DOMAIN S
        BY <2>1, <2>2, <1>2, Zenon
    <2>3. CASE j = Len(S) + 1
        BY <2>1, <2>3, <1>2, <1>3, Zenon
    <2> QED
        BY <2>2, <2>3, <1>1
<1> QED
    BY <1>1, <1>4, <1>5, Zenon

\* A step that leaves counters, ceilings, saves and the awaited operation alone keeps
\* the invariant (SpawnCommission, a commission that fails).
LEMMA OthersKeep ==
    ASSUME IInv, UNCHANGED <<mem, disk, seq, gate, gen, jobs, busy, live, sent>>
    PROVE  IInv'
BY Zenon
   DEF IInv, Typed, JobsAgree, AwaitedIsNewest, CeilingsAgree, CountersUsed, NoCounterTwice,
       SentBelow, Snapshot

\* Awaiting the save of a state with the same ceiling (AwaitSave).
LEMMA AwaitKeeps ==
    ASSUME IInv, Idle, NEW op, NEW arg, NEW state, op \notin {"none", "reserve"},
           Snapshot(state), state.ceiling = mem.ceiling, AwaitSave(op, arg, state)
    PROVE  IInv'
<1> USE DEF IInv, Typed, Snapshot
<1>1. /\ mem' = state /\ seq' = seq + 1
      /\ busy'.op = op /\ busy'.job = [gen |-> gen, seq |-> seq + 1, state |-> state]
      /\ UNCHANGED <<disk, gate, gen, jobs, live, sent>>
    BY Zenon DEF AwaitSave, SaveJob
<1>2. Typed'
    BY <1>1
<1>3. JobsAgree'
    BY <1>1 DEF JobsAgree
<1>4. AwaitedIsNewest'
    BY <1>1 DEF JobsAgree, AwaitedIsNewest
<1>5. CeilingsAgree'
    BY <1>1, Zenon DEF CeilingsAgree, Idle
<1>6. CountersUsed' /\ NoCounterTwice'
    BY <1>1, Zenon DEF CountersUsed, NoCounterTwice, SentBelow, Unset
<1> QED
    BY <1>2, <1>3, <1>4, <1>5, <1>6, Zenon

\* Detaching the save of a state with the same ceiling (persist_best_effort).
LEMMA DetachKeeps ==
    ASSUME IInv, Idle, NEW state, Snapshot(state), state.ceiling = mem.ceiling,
           PersistBestEffort(state)
    PROVE  IInv'
<1> USE DEF IInv, Typed, Snapshot
<1> DEFINE new == [gen |-> gen, seq |-> seq + 1, state |-> state]
<1>1. /\ mem' = state /\ seq' = seq + 1 /\ jobs' = jobs \cup {new}
      /\ UNCHANGED <<disk, gate, gen, busy, live, sent>>
    BY Zenon DEF PersistBestEffort, SaveJob
<1>2. Typed'
    BY <1>1
<1>3. JobsAgree'
    <2> SUFFICES ASSUME NEW j \in jobs'
                 PROVE  /\ j.gen = gen' /\ j.seq \in Nat /\ j.seq <= seq' /\ Snapshot(j.state)
                        /\ j.seq >= gate'[gen'] => j.state.ceiling = disk'.ceiling
        BY Zenon DEF JobsAgree
    <2>1. CASE j \in jobs
        BY <2>1, <1>1 DEF JobsAgree
    <2>2. CASE j = new
        BY <2>2, <1>1 DEF CeilingsAgree, Idle
    <2> QED
        BY <2>1, <2>2, <1>1, Zenon
<1>4. AwaitedIsNewest'
    BY <1>1, Zenon DEF AwaitedIsNewest, Idle
<1>5. CeilingsAgree'
    BY <1>1, Zenon DEF CeilingsAgree, Idle
<1>6. CountersUsed' /\ NoCounterTwice'
    BY <1>1, Zenon DEF CountersUsed, NoCounterTwice, SentBelow, Unset
<1> QED
    BY <1>2, <1>3, <1>4, <1>5, <1>6, Zenon

\* Running a detached save (DetachedSaveRuns): it is skipped, fails, or writes a state
\* with the ceiling the store has already.
LEMMA DetachedKeeps ==
    ASSUME IInv, NEW job, NEW ok \in BOOLEAN, DetachedSaveRuns(job, ok)
    PROVE  IInv'
<1> USE DEF IInv, Typed, Snapshot
<1>1. /\ job \in jobs /\ jobs' = jobs \ {job}
      /\ disk' = StoreAfter(job, ok) /\ gate' = GateAfter(job, ok)
      /\ UNCHANGED <<mem, seq, gen, busy, live, sent>>
    BY Zenon DEF DetachedSaveRuns
<1>2. /\ job.gen = gen /\ job.seq \in Nat /\ job.seq <= seq /\ Snapshot(job.state)
      /\ job.seq >= gate[gen] => job.state.ceiling = disk.ceiling
    BY <1>1, Zenon DEF JobsAgree
<1>3. /\ Snapshot(disk') /\ disk'.ceiling = disk.ceiling
      /\ gate' \in [0 .. MaxRestarts -> Nat] /\ gate[gen] <= gate'[gen] /\ gate'[gen] <= seq
    BY <1>1, <1>2 DEF StoreAfter, GateAfter, MayWrite
<1>4. Typed'
    BY <1>1, <1>3, Zenon
<1>5. JobsAgree'
    <2> SUFFICES ASSUME NEW j \in jobs, j # job
                 PROVE  /\ j.gen = gen' /\ j.seq \in Nat /\ j.seq <= seq' /\ Snapshot(j.state)
                        /\ j.seq >= gate'[gen'] => j.state.ceiling = disk'.ceiling
        BY <1>1, Zenon DEF JobsAgree
    <2> QED
        BY <1>1, <1>3 DEF JobsAgree
<1>6. AwaitedIsNewest'
    BY <1>1, Zenon DEF AwaitedIsNewest
<1>7. CeilingsAgree'
    BY <1>1, <1>3, Zenon DEF CeilingsAgree, SentBelow
<1>8. CountersUsed' /\ NoCounterTwice'
    BY <1>1, <1>3, Zenon DEF CountersUsed, NoCounterTwice, SentBelow, Unset
<1> QED
    BY <1>4, <1>5, <1>6, <1>7, <1>8, Zenon

\* The store after the awaited save: written if the write works, for nothing newer
\* was (SaveJob::run).
LEMMA AwaitedWrites ==
    ASSUME IInv, busy.op # "none", NEW ok \in BOOLEAN
    PROVE  /\ SaveWorked(ok) <=> ok
           /\ ok => /\ StoreAfter(busy.job, ok) = busy.job.state
                    /\ GateAfter(busy.job, ok) = [gate EXCEPT ![gen] = seq]
           /\ ~ok => /\ StoreAfter(busy.job, ok) = disk /\ GateAfter(busy.job, ok) = gate
<1>1. busy.job.gen = gen /\ busy.job.seq = seq /\ seq >= gate[gen]
    BY Zenon DEF IInv, Typed, AwaitedIsNewest
<1> QED
    BY <1>1, Zenon DEF SaveWorked, StoreAfter, GateAfter, MayWrite

\* A durable operation other than a reservation ends (OperationEnds).
LEMMA OperationKeeps ==
    ASSUME IInv, NEW ok \in BOOLEAN, OperationEnds(ok)
    PROVE  IInv'
<1> USE DEF IInv, Typed, Snapshot
<1>1. /\ busy.op \notin {"none", "reserve"} /\ busy'.op = "none"
      /\ disk' = StoreAfter(busy.job, ok) /\ gate' = GateAfter(busy.job, ok)
      /\ UNCHANGED <<mem, seq, gen, jobs, live, sent>>
    BY Zenon DEF OperationEnds, Idle, NotBusy
<1>2. /\ disk'.ceiling = disk.ceiling /\ Snapshot(disk')
      /\ gate' \in [0 .. MaxRestarts -> Nat] /\ gate[gen] <= gate'[gen] /\ gate'[gen] <= seq
    <2>1. busy.job.state.ceiling = disk.ceiling /\ Snapshot(busy.job.state)
        BY <1>1, Zenon DEF AwaitedIsNewest, CeilingsAgree
    <2>2. CASE ok
        <3>1. disk' = busy.job.state /\ gate' = [gate EXCEPT ![gen] = seq]
            BY <1>1, <2>2, AwaitedWrites, Zenon
        <3> QED
            BY <2>1, <3>1
    <2>3. CASE ~ok
        <3>1. disk' = disk /\ gate' = gate
            BY <1>1, <2>3, AwaitedWrites, Zenon
        <3> QED
            BY <3>1
    <2> QED
        BY <2>2, <2>3, Zenon
<1>3. Typed'
    BY <1>1, <1>2, Zenon
<1>4. JobsAgree'
    <2> SUFFICES ASSUME NEW j \in jobs
                 PROVE  /\ j.gen = gen' /\ j.seq \in Nat /\ j.seq <= seq' /\ Snapshot(j.state)
                        /\ j.seq >= gate'[gen'] => j.state.ceiling = disk'.ceiling
        BY <1>1, Zenon DEF JobsAgree
    <2>1. j.seq \in Nat /\ gate[gen] \in Nat /\ gate'[gen] \in Nat
        BY <1>2, Zenon DEF JobsAgree
    <2> QED
        BY <1>1, <1>2, <2>1 DEF JobsAgree
<1>5. AwaitedIsNewest' /\ CeilingsAgree'
    BY <1>1, <1>2, Zenon DEF AwaitedIsNewest, CeilingsAgree
<1>6. CountersUsed' /\ NoCounterTwice'
    BY <1>1, <1>2, Zenon DEF CountersUsed, NoCounterTwice, SentBelow, Unset
<1> QED
    BY <1>3, <1>4, <1>5, <1>6, Zenon

\* A counter above everything sent and below the stored ceiling goes out (SendGroup).
LEMMA SendKeeps ==
    ASSUME IInv, NEW counter \in Nat, NEW ok \in BOOLEAN, SendGroup(counter, ok),
           SentBelow(counter), NEW n \in Nat, counter < n
    PROVE  /\ live' \in Nat /\ sent' \in Seq(Nat) /\ NoCounterTwice'
           /\ \A i \in DOMAIN sent' : sent'[i] < n
           /\ \A i \in DOMAIN sent' : sent'[i] < live'
<1>1. /\ sent \in Seq(Nat) /\ \A i \in DOMAIN sent : sent[i] < counter
      /\ \A i, j \in DOMAIN sent : i < j => sent[i] < sent[j]
    BY Zenon DEF IInv, Typed, NoCounterTwice, SentBelow
<1>2. CASE ok
    <2>1. sent' = Append(sent, counter) /\ live' = counter + 1
        BY <1>2, Zenon DEF SendGroup
    <2>2. /\ Append(sent, counter) \in Seq(Nat)
          /\ \A i \in DOMAIN Append(sent, counter) : Append(sent, counter)[i] < n
          /\ \A i, j \in DOMAIN Append(sent, counter) :
                i < j => Append(sent, counter)[i] < Append(sent, counter)[j]
        BY <1>1, SentGrows, Zenon
    <2>3. \A i \in DOMAIN Append(sent, counter) : Append(sent, counter)[i] < counter + 1
        BY <1>1, SentGrows
    <2> QED
        BY <2>1, <2>2, <2>3 DEF NoCounterTwice
<1>3. CASE ~ok
    <2>1. sent' = sent /\ live' = counter + 1
        BY <1>3, Zenon DEF SendGroup
    <2>2. \A i \in DOMAIN sent : sent[i] \in Nat
        BY <1>1
    <2>3. \A i \in DOMAIN sent : sent[i] < n /\ sent[i] < counter + 1
        BY <1>1, <2>2
    <2> QED
        BY <1>1, <2>1, <2>3 DEF NoCounterTwice
<1> QED
    BY <1>2, <1>3, Zenon

\* The next counter is above everything sent (NextCounter), when nothing is awaited.
LEMMA NextIsFresh ==
    ASSUME IInv, Idle
    PROVE  NextCounter \in Nat /\ SentBelow(NextCounter)
<1>1. mem.ceiling = disk.ceiling
    BY Zenon DEF IInv, CeilingsAgree, Idle
<1>2. CASE live = Unset
    BY <1>1, <1>2, Zenon DEF IInv, Typed, Snapshot, CountersUsed, NextCounter, SentBelow
<1>3. CASE live # Unset
    BY <1>3, Zenon DEF IInv, Typed, CountersUsed, NextCounter, SentBelow
<1> QED
    BY <1>2, <1>3, Zenon

\* A counter of the reserved block is used (InvokeGroup).
LEMMA InvokeKeeps ==
    ASSUME IInv, NEW k, NEW ok \in BOOLEAN, InvokeGroup(k, ok)
    PROVE  IInv'
<1>1. /\ Idle /\ NextCounter < mem.ceiling /\ SendGroup(NextCounter, ok)
      /\ UNCHANGED <<mem, disk, seq, gate, gen, jobs, busy>>
    BY Zenon DEF InvokeGroup
<1>2. mem.ceiling = disk.ceiling /\ disk.ceiling \in Nat /\ busy.op = "none"
    BY <1>1, Zenon DEF IInv, Typed, Snapshot, CeilingsAgree, Idle
<1>3. NextCounter \in Nat /\ SentBelow(NextCounter)
    BY <1>1, NextIsFresh, Zenon
<1>4. /\ live' \in Nat /\ sent' \in Seq(Nat) /\ NoCounterTwice'
      /\ \A i \in DOMAIN sent' : sent'[i] < disk.ceiling
      /\ \A i \in DOMAIN sent' : sent'[i] < live'
    BY <1>1, <1>2, <1>3, SendKeeps, Zenon
<1>5. Typed'
    BY <1>1, <1>4, Zenon DEF IInv, Typed, Snapshot
<1>6. JobsAgree' /\ AwaitedIsNewest'
    BY <1>1, <1>2, Zenon DEF IInv, JobsAgree, AwaitedIsNewest, Snapshot
<1>7. CeilingsAgree'
    BY <1>1, <1>2, Zenon DEF CeilingsAgree
<1>8. CountersUsed'
    BY <1>1, <1>4, Zenon DEF CountersUsed, SentBelow
<1> QED
    BY <1>4, <1>5, <1>6, <1>7, <1>8, Zenon DEF IInv

\* A block is reserved: memory runs ahead of the store until the save ends
\* (ReserveBlock).
LEMMA ReserveKeeps ==
    ASSUME IInv, NEW k, ReserveBlock(k)
    PROVE  IInv'
<1> DEFINE top == IF NextCounter + Block <= MaxCounter THEN NextCounter + Block ELSE MaxCounter
<1>1. /\ Idle /\ NextCounter >= mem.ceiling /\ NextCounter < MaxCounter
      /\ seq' = seq + 1 /\ mem' = [mem EXCEPT !.ceiling = top] /\ live' = NextCounter
      /\ busy' = [op |-> "reserve", arg |-> NextCounter, undo |-> mem.ceiling,
                  job |-> [gen |-> gen, seq |-> seq + 1, state |-> mem']]
      /\ UNCHANGED <<disk, gate, gen, jobs, sent>>
    BY Zenon DEF ReserveBlock, SaveJob
<1>2. NextCounter \in Nat /\ SentBelow(NextCounter)
    BY <1>1, NextIsFresh, Zenon
<1>3. mem.ceiling = disk.ceiling /\ mem.ceiling \in Nat /\ "ceiling" \in DOMAIN mem
    BY <1>1, Zenon DEF IInv, Typed, Snapshot, CeilingsAgree, Idle
<1>4. top \in Nat /\ NextCounter < top /\ mem.ceiling <= top
    BY <1>1, <1>2, <1>3, CounterAssumption
<1>5. Snapshot(mem') /\ mem'.ceiling = top
    BY <1>1, <1>3, <1>4, Zenon DEF Snapshot
<1> HIDE DEF top
<1>6. Typed'
    BY <1>1, <1>2, <1>5, SMTT(30) DEF IInv, Typed, Snapshot
<1>7. JobsAgree'
    BY <1>1 DEF IInv, Typed, JobsAgree, Snapshot
<1>8. AwaitedIsNewest'
    BY <1>1, <1>5, SMTT(30) DEF IInv, Typed, JobsAgree, AwaitedIsNewest, Snapshot
<1>9. CeilingsAgree'
    BY <1>1, <1>2, <1>3, <1>4, <1>5, Zenon DEF CeilingsAgree, SentBelow
<1>10. CountersUsed' /\ NoCounterTwice'
    BY <1>1, <1>2, Zenon DEF IInv, CountersUsed, NoCounterTwice, SentBelow
<1> QED
    BY <1>6, <1>7, <1>8, <1>9, <1>10, Zenon DEF IInv

\* A reservation ends (ReserveEnds): the store has the new ceiling and the counter goes
\* out, or memory takes the old one back.
LEMMA ReserveEndKeeps ==
    ASSUME IInv, NEW ok \in BOOLEAN, NEW sending \in BOOLEAN, ReserveEnds(ok, sending)
    PROVE  IInv'
<1>1. /\ busy.op = "reserve" /\ busy'.op = "none"
      /\ disk' = StoreAfter(busy.job, ok) /\ gate' = GateAfter(busy.job, ok)
      /\ UNCHANGED <<seq, gen, jobs>>
    BY Zenon DEF ReserveEnds, NotBusy
<1>2. /\ busy.undo = disk.ceiling /\ busy.arg \in Nat /\ busy.arg < mem.ceiling
      /\ busy.undo <= mem.ceiling /\ SentBelow(busy.arg)
      /\ Snapshot(busy.job.state) /\ busy.job.state.ceiling = mem.ceiling
      /\ \A j \in jobs : j.seq < seq
    BY <1>1, Zenon DEF IInv, CeilingsAgree, AwaitedIsNewest
<1>3. /\ Snapshot(mem) /\ Snapshot(disk) /\ seq \in Nat /\ gen \in 0 .. MaxRestarts
      /\ gate \in [0 .. MaxRestarts -> Nat] /\ gate[gen] <= seq
    BY Zenon DEF IInv, Typed
<1>4. CASE ok
    <2>1. /\ disk' = busy.job.state /\ gate' = [gate EXCEPT ![gen] = seq]
          /\ SendGroup(busy.arg, sending) /\ mem' = mem
        BY <1>1, <1>4, AwaitedWrites, Zenon DEF ReserveEnds
    <2>2. /\ live' \in Nat /\ sent' \in Seq(Nat) /\ NoCounterTwice'
          /\ \A i \in DOMAIN sent' : sent'[i] < mem.ceiling
          /\ \A i \in DOMAIN sent' : sent'[i] < live'
        <3>1. mem.ceiling \in Nat
            BY <1>3, Zenon DEF Snapshot
        <3> QED
            BY <1>2, <2>1, <3>1, SendKeeps, Zenon
    <2>3. Typed'
        BY <1>1, <1>2, <1>3, <2>1, <2>2 DEF Typed, Snapshot
    <2>4. JobsAgree'
        BY <1>1, <1>2, <1>3, <2>1 DEF IInv, JobsAgree, Snapshot
    <2>5. AwaitedIsNewest' /\ CeilingsAgree'
        BY <1>1, <1>2, <2>1, Zenon DEF AwaitedIsNewest, CeilingsAgree
    <2>6. CountersUsed'
        BY <1>2, <2>1, <2>2, Zenon DEF CountersUsed, SentBelow
    <2> QED
        BY <2>2, <2>3, <2>4, <2>5, <2>6, Zenon DEF IInv
<1>5. CASE ~ok
    <2>1. /\ disk' = disk /\ gate' = gate /\ mem' = [mem EXCEPT !.ceiling = busy.undo]
          /\ UNCHANGED <<live, sent>>
        BY <1>1, <1>5, AwaitedWrites, Zenon DEF ReserveEnds, UndoReserve
    <2>2. Snapshot(mem') /\ mem'.ceiling = disk.ceiling
        BY <1>2, <1>3, <2>1, Zenon DEF Snapshot
    <2>3. Typed'
        BY <1>1, <2>1, <2>2, Zenon DEF IInv, Typed, Snapshot
    <2>4. JobsAgree'
        BY <1>1, <2>1, Zenon DEF IInv, JobsAgree, Snapshot
    <2>5. AwaitedIsNewest' /\ CeilingsAgree'
        BY <1>1, <2>1, <2>2, Zenon DEF AwaitedIsNewest, CeilingsAgree
    <2>6. CountersUsed' /\ NoCounterTwice'
        BY <2>1, Zenon DEF IInv, CountersUsed, NoCounterTwice, SentBelow
    <2> QED
        BY <2>3, <2>4, <2>5, <2>6, Zenon DEF IInv
<1> QED
    BY <1>4, <1>5, Zenon

\* A new actor starts from the store, with no save of an old one left (Load).
LEMMA LoadKeeps ==
    ASSUME IInv, jobs' = {}, Load
    PROVE  IInv'
<1>1. /\ gen < MaxRestarts /\ gen' = gen + 1 /\ mem' = disk /\ seq' = 0
      /\ busy'.op = "none" /\ live' = Unset /\ gate' = NewGate
      /\ UNCHANGED <<disk, sent>>
    BY Zenon DEF Load, NotBusy
<1>2. gen' \in 0 .. MaxRestarts /\ gate' \in [0 .. MaxRestarts -> Nat] /\ gate'[gen'] = 0
    BY <1>1, CounterAssumption DEF IInv, Typed, NewGate
<1>3. Typed'
    <2>1. Snapshot(mem)' /\ Snapshot(disk)'
        BY <1>1, Zenon DEF IInv, Typed, Snapshot
    <2>2. live' \in Nat
        BY <1>1, CounterAssumption DEF Unset
    <2>3. seq' \in Nat /\ sent' \in Seq(Nat) /\ gate'[gen'] <= seq'
        BY <1>1, <1>2 DEF IInv, Typed
    <2> QED
        BY <1>2, <2>1, <2>2, <2>3, Zenon DEF Typed
<1>4. JobsAgree' /\ AwaitedIsNewest' /\ CeilingsAgree'
    BY <1>1, Zenon DEF JobsAgree, AwaitedIsNewest, CeilingsAgree
<1>5. CountersUsed' /\ NoCounterTwice'
    BY <1>1, Zenon DEF IInv, CountersUsed, NoCounterTwice, SentBelow, Unset
<1> QED
    BY <1>3, <1>4, <1>5, Zenon DEF IInv

\* A resumption record is changed (SetRecord).
LEMMA SetRecordKeeps ==
    ASSUME NEW s, Snapshot(s), NEW n, NEW r
    PROVE  Snapshot(SetRecord(s, n, r)) /\ SetRecord(s, n, r).ceiling = s.ceiling
BY Zenon DEF SetRecord, Snapshot

\* Every durable operation changes other fields than the ceiling.
LEMMA DurableKeeps ==
    ASSUME IInv,
           \/ CreateFabric \/ InvalidateResumptionRecords
           \/ \E k \in KeySets : CreateGroup(k)
           \/ \E t \in tasks : CommissionDone(t)
           \/ \E n \in NodesOf(mem) : ForgetNode(n) \/ SetNodeVidPid(n) \/ PersistIcdRegistration(n)
    PROVE  IInv'
<1>1. Snapshot(mem)
    BY Zenon DEF IInv, Typed
<1>2. CASE CreateFabric
    <2> DEFINE s == [mem EXCEPT !.fabric = TRUE]
    <2>1. Snapshot(s) /\ s.ceiling = mem.ceiling
        BY <1>1, Zenon DEF Snapshot
    <2>2. Idle /\ AwaitSave("fabric", 0, s)
        BY <1>2, Zenon DEF CreateFabric
    <2> HIDE DEF s
    <2> QED
        BY <2>1, <2>2, AwaitKeeps, Zenon
<1>3. CASE InvalidateResumptionRecords
    <2> DEFINE s == [mem EXCEPT !.devices = [i \in DOMAIN @ |-> [@[i] EXCEPT !.rec = 0]]]
    <2>1. Snapshot(s) /\ s.ceiling = mem.ceiling
        BY <1>1, Zenon DEF Snapshot
    <2>2. Idle /\ AwaitSave("invalidate", told.made, s)
        BY <1>3, Zenon DEF InvalidateResumptionRecords
    <2> HIDE DEF s
    <2> QED
        BY <2>1, <2>2, AwaitKeeps, Zenon
<1>4. ASSUME NEW k \in KeySets, CreateGroup(k) PROVE IInv'
    <2> DEFINE s == [mem EXCEPT !.keys[k] = told.made + 1]
    <2>1. Snapshot(s) /\ s.ceiling = mem.ceiling
        BY <1>1, Zenon DEF Snapshot
    <2>2. Idle /\ AwaitSave("group", k, s)
        BY <1>4, Zenon DEF CreateGroup
    <2> HIDE DEF s
    <2> QED
        BY <2>1, <2>2, AwaitKeeps, Zenon
<1>5. ASSUME NEW t \in tasks, CommissionDone(t) PROVE IInv'
    <2> DEFINE s == [mem EXCEPT !.devices = Append(@, [node |-> t.node, unit |-> t.unit, rec |-> 0])]
    <2>1. Snapshot(s) /\ s.ceiling = mem.ceiling
        BY <1>1, Zenon DEF Snapshot
    <2>2. Idle /\ AwaitSave("commission", t.unit, s)
        BY <1>5, Zenon DEF CommissionDone
    <2> HIDE DEF s
    <2> QED
        BY <2>1, <2>2, AwaitKeeps, Zenon
<1>6. ASSUME NEW n \in NodesOf(mem), ForgetNode(n) PROVE IInv'
    <2> DEFINE s == [mem EXCEPT !.devices = RetainOthers(@, n)]
    <2>1. Snapshot(s) /\ s.ceiling = mem.ceiling
        BY <1>1, Zenon DEF Snapshot
    <2>2. Idle /\ \E gone : AwaitSave("forget", gone, s)
        BY <1>6, Zenon DEF ForgetNode
    <2> HIDE DEF s
    <2> QED
        BY <2>1, <2>2, AwaitKeeps, Zenon
<1>7. ASSUME NEW n \in NodesOf(mem), SetNodeVidPid(n) PROVE IInv'
    BY <1>1, <1>7, AwaitKeeps, Zenon DEF SetNodeVidPid
<1>8. ASSUME NEW n \in NodesOf(mem), PersistIcdRegistration(n) PROVE IInv'
    <2> DEFINE s == [mem EXCEPT !.icd = @ \cup {n}]
    <2>1. Snapshot(s) /\ s.ceiling = mem.ceiling
        BY <1>1, Zenon DEF Snapshot
    <2>2. Idle /\ AwaitSave("icd", n, s)
        BY <1>8, Zenon DEF PersistIcdRegistration
    <2> HIDE DEF s
    <2> QED
        BY <2>1, <2>2, AwaitKeeps, Zenon
<1> QED
    BY <1>2, <1>3, <1>4, <1>5, <1>6, <1>7, <1>8, Zenon

\* So does every change that is saved best-effort.
LEMMA BestEffortKeeps ==
    ASSUME IInv, NEW n, ConnectDone(n) \/ RecoverFromUnusableRecord(n)
    PROVE  IInv'
<1>1. Snapshot(mem)
    BY Zenon DEF IInv, Typed
<1>2. CASE ConnectDone(n)
    <2> DEFINE s == UpsertDevice(mem, n, told.made + 1)
    <2>1. Snapshot(s) /\ s.ceiling = mem.ceiling
        BY <1>1, SetRecordKeeps, Zenon DEF UpsertDevice
    <2>2. Idle /\ PersistBestEffort(s)
        BY <1>2, Zenon DEF ConnectDone
    <2> HIDE DEF s
    <2> QED
        BY <2>1, <2>2, DetachKeeps, Zenon
<1>3. CASE RecoverFromUnusableRecord(n)
    BY <1>1, <1>3, SetRecordKeeps, DetachKeeps, Zenon DEF RecoverFromUnusableRecord
<1> QED
    BY <1>2, <1>3, Zenon

\* A first start, or a start on an earlier store, satisfies the invariant.
LEMMA InitHolds ==
    ASSUME Init
    PROVE  IInv
<1>1. /\ disk = mem /\ seq = 0 /\ gen = 0 /\ gate = NewGate /\ jobs = {} /\ busy.op = "none"
      /\ live = Unset /\ sent = <<>>
    BY Zenon DEF Init, NotBusy
<1>2. Snapshot(mem)
    <2>1. Snapshot(EmptyState)
        BY Zenon DEF EmptyState, Snapshot
    <2>2. \A u : Snapshot(Provisioned(u))
        BY <2>1, Zenon DEF Provisioned, Snapshot
    <2>3. mem = EmptyState \/ \E u : mem = Provisioned(u)
        BY Zenon DEF Init
    <2> QED
        BY <2>1, <2>2, <2>3, Zenon
<1>3. gen \in 0 .. MaxRestarts /\ gate \in [0 .. MaxRestarts -> Nat] /\ gate[gen] <= seq
    BY <1>1, CounterAssumption DEF NewGate
<1>4. live \in Nat /\ sent \in Seq(Nat) /\ DOMAIN sent = {}
    BY <1>1, CounterAssumption DEF Unset
<1>5. Typed
    BY <1>1, <1>2, <1>3, <1>4, Zenon DEF Typed, Snapshot
<1>6. JobsAgree /\ AwaitedIsNewest /\ CeilingsAgree
    BY <1>1, Zenon DEF JobsAgree, AwaitedIsNewest, CeilingsAgree
<1>7. CountersUsed /\ NoCounterTwice
    BY <1>4, Zenon DEF CountersUsed, NoCounterTwice, SentBelow
<1> QED
    BY <1>5, <1>6, <1>7, Zenon DEF IInv

\* Every step of the controller keeps the invariant, if a store is reopened only when
\* no detached save of the old actor is left.
LEMMA StepKeeps ==
    ASSUME Drained, IInv, [Next]_vars
    PROVE  IInv'
<1>1. CASE UNCHANGED vars
    BY <1>1, OthersKeep, Zenon DEF vars
<1>2. CASE \/ CreateFabric \/ InvalidateResumptionRecords
           \/ \E k \in KeySets : CreateGroup(k)
           \/ \E t \in tasks : CommissionDone(t)
           \/ \E n \in NodesOf(mem) : ForgetNode(n) \/ SetNodeVidPid(n) \/ PersistIcdRegistration(n)
    BY <1>2, DurableKeeps, Zenon
<1>3. ASSUME NEW n, ConnectDone(n) \/ RecoverFromUnusableRecord(n) PROVE IInv'
    BY <1>3, BestEffortKeeps, Zenon
<1>4. ASSUME NEW k \in KeySets, ReserveBlock(k) PROVE IInv'
    BY <1>4, ReserveKeeps, Zenon
<1>5. ASSUME NEW k \in KeySets, NEW ok \in BOOLEAN, InvokeGroup(k, ok) PROVE IInv'
    BY <1>5, InvokeKeeps, Zenon
<1>6. CASE (\E u \in Units : SpawnCommission(u)) \/ (\E t \in tasks : CommissionFails(t))
    BY <1>6, OthersKeep, Zenon DEF SpawnCommission, CommissionFails
<1>7. ASSUME NEW ok \in BOOLEAN, OperationEnds(ok) PROVE IInv'
    BY <1>7, OperationKeeps, Zenon
<1>8. ASSUME NEW ok \in BOOLEAN, NEW sending \in BOOLEAN, ReserveEnds(ok, sending) PROVE IInv'
    BY <1>8, ReserveEndKeeps, Zenon
<1>9. ASSUME NEW job \in jobs, NEW ok \in BOOLEAN, DetachedSaveRuns(job, ok) PROVE IInv'
    BY <1>9, DetachedKeeps, Zenon
<1>10. CASE Crash \/ Reopen
    BY <1>10, LoadKeeps, Zenon DEF Crash, Reopen
<1> QED
    BY <1>1, <1>2, <1>3, <1>4, <1>5, <1>6, <1>7, <1>8, <1>9, <1>10, Zenon DEF Next

\* No group counter goes out twice, for every block size and every number of saves,
\* failures, crashes and restarts, if a store is reopened only when no detached save of
\* the old actor is left (handle_invoke_group, GROUP_COUNTER_BLOCK).
THEOREM GroupCountersNeverRepeat ==
    ASSUME Drained
    PROVE  Spec => []NoCounterTwice
<1>1. Init => IInv
    BY InitHolds, Zenon
<1>2. IInv /\ [Next]_vars => IInv'
    BY StepKeeps, Zenon
<1>3. IInv => NoCounterTwice
    BY Zenon DEF IInv
<1> QED
    BY <1>1, <1>2, <1>3, PTL DEF Spec
-----------------------------------------------------------------------------
\* A list, as far as its entries are concerned.
Listed(d) == d \in Seq({d[i] : i \in DOMAIN d})

\* A serialized state, field by field.
IsState(s) ==
    /\ {"fabric", "devices", "keys", "icd", "ceiling"} \subseteq DOMAIN s
    /\ Listed(s.devices)
    /\ \A i \in DOMAIN s.devices : {"node", "unit", "rec"} \subseteq DOMAIN s.devices[i]
    /\ s.keys \in [KeySets -> Nat]

\* State s bears out everything callers were told (t), and lists no device whose
\* commissioning is still under way (ts).
Faithful(s, t, ts) ==
    /\ t.fabric => s.fabric
    /\ t.kept \subseteq UnitsOf(s)
    /\ t.icd \subseteq s.icd
    /\ \A k \in KeySets : t.keys[k] <= s.keys[k] /\ s.keys[k] <= t.made
    /\ \A i \in DOMAIN s.devices : s.devices[i].rec \in {0} \cup (t.invalid + 1 .. t.made)
    /\ t.forgotten \cap UnitsOf(s) = {}
    /\ UnitsOf(s) \subseteq t.started
    /\ \A x \in ts : x.unit \notin UnitsOf(s)
    /\ \A i, j \in DOMAIN s.devices :
         s.devices[i].unit = s.devices[j].unit => s.devices[i].node = s.devices[j].node

\* What callers were told (t), and the commissions under way (ts).
IsTold(t, ts) ==
    /\ {"fabric", "kept", "forgotten", "icd", "invalid", "keys", "made", "started"} \subseteq DOMAIN t
    /\ t.made \in Nat /\ t.invalid \in Nat /\ t.invalid <= t.made
    /\ t.keys \in [KeySets -> Nat]
    /\ t.forgotten \subseteq t.started
    /\ \A x \in ts : x.unit \in t.started /\ x.unit \notin t.forgotten
    /\ \A x, y \in ts : x.unit = y.unit => x = y

\* Operation op has done to state s what its caller will be told of.
Done(op, arg, s, t, ts) ==
    /\ op \in {"fabric", "group", "icd", "commission", "forget", "invalidate", "vidpid", "reserve"}
    /\ op = "fabric" => s.fabric
    /\ op = "group" => arg \in KeySets
    /\ op = "icd" => arg \in s.icd
    /\ op = "commission" => arg \in UnitsOf(s)
    /\ op = "forget" => /\ arg \subseteq t.started /\ arg \cap UnitsOf(s) = {}
                        /\ \A x \in ts : x.unit \notin arg
    /\ op = "invalidate" => arg = t.made /\ \A i \in DOMAIN s.devices : s.devices[i].rec = 0

\* The save that is awaited is of memory, and the operation is done there.
AwaitedIsDone ==
    busy.op # "none" => busy.job.state = mem /\ Done(busy.op, busy.arg, mem, told, tasks)

\* Memory, the store and every save that may still be written bear out what callers
\* were told.
StatesFaithful ==
    /\ IsState(mem) /\ Faithful(mem, told, tasks)
    /\ IsState(disk) /\ Faithful(disk, told, tasks)
    /\ \A j \in jobs : IsState(j.state) /\ (j.seq >= gate[gen] => Faithful(j.state, told, tasks))

Truthful == IsTold(told, tasks) /\ AwaitedIsDone /\ StatesFaithful

SInv == IInv /\ Truthful

\* From t to u no caller is told more, and only new devices are started on.
Onward(t, u, ts, us) ==
    /\ u.fabric = t.fabric /\ u.icd = t.icd /\ u.keys = t.keys /\ u.invalid = t.invalid
    /\ u.forgotten = t.forgotten /\ u.kept \subseteq t.kept /\ t.started \subseteq u.started
    /\ t.made <= u.made
    /\ \A x \in us : x \in ts \/ x.unit \notin t.started

\* List a is list d with entry e added.
Longer(a, d, e) ==
    /\ Listed(a)
    /\ \A i \in DOMAIN a : a[i] = e \/ (i \in DOMAIN d /\ a[i] = d[i])
    /\ \A i \in DOMAIN d : i \in DOMAIN a /\ a[i] = d[i]
    /\ \E i \in DOMAIN a : a[i] = e

\* List w is list d without the entries of node n.
Without(w, d, n) ==
    /\ Listed(w)
    /\ \A r \in DOMAIN w : \E i \in DOMAIN d : w[r] = d[i] /\ d[i].node # n
    /\ \A i \in DOMAIN d : d[i].node # n => \E r \in DOMAIN w : w[r] = d[i]

\* What devices.retain does: it keeps exactly the entries of the other nodes.
RetainFilters == \A d, n : Listed(d) => Without(RetainOthers(d, n), d, n)
-----------------------------------------------------------------------------
\* Every sequence is a list of its entries.
LEMMA ListOf ==
    ASSUME NEW S, NEW d \in Seq(S)
    PROVE  Listed(d)
BY DEF Listed

\* An appended entry is the only change to the list.
LEMMA AppendFacts ==
    ASSUME NEW d, Listed(d), NEW e
    PROVE  Longer(Append(d, e), d, e)
<1> DEFINE S == {d[i] : i \in DOMAIN d}
<1>1. d \in Seq(S \cup {e}) /\ Len(d) \in Nat /\ DOMAIN d = 1 .. Len(d)
    BY DEF Listed
<1> HIDE DEF S
<1>2. /\ Append(d, e) \in Seq(S \cup {e}) /\ DOMAIN Append(d, e) = 1 .. Len(d) + 1
      /\ \A i \in 1 .. Len(d) : Append(d, e)[i] = d[i]
      /\ Append(d, e)[Len(d) + 1] = e
    BY <1>1
<1>3. Listed(Append(d, e))
    BY <1>2, ListOf, Zenon
<1> QED
    BY <1>1, <1>2, <1>3 DEF Longer
-----------------------------------------------------------------------------
\* What is true of a state stays true when more is started or made, a commission
\* ends, and less is promised.
LEMMA MoreTold ==
    ASSUME NEW s, NEW t, NEW u, NEW ts, NEW us, Faithful(s, t, ts), IsState(s),
           t.made \in Nat, u.made \in Nat, t.invalid \in Nat, Onward(t, u, ts, us)
    PROVE  Faithful(s, u, us)
<1>1. \A k \in KeySets : u.keys[k] <= s.keys[k] /\ s.keys[k] <= u.made
    BY DEF Faithful, IsState, Onward
<1>2. \A i \in DOMAIN s.devices : s.devices[i].rec \in {0} \cup (u.invalid + 1 .. u.made)
    BY DEF Faithful, Onward
<1>3. \A x \in us : x.unit \notin UnitsOf(s)
    BY Zenon DEF Faithful, Onward
<1> QED
    BY <1>1, <1>2, <1>3, Zenon DEF Faithful, Onward

\* Faithful speaks of the devices, and asks no more of the other fields than that
\* nothing promised is lost.
LEMMA MoreKept ==
    ASSUME NEW s, NEW z, NEW t, NEW ts, Faithful(s, t, ts),
           z.devices = s.devices, s.fabric => z.fabric, s.icd \subseteq z.icd,
           \A k \in KeySets : t.keys[k] <= z.keys[k] /\ z.keys[k] <= t.made
    PROVE  Faithful(z, t, ts)
<1>1. UnitsOf(z) = UnitsOf(s)
    BY Zenon DEF UnitsOf
<1>2. /\ t.fabric => z.fabric
      /\ t.kept \subseteq UnitsOf(z)
      /\ t.icd \subseteq z.icd
    BY <1>1, Zenon DEF Faithful
<1>3. /\ \A i \in DOMAIN z.devices : z.devices[i].rec \in {0} \cup (t.invalid + 1 .. t.made)
      /\ \A i, j \in DOMAIN z.devices :
           z.devices[i].unit = z.devices[j].unit => z.devices[i].node = z.devices[j].node
    BY DEF Faithful
<1>4. /\ t.forgotten \cap UnitsOf(z) = {} /\ UnitsOf(z) \subseteq t.started
      /\ \A x \in ts : x.unit \notin UnitsOf(z)
    BY <1>1, Zenon DEF Faithful
<1> QED
    BY <1>2, <1>3, <1>4, Zenon DEF Faithful

\* The counter's ceiling, the fabric, a registration and a key are such fields.
LEMMA FieldKeeps ==
    ASSUME NEW s, NEW t, NEW ts, IsState(s), Faithful(s, t, ts)
    PROVE  /\ \A c : LET z == [s EXCEPT !.ceiling = c]
                     IN  IsState(z) /\ Faithful(z, t, ts) /\ z.devices = s.devices
                         /\ z.icd = s.icd /\ z.fabric = s.fabric
           /\ LET z == [s EXCEPT !.fabric = TRUE]
              IN  IsState(z) /\ Faithful(z, t, ts) /\ z.fabric
           /\ \A n : LET z == [s EXCEPT !.icd = @ \cup {n}]
                     IN  IsState(z) /\ Faithful(z, t, ts) /\ n \in z.icd
<1>0. \A k \in KeySets : t.keys[k] <= s.keys[k] /\ s.keys[k] <= t.made
    BY Zenon DEF Faithful
<1>1. ASSUME NEW c PROVE LET z == [s EXCEPT !.ceiling = c]
                         IN  IsState(z) /\ Faithful(z, t, ts) /\ z.devices = s.devices
                             /\ z.icd = s.icd /\ z.fabric = s.fabric
    <2> DEFINE z == [s EXCEPT !.ceiling = c]
    <2>1. /\ DOMAIN z = DOMAIN s /\ z.devices = s.devices /\ z.keys = s.keys
          /\ z.icd = s.icd /\ z.fabric = s.fabric
        BY Zenon DEF IsState
    <2> HIDE DEF z
    <2>2. IsState(z)
        BY <2>1, Zenon DEF IsState
    <2>3. Faithful(z, t, ts)
        BY <1>0, <2>1, MoreKept, Zenon
    <2> QED
        BY <2>1, <2>2, <2>3, Zenon DEF z
<1>2. LET z == [s EXCEPT !.fabric = TRUE] IN IsState(z) /\ Faithful(z, t, ts) /\ z.fabric
    <2> DEFINE z == [s EXCEPT !.fabric = TRUE]
    <2>1. /\ DOMAIN z = DOMAIN s /\ z.devices = s.devices /\ z.keys = s.keys
          /\ z.icd = s.icd /\ z.fabric
        BY Zenon DEF IsState
    <2> HIDE DEF z
    <2>2. IsState(z)
        BY <2>1, Zenon DEF IsState
    <2>3. Faithful(z, t, ts)
        BY <1>0, <2>1, MoreKept, Zenon
    <2> QED
        BY <2>1, <2>2, <2>3, Zenon DEF z
<1>3. ASSUME NEW n PROVE LET z == [s EXCEPT !.icd = @ \cup {n}]
                         IN  IsState(z) /\ Faithful(z, t, ts) /\ n \in z.icd
    <2> DEFINE z == [s EXCEPT !.icd = @ \cup {n}]
    <2>1. /\ DOMAIN z = DOMAIN s /\ z.devices = s.devices /\ z.keys = s.keys
          /\ z.icd = s.icd \cup {n} /\ z.fabric = s.fabric
        BY Zenon DEF IsState
    <2> HIDE DEF z
    <2>2. IsState(z)
        BY <2>1, Zenon DEF IsState
    <2>3. Faithful(z, t, ts)
        BY <1>0, <2>1, MoreKept, Zenon
    <2> QED
        BY <2>1, <2>2, <2>3, Zenon DEF z
<1> QED
    BY <1>1, <1>2, <1>3, Zenon

\* A key set gets a newer key than any so far (handle_create_group).
LEMMA KeyKeeps ==
    ASSUME NEW s, NEW t, NEW ts, IsState(s), Faithful(s, t, ts), NEW k \in KeySets,
           t.made \in Nat, NEW m \in Nat, m <= t.made, t.keys[k] <= m
    PROVE  LET z == [s EXCEPT !.keys[k] = m] IN IsState(z) /\ Faithful(z, t, ts)
<1> DEFINE z == [s EXCEPT !.keys[k] = m]
<1>1. /\ DOMAIN z = DOMAIN s /\ z.devices = s.devices /\ z.keys = [s.keys EXCEPT ![k] = m]
      /\ z.icd = s.icd /\ z.fabric = s.fabric
    BY Zenon DEF IsState
<1> HIDE DEF z
<1>2. IsState(z)
    BY <1>1, Zenon DEF IsState
<1>3. \A j \in KeySets : t.keys[j] <= z.keys[j] /\ z.keys[j] <= t.made
    BY <1>1, Zenon DEF Faithful, IsState
<1>4. Faithful(z, t, ts)
    BY <1>1, <1>3, MoreKept, Zenon
<1> QED
    BY <1>2, <1>4, Zenon DEF z
-----------------------------------------------------------------------------
\* An entry is added to the device list (handle_commission_completion).
LEMMA AppendKeeps ==
    ASSUME NEW s, NEW t, NEW ts, NEW us, IsState(s), Faithful(s, t, ts),
           NEW e, {"node", "unit", "rec"} \subseteq DOMAIN e, e.rec = 0,
           e.unit \in t.started, e.unit \notin t.forgotten, e.unit \notin UnitsOf(s),
           \A x \in us : x \in ts /\ x.unit # e.unit
    PROVE  LET z == [s EXCEPT !.devices = Append(@, e)]
           IN  IsState(z) /\ Faithful(z, t, us) /\ e.unit \in UnitsOf(z)
<1> DEFINE z == [s EXCEPT !.devices = Append(@, e)]
           d == s.devices
           a == Append(d, e)
<1>1. /\ DOMAIN z = DOMAIN s /\ z.devices = a /\ z.keys = s.keys
      /\ z.icd = s.icd /\ z.fabric = s.fabric
    BY Zenon DEF IsState
<1>2. Longer(a, d, e)
    <2>1. Listed(d)
        BY Zenon DEF IsState
    <2> HIDE DEF d
    <2> QED
        BY <2>1, AppendFacts, Zenon
<1> HIDE DEF z, a
<1>3. IsState(z)
    BY <1>1, <1>2, Zenon DEF IsState, Longer
<1>4. UnitsOf(z) = UnitsOf(s) \cup {e.unit}
    BY <1>1, <1>2 DEF UnitsOf, Longer
<1>5. \A i \in DOMAIN d : d[i].unit # e.unit
    BY Zenon DEF UnitsOf
<1>6. \A i, j \in DOMAIN a : a[i].unit = a[j].unit => a[i].node = a[j].node
    BY <1>2, <1>5 DEF Faithful, Longer
<1>7. \A i \in DOMAIN a : a[i].rec \in {0} \cup (t.invalid + 1 .. t.made)
    BY <1>2, Zenon DEF Faithful, Longer
<1>8. Faithful(z, t, us)
    <2>1. /\ t.fabric => z.fabric
          /\ t.kept \subseteq UnitsOf(z) /\ t.icd \subseteq z.icd
          /\ t.forgotten \cap UnitsOf(z) = {} /\ UnitsOf(z) \subseteq t.started
          /\ \A x \in us : x.unit \notin UnitsOf(z)
        BY <1>1, <1>4, Zenon DEF Faithful
    <2>2. \A k \in KeySets : t.keys[k] <= z.keys[k] /\ z.keys[k] <= t.made
        BY <1>1, Zenon DEF Faithful
    <2> QED
        BY <1>1, <1>6, <1>7, <2>1, <2>2, SMTT(30) DEF Faithful
<1> QED
    BY <1>3, <1>4, <1>8, Zenon DEF z

\* The entries of a node go (ForgetNode): no device of that node is listed under
\* another one, so none of them is left.
LEMMA RetainKeeps ==
    ASSUME RetainFilters,
           NEW s, NEW t, NEW ts, IsState(s), Faithful(s, t, ts), NEW n, NEW gone,
           gone = {s.devices[i].unit : i \in {j \in DOMAIN s.devices : s.devices[j].node = n}},
           t.kept \cap gone = {}
    PROVE  LET z == [s EXCEPT !.devices = RetainOthers(@, n)]
           IN  IsState(z) /\ Faithful(z, t, ts) /\ gone \cap UnitsOf(z) = {}
<1> DEFINE z == [s EXCEPT !.devices = RetainOthers(@, n)]
           d == s.devices
           w == RetainOthers(d, n)
<1>1. /\ DOMAIN z = DOMAIN s /\ z.devices = w /\ z.keys = s.keys
      /\ z.icd = s.icd /\ z.fabric = s.fabric
    BY Zenon DEF IsState
<1>2. Listed(d)
    BY Zenon DEF IsState
<1>3. Without(w, d, n)
    BY <1>2, Zenon DEF RetainFilters
<1> HIDE DEF z, w
<1>4. IsState(z)
    BY <1>1, <1>3 DEF IsState, Without
<1>5. \A i, j \in DOMAIN d : d[i].unit = d[j].unit => d[i].node = d[j].node
    BY Zenon DEF Faithful
<1>6. UnitsOf(z) = UnitsOf(s) \ gone
    <2>1. ASSUME NEW r \in DOMAIN w PROVE w[r].unit \in UnitsOf(s) \ gone
        <3>1. PICK i \in DOMAIN d : w[r] = d[i] /\ d[i].node # n
            BY <1>3, Zenon DEF Without
        <3>2. d[i].unit \in UnitsOf(s)
            BY Zenon DEF UnitsOf
        <3>3. d[i].unit \notin gone
            BY <1>5, <3>1, Zenon
        <3> QED
            BY <3>1, <3>2, <3>3, Zenon
    <2>2. ASSUME NEW i \in DOMAIN d, d[i].unit \notin gone PROVE d[i].unit \in UnitsOf(z)
        BY <2>2, <1>1, <1>3, Zenon DEF UnitsOf, Without
    <2> QED
        BY <2>1, <2>2, <1>1, SMTT(30) DEF UnitsOf
<1>7. \A i, j \in DOMAIN w : w[i].unit = w[j].unit => w[i].node = w[j].node
    <2> SUFFICES ASSUME NEW i \in DOMAIN w, NEW j \in DOMAIN w, w[i].unit = w[j].unit
                 PROVE  w[i].node = w[j].node
        BY Zenon
    <2>1. PICK k \in DOMAIN d : w[i] = d[k]
        BY <1>3, Zenon DEF Without
    <2>2. PICK l \in DOMAIN d : w[j] = d[l]
        BY <1>3, Zenon DEF Without
    <2> QED
        BY <1>5, <2>1, <2>2
<1>8. \A i \in DOMAIN w : w[i].rec \in {0} \cup (t.invalid + 1 .. t.made)
    BY <1>3, Zenon DEF Faithful, Without
<1>9. Faithful(z, t, ts)
    <2>1. /\ t.fabric => z.fabric
          /\ t.kept \subseteq UnitsOf(z) /\ t.icd \subseteq z.icd
          /\ t.forgotten \cap UnitsOf(z) = {} /\ UnitsOf(z) \subseteq t.started
          /\ \A x \in ts : x.unit \notin UnitsOf(z)
        BY <1>1, <1>6, Zenon DEF Faithful
    <2>2. \A k \in KeySets : t.keys[k] <= z.keys[k] /\ z.keys[k] <= t.made
        BY <1>1, Zenon DEF Faithful
    <2> QED
        BY <1>1, <1>7, <1>8, <2>1, <2>2, SMTT(30) DEF Faithful
<1> QED
    BY <1>4, <1>6, <1>9, Zenon DEF z

\* The records of some entries change, to none or to one that is not invalid.
LEMMA EntriesKeep ==
    ASSUME NEW s, NEW t, NEW ts, IsState(s), Faithful(s, t, ts), NEW v,
           DOMAIN v = DOMAIN s.devices, v = [i \in DOMAIN v |-> v[i]],
           \A i \in DOMAIN v : /\ DOMAIN v[i] = DOMAIN s.devices[i]
                               /\ v[i].node = s.devices[i].node /\ v[i].unit = s.devices[i].unit
                               /\ v[i].rec \in {0} \cup (t.invalid + 1 .. t.made)
    PROVE  LET z == [s EXCEPT !.devices = v]
           IN  IsState(z) /\ Faithful(z, t, ts) /\ z.devices = v
<1> DEFINE z == [s EXCEPT !.devices = v]
           d == s.devices
<1>1. /\ DOMAIN z = DOMAIN s /\ z.devices = v /\ z.keys = s.keys
      /\ z.icd = s.icd /\ z.fabric = s.fabric
    BY Zenon DEF IsState
<1> HIDE DEF z
<1>2. Listed(d)
    BY Zenon DEF IsState
<1>3. Len(d) \in Nat /\ DOMAIN v = 1 .. Len(d)
    BY <1>2 DEF Listed
<1>4. Listed(v)
    BY <1>3 DEF Listed
<1>5. IsState(z)
    BY <1>1, <1>4 DEF IsState
<1>6. UnitsOf(z) = UnitsOf(s)
    BY <1>1 DEF UnitsOf
<1>7. \A i, j \in DOMAIN v : v[i].unit = v[j].unit => v[i].node = v[j].node
    BY SMTT(30) DEF Faithful
<1>8. Faithful(z, t, ts)
    <2>1. /\ t.fabric => z.fabric
          /\ t.kept \subseteq UnitsOf(z) /\ t.icd \subseteq z.icd
          /\ t.forgotten \cap UnitsOf(z) = {} /\ UnitsOf(z) \subseteq t.started
          /\ \A x \in ts : x.unit \notin UnitsOf(z)
        BY <1>1, <1>6, Zenon DEF Faithful
    <2>2. \A k \in KeySets : t.keys[k] <= z.keys[k] /\ z.keys[k] <= t.made
        BY <1>1, Zenon DEF Faithful
    <2> QED
        BY <1>1, <1>7, <2>1, <2>2 DEF Faithful
<1> QED
    BY <1>1, <1>5, <1>8, Zenon DEF z

\* Every record is dropped (handle_invalidate_resumption_records).
LEMMA InvalidateKeeps ==
    ASSUME NEW s, NEW t, NEW ts, IsState(s), Faithful(s, t, ts)
    PROVE  LET z == [s EXCEPT !.devices = [i \in DOMAIN @ |-> [@[i] EXCEPT !.rec = 0]]]
           IN  IsState(z) /\ Faithful(z, t, ts) /\ \A i \in DOMAIN z.devices : z.devices[i].rec = 0
<1> DEFINE v == [i \in DOMAIN s.devices |-> [s.devices[i] EXCEPT !.rec = 0]]
<1>1. \A i \in DOMAIN s.devices : {"node", "unit", "rec"} \subseteq DOMAIN s.devices[i]
    BY Zenon DEF IsState
<1>2. /\ DOMAIN v = DOMAIN s.devices /\ v = [i \in DOMAIN v |-> v[i]]
      /\ \A i \in DOMAIN v : /\ DOMAIN v[i] = DOMAIN s.devices[i] /\ v[i].rec = 0
                             /\ v[i].node = s.devices[i].node /\ v[i].unit = s.devices[i].unit
    BY <1>1, Zenon
<1>3. [s EXCEPT !.devices = [i \in DOMAIN @ |-> [@[i] EXCEPT !.rec = 0]]] = [s EXCEPT !.devices = v]
    BY Zenon
<1> HIDE DEF v
<1>4. LET z == [s EXCEPT !.devices = v] IN IsState(z) /\ Faithful(z, t, ts) /\ z.devices = v
    BY <1>2, EntriesKeep
<1> QED
    BY <1>2, <1>3, <1>4, Zenon

\* One record changes (SetRecord).
LEMMA RecordKeeps ==
    ASSUME NEW s, NEW t, NEW ts, IsState(s), Faithful(s, t, ts), NEW n,
           NEW r \in {0} \cup (t.invalid + 1 .. t.made)
    PROVE  IsState(SetRecord(s, n, r)) /\ Faithful(SetRecord(s, n, r), t, ts)
<1> DEFINE f == FirstAt(s, n)
           v == [s.devices EXCEPT ![f].rec = r]
<1>1. \A i \in DOMAIN s.devices : /\ {"node", "unit", "rec"} \subseteq DOMAIN s.devices[i]
                                  /\ s.devices[i].rec \in {0} \cup (t.invalid + 1 .. t.made)
    BY Zenon DEF IsState, Faithful
<1>2. SetRecord(s, n, r) = [s EXCEPT !.devices = v]
    BY Zenon DEF SetRecord
<1> HIDE DEF f
<1>3. /\ DOMAIN v = DOMAIN s.devices /\ v = [i \in DOMAIN v |-> v[i]]
      /\ \A i \in DOMAIN v : /\ DOMAIN v[i] = DOMAIN s.devices[i]
                             /\ v[i].node = s.devices[i].node /\ v[i].unit = s.devices[i].unit
                             /\ v[i].rec \in {0} \cup (t.invalid + 1 .. t.made)
    BY <1>1, Zenon
<1> HIDE DEF v
<1> QED
    BY <1>2, <1>3, EntriesKeep

-----------------------------------------------------------------------------
\* A durable operation (AwaitSave): what it made of memory bears out what callers
\* were told, so memory and store both do.
LEMMA AwaitTruthful ==
    ASSUME SInv, Idle, NEW op, NEW arg, NEW state, AwaitSave(op, arg, state),
           IsState(state), Faithful(state, told', tasks'), Done(op, arg, state, told', tasks'),
           IsTold(told', tasks'), Onward(told, told', tasks, tasks')
    PROVE  Truthful'
<1>1. /\ mem' = state /\ busy'.op = op /\ busy'.arg = arg /\ busy'.job.state = state
      /\ UNCHANGED <<disk, gate, gen, jobs>>
    BY Zenon DEF AwaitSave, SaveJob
<1>2. \A s : IsState(s) /\ Faithful(s, told, tasks) => Faithful(s, told', tasks')
    BY MoreTold, Zenon DEF SInv, Truthful, IsTold
<1>3. AwaitedIsDone'
    BY <1>1, Zenon DEF AwaitedIsDone
<1>4. StatesFaithful'
    BY <1>1, <1>2, Zenon DEF SInv, Truthful, StatesFaithful
<1> QED
    BY <1>3, <1>4, Zenon DEF Truthful

\* A best-effort save (persist_best_effort) of a state that bears out what callers were
\* told.
LEMMA DetachTruthful ==
    ASSUME SInv, Idle, NEW state, PersistBestEffort(state),
           IsState(state), Faithful(state, told', tasks),
           IsTold(told', tasks), Onward(told, told', tasks, tasks)
    PROVE  Truthful'
<1> DEFINE new == SaveJob(state)
<1>1. /\ mem' = state /\ jobs' = jobs \cup {new} /\ new.state = state
      /\ UNCHANGED <<disk, gate, gen, busy, tasks>>
    BY Zenon DEF PersistBestEffort, SaveJob
<1> HIDE DEF new
<1>2. \A s : IsState(s) /\ Faithful(s, told, tasks) => Faithful(s, told', tasks')
    BY <1>1, MoreTold, Zenon DEF SInv, Truthful, IsTold
<1>3. AwaitedIsDone'
    BY <1>1, Zenon DEF AwaitedIsDone, Idle
<1>4. StatesFaithful'
    BY <1>1, <1>2, Zenon DEF SInv, Truthful, StatesFaithful
<1> QED
    BY <1>1, <1>3, <1>4, Zenon DEF Truthful

\* A commission starts or fails (SpawnCommission, CommissionFails): no state changes.
LEMMA TasksTruthful ==
    ASSUME SInv, Idle, UNCHANGED <<mem, disk, gate, gen, jobs, busy>>,
           IsTold(told', tasks'), Onward(told, told', tasks, tasks')
    PROVE  Truthful'
<1>1. \A s : IsState(s) /\ Faithful(s, told, tasks) => Faithful(s, told', tasks')
    BY MoreTold, Zenon DEF SInv, Truthful, IsTold
<1>2. AwaitedIsDone'
    BY Zenon DEF AwaitedIsDone, Idle
<1>3. StatesFaithful'
    BY <1>1, Zenon DEF SInv, Truthful, StatesFaithful
<1> QED
    BY <1>2, <1>3, Zenon DEF Truthful

\* A step that leaves the states, the saves and what was told alone (InvokeGroup).
LEMMA UnrelatedTruthful ==
    ASSUME SInv, UNCHANGED <<mem, disk, gate, gen, jobs, busy, tasks, told>>
    PROVE  Truthful'
BY Zenon DEF SInv, Truthful, AwaitedIsDone, StatesFaithful

\* A detached save runs: the gate lets through only states that bear out what was told.
LEMMA DetachedTruthful ==
    ASSUME SInv, NEW job, NEW ok \in BOOLEAN, DetachedSaveRuns(job, ok)
    PROVE  Truthful'
<1>1. /\ job \in jobs /\ jobs' = jobs \ {job}
      /\ disk' = StoreAfter(job, ok) /\ gate' = GateAfter(job, ok)
      /\ UNCHANGED <<mem, gen, busy, tasks, told>>
    BY Zenon DEF DetachedSaveRuns
<1>2. /\ job.gen = gen /\ job.seq \in Nat
      /\ gen \in 0 .. MaxRestarts /\ gate \in [0 .. MaxRestarts -> Nat]
    BY <1>1, Zenon DEF SInv, IInv, Typed, JobsAgree
<1>3. IsState(job.state) /\ (job.seq >= gate[gen] => Faithful(job.state, told, tasks))
    BY <1>1, Zenon DEF SInv, Truthful, StatesFaithful
<1>4. IsState(disk) /\ Faithful(disk, told, tasks)
    BY Zenon DEF SInv, Truthful, StatesFaithful
<1>5. IsState(disk') /\ Faithful(disk', told, tasks)
    BY <1>1, <1>2, <1>3, <1>4, Zenon DEF StoreAfter, MayWrite
<1>6. gate'[gen] \in Nat /\ gate[gen] <= gate'[gen]
    BY <1>1, <1>2 DEF GateAfter, MayWrite
<1>7. \A j \in jobs' : j.seq \in Nat /\ (j.seq >= gate'[gen] => j.seq >= gate[gen])
    BY <1>1, <1>2, <1>6, SMTT(30) DEF SInv, IInv, JobsAgree
<1>8. StatesFaithful'
    BY <1>1, <1>5, <1>7, Zenon DEF SInv, Truthful, StatesFaithful
<1>9. AwaitedIsDone' /\ IsTold(told, tasks)'
    BY <1>1, Zenon DEF SInv, Truthful, AwaitedIsDone
<1> QED
    BY <1>8, <1>9, Zenon DEF Truthful

\* A new actor starts from the store.
LEMMA LoadTruthful ==
    ASSUME SInv, jobs' = {}, Load
    PROVE  Truthful'
<1>1. mem' = disk /\ busy'.op = "none" /\ tasks' = {} /\ UNCHANGED <<disk, told>>
    BY Zenon DEF Load, NotBusy
<1>2. Onward(told, told, tasks, {}) /\ told.made \in Nat /\ told.invalid \in Nat
    BY DEF SInv, Truthful, IsTold, Onward
<1>3. IsState(disk) /\ Faithful(disk, told, {})
    BY <1>2, MoreTold, Zenon DEF SInv, Truthful, StatesFaithful
<1>4. AwaitedIsDone' /\ StatesFaithful'
    BY <1>1, <1>3, Zenon DEF AwaitedIsDone, StatesFaithful
<1>5. IsTold(told, tasks)'
    BY <1>1, Zenon DEF SInv, Truthful, IsTold
<1> QED
    BY <1>4, <1>5, Zenon DEF Truthful
-----------------------------------------------------------------------------
\* What a caller is told at the end of an operation is true of memory (Reported).
LEMMA ReportIsTrue ==
    ASSUME SInv, busy.op # "none", busy.op # "reserve"
    PROVE  Faithful(mem, Reported, tasks) /\ IsTold(Reported, tasks)
<1>1. /\ IsTold(told, tasks) /\ Faithful(mem, told, tasks) /\ IsState(mem)
      /\ Done(busy.op, busy.arg, mem, told, tasks)
    BY Zenon DEF SInv, Truthful, AwaitedIsDone, StatesFaithful
<1>2. CASE busy.op = "fabric"
    <2>1. Reported = [told EXCEPT !.fabric = TRUE] /\ mem.fabric
        BY <1>1, <1>2, Zenon DEF Reported, Done
    <2> QED
        BY <1>1, <2>1, Zenon DEF Faithful, IsTold
<1>3. CASE busy.op = "group"
    <2>1. Reported = [told EXCEPT !.keys[busy.arg] = mem.keys[busy.arg]] /\ busy.arg \in KeySets
        BY <1>1, <1>3, Zenon DEF Reported, Done
    <2>2. mem.keys[busy.arg] \in Nat
        BY <1>1, <2>1, Zenon DEF IsState
    <2>3. /\ DOMAIN Reported = DOMAIN told
          /\ Reported.keys = [told.keys EXCEPT ![busy.arg] = mem.keys[busy.arg]]
          /\ Reported.fabric = told.fabric /\ Reported.kept = told.kept
          /\ Reported.forgotten = told.forgotten /\ Reported.icd = told.icd
          /\ Reported.invalid = told.invalid /\ Reported.made = told.made
          /\ Reported.started = told.started
        BY <1>1, <2>1, Zenon DEF IsTold
    <2>4. \A k \in KeySets : /\ Reported.keys[k] \in Nat /\ Reported.keys[k] <= mem.keys[k]
                             /\ mem.keys[k] <= told.made
        BY <1>1, <2>1, <2>2, <2>3, SMTT(30) DEF IsTold, IsState, Faithful
    <2>5. Faithful(mem, Reported, tasks)
        BY <1>1, <2>3, <2>4, Zenon DEF Faithful
    <2>6. IsTold(Reported, tasks)
        BY <1>1, <2>2, <2>3, Zenon DEF IsTold
    <2> QED
        BY <2>5, <2>6, Zenon
<1>4. CASE busy.op = "icd"
    <2>1. Reported = [told EXCEPT !.icd = @ \cup {busy.arg}] /\ busy.arg \in mem.icd
        BY <1>1, <1>4, Zenon DEF Reported, Done
    <2> QED
        BY <1>1, <2>1, Zenon DEF Faithful, IsTold
<1>5. CASE busy.op = "commission"
    <2>1. Reported = [told EXCEPT !.kept = @ \cup {busy.arg}] /\ busy.arg \in UnitsOf(mem)
        BY <1>1, <1>5, Zenon DEF Reported, Done
    <2> QED
        BY <1>1, <2>1, Zenon DEF Faithful, IsTold
<1>6. CASE busy.op = "forget"
    <2>1. /\ Reported = [told EXCEPT !.forgotten = @ \cup busy.arg]
          /\ busy.arg \subseteq told.started /\ busy.arg \cap UnitsOf(mem) = {}
          /\ \A x \in tasks : x.unit \notin busy.arg
        BY <1>1, <1>6, Zenon DEF Reported, Done
    <2> QED
        BY <1>1, <2>1, Zenon DEF Faithful, IsTold
<1>7. CASE busy.op = "invalidate"
    <2>1. /\ Reported = [told EXCEPT !.invalid = busy.arg] /\ busy.arg = told.made
          /\ \A i \in DOMAIN mem.devices : mem.devices[i].rec = 0
        BY <1>1, <1>7, Zenon DEF Reported, Done
    <2> QED
        BY <1>1, <2>1 DEF Faithful, IsTold
<1>8. CASE busy.op = "vidpid"
    BY <1>1, <1>8, Zenon DEF Reported
<1> QED
    BY <1>1, <1>2, <1>3, <1>4, <1>5, <1>6, <1>7, <1>8, Zenon DEF Done

\* Once the awaited save is written nothing older is: the store is memory.
LEMMA WrittenIsMemory ==
    ASSUME SInv, busy.op # "none", gate' = GateAfter(busy.job, TRUE), UNCHANGED <<gen, jobs>>
    PROVE  StoreAfter(busy.job, TRUE) = mem /\ \A j \in jobs' : ~(j.seq >= gate'[gen'])
<1>1. busy.job.state = mem
    BY Zenon DEF SInv, Truthful, AwaitedIsDone
<1>2. StoreAfter(busy.job, TRUE) = mem /\ gate' = [gate EXCEPT ![gen] = seq]
    BY <1>1, AwaitedWrites, Zenon DEF SInv
<1>3. gate'[gen'] = seq /\ seq \in Nat
    BY <1>2, Zenon DEF SInv, IInv, Typed
<1>4. \A j \in jobs : j.seq \in Nat /\ j.seq < seq
    BY Zenon DEF SInv, IInv, JobsAgree, AwaitedIsNewest
<1>5. \A j \in jobs : ~(j.seq >= seq)
    BY <1>3, <1>4
<1> QED
    BY <1>2, <1>3, <1>5, Zenon

\* A durable operation ends: its caller hears of success only when the store is memory.
LEMMA EndTruthful ==
    ASSUME SInv, NEW ok \in BOOLEAN, OperationEnds(ok)
    PROVE  Truthful'
<1>1. /\ busy.op # "none" /\ busy.op # "reserve" /\ busy'.op = "none"
      /\ disk' = StoreAfter(busy.job, ok) /\ gate' = GateAfter(busy.job, ok)
      /\ told' = (IF SaveWorked(ok) THEN Reported ELSE told)
      /\ UNCHANGED <<mem, gen, jobs, tasks>>
    BY Zenon DEF OperationEnds, Idle, NotBusy
<1>2. AwaitedIsDone'
    BY <1>1, Zenon DEF AwaitedIsDone
<1>3. CASE ok
    <2>1. disk' = mem /\ \A j \in jobs' : ~(j.seq >= gate'[gen'])
        BY <1>1, <1>3, WrittenIsMemory, Zenon
    <2>2. told' = Reported
        BY <1>1, <1>3, AwaitedWrites, Zenon DEF SInv
    <2>3. Faithful(mem, told', tasks) /\ IsTold(told', tasks)
        BY <1>1, <2>2, ReportIsTrue, Zenon
    <2>4. StatesFaithful'
        BY <1>1, <2>1, <2>3, Zenon DEF SInv, Truthful, StatesFaithful
    <2> QED
        BY <1>1, <1>2, <2>3, <2>4, Zenon DEF Truthful
<1>4. CASE ~ok
    <2>1. disk' = disk /\ gate' = gate /\ told' = told
        BY <1>1, <1>4, AwaitedWrites, Zenon DEF SInv
    <2> QED
        BY <1>1, <1>2, <2>1, Zenon DEF SInv, Truthful, StatesFaithful
<1> QED
    BY <1>3, <1>4, Zenon

\* A block of counters is reserved: only the ceiling changes (ReserveBlock).
LEMMA ReserveTruthful ==
    ASSUME SInv, NEW k, ReserveBlock(k)
    PROVE  Truthful'
<1> DEFINE top == IF NextCounter + Block <= MaxCounter THEN NextCounter + Block ELSE MaxCounter
<1>1. mem' = [mem EXCEPT !.ceiling = top]
    BY Zenon DEF ReserveBlock
<1> HIDE DEF top
<1>2. /\ busy'.op = "reserve" /\ busy'.job.state = mem'
      /\ UNCHANGED <<disk, gate, gen, jobs, tasks, told>>
    BY Zenon DEF ReserveBlock, SaveJob
<1>3. IsState(mem') /\ Faithful(mem', told, tasks)
    BY <1>1, FieldKeeps, Zenon DEF SInv, Truthful, StatesFaithful
<1>4. AwaitedIsDone'
    BY <1>2, Zenon DEF AwaitedIsDone, Done
<1> QED
    BY <1>2, <1>3, <1>4, Zenon DEF SInv, Truthful, StatesFaithful

\* A reservation ends (ReserveEnds).
LEMMA ReserveEndTruthful ==
    ASSUME SInv, NEW ok \in BOOLEAN, NEW sending \in BOOLEAN, ReserveEnds(ok, sending)
    PROVE  Truthful'
<1>1. /\ busy.op = "reserve" /\ busy'.op = "none"
      /\ disk' = StoreAfter(busy.job, ok) /\ gate' = GateAfter(busy.job, ok)
      /\ UNCHANGED <<gen, jobs, tasks, told>>
    BY Zenon DEF ReserveEnds, NotBusy
<1>2. AwaitedIsDone'
    BY <1>1, Zenon DEF AwaitedIsDone
<1>3. CASE ok
    <2>1. disk' = mem /\ \A j \in jobs' : ~(j.seq >= gate'[gen'])
        BY <1>1, <1>3, WrittenIsMemory, Zenon
    <2>2. mem' = mem
        BY <1>1, <1>3, AwaitedWrites, Zenon DEF SInv, ReserveEnds
    <2> QED
        BY <1>1, <1>2, <2>1, <2>2, Zenon DEF SInv, Truthful, StatesFaithful
<1>4. CASE ~ok
    <2>1. disk' = disk /\ gate' = gate /\ mem' = [mem EXCEPT !.ceiling = busy.undo]
        BY <1>1, <1>4, AwaitedWrites, Zenon DEF SInv, ReserveEnds, UndoReserve
    <2>2. IsState(mem') /\ Faithful(mem', told, tasks)
        BY <2>1, FieldKeeps, Zenon DEF SInv, Truthful, StatesFaithful
    <2> QED
        BY <1>1, <1>2, <2>1, <2>2, Zenon DEF SInv, Truthful, StatesFaithful
<1> QED
    BY <1>3, <1>4, Zenon
-----------------------------------------------------------------------------
\* Every durable operation changes memory to a state that bears out what callers were
\* told.
LEMMA DurableTruthful ==
    ASSUME RetainFilters, SInv,
           \/ CreateFabric \/ InvalidateResumptionRecords
           \/ \E k \in KeySets : CreateGroup(k)
           \/ \E t \in tasks : CommissionDone(t)
           \/ \E n \in NodesOf(mem) : ForgetNode(n) \/ SetNodeVidPid(n) \/ PersistIcdRegistration(n)
    PROVE  Truthful'
<1>1. /\ IsState(mem) /\ Faithful(mem, told, tasks) /\ IsTold(told, tasks)
      /\ told.made \in Nat /\ told.invalid \in Nat
    BY Zenon DEF SInv, Truthful, StatesFaithful, IsTold
<1>2. Onward(told, told, tasks, tasks)
    BY <1>1 DEF Onward
<1>3. CASE CreateFabric
    <2> DEFINE s == [mem EXCEPT !.fabric = TRUE]
    <2>1. Idle /\ AwaitSave("fabric", 0, s) /\ told' = told /\ tasks' = tasks
        BY <1>3, Zenon DEF CreateFabric
    <2>2. IsState(s) /\ Faithful(s, told, tasks) /\ s.fabric
        BY <1>1, FieldKeeps, Zenon
    <2> HIDE DEF s
    <2>3. Done("fabric", 0, s, told, tasks)
        BY <2>2, Zenon DEF Done
    <2> QED
        BY <1>1, <1>2, <2>1, <2>2, <2>3, AwaitTruthful, Zenon
<1>4. CASE InvalidateResumptionRecords
    <2> DEFINE s == [mem EXCEPT !.devices = [i \in DOMAIN @ |-> [@[i] EXCEPT !.rec = 0]]]
    <2>1. Idle /\ AwaitSave("invalidate", told.made, s) /\ told' = told /\ tasks' = tasks
        BY <1>4, Zenon DEF InvalidateResumptionRecords
    <2>2. IsState(s) /\ Faithful(s, told, tasks) /\ \A i \in DOMAIN s.devices : s.devices[i].rec = 0
        BY <1>1, InvalidateKeeps, Zenon
    <2> HIDE DEF s
    <2>3. Done("invalidate", told.made, s, told, tasks)
        BY <2>2, Zenon DEF Done
    <2> QED
        BY <1>1, <1>2, <2>1, <2>2, <2>3, AwaitTruthful, Zenon
<1>5. ASSUME NEW k \in KeySets, CreateGroup(k) PROVE Truthful'
    <2> DEFINE s == [mem EXCEPT !.keys[k] = told.made + 1]
    <2>1. /\ Idle /\ AwaitSave("group", k, s) /\ tasks' = tasks
          /\ told' = [told EXCEPT !.made = @ + 1]
        BY <1>5, Zenon DEF CreateGroup
    <2>2. /\ Onward(told, told', tasks, tasks) /\ IsTold(told', tasks)
          /\ told'.made = told.made + 1 /\ told'.keys = told.keys
        BY <1>1, <2>1 DEF Onward, IsTold
    <2>3. Faithful(mem, told', tasks)
        BY <1>1, <2>2, MoreTold, SMTT(30)
    <2>4. told'.keys[k] \in Nat /\ told'.keys[k] <= told.made + 1
        BY <1>1, <2>2 DEF Faithful, IsTold, IsState
    <2>5. IsState(s) /\ Faithful(s, told', tasks)
        BY <1>1, <2>2, <2>3, <2>4, KeyKeeps, SMTT(30)
    <2> HIDE DEF s
    <2>6. Done("group", k, s, told', tasks)
        BY Zenon DEF Done
    <2> QED
        BY <2>1, <2>2, <2>5, <2>6, AwaitTruthful, Zenon
<1>6. ASSUME NEW t \in tasks, CommissionDone(t) PROVE Truthful'
    <2> DEFINE e == [node |-> t.node, unit |-> t.unit, rec |-> 0]
               s == [mem EXCEPT !.devices = Append(@, e)]
    <2>1. /\ Idle /\ AwaitSave("commission", t.unit, s) /\ told' = told
          /\ tasks' = tasks \ {t}
        BY <1>6, Zenon DEF CommissionDone
    <2>2. /\ t.unit \in told.started /\ t.unit \notin told.forgotten /\ t.unit \notin UnitsOf(mem)
          /\ \A x \in tasks' : x \in tasks /\ x.unit # t.unit
        BY <1>1, <2>1, Zenon DEF IsTold, Faithful
    <2>3. {"node", "unit", "rec"} \subseteq DOMAIN e /\ e.rec = 0 /\ e.unit = t.unit
        BY Zenon
    <2>4. IsTold(told, tasks') /\ Onward(told, told, tasks, tasks')
        BY <1>1, <2>2 DEF IsTold, Onward
    <2> HIDE DEF e
    <2>5. IsState(s) /\ Faithful(s, told, tasks') /\ t.unit \in UnitsOf(s)
        BY <1>1, <2>2, <2>3, AppendKeeps, ZenonT(30)
    <2> HIDE DEF s
    <2>6. Done("commission", t.unit, s, told, tasks')
        BY <2>5, Zenon DEF Done
    <2> QED
        BY <2>1, <2>4, <2>5, <2>6, AwaitTruthful, Zenon
<1>7. ASSUME NEW n \in NodesOf(mem), ForgetNode(n) PROVE Truthful'
    <2> DEFINE gone == {mem.devices[i].unit : i \in {j \in DOMAIN mem.devices : mem.devices[j].node = n}}
               s == [mem EXCEPT !.devices = RetainOthers(@, n)]
    <2>1. /\ Idle /\ AwaitSave("forget", gone, s) /\ tasks' = tasks
          /\ told' = [told EXCEPT !.kept = @ \ gone]
        BY <1>7, Zenon DEF ForgetNode
    <2>2. gone \subseteq UnitsOf(mem)
        BY Zenon DEF UnitsOf
    <2>3. gone \subseteq told.started /\ \A x \in tasks : x.unit \notin gone
        <3> HIDE DEF gone
        <3> QED
            BY <1>1, <2>2, Zenon DEF Faithful
    <2>4. /\ Onward(told, told', tasks, tasks) /\ IsTold(told', tasks) /\ told'.made \in Nat
          /\ told'.started = told.started /\ told'.kept \cap gone = {}
        <3> HIDE DEF gone
        <3> QED
            BY <1>1, <2>1, SMTT(30) DEF Onward, IsTold
    <2>5. Faithful(mem, told', tasks)
        BY <1>1, <2>4, MoreTold, Zenon
    <2>6. IsState(s) /\ Faithful(s, told', tasks) /\ gone \cap UnitsOf(s) = {}
        BY <1>1, <2>4, <2>5, RetainKeeps, ZenonT(30)
    <2> HIDE DEF s, gone
    <2>7. Done("forget", gone, s, told', tasks)
        BY <2>3, <2>4, <2>6, Zenon DEF Done
    <2> QED
        BY <2>1, <2>4, <2>6, <2>7, AwaitTruthful, Zenon
<1>8. ASSUME NEW n \in NodesOf(mem), SetNodeVidPid(n) PROVE Truthful'
    <2>1. Idle /\ AwaitSave("vidpid", 0, mem) /\ told' = told /\ tasks' = tasks
        BY <1>8, Zenon DEF SetNodeVidPid
    <2>2. Done("vidpid", 0, mem, told, tasks)
        BY Zenon DEF Done
    <2> QED
        BY <1>1, <1>2, <2>1, <2>2, AwaitTruthful, Zenon
<1>9. ASSUME NEW n \in NodesOf(mem), PersistIcdRegistration(n) PROVE Truthful'
    <2> DEFINE s == [mem EXCEPT !.icd = @ \cup {n}]
    <2>1. Idle /\ AwaitSave("icd", n, s) /\ told' = told /\ tasks' = tasks
        BY <1>9, Zenon DEF PersistIcdRegistration
    <2>2. IsState(s) /\ Faithful(s, told, tasks) /\ n \in s.icd
        BY <1>1, FieldKeeps, Zenon
    <2> HIDE DEF s
    <2>3. Done("icd", n, s, told, tasks)
        BY <2>2, Zenon DEF Done
    <2> QED
        BY <1>1, <1>2, <2>1, <2>2, <2>3, AwaitTruthful, Zenon
<1> QED
    BY <1>3, <1>4, <1>5, <1>6, <1>7, <1>8, <1>9, Zenon

\* So does every change that is saved best-effort: a late connect never lists a device.
LEMMA BestEffortTruthful ==
    ASSUME SInv, NEW n, ConnectDone(n) \/ RecoverFromUnusableRecord(n)
    PROVE  Truthful'
<1>1. /\ IsState(mem) /\ Faithful(mem, told, tasks) /\ IsTold(told, tasks)
      /\ told.made \in Nat /\ told.invalid \in Nat /\ told.invalid <= told.made
    BY Zenon DEF SInv, Truthful, StatesFaithful, IsTold
<1>2. CASE ConnectDone(n)
    <2> DEFINE s == UpsertDevice(mem, n, told.made + 1)
    <2>1. Idle /\ PersistBestEffort(s) /\ told' = [told EXCEPT !.made = @ + 1]
        BY <1>2, Zenon DEF ConnectDone
    <2>2. /\ Onward(told, told', tasks, tasks) /\ IsTold(told', tasks)
          /\ told'.made = told.made + 1 /\ told'.invalid = told.invalid
        BY <1>1, <2>1 DEF Onward, IsTold
    <2>3. Faithful(mem, told', tasks)
        BY <1>1, <2>2, MoreTold
    <2>4. told.made + 1 \in {0} \cup (told'.invalid + 1 .. told'.made)
        BY <1>1, <2>2
    <2>5. IsState(s) /\ Faithful(s, told', tasks)
        BY <1>1, <2>3, <2>4, RecordKeeps, Zenon DEF UpsertDevice
    <2> HIDE DEF s
    <2> QED
        BY <2>1, <2>2, <2>5, DetachTruthful, Zenon
<1>3. CASE RecoverFromUnusableRecord(n)
    <2>1. Idle /\ PersistBestEffort(SetRecord(mem, n, 0)) /\ told' = told
        BY <1>3, Zenon DEF RecoverFromUnusableRecord
    <2>2. IsState(SetRecord(mem, n, 0)) /\ Faithful(SetRecord(mem, n, 0), told, tasks)
        BY <1>1, RecordKeeps, Zenon
    <2>3. Onward(told, told, tasks, tasks)
        BY <1>1 DEF Onward
    <2> QED
        BY <1>1, <2>1, <2>2, <2>3, DetachTruthful, Zenon
<1> QED
    BY <1>2, <1>3, Zenon

\* A commission starts on a device nobody started on, or fails.
LEMMA CommissionTruthful ==
    ASSUME SInv, (\E u \in Units : SpawnCommission(u)) \/ (\E t \in tasks : CommissionFails(t))
    PROVE  Truthful'
<1>1. IsTold(told, tasks)
    BY Zenon DEF SInv, Truthful
<1>2. ASSUME NEW u \in Units, SpawnCommission(u) PROVE Truthful'
    <2> DEFINE task == [unit |-> u, node |-> NextDeviceNodeId(mem)]
    <2>1. /\ Idle /\ u \notin told.started /\ tasks' = tasks \cup {task} /\ task.unit = u
          /\ told' = [told EXCEPT !.started = @ \cup {u}]
          /\ UNCHANGED <<mem, disk, gate, gen, jobs, busy>>
        BY <1>2, Zenon DEF SpawnCommission
    <2> HIDE DEF task
    <2>2. IsTold(told', tasks') /\ Onward(told, told', tasks, tasks')
        BY <1>1, <2>1 DEF IsTold, Onward
    <2> QED
        BY <2>1, <2>2, TasksTruthful, Zenon
<1>3. ASSUME NEW t \in tasks, CommissionFails(t) PROVE Truthful'
    <2>1. /\ Idle /\ tasks' = tasks \ {t} /\ told' = told
          /\ UNCHANGED <<mem, disk, gate, gen, jobs, busy>>
        BY <1>3, Zenon DEF CommissionFails
    <2>2. IsTold(told', tasks') /\ Onward(told, told', tasks, tasks')
        BY <1>1, <2>1, SMTT(30) DEF IsTold, Onward
    <2> QED
        BY <2>1, <2>2, TasksTruthful, Zenon
<1> QED
    BY <1>2, <1>3, Zenon

\* A first start has told nobody anything; a start on an earlier store, what it holds.
LEMMA InitTruthful ==
    ASSUME Init
    PROVE  SInv
<1>1. disk = mem /\ jobs = {} /\ busy.op = "none" /\ tasks = {}
    BY Zenon DEF Init, NotBusy
<1>2. IsState(mem) /\ Faithful(mem, told, {}) /\ IsTold(told, {})
    <2>1. CASE /\ mem = EmptyState
               /\ told = [fabric |-> FALSE, kept |-> {}, forgotten |-> {}, icd |-> {}, invalid |-> 0,
                          keys |-> [k \in KeySets |-> 0], made |-> 0, started |-> {}]
        <3>1. /\ DOMAIN mem = {"fabric", "devices", "keys", "icd", "ceiling"}
              /\ mem.devices = <<>> /\ mem.keys = [k \in KeySets |-> 0] /\ mem.icd = {}
            BY <2>1, Zenon DEF EmptyState
        <3>2. Listed(mem.devices) /\ DOMAIN mem.devices = {} /\ UnitsOf(mem) = {}
            BY <3>1 DEF Listed, UnitsOf
        <3>3. IsState(mem)
            BY <3>1, <3>2, SMTT(30) DEF IsState
        <3>4. Faithful(mem, told, {}) /\ IsTold(told, {})
            BY <2>1, <3>1, <3>2, SMTT(30) DEF Faithful, IsTold
        <3> QED
            BY <3>3, <3>4, Zenon
    <2>2. ASSUME NEW u, mem = Provisioned(u),
                 told = [fabric |-> TRUE, kept |-> {u}, forgotten |-> {}, icd |-> {}, invalid |-> 0,
                         keys |-> mem.keys, made |-> 1, started |-> {u}]
          PROVE  IsState(mem) /\ Faithful(mem, told, {}) /\ IsTold(told, {})
        <3> DEFINE e == [node |-> FirstNode, unit |-> u, rec |-> 0]
        <3>1. /\ DOMAIN mem = {"fabric", "devices", "keys", "icd", "ceiling"} /\ mem.fabric
              /\ mem.devices = <<e>> /\ mem.keys = [k \in KeySets |-> 1] /\ mem.icd = {}
            BY <2>2, Zenon DEF Provisioned, EmptyState
        <3>2. e.unit = u /\ e.rec = 0 /\ DOMAIN e = {"node", "unit", "rec"}
            BY Zenon
        <3> HIDE DEF e
        <3>3. DOMAIN mem.devices = {1} /\ mem.devices[1] = e /\ Listed(mem.devices)
            BY <3>1 DEF Listed
        <3>4. UnitsOf(mem) = {u}
            BY <3>2, <3>3, Zenon DEF UnitsOf
        <3>5. IsState(mem)
            BY <3>1, <3>2, <3>3, SMTT(30) DEF IsState
        <3>6. Faithful(mem, told, {}) /\ IsTold(told, {})
            BY <2>2, <3>1, <3>2, <3>3, <3>4, SMTT(30) DEF Faithful, IsTold
        <3> QED
            BY <3>5, <3>6, Zenon
    <2> QED
        BY <2>1, <2>2, Zenon DEF Init
<1> QED
    BY <1>1, <1>2, InitHolds, Zenon DEF SInv, Truthful, AwaitedIsDone, StatesFaithful

\* Every step keeps the invariant, if a store is reopened only when no detached save of
\* the old actor is left.
LEMMA StepTruthful ==
    ASSUME RetainFilters, Drained, SInv, [Next]_vars
    PROVE  SInv'
<1>1. IInv'
    BY StepKeeps, Zenon DEF SInv
<1>2. CASE UNCHANGED vars
    BY <1>2, UnrelatedTruthful, <1>1, Zenon DEF vars, SInv
<1>3. CASE \/ CreateFabric \/ InvalidateResumptionRecords
           \/ \E k \in KeySets : CreateGroup(k)
           \/ \E t \in tasks : CommissionDone(t)
           \/ \E n \in NodesOf(mem) : ForgetNode(n) \/ SetNodeVidPid(n) \/ PersistIcdRegistration(n)
    BY <1>1, <1>3, DurableTruthful, Zenon DEF SInv
<1>4. ASSUME NEW n, ConnectDone(n) \/ RecoverFromUnusableRecord(n) PROVE SInv'
    BY <1>1, <1>4, BestEffortTruthful, Zenon DEF SInv
<1>5. ASSUME NEW k \in KeySets, ReserveBlock(k) PROVE SInv'
    BY <1>1, <1>5, ReserveTruthful, Zenon DEF SInv
<1>6. ASSUME NEW k \in KeySets, NEW ok \in BOOLEAN, InvokeGroup(k, ok) PROVE SInv'
    BY <1>1, <1>6, UnrelatedTruthful, Zenon DEF InvokeGroup, SInv
<1>7. CASE (\E u \in Units : SpawnCommission(u)) \/ (\E t \in tasks : CommissionFails(t))
    BY <1>1, <1>7, CommissionTruthful, Zenon DEF SInv
<1>8. ASSUME NEW ok \in BOOLEAN, OperationEnds(ok) PROVE SInv'
    BY <1>1, <1>8, EndTruthful, Zenon DEF SInv
<1>9. ASSUME NEW ok \in BOOLEAN, NEW sending \in BOOLEAN, ReserveEnds(ok, sending) PROVE SInv'
    BY <1>1, <1>9, ReserveEndTruthful, Zenon DEF SInv
<1>10. ASSUME NEW job \in jobs, NEW ok \in BOOLEAN, DetachedSaveRuns(job, ok) PROVE SInv'
    BY <1>1, <1>10, DetachedTruthful, Zenon DEF SInv
<1>11. CASE Crash \/ Reopen
    BY <1>1, <1>11, LoadTruthful, Zenon DEF Crash, Reopen, SInv
<1> QED
    BY <1>2, <1>3, <1>4, <1>5, <1>6, <1>7, <1>8, <1>9, <1>10, <1>11, Zenon DEF Next
-----------------------------------------------------------------------------
\* What follows is about the length of what devices.retain keeps, and only that needs
\* the facts about cardinalities.
INSTANCE FiniteSetTheorems

\* devices.retain keeps exactly the entries of the other nodes.
LEMMA RetainFacts == RetainFilters
<1> SUFFICES ASSUME NEW d, Listed(d), NEW n
             PROVE  Without(RetainOthers(d, n), d, n)
    BY Zenon DEF RetainFilters
<1> DEFINE S == {d[i] : i \in DOMAIN d}
           others == {i \in DOMAIN d : d[i].node # n}
           below(i) == {j \in others : j <= i}
           Rank(i) == Cardinality(below(i))
           size == Cardinality(others)
           f == [i \in others |-> Rank(i)]
           At(r) == CHOOSE i \in others : Rank(i) = r
           w == RetainOthers(d, n)
<1>1. w = [r \in 1 .. size |-> d[At(r)]]
    BY Zenon DEF RetainOthers
<1>2. DOMAIN d = 1 .. Len(d) /\ Len(d) \in Nat /\ others \subseteq 1 .. Len(d)
      /\ \A i \in DOMAIN d : d[i] \in S
    BY DEF Listed
<1>3. IsFiniteSet(others) /\ size \in Nat
    <2>1. IsFiniteSet(1 .. Len(d))
        BY <1>2, FS_Interval, SMTT(30)
    <2> QED
        BY <1>2, <2>1, FS_Subset, FS_CardinalityType, Zenon
<1> HIDE DEF w
<1>4. \A i \in others : Rank(i) \in 1 .. size
    <2> SUFFICES ASSUME NEW i \in others PROVE Rank(i) \in 1 .. size
        BY Zenon
    <2>1. below(i) \in SUBSET others /\ below(i) # {}
        BY <1>2
    <2> HIDE DEF below, others
    <2>2. IsFiniteSet(below(i)) /\ Rank(i) <= size
        BY <1>3, <2>1, FS_Subset, Zenon
    <2>3. Rank(i) \in Nat /\ Rank(i) # 0
        BY <2>1, <2>2, FS_CardinalityType, FS_EmptySet, Zenon
    <2> HIDE DEF Rank, size
    <2> QED
        BY <1>3, <2>2, <2>3
<1>5. \A i, j \in others : Rank(i) = Rank(j) => i = j
    <2>0. \A i \in others : i \in Nat
        BY <1>2
    <2> HIDE DEF others
    <2>1. ASSUME NEW i \in others, NEW j \in others, i < j PROVE Rank(i) # Rank(j)
        <3>1. /\ below(i) \in SUBSET below(j) /\ j \in below(j) /\ j \notin below(i)
              /\ below(j) \in SUBSET others
            BY <2>0, <2>1
        <3> HIDE DEF below
        <3> QED
            BY <1>3, <3>1, FS_Subset, Zenon
    <2> HIDE DEF Rank
    <2> QED
        BY <2>0, <2>1
<1>6. \A r \in 1 .. size : At(r) \in others /\ Rank(At(r)) = r
    <2>1. IsFiniteSet(1 .. size) /\ Cardinality(1 .. size) = size
        BY <1>3, FS_Interval
    <2> HIDE DEF Rank, others, size
    <2>2. f \in Injection(others, 1 .. size)
        BY <1>4, <1>5, Zenon DEF Injection, IsInjective
    <2>3. f \in Surjection(others, 1 .. size)
        BY <1>3, <2>1, <2>2, FS_Injection, Zenon DEF size
    <2>4. \A r \in 1 .. size : \E i \in others : Rank(i) = r
        BY <2>3, Zenon DEF Surjection
    <2> QED
        BY <2>4, Zenon
<1>7. \A i \in others : At(Rank(i)) = i
    <2> HIDE DEF Rank, others, size, At
    <2> QED
        BY <1>4, <1>5, <1>6, Zenon
<1> HIDE DEF At, Rank, size
<1>8. Listed(w)
    <2>1. \A r \in 1 .. size : d[At(r)] \in S
        BY <1>2, <1>6, Zenon
    <2>2. w \in Seq(S)
        BY <1>1, <1>3, <2>1
    <2> QED
        BY <2>2, ListOf, Zenon
<1>9. \A r \in DOMAIN w : \E i \in DOMAIN d : w[r] = d[i] /\ d[i].node # n
    BY <1>1, <1>6, Zenon
<1>10. \A i \in DOMAIN d : d[i].node # n => \E r \in DOMAIN w : w[r] = d[i]
    BY <1>1, <1>4, <1>7, Zenon
<1> QED
    BY <1>8, <1>9, <1>10, Zenon DEF w, Without
\* What a restart would load holds everything callers were told of and no record that
\* was reported invalid, for every set of devices and key sets and every number of
\* saves, failures, crashes and restarts, if a store is reopened only when no detached
\* save of the old actor is left (SaveJob::run, persist_best_effort).
THEOREM ToldIsStored ==
    ASSUME Drained
    PROVE  Spec => []AcknowledgedSurvives
<1>1. Init => SInv
    BY InitTruthful, Zenon
<1>2. SInv /\ [Next]_vars => SInv'
    BY RetainFacts, StepTruthful, Zenon
<1>3. SInv => AcknowledgedSurvives
    <2> SUFFICES ASSUME SInv PROVE AcknowledgedSurvives
        BY Zenon
    <2>1. Faithful(disk, told, tasks) /\ IsState(disk) /\ IsTold(told, tasks)
        BY Zenon DEF SInv, Truthful, StatesFaithful
    <2>2. \A k \in KeySets : disk.keys[k] >= told.keys[k]
        BY <2>1, Zenon DEF Faithful, IsState, IsTold
    <2> QED
        BY <2>1, <2>2, Zenon DEF Faithful, AcknowledgedSurvives
<1> QED
    BY <1>1, <1>2, <1>3, PTL DEF Spec

\* A device that was reported forgotten is never listed again, under the same
\* condition, whatever connect to it completes late and whatever restarts
\* (ForgetNode, upsert_device).
THEOREM ForgottenStaysForgotten ==
    ASSUME Drained
    PROVE  Spec => []ForgottenNeverReturns
<1>1. Init => SInv
    BY InitTruthful, Zenon
<1>2. SInv /\ [Next]_vars => SInv'
    BY RetainFacts, StepTruthful, Zenon
<1>3. SInv => ForgottenNeverReturns
    BY Zenon DEF SInv, Truthful, StatesFaithful, Faithful, ForgottenNeverReturns
<1> QED
    BY <1>1, <1>2, <1>3, PTL DEF Spec
=============================================================================
