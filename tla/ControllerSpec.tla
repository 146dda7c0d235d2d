--------------------------- MODULE ControllerSpec ---------------------------
(***************************************************************************)
(* The controller actor at work: callers ask, cancel and forget; connect   *)
(* tasks end; the network delivers, loses and delays; devices answer,      *)
(* stay silent, lose sessions, close them and report; deadlines pass.      *)
(*                                                                         *)
(* run serves overdue timers before it looks at any channel, so every      *)
(* command, completion and packet is handled in a state where nothing is   *)
(* due.  Time is only the order in which deadlines pass (Timers).          *)
(*                                                                         *)
(* A message of c.net has not been handled by its device.  A message that  *)
(* MRP still retransmits (c.mrp) and that the device has handled may be    *)
(* acknowledged; one that was not may be given up.                         *)
(***************************************************************************)
EXTENDS Controller

CONSTANTS Envs,            \* the environments e a step may meet
          WireIds,         \* subscription ids devices hand out
          MaxTasks,        \* connects after which discovery finds nobody
          MaxLegs,         \* messages of ours on one exchange
          MaxEvents,       \* events a device records
          Connected,       \* TRUE: a node has a session from the start
          MaxAtOnce,       \* deadlines that pass within one turn of the loop, 1 or 2
          MaxCallers,      \* how many of the requests and subscriptions are asked for
          After,           \* [Ops -> SUBSET Ops]: those answered before it is asked for
          MaxFaults        \* lost sessions, dropped handles and forgotten nodes of a behaviour

VARIABLES c,               \* the actor
          dev,             \* the devices and what they sent
          asked            \* the requests and subscriptions asked for

vars == <<c, dev, asked>>

NewDevices ==
    [sess |-> {}, subs |-> {}, closing |-> {}, replies |-> {}, faults |-> 0,
     ev |-> [n \in Nodes |-> 0], exec |-> [o \in Requests |-> 0],
     wrote |-> [o \in Requests |-> <<>>], gaveUp |-> {}]

\* The actor starts with no session, or after a first connect to one of its nodes.
Init ==
    /\ asked = {}
    /\ \/ /\ ~Connected /\ c = NewController /\ dev = NewDevices
       \/ /\ Connected
          /\ \E n \in Nodes :
               /\ c = [NewController EXCEPT
                         !.table = InsertSession(AllocateId(@), 1, n, {}),
                         !.cache[n] = 1, !.records = {n}]
               /\ dev = [NewDevices EXCEPT !.sess = {[sid |-> 1, node |-> n]}]

\* What can no longer change anything is dropped: messages to a session the device
\* lost, answers on a session the controller removed, and answers, acknowledgements
\* and polls of an exchange nobody waits for.  Requests that act on the device stay.
Settled(a, d) ==
    LET awaited(m) == \E p \in a.pending : p.sid = m.sid /\ p.exch = m.exch
        acts(m) == m.what \in {"invoke", "write", "subscribe"}
    IN  <<[a EXCEPT !.net = {m \in @ : /\ \E s \in d.sess : s.sid = m.sid
                                      /\ (awaited(m) \/ acts(m))},
                    !.mrp = {m \in @ : awaited(m)}],
          [d EXCEPT !.replies = {r \in @ : r.sid \in Ids(a.table) /\ awaited(r)},
                    !.closing = @ \cap Ids(a.table)]>>

Settle(a, d) == \E s \in {Settled(a, d)} : c' = s[1] /\ dev' = s[2]

\* The environments that differ for this state: after MaxTasks connects nobody is
\* found, adverts matter to subscriptions only, and the cooldown to stamped ones.
Env ==
    LET watching == c.subs # {} \/ EpisodeEntries(c) # {}
        found(S) == IF c.table.nextId > MaxTasks THEN {} ELSE S
        adverts(S) == IF watching THEN S ELSE {}
    IN  {[e EXCEPT !.found = found(@), !.adverts = adverts(@), !.cooling = @ /\ c.pulled # {}]
            : e \in Envs}

NothingDue ==
    /\ \A p \in c.pending \cup c.queue : ~p.due
    /\ \A x \in c.subs : ~x.due

-----------------------------------------------------------------------------
(******************************** Commands *********************************)

\* (A bound: a device records events while one subscription is asked for, so that
\* no report of one reaches another under a wire id that the device gave twice.)
Ask(o) ==
    /\ NothingDue /\ o \notin asked /\ (\A a \in After[o] : c.answers[a] # <<>>) /\ Cardinality(asked) < MaxCallers
    /\ asked # {} => \A n \in Nodes : dev.ev[n] = 0
    /\ asked' = asked \cup {o}
    /\ \E e \in Env : Settle(Dispatch(c, o, e), dev)

Forget(n) ==
    /\ NothingDue /\ n \in c.devices /\ dev.faults < MaxFaults
    /\ Settle(ForgetNode(c, n), [dev EXCEPT !.faults = @ + 1])
    /\ UNCHANGED asked

\* The consumer drops its handle (both receivers close); the CancelSubscription
\* that Drop sends is a try_send and may never come.
DropHandle(s) ==
    /\ c.answers[s] = <<"ok">> /\ s \notin c.gone /\ dev.faults < MaxFaults
    /\ Settle([c EXCEPT !.gone = @ \cup {s}], [dev EXCEPT !.faults = @ + 1])
    /\ UNCHANGED asked

Cancel(s) ==
    /\ NothingDue /\ s \in c.gone
    /\ Settle(CancelSubscription(c, s), dev)
    /\ UNCHANGED asked

ResubscribeNow(n) ==
    /\ NothingDue /\ EpisodeEntries(c) # {}
    /\ Settle(TriggerResubscribe(c, n, {}), dev)
    /\ UNCHANGED asked

-----------------------------------------------------------------------------
(******************************** Connects *********************************)

\* run_connect_task ends.  A Sigma2_Resume that fails its MIC needs a resumption.
TaskFinishes(t, result) ==
    /\ t \in c.tasks /\ (result = "mac" => t.resume)
    /\ Settle([c EXCEPT !.tasks = @ \ {t},
                        !.done = Append(@, [node |-> t.node, sid |-> t.sid, result |-> result])],
              IF result = "ok"
              THEN [dev EXCEPT !.sess = @ \cup {[sid |-> t.sid, node |-> t.node]}] ELSE dev)
    /\ UNCHANGED asked

ConnectDone ==
    /\ NothingDue /\ c.done # <<>>
    /\ \E e \in Env : Settle(HandleConnectDone(c, Head(c.done), e), dev)
    /\ UNCHANGED asked

-----------------------------------------------------------------------------
(********************************* Devices *********************************)

Reply(m, what) ==
    [sid |-> m.sid, exch |-> m.exch, leg |-> m.leg, op |-> m.op, what |-> what,
     wire |-> 0, lo |-> 1, hi |-> 0]

\* The answers to m, with what the device's state becomes: it does what m asks or
\* rejects it.  A lost message is one never handled, a lost answer one never received.
\* Wire ids are handed out from the least free one; with none free, that of a
\* subscription the device has ended.
Outcomes(m) ==
    LET n == Target[m.op]
        answer(d, r) == [d EXCEPT !.replies = @ \cup {r}]
        kept == IF m.keep THEN dev.subs ELSE {x \in dev.subs : x.node # n}
        free == {w \in WireIds : \A x \in kept : x.node # n \/ x.wire # w}
        given == IF free # {} THEN {Min(free)} ELSE WireIds
        attempt(w) == [dev EXCEPT !.subs = {x \in kept : x.node # n \/ x.wire # w} \cup
                         {[node |-> n, wire |-> w, op |-> m.op, sid |-> m.sid, exch |-> m.exch,
                           next |-> dev.ev[n] + 1, active |-> FALSE]}]
        primed == {x \in dev.subs : x.sid = m.sid /\ x.exch = m.exch}
        ran == [dev EXCEPT !.exec[m.op] = @ + 1]
        wrote == [dev EXCEPT !.wrote[m.op] = Append(@, m.leg)]
    IN  CASE m.what = "read" \/ (m.what = "status" /\ m.op \in Requests) ->
               {answer(dev, Reply(m, a)) :
                  a \in {"last", "reject"} \cup (IF m.leg < MaxLegs THEN {"more"} ELSE {})}
          [] m.what = "invoke" ->
               {answer(ran, Reply(m, "done"))}
                 \cup (IF m.leg = 1 THEN {answer(dev, Reply(m, "needsTimed"))} ELSE {})
          [] m.what = "timed" -> {answer(dev, Reply(m, a)) : a \in {"success", "reject"}}
          [] m.what = "write" ->
               {answer(wrote, Reply(m, "done")), answer(dev, Reply(m, "reject"))}
          [] m.what = "subscribe" ->
               {answer(dev, Reply(m, "reject"))} \cup
               {answer(attempt(w), [Reply(m, "more") EXCEPT !.lo = Max({1, m.min}), !.hi = dev.ev[n]]) :
                  w \in given}
          [] m.what = "status" /\ m.op \in Subs ->
               {answer([dev EXCEPT !.subs = (@ \ {x}) \cup {[x EXCEPT !.active = TRUE]}],
                       [Reply(m, "subscribed") EXCEPT !.wire = x.wire]) : x \in primed}
               \cup {answer([dev EXCEPT !.subs = @ \ {x}], Reply(m, "reject")) : x \in primed}

\* The device handles a message once (its replay window drops the retransmissions).
DeviceHandles(m) ==
    /\ m \in c.net
    /\ \E d \in Outcomes(m) : Settle([c EXCEPT !.net = @ \ {m}], d)
    /\ UNCHANGED asked

AckArrives(m) ==
    /\ NothingDue /\ m \in c.mrp \ c.net /\ \E s \in dev.sess : s.sid = m.sid
    /\ Settle([c EXCEPT !.mrp = @ \ {m}], dev)
    /\ UNCHANGED asked

Receive(r) ==
    /\ NothingDue /\ r \in dev.replies
    /\ \E e \in Env : Settle(HandleAnswer(c, r, e), [dev EXCEPT !.replies = @ \ {r}])
    /\ UNCHANGED asked

\* A device restarts: its sessions and subscriptions are gone and nobody is told.
DeviceRestarts(n) ==
    /\ dev.faults < MaxFaults /\ \E s \in dev.sess : s.node = n
    /\ Settle(c, [dev EXCEPT !.sess = {s \in @ : s.node # n}, !.subs = {x \in @ : x.node # n},
                             !.faults = @ + 1])
    /\ UNCHANGED asked

\* A device gives one session up and says so (CloseSession).
DeviceCloses(s) ==
    /\ dev.faults < MaxFaults /\ s \in dev.sess
    /\ Settle(c, [dev EXCEPT !.sess = @ \ {s}, !.closing = @ \cup {s.sid}, !.faults = @ + 1])
    /\ UNCHANGED asked

CloseArrives(sid) ==
    /\ NothingDue /\ sid \in dev.closing
    /\ \E e \in Env : Settle(OnPeerCloseSession(c, sid, e), [dev EXCEPT !.closing = @ \ {sid}])
    /\ UNCHANGED asked

DeviceRecords(n) ==
    /\ dev.ev[n] < MaxEvents /\ Cardinality(asked) <= 1
    /\ dev' = [dev EXCEPT !.ev[n] = @ + 1]
    /\ UNCHANGED <<c, asked>>

\* The device reports what is new, or only that it is alive, on any session it has
\* with the controller and on an exchange number of its own choosing.  A report
\* that finds no consumer is answered InvalidSubscription, and the device drops the
\* subscription (one that overtakes its SubscribeResponse is such a report).
ReportArrives(x, s, exch) ==
    LET r == [sid |-> s.sid, exch |-> exch, op |-> x.op, wire |-> x.wire,
              lo |-> x.next, hi |-> dev.ev[x.node]]
    IN  /\ NothingDue /\ x \in dev.subs /\ x.active /\ s \in dev.sess /\ s.node = x.node
        /\ s.sid \in Ids(c.table)
        /\ Settle(DeliverReport(c, r),
                  [dev EXCEPT !.subs = (@ \ {x}) \cup
                     (IF FindReportSubscription(c, r.sid, r.wire) \subseteq c.gone THEN {}
                      ELSE {[x EXCEPT !.next = dev.ev[x.node] + 1]})])
        /\ UNCHANGED asked

-----------------------------------------------------------------------------
(********************************** Time ***********************************)

Overdue(p) == [p EXCEPT !.due = TRUE, !.ran = TRUE]

Due(S, D) == {IF p \in D THEN [p EXCEPT !.due = TRUE] ELSE p : p \in S}

\* The deadline of a request passes while it waits for a connect to be re-sent.
ParkedDeadline(n, i) ==
    /\ i \in DOMAIN c.waiters[n]
    /\ c.waiters[n][i].tag = "ResendPending" /\ ~c.waiters[n][i].work.due
    /\ c' = [c EXCEPT !.waiters[n][i].work = Overdue(@)]
    /\ UNCHANGED <<dev, asked>>

\* The deadlines of the requests P, attempts Q, subscriptions S and lookups L pass,
\* MRP has tried the messages X often enough, and the timer arm runs.
AfterTimers(X, P, Q, S, L, e) ==
    LET now == [c EXCEPT !.pending = {IF p \in P THEN Overdue(p) ELSE p : p \in @},
                         !.queue = Due(@, Q), !.subs = Due(@, S), !.late = L]
    IN  Settled([TimerArm(now, X, e) EXCEPT !.late = {}],
                [dev EXCEPT !.gaveUp = @ \cup ({m.op : m \in X} \cap Requests)])

Timers(X, P, Q, S, L, e) ==
    /\ ~NothingDue \/ X \cup P \cup Q \cup S # {} \/ c.resolves # {}
    /\ \E s \in {AfterTimers(X, P, Q, S, L, e)} : c' = s[1] /\ dev' = s[2]
    /\ UNCHANGED asked

\* The sets of deadlines of D that may pass within one turn.
AtOnce(D) ==
    {{}} \cup {{x} : x \in D} \cup (IF MaxAtOnce > 1 THEN {{x, y} : x \in D, y \in D} ELSE {})

Next ==
    \/ \E o \in Ops : Ask(o)
    \/ \E n \in Nodes : Forget(n) \/ ResubscribeNow(n) \/ DeviceRestarts(n) \/ DeviceRecords(n)
    \/ \E s \in Subs : DropHandle(s) \/ Cancel(s)
    \/ \E t \in c.tasks, result \in {"ok", "err", "mac"} : TaskFinishes(t, result)
    \/ ConnectDone
    \/ \E m \in c.net : DeviceHandles(m)
    \/ \E m \in c.mrp : AckArrives(m)
    \/ \E r \in dev.replies : Receive(r)
    \/ \E s \in dev.sess : DeviceCloses(s)
    \/ \E sid \in dev.closing : CloseArrives(sid)
    \/ \E x \in dev.subs, s \in dev.sess :
         \E exch \in {0} \cup {p.exch : p \in {q \in c.pending : q.sid = s.sid}} :
            ReportArrives(x, s, exch)
    \/ \E n \in Nodes : \E i \in DOMAIN c.waiters[n] : ParkedDeadline(n, i)
    \/ \E D \in AtOnce(c.mrp \cup c.pending \cup c.queue \cup c.subs \cup c.resolves), e \in Env :
         Timers(D \cap c.mrp, D \cap c.pending, D \cap c.queue, D \cap c.subs,
                D \cap c.resolves, e)

Spec == Init /\ [][Next]_vars

\* The deadline of o's request, and that of the parked lookups, passes and is served:
\* the request leaves its exchange, a lookup ends.
RequestTimesOut(o) ==
    \E p \in c.pending : p.op = o /\ p \notin c'.pending
                        /\ \E e \in Env : Timers({}, {p}, {}, {}, {}, e)

LookupsTimeOut == c.resolves # {} /\ c'.resolves # c.resolves /\ \E e \in Env : Timers({}, {}, {}, {}, c.resolves, e)

TaskEnds == \E t \in c.tasks, result \in {"ok", "err", "mac"} : TaskFinishes(t, result)

LookupsCanTimeOut ==
    c.resolves # {} /\ \E e \in Env : AfterTimers({}, {}, {}, {}, c.resolves, e) # <<c, dev>>

\* Deadlines pass and the loop serves them, every handshake ends (its driver retries
\* a bounded number of times), and the loop takes completions from their channel.
\* Nothing is assumed of devices, of the network or of callers.  Each conjunct is weak
\* fairness of one action, with what enables a step of it that changes the state
\* written out: TLC evaluates this much faster than ENABLED.
FairSpec ==
    /\ Spec
    /\ \A o \in Ops : []<>(\A p \in c.pending : p.op # o) \/ []<><<RequestTimesOut(o)>>_vars
    /\ []<>~LookupsCanTimeOut \/ []<><<LookupsTimeOut>>_vars
    /\ []<>(c.tasks = {}) \/ []<><<TaskEnds>>_vars
    /\ []<>(c.done = <<>> \/ ~NothingDue) \/ []<><<ConnectDone>>_vars

-----------------------------------------------------------------------------
(******************************* Properties ********************************)

WaitingFor(o) ==
    {p \in c.pending : p.op = o /\ p.kind # "Resubscribe"}

ParkedFor(o) ==
    {i \in DOMAIN c.waiters[Target[o]] :
        c.waiters[Target[o]][i].work.op = o /\ c.waiters[Target[o]][i].tag # "Resubscribe"}

\* Every caller is waited for in exactly one place, a pending exchange or a connect's
\* queue of waiters, until it has its one answer: no path of dispatch, connect
\* completion, timeout, CloseSession or ForgetNode loses or answers it twice.
EveryCallerIsTracked ==
    \A o \in Ops :
        Cardinality(WaitingFor(o)) + Cardinality(ParkedFor(o)) + Len(c.answers[o])
            = IF o \in asked THEN 1 ELSE 0

\* A device acts twice on a request only if MRP gave a message of it up: a response
\* deadline, a CloseSession or a lost answer alone never repeats an action, and the
\* chunks of a chunked write take effect in order and each at most once.
RepeatsOnlyIfGivenUp ==
    \A o \in Requests :
        /\ dev.exec[o] > 1 => o \in dev.gaveUp
        /\ \A i \in DOMAIN dev.wrote[o] : dev.wrote[o][i] = i

Lookups(n) == c.resolves \cap {n}
Handshakes(n) == {t \in c.tasks : t.node = n}
Completions(n) == {i \in DOMAIN c.done : c.done[i].node = n}

\* Connects coalesce and never get lost: a node with waiters has a lookup, a handshake
\* task or an unhandled completion that will end the wait (pending_connects' "a connect
\* to that node is running"), and a node that was never forgotten has at most one of
\* them at a time (enqueue_connect_waiter).
OneConnectPerNode ==
    /\ \A n \in c.connecting :
         Lookups(n) # {} \/ Handshakes(n) # {} \/ Completions(n) # {}
    /\ \A n \in c.devices :
         Cardinality(Lookups(n)) + Cardinality(Handshakes(n)) + Cardinality(Completions(n)) <= 1

EstablishedAs(s) == {x \in c.subs : x.op = s}

Episodes(s) ==
    {q \in c.queue : q.op = s}
      \cup {p \in c.pending : p.op = s /\ p.kind = "Resubscribe"}

Reconnecting(s) ==
    {i \in DOMAIN c.waiters[Target[s]] :
        c.waiters[Target[s]][i].work.op = s /\ c.waiters[Target[s]][i].tag = "Resubscribe"}

\* A subscription whose consumer still listens, on a node that is not forgotten, is
\* in exactly one place: established, or in one resubscribe attempt (queued, on the
\* wire, waiting for a connect).  No failure of an attempt drops or doubles it.
SubscriptionIsSomewhere ==
    \A s \in Subs :
        c.answers[s] = <<"ok">> /\ s \notin c.gone /\ Target[s] \in c.devices =>
            Cardinality(EstablishedAs(s)) + Cardinality(Episodes(s))
                + Cardinality(Reconnecting(s)) = 1

\* A consumer gets the events of its node in order, none twice and none skipped,
\* across restarts of the device, failed attempts, attempts that broke off after
\* priming and reports that overtook the SubscribeResponse: the event filters of
\* begin_resubscribe, fail_subscribe_attempt and resume_resend_pending ask for
\* exactly what comes after the watermark.
EventsOnceAndInOrder ==
    \A s \in Subs : \A i \in DOMAIN c.got[s] : c.got[s][i] = i

\* A report on any registered session of the node finds the subscription whose wire id
\* it carries, as long as no other subscription of the node has that id: sub_index
\* never leads to a subscription that was removed or re-made since.
ReportsFindTheirSubscription ==
    \A x \in c.subs, s \in Range(c.table.order) :
        /\ s.node = Target[x.op]
        /\ \A y \in c.subs : y # x => y.wire # x.wire \/ Target[y.op] # Target[x.op]
        => FindReportSubscription(c, s.id, x.wire) = {x.op}

\* A request without KeepSubscriptions ends a subscription this controller relies on
\* only in the documented case: it was sent before that one's own request, and
\* arrives late.
OnlyOvertakenEndsSiblings ==
    \A m \in c.net : m.what = "subscribe" /\ ~m.keep =>
        \A x \in dev.subs :
            /\ x.active /\ x.op # m.op /\ x.node = Target[m.op] /\ x.op \notin c.gone
            /\ \E y \in c.subs : y.op = x.op /\ y.wire = x.wire
            => x.exch > m.exch

\* Every session in use is registered: the cached routes', the subscriptions' and, on
\* nodes that are not forgotten, the pending requests' (remove_session_if_orphaned,
\* release_session).  Work on a removed session could only wait for its deadline.
SessionsInUseAreRegistered ==
    /\ \A n \in Nodes : c.cache[n] \in {NoSession} \cup Ids(c.table)
    /\ \A x \in c.subs : x.sid \in Ids(c.table)
    /\ \A p \in c.pending : NodeFor(p) \in c.devices => p.sid \in Ids(c.table)

\* What drive_response_deadlines and the test
\* response_deadline_retries_a_read_because_reads_are_idempotent promise: a request
\* that is sent again has time to be answered, so its deadline is never over
\* without having run since the request went out.
RetryHasItsTime == \A p \in c.pending : p.due => p.ran

\* Every caller is answered in the end, with a result or an error, however devices
\* and the network behave: every wait of the actor ends in a deadline.
EveryCallerIsAnswered == \A o \in Ops : o \in asked ~> c.answers[o] # <<>>
=============================================================================
