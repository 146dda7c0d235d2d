----------------------------- MODULE Controller -----------------------------
(***************************************************************************)
(* The controller actor of matter-controller (actor.rs): the requests      *)
(* callers wait on, the connects they wait behind, the routing cache, the  *)
(* session table, and the subscriptions with their resubscribe engine.     *)
(* One task owns all of it, so each handler is an operator from the        *)
(* actor's state c to its next state; ControllerSpec makes them actions.   *)
(*                                                                         *)
(* A piece of work is ONE record wherever the code keeps it (a Pending, a  *)
(* ConnectWaiter, a PendingResubscribe), so that "where is it" is a        *)
(* question about sets:                                                    *)
(*   op       the caller's request, or the subscription (SubId)            *)
(*   kind     PendingReply: Read, Action, Timed, RoundTrip, Write,         *)
(*            Subscribe (the caller still waits) or Resubscribe            *)
(*   sid,exch the key in `pending`                                         *)
(*   leg      last_reliable_send: which message of the exchange it was     *)
(*   retried  the reconnect-once has been used                             *)
(*   due      its deadline (response_deadline, attempt_at) has passed      *)
(*   ran      ghost: the deadline has run since the last request was sent  *)
(*   acc      Read: the exchange each report chunk collected so far is of  *)
(*   left     Write: the chunks still to send                              *)
(*   min      event filter: the least event number asked for               *)
(*                                                                         *)
(* The environment of a step is e: which nodes discovery has a record of   *)
(* (found), which nodes advertise (adverts), to which send_to works (up),  *)
(* whether a browse or the credentials are refused (refused), and whether  *)
(* advert stamps are still within the cooldown (cooling).                  *)
(***************************************************************************)
EXTENDS SessionTable, FiniteSetsExt

CONSTANTS Nodes, Requests, Subs,
          KindOf,          \* [Requests -> {"Read", "Action", "Write"}]
          Target,          \* [Requests \cup Subs -> Nodes]
          WriteChunks,     \* chunks of a chunked write
          MaxReadChunks,   \* MAX_READ_CHUNKS
          MaxSends         \* after this many requests the message counters are exhausted

Ops == Requests \cup Subs

NewPending(o) ==
    [op |-> o, kind |-> IF o \in Subs THEN "Subscribe" ELSE KindOf[o],
     sid |-> NoSession, exch |-> 0, leg |-> 0, retried |-> FALSE,
     due |-> FALSE, ran |-> FALSE, acc |-> <<>>,
     left |-> IF o \in Requests /\ KindOf[o] = "Write" THEN WriteChunks - 1 ELSE 0,
     min |-> 0]

NewController ==
    [cache |-> [n \in Nodes |-> NoSession], table |-> NewTable,
     mrp |-> {}, net |-> {}, nextExch |-> 1, pending |-> {},
     connecting |-> {}, waiters |-> [n \in Nodes |-> <<>>],
     resolves |-> {}, late |-> {}, tasks |-> {}, done |-> <<>>,
     subs |-> {}, index |-> {}, queue |-> {}, pulled |-> {}, gone |-> {},
     timed |-> FALSE, devices |-> Nodes, records |-> {},
     answers |-> [o \in Ops |-> <<>>], got |-> [s \in Subs |-> <<>>]]

NodeFor(p) == Target[p.op]

Answer(c, o, r) == [c EXCEPT !.answers[o] = Append(@, r)]

-----------------------------------------------------------------------------
(***************************** Event filters *******************************)

Watermark(c, s) == Max({0} \cup Range(c.got[s]))

\* Mutant: the event after the watermark is not asked for.
BumpEventFiltersPast(c, p) ==
    LET w == Watermark(c, p.op)
    IN  IF w = 0 THEN p ELSE [p EXCEPT !.min = Max({@, w + 2})]

\* bump_event_filters: nothing at or below the watermark is asked for again.
BumpEventFilters(c, p) ==
    LET w == Watermark(c, p.op)
    IN  IF w = 0 THEN p ELSE [p EXCEPT !.min = Max({@, w + 1})]

-----------------------------------------------------------------------------
(******************************** Sessions *********************************)

\* release_session: the table entry goes and with it its retransmissions.  What
\* is on the network stays there.
ReleaseSession(c, sid) ==
    [c EXCEPT !.table = Without(@, sid), !.mrp = {m \in @ : m.sid # sid}]

Referenced(c, sid) ==
    \/ \E n \in Nodes : c.cache[n] = sid
    \/ \E s \in c.subs : s.sid = sid
    \/ \E p \in c.pending : p.sid = sid

\* Mutant: only the routing cache is asked.
RemoveSessionIfUnrouted(c, sid) ==
    IF \E n \in Nodes : c.cache[n] = sid THEN c ELSE ReleaseSession(c, sid)

\* remove_session_if_orphaned.
RemoveSessionIfOrphaned(c, sid) ==
    IF Referenced(c, sid) THEN c ELSE ReleaseSession(c, sid)

\* evict_cached_route_if: only the route that still leads to sid.
EvictCachedRouteIf(c, n, sid) ==
    IF c.cache[n] = sid THEN [c EXCEPT !.cache[n] = NoSession] ELSE c

-----------------------------------------------------------------------------
(**************************** Subscription table ***************************)

EntryOf(c, s) == CHOOSE x \in c.subs : x.op = s

\* Mutant: the index entry stays.
RemoveSubscriptionOnly(c, s) ==
    [c EXCEPT !.subs = {x \in @ : x.op # s}]

\* remove_subscription: the index entry goes only if it is this subscription's.
RemoveSubscription(c, s) ==
    [c EXCEPT !.subs = {x \in @ : x.op # s}, !.index = {i \in @ : i.op # s}]

\* insert_subscription: a key another subscription already owns keeps its owner.
InsertSubscription(c, x) ==
    LET base == RemoveSubscription(c, x.op)
        owned == \E i \in base.index : i.sid = x.sid /\ i.wire = x.wire
    IN  [base EXCEPT !.subs = @ \cup {x},
                     !.index = IF owned THEN @
                               ELSE @ \cup {[sid |-> x.sid, wire |-> x.wire, op |-> x.op]}]

\* resubscribe_episode_entries: queued, on the wire, or waiting for a connect.
EpisodeEntries(c) ==
    c.queue
      \cup {p \in c.pending : p.kind = "Resubscribe"}
      \cup UNION {{w.work : w \in {v \in Range(c.waiters[n]) : v.tag = "Resubscribe"}}
                    : n \in Nodes}

EpisodeSubs(c) == {p.op : p \in EpisodeEntries(c)}

\* The established ones (on its own, a mutant of KeepSubscriptionsFor).
KeepEstablishedOnly(c, n, s) ==
    \E x \in c.subs : Target[x.op] = n /\ x.op # s /\ x.op \notin c.gone

\* keep_subscriptions_for: is there another subscription of the node that the
\* request must not terminate?  One that waits behind a connect as a Command has
\* not been sent and is not counted.
KeepSubscriptionsFor(c, n, s) ==
    \/ KeepEstablishedOnly(c, n, s)
    \/ \E p \in EpisodeEntries(c) : NodeFor(p) = n /\ p.op # s /\ p.op \notin c.gone
    \/ \E p \in c.pending : p.kind = "Subscribe" /\ NodeFor(p) = n /\ p.op # s
    \/ \E w \in Range(c.waiters[n]) :
          w.tag = "ResendPending" /\ w.work.kind = "Subscribe" /\ w.work.op # s

-----------------------------------------------------------------------------
(***************************** Resubscribe engine **************************)

\* The episode of s is over (pulled_at.remove).
Unstamp(c, s) == [c EXCEPT !.pulled = @ \ {s}]

\* reschedule_resubscribe: the retry count is now at least 1, so the attempt is
\* in the future.
RescheduleResubscribe(c, p) ==
    IF p.op \in c.gone THEN Unstamp(c, p.op)
    ELSE [c EXCEPT !.queue = @ \cup
            {[p EXCEPT !.kind = "Resubscribe", !.sid = NoSession, !.exch = 0, !.leg = 0,
                       !.retried = TRUE, !.due = FALSE, !.ran = FALSE]}]

\* begin_resubscribe: the first attempt is due at once.
BeginResubscribe(c, s) ==
    LET base == RemoveSubscription(c, s)
        p == [NewPending(s) EXCEPT !.kind = "Resubscribe", !.retried = TRUE, !.due = TRUE,
                                   !.min = EntryOf(c, s).min]
    IN  IF s \in c.gone THEN Unstamp(base, s)
        ELSE [base EXCEPT !.queue = @ \cup {BumpEventFilters(c, p)}]

\* resubscribe_stranded: the subscriptions of a replaced session.
ResubscribeOn(c, sid) ==
    FoldSet(LAMBDA x, d : BeginResubscribe(d, x.op), c, {x \in c.subs : x.sid = sid})

\* fail_subscribe_attempt.  A failure that arrived on the wire is answered
\* StatusResponse(InvalidAction): a reliable message of its own on the exchange.
FailSubscribeAttempt(c, p, onWire) ==
    LET status == [sid |-> p.sid, exch |-> p.exch, leg |-> p.leg + 1, op |-> p.op,
                   what |-> "status", keep |-> FALSE, min |-> 0]
        told == IF onWire /\ p.sid \in Ids(c.table)
                THEN [c EXCEPT !.mrp = @ \cup {status}] ELSE c
    IN  IF p.kind = "Subscribe" THEN Answer(told, p.op, "err")
        ELSE RescheduleResubscribe(told, BumpEventFilters(c, p))

\* fail_pending; the caller of a resubscribe has long had its answer.
FailPending(c, p) == IF p.kind = "Resubscribe" THEN c ELSE Answer(c, p.op, "err")

-----------------------------------------------------------------------------
(******************************** Sending **********************************)

Opening(kind) ==
    CASE kind = "Read" -> "read" [] kind = "Action" -> "invoke" [] kind = "Timed" -> "timed"
      [] kind = "Write" -> "write" [] kind \in {"Subscribe", "Resubscribe"} -> "subscribe"

\* What the handlers do when their send_request returns an error.
SendFailed(c, p) ==
    IF p.kind = "Resubscribe" THEN RescheduleResubscribe(c, p) ELSE Answer(c, p.op, "err")

\* send_request and the insertion into `pending` that follows it.  A session that
\* is no longer registered, or has no counter left, fails before anything is
\* sent.  A send_to that fails comes after MRP has taken the message over: the
\* caller is told the request failed, the retransmissions go on.
SendRequest(c, p, sid, e) ==
    LET m == [sid |-> sid, exch |-> c.nextExch, leg |-> 1, op |-> p.op,
              what |-> Opening(p.kind),
              keep |-> p.op \in Subs /\ KeepSubscriptionsFor(c, NodeFor(p), p.op),
              min |-> p.min]
        sent == [c EXCEPT !.mrp = @ \cup {m}, !.net = @ \cup {m}, !.nextExch = @ + 1]
    IN  IF sid \notin Ids(c.table) \/ c.nextExch > MaxSends THEN SendFailed(c, p)
        ELSE IF NodeFor(p) \notin e.up THEN SendFailed(sent, p)
        ELSE [sent EXCEPT !.pending = @ \cup
                {[p EXCEPT !.sid = sid, !.exch = c.nextExch, !.leg = 1, !.ran = FALSE]}]

\* send_on_exchange, send_chunk_ack, send_status_ack on the request's exchange:
\* the next message of it.
NextLeg(p, what) ==
    [sid |-> p.sid, exch |-> p.exch, leg |-> p.leg + 1, op |-> p.op,
     what |-> what, keep |-> FALSE, min |-> 0]

CanSend(c, p, e) == p.sid \in Ids(c.table) /\ NodeFor(p) \in e.up

SendOnExchange(c, p, what) ==
    IF p.sid \in Ids(c.table)
    THEN [c EXCEPT !.mrp = @ \cup {NextLeg(p, what)}, !.net = @ \cup {NextLeg(p, what)}]
    ELSE c

-----------------------------------------------------------------------------
(******************************** Connects *********************************)

\* Mutant: only the waiting commands are told.
FailWaitingCommands(c, n) ==
    LET base == [c EXCEPT !.resolves = @ \ {n}, !.late = @ \ {n},
                          !.connecting = @ \ {n}, !.waiters[n] = <<>>]
        fail(d, w) == IF w.tag = "Command" THEN Answer(d, w.work.op, "err") ELSE d
    IN  FoldLeft(fail, base, c.waiters[n])

\* fail_connect_waiters: the connect's bookkeeping goes, and each waiter fails
\* its own way.
FailConnectWaiters(c, n) ==
    LET base == [c EXCEPT !.resolves = @ \ {n}, !.late = @ \ {n},
                          !.connecting = @ \ {n}, !.waiters[n] = <<>>]
        fail(d, w) == IF w.tag = "Resubscribe" THEN RescheduleResubscribe(d, w.work)
                      ELSE Answer(d, w.work.op, "err")
    IN  FoldLeft(fail, base, c.waiters[n])

\* finish_spawn_connect: a task runs the handshake under the next session id.  Its
\* packets are routed to it by node (connect_inbound, connect_routes): losing that
\* route is one of the ways a task may fail.
FinishSpawnConnect(c, n, e) ==
    LET task == [node |-> n, sid |-> AllocatedId(c.table), resume |-> n \in c.records]
    IN  IF e.refused THEN FailConnectWaiters(c, n)
        ELSE [c EXCEPT !.table = AllocateId(@), !.tasks = @ \cup {task}]

\* evict_route_for_pull: not while a subscription rides the session.
EvictRouteForPull(c, n) ==
    IF \E x \in c.subs : x.sid = c.cache[n] THEN c ELSE [c EXCEPT !.cache[n] = NoSession]

\* trigger_resubscribe: every attempt of the node that is not cooling is pulled
\* forward and stamped.
TriggerResubscribe(c, n, cooling) ==
    LET wanted(p) == NodeFor(p) = n /\ p.op \notin c.gone \cup cooling
        moved == {q \in c.queue : wanted(q) /\ ~q.due}
        others == {p \in EpisodeEntries(c) \ c.queue : wanted(p)}
        base == [c EXCEPT !.queue = (@ \ moved) \cup {[q EXCEPT !.due = TRUE] : q \in moved},
                          !.pulled = @ \cup {p.op : p \in moved \cup others}]
    IN  IF moved # {} THEN EvictRouteForPull(base, n) ELSE base

\* Mutant: a lookup nobody answers stays parked.
LookupsNeverExpire(c, e) ==
    LET resolved == c.resolves \cap e.found
    IN  FoldSet(LAMBDA n, d : FinishSpawnConnect(d, n, e),
                [c EXCEPT !.resolves = @ \ resolved, !.late = @ \ resolved], resolved)

\* drive_pending_resolves: adverts first, then each parked lookup is resolved, has
\* expired, or stays.
DrivePendingResolves(c, e) ==
    LET cooling == IF e.cooling THEN c.pulled ELSE {}
        episodes == {NodeFor(p) : p \in {q \in EpisodeEntries(c) : q.op \notin c.gone}}
        seen == FoldSet(LAMBDA n, d : TriggerResubscribe(d, n, cooling), c,
                        e.adverts \cap episodes)
        resolved == c.resolves \cap e.found
        expired == (c.resolves \cap c.late) \ resolved
        base == [seen EXCEPT !.resolves = @ \ (resolved \cup expired), !.late = @ \ resolved]
    IN  FoldSet(LAMBDA n, d : FinishSpawnConnect(d, n, e),
                FoldSet(LAMBDA n, d : FailConnectWaiters(d, n), base, expired),
                resolved)

\* spawn_connect: park the lookup (with a fresh deadline) and settle what can be.
SpawnConnect(c, n, e) ==
    IF e.refused THEN FailConnectWaiters(c, n)
    ELSE DrivePendingResolves([c EXCEPT !.resolves = @ \cup {n}, !.late = @ \ {n}], e)

\* Mutant: every waiter starts a connect of its own.
ConnectForEachWaiter(c, n, w, e) ==
    SpawnConnect([c EXCEPT !.waiters[n] = Append(@, w), !.connecting = @ \cup {n}], n, e)

\* enqueue_connect_waiter: only the first waiter of a node starts a connect.
EnqueueConnectWaiter(c, n, w, e) ==
    LET base == [c EXCEPT !.waiters[n] = Append(@, w), !.connecting = @ \cup {n}]
    IN  IF n \in c.connecting THEN base ELSE SpawnConnect(base, n, e)

-----------------------------------------------------------------------------
(************************ Starting and resuming work ***********************)

\* begin_timed: a TimedRequest on a new exchange, the action to follow.
BeginTimed(c, p, sid, e) ==
    SendRequest(c, [p EXCEPT !.kind = "Timed", !.retried = FALSE, !.due = FALSE], sid, e)

\* dispatch_ready for the verbs that need a session (start_read, handle_action,
\* handle_chunked_write, start_subscribe); dispatch and the connect's completion
\* only come here with a cached route.
DispatchReady(c, o, e) ==
    LET sid == c.cache[Target[o]]
        p == NewPending(o)
    IN  CASE p.kind = "Action" /\ c.timed -> BeginTimed(c, p, sid, e)
          [] p.kind = "Write" -> SendRequest(c, [p EXCEPT !.retried = TRUE], sid, e)
          [] OTHER -> SendRequest(c, p, sid, e)

\* dispatch: without a cached route the command waits for a connect.
Dispatch(c, o, e) ==
    IF c.cache[Target[o]] # NoSession THEN DispatchReady(c, o, e)
    ELSE EnqueueConnectWaiter(c, Target[o], [tag |-> "Command", work |-> NewPending(o)], e)

\* resume_resend_pending: the request goes out again once, from the start.  The
\* response deadline stays what it was.
ResumeResendPending(c, p, sid, e) ==
    LET q == IF p.kind = "Subscribe" THEN BumpEventFilters(c, p) ELSE p
    IN  SendRequest(c, [q EXCEPT !.retried = TRUE, !.acc = <<>>], sid, e)

\* resume_resubscribe: a new attempt, with a response deadline of its own.
ResumeResubscribe(c, p, sid, e) ==
    IF p.op \in c.gone THEN Unstamp(c, p.op)
    ELSE SendRequest(c, [p EXCEPT !.due = FALSE], sid, e)

\* attempt_resubscribe.
AttemptResubscribe(c, p, e) ==
    LET base == [c EXCEPT !.queue = @ \ {p}]
        n == NodeFor(p)
    IN  CASE p.op \in c.gone -> Unstamp(base, p.op)
          [] p.op \notin c.gone /\ c.cache[n] # NoSession ->
                ResumeResubscribe(base, p, c.cache[n], e)
          [] OTHER -> EnqueueConnectWaiter(base, n, [tag |-> "Resubscribe", work |-> p], e)

-----------------------------------------------------------------------------
(*************************** A connect completes ***************************)

\* recover_from_unusable_resumption_record: once more, with a full handshake; the
\* waiters keep waiting.
RecoverFromUnusableRecord(c, n, e) == SpawnConnect([c EXCEPT !.records = @ \ {n}], n, e)

\* handle_connect_done for a completion d of the task that was started for d.node.
\* Nothing ties d to the connect that is running for the node now.
HandleConnectDone(c, d, e) ==
    LET n == d.node
        old == c.cache[n]
        popped == [c EXCEPT !.done = Tail(@)]
        released == IF old # NoSession THEN ReleaseSession(popped, old) ELSE popped
        busy == {m.sid : m \in released.mrp}
        table == InsertSession(released.table, d.sid, n, busy)
        routed == [released EXCEPT
                     !.table = table,
                     !.mrp = {m \in @ : m.sid \in Ids(table)},
                     !.records = IF n \in c.devices THEN @ \cup {n} ELSE @,
                     !.cache[n] = d.sid]
        moved == IF old # NoSession THEN ResubscribeOn(routed, old) ELSE routed
        taken == [moved EXCEPT !.connecting = @ \ {n}, !.waiters[n] = <<>>]
        serve(s, w) ==
            CASE w.tag = "Command" -> DispatchReady(s, w.work.op, e)
              [] w.tag = "ResendPending" -> ResumeResendPending(s, w.work, d.sid, e)
              [] w.tag = "Resubscribe" -> ResumeResubscribe(s, w.work, d.sid, e)
    IN  CASE d.result = "mac" -> RecoverFromUnusableRecord(popped, n, e)
          [] d.result = "err" -> FailConnectWaiters(popped, n)
          [] d.result = "ok"  -> FoldLeft(serve, taken, c.waiters[n])

-----------------------------------------------------------------------------
(******************************** Timeouts *********************************)

\* on_pending_timeout.  A resubscribe leaves the session for its next attempt; any
\* other work reconnects and is sent again once.
OnPendingTimeout(c, p, e) ==
    LET n == NodeFor(p)
        base == [c EXCEPT !.pending = @ \ {p}]
        evicted == EvictCachedRouteIf(base, n, p.sid)
        left == RemoveSessionIfOrphaned(evicted, p.sid)
    IN  CASE p.kind = "Resubscribe" ->
               RemoveSessionIfOrphaned(
                   FailSubscribeAttempt(IF p.op \in c.gone THEN base ELSE evicted, p, FALSE),
                   p.sid)
          [] p.kind # "Resubscribe" /\ ~p.retried ->
               IF left.cache[n] # NoSession
               THEN ResumeResendPending(left, p, left.cache[n], e)
               ELSE EnqueueConnectWaiter(left, n, [tag |-> "ResendPending", work |-> p], e)
          [] OTHER -> FailPending(base, p)

\* MRP gave up on m.  It is the end of a request only if m is the last message
\* that request sent; the counter tells.
Expired(c, m, e) ==
    LET own == {p \in c.pending : p.sid = m.sid /\ p.exch = m.exch /\ p.leg = m.leg}
    IN  FoldSet(LAMBDA p, d : OnPendingTimeout(d, p, e), c, own)

\* drive_mrp for the messages X that MRP gives up on now.
DriveMrp(c, X, e) ==
    FoldSet(LAMBDA m, d : Expired(d, m, e), [c EXCEPT !.mrp = @ \ X], X)

\* What drive_response_deadlines does to one request whose deadline has passed: a
\* resubscribe and a first read try again, everything else fails.
ResponseDeadline(c, p, e) ==
    IF p.kind = "Resubscribe" \/ (~p.retried /\ p.kind = "Read")
    THEN OnPendingTimeout(c, p, e)
    ELSE FailPending([c EXCEPT !.pending = @ \ {p}], p)

DriveResponseDeadlines(c, e) ==
    FoldSet(LAMBDA p, d : IF p \in d.pending THEN ResponseDeadline(d, p, e) ELSE d,
            c, {p \in c.pending : p.due})

\* check_liveness: a stale subscription gives its session up before it retries.
CheckLiveness(c) ==
    LET stale(x, d) ==
            LET out == IF x.op \in c.gone THEN d ELSE EvictCachedRouteIf(d, Target[x.op], x.sid)
            IN  RemoveSessionIfOrphaned(BeginResubscribe(out, x.op), x.sid)
    IN  FoldSet(stale, c, {x \in c.subs : x.due})

\* drive_resubscribes: every attempt that is due; a rescheduled one no longer is.
DriveResubscribes(c, e) ==
    FoldSet(LAMBDA q, d : IF q \in d.queue THEN AttemptResubscribe(d, q, e) ELSE d,
            c, {q \in c.queue : q.due})

\* The timer arm of run, in its order.
TimerArm(c, X, e) ==
    DrivePendingResolves(
        DriveResubscribes(CheckLiveness(DriveResponseDeadlines(DriveMrp(c, X, e), e)), e), e)

-----------------------------------------------------------------------------
(***************************** Closing sessions ****************************)

\* Mutant: whatever has a retry left.
RetryEverythingOnClose(p) == p.kind = "Resubscribe" \/ ~p.retried

\* Which work of a closed session is tried again: what the device may not have
\* acted on is, what may have had an effect is not.
RetryOnClose(p) ==
    p.kind = "Resubscribe" \/ (~p.retried /\ p.kind \in {"Read", "Subscribe"})

\* on_peer_close_session.
OnPeerCloseSession(c, sid, e) ==
    LET evicted == [c EXCEPT !.cache = [n \in Nodes |-> IF @[n] = sid THEN NoSession ELSE @[n]]]
        closed(p, d) == IF RetryOnClose(p) THEN OnPendingTimeout(d, p, e)
                        ELSE FailPending([d EXCEPT !.pending = @ \ {p}], p)
    IN  ReleaseSession(
            FoldSet(closed, ResubscribeOn(evicted, sid), {p \in c.pending : p.sid = sid}), sid)

\* ForgetNode: everything local about n goes; no device is contacted.  A request
\* that was on the wire loses its reply channel, which its caller sees as an error.
ForgetNode(c, n) ==
    LET known == n \in c.devices
        base == [c EXCEPT !.devices = @ \ {n}, !.records = @ \ {n},
                          !.cache[n] = IF known THEN NoSession ELSE @,
                          !.waiters[n] = SelectSeq(@, LAMBDA w : w.tag # "Resubscribe")]
        released == IF known /\ c.cache[n] # NoSession
                    THEN ReleaseSession(base, c.cache[n]) ELSE base
        failed == FailConnectWaiters(released, n)
        dropped == FoldSet(LAMBDA p, d : FailPending(d, p), failed,
                           {p \in failed.pending : NodeFor(p) = n})
        left == [dropped EXCEPT !.subs = {x \in @ : Target[x.op] # n},
                                !.index = {i \in @ : Target[i.op] # n},
                                !.queue = {q \in @ : NodeFor(q) # n},
                                !.pending = {p \in @ : NodeFor(p) # n}]
    IN  [left EXCEPT !.pulled = @ \cap EpisodeSubs(left)]

\* CancelSubscription, with purge_inflight_resubscribe: the subscription's work goes
\* wherever it is, an exchange on the wire is aborted.
CancelSubscription(c, s) ==
    LET inflight == {p \in c.pending : p.op = s /\ p.kind = "Resubscribe"}
    IN  [RemoveSubscription(c, s) EXCEPT
           !.queue = {q \in @ : q.op # s},
           !.pending = @ \ inflight,
           !.mrp = {m \in @ : ~\E p \in inflight : p.sid = m.sid /\ p.exch = m.exch /\ m.leg > 0},
           !.waiters = [n \in Nodes |->
               SelectSeq(@[n], LAMBDA w : ~(w.tag = "Resubscribe" /\ w.work.op = s))],
           !.pulled = @ \ {s}]

-----------------------------------------------------------------------------
(******************************** Receiving ********************************)

Deliver(c, s, lo, hi) ==
    IF s \in c.gone THEN c ELSE [c EXCEPT !.got[s] = @ \o [i \in 1 .. hi - lo + 1 |-> lo + i - 1]]

\* resolve_timed: the device agreed, so the action goes out on the same exchange;
\* anything else is the caller's answer.
ResolveTimed(c, p, r, e) ==
    LET base == [c EXCEPT !.pending = @ \ {p}]
    IN  CASE r.what # "success" -> Answer(base, p.op, "ok")
          [] r.what = "success" /\ ~CanSend(c, p, e) ->
               Answer(SendOnExchange(base, p, "invoke"), p.op, "err")
          [] OTHER ->
               [SendOnExchange(base, p, "invoke") EXCEPT !.pending = @ \cup
                  {[p EXCEPT !.kind = "RoundTrip", !.leg = @ + 1, !.retried = TRUE,
                             !.due = FALSE, !.ran = FALSE]}]

\* resolve_action: a device that wants a timed interaction gets one, and the path
\* is remembered (timed_paths).
ResolveAction(c, p, r, e) ==
    LET base == [c EXCEPT !.pending = @ \ {p}]
    IN  IF r.what = "needsTimed"
        THEN BeginTimed([base EXCEPT !.timed = TRUE], p, p.sid, e)
        ELSE Answer(base, p.op, "ok")

\* resolve_chunked_write: chunk by chunk on one exchange, stopping at a rejection.
ResolveChunkedWrite(c, p, r, e) ==
    LET base == [c EXCEPT !.pending = @ \ {p}]
    IN  CASE r.what # "done" -> Answer(base, p.op, "err")
          [] r.what = "done" /\ p.left = 0 -> Answer(base, p.op, "ok")
          [] r.what = "done" /\ p.left > 0 /\ ~CanSend(c, p, e) ->
               Answer(SendOnExchange(base, p, "write"), p.op, "err")
          [] OTHER ->
               [SendOnExchange(base, p, "write") EXCEPT !.pending = @ \cup
                  {[p EXCEPT !.left = @ - 1, !.leg = @ + 1, !.due = FALSE, !.ran = FALSE]}]

\* The Status-ack of a report on the request's own exchange; last_reliable_send
\* moves on only if the send succeeded.
AckReport(c, p, e) ==
    [SendOnExchange(c, p, "status") EXCEPT !.pending =
        IF CanSend(c, p, e) THEN (@ \ {p}) \cup {[p EXCEPT !.leg = @ + 1]} ELSE @]

\* The Read arm of resolve_pending: collect, then ask for more or answer.
ResolveRead(c, p, r, e) ==
    LET q == [p EXCEPT !.acc = Append(@, r.exch)]
        base == [c EXCEPT !.pending = @ \ {p}]
    IN  CASE r.what \notin {"more", "last"} -> Answer(base, p.op, "err")
          [] r.what \in {"more", "last"} /\ Len(q.acc) > MaxReadChunks -> Answer(base, p.op, "err")
          [] r.what = "more" /\ Len(q.acc) <= MaxReadChunks ->
               AckReport([base EXCEPT !.pending = @ \cup {q}], q, e)
          [] OTHER -> Answer(base, p.op, "ok")

\* resolve_priming_report and resolve_subscribe_response.
ResolveSubscribe(c, p, r, e) ==
    LET base == [c EXCEPT !.pending = @ \ {p}]
        entry == [op |-> p.op, sid |-> p.sid, wire |-> r.wire, due |-> FALSE, min |-> p.min]
        established == InsertSubscription(Unstamp(base, p.op), entry)
    IN  CASE r.what = "more" -> Deliver(AckReport(c, p, e), p.op, r.lo, r.hi)
          [] r.what = "subscribed" /\ p.op \in c.gone -> Unstamp(base, p.op)
          [] r.what = "subscribed" /\ p.op \notin c.gone ->
               IF p.kind = "Subscribe" THEN Answer(established, p.op, "ok") ELSE established
          [] OTHER -> FailSubscribeAttempt(base, p, TRUE)

\* resolve_pending.
ResolvePending(c, p, r, e) ==
    CASE p.kind = "RoundTrip" -> Answer([c EXCEPT !.pending = @ \ {p}], p.op, "ok")
      [] p.kind = "Write" -> ResolveChunkedWrite(c, p, r, e)
      [] p.kind = "Read" -> ResolveRead(c, p, r, e)
      [] p.kind \in {"Subscribe", "Resubscribe"} -> ResolveSubscribe(c, p, r, e)
      [] p.kind = "Timed" -> ResolveTimed(c, p, r, e)
      [] p.kind = "Action" -> ResolveAction(c, p, r, e)

\* An answer to a report that no work takes (answer_stray_report), and the ack of
\* one that was delivered: a reliable message on the report's own exchange.
StatusOn(c, sid, exch, leg, o) ==
    IF sid \in Ids(c.table)
    THEN [c EXCEPT !.mrp = @ \cup {[sid |-> sid, exch |-> exch, leg |-> leg, op |-> o,
                                    what |-> "status", keep |-> FALSE, min |-> 0]}]
    ELSE c

\* handle_inbound for an answer r on one of our exchanges; it acknowledges the
\* message it answers.
HandleAnswer(c, r, e) ==
    LET acked == [c EXCEPT !.mrp = {m \in @ : ~(m.sid = r.sid /\ m.exch = r.exch /\ m.leg = r.leg)}]
        hit == {p \in c.pending : p.sid = r.sid /\ p.exch = r.exch}
    IN  CASE r.sid \notin Ids(c.table) -> c
          [] r.sid \in Ids(c.table) /\ hit # {} ->
               FoldSet(LAMBDA p, d : ResolvePending(d, p, r, e), acked, hit)
          [] OTHER -> IF r.what \in {"more", "last"}
                      THEN StatusOn(acked, r.sid, r.exch, r.leg + 1, r.op) ELSE acked

\* find_report_subscription: by the index, else the only subscription of the
\* session's node with that wire id, which then moves to the report's session.
FindReportSubscription(c, sid, wire) ==
    LET indexed == {i.op : i \in {j \in c.index : j.sid = sid /\ j.wire = wire}}
        matching == {x.op : x \in {y \in c.subs : /\ Target[y.op] = NodeOf(c.table, sid)
                                                  /\ y.wire = wire}}
    IN  IF indexed # {} THEN indexed ELSE IF Cardinality(matching) = 1 THEN matching ELSE {}

MoveSubscription(c, s, sid, wire) ==
    LET x == EntryOf(c, s)
        moved == InsertSubscription(RemoveSubscription(c, s), [x EXCEPT !.sid = sid])
    IN  IF [sid |-> sid, wire |-> wire, op |-> s] \in c.index THEN c
        ELSE RemoveSessionIfOrphaned(moved, x.sid)

\* deliver_report for a report the device started on an exchange of its own.
DeliverReport(c, r) ==
    LET subs == FindReportSubscription(c, r.sid, r.wire)
        s == CHOOSE x \in subs : TRUE
        found == MoveSubscription(c, s, r.sid, r.wire)
        heard == [found EXCEPT !.subs = {IF x.op = s THEN [x EXCEPT !.due = FALSE] ELSE x : x \in @}]
    IN  CASE r.sid \notin Ids(c.table) -> c
          [] r.sid \in Ids(c.table) /\ subs = {} -> StatusOn(c, r.sid, r.exch, 0, r.op)
          [] r.sid \in Ids(c.table) /\ subs # {} /\ s \in c.gone ->
               StatusOn(RemoveSubscription(found, s), r.sid, r.exch, 0, r.op)
          [] OTHER -> StatusOn(Deliver(heard, s, r.lo, r.hi), r.sid, r.exch, 0, r.op)
=============================================================================
