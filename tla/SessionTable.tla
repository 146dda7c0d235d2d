---------------------------- MODULE SessionTable ----------------------------
(***************************************************************************)
(* The session table of matter-transport (session.rs, SessionManager):     *)
(* which secured sessions are registered, in the order they were           *)
(* registered (created_seq), and the next local id.  A session is its      *)
(* local id and the node it leads to; keys, counters and the replay window *)
(* are in SecureSession.                                                   *)
(*                                                                         *)
(* The local id is a u16 that skips 0.  MaxTasks of the controller bounds  *)
(* how many ids are handed out, so the wrap itself is not reached here.    *)
(***************************************************************************)
EXTENDS Naturals, Sequences, SequencesExt, FiniteSets

CONSTANT MaxSessions      \* DEFAULT_MAX_SESSIONS; set_max_sessions clamps it to at least 1

ASSUME MaxSessionsAssumption == MaxSessions \in Nat \ {0}

NoSession == 0

\* SessionManager::new: nothing registered, the first id is 1.
NewTable == [order |-> <<>>, nextId |-> 1]

Ids(t) == {t.order[i].id : i \in DOMAIN t.order}

\* The node session sid leads to (Session::peer); only for a registered sid.
NodeOf(t, sid) == (CHOOSE s \in Range(t.order) : s.id = sid).node

\* allocate_session_id: the next id that no REGISTERED session has.  Nothing
\* is reserved: the id only becomes taken when the session is inserted.
AllocatedId(t) ==
    CHOOSE id \in t.nextId .. t.nextId + Len(t.order) :
        /\ id \notin Ids(t)
        /\ \A j \in t.nextId .. id - 1 : j \in Ids(t)

AllocateId(t) == [t EXCEPT !.nextId = AllocatedId(t) + 1]

Without(t, sid) == [t EXCEPT !.order = SelectSeq(@, LAMBDA s : s.id # sid)]

\* The session a full table gives up: idle sessions before busy ones, and the
\* oldest of those.  busy is the set of ids whose MRP state has_pending.
Victim(t, busy) ==
    LET idle == SelectSeq(t.order, LAMBDA s : s.id \notin busy)
    IN  IF idle # <<>> THEN Head(idle).id ELSE Head(t.order).id

\* insert_session: a new id in a full table evicts the victim first; an id
\* already there is replaced and becomes the newest.
InsertSession(t, sid, node, busy) ==
    LET full == Len(t.order) >= MaxSessions /\ sid \notin Ids(t)
        room == IF full THEN Without(t, Victim(t, busy)) ELSE Without(t, sid)
    IN  [room EXCEPT !.order = Append(@, [id |-> sid, node |-> node])]
=============================================================================
