---------------------------- MODULE MCController ----------------------------
(***************************************************************************)
(* ControllerSpec for TLC: a request is named after its verb.              *)
(***************************************************************************)
EXTENDS ControllerSpec

Verbs == [read |-> "Read", read2 |-> "Read", invoke |-> "Action", invoke2 |-> "Action",
          write |-> "Write"]

KindOfName == [o \in Requests |-> Verbs[o]]

OneNode == [o \in Ops |-> CHOOSE n \in Nodes : TRUE]

\* A read and an action in any order, or a write after the read.
WriteLast == [o \in Ops |-> IF o = "write" THEN {"read"} ELSE {}]

Numbered == [o \in Ops |-> IF o = "s2" THEN {"s1"} ELSE {}]

World(found, up, refused, adverts, cooling) ==
    [found |-> found, up |-> up, refused |-> refused, adverts |-> adverts, cooling |-> cooling]

\* Everything works; nobody is found and no packet leaves; no browse can be opened.
RequestWorlds ==
    {World(Nodes, Nodes, FALSE, {}, FALSE), World({}, {}, FALSE, {}, FALSE),
     World({}, Nodes, TRUE, {}, FALSE)}

\* The node is found or not, or advertises itself within the cooldown (outside it an
\* advert does what ResubscribeNow does).
SubscriptionWorlds ==
    {World({}, Nodes, FALSE, {}, FALSE), World(Nodes, Nodes, FALSE, {}, FALSE),
     World(Nodes, Nodes, FALSE, Nodes, TRUE)}
=============================================================================
