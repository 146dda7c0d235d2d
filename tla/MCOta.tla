------------------------------- MODULE MCOta --------------------------------
(***************************************************************************)
(* Instances of OtaSpec: a requestor that may restart and, once, another   *)
(* node of the fabric.                                                     *)
(***************************************************************************)
EXTENDS OtaSpec

CONSTANTS req, other

\* What an earlier serve left behind: the same record on both sides, or nothing;
\* with nothing, a server that says it is slow, or another node that connects.
\* Retransmissions add nothing to the network, so one wait is enough where their
\* time is not in question.
Prior == Record(0, <<<<req, 0>>, 0>>, req)
AnySetting ==
    {[records |-> {Prior}, record |-> Prior, mrp |-> <<1>>, params |-> None,
      collide |-> TRUE, attempts |-> [n \in Nodes |-> IF n = req THEN 2 ELSE 0]],
     [records |-> {}, record |-> None, mrp |-> <<1, 2>>, params |-> <<2, 2, 2>>,
      collide |-> FALSE, attempts |-> [n \in Nodes |-> IF n = req THEN 2 ELSE 0]],
     [records |-> {}, record |-> None, mrp |-> <<1>>, params |-> None,
      collide |-> TRUE, attempts |-> [n \in Nodes |-> 1]]}
=============================================================================
