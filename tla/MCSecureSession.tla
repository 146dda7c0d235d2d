-------------------------- MODULE MCSecureSession ---------------------------
(***************************************************************************)
(* SecureSession on two nodes.  n1 may send two messages and number three  *)
(* packets before its counter is exhausted, n2 one and two, so that one    *)
(* exchange can owe two ACKs, ACKs can ride an answer, and both the last   *)
(* counter and the first one are reached.                                  *)
(***************************************************************************)
EXTENDS SecureSession

CONSTANTS n1, n2

MCNodes == {n1, n2}
MCExchangeIds == 0 .. 1
MCMaxSends == [n \in MCNodes |-> IF n = n1 THEN 2 ELSE 1]
MCFirstCounter ==
    [n \in MCNodes |-> IF n = n1 THEN MaxCounter - 3 ELSE MaxCounter - 2]

\* For the temporal properties: one message and one more packet each.
LiveMaxSends == [n \in MCNodes |-> 1]
LiveFirstCounter == [n \in MCNodes |-> MaxCounter - 2]
=============================================================================
