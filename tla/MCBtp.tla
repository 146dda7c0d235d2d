-------------------------------- MODULE MCBtp -------------------------------
(***************************************************************************)
(* Btp on SDUs of a few bytes in fragments of the least size, six bytes:   *)
(* one to four bytes of payload, by what else the fragment carries.        *)
(***************************************************************************)
EXTENDS Btp

\* One SDU of two or three fragments and one of one, each way; nobody leaves
\* and no ACK times out.
Steady ==
    [rxCap |-> 6, ackTimeout |-> 1, maxAge |-> 0, mayClose |-> {},
     sdus |-> [n \in {"Central", "Peripheral"} |-> <<5, 1>>]]

\* One SDU each way; the central's is long enough to close the window and too
\* long for the peripheral to reassemble, and the peripheral may leave.
Failing ==
    [rxCap |-> 10, ackTimeout |-> 3, maxAge |-> 3, mayClose |-> {"Peripheral"},
     sdus |-> [n \in {"Central", "Peripheral"} |->
                 IF n = "Central" THEN <<11>> ELSE <<6>>]]

BothLinks == {Steady, Failing}
SteadyLink == {Steady}
=============================================================================
