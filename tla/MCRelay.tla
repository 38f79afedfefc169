------------------------------- MODULE MCRelay -------------------------------
(***************************************************************************)
(* Instances of Relay for TLC.                                             *)
(***************************************************************************)
EXTENDS Relay

CONSTANTS a1, d1, d2

\* Two dialers compete while nothing fails; or one dialer, and two faults.
TwoDialersOrTwoFaults == {[dialers |-> {d1, d2}, faults |-> 0, spare |-> 1],
                          [dialers |-> {d1}, faults |-> 2, spare |-> 2]}
OneDialer == {[dialers |-> {d1}, faults |-> 0, spare |-> 1]}
=============================================================================
