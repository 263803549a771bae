----------------------------- MODULE MCBrokers ------------------------------
(* Small instances of Brokers. *)
EXTENDS Brokers

CONSTANTS m1, m2, k1

=============================================================================
