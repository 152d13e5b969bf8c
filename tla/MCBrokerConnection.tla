------------------------- MODULE MCBrokerConnection -------------------------
(***************************************************************************)
(* BrokerConnection for model checking: MaxAttempts and MaxFaults come     *)
(* from the configuration, every other state is reached from them.         *)
(***************************************************************************)
EXTENDS BrokerConnection
=============================================================================
