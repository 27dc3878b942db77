------------------------ MODULE MCBrokerSupervisor -------------------------
(* Small instances of BrokerSupervisor.                                     *)
EXTENDS BrokerSupervisor
=============================================================================
