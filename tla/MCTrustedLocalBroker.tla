------------------------ MODULE MCTrustedLocalBroker ------------------------
(* Small instances of TrustedLocalBroker.                                   *)
EXTENDS TrustedLocalBroker, TLC

AgentSymmetry == Permutations(Agents)
=============================================================================
