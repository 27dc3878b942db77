---------------------------- MODULE MCLocalLanes ----------------------------
(* Two brokers, or two privileged verifiers, over an issue of their own: no *)
(* task is in both lanes.                                                   *)
EXTENDS TrustedLocalBroker, PrivilegedVerifier

VARIABLE lane

AgentSymmetry == Permutations(Agents) \cup Permutations(Verifiers)

Directive(reviewed, dispatch) ==
  [task |-> "t", sha |-> "s1", reviewed |-> reviewed, dispatch |-> dispatch,
   action |-> "smoke", access |-> "LIVE_STAGING"]
MCDirectives == {Directive("s1", "d1"), Directive("s1", "d2"), Directive("s2", "d1")}
MCActions == [smoke |-> [access |-> "LIVE_STAGING", secrets |-> TRUE]]

LanesInit == Init /\ VerifierInit /\ lane \in {"broker", "verifier"}

LanesNext ==
  /\ UNCHANGED lane
  /\ \/ lane = "broker" /\ Next /\ UNCHANGED verifier_vars
     \/ lane = "verifier" /\ VerifierNext /\ UNCHANGED vars

LanesSpec == LanesInit /\ [][LanesNext]_<<vars, verifier_vars, lane>>
=============================================================================
