---------------------------- MODULE MCEventBroker ----------------------------
(* Two pages of one user. What the first page asks for is announced to the   *)
(* second one; what the ticker sends goes to both.                           *)
EXTENDS EventBroker, TLC

CONSTANTS c1, c2, s1, w1, w2, u1

MCUidOf == (c1 :> w1) @@ (c2 :> w2)
MCUserOf == (c1 :> u1) @@ (c2 :> u1)

MCContexts == { [all |-> FALSE, uid |-> w1, user |-> u1] }
==============================================================================
