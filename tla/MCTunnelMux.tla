---------------------------- MODULE MCTunnelMux ----------------------------
(* Limits for TunnelMux, an equal limit on UDP flows at both ends and a      *)
(* server that accepts fewer than the client asks for, and what each end     *)
(* writes.                                                                   *)
EXTENDS TunnelMux

EqualLimits == [e \in Ends |-> 1]
StrictServer == [e \in Ends |-> IF e = "client" THEN 2 ELSE 1]
NoData == [e \in Ends |-> [c \in Channels |-> 0]]
Upload == [e \in Ends |-> [c \in Channels |-> IF e = "client" THEN 3 - c[2] ELSE 0]]
=============================================================================
