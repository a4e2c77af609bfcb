--------------------------- MODULE MCTunnelSession ---------------------------
(* The clients looked at: what is usual, and all that differ from it in one *)
(* respect.                                                                 *)
EXTENDS TunnelSession, FiniteSets

Usual == [carrier |-> "video", config |-> "registered", key |-> "right", traffic |-> "some"]

OneOddity == {g \in Givens : Cardinality({f \in DOMAIN g : g[f] # Usual[f]}) <= 1}
=============================================================================
