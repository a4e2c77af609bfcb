-------------------------- MODULE MCMessagePoller --------------------------
(* A small instance of MessagePoller: one busy dialog, and one that is listed *)
(* while it is empty and gets little.                                        *)
EXTENDS MessagePoller

CONSTANTS ali, sara

MCMaxMessages == [p \in Peers |-> IF p = ali THEN 3 ELSE 1]
=============================================================================
