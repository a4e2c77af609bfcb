--------------------------- MODULE MCMediaCarrier ---------------------------
(* Bounds for MediaCarrier: how many messages each end sends, and how many *)
(* frames can be on their way towards it.                                  *)
EXTENDS MediaCarrier

BothSend == [e \in Ends |-> IF e = "client" THEN 2 ELSE 1]
LongSession == [e \in Ends |-> IF e = "client" THEN 5 ELSE 0]

OneFrame == [e \in Ends |-> 1]
=============================================================================
