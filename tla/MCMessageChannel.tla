--------------------------- MODULE MCMessageChannel ---------------------------
(* Small instances of MessageChannel for TLC.                              *)
EXTENDS ChannelProperties

(* Every message fits the read buffer.                                     *)
MCFits == [e \in Ends |-> 1]

MCSends == [e \in Ends |-> IF e = Client THEN 2 ELSE 1]
MCOneEach == [e \in Ends |-> 1]
MCNone == [e \in Ends |-> 0]

MCBothDestroy == Ends
=============================================================================
