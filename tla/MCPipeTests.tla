------------------------------ MODULE MCPipeTests ------------------------------
(* Small instances of PipeTests for TLC.                                   *)
EXTENDS PipeTests

(* The client's messages fit the read buffer, the server's are longer.     *)
MCLong == [e \in Ends |-> IF e = Server THEN ReadBufSize + 1 ELSE 1]
MCSends == [e \in Ends |-> IF e = Client THEN 2 ELSE 1]
MCEnds == Ends

Run(num_messages, for_ever) == [num_messages |-> num_messages, for_ever |-> for_ever]

(* A client that fills the pipe of a server that stays healthy, both        *)
(* staying; one that does so while the server is sending too, a message    *)
(* longer than the client's buffer; and one that sends and leaves.         *)
MCCommandLines == {
  [e \in Ends |-> IF e = Client THEN Run(2, TRUE) ELSE Run(0, TRUE)],
  [e \in Ends |-> IF e = Client THEN Run(2, TRUE) ELSE Run(1, TRUE)],
  [e \in Ends |-> IF e = Client THEN Run(1, FALSE) ELSE Run(0, TRUE)]}
=============================================================================
