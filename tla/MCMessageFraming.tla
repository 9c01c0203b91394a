--------------------------- MODULE MCMessageFraming ---------------------------
(***************************************************************************)
(* A small instance of MessageFraming for TLC: a message of the type byte  *)
(* alone, such as the server's heartbeat, and one of the largest size.     *)
(***************************************************************************)
EXTENDS MessageFraming

CONSTANTS heartbeat, task

MCSize == heartbeat :> 1 @@ task :> 3

\* The two directions share nothing but the connection's end: each connection
\* carries messages in one of them.
OneDirection == sentToAgent = <<>> \/ sentToServer = <<>>
=============================================================================
