--------------------------- MODULE MCForensicServer ---------------------------
(***************************************************************************)
(* A small instance of ForensicServer for TLC: two agents and an           *)
(* inspection that arrives in pieces.                                      *)
(***************************************************************************)
EXTENDS ForensicServer

CONSTANTS c1, c2, inspect, t1

MCLayout == inspect :> [header |-> 1, body |-> 1, extra |-> 0, narrow |-> 0,
                        hasLength |-> TRUE]
MCEndpoint == inspect :> "inspect"
MCPcOf == inspect :> c1
MCTaskOf == inspect :> t1
=============================================================================
