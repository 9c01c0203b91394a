--------------------------- MODULE MCHttpApiHandler ---------------------------
(***************************************************************************)
(* A small instance of HttpApiHandler for TLC: requests that differ in     *)
(* what their layout does to the parser.  Two inspections of two PCs share *)
(* a task id, as two of the same second do.                                *)
(***************************************************************************)
EXTENDS HttpApiHandler

CONSTANTS p1, p2, plain, piped, wide, chunked, query, t1, t2

Bytes(header, body, extra, narrow, hasLength) ==
    [header |-> header, body |-> body, extra |-> extra, narrow |-> narrow,
     hasLength |-> hasLength]

MCLayout == plain :> Bytes(2, 2, 0, 0, TRUE) @@ piped :> Bytes(1, 1, 1, 0, TRUE)
            @@ wide :> Bytes(2, 2, 0, 1, TRUE) @@ chunked :> Bytes(1, 1, 0, 0, FALSE)
            @@ query :> Bytes(2, 0, 0, 0, FALSE)
MCEndpoint == [r \in Request |-> IF r = query THEN "query" ELSE "inspect"]
MCPcOf == plain :> p1 @@ piped :> p2 @@ wide :> p1 @@ chunked :> p2 @@ query :> NoPc
MCTaskOf == [r \in Request |-> IF r = wide THEN t2 ELSE t1]
=============================================================================
