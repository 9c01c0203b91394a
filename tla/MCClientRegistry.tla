-------------------------- MODULE MCClientRegistry --------------------------
(***************************************************************************)
(* Small instances of ClientRegistry for TLC.  Connections, handles,       *)
(* requests and modules are interchangeable: all requests name one id.     *)
(***************************************************************************)
EXTENDS ClientRegistry, TLC

CONSTANTS p1, p2, t1

OneKnown == {p1}
AllKnown == {p1, p2}

OneId == [r \in Request |-> t1]

Interchangeable == Permutations(Conn) \cup Permutations(Socket)
                       \cup Permutations(Request) \cup Permutations(Module)
=============================================================================
