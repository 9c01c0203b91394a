-------------------------- MODULE MCChangeDetection --------------------------
(***************************************************************************)
(* A known PC, with reports that differ in one field, in both, or leave    *)
(* one out.                                                                *)
(***************************************************************************)
EXTENDS ChangeDetection, TLC

CONSTANTS ip, name, v1, v2

First == (ip :> v1) @@ (name :> v1)
Reports == {(ip :> v2) @@ (name :> v1), (ip :> v2) @@ (name :> v2),
            (ip :> v1) @@ (name :> v2), (ip :> v2) @@ (name :> Empty)}
Symmetry == Permutations(Conn)
=============================================================================
