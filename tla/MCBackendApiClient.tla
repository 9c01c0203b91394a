------------------------- MODULE MCBackendApiClient -------------------------
(***************************************************************************)
(* Small instances of BackendApiClient for TLC.                            *)
(***************************************************************************)
EXTENDS BackendApiClient
=============================================================================
