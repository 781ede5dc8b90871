--------------------------- MODULE MCHubInvocation ---------------------------
(***************************************************************************)
(* Instances of HubInvocation for TLC.                                     *)
(***************************************************************************)
EXTENDS HubInvocation
=============================================================================
