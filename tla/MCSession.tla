----------------------------- MODULE MCSession -----------------------------
(***************************************************************************)
(* Sessions for TLC.                                                       *)
(***************************************************************************)
EXTENDS SessionProps, TLC

CONSTANTS host, guest
\* The host plays on; the guest, behind the bridge, comes back once.
OneReturn == (host :> 1) @@ (guest :> 2)
=============================================================================
