--------------------------- MODULE MCAdminConsole ---------------------------
(***************************************************************************)
(* AdminConsole for TLC: small bounds.                                   *)
(***************************************************************************)
EXTENDS AdminConsole
=============================================================================
