---------------------------- MODULE MCClientLife ----------------------------
(* ClientLife for TLC: a server below another's domain, and a third one. *)
EXTENDS ClientLife

Nested == <<<<"eu", "example">>, <<"example">>, <<"other">>>>
=============================================================================
