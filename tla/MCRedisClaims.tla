--------------------------- MODULE MCRedisClaims ---------------------------
(***************************************************************************)
(* RedisClaims for TLC.  alice and bob have client ids (bob asks for two   *)
(* names, of which one is alice's too); tok is a token without one.  alice *)
(* or bob may connect twice, on different nodes or on one.                 *)
(***************************************************************************)
EXTENDS RedisClaims

CONSTANTS m1, m2, s1, s2, s3, api, web, alice, bob, tok

MCNodeOf == [s \in Sockets |-> IF s = s1 THEN m1 ELSE m2]

Alice == [owner |-> alice, names |-> <<api>>]
Bob == [owner |-> bob, names |-> <<web, api>>]
Tok == [owner |-> tok, names |-> <<api>>]

MCHandshakes ==
  [s \in Sockets |-> IF s = s1 THEN {Alice} ELSE IF s = s2 THEN {Alice, Bob} ELSE {Tok, Bob}]
=============================================================================
