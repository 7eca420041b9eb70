--------------------------- MODULE NameOwnership ----------------------------
(***************************************************************************)
(* What the claim registry promises, without sockets or clocks: a name is  *)
(* free, held by a connected owner, or reserved for an absent one.  A name *)
(* of a durable owner reaches another owner only after having been free.   *)
(***************************************************************************)
CONSTANTS
  Names,
  Owners,
  EphemeralOwners,
  None,
  Reserves         \* whether names stay reserved after a disconnect

VARIABLES
  ownerOf,         \* ownerOf[n]: the owner, None when n is free
  held             \* the names whose owner is connected

vars == <<ownerOf, held>>

TypeOK ==
  /\ ownerOf \in [Names -> Owners \cup {None}]
  /\ held \subseteq Names

Init ==
  /\ ownerOf = [n \in Names |-> None]
  /\ held = {}

\* All of S or nothing; an ephemeral owner gives way to anyone.
Grant(S, c) ==
  /\ S # {}
  /\ \A n \in S : ownerOf[n] \in {None, c} \cup EphemeralOwners
  /\ ownerOf' = [n \in Names |-> IF n \in S THEN c ELSE ownerOf[n]]
  /\ held' = held \cup S

\* The connection behind S ends: durable owners keep a reservation.
Depart(S) ==
  /\ S \subseteq held
  /\ held' = held \ S
  /\ ownerOf' = [n \in Names |->
       IF n \in S /\ (~Reserves \/ ownerOf[n] \in EphemeralOwners)
         THEN None ELSE ownerOf[n]]

\* Reservations run out; a held name never does.
Lapse(S) ==
  /\ S \cap held = {}
  /\ ownerOf' = [n \in Names |-> IF n \in S THEN None ELSE ownerOf[n]]
  /\ UNCHANGED held

\* The administrator frees names.
Revoke(S) ==
  /\ held' = held \ S
  /\ ownerOf' = [n \in Names |-> IF n \in S THEN None ELSE ownerOf[n]]

Next ==
  \E S \in SUBSET Names :
    \/ \E c \in Owners : Grant(S, c)
    \/ Depart(S)
    \/ Lapse(S)
    \/ Revoke(S)

Spec == Init /\ [][Next]_vars
=============================================================================
