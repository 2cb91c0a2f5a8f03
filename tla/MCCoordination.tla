--------------------------- MODULE MCCoordination ---------------------------
(* Coordination on one task and up to three sessions, two of one principal. *)
EXTENDS Coordination, TLC

CONSTANTS alice1, alice2, bob1, alice, bob, task, typed

MCPrincipal == {alice, bob}
MCPrincipalOf == [p \in Participant |-> IF p = bob1 THEN bob ELSE alice]
MCSymmetry == Permutations({alice1, alice2})
MCTypedName == [e \in {task} |-> typed]
=============================================================================
