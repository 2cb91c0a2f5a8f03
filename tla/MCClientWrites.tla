--------------------------- MODULE MCClientWrites ---------------------------
(* ClientWrites on one task and two sessions of different principals. *)
EXTENDS ClientWrites

CONSTANTS alice1, bob1, alice, bob, task, typed

MCPrincipal == {alice, bob}
MCPrincipalOf == [p \in Participant |-> IF p = bob1 THEN bob ELSE alice]
MCTypedName == [e \in {task} |-> typed]
=============================================================================
