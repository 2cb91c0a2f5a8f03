--------------------------- MODULE MCManagedQueue ---------------------------
(* ManagedQueue on one or two tasks and up to two sessions. *)
EXTENDS ManagedQueue

CONSTANTS alice1, bob1, alice, bob, t1, t2, n1, n2

MCPrincipal == {alice, bob}
MCPrincipalOf == [p \in Participant |-> IF p = bob1 THEN bob ELSE alice]
MCTypedName == [e \in Entity |-> IF e = t1 THEN n1 ELSE n2]

On(limit, wip) ==
    [enabled |-> TRUE, paused |-> FALSE, execution_limit |-> limit,
     wip_limit |-> wip, lease |-> MaxTtl]

\* Dispatch is switched on once and stays on.
MCSteady == {On(1, 0)}
\* Dispatch goes back and forth between one execution at a time and one task in
\* progress at a time; each policy can find the other one's limit exceeded.
MCLimits == {On(1, 0), On(2, 1)}

\* The mapping of docs/02-ARCHITECTURE.md's example, with a failure that leaves
\* the task dispatchable for a retry.
MCOutcomeWork ==
    [o \in Outcome |-> CASE o \in {"success", "cancelled"} -> "terminal"
                         [] o = "failure" -> "open"
                         [] o = "abandoned" -> "open"]

\* Exchanges the two tasks together with their typed names.
MCTaskSymmetry ==
    {[n \in {t1, t2, n1, n2} |->
        CASE n = t1 -> t2 [] n = t2 -> t1 [] n = n1 -> n2 [] n = n2 -> n1]}
=============================================================================
