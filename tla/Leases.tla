------------------------------- MODULE Leases -------------------------------
(***************************************************************************)
(* The rules of a claim row, shared by every module that reads or writes   *)
(* the claims and fences tables of a project database.                     *)
(*                                                                         *)
(* The code stores the absolute instant expires_at and compares it with    *)
(* the clock.  Here a row carries the time it has left, expires_at - now   *)
(* and never below zero: "expires_at > now" is "left > 0", and a row with  *)
(* left = 0 is an expired row that nothing has deleted yet.                *)
(***************************************************************************)
EXTENDS Naturals

CONSTANTS
    Participant,    \* a (principal_id, participant_id) pair: one client session
    Principal,      \* the authenticated subject behind a session
    PrincipalOf,    \* the subject each session belongs to
    NoClaim,        \* "there is no claim row"
    MaxTtl          \* the longest lease a client asks for, in clock ticks

ASSUME PrincipalOfAssumption == PrincipalOf \in [Participant -> Principal]
ASSUME MaxTtlAssumption == MaxTtl \in Nat \ {0}

\* "presence" is a third value of the column, but both transports answer a
\* presence acquire with a heartbeat and never reach the claims table.
Mode == {"exclusive", "owner"}

Ttl == 1..MaxTtl

Claim == [holder: Participant, mode: Mode, fence: Nat \ {0}, left: 0..MaxTtl]

ASSUME NoClaimAssumption == NoClaim \notin Claim \cup Participant

\* Mutant of Live: a claim counts until a sweep deletes it.
Live_UntilSwept(c) == c # NoClaim

Live(c) == c # NoClaim /\ c.left > 0

HeldBy(c, p) == c # NoClaim /\ c.holder = p

\* Mutant of Refuses: only the principals are compared, whatever the modes.
Refuses_ByPrincipal(c, p, mode) ==
    Live(c) /\ ~HeldBy(c, p) /\ PrincipalOf[c.holder] # PrincipalOf[p]

\* The early returns of acquireInTransaction: somebody else's live claim keeps
\* the caller out, unless both claims are "owner" claims of one principal.
Refuses(c, p, mode) ==
    /\ Live(c)
    /\ ~HeldBy(c, p)
    /\ \/ c.mode = "exclusive" \/ mode = "exclusive"
       \/ mode = "owner" /\ PrincipalOf[c.holder] # PrincipalOf[p]

Renewed(c, ttl) == [c EXCEPT !.left = ttl]

\* Mutant of Aged: an expired row goes on counting.
Aged_PastZero(c) == IF c # NoClaim THEN [c EXCEPT !.left = @ - 1] ELSE c

\* One tick of the clock, as a claim row sees it.
Aged(c) == IF c # NoClaim /\ c.left > 0 THEN [c EXCEPT !.left = @ - 1] ELSE c
=============================================================================
