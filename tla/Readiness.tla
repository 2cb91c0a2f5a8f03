----------------------------- MODULE Readiness -----------------------------
(***************************************************************************)
(* Whether a task is held back by its prerequisites, decided twice:        *)
(* blockedTaskIds condenses the whole graph into strongly connected        *)
(* components once, evaluateReadiness walks the ancestors of one task.     *)
(* Both run here to the end, one loop iteration a step, over every graph.  *)
(*                                                                         *)
(* A task is one of the kinds the checks tell apart: "missing", or with a  *)
(* declared lifecycle "working", "done" (satisfies its dependents),        *)
(* "failed" (terminal without satisfying them), or without one "open",     *)
(* "closed" or "vacant" (no status at all); an archived task behaves as    *)
(* one of the terminal kinds.                                              *)
(***************************************************************************)
EXTENDS Naturals, Sequences, FiniteSets
LOCAL INSTANCE SequencesExt
LOCAL INSTANCE Relation

CONSTANTS
    Unit,     \* task ids, numbers: the order of rows
    Kind      \* the kinds of task that occur

Kinds == {"missing", "working", "done", "failed", "open", "closed", "vacant"}

ASSUME ReadinessAssumption ==
    Unit \subseteq Nat \ {0} /\ IsFiniteSet(Unit) /\ Kind \subseteq Kinds

VARIABLES
    kindOf,
    predecessors,
    search,       \* the local variables of blockedTaskIds
    walk          \* and of evaluateReadiness, for one task

readinessVars == <<kindOf, predecessors, search, walk>>

Least(S) == CHOOSE u \in S : \A v \in S : u <= v

\* Dependents with a declared lifecycle are strict.
Strict(u) == kindOf[u] \in {"working", "done", "failed"}
HoldsBack(u, strict) ==
    \/ kindOf[u] \in {"working", "failed", "open"}
    \/ strict /\ kindOf[u] \in {"missing", "closed", "vacant"}
Listed(u) == kindOf[u] \in {"working", "open", "vacant"}

-----------------------------------------------------------------------------
(* blockedTaskIds.                                                         *)

Indexed(u) == search.index[u] # 0
Searched == search.frames = << >> /\ \A u \in Unit : Indexed(u)

Opened(s, u) ==
    [s EXCEPT !.index[u] = Cardinality({v \in Unit : s.index[v] # 0}) + 1,
              !.low[u] = Cardinality({v \in Unit : s.index[v] # 0}) + 1,
              !.stack = Append(@, u),
              !.frames = Append(@, [id |-> u, rest |-> predecessors[u]])]

Lowered(s, u, n) == [s EXCEPT !.low[u] = IF n < @ THEN n ELSE @]

\* The component of root, once its last member is done: what it holds and what
\* it inherits from the components above it.
ComponentAt(members) ==
    LET above == {search.components[search.componentOf[p]] :
                      p \in UNION {predecessors[u] : u \in members} \ members}
        problems(strict) == Cardinality({u \in members : HoldsBack(u, strict)})
    IN [strictProblems |-> problems(TRUE),
        legacyProblems |-> problems(FALSE),
        upstreamStrict |-> \E c \in above : c.strictProblems > 0 \/ c.upstreamStrict,
        upstreamLegacy |-> \E c \in above : c.legacyProblems > 0 \/ c.upstreamLegacy,
        reachesCycle |->
            \/ Cardinality(members) > 1
            \/ \E u \in members : predecessors[u] \cap members # {}
            \/ \E c \in above : c.reachesCycle]

Condensed(s, root) ==
    LET first == CHOOSE i \in DOMAIN s.stack : s.stack[i] = root
        members == {s.stack[i] : i \in first .. Len(s.stack)}
    IN [s EXCEPT !.stack = SubSeq(@, 1, first - 1),
                 !.components = Append(@, ComponentAt(members)),
                 !.componentOf = [u \in Unit |-> IF u \in members
                                                 THEN Len(s.components) + 1 ELSE @[u]]]

SearchRoot ==
    /\ search.frames = << >> /\ ~Searched
    /\ search' = Opened(search, Least({u \in Unit : ~Indexed(u)}))
    /\ UNCHANGED <<kindOf, predecessors, walk>>

Follow ==
    /\ search.frames # << >>
    /\ LET frame == Last(search.frames)
           p == Least(frame.rest)
           moved == [search EXCEPT !.frames =
                         Append(Front(@), [frame EXCEPT !.rest = @ \ {p}])]
       IN /\ frame.rest # {}
          /\ search' = IF ~Indexed(p) THEN Opened(moved, p)
                       ELSE IF p \in Range(search.stack)
                            THEN Lowered(moved, frame.id, search.index[p])
                       ELSE moved
    /\ UNCHANGED <<kindOf, predecessors, walk>>

\* The frame below takes over how far up the finished one reached.
Returned(s, u) ==
    IF s.frames = << >> THEN s ELSE Lowered(s, Last(s.frames).id, s.low[u])

FinishFrame ==
    /\ search.frames # << >> /\ Last(search.frames).rest = {}
    /\ LET u == Last(search.frames).id
           popped == [search EXCEPT !.frames = Front(@)]
       IN search' = Returned(IF search.low[u] = search.index[u] THEN Condensed(popped, u)
                             ELSE popped, u)
    /\ UNCHANGED <<kindOf, predecessors, walk>>

\* The last loop: a member of a cycle is held back by the others of it.
BlockedTaskIds ==
    {u \in Unit :
        LET c == search.components[search.componentOf[u]]
            self(strict) == IF HoldsBack(u, strict) THEN 1 ELSE 0
        IN /\ Listed(u)
           /\ IF Strict(u)
              THEN c.reachesCycle \/ c.upstreamStrict \/ c.strictProblems > self(TRUE)
              ELSE c.upstreamLegacy \/ c.legacyProblems > self(FALSE)}

-----------------------------------------------------------------------------
(* The dependency part of evaluateReadiness.                               *)

Enter(u) == [id |-> u, exit |-> FALSE]
Exit(u) == [id |-> u, exit |-> TRUE]

Evaluate(u) ==
    /\ Searched /\ walk.id = 0 /\ kindOf[u] # "missing"
    /\ walk' = [walk EXCEPT !.id = u, !.stack = <<Enter(u)>>]
    /\ UNCHANGED <<kindOf, predecessors, search>>

\* Mutant of Revisited: any second way to a task counts as a cycle.
Revisited_Anywhere(w, u) == [w EXCEPT !.held = @ \/ Strict(w.id)]

\* Walking a task that was entered before: a cycle if it is still on the path.
Revisited(w, u) ==
    [w EXCEPT !.held = @ \/ (Strict(w.id) /\ w.color[u] = "visiting")]

Visited(w, u) ==
    [w EXCEPT !.color[u] = "visiting",
              !.held = @ \/ (u # w.id /\ HoldsBack(u, Strict(w.id))),
              !.stack = Append(@, Exit(u))
                        \o [i \in 1 .. Cardinality(predecessors[u]) |->
                               Enter(SetToSortSeq(predecessors[u], <)[i])]]

WalkOn ==
    /\ walk.stack # << >>
    /\ LET current == Last(walk.stack)
           popped == [walk EXCEPT !.stack = Front(@)]
       IN walk' = IF current.exit THEN [popped EXCEPT !.color[current.id] = "visited"]
                  ELSE IF walk.color[current.id] # "new" THEN Revisited(popped, current.id)
                  ELSE Visited(popped, current.id)
    /\ UNCHANGED <<kindOf, predecessors, search>>

-----------------------------------------------------------------------------

ReadinessInit ==
    /\ kindOf \in [Unit -> Kind]
    /\ predecessors \in [Unit -> SUBSET Unit]
    /\ search = [index |-> [u \in Unit |-> 0], low |-> [u \in Unit |-> 0], stack |-> << >>,
                 frames |-> << >>, components |-> << >>, componentOf |-> [u \in Unit |-> 0]]
    /\ walk = [id |-> 0, stack |-> << >>, color |-> [u \in Unit |-> "new"], held |-> FALSE]

ReadinessNext ==
    \/ SearchRoot \/ Follow \/ FinishFrame
    \/ (\E u \in Unit : Evaluate(u)) \/ WalkOn

ReadinessSpec == ReadinessInit /\ [][ReadinessNext]_readinessVars

-----------------------------------------------------------------------------

\* What both are to compute: some ancestor holds the task back or, for a strict
\* one, stands on a cycle.
HeldBack(u) ==
    LET above == TransitiveClosure([x, y \in Unit |-> y \in predecessors[x]], Unit)
    IN \E v \in Unit :
           \/ above[u, v] /\ v # u /\ HoldsBack(v, Strict(u))
           \/ Strict(u) /\ above[v, v] /\ (v = u \/ above[u, v])

\* A task is listed as blocked exactly when its own evaluation finds it held back
\* by a prerequisite, on cycles and around missing and unconfigured tasks as well
\* (blockedTaskIds: "evaluateReadiness would report an unresolved, missing,
\* cyclic or lifecycle-unconfigured predecessor").
WalksAgree ==
    walk.id # 0 /\ walk.stack = << >> /\ Listed(walk.id) =>
        /\ walk.held <=> HeldBack(walk.id)
        /\ walk.held <=> walk.id \in BlockedTaskIds
=============================================================================
