---------------------------- MODULE AssimilationPlan ----------------------------
(***************************************************************************)
(* How the candidates of one review become a plan for current knowledge,   *)
(* and which plans the truth transaction takes.  The background worker     *)
(* (autonomous/worker.py) asks the model batch by batch, gives every       *)
(* unusable answer two corrections, falls back to single candidates, and   *)
(* has a collision decided once more by itself; an agent's proposals are   *)
(* validated one by one.  The other side, apply_separated_assimilation,    *)
(* trusts neither.                                                         *)
(*                                                                         *)
(* A decision about a candidate is a sequence of moves, because a broad    *)
(* candidate may be split into several points.  A move says what happens   *)
(* ("change" is refine or replace, "leave" no_write or reject, "defer"     *)
(* defer or handoff) and on which truths.  Texts are left out: whether an  *)
(* answer's wording is acceptable is part of the choice between an answer  *)
(* that is taken and one that is refused.                                  *)
(***************************************************************************)
EXTENDS Integers, FiniteSets, Sequences, SequencesExt

CONSTANTS
    Point,      \* the candidates of the review
    Truth,      \* handles of the current knowledge offered to the model
    BatchSize,  \* candidates in one call of the model
    MaxExtra    \* bound: moves of an answer beyond one per candidate

ASSUME PlanAssumption == BatchSize \in Nat \ {0} /\ MaxExtra \in Nat /\ IsFiniteSet(Point)

VARIABLES
    way,        \* who plans: "none" yet, the "worker" or an "agent"
    eligible,   \* candidates whose evidence was verified
    stage,      \* how far planning has come
    level,      \* "outer" batches, or the "inner" ones of a batch that failed
    frame,      \* what each level has still to ask, and what it has decided
    tries,      \* refused answers to the present question
    decided,    \* the plan
    proof       \* the move that the final scope check has approved, per candidate

planVars == <<way, eligible, stage, level, frame, tries, decided, proof>>

Free == {"add", "leave", "defer"}
Move == [does : Free, on : {{}}]
        \cup [does : {"confirm", "conflict"}, on : {{t} : t \in Truth}]
        \cup [does : {"change"}, on : (SUBSET Truth) \ {{}}]
Deferral == <<[does |-> "defer", on |-> {}]>>
Undecided == [c \in Point |-> <<>>]
NoMove == [does |-> "none", on |-> {}]
Commits(m) == m.does \in {"add", "change", "confirm"}

Blank == [left |-> {}, batch |-> {}, open |-> {}, moves |-> Undecided]
Decisions(g) == \A c \in Point : Len(g[c]) <= MaxExtra + 1 /\ Range(g[c]) \subseteq Move

PlanTypeOK ==
    /\ way \in {"none", "worker", "agent"}
    /\ eligible \subseteq Point
    /\ stage \in {"start", "asking", "colliding", "agreed", "planned", "failed", "refused"}
    /\ level \in {"outer", "inner"}
    /\ DOMAIN frame = {"outer", "inner"}
    /\ \A l \in {"outer", "inner"} :
          /\ frame[l].left \subseteq Point /\ frame[l].batch \subseteq Point
          /\ frame[l].open \subseteq Truth /\ Decisions(frame[l].moves)
    /\ tries \in 0 .. 2
    /\ Decisions(decided)
    /\ proof \in [Point -> Move \cup {NoMove}]

PlanInit ==
    /\ way = "none" /\ eligible = {} /\ stage = "start" /\ level = "outer"
    /\ frame = [l \in {"outer", "inner"} |-> Blank]
    /\ tries = 0
    /\ decided = Undecided
    /\ proof = [c \in Point |-> NoMove]

-----------------------------------------------------------------------------
\* The moves of a plan on one truth, each named by candidate and position.
UsesOf(g, t) == {u \in Point \X (1 .. MaxExtra + 1) :
                    u[2] \in DOMAIN g[u[1]] /\ t \in g[u[1]][u[2]].on}

\* _reject_reused_mutating_targets, _conflicting_truth_target_candidates: a
\* truth used twice, one of the uses changing it.
Collisions(g) == {t \in Truth : LET uses == UsesOf(g, t) IN
                     Cardinality(uses) > 1 /\ \E u \in uses : g[u[1]][u[2]].does = "change"}
ColliderOf(g) == LET ts == Collisions(g) IN
                 {c \in Point : \E m \in Range(g[c]) : m.on \cap ts # {}}
CollidingChanges(g) ==  \* mutant: leaves those that only use the truth as they are
    {c \in ColliderOf(g) : \E i \in DOMAIN g[c] : g[c][i].does = "change"}
Colliding(g) == ColliderOf(g)

Changed(g) == UNION {UNION {m.on : m \in {n \in Range(g[c]) : n.does = "change"}} : c \in Point}

\* validate_separated_assimilation_decision: every candidate is covered, only
\* offered truths are used, no changed truth is used twice.
Covers(g, who) == \A c \in Point : g[c] = <<>> <=> c \notin who
Consistent(g, who, open) ==
    /\ Covers(g, who)
    /\ \A c \in who : \A m \in Range(g[c]) : m.on \subseteq open
    /\ Collisions(g) = {}

\* The answers that could be given about some candidates and open truths.
Answers(who, open) ==
    {[c \in Point |-> IF c \in who THEN g[c] ELSE <<>>] :
        g \in {h \in [who -> BoundedSeq({m \in Move : m.on \subseteq open}, MaxExtra + 1) \ {<<>>}] :
                  \A c, d \in who : c # d => Len(h[c]) + Len(h[d]) <= MaxExtra + 2}}

\* _validate_truth_target_resolution: the collision must be decided for good,
\* by one use of each truth.
Terminal(g) ==
    /\ \A c \in Point : \A m \in Range(g[c]) : m.does \notin {"defer", "conflict"}
    /\ \A t \in Truth : Cardinality(UsesOf(g, t)) <= 1

Now == frame[level]
Becomes(f) == frame' = [frame EXCEPT ![level] = f]

-----------------------------------------------------------------------------
\* prepare_separated_assimilation: candidates without verified evidence get an
\* automatic point and are not shown to the model.
Start ==
    /\ stage = "start"
    /\ \E e \in SUBSET Point :
          /\ eligible' = e
          /\ frame' = [frame EXCEPT !["outer"] = [Blank EXCEPT !.left = e, !.open = Truth]]
    /\ way' = "worker"
    /\ stage' = "asking"
    /\ UNCHANGED <<level, tries, decided, proof>>

TakeBatch ==
    /\ stage = "asking" /\ Now.batch = {} /\ Now.left # {}
    /\ \E b \in SUBSET Now.left :
          /\ Cardinality(b) = IF level = "inner" \/ Cardinality(Now.left) < BatchSize
                              THEN IF level = "inner" THEN 1 ELSE Cardinality(Now.left)
                              ELSE BatchSize
          /\ Becomes([Now EXCEPT !.batch = b, !.left = @ \ b])
    /\ tries' = 0
    /\ UNCHANGED <<way, eligible, stage, level, decided, proof>>

\* The batch's decision stands; what it changes is not offered to the next one.
TakesUp(f, who, g) == [f EXCEPT !.batch = {}, !.open = @ \ Changed(g),
                                !.moves = [c \in Point |-> IF c \in who THEN g[c] ELSE @[c]]]

TakeAnswer ==
    /\ stage = "asking" /\ Now.batch # {}
    /\ \E g \in Answers(Now.batch, Now.open) :
          /\ Consistent(g, Now.batch, Now.open)
          /\ Becomes(TakesUp(Now, Now.batch, g))
    /\ tries' = 0
    /\ UNCHANGED <<way, eligible, stage, level, decided, proof>>

\* _assimilate_with_schema_retry: two corrections.
RefuseAnswer ==
    /\ \/ stage = "asking" /\ Now.batch # {}
       \/ stage = "colliding"
    /\ tries < 2
    /\ tries' = tries + 1
    /\ UNCHANGED <<way, eligible, stage, level, frame, decided, proof>>

\* The third unusable answer: a batch is asked again one by one, with what is
\* still open; a single candidate is deferred.
FallBack ==
    /\ stage = "asking" /\ Cardinality(Now.batch) > 1 /\ tries = 2
    /\ frame' = [frame EXCEPT !["inner"] = [Blank EXCEPT !.left = Now.batch, !.open = Now.open]]
    /\ level' = "inner"
    /\ tries' = 0
    /\ UNCHANGED <<way, eligible, stage, decided, proof>>

DeferPoint ==
    /\ stage = "asking" /\ Cardinality(Now.batch) = 1 /\ tries = 2
    /\ Becomes(TakesUp(Now, Now.batch, [c \in Point |-> IF c \in Now.batch THEN Deferral ELSE <<>>]))
    /\ tries' = 0
    /\ UNCHANGED <<way, eligible, stage, level, decided, proof>>

\* A level ends: the inner one hands its decision to the batch it stands for,
\* which checks it once more.
Ends(g) ==
    IF level = "outer"
    THEN /\ stage' = "agreed"
         /\ decided' = g
         /\ UNCHANGED <<level, frame>>
    ELSE LET out == frame["outer"] IN
         /\ stage' = IF Consistent(g, out.batch, out.open) THEN "asking" ELSE "refused"
         /\ frame' = [outer |-> TakesUp(out, out.batch, g), inner |-> Blank]
         /\ level' = "outer"
         /\ UNCHANGED decided

Asked == IF level = "outer" THEN eligible ELSE frame["outer"].batch
Offered == IF level = "outer" THEN Truth ELSE frame["outer"].open

Combine ==
    /\ stage = "asking" /\ Now.batch = {} /\ Now.left = {}
    /\ IF Consistent(Now.moves, Asked, Offered)
       THEN Ends(Now.moves)
       ELSE /\ stage' = IF Collisions(Now.moves) # {} THEN "colliding" ELSE "refused"
            /\ UNCHANGED <<level, frame, decided>>
    /\ tries' = 0
    /\ UNCHANGED <<way, eligible, proof>>

\* The candidates that collide are decided again together; everything else stands.
Resolve ==
    /\ stage = "colliding"
    /\ LET who == Colliding(Now.moves) IN
       \E g \in Answers(who, Collisions(Now.moves)) :
          /\ Consistent(g, who, Collisions(Now.moves)) /\ Terminal(g)
          /\ LET all == [c \in Point |-> IF c \in who THEN g[c] ELSE Now.moves[c]] IN
             IF Consistent(all, Asked, Offered)
             THEN Ends(all)
             ELSE stage' = "refused" /\ UNCHANGED <<level, frame, decided>>
    /\ tries' = 0
    /\ UNCHANGED <<way, eligible, proof>>

\* A provider that is gone, or a collision without a usable answer.
PlanningFails ==
    /\ stage \in {"asking", "colliding"}
    /\ stage' = "failed"
    /\ UNCHANGED <<way, eligible, level, frame, tries, decided, proof>>

KeepsBlocked(g, blocked) == g  \* mutant: what fails the final check stays in the plan
AfterScope(g, blocked) ==
    [c \in Point |-> IF c \in blocked THEN [i \in DOMAIN g[c] |-> Deferral[1]] ELSE g[c]]

\* Of a candidate's committing moves the last one is put on record.
LastCommitting(s) == LET places == {i \in DOMAIN s : Commits(s[i])} IN
                     IF places = {} THEN NoMove ELSE s[Max(places)]

\* _verify_final_knowledge_scope: what would be written or confirmed is checked
\* against its sources.  A candidate with one item that fails is deferred as a
\* whole; the others are approved.
ScopeCheck ==
    /\ stage = "agreed"
    /\ \E blocked \in SUBSET {c \in eligible : \E m \in Range(decided[c]) : Commits(m)} :
          /\ decided' = AfterScope(decided, blocked)
          /\ proof' = [c \in Point |-> IF c \in blocked THEN NoMove ELSE LastCommitting(decided[c])]
    /\ stage' = "planned"
    /\ UNCHANGED <<way, eligible, level, frame, tries>>

\* prepare_interactive_assimilation: proposals are validated alone, an unusable
\* one is deferred; proposals that collide are all deferred.  With nothing
\* usable the call fails.
ProposalsPlanned ==
    /\ stage = "start"
    /\ \E e \in SUBSET Point, g \in [Point -> {<<m>> : m \in Move} \cup {<<>>}] :
          LET usable == [c \in Point |-> IF c \notin e THEN <<>>
                                         ELSE IF g[c] = <<>> THEN Deferral ELSE g[c]]
          IN  /\ \A c \in Point \ e : g[c] = <<>>
              /\ eligible' = e
              /\ decided' = [c \in Point |-> IF c \in ColliderOf(usable) THEN Deferral ELSE usable[c]]
              /\ stage' = IF e = Point /\ \A c \in e : g[c] = <<>> THEN "failed" ELSE "planned"
    /\ way' = "agent"
    /\ UNCHANGED <<level, frame, tries, proof>>

PlanNext ==
    \/ Start \/ TakeBatch \/ TakeAnswer \/ RefuseAnswer \/ FallBack \/ DeferPoint
    \/ Combine \/ Resolve \/ PlanningFails \/ ScopeCheck \/ ProposalsPlanned

PlanSpec == PlanInit /\ [][PlanNext]_planVars

-----------------------------------------------------------------------------
\* apply_separated_assimilation on unchanged knowledge: the plan is validated
\* again, the candidate's last move must be the approved one, and the truths
\* expected for it are expected for every move of the candidate
\* (record_assimilation_result).
Proved(c) == way = "worker" /\ decided[c] # <<>> /\ Commits(Last(decided[c])) =>
                /\ proof[c] = Last(decided[c])
                /\ \A m \in Range(decided[c]) : m.on = Last(decided[c]).on
Applies == Consistent(decided, eligible, Truth) /\ \A c \in Point : Proved(c)

\* The two validators agree: a plan is applied as it was planned, unless a
\* candidate was split into several points.
WholePointsApply ==
    stage = "planned" /\ (\A c \in Point : Len(decided[c]) <= 1) => Applies

\* Planning never refuses its own work: neither the decisions of separate
\* batches, put together, nor a resolved collision, nor what a fallen-back
\* batch returns fails a check that each part of it has passed.
PlanningIsSound == stage # "refused"

\* Both: a plan is never refused, neither by the planner nor by the transaction.
PlansApply == PlanTypeOK /\ PlanningIsSound /\ WholePointsApply

\* Splitting a candidate into several points is allowed, so a plan that splits
\* one can be applied as well.
SplitPointsApply == stage = "planned" => Applies
=============================================================================
