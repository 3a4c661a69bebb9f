----------------------------- MODULE SessionReview -----------------------------
(***************************************************************************)
(* The review of one completely read job: autonomous/worker.py runs it in  *)
(* the background, mcp/distill_handlers.py finishes it for both the worker *)
(* and an interactive agent.  Its state lives in three stores without a    *)
(* common transaction: the job (SQLite), the candidates (one JSON file     *)
(* each) and current knowledge (another SQLite database).                  *)
(*                                                                         *)
(* A candidate's identifier is derived from the job and its text, so two   *)
(* reviews may propose the same one.  A plan says of every candidate       *)
(* whether it becomes knowledge; what the model's answers look like, and   *)
(* which of them are refused, is the subject of AssimilationPlan.          *)
(***************************************************************************)
EXTENDS Naturals, FiniteSets

CONSTANTS
    Worker,     \* runs of the autonomous worker
    Agent,      \* interactive agents
    Candidate,  \* what a review of this job may propose
    Nobody,     \* no owner
    Departed    \* an owner that ended: every run has a lease name of its own

Reviewer == Worker \cup Agent

ASSUME ReviewAssumption ==
    /\ Worker \cap Agent = {}
    /\ Nobody \notin Reviewer /\ Departed \notin Reviewer /\ Nobody # Departed

VARIABLES
    review,     \* the job: status, review lease, stored plan, recorded outcome
    draft,      \* the status in each candidate's file, or "none"
    truth,      \* candidates whose knowledge has been committed
    at,         \* where each process is
    plan,       \* the plan each process holds
    seen,       \* candidate statuses that prepare has read and not yet saved
    todo,       \* candidates the process has still to apply
    strayed     \* history: the job waits because it was deferred during a commit

reviewVars == <<review, draft, truth, at, plan, seen, todo, strayed>>

Verdict == {"none", "add", "reject"}
NoPlan == [c \in Candidate |-> "none"]
Planned(g) == {c \in Candidate : g[c] # "none"}
Adds(g) == {c \in Candidate : g[c] = "add"}
OutcomeOf(g) == IF Adds(g) # {} THEN "promoted" ELSE "nothing"
Statuses == {"none", "pending", "assimilated", "rejected", "deferred"}
Pending == {c \in Candidate : draft[c] = "pending"}

ReviewTypeOK ==
    /\ review \in [status : {"reviewing", "retryable", "failed", "completed"},
                   owner : Reviewer \cup {Nobody, Departed}, lease : {"live", "over"},
                   plan : [Candidate -> Verdict], outcome : {"none", "promoted", "nothing"}]
    /\ draft \in [Candidate -> Statuses]
    /\ truth \subseteq Candidate
    /\ at \in [Reviewer -> {"idle", "claimed", "drafted", "saving", "planned", "listed",
                            "leased", "committing", "applied", "settled", "completed",
                            "recovering", "recorded", "clearing", "failing", "deferring"}]
    /\ plan \in [Reviewer -> [Candidate -> Verdict]]
    /\ seen \in [Reviewer -> [Candidate -> Statuses]]
    /\ todo \in [Reviewer -> SUBSET Candidate]
    /\ strayed \in {"no", "yes"}

ReviewInit ==
    /\ review = [status |-> "reviewing", owner |-> Nobody, lease |-> "over",
                 plan |-> NoPlan, outcome |-> "none"]
    /\ draft = [c \in Candidate |-> "none"]
    /\ truth = {}
    /\ at = [p \in Reviewer |-> "idle"]
    /\ plan = [p \in Reviewer |-> NoPlan]
    /\ seen = [p \in Reviewer |-> [c \in Candidate |-> "none"]]
    /\ todo = [p \in Reviewer |-> {}]
    /\ strayed = "no"

Moves(p, s) == at' = [at EXCEPT ![p] = s]

\* Where a process lands forgets what it held.
Leaves(p) ==
    /\ Moves(p, "idle")
    /\ plan' = [plan EXCEPT ![p] = NoPlan]
    /\ todo' = [todo EXCEPT ![p] = {}]

\* Between the commit claim and finalize.  The lease has then just been
\* renewed for five minutes, and a deferred job waits at least as long: the
\* clock is assumed to change neither while a few local writes are made.
Committing(p) == at[p] \in {"committing", "applied"}
Quiet == \A p \in Reviewer : ~Committing(p)

OwnsLive(p) == review.status = "reviewing" /\ review.owner = p /\ review.lease = "live"
ClaimableAnyway == review.status = "reviewing"  \* mutant: a live lease is taken over
Claimable == review.status = "reviewing" /\ (review.owner = Nobody \/ review.lease = "over")

-----------------------------------------------------------------------------
\* claim_distill_review: every run claims under a new name, so a lease left
\* behind is somebody else's until it has run out.
Claim(w) ==
    /\ at[w] = "idle"
    /\ Claimable
    /\ review' = [review EXCEPT !.owner = w, !.lease = "live"]
    /\ Moves(w, "claimed")
    /\ UNCHANGED <<draft, truth, plan, seen, todo, strayed>>

\* A claim over an expired lease is charged; the last one fails the job.
ClaimFails(p) ==
    /\ at[p] \in {"idle", "listed"}
    /\ review.status = "reviewing" /\ review.owner # Nobody /\ review.lease = "over"
    /\ review' = [review EXCEPT !.status = "failed", !.owner = Nobody]
    /\ Leaves(p)
    /\ UNCHANGED <<draft, truth, seen, strayed>>

\* The decision of the model is verified and becomes candidates: what an
\* earlier attempt left pending is deferred first, a candidate that exists
\* already is taken as it is.  Nothing here looks at the lease.
Draft(w) ==
    /\ at[w] = "claimed"
    /\ \E g \in [Candidate -> Verdict] :
          /\ plan' = [plan EXCEPT ![w] = g]
          /\ draft' = [c \in Candidate |->
                          IF draft[c] = "pending" THEN "deferred"
                          ELSE IF draft[c] = "none" /\ c \in Planned(g) THEN "pending"
                          ELSE draft[c]]
          /\ Moves(w, IF Planned(g) = {} THEN "planned" ELSE "drafted")
    /\ UNCHANGED <<review, truth, seen, todo, strayed>>

\* prepare_separated_assimilation reads each candidate, reopens its sources,
\* and saves the candidate it has read.
ReadDrafts(w) ==
    /\ at[w] = "drafted"
    /\ seen' = [seen EXCEPT ![w] = draft]
    /\ Moves(w, "saving")
    /\ UNCHANGED <<review, draft, truth, plan, todo, strayed>>

SaveDrafts(w) ==
    /\ at[w] = "saving"
    /\ draft' = [c \in Candidate |-> IF c \in Planned(plan[w]) THEN seen[w][c] ELSE draft[c]]
    /\ seen' = [seen EXCEPT ![w] = [c \in Candidate |-> "none"]]
    /\ Moves(w, "planned")
    /\ UNCHANGED <<review, truth, plan, todo, strayed>>

\* An agent stages its points while the review has no owner.
Stage(a) ==
    /\ at[a] = "idle"
    /\ review.status = "reviewing" /\ review.owner = Nobody
    /\ \E c \in Candidate :
          /\ draft[c] = "none"
          /\ draft' = [draft EXCEPT ![c] = "pending"]
    /\ UNCHANGED <<review, truth, at, plan, seen, todo, strayed>>

-----------------------------------------------------------------------------
\* _tool_finalize_session_distill_core: what the job says decides the branch.
\* A completed job with an outcome is replayed, one without is recovered from
\* the plan that was stored with it.
Entering(p) == \/ p \in Worker /\ at[p] = "planned"
               \/ p \in Agent /\ at[p] = "idle"

EnterCompleted(p) ==
    /\ Entering(p)
    /\ review.status = "completed"
    /\ IF review.outcome = "none"
       THEN /\ plan' = [plan EXCEPT ![p] = review.plan]
            /\ Moves(p, "recovering")
       ELSE /\ Moves(p, "clearing")
            /\ UNCHANGED plan
    /\ UNCHANGED <<review, draft, truth, seen, todo, strayed>>

\* A supplied plan must cover exactly the pending candidates, and those it
\* names beyond them; an agent may supply one only to repeat what is committed.
SuppliesPlan(p, g) ==
    /\ Planned(g) # {}
    /\ Pending \subseteq Planned(g)
    /\ \A c \in Planned(g) : draft[c] # "none"
    /\ p \in Agent => Planned(g) = Adds(g) /\ Adds(g) \subseteq truth

\* Without a plan the pending candidates are the job's; a candidate that was
\* assimilated in an earlier attempt asks for the plan that did it.
ListsPending(g) ==
    /\ \A c \in Candidate : draft[c] # "assimilated"
    /\ Planned(g) \in {{}, Pending}

Enter(p) ==
    /\ Entering(p)
    /\ review.status # "completed"
    /\ \E g \in [Candidate -> Verdict] :
          /\ IF p \in Worker /\ Planned(plan[p]) # {} THEN g = plan[p] /\ SuppliesPlan(p, g)
             ELSE ListsPending(g) \/ (p \in Agent /\ SuppliesPlan(p, g))
          /\ plan' = [plan EXCEPT ![p] = g]
          \* with no point planned, the listed candidates will be rejected
          /\ todo' = [todo EXCEPT ![p] = IF Planned(g) = {} THEN Pending ELSE Planned(g)]
    /\ Moves(p, IF p \in Agent THEN "listed" ELSE "leased")
    /\ UNCHANGED <<review, draft, truth, seen, strayed>>

ClaimInteractive(a) ==
    /\ at[a] = "listed"
    /\ IF Claimable
       THEN /\ review' = [review EXCEPT !.owner = a, !.lease = "live"]
            /\ Moves(a, "leased")
            /\ UNCHANGED <<plan, todo>>
       ELSE Leaves(a) /\ UNCHANGED review
    /\ UNCHANGED <<draft, truth, seen, strayed>>

\* A failed call: an agent gives back the lease it has claimed, a worker goes
\* to its exception handler.
Fail(p) ==
    IF p \in Worker
    THEN /\ Moves(p, "failing")
         /\ plan' = [plan EXCEPT ![p] = NoPlan]
         /\ todo' = [todo EXCEPT ![p] = {}]
         /\ UNCHANGED review
    ELSE /\ Leaves(p)
         /\ review' = IF review.owner = p THEN [review EXCEPT !.owner = Nobody] ELSE review

ReviewFails(p) ==
    /\ at[p] \in {"claimed", "drafted", "saving", "planned", "leased", "committing"}
    /\ Fail(p)
    /\ seen' = [seen EXCEPT ![p] = [c \in Candidate |-> "none"]]
    /\ UNCHANGED <<draft, truth, strayed>>

\* _trusted_assimilation_preflight: the lease is checked and renewed.
PassesAnyOwner(p) == review.status = "reviewing" /\ review.lease = "live"  \* mutant
Passes(p) == OwnsLive(p)

Preflight(p) ==
    /\ at[p] = "leased"
    /\ Planned(plan[p]) # {}
    /\ IF Passes(p) THEN Moves(p, "committing") /\ UNCHANGED <<review, plan, todo>> ELSE Fail(p)
    /\ UNCHANGED <<draft, truth, seen, strayed>>

\* record_assimilation_result: knowledge is committed first ...
CommitPoint(p) ==
    /\ at[p] = "committing"
    /\ \E c \in todo[p] :
          /\ plan[p][c] = "add" /\ draft[c] # "none"
          /\ truth' = truth \cup {c}
    /\ UNCHANGED <<review, draft, at, plan, seen, todo, strayed>>

\* ... and then the candidate is saved as done.
SavePoint(p) ==
    /\ at[p] = "committing"
    /\ \E c \in todo[p] :
          /\ plan[p][c] = "add" => c \in truth
          /\ draft[c] # "none"
          /\ draft' = [draft EXCEPT ![c] = IF plan[p][c] = "add" THEN "assimilated" ELSE "rejected"]
          /\ todo' = [todo EXCEPT ![p] = @ \ {c}]
          /\ Moves(p, IF todo[p] = {c} THEN "applied" ELSE "committing")
    /\ UNCHANGED <<review, truth, plan, seen, strayed>>

\* _settle_distill_candidates: a review that admits nothing rejects what was
\* listed and is still pending.  No preflight guards it.
Settle(p) ==
    /\ at[p] = "leased"
    /\ Planned(plan[p]) = {}
    /\ draft' = [c \in Candidate |->
                    IF c \in todo[p] /\ draft[c] = "pending" THEN "rejected" ELSE draft[c]]
    /\ todo' = [todo EXCEPT ![p] = {}]
    /\ Moves(p, "settled")
    /\ UNCHANGED <<review, truth, plan, seen, strayed>>

AlsoUnapplied(p) == at[p] \in {"committing", "applied", "settled"}  \* mutant: completed first, then applied
HasApplied(p) == at[p] \in {"applied", "settled"}

\* finalize_distill_job: a job that somebody else has completed is returned
\* as it is, and the caller goes on as if it had completed it.
Finalize(p) ==
    /\ HasApplied(p)
    /\ IF review.status = "completed"
       THEN Moves(p, "completed") /\ UNCHANGED <<review, plan, todo>>
       ELSE IF review.owner = p /\ review.lease = "live"
       THEN /\ review' = [review EXCEPT !.status = "completed", !.owner = Nobody,
                                        !.plan = plan[p]]
            /\ Moves(p, "completed")
            /\ UNCHANGED <<plan, todo>>
       ELSE Fail(p)
    /\ UNCHANGED <<draft, truth, seen, strayed>>

-----------------------------------------------------------------------------
\* Recovery applies the stored plan again, without a lease; it raises when a
\* candidate is gone.
Recover(p) ==
    /\ at[p] = "recovering"
    /\ IF \A c \in Planned(plan[p]) : draft[c] # "none"
       THEN /\ truth' = truth \cup Adds(plan[p])
            /\ draft' = [c \in Candidate |->
                            CASE plan[p][c] = "add" -> "assimilated"
                              [] plan[p][c] = "reject" -> "rejected"
                              [] OTHER -> draft[c]]
            /\ Moves(p, "completed")
            /\ UNCHANGED <<plan, todo>>
       ELSE Leaves(p) /\ UNCHANGED <<truth, draft>>
    /\ UNCHANGED <<review, seen, strayed>>

\* record_completion_outcome, before the note and the source's cleanup and
\* again after them, with the summary of the plan the caller applied.
RecordOutcome(p) ==
    /\ at[p] \in {"completed", "recorded"}
    /\ review' = [review EXCEPT !.outcome = OutcomeOf(plan[p])]
    /\ Moves(p, IF at[p] = "completed" THEN "recorded" ELSE "clearing")
    /\ UNCHANGED <<draft, truth, plan, seen, todo, strayed>>

\* cleanup_job removes the finished candidates.
ClearWorkspace(p) ==
    /\ at[p] = "clearing"
    /\ draft' = [c \in Candidate |->
                    IF draft[c] \in {"assimilated", "rejected"} THEN "none" ELSE draft[c]]
    /\ Leaves(p)
    /\ UNCHANGED <<review, truth, seen, strayed>>

-----------------------------------------------------------------------------
\* The worker's exception handler reads the job, and defers it in a second
\* transaction that looks neither at the owner nor at the lease.
CheckLease(w) ==
    /\ at[w] = "failing"
    /\ Moves(w, IF review.owner = w THEN "deferring" ELSE "idle")
    /\ UNCHANGED <<review, draft, truth, plan, seen, todo, strayed>>

\* SessionDistillStore.defer: a review that commits is not asked.
Release ==
    IF review.status \in {"completed", "failed"}
    THEN UNCHANGED <<review, strayed>>
    ELSE /\ review' = [review EXCEPT !.status = "retryable", !.owner = Nobody]
         /\ strayed' = IF Quiet THEN strayed ELSE "yes"

DeferReview(w) ==
    /\ at[w] = "deferring"
    /\ Release
    /\ Moves(w, "idle")
    /\ UNCHANGED <<draft, truth, plan, seen, todo>>

\* prepare_session_distill(defer_job_id): any agent may name the job, at any
\* moment.
DeferOnRequest ==
    /\ Release
    /\ UNCHANGED <<draft, truth, at, plan, seen, todo>>

\* A reconciliation after the backoff brings the job back to its review.
Resume ==
    /\ Quiet
    /\ review.status = "retryable"
    /\ review' = [review EXCEPT !.status = "reviewing"]
    /\ strayed' = "no"
    /\ UNCHANGED <<draft, truth, at, plan, seen, todo>>

LeaseRunsOut ==
    /\ Quiet
    /\ review.lease = "live" /\ review.owner # Nobody
    /\ review' = [review EXCEPT !.lease = "over"]
    /\ UNCHANGED <<draft, truth, at, plan, seen, todo, strayed>>

Crash(p) ==
    /\ at[p] # "idle"
    /\ Leaves(p)
    /\ review' = IF review.owner = p THEN [review EXCEPT !.owner = Departed] ELSE review
    /\ seen' = [seen EXCEPT ![p] = [c \in Candidate |-> "none"]]
    /\ UNCHANGED <<draft, truth, strayed>>

ReviewNext ==
    \/ \E w \in Worker : \/ Claim(w) \/ Draft(w) \/ ReadDrafts(w) \/ SaveDrafts(w)
                         \/ CheckLease(w) \/ DeferReview(w)
    \/ \E a \in Agent : Stage(a) \/ ClaimInteractive(a)
    \/ \E p \in Reviewer : \/ ClaimFails(p) \/ EnterCompleted(p) \/ Enter(p) \/ ReviewFails(p)
                           \/ Preflight(p) \/ CommitPoint(p) \/ SavePoint(p) \/ Settle(p)
                           \/ Finalize(p) \/ Recover(p) \/ RecordOutcome(p)
                           \/ ClearWorkspace(p) \/ Crash(p)
    \/ DeferOnRequest \/ Resume \/ LeaseRunsOut

ReviewSpec == ReviewInit /\ [][ReviewNext]_reviewVars

-----------------------------------------------------------------------------
\* The commit claim: of two reviews, whatever leases ran out, were taken over
\* or deferred by somebody else, at most one is between its preflight and its
\* finalize (_trusted_assimilation_preflight).
OneCommitter ==
    \A p, q \in Reviewer : Committing(p) /\ Committing(q) => p = q

\* A completed job never claims knowledge that is not there, and as long as
\* its outcome is not recorded the candidates that recovery needs still exist
\* (finalize only after apply, cleanup_job only after the outcome).
CompletionIsBacked ==
    review.status = "completed" =>
        /\ Adds(review.plan) \subseteq truth
        /\ review.outcome = "none" =>
              \A c \in Planned(review.plan) : draft[c] # "none"

\* Knowledge is written by the owner of the review, or by the recovery of a
\* completed one.  The one exception is a review that was deferred between its
\* preflight and its write, by an agent's defer_job_id or by a failing worker
\* that had lost the lease between its two transactions: it writes what the
\* preflight let it write, to a job that waits and that nobody else reviews.
WritesAreOwned ==
    [][truth' # truth =>
          \/ \E p \in Reviewer :
                /\ Committing(p)
                /\ OwnsLive(p) \/ (review.status = "retryable" /\ strayed = "yes")
          \/ review.status = "completed" /\ truth' \ truth \subseteq Adds(review.plan)]_reviewVars

\* The outcome of a completed job is that of the review it was completed with.
OutcomeMatchesReview ==
    review.outcome \in {"none", OutcomeOf(review.plan)}
=============================================================================
