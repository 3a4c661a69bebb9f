------------------------- MODULE SessionReviewProofs -------------------------
(* The review of one job, for any number of workers, agents and candidates, and *)
(* the planning of its points, for any candidates, truths, batches and answers. *)
EXTENDS SessionReview, AssimilationPlan, FiniteSetTheorems, WellFoundedInduction, TLAPS

Record == [status : {"reviewing", "retryable", "failed", "completed"},
           owner : Reviewer \cup {Nobody, Departed}, lease : {"live", "over"},
           plan : [Candidate -> Verdict], outcome : {"none", "promoted", "nothing"}]

\* Who commits holds the review, unless a stranger deferred it: then nobody does.
CommitterOwns ==
    \A p \in Reviewer :
        Committing(p) => OwnsLive(p) \/ (review.status = "retryable" /\ strayed = "yes")

\* What is done after the completion finds the job completed.
AfterCompletion(p) ==
    /\ at[p] \in {"recovering", "completed", "recorded", "clearing"} => review.status = "completed"
    /\ at[p] = "recovering" => plan[p] = review.plan
    /\ at[p] \in {"recorded", "clearing"} => review.outcome # "none"

\* The candidates of a plan exist for as long as somebody may need them.
PlanIsHeld(p) ==
    review.outcome = "none" =>
        \A c \in Planned(plan[p]) :
            /\ at[p] \in {"drafted", "listed", "leased", "committing", "applied", "settled"}
                  => draft[c] # "none"
            /\ at[p] = "saving" => seen[p][c] # "none"

\* What the plan adds has been committed or is still to be.
PlanIsApplied(p) ==
    /\ at[p] \in {"listed", "leased", "committing"} /\ Planned(plan[p]) # {}
          => Adds(plan[p]) \subseteq truth \cup todo[p]
    /\ at[p] = "applied" => Adds(plan[p]) \subseteq truth
    /\ at[p] = "settled" => Planned(plan[p]) = {}

\* Only a job under review has an owner, and only a completed one an outcome.
OwnedIsReviewing ==
    /\ review.owner # Nobody => review.status = "reviewing"
    /\ review.outcome # "none" => review.status = "completed"

ReviewInv ==
    /\ ReviewTypeOK
    /\ OwnedIsReviewing
    /\ OneCommitter
    /\ CommitterOwns
    /\ \A p \in Reviewer : AfterCompletion(p) /\ PlanIsHeld(p) /\ PlanIsApplied(p)
    /\ CompletionIsBacked
-----------------------------------------------------------------------------
(* The helpers: what they set, and for whom.                                    *)
Place == {"idle", "claimed", "drafted", "saving", "planned", "listed", "leased", "committing",
          "applied", "settled", "completed", "recovering", "recorded", "clearing", "failing",
          "deferring"}

\* A reviewer that goes on leaves the others where they stand.
LEMMA MovesSets ==
  ASSUME ReviewTypeOK, NEW p \in Reviewer, NEW s \in Place, Moves(p, s)
  PROVE  /\ at' \in [Reviewer -> Place] /\ at'[p] = s
         /\ \A q \in Reviewer \ {p} : at'[q] = at[q]
  BY DEF ReviewTypeOK, Moves, Place

\* A reviewer that leaves drops its own plan and its own work, and nobody
\* else's.
LEMMA LeavesSets ==
  ASSUME ReviewTypeOK, NEW p \in Reviewer, Leaves(p)
  PROVE  /\ at' \in [Reviewer -> Place] /\ at'[p] = "idle"
         /\ plan' \in [Reviewer -> [Candidate -> Verdict]] /\ plan'[p] = NoPlan
         /\ todo' \in [Reviewer -> SUBSET Candidate] /\ todo'[p] = {}
         /\ \A q \in Reviewer \ {p} : at'[q] = at[q] /\ plan'[q] = plan[q] /\ todo'[q] = todo[q]
  BY DEF ReviewTypeOK, Leaves, Moves, NoPlan, Verdict, Place

(* A record that differs in the fields it is changed in. *)
LEMMA OwnerChanges ==
  ASSUME review \in Record, NEW o \in Reviewer \cup {Nobody, Departed},
         review' = [review EXCEPT !.owner = o]
  PROVE  /\ review' \in Record
         /\ review'.status = review.status /\ review'.owner = o /\ review'.lease = review.lease
         /\ review'.plan = review.plan /\ review'.outcome = review.outcome
  BY DEF Record

\* A claim, a renewal or an expiry writes owner and lease of the record and
\* nothing else.
LEMMA LeaseChanges ==
  ASSUME review \in Record, NEW o \in Reviewer \cup {Nobody, Departed}, NEW l \in {"live", "over"},
         review' = [review EXCEPT !.owner = o, !.lease = l]
  PROVE  /\ review' \in Record
         /\ review'.status = review.status /\ review'.owner = o /\ review'.lease = l
         /\ review'.plan = review.plan /\ review'.outcome = review.outcome
  BY DEF Record

\* Deferral, failure and requeueing write the status and release the lease.
LEMMA StatusChanges ==
  ASSUME review \in Record, NEW s \in {"reviewing", "retryable", "failed", "completed"},
         review' = [review EXCEPT !.status = s, !.owner = Nobody]
  PROVE  /\ review' \in Record
         /\ review'.status = s /\ review'.owner = Nobody /\ review'.lease = review.lease
         /\ review'.plan = review.plan /\ review'.outcome = review.outcome
  BY DEF Record

\* The completion stores the plan with the status and releases the lease.
LEMMA PlanChanges ==
  ASSUME review \in Record, NEW g \in [Candidate -> Verdict],
         review' = [review EXCEPT !.status = "completed", !.owner = Nobody, !.plan = g]
  PROVE  /\ review' \in Record
         /\ review'.status = "completed" /\ review'.owner = Nobody /\ review'.lease = review.lease
         /\ review'.plan = g /\ review'.outcome = review.outcome
  BY DEF Record

\* A reviewer that fails drops its plan, and releases the lease only where it
\* has it.
LEMMA FailSets ==
  ASSUME ReviewTypeOK, NEW p \in Reviewer, Fail(p)
  PROVE  /\ at' \in [Reviewer -> Place] /\ at'[p] \in {"failing", "idle"}
         /\ plan' \in [Reviewer -> [Candidate -> Verdict]] /\ plan'[p] = NoPlan
         /\ todo' \in [Reviewer -> SUBSET Candidate] /\ todo'[p] = {}
         /\ \A q \in Reviewer \ {p} : at'[q] = at[q] /\ plan'[q] = plan[q] /\ todo'[q] = todo[q]
         /\ \/ review' = review
            \/ review.owner = p /\ review' = [review EXCEPT !.owner = Nobody]
  <1>1. CASE p \in Worker
    <2>1. /\ at' = [at EXCEPT ![p] = "failing"]
          /\ plan' = [plan EXCEPT ![p] = NoPlan]
          /\ todo' = [todo EXCEPT ![p] = {}]
          /\ review' = review
      BY <1>1 DEF Fail, Moves
    <2>2. NoPlan \in [Candidate -> Verdict]
      BY DEF NoPlan, Verdict
    <2> QED
      BY <2>1, <2>2 DEF ReviewTypeOK, Place
  <1>2. CASE p \notin Worker
    BY <1>2, LeavesSets DEF Fail
  <1> QED
    BY <1>1, <1>2

-----------------------------------------------------------------------------
(* What becomes of the review record in a step, and who does it.                *)
SameReview == review' = review
TakenBy(p) ==
    /\ Claimable /\ (Claim(p) \/ ClaimInteractive(p))
    /\ review' = [review EXCEPT !.owner = p, !.lease = "live"]
FailedByClaim(p) ==
    /\ review.status = "reviewing" /\ review.lease = "over" /\ ClaimFails(p)
    /\ review' = [review EXCEPT !.status = "failed", !.owner = Nobody]
GivenUp(p, o) ==
    /\ review.owner = p /\ ~Committing(p)'
    /\ review' = [review EXCEPT !.owner = o]
CompletedBy(p) ==
    /\ Finalize(p) /\ HasApplied(p)
    /\ review.status # "completed" /\ review.owner = p /\ review.lease = "live"
    /\ review' = [review EXCEPT !.status = "completed", !.owner = Nobody, !.plan = plan[p]]
NotedBy(p) ==
    /\ at[p] \in {"completed", "recorded"} /\ RecordOutcome(p)
    /\ \E u \in {"promoted", "nothing"} : review' = [review EXCEPT !.outcome = u]
Deferred ==
    /\ review.status \in {"reviewing", "retryable"} /\ Release
    /\ review' = [review EXCEPT !.status = "retryable", !.owner = Nobody]
WhileQuiet ==
    /\ Quiet
    /\ \/ review.status = "retryable" /\ review' = [review EXCEPT !.status = "reviewing"]
       \/ review' = [review EXCEPT !.lease = "over"]

ReviewStep ==
    \/ SameReview
    \/ \E p \in Reviewer : \/ TakenBy(p) \/ FailedByClaim(p) \/ CompletedBy(p) \/ NotedBy(p)
                           \/ \E o \in {Nobody, Departed} : GivenUp(p, o)
    \/ Deferred \/ WhileQuiet

\* Every step rewrites the shared record in one of the named ways.
LEMMA ReviewMoves == ReviewTypeOK /\ [ReviewNext]_reviewVars => ReviewStep
  <1> SUFFICES ASSUME ReviewTypeOK, [ReviewNext]_reviewVars PROVE ReviewStep
    OBVIOUS
  <1>1. ASSUME NEW p \in Worker, Claim(p) PROVE ReviewStep
    BY <1>1 DEF Claim, ReviewStep, TakenBy, Reviewer
  <1>2. ASSUME NEW p \in Worker, Draft(p) PROVE ReviewStep
    BY <1>2 DEF Draft, ReviewStep, SameReview
  <1>3. ASSUME NEW p \in Worker, ReadDrafts(p) PROVE ReviewStep
    BY <1>3 DEF ReadDrafts, ReviewStep, SameReview
  <1>4. ASSUME NEW p \in Worker, SaveDrafts(p) PROVE ReviewStep
    BY <1>4 DEF SaveDrafts, ReviewStep, SameReview
  <1>5. ASSUME NEW p \in Worker, CheckLease(p) PROVE ReviewStep
    BY <1>5 DEF CheckLease, ReviewStep, SameReview
  <1>6. ASSUME NEW p \in Worker, DeferReview(p) PROVE ReviewStep
    BY <1>6 DEF DeferReview, Release, ReviewStep, Deferred, SameReview, ReviewTypeOK
  <1>7. ASSUME NEW p \in Agent, Stage(p) PROVE ReviewStep
    BY <1>7 DEF Stage, ReviewStep, SameReview
  <1>8. ASSUME NEW p \in Agent, ClaimInteractive(p) PROVE ReviewStep
    BY <1>8 DEF ClaimInteractive, ReviewStep, TakenBy, SameReview, Reviewer
  <1>9. ASSUME NEW p \in Reviewer, ClaimFails(p) PROVE ReviewStep
    BY <1>9 DEF ClaimFails, ReviewStep, FailedByClaim
  <1>10. ASSUME NEW p \in Reviewer, EnterCompleted(p) PROVE ReviewStep
    BY <1>10 DEF EnterCompleted, ReviewStep, SameReview
  <1>11. ASSUME NEW p \in Reviewer, Enter(p) PROVE ReviewStep
    BY <1>11 DEF Enter, ReviewStep, SameReview
  <1>12. ASSUME NEW p \in Reviewer, ReviewFails(p) PROVE ReviewStep
    BY <1>12, FailSets DEF ReviewFails, ReviewStep, GivenUp, SameReview, Committing
  <1>13. ASSUME NEW p \in Reviewer, Preflight(p) PROVE ReviewStep
    BY <1>13, FailSets DEF Preflight, ReviewStep, GivenUp, SameReview, Committing
  <1>14. ASSUME NEW p \in Reviewer, CommitPoint(p) PROVE ReviewStep
    BY <1>14 DEF CommitPoint, ReviewStep, SameReview
  <1>15. ASSUME NEW p \in Reviewer, SavePoint(p) PROVE ReviewStep
    BY <1>15 DEF SavePoint, ReviewStep, SameReview
  <1>16. ASSUME NEW p \in Reviewer, Settle(p) PROVE ReviewStep
    BY <1>16 DEF Settle, ReviewStep, SameReview
  <1>17. ASSUME NEW p \in Reviewer, Finalize(p) PROVE ReviewStep
    <2>1. CASE Fail(p)
      BY <2>1, FailSets DEF ReviewStep, GivenUp, SameReview, Committing
    <2>2. CASE ~Fail(p)
      <3>1. SameReview \/ CompletedBy(p)
        BY <1>17, <2>2 DEF Finalize, SameReview, CompletedBy
      <3> QED
        BY <3>1 DEF ReviewStep
    <2> QED
      BY <2>1, <2>2
  <1>18. ASSUME NEW p \in Reviewer, Recover(p) PROVE ReviewStep
    BY <1>18 DEF Recover, ReviewStep, SameReview
  <1>19. ASSUME NEW p \in Reviewer, RecordOutcome(p) PROVE ReviewStep
    BY <1>19 DEF RecordOutcome, ReviewStep, NotedBy, OutcomeOf
  <1>20. ASSUME NEW p \in Reviewer, ClearWorkspace(p) PROVE ReviewStep
    BY <1>20 DEF ClearWorkspace, ReviewStep, SameReview
  <1>21. ASSUME NEW p \in Reviewer, Crash(p) PROVE ReviewStep
    BY <1>21, LeavesSets DEF Crash, ReviewStep, GivenUp, SameReview, Committing
  <1>22. CASE Resume
    BY <1>22 DEF Resume, ReviewStep, WhileQuiet
  <1>23. CASE LeaseRunsOut
    BY <1>23 DEF LeaseRunsOut, ReviewStep, WhileQuiet
  <1>24. CASE UNCHANGED reviewVars
    BY <1>24 DEF reviewVars, ReviewStep, SameReview
  <1>25. CASE DeferOnRequest
    BY <1>25 DEF DeferOnRequest, Release, ReviewStep, Deferred, SameReview, ReviewTypeOK
  <1> QED
    BY <1>1, <1>2, <1>3, <1>4, <1>5, <1>6, <1>7, <1>8, <1>9, <1>10, <1>11, <1>12,
       <1>13, <1>14, <1>15, <1>16, <1>17, <1>18, <1>19, <1>20, <1>21, <1>22, <1>23, <1>24, <1>25
    DEF ReviewNext, Reviewer

(* A step keeps the record a record of the right shape.                          *)
LEMMA RecordKept == ReviewTypeOK /\ [ReviewNext]_reviewVars => review' \in Record
  <1> SUFFICES ASSUME ReviewTypeOK, [ReviewNext]_reviewVars PROVE review' \in Record
    OBVIOUS
  <1>1. review \in Record
    BY DEF ReviewTypeOK, Record
  <1>2. ASSUME NEW p \in Reviewer, TakenBy(p) PROVE review' \in Record
    BY <1>1, <1>2, LeaseChanges DEF TakenBy
  <1>3. (\E p \in Reviewer : FailedByClaim(p)) \/ Deferred => review' \in Record
    BY <1>1, StatusChanges DEF FailedByClaim, Deferred
  <1>4. ASSUME NEW p \in Reviewer, CompletedBy(p) PROVE review' \in Record
    BY <1>1, <1>4, PlanChanges DEF CompletedBy, ReviewTypeOK
  <1>5. ASSUME NEW p \in Reviewer, NotedBy(p) PROVE review' \in Record
    BY <1>1, <1>5 DEF NotedBy, Record
  <1>6. ASSUME NEW p \in Reviewer, NEW o \in {Nobody, Departed}, GivenUp(p, o)
        PROVE  review' \in Record
    BY <1>1, <1>6, OwnerChanges DEF GivenUp
  <1>7. WhileQuiet => review' \in Record
    BY <1>1 DEF WhileQuiet, Record
  <1> QED
    BY <1>1, <1>2, <1>3, <1>4, <1>5, <1>6, <1>7, ReviewMoves DEF ReviewStep, SameReview

(* Types are kept. *)
LEMMA ReviewTypeKept == ReviewTypeOK /\ [ReviewNext]_reviewVars => ReviewTypeOK'
  <1> SUFFICES ASSUME ReviewTypeOK, [ReviewNext]_reviewVars PROVE ReviewTypeOK'
    OBVIOUS
  <1> DEFINE PlacesOK == at \in [Reviewer -> Place]
             HeldOK == /\ plan \in [Reviewer -> [Candidate -> Verdict]]
                       /\ seen \in [Reviewer -> [Candidate -> Statuses]]
                       /\ todo \in [Reviewer -> SUBSET Candidate]
             StoredOK == /\ draft \in [Candidate -> Statuses]
                         /\ truth \subseteq Candidate
                         /\ strayed \in {"no", "yes"}
             Parts == PlacesOK /\ HeldOK /\ StoredOK
  <1>a. Parts /\ review \in Record
    BY DEF ReviewTypeOK, Place, Record
  <1>b. SUFFICES Parts'
    BY RecordKept DEF ReviewTypeOK, Place, Record
  <1> HIDE DEF Parts
  <1>1. ASSUME NEW p \in Worker, Claim(p) PROVE Parts'
    <2>1. PlacesOK'
      BY <1>1, <1>a, MovesSets DEF Parts, Claim, Place, Reviewer
    <2>2. HeldOK'
      BY <1>1, <1>a, MovesSets DEF Parts, Claim, Verdict, Statuses, Reviewer
    <2>3. StoredOK'
      BY <1>1, <1>a DEF Parts, Claim, Statuses, Reviewer
    <2> QED
      BY <2>1, <2>2, <2>3 DEF Parts
  <1>2. ASSUME NEW p \in Worker, Draft(p) PROVE Parts'
    <2>1. PlacesOK'
      BY <1>2, <1>a, MovesSets DEF Parts, Draft, Place, Reviewer
    <2>2. HeldOK'
      BY <1>2, <1>a, MovesSets DEF Parts, Draft, Verdict, Statuses, Reviewer
    <2>3. StoredOK'
      BY <1>2, <1>a DEF Parts, Draft, Statuses, Reviewer
    <2> QED
      BY <2>1, <2>2, <2>3 DEF Parts
  <1>3. ASSUME NEW p \in Worker, ReadDrafts(p) PROVE Parts'
    <2>1. PlacesOK'
      BY <1>3, <1>a, MovesSets DEF Parts, ReadDrafts, Place, Reviewer
    <2>2. HeldOK'
      BY <1>3, <1>a, MovesSets DEF Parts, ReadDrafts, Verdict, Statuses, Reviewer
    <2>3. StoredOK'
      BY <1>3, <1>a DEF Parts, ReadDrafts, Statuses, Reviewer
    <2> QED
      BY <2>1, <2>2, <2>3 DEF Parts
  <1>4. ASSUME NEW p \in Worker, SaveDrafts(p) PROVE Parts'
    <2>1. PlacesOK'
      BY <1>4, <1>a, MovesSets DEF Parts, SaveDrafts, Place, Reviewer
    <2>2. HeldOK'
      BY <1>4, <1>a, MovesSets DEF Parts, SaveDrafts, Verdict, Statuses, Reviewer
    <2>3. StoredOK'
      BY <1>4, <1>a DEF Parts, SaveDrafts, Statuses, Reviewer
    <2> QED
      BY <2>1, <2>2, <2>3 DEF Parts
  <1>5. ASSUME NEW p \in Worker, CheckLease(p) PROVE Parts'
    <2>1. PlacesOK'
      BY <1>5, <1>a, MovesSets DEF Parts, CheckLease, Place, Reviewer
    <2>2. HeldOK'
      BY <1>5, <1>a, MovesSets DEF Parts, CheckLease, Verdict, Statuses, Reviewer
    <2>3. StoredOK'
      BY <1>5, <1>a DEF Parts, CheckLease, Statuses, Reviewer
    <2> QED
      BY <2>1, <2>2, <2>3 DEF Parts
  <1>6. ASSUME NEW p \in Worker, DeferReview(p) PROVE Parts'
    <2>1. PlacesOK'
      BY <1>6, <1>a, MovesSets DEF Parts, DeferReview, Place, Reviewer
    <2>2. HeldOK'
      BY <1>6, <1>a, MovesSets DEF Parts, DeferReview, Verdict, Statuses, Reviewer
    <2>3. StoredOK'
      BY <1>6, <1>a DEF Parts, DeferReview, Release, Statuses, Reviewer
    <2> QED
      BY <2>1, <2>2, <2>3 DEF Parts
  <1>7. ASSUME NEW p \in Agent, Stage(p) PROVE Parts'
    <2>1. PlacesOK'
      BY <1>7, <1>a DEF Parts, Stage, Reviewer
    <2>2. HeldOK'
      BY <1>7, <1>a DEF Parts, Stage, Reviewer
    <2>3. StoredOK'
      BY <1>7, <1>a DEF Parts, Stage, Statuses, Reviewer
    <2> QED
      BY <2>1, <2>2, <2>3 DEF Parts
  <1>8. ASSUME NEW p \in Agent, ClaimInteractive(p) PROVE Parts'
    <2>1. PlacesOK'
      BY <1>8, <1>a, MovesSets, LeavesSets DEF Parts, ClaimInteractive, Place, Reviewer
    <2>2. HeldOK'
      BY <1>8, <1>a, MovesSets, LeavesSets DEF Parts, ClaimInteractive, Verdict, Statuses,
         Reviewer
    <2>3. StoredOK'
      BY <1>8, <1>a DEF Parts, ClaimInteractive, Statuses, Reviewer
    <2> QED
      BY <2>1, <2>2, <2>3 DEF Parts
  <1>9. ASSUME NEW p \in Reviewer, ClaimFails(p) PROVE Parts'
    <2>1. PlacesOK'
      BY <1>9, <1>a, LeavesSets DEF Parts, ClaimFails, Place
    <2>2. HeldOK'
      BY <1>9, <1>a, LeavesSets DEF Parts, ClaimFails, Verdict, Statuses
    <2>3. StoredOK'
      BY <1>9, <1>a DEF Parts, ClaimFails, Statuses
    <2> QED
      BY <2>1, <2>2, <2>3 DEF Parts
  <1>10. ASSUME NEW p \in Reviewer, EnterCompleted(p) PROVE Parts'
    <2>1. PlacesOK'
      BY <1>10, <1>a, MovesSets DEF Parts, EnterCompleted, Place
    <2>2. HeldOK'
      <3>1. review.plan \in [Candidate -> Verdict]
        BY <1>a DEF Record
      <3> QED
        BY <1>10, <1>a, <3>1 DEF Parts, EnterCompleted
    <2>3. StoredOK'
      BY <1>10, <1>a DEF Parts, EnterCompleted, Statuses
    <2> QED
      BY <2>1, <2>2, <2>3 DEF Parts
  <1>11. ASSUME NEW p \in Reviewer, Enter(p) PROVE Parts'
    <2>1. PlacesOK'
      BY <1>11, <1>a, MovesSets DEF Parts, Enter, Place
    <2>2. HeldOK'
      <3>1. \A g \in [Candidate -> Verdict] : Planned(g) \subseteq Candidate /\ Pending \subseteq Candidate
        BY DEF Planned, Pending
      <3> QED
        BY <1>11, <1>a, <3>1 DEF Parts, Enter
    <2>3. StoredOK'
      BY <1>11, <1>a DEF Parts, Enter, Statuses
    <2> QED
      BY <2>1, <2>2, <2>3 DEF Parts
  <1>12. ASSUME NEW p \in Reviewer, ReviewFails(p) PROVE Parts'
    <2>1. PlacesOK'
      BY <1>12, <1>a, FailSets DEF Parts, ReviewFails, Place
    <2>2. HeldOK'
      BY <1>12, <1>a, FailSets DEF Parts, ReviewFails, Verdict, Statuses
    <2>3. StoredOK'
      BY <1>12, <1>a DEF Parts, ReviewFails, Statuses
    <2> QED
      BY <2>1, <2>2, <2>3 DEF Parts
  <1>13. ASSUME NEW p \in Reviewer, Preflight(p) PROVE Parts'
    <2>1. PlacesOK'
      BY <1>13, <1>a, MovesSets, FailSets DEF Parts, Preflight, Place
    <2>2. HeldOK'
      BY <1>13, <1>a, MovesSets, FailSets DEF Parts, Preflight, Verdict, Statuses
    <2>3. StoredOK'
      BY <1>13, <1>a DEF Parts, Preflight, Statuses
    <2> QED
      BY <2>1, <2>2, <2>3 DEF Parts
  <1>14. ASSUME NEW p \in Reviewer, CommitPoint(p) PROVE Parts'
    <2>1. PlacesOK'
      BY <1>14, <1>a DEF Parts, CommitPoint
    <2>2. HeldOK'
      BY <1>14, <1>a DEF Parts, CommitPoint
    <2>3. StoredOK'
      BY <1>14, <1>a DEF Parts, CommitPoint, Statuses
    <2> QED
      BY <2>1, <2>2, <2>3 DEF Parts
  <1>15. ASSUME NEW p \in Reviewer, SavePoint(p) PROVE Parts'
    <2>1. PlacesOK'
      BY <1>15, <1>a, MovesSets DEF Parts, SavePoint, Place
    <2>2. HeldOK'
      BY <1>15, <1>a, MovesSets DEF Parts, SavePoint, Verdict, Statuses
    <2>3. StoredOK'
      BY <1>15, <1>a DEF Parts, SavePoint, Statuses
    <2> QED
      BY <2>1, <2>2, <2>3 DEF Parts
  <1>16. ASSUME NEW p \in Reviewer, Settle(p) PROVE Parts'
    <2>1. PlacesOK'
      BY <1>16, <1>a, MovesSets DEF Parts, Settle, Place
    <2>2. HeldOK'
      BY <1>16, <1>a, MovesSets DEF Parts, Settle, Verdict, Statuses
    <2>3. StoredOK'
      BY <1>16, <1>a DEF Parts, Settle, Statuses
    <2> QED
      BY <2>1, <2>2, <2>3 DEF Parts
  <1>17. ASSUME NEW p \in Reviewer, Finalize(p) PROVE Parts'
    <2>1. PlacesOK'
      BY <1>17, <1>a, MovesSets, FailSets DEF Parts, Finalize, Place
    <2>2. HeldOK'
      BY <1>17, <1>a, MovesSets, FailSets DEF Parts, Finalize, Verdict, Statuses
    <2>3. StoredOK'
      BY <1>17, <1>a DEF Parts, Finalize, Statuses
    <2> QED
      BY <2>1, <2>2, <2>3 DEF Parts
  <1>18. ASSUME NEW p \in Reviewer, Recover(p) PROVE Parts'
    <2>1. PlacesOK'
      BY <1>18, <1>a, MovesSets, LeavesSets DEF Parts, Recover, Place
    <2>2. HeldOK'
      BY <1>18, <1>a, MovesSets, LeavesSets DEF Parts, Recover, Verdict, Statuses
    <2>3. StoredOK'
      BY <1>18, <1>a DEF Parts, Recover, Statuses, Adds, Verdict
    <2> QED
      BY <2>1, <2>2, <2>3 DEF Parts
  <1>19. ASSUME NEW p \in Reviewer, RecordOutcome(p) PROVE Parts'
    <2>1. PlacesOK'
      BY <1>19, <1>a, MovesSets DEF Parts, RecordOutcome, Place
    <2>2. HeldOK'
      BY <1>19, <1>a, MovesSets DEF Parts, RecordOutcome, Verdict, Statuses
    <2>3. StoredOK'
      BY <1>19, <1>a DEF Parts, RecordOutcome, Statuses
    <2> QED
      BY <2>1, <2>2, <2>3 DEF Parts
  <1>20. ASSUME NEW p \in Reviewer, ClearWorkspace(p) PROVE Parts'
    <2>1. PlacesOK'
      BY <1>20, <1>a, LeavesSets DEF Parts, ClearWorkspace, Place
    <2>2. HeldOK'
      BY <1>20, <1>a, LeavesSets DEF Parts, ClearWorkspace, Verdict, Statuses
    <2>3. StoredOK'
      BY <1>20, <1>a DEF Parts, ClearWorkspace, Statuses
    <2> QED
      BY <2>1, <2>2, <2>3 DEF Parts
  <1>21. ASSUME NEW p \in Reviewer, Crash(p) PROVE Parts'
    <2>1. PlacesOK'
      BY <1>21, <1>a, LeavesSets DEF Parts, Crash, Place
    <2>2. HeldOK'
      BY <1>21, <1>a, LeavesSets DEF Parts, Crash, Verdict, Statuses
    <2>3. StoredOK'
      BY <1>21, <1>a DEF Parts, Crash, Statuses
    <2> QED
      BY <2>1, <2>2, <2>3 DEF Parts
  <1>22. CASE Resume
    <2>1. PlacesOK'
      BY <1>22, <1>a DEF Parts, Resume
    <2>2. HeldOK'
      BY <1>22, <1>a DEF Parts, Resume
    <2>3. StoredOK'
      BY <1>22, <1>a DEF Parts, Resume, Statuses
    <2> QED
      BY <2>1, <2>2, <2>3 DEF Parts
  <1>23. CASE LeaseRunsOut
    <2>1. PlacesOK'
      BY <1>23, <1>a DEF Parts, LeaseRunsOut
    <2>2. HeldOK'
      BY <1>23, <1>a DEF Parts, LeaseRunsOut
    <2>3. StoredOK'
      BY <1>23, <1>a DEF Parts, LeaseRunsOut, Statuses
    <2> QED
      BY <2>1, <2>2, <2>3 DEF Parts
  <1>24. CASE UNCHANGED reviewVars
    BY <1>24, <1>a DEF reviewVars, Parts
  <1>25. CASE DeferOnRequest
    <2>1. PlacesOK' /\ HeldOK'
      BY <1>25, <1>a DEF Parts, DeferOnRequest
    <2>2. StoredOK'
      BY <1>25, <1>a DEF Parts, DeferOnRequest, Release, Statuses
    <2> QED
      BY <2>1, <2>2 DEF Parts
  <1> QED
    BY <1>1, <1>2, <1>3, <1>4, <1>5, <1>6, <1>7, <1>8, <1>9, <1>10, <1>11, <1>12,
       <1>13, <1>14, <1>15, <1>16, <1>17, <1>18, <1>19, <1>20, <1>21, <1>22, <1>23, <1>24, <1>25
    DEF ReviewNext, Reviewer

-----------------------------------------------------------------------------
(* What a step does to one reviewer: the ways to each place where it matters.   *)
Stands(q) ==
    at'[q] = at[q] /\ plan'[q] = plan[q] /\ todo'[q] = todo[q] /\ seen'[q] = seen[q]
Drafts(q) == at'[q] = "drafted" /\ \A c \in Planned(plan'[q]) : draft'[c] # "none"
Reads(q) == /\ at[q] = "drafted" /\ at'[q] = "saving"
            /\ plan'[q] = plan[q] /\ seen'[q] = draft
Enters(q) == /\ at'[q] \in {"listed", "leased"} /\ draft' = draft
             /\ \A c \in Planned(plan'[q]) : draft[c] # "none"
             /\ Planned(plan'[q]) # {} => todo'[q] = Planned(plan'[q])
Leases(q) == at[q] = "listed" /\ at'[q] = "leased" /\ plan'[q] = plan[q] /\ todo'[q] = todo[q]
GoesToCommit(q) == /\ at[q] = "leased" /\ at'[q] = "committing"
                   /\ plan'[q] = plan[q] /\ todo'[q] = todo[q]
                   /\ Planned(plan[q]) # {} /\ OwnsLive(q) /\ review' = review
Saves(q) == /\ at[q] = "committing" /\ at'[q] \in {"committing", "applied"} /\ plan'[q] = plan[q]
            /\ \E c \in todo[q] : /\ plan[q][c] = "add" => c \in truth
                                  /\ todo'[q] = todo[q] \ {c}
                                  /\ at'[q] = "applied" => todo[q] = {c}
Settles(q) == /\ at[q] = "leased" /\ at'[q] = "settled"
              /\ plan'[q] = plan[q] /\ Planned(plan[q]) = {}
Completes(q) == /\ at'[q] = "completed"
                /\ review'.status = "completed" \/ (at[q] = "recovering" /\ review' = review)
Replays(q) == /\ at'[q] \in {"recovering", "clearing"}
              /\ review' = review /\ review.status = "completed"
              /\ at'[q] = "recovering" => plan'[q] = review.plan
              /\ at'[q] = "clearing" => review.outcome # "none"
Records(q) == /\ at[q] \in {"completed", "recorded"} /\ at'[q] \in {"recorded", "clearing"}
              /\ review'.outcome # "none" /\ review'.status = review.status
Rests(q) == at'[q] \in {"idle", "claimed", "planned", "failing", "deferring"}

ReviewerStep(q) ==
    \/ Stands(q) \/ Rests(q)
    \/ Drafts(q) \/ Reads(q) \/ Enters(q) \/ Leases(q) \/ GoesToCommit(q) \/ Saves(q)
    \/ Settles(q) \/ Completes(q) \/ Replays(q) \/ Records(q)

\* Every step moves a reviewer from one place to the next one of the code, or
\* not at all.
LEMMA ReviewerMoves ==
  ReviewTypeOK /\ [ReviewNext]_reviewVars => \A q \in Reviewer : ReviewerStep(q)
  <1> SUFFICES ASSUME ReviewTypeOK, [ReviewNext]_reviewVars, NEW q \in Reviewer
               PROVE  ReviewerStep(q)
    OBVIOUS
  <1>1. ASSUME NEW p \in Worker, Claim(p) PROVE ReviewerStep(q)
    <2>1. CASE q # p
      BY <1>1, <2>1, MovesSets DEF Claim, ReviewerStep, Stands, ReviewTypeOK, Place,
         Reviewer
    <2>2. CASE q = p
      BY <1>1, <2>2, MovesSets DEF Claim, ReviewerStep, Rests, Place, Reviewer
    <2> QED
      BY <2>1, <2>2
  <1>2. ASSUME NEW p \in Worker, Draft(p) PROVE ReviewerStep(q)
    <2>1. CASE q # p
      BY <1>2, <2>1, MovesSets DEF Draft, ReviewerStep, Stands, ReviewTypeOK, Place,
         Reviewer
    <2>2. CASE q = p
      BY <1>2, <2>2, MovesSets DEF Draft, ReviewerStep, Rests, Drafts, ReviewTypeOK,
         Planned, Place, Reviewer
    <2> QED
      BY <2>1, <2>2
  <1>3. ASSUME NEW p \in Worker, ReadDrafts(p) PROVE ReviewerStep(q)
    <2>1. CASE q # p
      BY <1>3, <2>1, MovesSets DEF ReadDrafts, ReviewerStep, Stands, ReviewTypeOK, Place,
         Reviewer
    <2>2. CASE q = p
      BY <1>3, <2>2, MovesSets DEF ReadDrafts, ReviewerStep, Reads, ReviewTypeOK, Place,
         Reviewer
    <2> QED
      BY <2>1, <2>2
  <1>4. ASSUME NEW p \in Worker, SaveDrafts(p) PROVE ReviewerStep(q)
    <2>1. CASE q # p
      BY <1>4, <2>1, MovesSets DEF SaveDrafts, ReviewerStep, Stands, ReviewTypeOK, Place,
         Reviewer
    <2>2. CASE q = p
      BY <1>4, <2>2, MovesSets DEF SaveDrafts, ReviewerStep, Rests, Place, Reviewer
    <2> QED
      BY <2>1, <2>2
  <1>5. ASSUME NEW p \in Worker, CheckLease(p) PROVE ReviewerStep(q)
    <2>1. CASE q # p
      BY <1>5, <2>1, MovesSets DEF CheckLease, ReviewerStep, Stands, ReviewTypeOK, Place,
         Reviewer
    <2>2. CASE q = p
      BY <1>5, <2>2, MovesSets DEF CheckLease, ReviewerStep, Rests, Place, Reviewer
    <2> QED
      BY <2>1, <2>2
  <1>6. ASSUME NEW p \in Worker, DeferReview(p) PROVE ReviewerStep(q)
    <2>1. CASE q # p
      BY <1>6, <2>1, MovesSets DEF DeferReview, ReviewerStep, Stands, ReviewTypeOK, Place,
         Reviewer
    <2>2. CASE q = p
      BY <1>6, <2>2, MovesSets DEF DeferReview, ReviewerStep, Rests, Place, Reviewer
    <2> QED
      BY <2>1, <2>2
  <1>7. ASSUME NEW p \in Agent, Stage(p) PROVE ReviewerStep(q)
    BY <1>7 DEF Stage, ReviewerStep, Stands
  <1>8. ASSUME NEW p \in Agent, ClaimInteractive(p) PROVE ReviewerStep(q)
    <2>1. CASE q # p
      BY <1>8, <2>1, MovesSets, LeavesSets DEF ClaimInteractive, ReviewerStep, Stands,
         ReviewTypeOK, Place, Reviewer
    <2>2. CASE q = p
      BY <1>8, <2>2, MovesSets, LeavesSets DEF ClaimInteractive, ReviewerStep, Leases,
         Rests, Place, Reviewer
    <2> QED
      BY <2>1, <2>2
  <1>9. ASSUME NEW p \in Reviewer, ClaimFails(p) PROVE ReviewerStep(q)
    <2>1. CASE q # p
      BY <1>9, <2>1, LeavesSets DEF ClaimFails, ReviewerStep, Stands, ReviewTypeOK, Place
    <2>2. CASE q = p
      BY <1>9, <2>2, LeavesSets DEF ClaimFails, ReviewerStep, Rests, Place
    <2> QED
      BY <2>1, <2>2
  <1>10. ASSUME NEW p \in Reviewer, EnterCompleted(p) PROVE ReviewerStep(q)
    <2>1. CASE q # p
      BY <1>10, <2>1, MovesSets DEF EnterCompleted, ReviewerStep, Stands, ReviewTypeOK,
         Place
    <2>2. CASE q = p
      BY <1>10, <2>2, MovesSets DEF EnterCompleted, ReviewerStep, Replays, ReviewTypeOK,
         Place
    <2> QED
      BY <2>1, <2>2
  <1>11. ASSUME NEW p \in Reviewer, Enter(p) PROVE ReviewerStep(q)
    <2>1. CASE q # p
      BY <1>11, <2>1, MovesSets DEF Enter, ReviewerStep, Stands, ReviewTypeOK, Place
    <2>2. CASE q = p
      BY <1>11, <2>2, MovesSets DEF Enter, ReviewerStep, Enters, ReviewTypeOK,
         SuppliesPlan, ListsPending, Planned, Pending, Place
    <2> QED
      BY <2>1, <2>2
  <1>12. ASSUME NEW p \in Reviewer, ReviewFails(p) PROVE ReviewerStep(q)
    <2>1. CASE q # p
      BY <1>12, <2>1, FailSets DEF ReviewFails, ReviewerStep, Stands, ReviewTypeOK, Place
    <2>2. CASE q = p
      BY <1>12, <2>2, FailSets DEF ReviewFails, ReviewerStep, Rests, Place
    <2> QED
      BY <2>1, <2>2
  <1>13. ASSUME NEW p \in Reviewer, Preflight(p) PROVE ReviewerStep(q)
    <2>1. CASE q # p
      BY <1>13, <2>1, MovesSets, FailSets DEF Preflight, ReviewerStep, Stands,
         ReviewTypeOK, Place
    <2>2. CASE q = p
      BY <1>13, <2>2, MovesSets, FailSets DEF Preflight, ReviewerStep, GoesToCommit,
         Rests, Passes, Place
    <2> QED
      BY <2>1, <2>2
  <1>14. ASSUME NEW p \in Reviewer, CommitPoint(p) PROVE ReviewerStep(q)
    BY <1>14 DEF CommitPoint, ReviewerStep, Stands
  <1>15. ASSUME NEW p \in Reviewer, SavePoint(p) PROVE ReviewerStep(q)
    <2>1. CASE q # p
      BY <1>15, <2>1, MovesSets DEF SavePoint, ReviewerStep, Stands, ReviewTypeOK, Place
    <2>2. CASE q = p
      BY <1>15, <2>2, MovesSets DEF SavePoint, ReviewerStep, Saves, ReviewTypeOK, Place
    <2> QED
      BY <2>1, <2>2
  <1>16. ASSUME NEW p \in Reviewer, Settle(p) PROVE ReviewerStep(q)
    <2>1. CASE q # p
      BY <1>16, <2>1, MovesSets DEF Settle, ReviewerStep, Stands, ReviewTypeOK, Place
    <2>2. CASE q = p
      BY <1>16, <2>2, MovesSets DEF Settle, ReviewerStep, Settles, Place
    <2> QED
      BY <2>1, <2>2
  <1>17. ASSUME NEW p \in Reviewer, Finalize(p) PROVE ReviewerStep(q)
    <2>1. CASE q # p
      BY <1>17, <2>1, MovesSets, FailSets DEF Finalize, ReviewerStep, Stands,
         ReviewTypeOK, Place
    <2>2. CASE q = p
      <3>1. CASE Fail(p)
        BY <2>2, <3>1, FailSets DEF ReviewerStep, Rests
      <3>2. CASE ~Fail(p)
        <4>1. at'[p] = "completed"
          BY <1>17, <3>2, MovesSets DEF Finalize, Place
        <4>2. review \in Record /\ plan[p] \in [Candidate -> Verdict]
          BY DEF ReviewTypeOK, Record
        <4>3. review'.status = "completed"
          BY <1>17, <3>2, <4>2, PlanChanges DEF Finalize
        <4> QED
          BY <2>2, <4>1, <4>3 DEF ReviewerStep, Completes
      <3> QED
        BY <3>1, <3>2
    <2> QED
      BY <2>1, <2>2
  <1>18. ASSUME NEW p \in Reviewer, Recover(p) PROVE ReviewerStep(q)
    <2>1. CASE q # p
      BY <1>18, <2>1, MovesSets, LeavesSets DEF Recover, ReviewerStep, Stands,
         ReviewTypeOK, Place
    <2>2. CASE q = p
      BY <1>18, <2>2, MovesSets, LeavesSets DEF Recover, ReviewerStep, Completes, Rests,
         Place
    <2> QED
      BY <2>1, <2>2
  <1>19. ASSUME NEW p \in Reviewer, RecordOutcome(p) PROVE ReviewerStep(q)
    <2>1. CASE q # p
      BY <1>19, <2>1, MovesSets DEF RecordOutcome, ReviewerStep, Stands, ReviewTypeOK, Place
    <2>2. CASE q = p
      BY <1>19, <2>2, MovesSets DEF RecordOutcome, ReviewerStep, Records, OutcomeOf, Place
    <2> QED
      BY <2>1, <2>2
  <1>20. ASSUME NEW p \in Reviewer, ClearWorkspace(p) PROVE ReviewerStep(q)
    <2>1. CASE q # p
      BY <1>20, <2>1, LeavesSets DEF ClearWorkspace, ReviewerStep, Stands, ReviewTypeOK,
         Place
    <2>2. CASE q = p
      BY <1>20, <2>2, LeavesSets DEF ClearWorkspace, ReviewerStep, Rests, Place
    <2> QED
      BY <2>1, <2>2
  <1>21. ASSUME NEW p \in Reviewer, Crash(p) PROVE ReviewerStep(q)
    <2>1. CASE q # p
      BY <1>21, <2>1, LeavesSets DEF Crash, ReviewerStep, Stands, ReviewTypeOK, Place
    <2>2. CASE q = p
      BY <1>21, <2>2, LeavesSets DEF Crash, ReviewerStep, Rests, Place
    <2> QED
      BY <2>1, <2>2
  <1>22. CASE Resume
    BY <1>22 DEF Resume, ReviewerStep, Stands
  <1>23. CASE LeaseRunsOut
    BY <1>23 DEF LeaseRunsOut, ReviewerStep, Stands
  <1>24. CASE UNCHANGED reviewVars
    BY <1>24 DEF reviewVars, ReviewerStep, Stands
  <1>25. CASE DeferOnRequest
    BY <1>25 DEF DeferOnRequest, ReviewerStep, Stands
  <1> QED
    BY <1>1, <1>2, <1>3, <1>4, <1>5, <1>6, <1>7, <1>8, <1>9, <1>10, <1>11, <1>12,
       <1>13, <1>14, <1>15, <1>16, <1>17, <1>18, <1>19, <1>20, <1>21, <1>22, <1>23, <1>24, <1>25
    DEF ReviewNext, Reviewer

-----------------------------------------------------------------------------
(* What the record of the job keeps from step to step.                          *)
LEMMA ReviewKeeps ==
  ASSUME ReviewTypeOK, [ReviewNext]_reviewVars
  PROVE  /\ review.status = "completed" => review'.status = "completed" /\ review'.plan = review.plan
         /\ review.outcome # "none" => review'.outcome # "none"
         /\ review'.status = "completed" /\ review.status # "completed"
               => \E p \in Reviewer : CompletedBy(p) /\ review'.plan = plan[p]
                                      /\ review'.outcome = review.outcome
  <1>1. review \in Record
    BY DEF ReviewTypeOK, Record
  <1> DEFINE Kept == /\ review'.status = review.status
                     /\ review'.plan = review.plan
                     /\ review'.outcome = review.outcome
  <1>2. ASSUME NEW p \in Reviewer, TakenBy(p) PROVE Kept
    BY <1>1, <1>2, LeaseChanges DEF TakenBy
  <1>3. ASSUME (\E p \in Reviewer : FailedByClaim(p)) \/ Deferred
        PROVE  /\ review.status \in {"reviewing", "retryable"}
               /\ review'.status \in {"failed", "retryable"}
               /\ review'.outcome = review.outcome
    BY <1>1, <1>3, StatusChanges DEF FailedByClaim, Deferred
  <1>4. ASSUME NEW p \in Reviewer, CompletedBy(p)
        PROVE  /\ review.status # "completed" /\ review'.status = "completed"
               /\ review'.plan = plan[p] /\ review'.outcome = review.outcome
    BY <1>1, <1>4, PlanChanges DEF CompletedBy, ReviewTypeOK
  <1>5. ASSUME NEW p \in Reviewer, NotedBy(p)
        PROVE  /\ review'.status = review.status /\ review'.plan = review.plan
               /\ review'.outcome # "none"
    BY <1>1, <1>5 DEF NotedBy, Record
  <1>6. ASSUME NEW p \in Reviewer, NEW o \in {Nobody, Departed}, GivenUp(p, o) PROVE Kept
    BY <1>1, <1>6, OwnerChanges DEF GivenUp
  <1>7. WhileQuiet => /\ review.status = "completed" => review'.status = "completed"
                      /\ review'.status = "completed" => review.status = "completed"
                      /\ review'.plan = review.plan
                      /\ review'.outcome = review.outcome
    BY <1>1 DEF WhileQuiet, Record
  <1>8. SameReview => Kept
    BY DEF SameReview
  <1> HIDE DEF Kept
  <1> QED
    <2>1. CASE \E p \in Reviewer : CompletedBy(p)
      BY <2>1, <1>4
    <2>2. CASE \E p \in Reviewer : NotedBy(p)
      BY <2>2, <1>5
    <2>3. CASE (\E p \in Reviewer : FailedByClaim(p)) \/ Deferred
      BY <2>3, <1>3
    <2>4. CASE WhileQuiet
      BY <2>4, <1>7
    <2>5. CASE Kept
      BY <2>5 DEF Kept
    <2> QED
      BY <2>1, <2>2, <2>3, <2>4, <2>5, <1>2, <1>6, <1>8, ReviewMoves DEF ReviewStep

(* Only a job under review has an owner, and only a completed one an outcome.   *)
LEMMA OwnedStaysReviewing == ReviewInv /\ [ReviewNext]_reviewVars => OwnedIsReviewing'
  <1> SUFFICES ASSUME ReviewInv, [ReviewNext]_reviewVars PROVE OwnedIsReviewing'
    OBVIOUS
  <1>1. review \in Record /\ ReviewTypeOK /\ OwnedIsReviewing
    BY DEF ReviewInv, ReviewTypeOK, Record
  <1> USE DEF OwnedIsReviewing
  <1>2. ASSUME NEW p \in Reviewer, TakenBy(p) PROVE OwnedIsReviewing'
    BY <1>1, <1>2, LeaseChanges DEF TakenBy, Claimable
  <1>3. (\E p \in Reviewer : FailedByClaim(p)) \/ Deferred => OwnedIsReviewing'
    BY <1>1, StatusChanges DEF FailedByClaim, Deferred
  <1>4. ASSUME NEW p \in Reviewer, CompletedBy(p) PROVE OwnedIsReviewing'
    BY <1>1, <1>4, PlanChanges DEF CompletedBy, ReviewTypeOK
  <1>5. ASSUME NEW p \in Reviewer, NotedBy(p) PROVE OwnedIsReviewing'
    <2>1. review.status = "completed"
      BY <1>5 DEF NotedBy, ReviewInv, AfterCompletion
    <2> QED
      BY <1>1, <1>5, <2>1 DEF NotedBy, Record
  <1>6. ASSUME NEW p \in Reviewer, NEW o \in {Nobody, Departed}, GivenUp(p, o)
        PROVE  OwnedIsReviewing'
    <2>1. review.status = "reviewing"
      BY <1>1, <1>6, ReviewAssumption DEF GivenUp, Reviewer
    <2> QED
      BY <1>1, <1>6, <2>1, OwnerChanges DEF GivenUp
  <1>7. WhileQuiet => OwnedIsReviewing'
    BY <1>1 DEF WhileQuiet, Record
  <1> QED
    BY <1>1, <1>2, <1>3, <1>4, <1>5, <1>6, <1>7, ReviewMoves DEF ReviewStep, SameReview

(* The commit claim.  A reviewer comes to its commit only with the lease in its  *)
(* hand; while one commits, the lease can neither run out nor be taken, and a   *)
(* stranger's deferral leaves a job that nobody can claim.                      *)
LEMMA CommitterStaysAlone ==
  ReviewInv /\ [ReviewNext]_reviewVars => OneCommitter' /\ CommitterOwns'
  <1> SUFFICES ASSUME ReviewInv, [ReviewNext]_reviewVars
      PROVE  OneCommitter' /\ CommitterOwns'
    OBVIOUS
  <1>1. review \in Record /\ ReviewTypeOK /\ OwnedIsReviewing /\ CommitterOwns /\ OneCommitter
    BY DEF ReviewInv, ReviewTypeOK, Record
  <1>2. ASSUME NEW p \in Reviewer, Committing(p)'
        PROVE  Committing(p) \/ (OwnsLive(p) /\ review' = review)
    BY <1>1, <1>2, ReviewerMoves
    DEF ReviewerStep, Stands, Drafts, Reads, Enters, Leases, GoesToCommit, Saves, Settles, Completes,
        Replays, Records, Rests, Committing
  <1>3. ASSUME NEW p \in Reviewer, Committing(p)
        PROVE  OwnsLive(p) \/ (review.status = "retryable" /\ strayed = "yes")
    BY <1>1, <1>3 DEF CommitterOwns
  <1>4. OneCommitter'
    <2> SUFFICES ASSUME NEW p \in Reviewer, NEW q \in Reviewer, Committing(p)', Committing(q)'
                 PROVE  p = q
      BY DEF OneCommitter
    <2>1. CASE Committing(p) /\ Committing(q)
      BY <2>1, <1>1 DEF OneCommitter
    <2> QED
      BY <2>1, <1>2, <1>3 DEF OwnsLive
  <1>5. CommitterOwns'
    <2> SUFFICES ASSUME NEW p \in Reviewer, Committing(p)'
                 PROVE  OwnsLive(p)' \/ (review'.status = "retryable" /\ strayed' = "yes")
      BY SMTT(40) DEF CommitterOwns
    <2>0. ~Resume /\ strayed = "yes" => strayed' = "yes"
      BY ZenonT(60) DEF ReviewNext, reviewVars, Claim, Draft, ReadDrafts, SaveDrafts, CheckLease,
         DeferReview, DeferOnRequest, Release, Stage,
         ClaimInteractive, ClaimFails, EnterCompleted, Enter, ReviewFails, Preflight, CommitPoint,
         SavePoint, Settle, Finalize, Recover, RecordOutcome, ClearWorkspace, Crash, LeaseRunsOut
    <2>1. CASE SameReview
      <3>1. ~Resume \/ review' # review
        BY <1>1 DEF Resume, Record
      <3> QED
        BY <2>0, <2>1, <3>1, <1>2, <1>3 DEF SameReview, OwnsLive
    <2>2. CASE ~SameReview
      <3>1. Committing(p)
        BY <2>2, <1>2 DEF SameReview
      <3>2. ~WhileQuiet
        BY <3>1 DEF WhileQuiet, Quiet
      <3>3. ASSUME NEW q \in Reviewer, TakenBy(q) \/ FailedByClaim(q) PROVE FALSE
        BY <3>1, <3>3, <1>3, ReviewAssumption DEF TakenBy, Claimable, FailedByClaim,
           OwnsLive, Reviewer
      <3>4. ASSUME NEW q \in Reviewer, CompletedBy(q) PROVE FALSE
        <4>1. q = p
          BY <3>1, <3>4, <1>1, <1>3, ReviewAssumption
          DEF CompletedBy, OwnsLive, OwnedIsReviewing, Reviewer
        <4> QED
          BY <4>1, <3>4, <2>2, MovesSets, <1>1 DEF CompletedBy, Finalize, Committing, Place
      <3>5. ASSUME NEW q \in Reviewer, NotedBy(q) PROVE FALSE
        BY <3>1, <3>5, <1>3 DEF NotedBy, ReviewInv, AfterCompletion, OwnsLive
      <3>6. ASSUME NEW q \in Reviewer, NEW o \in {Nobody, Departed}, GivenUp(q, o)
            PROVE  FALSE
        BY <3>1, <3>6, <1>1, <1>3, ReviewAssumption
        DEF GivenUp, OwnsLive, OwnedIsReviewing, Reviewer
      <3>7. ASSUME Deferred PROVE review'.status = "retryable" /\ strayed' = "yes"
        BY <3>1, <3>7, <1>1, StatusChanges DEF Deferred, Release, Quiet
      <3> QED
        BY <2>2, <3>2, <3>3, <3>4, <3>5, <3>6, <3>7, <1>1, ReviewMoves DEF ReviewStep
    <2> QED
      BY <2>1, <2>2
  <1> QED
    BY <1>4, <1>5

(* Nothing that was finished is begun again: a completed job stays completed,   *)
(* with the plan it was completed with.                                         *)
LEMMA AfterCompletionKept ==
  ReviewInv /\ [ReviewNext]_reviewVars => \A q \in Reviewer : AfterCompletion(q)'
  <1> SUFFICES ASSUME ReviewInv, [ReviewNext]_reviewVars, NEW q \in Reviewer
               PROVE  AfterCompletion(q)'
    OBVIOUS
  <1>1. ReviewerStep(q) /\ AfterCompletion(q)
    BY ReviewerMoves DEF ReviewInv
  <1>2. /\ review.status = "completed" => review'.status = "completed" /\ review'.plan = review.plan
        /\ review.outcome # "none" => review'.outcome # "none"
    BY ReviewKeeps, SMTT(40) DEF ReviewInv
  <1> QED
    BY <1>1, <1>2
    DEF AfterCompletion, ReviewerStep, Stands, Drafts, Reads, Enters, Leases, GoesToCommit, Saves,
        Settles, Completes, Replays, Records, Rests

(* Knowledge is never taken back by a review. *)
LEMMA TruthGrows == [ReviewNext]_reviewVars => truth \subseteq truth'
  BY ZenonT(60) DEF ReviewNext, reviewVars, Claim, Draft, ReadDrafts, SaveDrafts, CheckLease,
     DeferReview, DeferOnRequest, Release, Stage,
     ClaimInteractive, ClaimFails, EnterCompleted, Enter, ReviewFails, Preflight, CommitPoint,
     SavePoint, Settle, Finalize, Recover, RecordOutcome, ClearWorkspace, Crash, Resume, LeaseRunsOut

(* Until an outcome is recorded no candidate disappears: the workspace is       *)
(* cleared after that, and what prepare saves is what it has read.              *)
LEMMA DraftsStay ==
  ASSUME ReviewInv, [ReviewNext]_reviewVars, review'.outcome = "none",
         NEW c \in Candidate, draft[c] # "none"
  PROVE  draft'[c] # "none"
  <1>1. review.outcome = "none"
    BY ReviewKeeps DEF ReviewInv
  <1>2. draft \in [Candidate -> Statuses]
    BY DEF ReviewInv, ReviewTypeOK
  <1>3. ASSUME NEW p \in Worker, SaveDrafts(p) PROVE draft'[c] # "none"
    BY <1>1, <1>3 DEF SaveDrafts, ReviewInv, PlanIsHeld, Reviewer
  <1>4. ASSUME NEW p \in Reviewer, ClearWorkspace(p) PROVE draft'[c] # "none"
    BY <1>1, <1>4 DEF ClearWorkspace, ReviewInv, AfterCompletion
  <1>5. ASSUME NEW p \in Reviewer, Recover(p) PROVE draft'[c] # "none"
    BY <1>5 DEF Recover
  <1>6. ASSUME NEW p \in Reviewer, Settle(p) PROVE draft'[c] # "none"
    BY <1>6 DEF Settle
  <1>7. ASSUME NEW p \in Reviewer, SavePoint(p) PROVE draft'[c] # "none"
    BY <1>2, <1>7 DEF SavePoint
  <1>8. ASSUME NEW p \in Worker, Draft(p) PROVE draft'[c] # "none"
    BY <1>8 DEF Draft
  <1>9. ASSUME NEW p \in Agent, Stage(p) PROVE draft'[c] # "none"
    BY <1>2, <1>9 DEF Stage
  <1> QED
    BY <1>3, <1>4, <1>5, <1>6, <1>7, <1>8, <1>9, ZenonT(60)
    DEF ReviewNext, reviewVars, Claim, ReadDrafts, CheckLease, DeferReview, DeferOnRequest,
     ClaimInteractive, ClaimFails, EnterCompleted, Enter, ReviewFails, Preflight, CommitPoint,
     Finalize, RecordOutcome, Crash, Resume, LeaseRunsOut

(* Who holds a plan finds its candidates. *)
LEMMA PlanStaysHeld == ReviewInv /\ [ReviewNext]_reviewVars => \A q \in Reviewer : PlanIsHeld(q)'
  <1> SUFFICES ASSUME ReviewInv, [ReviewNext]_reviewVars, NEW q \in Reviewer,
                      review'.outcome = "none", NEW c \in Planned(plan'[q])
               PROVE  /\ at'[q] \in {"drafted", "listed", "leased", "committing", "applied", "settled"}
                            => draft'[c] # "none"
                      /\ at'[q] = "saving" => seen'[q][c] # "none"
    BY DEF PlanIsHeld
  <1>1. ReviewerStep(q) /\ PlanIsHeld(q) /\ review.outcome = "none" /\ c \in Candidate
    BY ReviewerMoves, ReviewKeeps DEF ReviewInv, Planned
  <1>2. draft[c] # "none" => draft'[c] # "none"
    BY <1>1, DraftsStay
  <1>3. CASE Drafts(q) \/ Rests(q) \/ Completes(q) \/ Replays(q) \/ Records(q)
    BY <1>3 DEF Drafts, Rests, Completes, Replays, Records
  <1>4. CASE Enters(q)
    BY <1>4, <1>1 DEF Enters
  <1>5. CASE Stands(q) \/ Reads(q) \/ Leases(q) \/ GoesToCommit(q) \/ Saves(q) \/ Settles(q)
    BY <1>5, <1>1, <1>2 DEF PlanIsHeld, Stands, Reads, Leases, GoesToCommit, Saves, Settles
  <1> QED
    BY <1>1, <1>3, <1>4, <1>5 DEF ReviewerStep

(* A plan is applied point by point, each point's knowledge first. *)
LEMMA PlanStaysApplied ==
  ReviewInv /\ [ReviewNext]_reviewVars => \A q \in Reviewer : PlanIsApplied(q)'
  <1> SUFFICES ASSUME ReviewInv, [ReviewNext]_reviewVars, NEW q \in Reviewer
               PROVE  PlanIsApplied(q)'
    OBVIOUS
  <1>1. ReviewerStep(q) /\ PlanIsApplied(q) /\ truth \subseteq truth'
    BY ReviewerMoves, TruthGrows DEF ReviewInv
  <1>2. \A g : Adds(g) \subseteq Planned(g)
    BY DEF Adds, Planned
  <1>3. CASE Drafts(q) \/ Rests(q) \/ Completes(q) \/ Replays(q) \/ Records(q) \/ Reads(q)
    BY <1>3 DEF PlanIsApplied, Drafts, Rests, Completes, Replays, Records, Reads
  <1>4. CASE Enters(q)
    BY <1>4, <1>2 DEF PlanIsApplied, Enters
  <1>5. CASE Stands(q) \/ Leases(q) \/ GoesToCommit(q) \/ Settles(q)
    BY <1>5, <1>1 DEF PlanIsApplied, Stands, Leases, GoesToCommit, Settles
  <1>6. CASE Saves(q)
    <2>1. PICK c \in todo[q] : /\ plan[q][c] = "add" => c \in truth
                               /\ todo'[q] = todo[q] \ {c}
                               /\ at'[q] = "applied" => todo[q] = {c}
      BY <1>6 DEF Saves
    <2>2. Adds(plan[q]) \subseteq truth \cup todo[q]
      BY <1>1, <1>2, <1>6 DEF PlanIsApplied, Saves
    <2>3. Adds(plan[q]) \subseteq truth' \cup todo'[q]
      BY <1>1, <2>1, <2>2 DEF Adds
    <2> QED
      BY <1>6, <2>1, <2>3 DEF PlanIsApplied, Saves
  <1> QED
    BY <1>1, <1>3, <1>4, <1>5, <1>6 DEF ReviewerStep

(* A job is completed by a reviewer whose plan is applied and whose candidates  *)
(* exist, and from then on nothing takes that away.                             *)
LEMMA CompletionStaysBacked == ReviewInv /\ [ReviewNext]_reviewVars => CompletionIsBacked'
  <1> SUFFICES ASSUME ReviewInv, [ReviewNext]_reviewVars, review'.status = "completed"
               PROVE  /\ Adds(review'.plan) \subseteq truth'
                      /\ review'.outcome = "none" =>
                            \A c \in Planned(review'.plan) : draft'[c] # "none"
    BY DEF CompletionIsBacked
  <1>1. /\ truth \subseteq truth'
        /\ review'.outcome = "none" => review.outcome = "none"
        /\ review'.outcome = "none" =>
              \A c \in Candidate : draft[c] # "none" => draft'[c] # "none"
        /\ \A g : Planned(g) \subseteq Candidate
    BY TruthGrows, ReviewKeeps, DraftsStay DEF ReviewInv, Planned
  <1>2. CASE review.status = "completed"
    <2>1. review'.plan = review.plan
      BY <1>2, ReviewKeeps DEF ReviewInv
    <2> QED
      BY <1>1, <1>2, <2>1 DEF ReviewInv, CompletionIsBacked
  <1>3. CASE review.status # "completed"
    <2>1. PICK p \in Reviewer : CompletedBy(p) /\ review'.plan = plan[p]
      BY <1>3, ReviewKeeps DEF ReviewInv
    <2>2. at[p] \in {"applied", "settled"}
      BY <2>1 DEF CompletedBy, HasApplied
    <2>3. Adds(plan[p]) \subseteq truth
      BY <2>2 DEF ReviewInv, PlanIsApplied, Adds, Planned
    <2>4. review.outcome = "none"
      BY <1>3 DEF ReviewInv, OwnedIsReviewing
    <2>5. \A c \in Planned(plan[p]) : draft[c] # "none"
      BY <2>2, <2>4 DEF ReviewInv, PlanIsHeld
    <2> QED
      BY <1>1, <2>1, <2>3, <2>5
  <1> QED
    BY <1>2, <1>3

-----------------------------------------------------------------------------
(* The invariant of the review, over its three stores. *)
THEOREM ReviewInvariant == ReviewSpec => []ReviewInv
  <1>1. ReviewInit => ReviewInv
    <2> SUFFICES ASSUME ReviewInit PROVE ReviewInv
      OBVIOUS
    <2>1. ReviewTypeOK
      BY DEF ReviewInit, ReviewTypeOK, NoPlan, Verdict, Statuses
    <2>2. /\ review.status = "reviewing" /\ review.owner = Nobody /\ review.outcome = "none"
          /\ \A p \in Reviewer : at[p] = "idle"
      BY DEF ReviewInit
    <2> QED
      BY <2>1, <2>2
      DEF ReviewInv, OwnedIsReviewing, OneCommitter, CommitterOwns, Committing, AfterCompletion,
          PlanIsHeld, PlanIsApplied, CompletionIsBacked
  <1>2. ReviewInv /\ [ReviewNext]_reviewVars => ReviewInv'
    BY ReviewTypeKept, OwnedStaysReviewing, CommitterStaysAlone, AfterCompletionKept,
       PlanStaysHeld,
       PlanStaysApplied, CompletionStaysBacked DEF ReviewInv
  <1> QED
    BY <1>1, <1>2, PTL DEF ReviewSpec

(* The commit claim holds for any number of reviewers: at most one of them is   *)
(* between its preflight and its finalize, whatever leases ran out, were taken  *)
(* over or deferred by a stranger (_trusted_assimilation_preflight).            *)
THEOREM OneReviewCommits == ReviewSpec => []OneCommitter
  BY ReviewInvariant, PTL DEF ReviewInv

(* A completed job has its knowledge, and what recovery needs to apply it again *)
(* (finalize_distill_job, cleanup_job).                                         *)
THEOREM CompletedIsBacked == ReviewSpec => []CompletionIsBacked
  BY ReviewInvariant, PTL DEF ReviewInv

(* Knowledge is only written under a live lease of one's own, to repeat what    *)
(* was completed, or by the one review that was deferred after its preflight.   *)
THEOREM KnowledgeIsOwned == ReviewSpec => WritesAreOwned
  <1> DEFINE Owned ==
        truth' # truth =>
            \/ \E p \in Reviewer :
                  /\ Committing(p)
                  /\ OwnsLive(p) \/ (review.status = "retryable" /\ strayed = "yes")
            \/ review.status = "completed" /\ truth' \ truth \subseteq Adds(review.plan)
  <1>1. ReviewInv /\ [ReviewNext]_reviewVars => [Owned]_reviewVars
    <2> SUFFICES ASSUME ReviewInv, [ReviewNext]_reviewVars, truth' # truth
                 PROVE  Owned
      BY SMTT(40)
    <2>1. \E p \in Reviewer : CommitPoint(p) \/ Recover(p)
      BY ZenonT(60) DEF ReviewNext, reviewVars, Claim, Draft, ReadDrafts, SaveDrafts, CheckLease,
         DeferReview, DeferOnRequest, Release, Stage,
         ClaimInteractive, ClaimFails, EnterCompleted, Enter, ReviewFails, Preflight,
         SavePoint, Settle, Finalize, RecordOutcome, ClearWorkspace, Crash, Resume, LeaseRunsOut
    <2>2. ASSUME NEW p \in Reviewer, CommitPoint(p) PROVE Owned
      BY <2>2 DEF CommitPoint, ReviewInv, CommitterOwns, Committing, OwnsLive
    <2>3. ASSUME NEW p \in Reviewer, Recover(p) PROVE Owned
      BY <2>3 DEF Recover, ReviewInv, AfterCompletion
    <2> QED
      BY <2>1, <2>2, <2>3
  <1> QED
    BY <1>1, ReviewInvariant, PTL DEF ReviewSpec, WritesAreOwned

-----------------------------------------------------------------------------
MoveSeqs == {s \in Seq(Move) : Len(s) <= MaxExtra + 1}
WholePlans == [Point -> MoveSeqs]
Frames == [left : SUBSET Point, batch : SUBSET Point, open : SUBSET Truth, moves : WholePlans]

PlanTypes ==
    /\ way \in {"none", "worker", "agent"} /\ eligible \in SUBSET Point
    /\ stage \in {"start", "asking", "colliding", "agreed", "planned", "failed", "refused"}
    /\ level \in {"outer", "inner"}
    /\ frame \in [{"outer", "inner"} -> Frames]
    /\ tries \in 0 .. 2
    /\ decided \in WholePlans /\ proof \in [Point -> Move \cup {NoMove}]

\* What an answer does for some candidates uses only what is open.
Within(g, who, open) == \A c \in who : \A i \in DOMAIN g[c] : g[c][i].on \subseteq open

\* A level is to decide on some candidates with what it was offered: who has
\* been asked has been decided on, and nothing else is used.
Asks(f, who, offered) ==
    /\ f.left \subseteq who /\ f.batch \subseteq who /\ f.left \cap f.batch = {}
    /\ Covers(f.moves, who \ (f.left \cup f.batch))
    /\ f.open \subseteq offered
    /\ \A c \in Point : \A i \in DOMAIN f.moves[c] : f.moves[c][i].on \subseteq offered

Planning ==
    /\ Asks(frame["outer"], eligible, Truth)
    /\ level = "inner" => /\ Asks(frame["inner"], frame["outer"].batch, frame["outer"].open)
                          /\ frame["inner"].batch = {} \/ Cardinality(frame["inner"].batch) = 1
    /\ stage = "colliding" => Now.batch = {} /\ Now.left = {}

\* The only committing move of a candidate is the approved one.
SingleIsApproved ==
    \A c \in Point : Len(decided[c]) = 1 /\ Commits(decided[c][1]) => proof[c] = decided[c][1]

PlanInv ==
    /\ PlanTypes
    /\ stage = "start" => way = "none" /\ level = "outer" /\ decided = Undecided
    /\ stage \in {"asking", "colliding"} => Planning
    /\ stage \in {"agreed", "planned"} => Consistent(decided, eligible, Truth)
    /\ stage = "planned" /\ way = "worker" => SingleIsApproved
    /\ stage # "refused"

-----------------------------------------------------------------------------
\* What a plan is made of.
LEMMA MovesAre ==
  /\ \A m \in Move : m.on \subseteq Truth
  /\ Deferral \in MoveSeqs /\ Len(Deferral) = 1 /\ Deferral[1] \in Move /\ Deferral[1].on = {}
  /\ ~Commits(Deferral[1]) /\ <<>> \in MoveSeqs /\ \A m \in Move : <<m>> \in MoveSeqs
  /\ \A s \in MoveSeqs : /\ s \in Seq(Move) /\ DOMAIN s \subseteq 1 .. MaxExtra + 1
                      /\ \A i \in DOMAIN s : s[i] \in Move /\ s[i].on \subseteq Truth
                      /\ (s = <<>> <=> Len(s) = 0)
  <1>1. MaxExtra \in Nat
    BY PlanAssumption
  <1>2. \A m \in Move : m.on \subseteq Truth
    <2>1. \A m \in [does : Free, on : {{}}] : m.on \subseteq Truth
      OBVIOUS
    <2>2. \A m \in [does : {"confirm", "conflict"}, on : {{t} : t \in Truth}] : m.on \subseteq Truth
      OBVIOUS
    <2>3. \A m \in [does : {"change"}, on : (SUBSET Truth) \ {{}}] : m.on \subseteq Truth
      OBVIOUS
    <2>4. QED
      BY <2>1, <2>2, <2>3 DEF Move
  <1> DEFINE m == [does |-> "defer", on |-> {}]
  <1>3. m \in Move /\ m.on = {} /\ ~Commits(m)
    BY DEF Move, Free, Commits
  <1>4. Deferral = <<m>>
    BY DEF Deferral
  <1> HIDE DEF m
  <1>5. Deferral \in Seq(Move) /\ Len(Deferral) = 1 /\ Deferral[1] = m
    BY <1>3, <1>4
  <1>6. \A s \in MoveSeqs : /\ s \in Seq(Move) /\ DOMAIN s \subseteq 1 .. MaxExtra + 1
                         /\ \A i \in DOMAIN s : s[i] \in Move
                         /\ (s = <<>> <=> Len(s) = 0)
    BY <1>1 DEF MoveSeqs
  <1>7. <<>> \in MoveSeqs /\ Deferral \in MoveSeqs /\ \A n \in Move : <<n>> \in MoveSeqs
    BY <1>1, <1>5 DEF MoveSeqs
  <1>8. QED
    BY <1>2, <1>3, <1>5, <1>6, <1>7

\* A finite set has two members when it counts more than one.
LEMMA TwoOfThem ==
  ASSUME NEW S, IsFiniteSet(S), NEW u \in S
  PROVE  Cardinality(S) > 1 <=> \E v \in S : v # u
  <1>1. Cardinality(S) \in Nat /\ IsFiniteSet(S \ {u}) /\ Cardinality(S \ {u}) = Cardinality(S) - 1
    BY FS_CardinalityType, FS_RemoveElement
  <1>2. Cardinality(S \ {u}) \in Nat /\ (Cardinality(S \ {u}) = 0 <=> S \ {u} = {})
    BY <1>1, FS_CardinalityType, FS_EmptySet
  <1>3. QED
    BY <1>1, <1>2

\* The uses of a truth by a plan.
LEMMA UsesAre ==
  ASSUME NEW g \in WholePlans, NEW t
  PROVE  /\ IsFiniteSet(UsesOf(g, t))
         /\ \A u \in UsesOf(g, t) : /\ u[1] \in Point /\ u[2] \in DOMAIN g[u[1]] /\ t \in g[u[1]][u[2]].on
                                    /\ u = <<u[1], u[2]>>
         /\ \A c \in Point : \A i \in DOMAIN g[c] : t \in g[c][i].on => <<c, i>> \in UsesOf(g, t)
  <1>1. IsFiniteSet(Point \X (1 .. MaxExtra + 1))
    <2>1. 1 \in Int /\ MaxExtra + 1 \in Int /\ IsFiniteSet(Point)
      BY PlanAssumption
    <2>2. IsFiniteSet(1 .. MaxExtra + 1)
      BY <2>1, FS_Interval
    <2>3. QED
      BY <2>1, <2>2, FS_Product
  <1>2. IsFiniteSet(UsesOf(g, t))
    <2>1. UsesOf(g, t) \in SUBSET (Point \X (1 .. MaxExtra + 1))
      BY DEF UsesOf
    <2>2. QED
      BY <1>1, <2>1, FS_Subset
  <1>3. \A u \in UsesOf(g, t) : /\ u[1] \in Point /\ u[2] \in DOMAIN g[u[1]] /\ t \in g[u[1]][u[2]].on
                                /\ u = <<u[1], u[2]>>
    BY DEF UsesOf
  <1>4. ASSUME NEW c \in Point, NEW i \in DOMAIN g[c], t \in g[c][i].on
        PROVE  <<c, i>> \in UsesOf(g, t)
    <2>1. i \in 1 .. MaxExtra + 1
      BY MovesAre DEF WholePlans
    <2>2. <<c, i>> \in Point \X (1 .. MaxExtra + 1) /\ <<c, i>>[1] = c /\ <<c, i>>[2] = i
      BY <2>1
    <2>3. QED
      BY <1>4, <2>2 DEF UsesOf
  <1>5. QED
    BY <1>2, <1>3, <1>4

\* Two moves of a plan that use one truth.
Meet(g, t, c, i, d, j) ==
    /\ c \in Point /\ d \in Point /\ i \in DOMAIN g[c] /\ j \in DOMAIN g[d]
    /\ c # d \/ i # j
    /\ t \in g[c][i].on /\ t \in g[d][j].on

\* A collision is a clash with a change.
LEMMA CollisionsAre ==
  ASSUME NEW g \in WholePlans, NEW t
  PROVE  t \in Collisions(g) <=>
            t \in Truth /\ \E c, d, i, j : Meet(g, t, c, i, d, j) /\ g[c][i].does = "change"
  <1> DEFINE uses == UsesOf(g, t)
  <1>1. t \in Collisions(g) <=> t \in Truth /\ Cardinality(uses) > 1 /\ \E u \in uses : g[u[1]][u[2]].does = "change"
    BY DEF Collisions
  <1>2. IsFiniteSet(uses)
    BY UsesAre
  <1> HIDE DEF uses
  <1>3. ASSUME Cardinality(uses) > 1, NEW u \in uses, g[u[1]][u[2]].does = "change"
        PROVE  \E c, d, i, j : Meet(g, t, c, i, d, j) /\ g[c][i].does = "change"
    <2>1. PICK v \in uses : v # u
      BY <1>2, <1>3, TwoOfThem
    <2>2. Meet(g, t, u[1], u[2], v[1], v[2])
      BY <2>1, UsesAre DEF uses, Meet
    <2>3. QED
      BY <1>3, <2>2
  <1>4. ASSUME NEW c, NEW d, NEW i, NEW j, Meet(g, t, c, i, d, j), g[c][i].does = "change"
        PROVE  Cardinality(uses) > 1 /\ \E u \in uses : g[u[1]][u[2]].does = "change"
    <2>1. <<c, i>> \in uses /\ <<d, j>> \in uses /\ <<c, i>> # <<d, j>>
      BY <1>4, UsesAre DEF uses, Meet
    <2>2. Cardinality(uses) > 1
      BY <1>2, <2>1, TwoOfThem
    <2>3. <<c, i>>[1] = c /\ <<c, i>>[2] = i
      OBVIOUS
    <2>4. QED
      BY <1>4, <2>1, <2>2, <2>3
  <1>5. QED
    BY <1>1, <1>3, <1>4

\* What is consistent, move by move.
LEMMA ConsistentIs ==
  ASSUME NEW g \in WholePlans, NEW who \in SUBSET Point, NEW open
  PROVE  Consistent(g, who, open) <=> /\ Covers(g, who) /\ Collisions(g) = {}
                                      /\ \A c \in who : \A i \in DOMAIN g[c] : g[c][i].on \subseteq open
  BY DEF Consistent, Range

\* A plan that uses less collides no more.
LEMMA UsingLess ==
  ASSUME NEW g \in WholePlans, NEW h \in WholePlans,
         \A c \in Point : h[c] = g[c] \/ \A i \in DOMAIN h[c] : h[c][i].on = {}
  PROVE  Collisions(h) \subseteq Collisions(g)
  <1>1. ASSUME NEW t \in Collisions(h) PROVE t \in Collisions(g)
    <2>1. PICK c, d, i, j : Meet(h, t, c, i, d, j) /\ h[c][i].does = "change"
      BY CollisionsAre
    <2>2. h[c] = g[c] /\ h[d] = g[d] /\ t \in Truth
      BY <2>1, CollisionsAre DEF Meet
    <2>3. Meet(g, t, c, i, d, j) /\ g[c][i].does = "change"
      BY <2>1, <2>2 DEF Meet
    <2>4. QED
      BY <2>2, <2>3, CollisionsAre
  <1>2. QED
    BY <1>1

\* Who uses a truth that collides is one of those that collide.
LEMMA CollidersAre ==
  ASSUME NEW g \in WholePlans, NEW c \in Point
  PROVE  c \in ColliderOf(g) <=> \E i \in DOMAIN g[c] : g[c][i].on \cap Collisions(g) # {}
  BY DEF ColliderOf, Range

\* The colliding candidates, decided again with one use of each truth, leave no
\* collision.
LEMMA ResolvedIsClear ==
  ASSUME NEW g \in WholePlans, NEW r \in WholePlans,
         NEW h \in WholePlans, h = [c \in Point |-> IF c \in ColliderOf(g) THEN r[c] ELSE g[c]],
         \A c \in ColliderOf(g) : \A i \in DOMAIN r[c] : r[c][i].on \subseteq Collisions(g),
         \A t \in Truth : Cardinality(UsesOf(r, t)) <= 1
  PROVE  Collisions(h) = {}
  <1>1. SUFFICES ASSUME NEW t \in Collisions(h) PROVE FALSE
    OBVIOUS
  <1>2. PICK c, d, i, j : Meet(h, t, c, i, d, j) /\ h[c][i].does = "change"
    BY CollisionsAre, ZenonT(60)
  <1>3. t \in Truth
    BY CollisionsAre
  <1>4. CASE t \in Collisions(g)
    <2>1. \A k \in Point : \A n \in DOMAIN h[k] : t \in h[k][n].on => k \in ColliderOf(g)
      BY <1>4, CollidersAre
    <2>2. c \in ColliderOf(g) /\ d \in ColliderOf(g)
      BY <1>2, <2>1 DEF Meet
    <2>3. Meet(r, t, c, i, d, j)
      BY <1>2, <2>2 DEF Meet
    <2>4. <<c, i>> \in UsesOf(r, t) /\ <<d, j>> \in UsesOf(r, t) /\ <<c, i>> # <<d, j>>
      BY <2>3, UsesAre DEF Meet
    <2>5. Cardinality(UsesOf(r, t)) > 1 /\ Cardinality(UsesOf(r, t)) \in Nat
      BY <2>4, UsesAre, TwoOfThem, FS_CardinalityType
    <2>6. QED
      BY <1>3, <2>5
  <1>5. CASE t \notin Collisions(g)
    <2>1. c \notin ColliderOf(g) /\ d \notin ColliderOf(g)
      BY <1>2, <1>5 DEF Meet
    <2>2. Meet(g, t, c, i, d, j) /\ g[c][i].does = "change"
      BY <1>2, <2>1 DEF Meet
    <2>3. QED
      BY <1>3, <1>5, <2>2, CollisionsAre
  <1>6. QED
    BY <1>4, <1>5

\* With the colliding candidates deferred there is no collision either.
LEMMA DeferredIsClear ==
  ASSUME NEW g \in WholePlans, NEW h \in WholePlans,
         h = [c \in Point |-> IF c \in ColliderOf(g) THEN Deferral ELSE g[c]]
  PROVE  Collisions(h) = {}
  <1>1. SUFFICES ASSUME NEW t \in Collisions(h) PROVE FALSE
    OBVIOUS
  <1>2. PICK c, d, i, j : Meet(h, t, c, i, d, j)
    BY CollisionsAre
  <1>3. \A k \in DOMAIN Deferral : Deferral[k].on = {}
    BY MovesAre DEF Deferral
  <1>4. c \notin ColliderOf(g)
    BY <1>2, <1>3 DEF Meet
  <1>5. h[c] = g[c]
    BY <1>2, <1>4 DEF Meet
  <1>6. \A k \in Point : h[k] = g[k] \/ \A n \in DOMAIN h[k] : h[k][n].on = {}
    BY <1>3
  <1>7. t \in Collisions(g)
    BY <1>6, UsingLess
  <1>8. QED
    BY <1>2, <1>4, <1>5, <1>7, CollidersAre DEF Meet
-----------------------------------------------------------------------------
\* The present question.
LEMMA NowAsks ==
  ASSUME PlanInv, stage \in {"asking", "colliding"}
  PROVE  /\ Now \in Frames /\ frame["outer"] \in Frames /\ Asks(frame["outer"], eligible, Truth)
         /\ Asked \in SUBSET Point /\ Offered \in SUBSET Truth /\ Asks(Now, Asked, Offered)
         /\ level \in {"outer", "inner"} /\ eligible \in SUBSET Point
  <1>1. frame["outer"] \in Frames /\ frame["inner"] \in Frames /\ level \in {"outer", "inner"}
    BY DEF PlanInv, PlanTypes
  <1>2. frame["outer"].batch \in SUBSET Point /\ frame["outer"].open \in SUBSET Truth
    BY <1>1 DEF Frames
  <1>3. QED
    BY <1>1, <1>2 DEF PlanInv, PlanTypes, Planning, Now, Asked, Offered

\* Planning goes on with a level's new frame.
LEMMA FrameGoes ==
  ASSUME PlanInv, stage \in {"asking", "colliding"}, NEW n \in Frames, Asks(n, Asked, Offered),
         Becomes(n), stage' = "asking", tries' \in 0 .. 2,
         level = "inner" => n.batch = {} \/ Cardinality(n.batch) = 1,
         UNCHANGED <<way, eligible, level, decided, proof>>
  PROVE  PlanInv'
  <1>1. /\ level \in {"outer", "inner"} /\ frame' = [frame EXCEPT ![level] = n]
        /\ frame \in [{"outer", "inner"} -> Frames] /\ frame' \in [{"outer", "inner"} -> Frames]
    BY DEF PlanInv, PlanTypes, Becomes
  <1>2. PlanTypes'
    BY <1>1 DEF PlanInv, PlanTypes
  <1>3. CASE level = "outer"
    <2>1. frame'["outer"] = n /\ Asks(n, eligible, Truth)
      BY <1>1, <1>3 DEF Asked, Offered
    <2>2. Planning'
      BY <1>3, <2>1 DEF Planning
    <2>3. QED
      BY <1>2, <2>2 DEF PlanInv
  <1>4. CASE level = "inner"
    <2>1. frame'["inner"] = n /\ frame'["outer"] = frame["outer"]
      BY <1>1, <1>4
    <2>2. Asks(n, frame["outer"].batch, frame["outer"].open)
      BY <1>4 DEF Asked, Offered
    <2>3. Asks(frame["outer"], eligible, Truth)
      BY NowAsks
    <2>4. Planning'
      BY <1>4, <2>1, <2>2, <2>3 DEF Planning
    <2>5. QED
      BY <1>2, <2>4 DEF PlanInv
  <1>5. QED
    BY <1>1, <1>3, <1>4

\* A batch's decision is taken up.
LEMMA TakenUp ==
  ASSUME NEW who \in SUBSET Point, NEW offered, NEW f \in Frames, Asks(f, who, offered),
         NEW g \in WholePlans, Covers(g, f.batch), Within(g, f.batch, offered),
         NEW n, n = TakesUp(f, f.batch, g)
  PROVE  n \in Frames /\ n.batch = {} /\ n.left = f.left /\ Asks(n, who, offered)
  <1> DEFINE moves == [c \in Point |-> IF c \in f.batch THEN g[c] ELSE f.moves[c]]
  <1>1. f.left \in SUBSET Point /\ f.batch \in SUBSET Point /\ f.open \in SUBSET Truth /\ f.moves \in WholePlans
    BY DEF Frames
  <1>2. moves \in WholePlans
    BY <1>1 DEF WholePlans
  <1>3. \A c \in Point : moves[c] = IF c \in f.batch THEN g[c] ELSE f.moves[c]
    OBVIOUS
  <1>4. n = [f EXCEPT !.batch = {}, !.open = f.open \ Changed(g), !.moves = moves]
    BY DEF TakesUp
  <1> HIDE DEF moves
  <1>5. n.left = f.left /\ n.batch = {} /\ n.open = f.open \ Changed(g) /\ n.moves = moves
    BY <1>4 DEF Frames
  <1>6. n \in Frames
    BY <1>1, <1>2, <1>4 DEF Frames
  <1>7. Covers(moves, who \ f.left)
    BY <1>1, <1>3 DEF Asks, Covers
  <1>8. \A c \in Point : \A i \in DOMAIN moves[c] : moves[c][i].on \subseteq offered
    BY <1>3 DEF Asks, Within
  <1>9. QED
    BY <1>5, <1>6, <1>7, <1>8 DEF Asks

\* What the model may answer are plans.
LEMMA AnswersArePlans ==
  ASSUME NEW who \in SUBSET Point, NEW open, NEW g \in Answers(who, open)
  PROVE  g \in WholePlans
  <1> DEFINE M == {m \in Move : m.on \subseteq open}
  <1>1. PICK h \in [who -> BoundedSeq(M, MaxExtra + 1) \ {<<>>}] :
             g = [c \in Point |-> IF c \in who THEN h[c] ELSE <<>>]
    BY DEF Answers
  <1>2. BoundedSeq(M, MaxExtra + 1) \subseteq MoveSeqs
    <2>1. SUFFICES ASSUME NEW s \in BoundedSeq(M, MaxExtra + 1) PROVE s \in MoveSeqs
      OBVIOUS
    <2>2. PICK k \in 0 .. MaxExtra + 1 : s \in [1 .. k -> M]
      BY DEF BoundedSeq, SeqOf
    <2>3. MaxExtra \in Nat
      BY PlanAssumption
    <2>4. s \in [1 .. k -> Move] /\ k \in Nat /\ k <= MaxExtra + 1
      BY <2>2, <2>3
    <2>5. s \in Seq(Move) /\ Len(s) = k
      BY <2>4
    <2>6. QED
      BY <2>4, <2>5 DEF MoveSeqs
  <1>3. QED
    BY <1>1, <1>2, MovesAre DEF WholePlans

-----------------------------------------------------------------------------
\* The candidates with verified evidence are put before the model.
LEMMA StartKeeps ==
  ASSUME PlanInv, Start
  PROVE  PlanInv'
  <1>1. PICK e \in SUBSET Point :
             /\ eligible' = e
             /\ frame' = [frame EXCEPT !["outer"] = [Blank EXCEPT !.left = e, !.open = Truth]]
    BY DEF Start
  <1>2. /\ way' = "worker" /\ stage' = "asking" /\ level = "outer"
        /\ UNCHANGED <<level, tries, decided, proof>>
    BY DEF Start, PlanInv
  <1> DEFINE n == [Blank EXCEPT !.left = e, !.open = Truth]
  <1>3. Undecided \in WholePlans /\ \A c \in Point : Undecided[c] = <<>>
    BY MovesAre DEF Undecided, WholePlans
  <1>4. n.left = e /\ n.batch = {} /\ n.open = Truth /\ n.moves = Undecided
    BY DEF Blank
  <1>5. n \in Frames
    BY <1>3 DEF Frames, Blank
  <1> HIDE DEF n
  <1>6. Asks(n, e, Truth)
    BY <1>3, <1>4 DEF Asks, Covers
  <1>7. frame \in [{"outer", "inner"} -> Frames]
    BY DEF PlanInv, PlanTypes
  <1>8. frame' \in [{"outer", "inner"} -> Frames] /\ frame'["outer"] = n
    BY <1>1, <1>5, <1>7 DEF n
  <1>9. PlanTypes'
    BY <1>1, <1>2, <1>8 DEF PlanInv, PlanTypes
  <1>10. Planning'
    BY <1>1, <1>2, <1>6, <1>8 DEF Planning
  <1>11. QED
    BY <1>2, <1>9, <1>10 DEF PlanInv

\* A batch is taken of those that are left.
LEMMA TakeBatchKeeps ==
  ASSUME PlanInv, TakeBatch
  PROVE  PlanInv'
  <1>1. PICK b \in SUBSET Now.left :
             /\ level = "inner" => Cardinality(b) = 1
             /\ Becomes([Now EXCEPT !.batch = b, !.left = @ \ b])
    BY DEF TakeBatch
  <1>2. stage = "asking" /\ Now.batch = {} /\ tries' = 0 /\ UNCHANGED <<way, eligible, stage, level, decided, proof>>
    BY DEF TakeBatch
  <1>3. Now \in Frames /\ Asks(Now, Asked, Offered)
    BY <1>2, NowAsks
  <1> DEFINE n == [Now EXCEPT !.batch = b, !.left = Now.left \ b]
  <1>4. n \in Frames /\ n.batch = b /\ n.left = Now.left \ b /\ n.open = Now.open /\ n.moves = Now.moves
    BY <1>3 DEF Frames
  <1>5. Becomes(n)
    BY <1>1
  <1> HIDE DEF n
  <1>6. b \cup (Now.left \ b) = Now.left \cup Now.batch
    BY <1>2
  <1>7. Asks(n, Asked, Offered)
    BY <1>2, <1>3, <1>4, <1>6 DEF Asks
  <1>8. QED
    BY <1>1, <1>2, <1>4, <1>5, <1>7, FrameGoes

\* An answer that passes the checks stands.
LEMMA TakeAnswerKeeps ==
  ASSUME PlanInv, TakeAnswer
  PROVE  PlanInv'
  <1>1. stage = "asking" /\ tries' = 0 /\ UNCHANGED <<way, eligible, stage, level, decided, proof>>
    BY DEF TakeAnswer
  <1>2. PICK g \in Answers(Now.batch, Now.open) :
             Consistent(g, Now.batch, Now.open) /\ Becomes(TakesUp(Now, Now.batch, g))
    BY DEF TakeAnswer
  <1>3. Now \in Frames /\ Asks(Now, Asked, Offered) /\ Asked \in SUBSET Point /\ Now.batch \in SUBSET Point
    BY <1>1, NowAsks DEF Frames
  <1>4. g \in WholePlans
    BY <1>2, <1>3, AnswersArePlans
  <1>5. Covers(g, Now.batch) /\ Within(g, Now.batch, Offered)
    <2>1. Now.open \subseteq Offered
      BY <1>3 DEF Asks
    <2>2. Covers(g, Now.batch) /\ \A c \in Now.batch : \A i \in DOMAIN g[c] : g[c][i].on \subseteq Now.open
      BY <1>2, <1>3, <1>4, ConsistentIs
    <2>3. QED
      BY <2>1, <2>2 DEF Within
  <1> DEFINE n == TakesUp(Now, Now.batch, g)
  <1>6. n \in Frames /\ n.batch = {} /\ Asks(n, Asked, Offered)
    <2>1. n = TakesUp(Now, Now.batch, g)
      OBVIOUS
    <2> HIDE DEF n
    <2>2. QED
      BY <1>3, <1>4, <1>5, <2>1, TakenUp
  <1>7. Becomes(n)
    BY <1>2
  <1> HIDE DEF n
  <1>8. QED
    BY <1>1, <1>6, <1>7, FrameGoes

\* A single candidate without a usable answer is deferred.
LEMMA DeferPointKeeps ==
  ASSUME PlanInv, DeferPoint
  PROVE  PlanInv'
  <1> DEFINE g == [c \in Point |-> IF c \in Now.batch THEN Deferral ELSE <<>>]
             n == TakesUp(Now, Now.batch, g)
  <1>1. stage = "asking" /\ tries' = 0 /\ Becomes(n) /\ UNCHANGED <<way, eligible, stage, level, decided, proof>>
    BY DEF DeferPoint
  <1>2. Now \in Frames /\ Asks(Now, Asked, Offered) /\ Asked \in SUBSET Point /\ Now.batch \in SUBSET Point
    BY <1>1, NowAsks DEF Frames
  <1>3. g \in WholePlans /\ Deferral # <<>> /\ \A i \in DOMAIN Deferral : Deferral[i].on = {}
    BY MovesAre DEF WholePlans, Deferral
  <1>4. Covers(g, Now.batch) /\ Within(g, Now.batch, Offered)
    BY <1>2, <1>3 DEF Covers, Within
  <1> HIDE DEF g
  <1>5. n \in Frames /\ n.batch = {} /\ Asks(n, Asked, Offered)
    <2>1. n = TakesUp(Now, Now.batch, g)
      OBVIOUS
    <2> HIDE DEF n
    <2>2. QED
      BY <1>2, <1>3, <1>4, <2>1, TakenUp, SMTT(40)
  <1> HIDE DEF n
  <1>6. QED
    BY <1>1, <1>5, FrameGoes

\* A refused answer is only counted.
LEMMA RefuseAnswerKeeps ==
  ASSUME PlanInv, RefuseAnswer
  PROVE  PlanInv'
  <1>1. tries' \in 0 .. 2 /\ UNCHANGED <<way, eligible, stage, level, frame, decided, proof>>
    BY DEF RefuseAnswer, PlanInv, PlanTypes
  <1>2. PlanTypes'
    BY <1>1 DEF PlanInv, PlanTypes
  <1>3. QED
    BY <1>1, <1>2 DEF PlanInv, Planning, Now, SingleIsApproved, Consistent, Covers,
       Collisions, UsesOf

\* A batch without a usable answer is asked again, one by one.
LEMMA FallBackKeeps ==
  ASSUME PlanInv, FallBack
  PROVE  PlanInv'
  <1> DEFINE n == [Blank EXCEPT !.left = Now.batch, !.open = Now.open]
  <1>1. /\ stage = "asking" /\ Cardinality(Now.batch) > 1 /\ level' = "inner" /\ tries' = 0
        /\ frame' = [frame EXCEPT !["inner"] = n]
        /\ UNCHANGED <<way, eligible, stage, decided, proof>>
    BY DEF FallBack
  <1>2. level = "outer"
    BY <1>1, FS_EmptySet, NowAsks DEF PlanInv, Planning, Now
  <1>3. /\ frame["outer"] \in Frames /\ Asks(frame["outer"], eligible, Truth) /\ Now = frame["outer"]
        /\ frame \in [{"outer", "inner"} -> Frames]
    BY <1>1, <1>2, NowAsks DEF Now, PlanInv, PlanTypes
  <1>4. Undecided \in WholePlans /\ \A c \in Point : Undecided[c] = <<>>
    BY MovesAre DEF Undecided, WholePlans
  <1>5. n.left = Now.batch /\ n.batch = {} /\ n.open = Now.open /\ n.moves = Undecided
    BY DEF Blank
  <1>6. n \in Frames
    BY <1>3, <1>4 DEF Frames, Blank
  <1> HIDE DEF n
  <1>7. Asks(n, Now.batch, Now.open)
    BY <1>4, <1>5 DEF Asks, Covers
  <1>8. frame' \in [{"outer", "inner"} -> Frames] /\ frame'["inner"] = n /\ frame'["outer"] = frame["outer"]
    BY <1>1, <1>3, <1>6
  <1>9. PlanTypes'
    BY <1>1, <1>8 DEF PlanInv, PlanTypes
  <1>10. Planning'
    BY <1>1, <1>3, <1>5, <1>7, <1>8 DEF Planning
  <1>11. QED
    BY <1>1, <1>9, <1>10 DEF PlanInv

\* A level's decision is consistent: it is the plan, or the decision of the batch
\* that the level stands for.
LEMMA EndsKeeps ==
  ASSUME PlanInv, stage \in {"asking", "colliding"}, NEW g \in WholePlans, Consistent(g, Asked, Offered),
         Ends(g), tries' = 0, UNCHANGED <<way, eligible, proof>>
  PROVE  PlanInv'
  <1>1. CASE level = "outer"
    <2>1. stage' = "agreed" /\ decided' = g /\ UNCHANGED <<level, frame>>
      BY <1>1 DEF Ends
    <2>2. Consistent(g, eligible, Truth)
      BY <1>1 DEF Asked, Offered
    <2>3. PlanTypes'
      BY <2>1 DEF PlanInv, PlanTypes
    <2>4. (Consistent(decided, eligible, Truth))'
      BY <2>1, <2>2 DEF Consistent, Covers, Collisions, UsesOf
    <2>5. QED
      BY <2>1, <2>3, <2>4 DEF PlanInv
  <1>2. CASE level = "inner"
    <2> DEFINE out == frame["outer"]
               n == TakesUp(out, out.batch, g)
    <2>1. Consistent(g, out.batch, out.open)
      BY <1>2 DEF Asked, Offered
    <2>2. /\ stage' = "asking" /\ level' = "outer" /\ UNCHANGED decided
          /\ frame' = [outer |-> n, inner |-> Blank]
      BY <1>2, <2>1 DEF Ends
    <2>3. out \in Frames /\ Asks(out, eligible, Truth) /\ eligible \in SUBSET Point
          /\ out.batch \in SUBSET Point /\ out.open \subseteq Truth
      BY NowAsks DEF Frames
    <2>4. Covers(g, out.batch) /\ Within(g, out.batch, Truth)
      <3> HIDE DEF out
      <3>1. QED
        BY <2>1, <2>3, ConsistentIs DEF Within
    <2>5. n \in Frames /\ Asks(n, eligible, Truth)
      <3>1. n = TakesUp(out, out.batch, g)
        OBVIOUS
      <3> HIDE DEF n, out
      <3>2. QED
        BY <2>3, <2>4, <3>1, TakenUp
    <2> HIDE DEF n, out
    <2>6. Blank \in Frames
      BY MovesAre DEF Blank, Frames, Undecided, WholePlans
    <2>7. frame' \in [{"outer", "inner"} -> Frames] /\ frame'["outer"] = n
      BY <2>2, <2>5, <2>6
    <2>8. PlanTypes'
      BY <2>2, <2>7 DEF PlanInv, PlanTypes
    <2>9. Planning'
      BY <2>2, <2>5, <2>7 DEF Planning
    <2>10. QED
      BY <2>2, <2>8, <2>9 DEF PlanInv
  <1>3. QED
    BY <1>1, <1>2, NowAsks

\* A level is done with all its batches: their decisions are put together.
LEMMA CombineKeeps ==
  ASSUME PlanInv, Combine
  PROVE  PlanInv'
  <1>1. /\ stage = "asking" /\ Now.batch = {} /\ Now.left = {} /\ tries' = 0
        /\ UNCHANGED <<way, eligible, proof>>
    BY DEF Combine
  <1>2. Now \in Frames /\ Asks(Now, Asked, Offered) /\ Asked \in SUBSET Point /\ Now.moves \in WholePlans
    BY <1>1, NowAsks DEF Frames
  <1>3. CASE Consistent(Now.moves, Asked, Offered)
    <2>1. Ends(Now.moves)
      BY <1>3 DEF Combine
    <2>2. QED
      BY <1>1, <1>2, <1>3, <2>1, EndsKeeps
  <1>4. CASE ~Consistent(Now.moves, Asked, Offered)
    <2>1. Covers(Now.moves, Asked)
      BY <1>1, <1>2 DEF Asks
    <2>2. \A c \in Asked : \A i \in DOMAIN Now.moves[c] : Now.moves[c][i].on \subseteq Offered
      BY <1>2 DEF Asks
    <2>3. Collisions(Now.moves) # {}
      BY <1>2, <1>4, <2>1, <2>2, ConsistentIs
    <2>4. stage' = "colliding" /\ UNCHANGED <<level, frame, decided>>
      BY <1>4, <2>3 DEF Combine
    <2>5. PlanTypes'
      BY <1>1, <2>4 DEF PlanInv, PlanTypes
    <2>6. Planning'
      BY <1>1, <2>4 DEF PlanInv, Planning, Now
    <2>7. QED
      BY <1>1, <2>4, <2>5, <2>6 DEF PlanInv
  <1>5. QED
    BY <1>3, <1>4

\* The candidates that collide are decided again; what comes out is consistent.
LEMMA ResolveKeeps ==
  ASSUME PlanInv, Resolve
  PROVE  PlanInv'
  <1> DEFINE moves == Now.moves
             who == ColliderOf(moves)
  <1>1. stage = "colliding" /\ tries' = 0 /\ UNCHANGED <<way, eligible, proof>>
    BY DEF Resolve
  <1>2. PICK g \in Answers(who, Collisions(moves)) :
             /\ Consistent(g, who, Collisions(moves)) /\ Terminal(g)
             /\ LET all == [c \in Point |-> IF c \in who THEN g[c] ELSE moves[c]] IN
                IF Consistent(all, Asked, Offered)
                THEN Ends(all)
                ELSE stage' = "refused" /\ UNCHANGED <<level, frame, decided>>
    BY DEF Resolve, Colliding
  <1> DEFINE all == [c \in Point |-> IF c \in who THEN g[c] ELSE moves[c]]
  <1>3. /\ Asks(Now, Asked, Offered) /\ Asked \in SUBSET Point /\ moves \in WholePlans
        /\ Now.batch = {} /\ Now.left = {}
    BY <1>1, NowAsks DEF Frames, PlanInv, Planning
  <1>4. Covers(moves, Asked) /\ \A c \in Point : \A i \in DOMAIN moves[c] : moves[c][i].on \subseteq Offered
    BY <1>3 DEF Asks
  <1> HIDE DEF moves
  <1>5. who \in SUBSET Point /\ g \in WholePlans
    <2>1. who \in SUBSET Point
      BY DEF ColliderOf
    <2> HIDE DEF who
    <2>2. QED
      BY <1>2, <2>1, AnswersArePlans
  <1>6. who \subseteq Asked
    <2>1. \A c \in who : moves[c] # <<>>
      BY <1>3, CollidersAre DEF ColliderOf
    <2>2. QED
      BY <1>4, <1>5, <2>1 DEF Covers
  <1>7. Collisions(moves) \subseteq Offered
    BY <1>3, <1>4, CollisionsAre DEF Meet
  <1>8. all \in WholePlans
    <2> HIDE DEF who
    <2>1. QED
      BY <1>3, <1>5 DEF WholePlans
  <1>9. Covers(g, who) /\ \A c \in who : \A i \in DOMAIN g[c] : g[c][i].on \subseteq Collisions(moves)
    <2> HIDE DEF who
    <2>1. QED
      BY <1>2, <1>5, ConsistentIs
  <1>10. Collisions(all) = {}
    <2>1. \A t \in Truth : Cardinality(UsesOf(g, t)) <= 1
      BY <1>2 DEF Terminal
    <2>2. all = [c \in Point |-> IF c \in ColliderOf(moves) THEN g[c] ELSE moves[c]]
      OBVIOUS
    <2>3. \A c \in ColliderOf(moves) : \A i \in DOMAIN g[c] : g[c][i].on \subseteq Collisions(moves)
      BY <1>9
    <2> HIDE DEF all, who
    <2>4. QED
      BY <1>3, <1>5, <1>8, <2>1, <2>2, <2>3, ResolvedIsClear
  <1> HIDE DEF who
  <1>11. Covers(all, Asked)
    BY <1>4, <1>5, <1>6, <1>9 DEF Covers
  <1>12. \A c \in Asked : \A i \in DOMAIN all[c] : all[c][i].on \subseteq Offered
    BY <1>3, <1>4, <1>7, <1>9
  <1>13. Consistent(all, Asked, Offered)
    <2> HIDE DEF all
    <2>1. QED
      BY <1>3, <1>8, <1>10, <1>11, <1>12, ConsistentIs
  <1>14. Ends(all)
    BY <1>2, <1>13
  <1> HIDE DEF all
  <1>15. QED
    BY <1>1, <1>8, <1>13, <1>14, EndsKeeps

\* A plan that fails is none.
LEMMA PlanningFailsKeeps ==
  ASSUME PlanInv, PlanningFails
  PROVE  PlanInv'
  <1>1. stage' = "failed" /\ UNCHANGED <<way, eligible, level, frame, tries, decided, proof>>
    BY DEF PlanningFails
  <1>2. PlanTypes'
    BY <1>1 DEF PlanInv, PlanTypes
  <1>3. QED
    BY <1>1, <1>2 DEF PlanInv

-----------------------------------------------------------------------------
\* Among the places of a decision there is a last one.
LEMMA LastPlace ==
  ASSUME NEW N \in Nat, NEW S, S \subseteq 1 .. N, S # {}
  PROVE  Max(S) \in S
  <1> DEFINE R == {ss \in Nat \X Nat : ss[1] < ss[2]}
             T == {N - x : x \in S}
  <1>1. IsWellFoundedOn(R, Nat)
    BY NatLessThanWellFounded DEF OpToRel
  <1>2. \A x \in S : x \in Nat /\ N - x \in Nat
    OBVIOUS
  <1>3. T \subseteq Nat /\ T # {}
    BY <1>2
  <1> HIDE DEF T
  <1>4. PICK a \in T : \A b \in T : ~ (<<b, a>> \in R)
    BY ONLY <1>1, <1>3, WFMin
  <1>5. PICK x \in S : a = N - x
    BY DEF T
  <1>6. ASSUME NEW y \in S PROVE x >= y
    <2>1. N - y \in T /\ N - y \in Nat /\ a \in Nat
      BY <1>2, <1>3 DEF T
    <2>2. ~ (<<N - y, a>>[1] < <<N - y, a>>[2])
      BY <1>4, <2>1
    <2>3. ~ (N - y < N - x)
      BY <1>5, <2>2
    <2>4. QED
      BY <1>2, <2>3
  <1>7. QED
    BY <1>6 DEF Max

\* What is put on record of a decision, and of a single move.
LEMMA LastCommittingIs ==
  ASSUME NEW s \in MoveSeqs
  PROVE  /\ LastCommitting(s) \in Move \cup {NoMove}
         /\ Len(s) = 1 /\ Commits(s[1]) => LastCommitting(s) = s[1]
  <1> DEFINE places == {i \in DOMAIN s : Commits(s[i])}
  <1>1. LastCommitting(s) = IF places = {} THEN NoMove ELSE s[Max(places)]
    BY DEF LastCommitting
  <1>2. DOMAIN s = 1 .. Len(s) /\ Len(s) \in Nat /\ places \subseteq 1 .. Len(s)
    BY DEF MoveSeqs
  <1>3. places # {} => Max(places) \in places
    <2> HIDE DEF places
    <2>1. QED
      BY <1>2, LastPlace
  <1>4. places # {} => s[Max(places)] \in Move
    BY <1>3, MovesAre
  <1>5. ASSUME Len(s) = 1, Commits(s[1]) PROVE places = {1}
    BY <1>2, <1>5
  <1>6. QED
    BY <1>1, <1>3, <1>4, <1>5

\* What fails the last check is deferred as a whole, and the plan stays
\* consistent.
LEMMA ScopeCheckKeeps ==
  ASSUME PlanInv, ScopeCheck
  PROVE  PlanInv'
  <1>1. stage = "agreed" /\ stage' = "planned" /\ UNCHANGED <<way, eligible, level, frame, tries>>
    BY DEF ScopeCheck
  <1>2. PICK blocked \in SUBSET eligible :
             /\ decided' = AfterScope(decided, blocked)
             /\ proof' = [c \in Point |-> IF c \in blocked THEN NoMove ELSE LastCommitting(decided[c])]
    BY DEF ScopeCheck
  <1>3. decided \in WholePlans /\ eligible \in SUBSET Point /\ Consistent(decided, eligible, Truth)
    BY <1>1 DEF PlanInv, PlanTypes
  <1> DEFINE h == AfterScope(decided, blocked)
  <1>4. ASSUME NEW c \in Point
        PROVE  /\ c \notin blocked => h[c] = decided[c]
               /\ c \in blocked => \A i \in DOMAIN h[c] : h[c][i] = Deferral[1]
               /\ DOMAIN h[c] = DOMAIN decided[c] /\ h[c] \in MoveSeqs
               /\ h[c] = <<>> <=> decided[c] = <<>>
    <2>1. h[c] = IF c \in blocked THEN [i \in DOMAIN decided[c] |-> Deferral[1]] ELSE decided[c]
      BY DEF AfterScope
    <2>2. decided[c] \in Seq(Move) /\ Len(decided[c]) <= MaxExtra + 1 /\ Deferral[1] \in Move
      BY <1>3, MovesAre DEF WholePlans, MoveSeqs
    <2>3. /\ [i \in DOMAIN decided[c] |-> Deferral[1]] \in Seq(Move)
          /\ Len([i \in DOMAIN decided[c] |-> Deferral[1]]) = Len(decided[c])
          /\ DOMAIN [i \in DOMAIN decided[c] |-> Deferral[1]] = DOMAIN decided[c]
      BY <2>2
    <2>4. QED
      BY <2>1, <2>2, <2>3 DEF MoveSeqs
  <1>5. h \in WholePlans
    <2>1. h = [c \in Point |-> h[c]]
      BY DEF AfterScope
    <2>2. QED
      BY <1>4, <2>1 DEF WholePlans
  <1> HIDE DEF h
  <1>6. Deferral[1].on = {} /\ ~Commits(Deferral[1])
    BY MovesAre
  <1>7. Consistent(h, eligible, Truth)
    <2>1. Collisions(h) \subseteq Collisions(decided)
      BY <1>3, <1>4, <1>5, <1>6, UsingLess
    <2>2. Covers(h, eligible)
      BY <1>3, <1>4 DEF Consistent, Covers
    <2>3. \A c \in eligible : \A i \in DOMAIN h[c] : h[c][i].on \subseteq Truth
      BY <1>3, <1>5, MovesAre DEF WholePlans
    <2>4. Collisions(decided) = {}
      BY <1>3 DEF Consistent
    <2>5. QED
      BY <1>3, <1>5, <2>1, <2>2, <2>3, <2>4, ConsistentIs
  <1>8. \A c \in Point : decided[c] \in MoveSeqs
    BY <1>3 DEF WholePlans
  <1>9. proof' \in [Point -> Move \cup {NoMove}]
    BY <1>2, <1>8, LastCommittingIs
  <1>10. decided' = h
    BY <1>2 DEF h
  <1>11. PlanTypes'
    BY <1>1, <1>5, <1>9, <1>10 DEF PlanInv, PlanTypes
  <1>12. (Consistent(decided, eligible, Truth))'
    BY <1>1, <1>7, <1>10 DEF Consistent, Covers, Collisions, UsesOf
  <1>13. SingleIsApproved'
    <2>1. SUFFICES ASSUME NEW c \in Point, Len(h[c]) = 1, Commits(h[c][1])
          PROVE  proof'[c] = h[c][1]
      BY <1>10 DEF SingleIsApproved
    <2>2. 1 \in DOMAIN h[c]
      BY <1>4, <2>1 DEF MoveSeqs
    <2>3. c \notin blocked /\ h[c] = decided[c]
      BY <1>4, <1>6, <2>1, <2>2
    <2>4. QED
      BY <1>2, <1>8, <2>1, <2>3, LastCommittingIs
  <1>14. QED
    BY <1>1, <1>11, <1>12, <1>13 DEF PlanInv

\* An agent's proposals, with those that collide deferred.
LEMMA ProposalsPlannedKeeps ==
  ASSUME PlanInv, ProposalsPlanned
  PROVE  PlanInv'
  <1>1. PICK e \in SUBSET Point, g \in [Point -> {<<m>> : m \in Move} \cup {<<>>}] :
          LET usable == [c \in Point |-> IF c \notin e THEN <<>>
                                         ELSE IF g[c] = <<>> THEN Deferral ELSE g[c]]
          IN  /\ \A c \in Point \ e : g[c] = <<>>
              /\ eligible' = e
              /\ decided' = [c \in Point |-> IF c \in ColliderOf(usable) THEN Deferral ELSE usable[c]]
              /\ stage' = IF e = Point /\ \A c \in e : g[c] = <<>> THEN "failed" ELSE "planned"
    BY DEF ProposalsPlanned
  <1>2. way' = "agent" /\ UNCHANGED <<level, frame, tries, proof>>
    BY DEF ProposalsPlanned
  <1> DEFINE usable == [c \in Point |-> IF c \notin e THEN <<>>
                                        ELSE IF g[c] = <<>> THEN Deferral ELSE g[c]]
             h == [c \in Point |-> IF c \in ColliderOf(usable) THEN Deferral ELSE usable[c]]
  <1>3. eligible' = e /\ decided' = h /\ stage' \in {"failed", "planned"}
    BY <1>1
  <1>4. usable \in WholePlans /\ \A c \in Point : usable[c] = <<>> <=> c \notin e
    BY MovesAre DEF WholePlans
  <1> HIDE DEF usable
  <1>5. ColliderOf(usable) \subseteq e
    BY <1>4, CollidersAre DEF ColliderOf
  <1>6. h \in WholePlans /\ Covers(h, e)
    BY <1>4, <1>5, MovesAre DEF WholePlans, Covers
  <1>7. Collisions(h) = {}
    <2>1. h = [c \in Point |-> IF c \in ColliderOf(usable) THEN Deferral ELSE usable[c]]
      OBVIOUS
    <2> HIDE DEF h
    <2>2. QED
      BY <1>4, <1>6, <2>1, DeferredIsClear
  <1> HIDE DEF h
  <1>8. Consistent(h, e, Truth)
    <2>1. \A c \in e : \A i \in DOMAIN h[c] : h[c][i].on \subseteq Truth
      BY <1>6, MovesAre DEF WholePlans
    <2>2. QED
      BY <1>6, <1>7, <2>1, ConsistentIs
  <1>9. PlanTypes'
    BY <1>2, <1>3, <1>6 DEF PlanInv, PlanTypes
  <1>10. (Consistent(decided, eligible, Truth))'
    BY <1>3, <1>8 DEF Consistent, Covers, Collisions, UsesOf
  <1>11. QED
    BY <1>2, <1>3, <1>9, <1>10 DEF PlanInv

\* Before anything is planned.
LEMMA PlanInitHolds == PlanInit => PlanInv
  <1> SUFFICES ASSUME PlanInit PROVE PlanInv
    OBVIOUS
  <1>1. Undecided \in WholePlans /\ Blank \in Frames
    BY MovesAre DEF Undecided, Blank, WholePlans, Frames
  <1>2. PlanTypes
    BY <1>1 DEF PlanInit, PlanTypes
  <1>3. QED
    BY <1>2 DEF PlanInit, PlanInv

\* Every step.
LEMMA PlanNextKeeps ==
  ASSUME PlanInv, [PlanNext]_planVars
  PROVE  PlanInv'
  <1>1. CASE UNCHANGED planVars
    BY <1>1 DEF planVars, PlanInv, PlanTypes, Planning, Now, SingleIsApproved, Consistent,
       Covers,
                Collisions, UsesOf
  <1>2. CASE PlanNext
    BY <1>2, StartKeeps, TakeBatchKeeps, TakeAnswerKeeps, RefuseAnswerKeeps, FallBackKeeps,
       DeferPointKeeps, CombineKeeps, ResolveKeeps, PlanningFailsKeeps, ScopeCheckKeeps,
       ProposalsPlannedKeeps DEF PlanNext
  <1>3. QED
    BY <1>1, <1>2

(* What a level has decided covers whom it has asked and uses what it was        *)
(* offered, for any candidates, truths, batches and answers                      *)
(* (_assimilate_prepared_in_bounded_batches).                                    *)
THEOREM PlanInvariant == PlanSpec => []PlanInv
  <1>1. PlanInv /\ [PlanNext]_planVars => PlanInv'
    BY PlanNextKeeps
  <1>2. QED
    BY <1>1, PlanInitHolds, PTL DEF PlanSpec

(* The planner never refuses its own work, and a plan that splits no candidate  *)
(* passes the second validation as it was planned                               *)
(* (validate_separated_assimilation_decision, _validate_apply_points).          *)
THEOREM PlansAlwaysApply == PlanSpec => []PlansApply
  <1>1. ASSUME PlanInv PROVE PlansApply
    <2>1. \A g \in WholePlans : Decisions(g)
      BY DEF WholePlans, MoveSeqs, Decisions, Range
    <2>2. PlanTypeOK
      BY <1>1, <2>1 DEF PlanInv, PlanTypes, PlanTypeOK, Frames
    <2>3. ASSUME stage = "planned", \A c \in Point : Len(decided[c]) <= 1 PROVE Applies
      <3>1. Consistent(decided, eligible, Truth) /\ decided \in WholePlans
        BY <1>1, <2>3 DEF PlanInv, PlanTypes
      <3>2. ASSUME NEW c \in Point, way = "worker", decided[c] # <<>>, Commits(Last(decided[c]))
            PROVE  /\ proof[c] = Last(decided[c])
                   /\ \A m \in Range(decided[c]) : m.on = Last(decided[c]).on
        <4>1. decided[c] \in Seq(Move) /\ Len(decided[c]) = 1
          <5>1. decided[c] \in MoveSeqs
            BY <3>1 DEF WholePlans
          <5>2. Len(decided[c]) # 0 /\ decided[c] \in Seq(Move) /\ Len(decided[c]) \in Nat
            BY <3>2, <5>1, MovesAre
          <5>3. Len(decided[c]) <= 1
            BY <2>3
          <5>4. \A n \in Nat : n # 0 /\ n <= 1 => n = 1
            OBVIOUS
          <5>5. QED
            BY ONLY <5>2, <5>3, <5>4, Zenon
        <4>2. Last(decided[c]) = decided[c][1] /\ DOMAIN decided[c] = {1}
          BY <4>1 DEF Last
        <4>3. proof[c] = decided[c][1]
          BY <1>1, <2>3, <3>2, <4>1, <4>2 DEF PlanInv, SingleIsApproved
        <4>4. QED
          BY <4>2, <4>3 DEF Range
      <3>3. QED
        BY <3>1, <3>2 DEF Applies, Proved
    <2>4. QED
      BY <1>1, <2>2, <2>3 DEF PlansApply, PlanningIsSound, WholePointsApply, PlanInv
  <1>2. QED
    BY <1>1, PlanInvariant, PTL

=============================================================================
