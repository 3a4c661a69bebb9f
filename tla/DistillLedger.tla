--------------------------- MODULE DistillLedger ---------------------------
(***************************************************************************)
(* The durable distill ledger: storage/session_distill_store.py over the   *)
(* transcript rows of storage/transcript_store.py.  A captured session is  *)
(* a source with one current revision; every queued revision is one job    *)
(* whose chunks are leased, checkpointed, reviewed and completed by        *)
(* workers of several processes.  Every operation of the store is one      *)
(* BEGIN IMMEDIATE transaction and so one action here; the two writers     *)
(* that read the source row outside their transaction are two actions.     *)
(*                                                                         *)
(* Time is abstracted to two facts that the code compares with the clock:  *)
(* a lease is live or has run out, and a retry backoff is still waiting or *)
(* is over.  Renewing a live lease keeps it live, and is a stutter here.   *)
(***************************************************************************)
EXTENDS Integers, FiniteSets

CONSTANTS
    Source,          \* captured sessions of one project
    Revision,        \* contents a native session file can show
    Chunk,           \* the chunks a revision is split into
    Worker,          \* lease owners
    Interactive,     \* those that claim as "interactive_agent"
    RecoveryBudget,  \* job.recovery_budget
    NoOne            \* no lease owner, no revision

ASSUME LedgerAssumption ==
    /\ Interactive \subseteq Worker
    /\ NoOne \notin Worker
    /\ NoOne \notin Revision
    /\ Chunk # {}
    /\ RecoveryBudget \in Nat \ {0}

VARIABLES
    row,       \* transcript_sources: the current-revision pointer and status
    evidence,  \* transcript_source_revisions and their chunks
    job,       \* distill_jobs and distill_job_chunks
    seen,      \* the source row a writer has read and not written back yet
    frozen     \* the jobs named by a published manual manifest

vars == <<row, evidence, job, seen, frozen>>

Job == Source \X Revision
Owner == Worker \cup {NoOne}

Active   == {"queued", "processing", "reviewing", "retryable", "parked"}
Terminal == {"completed", "failed", "stale"}

Row == [rev : Revision, status : {"synced", "missing", "pruned"}]
NoRow == [rev |-> NoOne, status |-> "absent"]

ChunkRecord ==
    [st : {"pending", "processing", "completed", "retryable", "failed", "deleted"},
     owner : Owner, live : BOOLEAN]

JobRecord ==
    [status : Active \cup Terminal \cup {"absent"},
     chunk : [Chunk -> ChunkRecord],
     reviewer : Owner, reviewLive : BOOLEAN,
     recovery : 0..RecoveryBudget, waiting : BOOLEAN, manual : BOOLEAN]

Unleased(st) == [st |-> st, owner |-> NoOne, live |-> FALSE]

NoJob ==
    [status |-> "absent", chunk |-> [c \in Chunk |-> Unleased("deleted")],
     reviewer |-> NoOne, reviewLive |-> FALSE,
     recovery |-> 0, waiting |-> FALSE, manual |-> FALSE]

NewJob(manual) ==
    [NoJob EXCEPT !.status = "queued",
                  !.chunk = [c \in Chunk |-> Unleased("pending")],
                  !.manual = manual]

TypeOK ==
    /\ row \in [Source -> Row \cup {NoRow}]
    /\ evidence \in [Job -> {"absent", "kept", "pruned"}]
    /\ job \in [Job -> JobRecord]
    /\ seen \in [Source -> Row \cup {NoRow}]
    /\ frozen \subseteq Job

Init ==
    /\ row = [s \in Source |-> NoRow]
    /\ evidence = [j \in Job |-> "absent"]
    /\ job = [j \in Job |-> NoJob]
    /\ seen = [s \in Source |-> NoRow]
    /\ frozen = {}

-----------------------------------------------------------------------------
(* What the transactions read of one job, and how they rewrite it. *)

Expired(x) == {c \in Chunk : x.chunk[c].st = "processing" /\ ~x.chunk[c].live}
Leased(x)  == {c \in Chunk : x.chunk[c].st = "processing" /\ x.chunk[c].live}
Open(x)    == {c \in Chunk : x.chunk[c].st \in {"pending", "retryable"}}
AllCompleted(x) == \A c \in Chunk : x.chunk[c].st = "completed"

\* Fault: the budget is compared with > and one recovery too many is allowed.
RecoverLate(x) ==
    IF x.recovery + 1 > RecoveryBudget
    THEN [x EXCEPT !.status = "failed", !.recovery = @ + 1]
    ELSE [x EXCEPT !.status = "retryable", !.recovery = @ + 1,
                   !.chunk = [c \in Chunk |-> IF c \in Expired(x)
                                              THEN Unleased("retryable") ELSE @[c]]]

\* One more recovery: the expired leases are freed and the job backs off, or
\* the budget is spent and whatever is not completed fails with the job.
Recover(x) ==
    IF x.recovery + 1 >= RecoveryBudget
    THEN [x EXCEPT !.status = "failed", !.recovery = @ + 1, !.waiting = FALSE,
                   !.chunk = [c \in Chunk |-> IF @[c].st \in {"completed", "deleted"}
                                              THEN @[c] ELSE Unleased("failed")]]
    ELSE [x EXCEPT !.status = "retryable", !.recovery = @ + 1, !.waiting = TRUE,
                   !.chunk = [c \in Chunk |-> IF c \in Expired(x)
                                              THEN Unleased("retryable") ELSE @[c]]]

\* Processing, yet nobody holds a chunk and some are left: taken for a crash.
LooksAbandoned(x) ==
    x.status = "processing" /\ Leased(x) = {} /\ Open(x) # {}

\* Faults: a job with nothing left to claim counts as read; the backoff of a
\* failed review is not honoured; a job without leases is not looked at.
ReconciledUnread(x) ==
    IF x.status \in Active /\ Open(x) = {} /\ Expired(x) = {}
    THEN [x EXCEPT !.status = "reviewing", !.waiting = FALSE] ELSE x

ReconciledEagerly(x) ==
    IF x.status \in Active /\ AllCompleted(x)
    THEN [x EXCEPT !.status = "reviewing", !.waiting = FALSE] ELSE x

ReconciledLeasesOnly(x) ==
    IF x.status \in Active /\ Expired(x) # {} THEN Recover(x) ELSE x

\* The restart pass over one job.
Reconciled(x) ==
    IF x.status \notin Active THEN x
    ELSE IF Expired(x) # {} \/ LooksAbandoned(x) THEN Recover(x)
    ELSE IF AllCompleted(x) /\ ~(x.status = "retryable" /\ x.waiting)
         THEN [x EXCEPT !.status = "reviewing", !.waiting = FALSE]
    ELSE x

\* Faults: the review lease survives; read chunks are handed out again.
DeferredInReview(x) == [x EXCEPT !.status = "retryable", !.waiting = TRUE]

DeferredFromScratch(x) ==
    [x EXCEPT !.status = "retryable", !.waiting = TRUE,
              !.reviewer = NoOne, !.reviewLive = FALSE,
              !.chunk = [c \in Chunk |-> Unleased("retryable")]]

\* A failed attempt gives every lease back and moves behind healthy work.
Deferred(x) ==
    [x EXCEPT !.status = "retryable", !.waiting = TRUE,
              !.reviewer = NoOne, !.reviewLive = FALSE,
              !.chunk = [c \in Chunk |-> IF @[c].st = "processing"
                                         THEN Unleased("retryable") ELSE @[c]]]

Superseded(x) == IF x.status \in Active THEN [x EXCEPT !.status = "stale"] ELSE x

\* A background caller is turned away from a manual job.
MayWork(w, x) == w \in Interactive \/ ~x.manual

BackgroundReview(x) ==
    x.reviewer # NoOne /\ x.reviewLive /\ x.reviewer \notin Interactive

Rewrite(j, x) == job' = [job EXCEPT ![j] = x]
-----------------------------------------------------------------------------
(* The transcript rows. *)

\* save_snapshot: one complete revision becomes the current one.  A pruned
\* revision no longer matches its hash, and a revision that has a job cannot
\* be saved again: its checkpoints hold a foreign key on the replaced chunks.
Capture(s, r) ==
    /\ evidence[<<s, r>>] # "pruned"
    /\ job[<<s, r>>].status = "absent"
    /\ row' = [row EXCEPT ![s] = [rev |-> r, status |-> "synced"]]
    /\ evidence' = [evidence EXCEPT ![<<s, r>>] = "kept"]
    /\ UNCHANGED <<job, seen, frozen>>

\* An inventory pass or a capture reads the source row before its write.
ReadRow(s) ==
    /\ row[s] # NoRow
    /\ seen[s] = NoRow
    /\ seen' = [seen EXCEPT ![s] = row[s]]
    /\ UNCHANGED <<row, evidence, job, frozen>>

\* The whole row that was read is written back, whatever was saved since.
WriteBack(s, from, to) ==
    /\ seen[s].status = from
    /\ row' = [row EXCEPT ![s] = [rev |-> seen[s].rev, status |-> to]]
    /\ seen' = [seen EXCEPT ![s] = NoRow]
    /\ UNCHANGED <<evidence, job, frozen>>

MarkMissing(s) == WriteBack(s, "synced", "missing")
Reappear(s)    == WriteBack(s, "missing", "synced")
Relocate(s)    == WriteBack(s, "synced", "synced")

LeaveRow(s) ==
    /\ seen[s] # NoRow
    /\ seen' = [seen EXCEPT ![s] = NoRow]
    /\ UNCHANGED <<row, evidence, job, frozen>>

\* Fault: a job that has ended is queued afresh.
QueuedAgain(x, recheck) ==
    IF x.status \in {"absent", "completed", "failed"} THEN NewJob(recheck)
    ELSE [x EXCEPT !.manual = @ \/ recheck]

\* A revision is queued once.
Queued(x, recheck) ==
    IF x.status = "absent" THEN NewJob(recheck) ELSE [x EXCEPT !.manual = @ \/ recheck]

\* enqueue: queue the current revision, and retire every other one.
Enqueue(s, recheck) ==
    LET j == <<s, row[s].rev>>
    IN  /\ row[s].status \in {"synced"} \cup (IF recheck THEN {"missing"} ELSE {})
        /\ evidence[j] = "kept"
        /\ job' = [k \in Job |-> CASE k = j -> Queued(job[k], recheck)
                                   [] k # j /\ k[1] = s -> Superseded(job[k])
                                   [] OTHER -> job[k]]
        /\ UNCHANGED <<row, evidence, seen, frozen>>

\* prune_completed_distill_evidence: the raw evidence of a completed current
\* revision goes, with the chunks of every revision of the source.
Prune(j) ==
    LET s == j[1] IN
    /\ job[j].status = "completed"
    /\ row[s].rev = j[2]
    /\ row' = [row EXCEPT ![s].status = "pruned"]
    /\ evidence' = [k \in Job |-> IF k[1] = s /\ evidence[k] = "kept"
                                  THEN "pruned" ELSE evidence[k]]
    /\ job' = [k \in Job |-> IF k[1] = s
                             THEN [job[k] EXCEPT !.chunk = NoJob.chunk] ELSE job[k]]
    /\ UNCHANGED <<seen, frozen>>
-----------------------------------------------------------------------------
(* Ownership by an explicit agent. *)

ReserveManual(j) ==
    /\ job[j].status # "absent"
    /\ ~BackgroundReview(job[j])
    /\ Rewrite(j, [job[j] EXCEPT !.manual = TRUE])
    /\ UNCHANGED <<row, evidence, seen, frozen>>

\* Fault: the selection is frozen over somebody's chunk lease.
FreezeOverChunks(J) ==
    /\ J # {}
    /\ \A j \in J : job[j].status # "absent" /\ ~BackgroundReview(job[j])
    /\ job' = [j \in Job |-> IF j \in J THEN [job[j] EXCEPT !.manual = TRUE] ELSE job[j]]
    /\ frozen' = frozen \cup J
    /\ UNCHANGED <<row, evidence, seen>>

\* freeze_manual_selection: the manifest is published with the reservation,
\* and only when nobody is at work on any selected job.
FreezeManual(J) ==
    /\ J # {}
    /\ \A j \in J : /\ job[j].status # "absent"
                    /\ ~BackgroundReview(job[j])
                    /\ Leased(job[j]) = {}
    /\ job' = [j \in Job |-> IF j \in J THEN [job[j] EXCEPT !.manual = TRUE] ELSE job[j]]
    /\ frozen' = frozen \cup J
    /\ UNCHANGED <<row, evidence, seen>>
-----------------------------------------------------------------------------
(* Structural reading: chunk leases. *)

\* A claim that meets an expired lease only repairs the job and returns none.
ClaimRecovers(j, w) ==
    /\ MayWork(w, job[j])
    /\ job[j].status \in Active \ {"parked"}
    /\ Expired(job[j]) # {}
    /\ Rewrite(j, Recover(job[j]))
    /\ UNCHANGED <<row, evidence, seen, frozen>>

ClaimChunks(j, w, C) ==
    /\ MayWork(w, job[j])
    /\ job[j].status \in Active \ {"parked"}
    /\ Expired(job[j]) = {}
    /\ ~job[j].waiting
    /\ C # {} /\ C \subseteq Open(job[j])
    /\ Rewrite(j, [job[j] EXCEPT
            !.status = "processing",
            !.chunk = [c \in Chunk |-> IF c \in C
                       THEN [st |-> "processing", owner |-> w, live |-> TRUE] ELSE @[c]]])
    /\ UNCHANGED <<row, evidence, seen, frozen>>

\* checkpoint_chunk looks at the chunk lease and not at the job's status.
CheckpointChunk(j, c, w) ==
    LET done == [job[j] EXCEPT !.chunk[c] = Unleased("completed")]
    IN  /\ job[j].chunk[c] = [st |-> "processing", owner |-> w, live |-> TRUE]
        /\ Rewrite(j, IF AllCompleted(done) THEN [done EXCEPT !.status = "reviewing"]
                      ELSE done)
        /\ UNCHANGED <<row, evidence, seen, frozen>>
-----------------------------------------------------------------------------
(* Semantic review: the review lease. *)

OthersLease(j, w) == job[j].reviewer \notin {NoOne, w}

\* Fault: a reviewing job is given to whoever asks.
ReviewOpenToAll(j, w) == MayWork(w, job[j]) /\ job[j].status = "reviewing"

ReviewOpen(j, w) ==
    /\ MayWork(w, job[j])
    /\ job[j].status = "reviewing"
    /\ ~(OthersLease(j, w) /\ job[j].reviewLive)

\* Taking over a lease that ran out is a recovery, and the last one fails.
ClaimReview(j, w) ==
    LET spent == job[j].recovery + (IF OthersLease(j, w) THEN 1 ELSE 0)
    IN  /\ ReviewOpen(j, w)
        /\ spent < RecoveryBudget
        /\ Rewrite(j, [job[j] EXCEPT !.reviewer = w, !.reviewLive = TRUE,
                                     !.recovery = spent])
        /\ UNCHANGED <<row, evidence, seen, frozen>>

ClaimReviewExhausts(j, w) ==
    /\ ReviewOpen(j, w)
    /\ OthersLease(j, w)
    /\ job[j].recovery + 1 >= RecoveryBudget
    /\ Rewrite(j, [job[j] EXCEPT !.status = "failed", !.recovery = @ + 1,
                                 !.reviewer = NoOne, !.reviewLive = FALSE])
    /\ UNCHANGED <<row, evidence, seen, frozen>>

ReleaseReview(j, w) ==
    /\ job[j].reviewer = w
    /\ Rewrite(j, [job[j] EXCEPT !.reviewer = NoOne, !.reviewLive = FALSE])
    /\ UNCHANGED <<row, evidence, seen, frozen>>

\* finalize, by the owner of a live review lease; completed is idempotent.
MayFinalize(j, w) ==
    /\ job[j].status # "completed"
    /\ job[j].reviewer = w
    /\ job[j].reviewLive

Finalize(j, w) ==
    /\ MayFinalize(j, w)
    /\ row[j[1]].rev = j[2]
    /\ AllCompleted(job[j])
    /\ evidence[j] = "kept"
    /\ Rewrite(j, [job[j] EXCEPT !.status = "completed",
                                 !.reviewer = NoOne, !.reviewLive = FALSE])
    /\ UNCHANGED <<row, evidence, seen, frozen>>

FinalizeStale(j, w) ==
    /\ MayFinalize(j, w)
    /\ row[j[1]].rev # j[2]
    /\ Rewrite(j, [job[j] EXCEPT !.status = "stale"])
    /\ UNCHANGED <<row, evidence, seen, frozen>>
-----------------------------------------------------------------------------
(* Failure, recovery and the queue. *)

\* Fault: a failed job can be deferred like any other.
DeferUnlessDone(j) ==
    /\ job[j].status \notin {"absent", "completed"}
    /\ Rewrite(j, Deferred(job[j]))
    /\ UNCHANGED <<row, evidence, seen, frozen>>

\* Anyone may defer: the store asks for no lease.
Defer(j) ==
    /\ job[j].status \in Active
    /\ Rewrite(j, Deferred(job[j]))
    /\ UNCHANGED <<row, evidence, seen, frozen>>

ReconcileSet(J) ==
    /\ job' = [j \in Job |-> IF j \in J THEN Reconciled(job[j]) ELSE job[j]]
    /\ UNCHANGED <<row, evidence, seen, frozen>>

\* The background dispatcher skips manual jobs, a wake reconciles the whole
\* project, and an explicit request one session or one job.
BackgroundReconcile == ReconcileSet({j \in Job : ~job[j].manual})
WakeReconcile       == ReconcileSet(Job)
RequestReconcile(j) == ReconcileSet({j})

Waits(j) == job[j].status \in {"queued", "retryable", "parked"} /\ ~job[j].waiting

\* rebalance: protected jobs keep their slots; queued jobs stay when they
\* fit, and otherwise the lanes choose among all of them.
Rebalance(slots, chosen) ==
    LET busy   == {j \in Job : job[j].status \in {"processing", "reviewing"}}
        queued == {j \in Job : job[j].status = "queued" /\ Waits(j)}
        pool   == {j \in Job : Waits(j)}
        free   == IF slots > Cardinality(busy) THEN slots - Cardinality(busy) ELSE 0
    IN  /\ chosen \subseteq pool
        /\ Cardinality(chosen) = IF free < Cardinality(pool) THEN free ELSE Cardinality(pool)
        /\ Cardinality(queued) <= free => queued \subseteq chosen
        /\ job' = [j \in Job |-> IF j \in pool
                    THEN [job[j] EXCEPT !.status = IF j \in chosen THEN "queued" ELSE "parked"]
                    ELSE job[j]]
        /\ UNCHANGED <<row, evidence, seen, frozen>>

ActivateParked(j) ==
    /\ job[j].status = "parked"
    /\ ~job[j].waiting
    /\ Rewrite(j, [job[j] EXCEPT !.status = "queued"])
    /\ UNCHANGED <<row, evidence, seen, frozen>>
-----------------------------------------------------------------------------
(* The clock.  A lease runs out when its owner is slow or has crashed. *)

ExpireChunk(j, c) ==
    /\ c \in Leased(job[j])
    /\ Rewrite(j, [job[j] EXCEPT !.chunk[c].live = FALSE])
    /\ UNCHANGED <<row, evidence, seen, frozen>>

ExpireReview(j) ==
    /\ job[j].reviewLive
    /\ Rewrite(j, [job[j] EXCEPT !.reviewLive = FALSE])
    /\ UNCHANGED <<row, evidence, seen, frozen>>

BackoffOver(j) ==
    /\ job[j].waiting
    /\ Rewrite(j, [job[j] EXCEPT !.waiting = FALSE])
    /\ UNCHANGED <<row, evidence, seen, frozen>>
-----------------------------------------------------------------------------
SourceStep(s) ==
    \/ \E r \in Revision : Capture(s, r)
    \/ ReadRow(s)
    \/ MarkMissing(s)
    \/ Reappear(s)
    \/ Relocate(s)
    \/ LeaveRow(s)
    \/ \E recheck \in BOOLEAN : Enqueue(s, recheck)

WorkerStep(j, w) ==
    \/ ClaimRecovers(j, w)
    \/ \E C \in SUBSET Chunk : ClaimChunks(j, w, C)
    \/ \E c \in Chunk : CheckpointChunk(j, c, w)
    \/ ClaimReview(j, w)
    \/ ClaimReviewExhausts(j, w)
    \/ ReleaseReview(j, w)
    \/ Finalize(j, w)
    \/ FinalizeStale(j, w)

JobStep(j) ==
    \/ Prune(j)
    \/ ReserveManual(j)
    \/ Defer(j)
    \/ RequestReconcile(j)
    \/ ActivateParked(j)
    \/ ExpireReview(j)
    \/ BackoffOver(j)
    \/ \E c \in Chunk : ExpireChunk(j, c)

QueueStep ==
    \/ \E J \in SUBSET Job : FreezeManual(J)
    \/ BackgroundReconcile
    \/ WakeReconcile
    \/ \E slots \in 0..Cardinality(Job), chosen \in SUBSET Job : Rebalance(slots, chosen)

Next ==
    \/ \E s \in Source : SourceStep(s)
    \/ \E j \in Job, w \in Worker : WorkerStep(j, w)
    \/ \E j \in Job : JobStep(j)
    \/ QueueStep

Spec == Init /\ [][Next]_vars

\* Time passes, and agents keep waking the project up.
Fairness ==
    /\ WF_vars(WakeReconcile)
    /\ \A j \in Job : /\ WF_vars(BackoffOver(j))
                      /\ \A c \in Chunk : WF_vars(ExpireChunk(j, c))

LiveSpec == Spec /\ Fairness
-----------------------------------------------------------------------------
(* Safety. *)

\* A job is under review or completed only when every chunk of its revision
\* was read and checkpointed: no order of claims, expiries, recoveries,
\* defers and supersessions skips a chunk.  Only pruning takes them away.
NoUnreadReview ==
    \A j \in Job : job[j].status \in {"reviewing", "completed"} =>
        AllCompleted(job[j]) \/ evidence[j] = "pruned"

\* A review lease exists only on a job under review, or on one that was
\* superseded in the meantime: retries, failures and completion leave none.
ReviewLeaseScope ==
    \A j \in Job : job[j].reviewer # NoOne => job[j].status \in {"reviewing", "stale"}

\* The recovery budget is spent exactly when the job has failed, and a failed
\* job has no chunk left that anyone could hold or claim.
ExhaustedIsFailed ==
    \A j \in Job :
        /\ job[j].recovery = RecoveryBudget <=> job[j].status = "failed"
        /\ job[j].status = "failed" =>
              \A c \in Chunk : job[j].chunk[c].st \in {"completed", "failed", "deleted"}

\* Once a manual manifest is published, no background worker holds a live
\* lease on a session it names, neither of a chunk nor of the review.
FrozenIsExclusive ==
    \A j \in frozen :
        /\ ~BackgroundReview(job[j])
        /\ \A c \in Leased(job[j]) : job[j].chunk[c].owner \in Interactive

\* Completed and failed are final.
FinalStep ==
    \A j \in Job : job[j].status \in {"completed", "failed"} =>
        job'[j].status = job[j].status
FinalSticks == [][FinalStep]_vars

\* A chunk once read is never handed out again.
ReadStep ==
    \A j \in Job, c \in Chunk : job[j].chunk[c].st = "completed" =>
        job'[j].chunk[c].st \in {"completed", "deleted"}
ReadSticks == [][ReadStep]_vars

\* Nobody is put to work on a job before its retry backoff is over.
BackoffStep ==
    \A j \in Job : job[j].waiting =>
        job'[j].status \notin {"processing", "reviewing", "completed"}
BackoffHolds == [][BackoffStep]_vars

\* A live lease is never taken over: it is kept, given back or runs out.
LeaseStep ==
    \A j \in Job :
        /\ job[j].reviewLive => job'[j].reviewer \in {job[j].reviewer, NoOne}
        /\ \A c \in Leased(job[j]) :
              job'[j].chunk[c].owner \in {job[j].chunk[c].owner, NoOne}
NoLiveSteal == [][LeaseStep]_vars

\* What one job's rows always satisfy: the inductive core of the above.
JobSound(x) ==
    /\ x.status \in {"reviewing", "completed"} \/ x.reviewer # NoOne =>
          \A c \in Chunk : x.chunk[c].st \in {"completed", "deleted"}
    /\ x.reviewer # NoOne => x.status \in {"reviewing", "stale"}
    /\ x.reviewLive => x.reviewer # NoOne
    /\ x.recovery = RecoveryBudget <=> x.status = "failed"
    /\ x.status = "failed" =>
          \A c \in Chunk : x.chunk[c].st \in {"completed", "failed", "deleted"}
    /\ x.waiting => /\ x.status \in {"retryable", "stale"}
                    /\ x.reviewer = NoOne
                    /\ \/ \E c \in Chunk : x.chunk[c].st = "retryable"
                       \/ \A c \in Chunk : x.chunk[c].st # "processing"
    /\ \A c \in Chunk : /\ x.chunk[c].live => x.chunk[c].st = "processing"
                        /\ x.chunk[c].owner # NoOne <=> x.chunk[c].st = "processing"
    /\ x.status = "absent" => x.chunk = NoJob.chunk /\ x.recovery = 0

\* The two facts that relate a job to the rest of the ledger.
Linked ==
    \A j \in Job : job[j].status # "absent" =>
        /\ evidence[j] # "absent"
        /\ \A c \in Chunk : job[j].chunk[c].st = "deleted" <=> evidence[j] = "pruned"

FrozenStays ==
    \A j \in frozen : job[j].manual /\ job[j].status # "absent"

\* The inductive invariant of the ledger.
LedgerInv ==
    /\ TypeOK
    /\ \A j \in Job : JobSound(job[j])
    /\ Linked
    /\ FrozenStays
    /\ FrozenIsExclusive

\* What becomes of a revision, once leases, workers, retries and the queue are
\* left out: stale, parked or in somebody's hands, a job is open.
Phase(x) ==
    IF x.status = "absent" THEN "none"
    ELSE IF x.status = "completed" THEN "done"
    ELSE IF x.status = "failed" THEN "failed"
    ELSE "open"

LifeOf(j) ==
    [phase |-> Phase(job[j]),
     read  |-> {c \in Chunk : job[j].chunk[c].st = "completed"},
     spent |-> job[j].recovery,
     text  |-> IF evidence[j] = "pruned" THEN "pruned" ELSE "kept"]

Lifecycle == INSTANCE JobLifecycle WITH life <- [j \in Job |-> LifeOf(j)]

\* The ledger implements the lifecycle: whatever supersedes, expires, defers
\* or parks a job, it is read chunk by chunk, charged one recovery at a time,
\* ends once, and is forgotten only with a completed revision of its session.
LifecycleSpec == Lifecycle!Spec

(* Claims of the code that its steps do not keep. *)

\* "A healthy interactive job has completed checkpoints but no active chunk
\* lease, which is not evidence that its worker crashed": a recovery is only
\* charged for a lease that ran out.
ChargeStep ==
    \A j \in Job : job'[j].recovery > job[j].recovery =>
        Expired(job[j]) # {} \/ (job[j].reviewer # NoOne /\ ~job[j].reviewLive)
OnlyExpiryIsCharged == [][ChargeStep]_vars

\* A job that a newer revision made stale stays stale.
StaleStep ==
    \A j \in Job : job[j].status = "stale" => job'[j].status = "stale"
StaleSticks == [][StaleStep]_vars

(* Liveness. *)

\* A worker that dies with a chunk cannot leave the job active forever: chunk
\* leases are never renewed, so they run out, and the next wake takes the job
\* back, sends it to review or fails it.
NothingProcessesForever ==
    \A j \in Job : job[j].status = "processing" ~> job[j].status # "processing"
=============================================================================
