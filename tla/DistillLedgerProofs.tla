------------------------ MODULE DistillLedgerProofs ------------------------
(***************************************************************************)
(* Proofs about DistillLedger, for every set of sources, revisions, chunks *)
(* and workers and every recovery budget, and, at the end, about the       *)
(* capture of the sessions whose revisions it holds, for every host and    *)
(* script.                                                                 *)
(*                                                                         *)
(* A transaction rewrites single jobs, so the argument is made on one job  *)
(* x and its rewriting y: Rewrites(x, y) says that y is sound and that the *)
(* step from x to y keeps what may not be lost.  A lemma per operation     *)
(* establishes it, and one lemma lifts it to the whole ledger.             *)
(***************************************************************************)
EXTENDS DistillLedger, NativeCapture, FiniteSetTheorems, WellFoundedInduction, TLAPS

\* What no step takes from a job: the final statuses, the chunks read, the
\* backoff and the live leases.
Steady(x, y) ==
    /\ x.status \in {"completed", "failed"} => y.status = x.status
    /\ \A c \in Chunk : x.chunk[c].st = "completed" =>
          y.chunk[c].st \in {"completed", "deleted"}
    /\ x.waiting => y.status \notin {"processing", "reviewing", "completed"}
    /\ x.reviewLive => y.reviewer \in {x.reviewer, NoOne}
    /\ \A c \in Leased(x) : y.chunk[c].owner \in {x.chunk[c].owner, NoOne}

\* A manual job gets no live background lease that it had not before.
NoIntruder(x, y) ==
    x.manual =>
        /\ y.manual
        /\ BackgroundReview(y) => BackgroundReview(x)
        /\ \A c \in Leased(y) :
              \/ y.chunk[c].owner \in Interactive
              \/ c \in Leased(x) /\ y.chunk[c].owner = x.chunk[c].owner

\* How a job moves through its lifecycle: it stays where it is, is charged one
\* recovery and may fail by it, completes, or has one more chunk read.
SameRead(x, y) ==
    \A c \in Chunk : y.chunk[c].st = "completed" <=> x.chunk[c].st = "completed"

ReadsOne(x, y) ==
    \E c \in Chunk :
        /\ x.chunk[c].st \notin {"completed", "deleted"}
        /\ y.chunk[c].st = "completed"
        /\ \A d \in Chunk : d # c =>
              (y.chunk[d].st = "completed" <=> x.chunk[d].st = "completed")

Advances(x, y) ==
    \/ /\ y.recovery = x.recovery /\ Phase(y) = Phase(x)
       /\ SameRead(x, y)
    \/ /\ y.recovery = x.recovery + 1 /\ Phase(x) = "open"
       /\ Phase(y) = IF y.recovery = RecoveryBudget THEN "failed" ELSE "open"
       /\ SameRead(x, y)
    \/ /\ y.recovery = x.recovery /\ Phase(x) = "open" /\ Phase(y) = "done"
       /\ SameRead(x, y) /\ AllCompleted(x)
    \/ /\ y.recovery = x.recovery /\ Phase(x) = "open" /\ Phase(y) = "open"
       /\ ReadsOne(x, y)

Rewrites(x, y) ==
    /\ x.status # "absent" /\ y.status # "absent"
    /\ y \in JobRecord /\ JobSound(y)
    /\ Steady(x, y)
    /\ NoIntruder(x, y)
    /\ Advances(x, y)
    /\ \A c \in Chunk : y.chunk[c].st = "deleted" <=> x.chunk[c].st = "deleted"

-----------------------------------------------------------------------------
(* One job. *)

\* A job that is recovered has spent one more recovery, or has failed with
\* all its open chunks (_recover_expired_checkpoints_locked).
LEMMA RecoverRewrites ==
    ASSUME NEW x \in JobRecord, JobSound(x), x.status \in Active,
           Expired(x) # {} \/ LooksAbandoned(x)
    PROVE  Rewrites(x, Recover(x))
<1> USE LedgerAssumption
<1>1. PICK c \in Chunk : x.chunk[c].st \in {"processing", "pending", "retryable"}
  BY DEF Expired, LooksAbandoned, Open
<1>2. x.reviewer = NoOne /\ ~x.reviewLive /\ x.status \notin {"reviewing", "completed", "failed", "absent"}
  BY <1>1 DEF JobSound, Active
<1>3. x.recovery + 1 \in 0..RecoveryBudget
  BY <1>2 DEF JobSound, JobRecord
<1> DEFINE y == Recover(x)
<1>4. CASE x.recovery + 1 >= RecoveryBudget
  <2>. DEFINE chunks == [d \in Chunk |-> IF x.chunk[d].st \in {"completed", "deleted"}
                                        THEN x.chunk[d] ELSE Unleased("failed")]
  <2>a. chunks \in [Chunk -> ChunkRecord]
    BY DEF JobRecord, ChunkRecord, Unleased, Owner
  <2>b. y = [x EXCEPT !.status = "failed", !.recovery = x.recovery + 1, !.waiting = FALSE,
                      !.chunk = chunks]
    BY <1>4 DEF Recover
  <2>1. /\ y \in JobRecord
        /\ y.status = "failed" /\ y.recovery = x.recovery + 1 /\ y.waiting = FALSE
        /\ y.reviewer = x.reviewer /\ y.reviewLive = x.reviewLive /\ y.manual = x.manual
    <3> HIDE DEF y, chunks
    <3> QED BY <1>3, <2>a, <2>b DEF JobRecord, Terminal
  <2>c. y.recovery = RecoveryBudget
    BY <1>3, <1>4, <2>1
  <2>2. \A d \in Chunk :
          y.chunk[d] = IF x.chunk[d].st \in {"completed", "deleted"}
                       THEN x.chunk[d] ELSE Unleased("failed")
    BY <1>4 DEF Recover, JobRecord
  <2>3. \A d \in Chunk : /\ Unleased("failed").st = "failed"
                         /\ Unleased("failed").owner = NoOne
                         /\ Unleased("failed").live = FALSE
    BY DEF Unleased
  <2>4. JobSound(y)
    BY <1>2, <2>1, <2>2, <2>3, <2>c DEF JobSound
  <2>5. Steady(x, y)
    BY <1>2, <2>1, <2>2, <2>3 DEF Steady, Leased
  <2>6. NoIntruder(x, y)
    BY <1>2, <2>1, <2>2, <2>3 DEF NoIntruder, Leased, BackgroundReview
  <2>7. Advances(x, y)
    BY <1>2, <2>1, <2>2, <2>3, <2>c DEF Advances, SameRead, Phase
  <2> QED BY <1>2, <2>1, <2>2, <2>3, <2>4, <2>5, <2>6, <2>7 DEF Rewrites
<1>5. CASE ~(x.recovery + 1 >= RecoveryBudget)
  <2>1. /\ y \in JobRecord
        /\ y.status = "retryable" /\ y.recovery = x.recovery + 1 /\ y.waiting = TRUE
        /\ y.reviewer = x.reviewer /\ y.reviewLive = x.reviewLive /\ y.manual = x.manual
    BY <1>3, <1>5 DEF Recover, JobRecord, ChunkRecord, Unleased, Owner, Active, Terminal
  <2>2. \A d \in Chunk :
          y.chunk[d] = IF d \in Expired(x) THEN Unleased("retryable") ELSE x.chunk[d]
    BY <1>5 DEF Recover, JobRecord
  <2>3. /\ Unleased("retryable").st = "retryable"
        /\ Unleased("retryable").owner = NoOne
        /\ Unleased("retryable").live = FALSE
    BY DEF Unleased
  <2>4. \/ \E d \in Chunk : y.chunk[d].st = "retryable"
        \/ \A d \in Chunk : y.chunk[d].st # "processing"
    BY <2>2, <2>3 DEF Expired, LooksAbandoned, Leased
  <2>5. y.recovery # RecoveryBudget
    BY <1>3, <1>5, <2>1
  <2>6. JobSound(y)
    BY <1>2, <2>1, <2>2, <2>3, <2>4, <2>5 DEF JobSound, Expired
  <2>7. Steady(x, y)
    BY <1>2, <2>1, <2>2, <2>3 DEF Steady, Leased, Expired
  <2>8. NoIntruder(x, y)
    BY <1>2, <2>1, <2>2, <2>3 DEF NoIntruder, Leased, BackgroundReview
  <2>9. Advances(x, y)
    BY <1>2, <2>1, <2>2, <2>3, <2>5 DEF Advances, SameRead, Phase, Expired
  <2>10. \A d \in Chunk : y.chunk[d].st = "deleted" <=> x.chunk[d].st = "deleted"
    BY <2>2, <2>3 DEF Expired
  <2> QED BY <1>2, <2>1, <2>6, <2>7, <2>8, <2>9, <2>10 DEF Rewrites
<1> QED BY <1>4, <1>5

\* Deferring gives back every lease and keeps what was read.
LEMMA DeferRewrites ==
    ASSUME NEW x \in JobRecord, JobSound(x), x.status \in Active
    PROVE  Rewrites(x, Deferred(x))
<1> USE LedgerAssumption
<1> DEFINE y == Deferred(x)
           u == Unleased("retryable")
           h == [c \in Chunk |-> IF x.chunk[c].st = "processing" THEN u ELSE x.chunk[c]]
<1>1. x.chunk \in [Chunk -> ChunkRecord] /\ x.status \notin {"absent", "completed", "failed"}
  BY DEF JobRecord, Active
<1>2. u \in ChunkRecord /\ u.st = "retryable" /\ u.owner = NoOne /\ u.live = FALSE
  BY DEF Unleased, ChunkRecord, Owner
<1>3. y = [x EXCEPT !.status = "retryable", !.waiting = TRUE, !.reviewer = NoOne,
                    !.reviewLive = FALSE, !.chunk = h]
  BY DEF Deferred
<1> HIDE DEF u, y
<1>4. /\ h \in [Chunk -> ChunkRecord]
      /\ \A c \in Chunk : h[c] = IF x.chunk[c].st = "processing" THEN u ELSE x.chunk[c]
  BY <1>1, <1>2
<1> HIDE DEF h
<1>5. y \in JobRecord
  BY ONLY <1>3, <1>4, x \in JobRecord DEF JobRecord, Owner, Active
<1>6. /\ y.status = "retryable" /\ y.waiting = TRUE /\ y.reviewer = NoOne
      /\ y.reviewLive = FALSE /\ y.chunk = h /\ y.recovery = x.recovery /\ y.manual = x.manual
  BY ONLY <1>3, x \in JobRecord DEF JobRecord
<1>7. JobSound(y)
  BY <1>1, <1>2, <1>4, <1>6 DEF JobSound
<1>8. Steady(x, y)
  BY ONLY <1>1, <1>2, <1>4, <1>6 DEF Steady, Leased
<1>9. NoIntruder(x, y)
  BY ONLY <1>1, <1>2, <1>4, <1>6 DEF NoIntruder, Leased, BackgroundReview
<1>10. Advances(x, y)
  BY ONLY <1>1, <1>2, <1>4, <1>6 DEF Advances, SameRead, Phase
<1>11. \A c \in Chunk : y.chunk[c].st = "deleted" <=> x.chunk[c].st = "deleted"
  BY ONLY <1>2, <1>4, <1>6
<1> QED
  BY ONLY <1>1, <1>5, <1>6, <1>7, <1>8, <1>9, <1>10, <1>11 DEF Rewrites, y

\* A newer revision retires a job and touches nothing else of it.
LEMMA SupersedeRewrites ==
    ASSUME NEW x \in JobRecord, JobSound(x), x.status # "absent"
    PROVE  Rewrites(x, Superseded(x))
<1> USE LedgerAssumption
<1> DEFINE y == Superseded(x)
<1>1. /\ y \in JobRecord
      /\ y.status = IF x.status \in Active THEN "stale" ELSE x.status
      /\ y.chunk = x.chunk /\ y.reviewer = x.reviewer /\ y.reviewLive = x.reviewLive
      /\ y.recovery = x.recovery /\ y.waiting = x.waiting /\ y.manual = x.manual
  BY DEF Superseded, JobRecord, Terminal
<1>2. JobSound(y)
  BY <1>1 DEF JobSound, Active
<1>3. Steady(x, y) /\ NoIntruder(x, y)
  BY <1>1 DEF Steady, NoIntruder, Leased, BackgroundReview, JobSound, Active, JobRecord
<1>4. Advances(x, y)
  BY <1>1 DEF Advances, SameRead, Phase, Active
<1> QED BY <1>1, <1>2, <1>3, <1>4 DEF Rewrites

\* The restart pass: recovery, or review once every chunk is read.
LEMMA ReconcileRewrites ==
    ASSUME NEW x \in JobRecord, JobSound(x)
    PROVE  Reconciled(x) = x \/ Rewrites(x, Reconciled(x))
<1> USE LedgerAssumption
<1> DEFINE review == [x EXCEPT !.status = "reviewing", !.waiting = FALSE]
<1>1. CASE x.status \in Active /\ (Expired(x) # {} \/ LooksAbandoned(x))
  <2>1. Reconciled(x) = Recover(x)
    BY <1>1 DEF Reconciled
  <2> QED BY <1>1, <2>1, RecoverRewrites
<1>2. CASE /\ x.status \in Active /\ ~(Expired(x) # {} \/ LooksAbandoned(x))
           /\ AllCompleted(x) /\ ~(x.status = "retryable" /\ x.waiting)
  <2>1. Reconciled(x) = review
    BY <1>2 DEF Reconciled
  <2>2. /\ review \in JobRecord /\ review.status = "reviewing" /\ review.waiting = FALSE
        /\ review.chunk = x.chunk /\ review.reviewer = x.reviewer
        /\ review.reviewLive = x.reviewLive /\ review.recovery = x.recovery
        /\ review.manual = x.manual
    BY DEF JobRecord, Active
  <2>3. JobSound(review)
    BY <1>2, <2>2 DEF JobSound, AllCompleted, Active
  <2>4. ~x.waiting
    BY <1>2 DEF JobSound, Active
  <2>5. Steady(x, review) /\ NoIntruder(x, review)
    BY <1>2, <2>2, <2>4 DEF Steady, NoIntruder, Leased, BackgroundReview, AllCompleted,
       Active, JobRecord
  <2>6. Advances(x, review)
    BY <1>2, <2>2 DEF Advances, SameRead, Phase, Active
  <2> QED BY <1>2, <2>1, <2>2, <2>3, <2>5, <2>6 DEF Rewrites, Active
<1>3. CASE /\ ~(x.status \in Active /\ (Expired(x) # {} \/ LooksAbandoned(x)))
           /\ ~(x.status \in Active /\ AllCompleted(x) /\ ~(x.status = "retryable" /\ x.waiting))
  BY <1>3 DEF Reconciled
<1> QED BY <1>1, <1>2, <1>3

\* A claim leases open chunks of a job whose backoff is over, to a worker
\* that may work on it.
LEMMA ClaimRewrites ==
    ASSUME NEW x \in JobRecord, JobSound(x), x.status \in Active, ~x.waiting,
           NEW w \in Worker, MayWork(w, x), NEW C \in SUBSET Open(x), C # {}
    PROVE  Rewrites(x, [x EXCEPT
              !.status = "processing",
              !.chunk = [c \in Chunk |-> IF c \in C
                         THEN [st |-> "processing", owner |-> w, live |-> TRUE] ELSE @[c]]])
<1> USE LedgerAssumption
<1> DEFINE chunks == [c \in Chunk |-> IF c \in C
                         THEN [st |-> "processing", owner |-> w, live |-> TRUE] ELSE x.chunk[c]]
           y == [x EXCEPT !.status = "processing", !.chunk = chunks]
<1>1. chunks \in [Chunk -> ChunkRecord]
  BY DEF JobRecord, ChunkRecord, Owner
<1>2. /\ y \in JobRecord /\ y.status = "processing" /\ y.chunk = chunks
      /\ y.reviewer = x.reviewer /\ y.reviewLive = x.reviewLive
      /\ y.recovery = x.recovery /\ y.waiting = x.waiting /\ y.manual = x.manual
  <2> HIDE DEF chunks
  <2> QED BY <1>1 DEF JobRecord, Active
<1>3. PICK d \in C : d \in Chunk /\ x.chunk[d].st \in {"pending", "retryable"}
  BY DEF Open
<1>4. x.reviewer = NoOne /\ ~x.reviewLive /\ x.status \notin {"completed", "failed", "absent", "stale"}
  BY <1>3 DEF JobSound, Active
<1>5. \A c \in Chunk : /\ c \in C => /\ chunks[c].st = "processing" /\ chunks[c].owner = w
                                     /\ chunks[c].live = TRUE
                                     /\ x.chunk[c].st \in {"pending", "retryable"}
                       /\ c \notin C => chunks[c] = x.chunk[c]
  BY DEF Open
<1> HIDE DEF chunks, y
<1>6. JobSound(y)
  BY <1>2, <1>4, <1>5 DEF JobSound
<1>7. Steady(x, y)
  BY <1>2, <1>4, <1>5 DEF Steady, Leased
<1>8. NoIntruder(x, y)
  BY <1>2, <1>4, <1>5 DEF NoIntruder, MayWork, Leased, BackgroundReview
<1>9. Advances(x, y)
  BY <1>2, <1>4, <1>5 DEF Advances, SameRead, Phase
<1>10. Rewrites(x, y)
  BY <1>2, <1>4, <1>5, <1>6, <1>7, <1>8, <1>9 DEF Rewrites
<1> QED BY <1>10 DEF y, chunks

\* A checkpointed chunk stays read, and the last one opens the review.
LEMMA CheckpointRewrites ==
    ASSUME NEW x \in JobRecord, JobSound(x), NEW c \in Chunk, NEW w \in Worker,
           x.chunk[c] = [st |-> "processing", owner |-> w, live |-> TRUE],
           NEW done, done = [x EXCEPT !.chunk[c] = Unleased("completed")],
           NEW y, y = IF AllCompleted(done) THEN [done EXCEPT !.status = "reviewing"] ELSE done
    PROVE  Rewrites(x, y)
<1> USE LedgerAssumption
<1>1. x.chunk[c].st = "processing"
  OBVIOUS
<1>2. x.reviewer = NoOne /\ ~x.reviewLive /\ x.status \notin {"reviewing", "completed", "failed", "absent"}
  BY <1>1 DEF JobSound, NoJob, Unleased
<1>3. /\ done \in JobRecord /\ done.status = x.status
      /\ done.chunk[c] = Unleased("completed")
      /\ \A d \in Chunk : d # c => done.chunk[d] = x.chunk[d]
      /\ done.reviewer = x.reviewer /\ done.reviewLive = x.reviewLive
      /\ done.recovery = x.recovery /\ done.waiting = x.waiting /\ done.manual = x.manual
  BY DEF JobRecord, ChunkRecord, Unleased, Owner
<1>4. /\ y \in JobRecord /\ y.status = IF AllCompleted(done) THEN "reviewing" ELSE x.status
      /\ y.chunk = done.chunk
      /\ y.reviewer = x.reviewer /\ y.reviewLive = x.reviewLive
      /\ y.recovery = x.recovery /\ y.waiting = x.waiting /\ y.manual = x.manual
  <2>1. CASE AllCompleted(done)
    BY <1>3, <2>1, ZenonT(60) DEF JobRecord, Active
  <2>2. CASE ~AllCompleted(done)
    BY <1>3, <2>2
  <2> QED BY <2>1, <2>2
<1>5. /\ Unleased("completed").st = "completed"
      /\ Unleased("completed").owner = NoOne
      /\ Unleased("completed").live = FALSE
  BY DEF Unleased
<1>6. x.waiting => ~AllCompleted(done)
  BY <1>1, <1>3, <1>5, SMTT(40) DEF AllCompleted, JobSound
<1>7. JobSound(y)
  BY <1>1, <1>2, <1>3, <1>4, <1>5, <1>6 DEF JobSound, AllCompleted
<1>8. Steady(x, y)
  BY <1>1, <1>2, <1>3, <1>4, <1>5, <1>6 DEF Steady, Leased, JobSound
<1>9. NoIntruder(x, y)
  BY <1>2, <1>3, <1>4, <1>5 DEF NoIntruder, Leased, BackgroundReview
<1>10. Advances(x, y)
  <2>1. ReadsOne(x, y)
    BY <1>1, <1>3, <1>4, <1>5 DEF ReadsOne
  <2>2. y.recovery = x.recovery /\ Phase(x) = "open" /\ Phase(y) = "open"
    BY <1>2, <1>4 DEF Phase
  <2> QED BY <2>1, <2>2 DEF Advances
<1> QED BY <1>1, <1>2, <1>3, <1>4, <1>5, <1>7, <1>8, <1>9, <1>10 DEF Rewrites

\* Giving a review lease back, letting it or the backoff run out, reserving.
LEMMA LetGoRewrites ==
    ASSUME NEW x \in JobRecord, JobSound(x), x.status # "absent",
           NEW y,
           \/ y = [x EXCEPT !.reviewer = NoOne, !.reviewLive = FALSE]
           \/ y = [x EXCEPT !.reviewLive = FALSE]
           \/ y = [x EXCEPT !.waiting = FALSE]
           \/ y = [x EXCEPT !.manual = TRUE]
    PROVE  Rewrites(x, y)
<1> USE LedgerAssumption
<1>1. /\ y \in JobRecord /\ y.status = x.status /\ y.chunk = x.chunk
      /\ y.recovery = x.recovery /\ (x.manual => y.manual)
      /\ y.reviewer \in {x.reviewer, NoOne} /\ (y.waiting => x.waiting)
      /\ y.reviewLive => x.reviewLive /\ y.reviewer = x.reviewer
  <2> DEFINE Likewise == /\ y.status = x.status /\ y.chunk = x.chunk
                         /\ y.recovery = x.recovery /\ (x.manual => y.manual)
                         /\ y.reviewer \in {x.reviewer, NoOne} /\ (y.waiting => x.waiting)
                         /\ y.reviewLive => x.reviewLive /\ y.reviewer = x.reviewer
             Returned == y = [x EXCEPT !.reviewer = NoOne, !.reviewLive = FALSE]
             Lapsed == y = [x EXCEPT !.reviewLive = FALSE]
             Due == y = [x EXCEPT !.waiting = FALSE]
             Claimed == y = [x EXCEPT !.manual = TRUE]
  <2>0. Returned \/ Lapsed \/ Due \/ Claimed
    BY Zenon
  <2>1. CASE Returned
    <3>1. y \in JobRecord
      BY ONLY <2>1, x \in JobRecord DEF JobRecord, Owner
    <3>2. Likewise
      BY ONLY <2>1, x \in JobRecord DEF JobRecord
    <3> QED
      BY ONLY <3>1, <3>2
  <2>2. CASE Lapsed
    <3>1. y \in JobRecord
      BY ONLY <2>2, x \in JobRecord DEF JobRecord, Owner
    <3>2. Likewise
      BY ONLY <2>2, x \in JobRecord DEF JobRecord
    <3> QED
      BY ONLY <3>1, <3>2
  <2>3. CASE Due
    <3>1. y \in JobRecord
      BY ONLY <2>3, x \in JobRecord DEF JobRecord, Owner
    <3>2. Likewise
      BY ONLY <2>3, x \in JobRecord DEF JobRecord
    <3> QED
      BY ONLY <3>1, <3>2
  <2>4. CASE Claimed
    <3>1. y \in JobRecord
      BY ONLY <2>4, x \in JobRecord DEF JobRecord, Owner
    <3>2. Likewise
      BY ONLY <2>4, x \in JobRecord DEF JobRecord
    <3> QED
      BY ONLY <3>1, <3>2
  <2> HIDE DEF Returned, Lapsed, Due, Claimed
  <2> QED
    BY ONLY <2>0, <2>1, <2>2, <2>3, <2>4, Zenon
<1>2. JobSound(y)
  BY <1>1 DEF JobSound
<1>3. Steady(x, y)
  BY <1>1 DEF Steady, Leased, JobSound, JobRecord
<1>4. NoIntruder(x, y)
  BY <1>1 DEF NoIntruder, Leased, BackgroundReview
<1>5. Advances(x, y)
  BY <1>1 DEF Advances, SameRead, Phase
<1> QED BY <1>1, <1>2, <1>3, <1>4, <1>5 DEF Rewrites

\* Queueing and parking move a due job between two waiting statuses.
LEMMA QueueRewrites ==
    ASSUME NEW x \in JobRecord, JobSound(x), ~x.waiting,
           x.status \in {"queued", "retryable", "parked"},
           NEW st \in {"queued", "parked"}
    PROVE  Rewrites(x, [x EXCEPT !.status = st])
<1> USE LedgerAssumption
<1> DEFINE y == [x EXCEPT !.status = st]
<1>1. /\ y \in JobRecord /\ y.status = st /\ y.chunk = x.chunk
      /\ y.reviewer = x.reviewer /\ y.reviewLive = x.reviewLive
      /\ y.recovery = x.recovery /\ y.waiting = x.waiting /\ y.manual = x.manual
  BY DEF JobRecord, Active
<1>2. JobSound(y) /\ Steady(x, y) /\ NoIntruder(x, y)
  BY <1>1 DEF JobSound, Steady, NoIntruder, Leased, BackgroundReview, JobRecord
<1>3. Advances(x, y)
  BY <1>1 DEF Advances, SameRead, Phase
<1> QED BY <1>1, <1>2, <1>3 DEF Rewrites

\* A review lease goes to a worker that may work, when nobody else's is live.
LEMMA ClaimReviewRewrites ==
    ASSUME NEW x \in JobRecord, JobSound(x), NEW w \in Worker, MayWork(w, x),
           x.status = "reviewing", x.reviewLive => x.reviewer = w,
           NEW spent \in {x.recovery, x.recovery + 1}, spent < RecoveryBudget
    PROVE  Rewrites(x, [x EXCEPT !.reviewer = w, !.reviewLive = TRUE, !.recovery = spent])
<1> USE LedgerAssumption
<1> DEFINE y == [x EXCEPT !.reviewer = w, !.reviewLive = TRUE, !.recovery = spent]
<1>a. spent \in 0..RecoveryBudget /\ spent # RecoveryBudget
  BY DEF JobRecord
<1>1. /\ y \in JobRecord /\ y.status = x.status /\ y.chunk = x.chunk
      /\ y.reviewer = w /\ y.reviewLive = TRUE
      /\ y.recovery = spent /\ y.waiting = x.waiting /\ y.manual = x.manual
  BY <1>a DEF JobRecord, Owner
<1>2. JobSound(y)
  BY <1>1, <1>a DEF JobSound
<1>3. Steady(x, y) /\ NoIntruder(x, y)
  BY <1>1 DEF Steady, NoIntruder, MayWork, Leased, BackgroundReview, JobSound, JobRecord
<1>4. Advances(x, y)
  BY <1>1, <1>a DEF Advances, SameRead, Phase
<1> QED BY <1>1, <1>2, <1>3, <1>4 DEF Rewrites

\* The last recovery of a review fails the job and clears the lease.
LEMMA ReviewFailsRewrites ==
    ASSUME NEW x \in JobRecord, JobSound(x), x.status = "reviewing", ~x.reviewLive,
           x.recovery + 1 >= RecoveryBudget
    PROVE  Rewrites(x, [x EXCEPT !.status = "failed", !.recovery = @ + 1,
                                 !.reviewer = NoOne, !.reviewLive = FALSE])
<1> USE LedgerAssumption
<1> DEFINE y == [x EXCEPT !.status = "failed", !.recovery = @ + 1,
                          !.reviewer = NoOne, !.reviewLive = FALSE]
<1>1. x.recovery + 1 = RecoveryBudget /\ RecoveryBudget \in 0..RecoveryBudget
  BY DEF JobSound, JobRecord
<1>b. y = [x EXCEPT !.status = "failed", !.recovery = RecoveryBudget,
                    !.reviewer = NoOne, !.reviewLive = FALSE]
  BY <1>1
<1> HIDE DEF y
<1>2. /\ y \in JobRecord /\ y.status = "failed" /\ y.chunk = x.chunk
      /\ y.reviewer = NoOne /\ y.reviewLive = FALSE
      /\ y.recovery = RecoveryBudget /\ y.waiting = x.waiting /\ y.manual = x.manual
  BY <1>1, <1>b DEF JobRecord, Owner, Terminal
<1>3. JobSound(y)
  BY <1>2 DEF JobSound
<1>4. Steady(x, y) /\ NoIntruder(x, y)
  BY <1>2 DEF Steady, NoIntruder, Leased, BackgroundReview, JobSound, JobRecord
<1>5. Advances(x, y)
  BY <1>1, <1>2 DEF Advances, SameRead, Phase
<1>6. Rewrites(x, y)
  BY <1>2, <1>3, <1>4, <1>5 DEF Rewrites
<1> QED BY <1>6 DEF y

\* The owner of a live review lease completes the job, or finds it stale.
LEMMA FinalizeRewrites ==
    ASSUME NEW x \in JobRecord, JobSound(x), x.reviewer # NoOne, x.status # "completed"
    PROVE  /\ AllCompleted(x) =>
                Rewrites(x, [x EXCEPT !.status = "completed", !.reviewer = NoOne, !.reviewLive = FALSE])
           /\ Rewrites(x, [x EXCEPT !.status = "stale"])
<1> USE LedgerAssumption
<1> DEFINE y == [x EXCEPT !.status = "completed", !.reviewer = NoOne, !.reviewLive = FALSE]
           z == [x EXCEPT !.status = "stale"]
<1>1. /\ y \in JobRecord /\ y.status = "completed" /\ y.chunk = x.chunk
      /\ y.reviewer = NoOne /\ y.reviewLive = FALSE
      /\ y.recovery = x.recovery /\ y.waiting = x.waiting /\ y.manual = x.manual
  BY DEF JobRecord, Owner, Terminal
<1>2. /\ z \in JobRecord /\ z.status = "stale" /\ z.chunk = x.chunk
      /\ z.reviewer = x.reviewer /\ z.reviewLive = x.reviewLive
      /\ z.recovery = x.recovery /\ z.waiting = x.waiting /\ z.manual = x.manual
  BY DEF JobRecord, Owner, Terminal
<1>a. x.status # "failed"
  BY DEF JobSound
<1>3. JobSound(y) /\ Steady(x, y) /\ NoIntruder(x, y)
  <2>1. JobSound(y)
    BY <1>1, <1>a DEF JobSound
  <2>2. Steady(x, y)
    BY <1>1, <1>a DEF Steady, JobSound, Leased
  <2>3. NoIntruder(x, y)
    BY <1>1 DEF NoIntruder, Leased, BackgroundReview
  <2> QED BY <2>1, <2>2, <2>3
<1>4. JobSound(z) /\ Steady(x, z) /\ NoIntruder(x, z)
  <2>1. JobSound(z)
    BY <1>2, <1>a DEF JobSound
  <2>2. Steady(x, z)
    BY <1>2, <1>a DEF Steady, JobSound, Leased
  <2>3. NoIntruder(x, z)
    BY <1>2 DEF NoIntruder, Leased, BackgroundReview
  <2> QED BY <2>1, <2>2, <2>3
<1>5. x.status # "absent"
  BY DEF JobSound
<1>6. AllCompleted(x) => Advances(x, y)
  BY <1>1, <1>5, <1>a DEF Advances, SameRead, Phase
<1>7. Advances(x, z)
  BY <1>2, <1>5, <1>a DEF Advances, SameRead, Phase
<1> HIDE DEF y, z
<1>8. AllCompleted(x) => Rewrites(x, y)
  BY <1>1, <1>3, <1>5, <1>6 DEF Rewrites
<1>9. Rewrites(x, z)
  BY <1>2, <1>4, <1>5, <1>7 DEF Rewrites
<1> QED BY <1>8, <1>9 DEF y, z

\* A chunk lease runs out.
LEMMA ExpireRewrites ==
    ASSUME NEW x \in JobRecord, JobSound(x), NEW c \in Leased(x)
    PROVE  Rewrites(x, [x EXCEPT !.chunk[c].live = FALSE])
<1> USE LedgerAssumption
<1> DEFINE y == [x EXCEPT !.chunk[c].live = FALSE]
<1>1. c \in Chunk /\ x.chunk[c].st = "processing" /\ x.status # "absent"
  BY DEF Leased, JobSound, NoJob, Unleased
<1>2. /\ y \in JobRecord /\ y.status = x.status
      /\ y.chunk[c].st = x.chunk[c].st /\ y.chunk[c].owner = x.chunk[c].owner
      /\ y.chunk[c].live = FALSE
      /\ \A d \in Chunk : d # c => y.chunk[d] = x.chunk[d]
      /\ y.reviewer = x.reviewer /\ y.reviewLive = x.reviewLive
      /\ y.recovery = x.recovery /\ y.waiting = x.waiting /\ y.manual = x.manual
  BY <1>1, ZenonT(60) DEF JobRecord, ChunkRecord
<1> HIDE DEF y
<1>3. JobSound(y)
  BY <1>1, <1>2 DEF JobSound
<1>4. Steady(x, y) /\ NoIntruder(x, y)
  BY <1>1, <1>2 DEF Steady, NoIntruder, Leased, BackgroundReview, JobSound
<1>5. Advances(x, y)
  BY <1>1, <1>2 DEF Advances, SameRead, Phase
<1>6. Rewrites(x, y)
  BY <1>1, <1>2, <1>3, <1>4, <1>5 DEF Rewrites
<1> QED BY <1>6 DEF y

-----------------------------------------------------------------------------
(* The ledger. *)

\* What every step establishes: the invariant, that each job is steady, and
\* that the lifecycles take a step.
Kept == /\ LedgerInv'
        /\ \A j \in Job : Steady(job[j], job'[j])
        /\ Lifecycle!Next

\* One lifecycle stays as it is or takes one move.
Moved(j) == LifeOf(j)' = LifeOf(j) \/ Lifecycle!Moves(LifeOf(j), LifeOf(j)')

\* What is told of a job's lifecycle is well typed.
LEMMA LifeTyped ==
    ASSUME TypeOK', NEW j \in Job
    PROVE  LifeOf(j)' \in Lifecycle!Life
BY DEF LifeOf, Lifecycle!Life, Phase, TypeOK, JobRecord

\* A rewritten job moves through its lifecycle by at most one move.
LEMMA LifeMoves ==
    ASSUME LedgerInv, NEW j \in Job, Rewrites(job[j], job'[j]), evidence'[j] = evidence[j]
    PROVE  Moved(j)
<1> USE LedgerAssumption
<1> DEFINE x == job[j]
           y == job'[j]
           Read(z) == {c \in Chunk : z.chunk[c].st = "completed"}
           k == IF evidence[j] = "pruned" THEN "pruned" ELSE "kept"
           u == LifeOf(j)
           v == LifeOf(j)'
<1>1. /\ u = [phase |-> Phase(x), read |-> Read(x), spent |-> x.recovery, text |-> k]
      /\ v = [phase |-> Phase(y), read |-> Read(y), spent |-> y.recovery, text |-> k]
  BY DEF LifeOf
<1>2. /\ x.status # "absent" /\ Advances(x, y)
      /\ x.recovery \in 0..RecoveryBudget /\ y.recovery \in 0..RecoveryBudget
  BY DEF Rewrites, LedgerInv, TypeOK, JobRecord
<1>3. \A c \in Chunk : x.chunk[c].st = "deleted" <=> evidence[j] = "pruned"
  BY <1>2 DEF LedgerInv, Linked
<1>4. SameRead(x, y) => Read(y) = Read(x)
  BY DEF SameRead
<1>5. CASE /\ y.recovery = x.recovery /\ Phase(y) = Phase(x) /\ SameRead(x, y)
  <2> HIDE DEF k, Read, u, v
  <2>1. v = u
    BY <1>1, <1>4, <1>5
  <2> QED BY <2>1 DEF Moved, u, v
<1>6. CASE /\ y.recovery = x.recovery + 1 /\ Phase(x) = "open"
           /\ Phase(y) = IF y.recovery = RecoveryBudget THEN "failed" ELSE "open"
           /\ SameRead(x, y)
  <2> HIDE DEF k, Read, u, v
  <2> DEFINE w == Lifecycle!Charged(u)
  <2>1. w = [phase |-> "open", read |-> Read(x), spent |-> x.recovery + 1, text |-> k]
    BY <1>1, <1>6 DEF Lifecycle!Charged
  <2>2. u.phase = "open" /\ u.spent = x.recovery
    BY <1>1, <1>6
  <2> HIDE DEF w
  <2>3. CASE y.recovery # RecoveryBudget
    <3>1. v = w /\ u.spent + 1 < RecoveryBudget
      BY <1>1, <1>2, <1>4, <1>6, <2>1, <2>2, <2>3
    <3>2. Lifecycle!Recovers(u, v)
      BY <2>2, <3>1 DEF Lifecycle!Recovers, w
    <3> QED BY <3>2 DEF Moved, Lifecycle!Moves, u, v
  <2>4. CASE y.recovery = RecoveryBudget
    <3>1. v = [w EXCEPT !.phase = "failed"] /\ u.spent + 1 = RecoveryBudget
      BY <1>1, <1>4, <1>6, <2>1, <2>2, <2>4
    <3>2. Lifecycle!Fails(u, v)
      BY <2>2, <3>1 DEF Lifecycle!Fails, w
    <3> QED BY <3>2 DEF Moved, Lifecycle!Moves, u, v
  <2> QED BY <2>3, <2>4
<1>7. CASE /\ y.recovery = x.recovery /\ Phase(x) = "open" /\ Phase(y) = "done"
           /\ SameRead(x, y) /\ AllCompleted(x)
  <2>1. Read(x) = Chunk /\ k = "kept"
    BY <1>3, <1>7 DEF AllCompleted
  <2> HIDE DEF k, Read, u, v
  <2>2. v = [u EXCEPT !.phase = "done"] /\ u.phase = "open" /\ u.read = Chunk /\ u.text = "kept"
    BY <1>1, <1>4, <1>7, <2>1
  <2>3. Lifecycle!Completes(u, v)
    BY <2>2 DEF Lifecycle!Completes
  <2> QED BY <2>3 DEF Moved, Lifecycle!Moves, u, v
<1>8. CASE /\ y.recovery = x.recovery /\ Phase(x) = "open" /\ Phase(y) = "open"
           /\ ReadsOne(x, y)
  <2>1. PICK c \in Chunk :
            /\ x.chunk[c].st \notin {"completed", "deleted"}
            /\ y.chunk[c].st = "completed"
            /\ \A d \in Chunk : d # c =>
                  (y.chunk[d].st = "completed" <=> x.chunk[d].st = "completed")
    BY <1>8 DEF ReadsOne
  <2>2. Read(y) = Read(x) \cup {c} /\ c \in Chunk \ Read(x) /\ k = "kept"
    BY <1>3, <2>1
  <2> HIDE DEF k, Read, u, v
  <2>3. /\ v = [u EXCEPT !.read = @ \cup {c}]
        /\ u.phase = "open" /\ u.read = Read(x) /\ u.text = "kept"
    BY <1>1, <1>8, <2>2, SMTT(40)
  <2>4. Lifecycle!Reads(u, v)
    BY <2>2, <2>3 DEF Lifecycle!Reads
  <2> QED BY <2>4 DEF Moved, Lifecycle!Moves, u, v
<1> QED BY <1>2, <1>5, <1>6, <1>7, <1>8 DEF Advances

\* A job that is left alone, and stays kept or pruned, keeps its life.
LEMMA LifeStays ==
    ASSUME NEW j \in Job, job'[j] = job[j], evidence'[j] = "pruned" <=> evidence[j] = "pruned"
    PROVE  Moved(j)
BY DEF Moved, LifeOf

\* Jobs that move one by one make a step of the lifecycles.
LEMMA WorkStep ==
    ASSUME TypeOK', \A j \in Job : Moved(j)
    PROVE  Lifecycle!Next
<1> DEFINE lives == [j \in Job |-> LifeOf(j)]
<1>1. \A j \in Job : LifeOf(j)' \in Lifecycle!Life
  BY LifeTyped
<1>2. Lifecycle!Job = Job
  BY DEF Lifecycle!Job, Job
<1>3. lives' = [j \in Job |-> LifeOf(j)']
  OBVIOUS
<1>4. Lifecycle!Work
  BY <1>1, <1>2, <1>3 DEF Lifecycle!Work, Moved
<1> QED BY <1>4 DEF Lifecycle!Next

\* A job that an operation leaves alone took a steady step.
LEMMA SteadySame == \A x \in JobRecord : JobSound(x) => Steady(x, x)
BY DEF Steady, JobSound, Leased

\* Rewriting jobs one by one, with the rest of the ledger left alone.
LEMMA Lift ==
    ASSUME LedgerInv, UNCHANGED <<row, evidence, seen, frozen>>,
           job' = [j \in Job |-> job'[j]],
           \A j \in Job : job'[j] = job[j] \/ Rewrites(job[j], job'[j])
    PROVE  Kept
<1>1. \A j \in Job : job[j] \in JobRecord /\ JobSound(job[j])
  BY DEF LedgerInv, TypeOK
<1>2. \A j \in Job : job'[j] \in JobRecord /\ JobSound(job'[j])
  BY <1>1 DEF Rewrites
<1>3. TypeOK'
  BY <1>2 DEF LedgerInv, TypeOK
<1>4. Linked'
  BY DEF LedgerInv, Linked, Rewrites
<1>5. FrozenStays'
  BY DEF LedgerInv, FrozenStays, Rewrites, NoIntruder, TypeOK
<1>6. FrozenIsExclusive'
  <2> SUFFICES ASSUME NEW j \in frozen
               PROVE  /\ ~BackgroundReview(job'[j])
                      /\ \A c \in Leased(job'[j]) : job'[j].chunk[c].owner \in Interactive
    BY DEF FrozenIsExclusive
  <2>1. j \in Job /\ job[j].manual
    BY DEF LedgerInv, TypeOK, FrozenStays
  <2>2. /\ ~BackgroundReview(job[j])
        /\ \A c \in Leased(job[j]) : job[j].chunk[c].owner \in Interactive
    BY DEF LedgerInv, FrozenIsExclusive
  <2> QED BY <2>1, <2>2 DEF Rewrites, NoIntruder
<1>7. \A j \in Job : Steady(job[j], job'[j])
  BY <1>1, SteadySame DEF Rewrites
<1>8. \A j \in Job : Moved(j)
  BY LifeMoves, LifeStays
<1>9. Lifecycle!Next
  BY <1>3, <1>8, WorkStep
<1> QED BY <1>2, <1>3, <1>4, <1>5, <1>6, <1>7, <1>9 DEF Kept, LedgerInv

\* The same for a transaction on one job.
LEMMA LiftOne ==
    ASSUME LedgerInv, UNCHANGED <<row, evidence, seen, frozen>>,
           NEW j \in Job, NEW y, Rewrite(j, y), y = job[j] \/ Rewrites(job[j], y)
    PROVE  Kept
<1>1. job' = [k \in Job |-> job'[k]] /\ \A k \in Job : job'[k] = IF k = j THEN y ELSE job[k]
  BY DEF Rewrite, LedgerInv, TypeOK
<1> QED BY <1>1, Lift

\* The source row has no part in the invariant but its type.
LEMMA RowStep ==
    ASSUME LedgerInv, UNCHANGED <<job, frozen>>, TypeOK',
           \A j \in Job : evidence[j] # "absent" => evidence'[j] = evidence[j],
           \A j \in Job : evidence[j] = "absent" => evidence'[j] # "pruned"
    PROVE  Kept
<1>1. Linked' /\ FrozenStays' /\ FrozenIsExclusive'
  BY DEF LedgerInv, Linked, FrozenStays, FrozenIsExclusive
<1>2. \A j \in Job : Steady(job[j], job'[j])
  BY SteadySame DEF LedgerInv, TypeOK
<1>3. \A j \in Job : Moved(j)
  BY LifeStays
<1>4. Lifecycle!Next
  BY <1>3, WorkStep
<1> QED BY <1>1, <1>2, <1>4 DEF Kept, LedgerInv

\* save_snapshot and the inventory passes write transcript rows and no job.
LEMMA SourceRows ==
    ASSUME LedgerInv, NEW s \in Source,
           \/ \E r \in Revision : Capture(s, r)
           \/ ReadRow(s) \/ MarkMissing(s) \/ Reappear(s) \/ Relocate(s) \/ LeaveRow(s)
    PROVE  Kept
<1>1. CASE \E r \in Revision : Capture(s, r)
  <2> PICK r \in Revision : Capture(s, r)
    BY <1>1
  <2>1. <<s, r>> \in Job
    BY DEF Job
  <2>2. TypeOK'
    BY <2>1 DEF Capture, LedgerInv, TypeOK, Row
  <2>3. \A j \in Job : /\ evidence[j] # "absent" => evidence'[j] = evidence[j]
                       /\ evidence[j] = "absent" => evidence'[j] # "pruned"
    BY <2>1 DEF Capture, LedgerInv, TypeOK
  <2> QED BY <2>2, <2>3, RowStep DEF Capture
<1>2. CASE ReadRow(s)
  <2>1. TypeOK'
    BY <1>2 DEF ReadRow, LedgerInv, TypeOK
  <2> QED BY <1>2, <2>1, RowStep DEF ReadRow
<1>3. ASSUME NEW from, from \in {"synced", "missing"},
             NEW to \in {"synced", "missing"}, WriteBack(s, from, to)
      PROVE  Kept
  <2>1. seen[s] \in Row
    BY <1>3 DEF WriteBack, LedgerInv, TypeOK, NoRow
  <2>2. TypeOK'
    BY <1>3, <2>1 DEF WriteBack, LedgerInv, TypeOK, Row
  <2> QED BY <1>3, <2>2, RowStep DEF WriteBack
<1>4. CASE MarkMissing(s) \/ Reappear(s) \/ Relocate(s)
  BY <1>3, <1>4 DEF MarkMissing, Reappear, Relocate
<1>5. CASE LeaveRow(s)
  <2>1. TypeOK'
    BY <1>5 DEF LeaveRow, LedgerInv, TypeOK
  <2> QED BY <1>5, <2>1, RowStep DEF LeaveRow
<1> QED BY <1>1, <1>2, <1>4, <1>5

\* enqueue: one new job at most, and every other revision retired.
LEMMA EnqueueStep ==
    ASSUME LedgerInv, NEW s \in Source, NEW recheck \in BOOLEAN, Enqueue(s, recheck)
    PROVE  Kept
<1> USE LedgerAssumption
<1> DEFINE j == <<s, row[s].rev>>
<1>1. j \in Job /\ evidence[j] = "kept"
  <2>1. row[s].status \in {"synced", "missing"}
    BY DEF Enqueue
  <2>2. row[s] \in Row
    BY <2>1 DEF LedgerInv, TypeOK, NoRow
  <2> QED BY <2>2 DEF Row, Job, Enqueue
<1>2. \A k \in Job : job[k] \in JobRecord /\ JobSound(job[k])
  BY DEF LedgerInv, TypeOK
<1>3. \A k \in Job : k # j => job'[k] = IF k[1] = s THEN Superseded(job[k]) ELSE job[k]
  BY DEF Enqueue
<1>4. job'[j] = IF job[j].status = "absent" THEN NewJob(recheck)
                ELSE [job[j] EXCEPT !.manual = @ \/ recheck]
  BY <1>1 DEF Enqueue, Queued
<1>5. \A k \in Job : k # j => job'[k] = job[k] \/ Rewrites(job[k], job'[k])
  <2> TAKE k \in Job
  <2> HAVE k # j
  <2>1. job[k].status = "absent" => Superseded(job[k]) = job[k]
    BY DEF Superseded, Active
  <2> QED BY <1>2, <1>3, <2>1, SupersedeRewrites
<1>6. job[j].status # "absent" => job'[j] = job[j] \/ Rewrites(job[j], job'[j])
  <2> HAVE job[j].status # "absent"
  <2>1. CASE recheck
    <3>1. job'[j] = [job[j] EXCEPT !.manual = TRUE]
      BY <1>4, <2>1
    <3> QED BY <1>1, <1>2, <3>1, LetGoRewrites
  <2>2. CASE ~recheck
    <3>1. job'[j] = [job[j] EXCEPT !.manual = job[j].manual]
      BY <1>1, <1>2, <1>4, <2>2 DEF JobRecord
    <3>2. [job[j] EXCEPT !.manual = job[j].manual] = job[j]
      BY <1>1, <1>2 DEF JobRecord
    <3> QED BY <3>1, <3>2
  <2> QED BY <2>1, <2>2
<1>7. CASE job[j].status # "absent"
  <2>1. \A k \in Job : job'[k] = job[k] \/ Rewrites(job[k], job'[k])
    BY <1>5, <1>6, <1>7
  <2>2. job' = [k \in Job |-> job'[k]] /\ UNCHANGED <<row, evidence, seen, frozen>>
    BY DEF Enqueue
  <2> QED BY <2>1, <2>2, Lift
<1>8. CASE job[j].status = "absent"
  <2> DEFINE n == NewJob(recheck)
  <2> DEFINE fresh == [c \in Chunk |-> Unleased("pending")]
  <2>a. fresh \in [Chunk -> ChunkRecord] /\ 0 \in 0..RecoveryBudget
    BY DEF ChunkRecord, Unleased, Owner
  <2>b. n = [status |-> "queued", chunk |-> fresh, reviewer |-> NoOne, reviewLive |-> FALSE,
             recovery |-> 0, waiting |-> FALSE, manual |-> recheck]
    <3> DEFINE gone == [c \in Chunk |-> Unleased("deleted")]
    <3>1. NoJob = [status |-> "absent", chunk |-> gone, reviewer |-> NoOne,
                   reviewLive |-> FALSE, recovery |-> 0, waiting |-> FALSE, manual |-> FALSE]
      BY DEF NoJob
    <3>2. n = [NoJob EXCEPT !.status = "queued", !.chunk = fresh, !.manual = recheck]
      BY DEF NewJob
    <3> HIDE DEF n, fresh, gone
    <3> QED BY <3>1, <3>2
  <2>c. \A c \in Chunk : /\ fresh[c].st = "pending" /\ fresh[c].owner = NoOne
                         /\ fresh[c].live = FALSE
    BY DEF Unleased
  <2>1. /\ n \in JobRecord /\ n.status = "queued" /\ n.manual = recheck
        /\ n.reviewer = NoOne /\ n.reviewLive = FALSE /\ n.recovery = 0 /\ n.waiting = FALSE
        /\ \A c \in Chunk : /\ n.chunk[c].st = "pending" /\ n.chunk[c].owner = NoOne
                            /\ n.chunk[c].live = FALSE
    <3> HIDE DEF n, fresh
    <3> QED BY <2>a, <2>b, <2>c DEF JobRecord, Owner, Active
  <2>2. job'[j] = n
    BY <1>4, <1>8
  <2> HIDE DEF n
  <2>3. JobSound(n)
    BY <2>1, SMTT(40) DEF JobSound
  <2>4. Steady(job[j], n)
    <3>1. /\ \A c \in Chunk : job[j].chunk[c].st = "deleted"
          /\ ~job[j].waiting /\ ~job[j].reviewLive
      BY <1>1, <1>2, <1>8 DEF JobSound, NoJob, Unleased
    <3> QED BY <1>8, <3>1 DEF Steady, Leased
  <2>5. j \notin frozen
    BY <1>8 DEF LedgerInv, FrozenStays
  <2>6. \A k \in Job : job'[k] \in JobRecord /\ JobSound(job'[k]) /\ Steady(job[k], job'[k])
    BY <1>2, <1>5, <2>1, <2>2, <2>3, <2>4, SteadySame DEF Rewrites
  <2>7. UNCHANGED <<row, evidence, seen, frozen>> /\ job' = [k \in Job |-> job'[k]]
    BY DEF Enqueue
  <2>8. TypeOK'
    BY <2>6, <2>7 DEF LedgerInv, TypeOK
  <2>9. Linked'
    BY <1>1, <1>5, <2>1, <2>2, <2>7 DEF LedgerInv, Linked, Rewrites
  <2>10. FrozenStays'
    BY <1>5, <2>5, <2>7 DEF LedgerInv, FrozenStays, TypeOK, Rewrites, NoIntruder
  <2>11. FrozenIsExclusive'
    <3> SUFFICES ASSUME NEW k \in frozen
                 PROVE  /\ ~BackgroundReview(job'[k])
                        /\ \A c \in Leased(job'[k]) : job'[k].chunk[c].owner \in Interactive
      BY <2>7 DEF FrozenIsExclusive
    <3>1. k \in Job /\ job[k].manual /\ k # j
      BY <2>5 DEF LedgerInv, TypeOK, FrozenStays
    <3>2. /\ ~BackgroundReview(job[k])
          /\ \A c \in Leased(job[k]) : job[k].chunk[c].owner \in Interactive
      BY DEF LedgerInv, FrozenIsExclusive
    <3> QED BY <1>5, <3>1, <3>2 DEF Rewrites, NoIntruder
  <2>12. Moved(j)
    <3>1. /\ job[j].recovery = 0
          /\ \A c \in Chunk : job[j].chunk[c].st = "deleted"
      BY <1>1, <1>2, <1>8 DEF JobSound, NoJob, Unleased
    <3>2. LifeOf(j) = [phase |-> "none", read |-> {}, spent |-> 0, text |-> "kept"]
      BY <1>1, <1>8, <3>1 DEF LifeOf, Phase
    <3>3. LifeOf(j)' = [phase |-> "open", read |-> {}, spent |-> 0, text |-> "kept"]
      BY <1>1, <2>1, <2>2, <2>7 DEF LifeOf, Phase
    <3>4. Lifecycle!Opens(LifeOf(j), LifeOf(j)')
      BY <3>2, <3>3, SMTT(40) DEF Lifecycle!Opens
    <3> QED BY <3>4 DEF Moved, Lifecycle!Moves
  <2>13. \A k \in Job : Moved(k)
    BY <1>5, <2>7, <2>12, LifeMoves, LifeStays
  <2>14. Lifecycle!Next
    BY <2>8, <2>13, WorkStep
  <2> QED BY <2>6, <2>8, <2>9, <2>10, <2>11, <2>14 DEF Kept, LedgerInv
<1> QED BY <1>7, <1>8

\* Pruning takes the chunks of every job of the source and marks their
\* revisions, so no other job loses what its status says was read.
LEMMA PruneStep ==
    ASSUME LedgerInv, NEW j \in Job, Prune(j)
    PROVE  Kept
<1> USE LedgerAssumption
<1> DEFINE s == j[1]
<1>1. s \in Source
  BY DEF Job
<1>2. \A k \in Job : job[k] \in JobRecord /\ JobSound(job[k])
  BY DEF LedgerInv, TypeOK
<1>3. \A k \in Job : k[1] # s => job'[k] = job[k] /\ evidence'[k] = evidence[k]
  BY DEF Prune
<1>4. \A k \in Job : k[1] = s =>
        /\ job'[k] \in JobRecord
        /\ job'[k].status = job[k].status /\ job'[k].chunk = NoJob.chunk
        /\ job'[k].reviewer = job[k].reviewer /\ job'[k].reviewLive = job[k].reviewLive
        /\ job'[k].recovery = job[k].recovery /\ job'[k].waiting = job[k].waiting
        /\ job'[k].manual = job[k].manual
        /\ evidence'[k] = IF evidence[k] = "kept" THEN "pruned" ELSE evidence[k]
  <2> TAKE k \in Job
  <2> HAVE k[1] = s
  <2>1. job'[k] = [job[k] EXCEPT !.chunk = NoJob.chunk]
    BY DEF Prune
  <2>2. NoJob.chunk \in [Chunk -> ChunkRecord]
    BY DEF NoJob, Unleased, ChunkRecord, Owner
  <2>3. evidence'[k] = IF evidence[k] = "kept" THEN "pruned" ELSE evidence[k]
    BY DEF Prune
  <2> HIDE DEF s
  <2> QED BY <1>2, <2>1, <2>2, <2>3 DEF JobRecord
<1>5. \A c \in Chunk : /\ NoJob.chunk[c].st = "deleted" /\ NoJob.chunk[c].owner = NoOne
                       /\ NoJob.chunk[c].live = FALSE
  BY DEF NoJob, Unleased
<1> HIDE DEF s
<1>6. \A k \in Job : job'[k] \in JobRecord /\ JobSound(job'[k]) /\ Steady(job[k], job'[k])
  <2> TAKE k \in Job
  <2>1. CASE k[1] # s
    BY <1>2, <1>3, <2>1, SteadySame
  <2>2. CASE k[1] = s
    <3>1. JobSound(job'[k])
      BY <1>2, <1>4, <1>5, <2>2, SMTT(40) DEF JobSound
    <3>2. Steady(job[k], job'[k])
      BY <1>2, <1>4, <1>5, <2>2 DEF Steady, Leased, JobSound
    <3> QED BY <1>4, <2>2, <3>1, <3>2
  <2> QED BY <2>1, <2>2
<1>7. /\ UNCHANGED <<seen, frozen>> /\ job' = [k \in Job |-> job'[k]]
      /\ evidence' = [k \in Job |-> evidence'[k]]
      /\ row' = [row EXCEPT ![s].status = "pruned"]
  BY DEF Prune, s
<1>8. TypeOK'
  <2>a. row[s].rev # NoOne
    BY DEF Prune, Job, s
  <2>1. row[s] \in Row
    BY <1>1, <2>a DEF LedgerInv, TypeOK, NoRow
  <2>2. row' \in [Source -> Row \cup {NoRow}]
    BY <1>1, <1>7, <2>1 DEF LedgerInv, TypeOK, Row
  <2>3. \A k \in Job : evidence'[k] \in {"absent", "kept", "pruned"}
    BY <1>3, <1>4 DEF LedgerInv, TypeOK
  <2> QED BY <1>6, <1>7, <2>2, <2>3 DEF LedgerInv, TypeOK
<1>9. Linked'
  BY <1>3, <1>4, <1>5 DEF LedgerInv, Linked, TypeOK
<1>10. FrozenStays' /\ FrozenIsExclusive'
  BY <1>3, <1>4, <1>5, <1>7, SMTT(40) DEF LedgerInv, TypeOK, FrozenStays, FrozenIsExclusive, Leased,
     BackgroundReview
<1>11. Lifecycle!Forget(s)
  <2> DEFINE lives == [k \in Job |-> LifeOf(k)]
  <2>1. PICK r \in Revision : j = <<s, r>>
    BY DEF Job, s
  <2>2. LifeOf(j).phase = "done"
    BY DEF Prune, LifeOf, Phase
  <2>3. \A k \in Job : LifeOf(k)' \in Lifecycle!Life
    BY <1>8, LifeTyped
  <2>4. \A k \in Job : k[1] = s /\ evidence[k] # "absent" => LifeOf(k)' = Lifecycle!Forgotten(LifeOf(k))
    <3> TAKE k \in Job
    <3> HAVE k[1] = s /\ evidence[k] # "absent"
    <3>1. evidence'[k] = "pruned"
      BY <1>4 DEF LedgerInv, TypeOK
    <3>2. Phase(job'[k]) = Phase(job[k]) /\ job'[k].recovery = job[k].recovery
      BY <1>4 DEF Phase
    <3>3. {c \in Chunk : job'[k].chunk[c].st = "completed"} = {}
      BY <1>4, <1>5
    <3>4. LifeOf(k)' = [phase |-> Phase(job[k]), read |-> {}, spent |-> job[k].recovery, text |-> "pruned"]
      BY <3>1, <3>2, <3>3 DEF LifeOf
    <3>5. LifeOf(k).phase = Phase(job[k]) /\ LifeOf(k).spent = job[k].recovery
      BY DEF LifeOf
    <3> QED BY <3>4, <3>5 DEF Lifecycle!Forgotten
  <2>5. \A k \in Job : k[1] = s /\ evidence[k] = "absent" =>
            LifeOf(k).phase = "none" /\ LifeOf(k)' = LifeOf(k)
    <3> TAKE k \in Job
    <3> HAVE k[1] = s /\ evidence[k] = "absent"
    <3>1. job[k].status = "absent"
      BY DEF LedgerInv, Linked
    <3>2. \A c \in Chunk : job[k].chunk[c].st = "deleted"
      BY <1>2, <1>5, <3>1 DEF JobSound
    <3>3. evidence'[k] = "absent" /\ job'[k].status = "absent"
      BY <1>4, <3>1
    <3> QED BY <1>4, <1>5, <3>1, <3>2, <3>3 DEF LifeOf, Phase
  <2>6. \A k \in Job : k[1] # s => LifeOf(k)' = LifeOf(k)
    BY <1>3 DEF LifeOf
  <2>7. Lifecycle!Job = Job
    BY DEF Lifecycle!Job, Job
  <2>8. lives' = [k \in Job |-> LifeOf(k)']
    OBVIOUS
  <2>9. \E q \in Revision : lives[<<s, q>>].phase = "done"
    BY <2>1, <2>2
  <2> QED BY <2>3, <2>4, <2>5, <2>6, <2>7, <2>8, <2>9 DEF Lifecycle!Forget
<1> QED BY <1>1, <1>6, <1>8, <1>9, <1>10, <1>11 DEF Kept, LedgerInv, Lifecycle!Next

\* A manifest is published only over jobs nobody is at work on.
LEMMA FreezeStep ==
    ASSUME LedgerInv, NEW J \in SUBSET Job, FreezeManual(J)
    PROVE  Kept
<1>1. \A k \in Job : job[k] \in JobRecord /\ JobSound(job[k])
  BY DEF LedgerInv, TypeOK
<1>2. \A k \in J : /\ job[k].status # "absent" /\ ~BackgroundReview(job[k])
                   /\ Leased(job[k]) = {}
                   /\ job'[k] = [job[k] EXCEPT !.manual = TRUE]
  BY DEF FreezeManual
<1>3. \A k \in Job : k \notin J => job'[k] = job[k]
  BY DEF FreezeManual
<1>4. \A k \in J : Rewrites(job[k], job'[k])
  BY <1>1, <1>2, LetGoRewrites
<1>5. \A k \in Job : job'[k] \in JobRecord /\ JobSound(job'[k]) /\ Steady(job[k], job'[k])
  BY <1>1, <1>3, <1>4, SteadySame DEF Rewrites
<1>6. /\ UNCHANGED <<row, evidence, seen>> /\ job' = [k \in Job |-> job'[k]]
      /\ frozen' = frozen \cup J
  BY DEF FreezeManual
<1>7. TypeOK'
  BY <1>5, <1>6 DEF LedgerInv, TypeOK
<1>8. Linked'
  BY <1>3, <1>4, <1>6 DEF LedgerInv, Linked, Rewrites
<1>9. \A k \in J : /\ job'[k].manual /\ job'[k].status # "absent"
                   /\ ~BackgroundReview(job'[k]) /\ Leased(job'[k]) = {}
  <2> TAKE k \in J
  <2>a. k \in Job /\ job[k] \in JobRecord /\ job'[k] = [job[k] EXCEPT !.manual = TRUE]
    BY <1>1, <1>2
  <2>1. /\ job'[k].manual /\ job'[k].status = job[k].status /\ job'[k].chunk = job[k].chunk
        /\ job'[k].reviewer = job[k].reviewer /\ job'[k].reviewLive = job[k].reviewLive
    BY <2>a DEF JobRecord
  <2> QED BY <1>2, <2>1, ZenonT(60) DEF BackgroundReview, Leased
<1>10. \A k \in frozen : k \in Job /\ job[k].manual /\ job[k].status # "absent"
  BY DEF LedgerInv, TypeOK, FrozenStays
<1>11. FrozenStays' /\ FrozenIsExclusive'
  BY <1>3, <1>6, <1>9, <1>10 DEF LedgerInv, FrozenStays, FrozenIsExclusive
<1>12. \A k \in Job : Moved(k)
  BY <1>3, <1>4, <1>6, LifeMoves, LifeStays
<1>13. Lifecycle!Next
  BY <1>7, <1>12, WorkStep
<1> QED BY <1>5, <1>7, <1>8, <1>11, <1>13 DEF Kept, LedgerInv

\* What a worker does: claim, repair, checkpoint, review, finalize, release.
LEMMA WorkerSteps ==
    ASSUME LedgerInv, NEW j \in Job, NEW w \in Worker, WorkerStep(j, w)
    PROVE  Kept
<1> USE LedgerAssumption
<1> DEFINE x == job[j]
<1>1. x \in JobRecord /\ JobSound(x)
  BY DEF LedgerInv, TypeOK
<1>a. x.recovery \in 0..RecoveryBudget /\ x.reviewer \in Owner
  BY <1>1 DEF JobRecord
<1>2. CASE ClaimRecovers(j, w)
  BY <1>1, <1>2, RecoverRewrites, LiftOne DEF ClaimRecovers
<1>3. ASSUME NEW C \in SUBSET Chunk, ClaimChunks(j, w, C)
      PROVE  Kept
  <2>1. C \in SUBSET Open(x) /\ C # {} /\ x.status \in Active /\ ~x.waiting /\ MayWork(w, x)
    BY <1>3 DEF ClaimChunks
  <2>2. Rewrites(x, [x EXCEPT
              !.status = "processing",
              !.chunk = [c \in Chunk |-> IF c \in C
                         THEN [st |-> "processing", owner |-> w, live |-> TRUE] ELSE @[c]]])
    BY <1>1, <2>1, ClaimRewrites
  <2> QED BY <1>3, <2>2, LiftOne DEF ClaimChunks
<1>4. ASSUME NEW c \in Chunk, CheckpointChunk(j, c, w)
      PROVE  Kept
  <2> DEFINE done == [x EXCEPT !.chunk[c] = Unleased("completed")]
             y == IF AllCompleted(done) THEN [done EXCEPT !.status = "reviewing"] ELSE done
  <2>1. x.chunk[c] = [st |-> "processing", owner |-> w, live |-> TRUE]
    BY <1>4 DEF CheckpointChunk
  <2>2. Rewrites(x, y)
    BY <1>1, <2>1, CheckpointRewrites
  <2>3. Rewrite(j, y) /\ UNCHANGED <<row, evidence, seen, frozen>>
    BY <1>4 DEF CheckpointChunk
  <2> HIDE DEF y
  <2> QED BY <2>2, <2>3, LiftOne
<1>5. CASE ClaimReview(j, w)
  <2> DEFINE spent == job[j].recovery + (IF OthersLease(j, w) THEN 1 ELSE 0)
             y == [x EXCEPT !.reviewer = w, !.reviewLive = TRUE, !.recovery = spent]
  <2>1. spent \in {x.recovery, x.recovery + 1} /\ spent < RecoveryBudget
    BY <1>5, <1>a DEF ClaimReview
  <2>2. MayWork(w, x) /\ x.status = "reviewing" /\ (x.reviewLive => x.reviewer = w)
    BY <1>5, <1>1 DEF ClaimReview, ReviewOpen, OthersLease, JobSound
  <2>3. Rewrite(j, y) /\ UNCHANGED <<row, evidence, seen, frozen>>
    BY <1>5, SMTT(40) DEF ClaimReview
  <2> HIDE DEF spent
  <2>4. Rewrites(x, y)
    BY <1>1, <2>1, <2>2, ClaimReviewRewrites
  <2> QED BY <2>3, <2>4, LiftOne
<1>6. CASE ClaimReviewExhausts(j, w)
  <2>1. x.status = "reviewing" /\ ~x.reviewLive /\ x.recovery + 1 >= RecoveryBudget
    BY <1>6 DEF ClaimReviewExhausts, ReviewOpen, OthersLease
  <2> QED BY <1>1, <1>6, <2>1, ReviewFailsRewrites, LiftOne DEF ClaimReviewExhausts
<1>7. CASE ReleaseReview(j, w)
  <2>1. x.status # "absent"
    BY <1>1, <1>7 DEF ReleaseReview, JobSound
  <2>2. Rewrites(x, [x EXCEPT !.reviewer = NoOne, !.reviewLive = FALSE])
    BY <1>1, <2>1, LetGoRewrites
  <2> QED BY <1>7, <2>2, LiftOne DEF ReleaseReview
<1>8. CASE Finalize(j, w)
  BY <1>1, <1>8, FinalizeRewrites, LiftOne DEF Finalize, MayFinalize
<1>9. CASE FinalizeStale(j, w)
  BY <1>1, <1>9, FinalizeRewrites, LiftOne DEF FinalizeStale, MayFinalize
<1> QED BY <1>2, <1>3, <1>4, <1>5, <1>6, <1>7, <1>8, <1>9 DEF WorkerStep

\* reconcile, of one job, one lane or the whole project, keeps the invariant.
LEMMA ReconcileStep ==
    ASSUME LedgerInv, NEW J, ReconcileSet(J)
    PROVE  Kept
<1>1. \A k \in Job : job[k] \in JobRecord /\ JobSound(job[k])
  BY DEF LedgerInv, TypeOK
<1>2. \A k \in Job : job'[k] = IF k \in J THEN Reconciled(job[k]) ELSE job[k]
  BY DEF ReconcileSet
<1>3. \A k \in Job : job'[k] = job[k] \/ Rewrites(job[k], job'[k])
  BY <1>1, <1>2, ReconcileRewrites
<1>4. job' = [k \in Job |-> job'[k]] /\ UNCHANGED <<row, evidence, seen, frozen>>
  BY DEF ReconcileSet
<1> QED BY <1>3, <1>4, Lift

\* Parking and requeueing due jobs keeps the invariant, whatever is chosen.
LEMMA RebalanceStep ==
    ASSUME LedgerInv, NEW slots, NEW chosen, Rebalance(slots, chosen)
    PROVE  Kept
<1> DEFINE st(k) == IF k \in chosen THEN "queued" ELSE "parked"
<1>1. \A k \in Job : job[k] \in JobRecord /\ JobSound(job[k])
  BY DEF LedgerInv, TypeOK
<1>2. \A k \in Job : job'[k] = IF Waits(k) THEN [job[k] EXCEPT !.status = st(k)] ELSE job[k]
  BY DEF Rebalance
<1>3. \A k \in Job : job'[k] = job[k] \/ Rewrites(job[k], job'[k])
  BY <1>1, <1>2, QueueRewrites, ZenonT(60) DEF Waits
<1>4. job' = [k \in Job |-> job'[k]] /\ UNCHANGED <<row, evidence, seen, frozen>>
  BY DEF Rebalance
<1> QED BY <1>3, <1>4, Lift

\* What may happen to one job without its worker: pruning, reservation,
\* deferral, reconciliation, activation, and the clock.
LEMMA JobSteps ==
    ASSUME LedgerInv, NEW j \in Job, JobStep(j)
    PROVE  Kept
<1> USE LedgerAssumption
<1> DEFINE x == job[j]
<1>1. x \in JobRecord /\ JobSound(x)
  BY DEF LedgerInv, TypeOK
<1>2. CASE ReserveManual(j)
  BY <1>1, <1>2, LetGoRewrites, LiftOne DEF ReserveManual
<1>3. CASE Defer(j)
  BY <1>1, <1>3, DeferRewrites, LiftOne DEF Defer
<1>4. CASE RequestReconcile(j)
  BY <1>4, ReconcileStep DEF RequestReconcile
<1>5. CASE ActivateParked(j)
  BY <1>1, <1>5, QueueRewrites, LiftOne DEF ActivateParked
<1>6. CASE ExpireReview(j)
  <2>1. x.status # "absent"
    BY <1>1, <1>6 DEF ExpireReview, JobSound
  <2> QED BY <1>1, <1>6, <2>1, LetGoRewrites, LiftOne DEF ExpireReview
<1>7. CASE BackoffOver(j)
  <2>1. x.status # "absent"
    BY <1>1, <1>7 DEF BackoffOver, JobSound
  <2> QED BY <1>1, <1>7, <2>1, LetGoRewrites, LiftOne DEF BackoffOver
<1>8. ASSUME NEW c \in Chunk, ExpireChunk(j, c)
      PROVE  Kept
  BY <1>1, <1>8, ExpireRewrites, LiftOne DEF ExpireChunk
<1> QED BY <1>2, <1>3, <1>4, <1>5, <1>6, <1>7, <1>8, PruneStep DEF JobStep

\* What happens to many jobs at once: a manual selection, a reconciliation
\* of the queue, a rebalance.
LEMMA QueueSteps ==
    ASSUME LedgerInv, QueueStep
    PROVE  Kept
BY FreezeStep, ReconcileStep, RebalanceStep DEF QueueStep, BackgroundReconcile,
   WakeReconcile

\* Renewing a live lease, or doing nothing, changes nothing the ledger tells.
LEMMA StutterKeeps ==
    ASSUME LedgerInv, UNCHANGED vars
    PROVE  Kept
<1>1. /\ job' = [k \in Job |-> job'[k]] /\ UNCHANGED <<row, evidence, seen, frozen>>
      /\ \A k \in Job : job'[k] = job[k]
  BY DEF vars, LedgerInv, TypeOK
<1> QED BY <1>1, Lift

\* Every step of the ledger keeps the invariant and every job steady.
LEMMA NextKeeps ==
    ASSUME LedgerInv, [Next]_vars
    PROVE  Kept
<1>1. CASE \E s \in Source : SourceStep(s)
  BY <1>1, SourceRows, EnqueueStep DEF SourceStep
<1>2. CASE \E j \in Job, w \in Worker : WorkerStep(j, w)
  BY <1>2, WorkerSteps
<1>3. CASE \E j \in Job : JobStep(j)
  BY <1>3, JobSteps
<1>4. CASE QueueStep
  BY <1>4, QueueSteps
<1>5. CASE UNCHANGED vars
  BY <1>5, StutterKeeps
<1> QED BY <1>1, <1>2, <1>3, <1>4, <1>5 DEF Next

-----------------------------------------------------------------------------
(* The results. *)

\* The ledger starts empty, and an empty ledger satisfies the invariant.
LEMMA InitInv == Init => LedgerInv
<1> USE LedgerAssumption
<1> SUFFICES ASSUME Init PROVE LedgerInv
  OBVIOUS
<1> DEFINE gone == [c \in Chunk |-> Unleased("deleted")]
<1>1. /\ gone \in [Chunk -> ChunkRecord] /\ 0 \in 0..RecoveryBudget
      /\ \A c \in Chunk : gone[c].st = "deleted" /\ gone[c].owner = NoOne /\ ~gone[c].live
  BY DEF ChunkRecord, Unleased, Owner
<1>2. NoJob = [status |-> "absent", chunk |-> gone, reviewer |-> NoOne, reviewLive |-> FALSE,
               recovery |-> 0, waiting |-> FALSE, manual |-> FALSE]
  BY DEF NoJob
<1> HIDE DEF gone
<1>3. NoJob \in JobRecord
  BY <1>1, <1>2 DEF JobRecord, Owner
<1>4. JobSound(NoJob)
  BY <1>1, <1>2 DEF JobSound
<1>5. NoJob.status = "absent"
  BY <1>2
<1>6. TypeOK
  BY <1>3 DEF Init, TypeOK
<1>7. Linked /\ FrozenStays /\ FrozenIsExclusive
  BY <1>5 DEF Init, Linked, FrozenStays, FrozenIsExclusive
<1> QED BY <1>4, <1>6, <1>7 DEF Init, LedgerInv

\* The inductive invariant holds in every reachable state of the ledger.
THEOREM LedgerInvariance == Spec => []LedgerInv
<1>1. LedgerInv /\ [Next]_vars => LedgerInv'
  BY NextKeeps DEF Kept
<1> QED BY InitInv, <1>1, PTL DEF Spec

\* The ledger implements the lifecycle of every revision: what supersedes,
\* expires, defers or parks a job is invisible there, and the rest is a move.
THEOREM LifecycleImplemented == Spec => LifecycleSpec
<1> DEFINE lives == [j \in Job |-> LifeOf(j)]
<1>1. Init => Lifecycle!Init
  <2> SUFFICES ASSUME Init PROVE Lifecycle!Init
    OBVIOUS
  <2>1. \A j \in Job : LifeOf(j) = [phase |-> "none", read |-> {}, spent |-> 0, text |-> "kept"]
    BY DEF Init, LifeOf, Phase, NoJob, Unleased
  <2> QED BY <2>1 DEF Lifecycle!Init, Lifecycle!Job, Job
<1>2. LedgerInv /\ [Next]_vars => [Lifecycle!Next]_lives
  BY NextKeeps DEF Kept
<1> QED BY LedgerInvariance, <1>1, <1>2, PTL DEF Spec, LifecycleSpec, Lifecycle!Spec

\* Type correctness of every row the store writes.
THEOREM TypeCorrect == Spec => []TypeOK
<1>1. LedgerInv => TypeOK
  BY DEF LedgerInv
<1> QED BY LedgerInvariance, <1>1, PTL

\* No order of claims, expiries, recoveries and supersessions brings a job
\* under review, or completes it, with a chunk nobody has read.
THEOREM EveryChunkIsRead == Spec => []NoUnreadReview
<1>1. LedgerInv => NoUnreadReview
  BY DEF LedgerInv, NoUnreadReview, JobSound, Linked, AllCompleted
<1> QED BY LedgerInvariance, <1>1, PTL

\* A review lease is left only on jobs under review or superseded.
THEOREM ReviewLeasesStay == Spec => []ReviewLeaseScope
<1>1. LedgerInv => ReviewLeaseScope
  BY DEF LedgerInv, ReviewLeaseScope, JobSound
<1> QED BY LedgerInvariance, <1>1, PTL

\* A spent budget is a failed job, and nothing of it can be leased again.
THEOREM BudgetBoundsRecovery == Spec => []ExhaustedIsFailed
<1>1. LedgerInv => ExhaustedIsFailed
  BY DEF LedgerInv, ExhaustedIsFailed, JobSound
<1> QED BY LedgerInvariance, <1>1, PTL

\* A published manual selection is free of live background leases for good.
THEOREM ManualSelectionIsExclusive == Spec => []FrozenIsExclusive
<1>1. LedgerInv => FrozenIsExclusive
  BY DEF LedgerInv
<1> QED BY LedgerInvariance, <1>1, PTL

\* Completed and failed jobs never leave their status.
THEOREM FinalStatuses == Spec => FinalSticks
<1>1. LedgerInv /\ [Next]_vars => [FinalStep]_vars
  BY NextKeeps DEF Kept, Steady, FinalStep
<1> QED BY LedgerInvariance, <1>1, PTL DEF Spec, FinalSticks

\* A chunk that was read is never handed out a second time.
THEOREM ChunksStayRead == Spec => ReadSticks
<1>1. LedgerInv /\ [Next]_vars => [ReadStep]_vars
  BY NextKeeps DEF Kept, Steady, ReadStep
<1> QED BY LedgerInvariance, <1>1, PTL DEF Spec, ReadSticks

\* No step puts a job to work before its retry backoff is over.
THEOREM BackoffIsKept == Spec => BackoffHolds
<1>1. LedgerInv /\ [Next]_vars => [BackoffStep]_vars
  BY NextKeeps, SMTT(40) DEF Kept, Steady, BackoffStep
<1> QED BY LedgerInvariance, <1>1, PTL DEF Spec, BackoffHolds

\* No step hands a live lease, of a chunk or of the review, to another owner.
THEOREM LiveLeasesAreSafe == Spec => NoLiveSteal
<1>1. LedgerInv /\ [Next]_vars => [LeaseStep]_vars
  BY NextKeeps DEF Kept, Steady, LeaseStep
<1> QED BY LedgerInvariance, <1>1, PTL DEF Spec, NoLiveSteal

-----------------------------------------------------------------------------
(* The capture of a session (NativeCapture).                                   *)

(* What a captured session may look like, and what a reader carries.           *)
Halves == 0..(2 * Len(Script))
Natives == [text : Halves, place : Places, evidence : Evidence \cup {"mine", "mixed", "other"},
            version : Nat, crossed : {"yes", "no"}]
Sources == {NoSource} \cup [rev : Halves, proof : Halves, status : {"synced", "missing"}, uri : Places]
Views == [rev : Halves, text : Halves]
ReaderStates ==
    [at : Stages, place : Places, seen : Nat, text : Halves, shown : Halves,
     owner : SUBSET {"mine", "other"}, key : Places, current : {"yes", "no"}, quiet : {"yes", "no"}]

CaptureTypes ==
    /\ host \in Hosts /\ native \in Natives
    /\ source \in [Places -> Sources] /\ view \in [Places -> Views]
    /\ queue \subseteq Places \X Halves /\ work \in [Readers -> ReaderStates]
    /\ events \in 0..MaxEvents /\ native.version <= events

\* The rendering and the revision of each text, for this session's host.
Rendering == [t \in Halves |-> Rendered(t)]
Revising == [t \in Halves |-> Saved(t)]

\* In what follows h is the host, n the native session, R and K the rendering
\* and the revision of each text, S the sources, V their renderings, Q the jobs.
\* A rendering is that of the text, or of a later one if the text is not the last.
Fits(t, s, h, n, R) == s = R[t] \/ (h \notin Codex /\ t < n.text)

SourcesSound(n, S, K) ==
    \A p \in Places : S[p] # NoSource => S[p].rev = K[S[p].proof] /\ S[p].proof <= n.text

ViewsSound(h, n, V, R, K) ==
    \A p \in Places : V[p] # NoView =>
        \E t \in Halves : t <= n.text /\ V[p].rev = K[t] /\ Fits(t, V[p].text, h, n, R)

\* What a reader carries, whoever else is at work.  An inspection that sees the
\* stamps it took has read the session as it is.
HasShown == {"rendered", "save", "store", "view"}
HasRead == {"render", "read"} \cup HasShown
Carries(r, w, h, n, R) ==
    /\ w.text <= n.text
    /\ w.at \in HasShown => Fits(w.text, w.shown, h, n, R)
    /\ r = "inspect" =>
          /\ w.at \in HasShown => w.shown = R[w.text]
          /\ w.at \in HasRead => ~HalfLine(w.text)
          /\ w.at \in {"stamped", "render", "rendered", "save"} => w.seen <= n.version
          /\ w.at \in {"render", "rendered", "save"} /\ n.version = w.seen =>
                n.text = w.text /\ n.evidence = "mine"

\* A reader that was alone so far carries what the host has, and what it has
\* saved is that.
SourceIsWhole(p, n, S, K) == S[p].rev = K[n.text] /\ S[p].status = "synced" /\ S[p].uri = n.place
ViewIsWhole(p, n, V, R, K) == V[p] = [rev |-> K[n.text], text |-> R[n.text]]

Pinned(r, w, h) == r = "scan" /\ w.at = "listed" /\ h = "cursor-db"
IsAlone(r, w, h, n, S, V, Q, R, K) ==
    w.quiet = "yes" =>
        /\ w.at \in {"listed", "stamped"} \cup HasRead => w.place = n.place
        /\ w.at \in HasRead \/ Pinned(r, w, h) => w.text = n.text
        /\ w.at \in HasShown => w.shown = R[n.text]
        /\ w.at = "store" /\ w.current = "yes" => ViewIsWhole(w.key, n, V, R, K)
        /\ w.at \in {"view", "queue", "done"} => SourceIsWhole(w.key, n, S, K)
        /\ w.at \in {"queue", "done"} => ViewIsWhole(w.key, n, V, R, K)
        /\ w.at = "done" => <<w.key, K[n.text]>> \in Q

\* Until two readers cross there is one source, and whoever reads continues it.
Flies(w) == w.at \notin {"idle", "done"}
Continuing(r, w, h, S) ==
    \A p \in Places : S[p] # NoSource =>
        /\ w.at \in {"render", "rendered", "read", "save"} \/ Pinned(r, w, h) => S[p].proof <= w.text
        /\ h # "hermes" /\ w.at = "store" => p = w.key
OnlySource(h, S) == h # "hermes" => \A p, q \in Places : S[p] # NoSource /\ S[q] # NoSource => p = q
OneAtATime(h, n, S, ws) ==
    n.crossed = "no" =>
        /\ \A r, o \in Readers : Flies(ws[r]) /\ Flies(ws[o]) => r = o
        /\ OnlySource(h, S)
        /\ \A r \in Readers : Continuing(r, ws[r], h, S)

CaptureInv ==
    /\ CaptureTypes
    /\ SourcesSound(native, source, Revising) /\ ViewsSound(host, native, view, Rendering, Revising)
    /\ \A r \in Readers : Carries(r, work[r], host, native, Rendering)
    /\ \A r \in Readers : IsAlone(r, work[r], host, native, source, view, queue, Rendering, Revising)
    /\ OneAtATime(host, native, source, work)
-----------------------------------------------------------------------------
(* The data: what is shown of a text, and what is saved of it.                 *)
LEMMA SmallestThere ==
  ASSUME NEW S, S \subseteq Nat, S # {}
  PROVE  \E x \in S : \A y \in S : x <= y
  <1> DEFINE R == {ss \in Nat \X Nat : ss[1] < ss[2]}
  <1>1. IsWellFoundedOn(R, Nat)
    BY NatLessThanWellFounded DEF OpToRel
  <1>2. PICK x \in S : \A y \in S : ~ (<<y, x>> \in R)
    BY ONLY <1>1, WFMin, S \subseteq Nat, S # {}
  <1>3. ASSUME NEW y \in S PROVE x <= y
    <2>1. x \in Nat /\ y \in Nat
      OBVIOUS
    <2>2. ~ (<<y, x>>[1] < <<y, x>>[2])
      BY <1>2, <2>1
    <2>3. QED
      BY <2>1, <2>2
  <1>4. QED
    BY <1>3

LEMMA LengthIs == Len(Script) \in Nat /\ MaxEvents \in Nat /\ Starts \subseteq 0..Len(Script)
  BY CaptureAssumption

\* The last of some lines.
LEMMA LastLine ==
  ASSUME NEW N \in Nat, NEW S, S \subseteq 1..N
  PROVE  /\ Last(S) \in 0..N
         /\ S = {} => Last(S) = 0
         /\ \A y \in S : y <= Last(S)
         /\ S # {} => Last(S) \in S
  <1>1. CASE S = {}
    BY <1>1 DEF Last
  <1>2. CASE S # {}
    <2> DEFINE T == {N - x : x \in S}
    <2>1. \A x \in S : x \in Nat /\ N - x \in Nat
      OBVIOUS
    <2>2. T \subseteq Nat /\ T # {}
      BY <1>2, <2>1
    <2>3. PICK a \in T : \A b \in T : a <= b
      BY <2>2, SmallestThere
    <2>4. PICK x \in S : a = N - x
      OBVIOUS
    <2>5. ASSUME NEW y \in S PROVE y <= x
      <3>1. N - x <= N - y
        BY <2>3, <2>4
      <3>2. x \in Nat /\ y \in Nat
        BY <2>1
      <3>3. QED
        BY ONLY <3>1, <3>2, N \in Nat
    <2>6. Last(S) \in S /\ \A y \in S : y <= Last(S)
      BY <1>2, <2>5 DEF Last
    <2>7. 1..N \subseteq 0..N
      OBVIOUS
    <2>8. Last(S) \in 0..N
      BY <2>6, <2>7
    <2>9. QED
      BY <1>2, <2>6, <2>8
  <1>3. QED
    BY <1>1, <1>2

\* Every parser shows lines of the text, Codex of a longer text no fewer.
LEMMA ShownAre ==
  ASSUME NEW n \in Nat
  PROVE  Shown(n) \subseteq 1..n
  <1>1. \A kinds : Line(n, kinds) \subseteq 1..n
    BY DEF Line
  <1>2. CodexShows(n) \subseteq 1..n /\ ClaudeShows(n) \subseteq 1..n
    BY <1>1 DEF CodexShows, ClaudeShows
  <1>3. GrokShows(n) \subseteq 1..n /\ CursorShows(n) \subseteq 1..n /\ BubbleShows(n) \subseteq 1..n
    BY <1>1 DEF GrokShows, CursorShows, BubbleShows
  <1>4. HermesShows(n) \subseteq 1..n /\ StateShows(n) \subseteq 1..n
    BY <1>1 DEF HermesShows, StateShows
  <1>5. OpencodeShows(n) \subseteq 1..n /\ RecordShows(n) \subseteq 1..n
    BY <1>1 DEF OpencodeShows, RecordShows
  <1>6. QED
    BY <1>2, <1>3, <1>4, <1>5 DEF Shown

LEMMA CodexShowsOn ==
  ASSUME NEW m \in Nat, NEW n \in Nat, m <= n
  PROVE  CodexShows(m) \subseteq CodexShows(n)
  BY DEF CodexShows, Line

LEMMA HalvesAre ==
  ASSUME NEW t \in Halves
  PROVE  t \in Nat /\ t \div 2 \in 0..Len(Script) /\ \A s \in Halves : s <= t => s \div 2 <= t \div 2
  BY LengthIs DEF Halves

LEMMA RenderedIs ==
  ASSUME NEW t \in Halves
  PROVE  Rendered(t) \in Halves
  <1>1. t \div 2 \in Nat /\ t \div 2 <= Len(Script)
    BY HalvesAre, LengthIs
  <1>2. Rendered(t) \in 0..(t \div 2)
    BY <1>1, ShownAre, LastLine DEF Rendered
  <1>3. QED
    BY <1>1, <1>2, LengthIs DEF Halves

LEMMA CodexRenderedOn ==
  ASSUME NEW s \in Halves, NEW t \in Halves, s <= t, host \in Codex
  PROVE  Rendered(s) <= Rendered(t)
  <1>1. s \div 2 \in Nat /\ t \div 2 \in Nat /\ s \div 2 <= t \div 2
    BY HalvesAre, LengthIs
  <1>2. CodexShows(s \div 2) \subseteq CodexShows(t \div 2)
    BY <1>1, CodexShowsOn
  <1>3. Shown(s \div 2) = CodexShows(s \div 2) /\ Shown(t \div 2) = CodexShows(t \div 2)
    BY DEF Shown, Codex
  <1> DEFINE A == Shown(s \div 2)
             B == Shown(t \div 2)
  <1>4. A \subseteq B /\ A \subseteq 1..(s \div 2) /\ B \subseteq 1..(t \div 2)
    BY <1>1, <1>2, <1>3, ShownAre
  <1>5. Rendered(s) = Last(A) /\ Rendered(t) = Last(B)
    BY DEF Rendered
  <1> HIDE DEF A, B
  <1>6. Last(A) \in 0..(s \div 2) /\ (A = {} => Last(A) = 0) /\ (A # {} => Last(A) \in A)
    BY <1>1, <1>4, LastLine
  <1>7. Last(B) \in 0..(t \div 2) /\ \A y \in B : y <= Last(B)
    BY <1>1, <1>4, LastLine
  <1>8. QED
    BY <1>4, <1>5, <1>6, <1>7

\* The revision of a text: a Codex one is its own rendering.
LEMMA SavedIs ==
  ASSUME NEW t \in Halves
  PROVE  /\ Saved(t) \in Halves /\ RenderingOf(Saved(t)) = Rendered(t)
         /\ host \in Codex => Saved(t) = Rendered(t)
         /\ host \notin Codex => Saved(t) = t
         /\ \A s \in Halves : s <= t => Saved(s) <= Saved(t)
  BY RenderedIs, CodexRenderedOn DEF Saved, RenderingOf

LEMMA Tables ==
  ASSUME NEW t \in Halves
  PROVE  Rendering[t] = Rendered(t) /\ Revising[t] = Saved(t)
  BY DEF Rendering, Revising

LEMMA TablesStay ==
  ASSUME host' = host
  PROVE  Rendering' = Rendering /\ Revising' = Revising
  <1>1. Rendering' = Rendering
    BY DEF Rendering, Rendered, Shown
  <1>2. Revising' = Revising
    BY DEF Revising, Saved, Rendered, Shown
  <1>3. QED
    BY <1>1, <1>2

LEMMA ReadingIs ==
  /\ Reading.pinned = "yes" <=> host = "cursor-db"
  /\ host \in Codex \/ host = "cursor-db" => Reading.again # "yes"
  BY DEF Reading, Codex, CodexReading, ArchiveReading, ClaudeReading, GrokReading,
     CursorReading,
         CursorRowReading, HermesReading, HermesRowReading, OpencodeReading, AntigravityReading,
         HistoryReading

LEMMA RootsAre ==
  /\ Roots \in SUBSET {"mine", "other"} /\ Roots # {}
  /\ "other" \notin Roots <=> native.evidence = "mine"
  BY DEF Roots
\* The source that a reading goes to: the only one there is, if it continues it.
LEMMA KeyIs ==
  ASSUME NEW r \in Readers, NEW w, w.place \in Places
  PROVE  /\ KeyOf(r, w) \in Places
         /\ \A p \in Places :
               source[p] # NoSource /\ host # "hermes" /\ OnlySource(host, source)
               /\ source[p].rev <= Saved(w.text) => p = KeyOf(r, w)
  <1> DEFINE known == {p \in Places : source[p] # NoSource}
             logical == IF r = "scan" /\ Reading.logical = "yes" THEN known ELSE {}
             moved == {p \in known : Continues(source[p].rev, Saved(w.text))}
             key == CASE w.place \in known -> w.place
                      [] w.place \notin known /\ Cardinality(logical) = 1 -> CHOOSE p \in logical : TRUE
                      [] w.place \notin known /\ Cardinality(logical) # 1 /\ Cardinality(moved) = 1 ->
                             CHOOSE p \in moved : TRUE
                      [] OTHER -> w.place
  <1>1. KeyOf(r, w) = key
    BY DEF KeyOf
  <1>2. known \subseteq Places /\ logical \subseteq known /\ moved \subseteq known
    OBVIOUS
  <1>3. \A p : known = {p} /\ host # "hermes" /\ source[p].rev <= Saved(w.text) =>
             moved = {p} /\ (logical = {} \/ logical = {p})
    BY DEF Continues
  <1>4. \A p \in Places : p \in known <=> source[p] # NoSource
    OBVIOUS
  <1>5. Cardinality({}) = 0 /\ \A p : Cardinality({p}) = 1
    BY FS_EmptySet, FS_Singleton
  <1> HIDE DEF known, logical, moved
  <1>6. key \in Places
    <2>1. CASE w.place \in known
      BY <2>1
    <2>2. CASE w.place \notin known /\ Cardinality(logical) = 1
      <3>1. logical # {}
        BY <1>5, <2>2
      <3>2. QED
        BY <1>2, <2>2, <3>1
    <2>3. CASE w.place \notin known /\ Cardinality(logical) # 1 /\ Cardinality(moved) = 1
      <3>1. moved # {}
        BY <1>5, <2>3
      <3>2. QED
        BY <1>2, <2>3, <3>1
    <2>4. CASE w.place \notin known /\ Cardinality(logical) # 1 /\ Cardinality(moved) # 1
      BY <2>4
    <2>5. QED
      BY <2>1, <2>2, <2>3, <2>4
  <1>7. ASSUME NEW p \in Places, source[p] # NoSource, host # "hermes", OnlySource(host, source),
               source[p].rev <= Saved(w.text)
        PROVE  p = key
    <2>1. known = {p}
      BY <1>2, <1>4, <1>7 DEF OnlySource
    <2>2. moved = {p} /\ (logical = {} \/ logical = {p})
      BY <1>3, <1>7, <2>1
    <2>3. Cardinality(moved) = 1 /\ (logical = {} => Cardinality(logical) = 0)
      BY <1>5, <2>2
    <2>4. CASE w.place \in known
      BY <2>1, <2>4
    <2>5. CASE w.place \notin known /\ logical = {p}
      BY <1>5, <2>1, <2>5
    <2>6. CASE w.place \notin known /\ logical = {}
      BY <2>2, <2>3, <2>6
    <2>7. QED
      BY <2>2, <2>4, <2>5, <2>6
  <1>8. QED
    BY <1>1, <1>6, <1>7

-----------------------------------------------------------------------------
(* The three kinds of steps.                                                   *)

\* A reader's own step: nothing is written but, perhaps, that two have crossed.
LEMMA OwnSteps ==
  ASSUME CaptureInv, NEW r \in Readers, NEW w \in ReaderStates, work' = [work EXCEPT ![r] = w],
         UNCHANGED <<host, source, view, queue>>,
         native' \in Natives, native'.text = native.text, native'.version = native.version,
         native'.place = native.place, native'.evidence = native.evidence,
         events' \in events..MaxEvents,
         native'.crossed = "no" => /\ native.crossed = "no"
                                   /\ Flies(w) => \A o \in Readers \ {r} : ~Flies(work[o]),
         Carries(r, w, host, native, Rendering),
         IsAlone(r, w, host, native, source, view, queue, Rendering, Revising),
         native.crossed = "no" => Continuing(r, w, host, source)
  PROVE  CaptureInv'
  <1>1. Rendering' = Rendering /\ Revising' = Revising
    BY TablesStay
  <1>2. CaptureTypes /\ \A o \in Readers : work'[o] = IF o = r THEN w ELSE work[o]
    BY DEF CaptureInv, CaptureTypes
  <1>3. CaptureTypes'
    BY <1>2, LengthIs DEF CaptureTypes, Natives
  <1>4. SourcesSound(native', source', Revising')
    BY <1>1 DEF CaptureInv, SourcesSound
  <1>5. ViewsSound(host', native', view', Rendering', Revising')
    BY <1>1 DEF CaptureInv, ViewsSound, Fits
  <1>6. ASSUME NEW o \in Readers PROVE Carries(o, work'[o], host', native', Rendering')
    <2>1. Carries(o, work'[o], host, native, Rendering)
      BY <1>2 DEF CaptureInv
    <2> DEFINE x == work'[o]
    <2> HIDE DEF x
    <2>2. Carries(o, x, host, native, Rendering) => Carries(o, x, host', native', Rendering')
      BY <1>1 DEF Carries, Fits
    <2>3. QED
      BY <2>1, <2>2 DEF x
  <1>7. ASSUME NEW o \in Readers
        PROVE  IsAlone(o, work'[o], host', native', source', view', queue', Rendering', Revising')
    <2>1. IsAlone(o, work'[o], host, native, source, view, queue, Rendering, Revising)
      BY <1>2 DEF CaptureInv
    <2> DEFINE x == work'[o]
    <2> HIDE DEF x
    <2>2. IsAlone(o, x, host, native, source, view, queue, Rendering, Revising)
          => IsAlone(o, x, host', native', source', view', queue', Rendering', Revising')
      BY <1>1 DEF IsAlone, Pinned, SourceIsWhole, ViewIsWhole
    <2>3. QED
      BY <2>1, <2>2 DEF x
  <1>8. ASSUME native'.crossed = "no" PROVE OneAtATime(host', native', source', work')
    <2>1. native.crossed = "no" /\ (Flies(w) => \A o \in Readers \ {r} : ~Flies(work[o]))
      BY <1>8
    <2>2. OneAtATime(host, native, source, work)
      BY DEF CaptureInv
    <2>3. \A a, b \in Readers : Flies(work'[a]) /\ Flies(work'[b]) => a = b
      BY <1>2, <2>1, <2>2 DEF OneAtATime
    <2>4. \A o \in Readers : Continuing(o, work'[o], host', source')
      BY <1>2, <2>1, <2>2 DEF OneAtATime
    <2>5. OnlySource(host', source')
      BY <2>1, <2>2 DEF OneAtATime, OnlySource
    <2>6. QED
      BY <2>3, <2>4, <2>5 DEF OneAtATime
  <1>9. OneAtATime(host', native', source', work')
    BY <1>8 DEF OneAtATime
  <1>10. QED
    BY <1>3, <1>4, <1>5, <1>6, <1>7, <1>9 DEF CaptureInv
\* Who is disturbed carries on, but nothing is promised of it.
SameButQuiet(x, w) ==
    /\ x.at = w.at /\ x.place = w.place /\ x.seen = w.seen /\ x.text = w.text /\ x.shown = w.shown
    /\ x.owner = w.owner /\ x.key = w.key /\ x.current = w.current
    /\ x.quiet = "yes" => w.at = "idle"

LEMMA DisturbedIs ==
  ASSUME work \in [Readers -> ReaderStates]
  PROVE  /\ Disturbed(work) \in [Readers -> ReaderStates]
         /\ \A o \in Readers : SameButQuiet(Disturbed(work)[o], work[o])
  <1>1. ASSUME NEW o \in Readers
        PROVE  Disturbed(work)[o] \in ReaderStates /\ SameButQuiet(Disturbed(work)[o], work[o])
    <2> DEFINE q == IF work[o].quiet = "yes" /\ work[o].at # "idle" THEN "no" ELSE work[o].quiet
    <2>1. Disturbed(work)[o] = [work[o] EXCEPT !.quiet = q]
      BY DEF Disturbed
    <2>2. work[o] \in ReaderStates
      OBVIOUS
    <2>3. q \in {"yes", "no"} /\ (q = "yes" => work[o].at = "idle")
      BY <2>2 DEF ReaderStates
    <2> HIDE DEF q
    <2>4. QED
      BY <2>1, <2>2, <2>3 DEF ReaderStates, SameButQuiet
  <1>2. QED
    BY <1>1 DEF Disturbed

\* What others see and do to the session while readers are at work: the host
\* writes or moves it, or a scan calls its sources missing.
LEMMA OutsideSteps ==
  ASSUME CaptureInv, work' = Disturbed(work), UNCHANGED <<host, view, queue>>,
         native' \in Natives, native'.text >= native.text, native'.crossed = native.crossed,
         \/ native'.version > native.version
         \/ native' = native,
         events' \in 0..MaxEvents, native'.version <= events',
         source' \in [Places -> Sources],
         \A p \in Places : source'[p] # NoSource =>
             source[p] # NoSource /\ source'[p].rev = source[p].rev /\ source'[p].proof = source[p].proof
  PROVE  CaptureInv'
  <1>1. Rendering' = Rendering /\ Revising' = Revising
    BY TablesStay
  <1>2. CaptureTypes
    BY DEF CaptureInv
  <1>3. /\ work' \in [Readers -> ReaderStates]
        /\ \A o \in Readers : SameButQuiet(work'[o], work[o])
    BY <1>2, DisturbedIs DEF CaptureTypes
  <1>4. CaptureTypes'
    BY <1>2, <1>3 DEF CaptureTypes
  <1>5. \A t \in Halves : t <= native.text => t <= native'.text
    BY <1>2, LengthIs DEF CaptureTypes, Natives, Halves
  <1>5a. \A t \in Halves : t < native.text => t < native'.text
    BY <1>2, LengthIs DEF CaptureTypes, Natives, Halves
  <1>6. SourcesSound(native', source', Revising')
    <2>1. SUFFICES ASSUME NEW p \in Places, source'[p] # NoSource
                   PROVE  source'[p].rev = Revising'[source'[p].proof] /\ source'[p].proof <= native'.text
      BY DEF SourcesSound
    <2>2. source[p].rev = Revising[source[p].proof] /\ source[p].proof <= native.text
      BY <2>1 DEF CaptureInv, SourcesSound
    <2>3. source[p].proof \in Halves
      BY <1>2, <2>1 DEF CaptureTypes, Sources
    <2>4. QED
      BY <1>1, <1>5, <2>1, <2>2, <2>3
  <1>7. ViewsSound(host', native', view', Rendering', Revising')
    BY <1>1, <1>5, <1>5a DEF CaptureInv, ViewsSound, Fits
  <1>8. ASSUME NEW o \in Readers PROVE Carries(o, work'[o], host', native', Rendering')
    <2> DEFINE x == work'[o]
               w == work[o]
    <2>1. Carries(o, w, host, native, Rendering) /\ SameButQuiet(x, w) /\ w \in ReaderStates
      BY <1>2, <1>3 DEF CaptureInv, CaptureTypes
    <2> HIDE DEF x, w
    <2>2. w.text \in Halves /\ w.seen \in Nat
      BY <2>1 DEF ReaderStates
    <2>3. x.text <= native'.text
      BY <1>5, <2>1, <2>2 DEF Carries, SameButQuiet
    <2>4. x.at \in HasShown => Fits(x.text, x.shown, host', native', Rendering')
      BY <1>1, <1>5a, <2>1, <2>2 DEF Carries, SameButQuiet, Fits
    <2>5. o = "inspect" =>
            /\ x.at \in HasShown => x.shown = Rendering'[x.text]
            /\ x.at \in HasRead => ~HalfLine(x.text)
      BY <1>1, <2>1 DEF Carries, SameButQuiet
    <2>6. native.version \in Nat /\ native'.version \in Nat
      BY <1>2 DEF CaptureTypes, Natives
    <2>7. o = "inspect" =>
            /\ x.at \in {"stamped", "render", "rendered", "save"} => x.seen <= native'.version
            /\ x.at \in {"render", "rendered", "save"} /\ native'.version = x.seen =>
                  native'.text = x.text /\ native'.evidence = "mine"
      <3>1. CASE native'.version > native.version
        BY <2>1, <2>2, <2>6, <3>1 DEF Carries, SameButQuiet
      <3>2. CASE native' = native
        BY <2>1, <3>2 DEF Carries, SameButQuiet
      <3>3. QED
        BY <3>1, <3>2
    <2>8. Carries(o, x, host', native', Rendering')
      BY <2>3, <2>4, <2>5, <2>7 DEF Carries
    <2>9. QED
      BY <2>8 DEF x
  <1>9. ASSUME NEW o \in Readers
        PROVE  IsAlone(o, work'[o], host', native', source', view', queue', Rendering', Revising')
    BY <1>3 DEF IsAlone, SameButQuiet, HasRead, HasShown, Pinned
  <1>10. OneAtATime(host', native', source', work')
    <2>1. SUFFICES ASSUME native'.crossed = "no"
          PROVE  OneAtATime(host', native', source', work')
      BY DEF OneAtATime
    <2>2. /\ \A r, o \in Readers : Flies(work[r]) /\ Flies(work[o]) => r = o
          /\ OnlySource(host, source)
          /\ \A r \in Readers : Continuing(r, work[r], host, source)
      BY <2>1 DEF CaptureInv, OneAtATime
    <2>3. \A r, o \in Readers : Flies(work'[r]) /\ Flies(work'[o]) => r = o
      BY <1>3, <2>2 DEF Flies, SameButQuiet
    <2>4. OnlySource(host', source')
      BY <2>2 DEF OnlySource
    <2>5. \A r \in Readers : Continuing(r, work'[r], host', source')
      BY <1>3, <2>2 DEF Continuing, SameButQuiet, Pinned
    <2>6. QED
      BY <2>3, <2>4, <2>5 DEF OneAtATime
  <1>11. QED
    BY <1>4, <1>6, <1>7, <1>8, <1>9, <1>10 DEF CaptureInv

\* A reader saves: it disturbs the other one, and whoever was alone is known to
\* have been alone.
LEMMA SavingSteps ==
  ASSUME CaptureInv, NEW r \in Readers, Flies(work[r]),
         NEW w \in ReaderStates, work' = [Disturbed(work) EXCEPT ![r] = w],
         UNCHANGED <<host, native, events>>,
         source' \in [Places -> Sources], view' \in [Places -> Views], queue' \subseteq Places \X Halves,
         SourcesSound(native, source', Revising), ViewsSound(host, native, view', Rendering, Revising),
         Carries(r, w, host, native, Rendering),
         IsAlone(r, w, host, native, source', view', queue', Rendering, Revising),
         native.crossed = "no" => OnlySource(host, source') /\ Continuing(r, w, host, source')
  PROVE  CaptureInv'
  <1>1. Rendering' = Rendering /\ Revising' = Revising
    BY TablesStay
  <1>2. CaptureTypes
    BY DEF CaptureInv
  <1>3. /\ Disturbed(work) \in [Readers -> ReaderStates]
        /\ \A o \in Readers : SameButQuiet(Disturbed(work)[o], work[o])
    BY <1>2, DisturbedIs DEF CaptureTypes
  <1>4. /\ work' \in [Readers -> ReaderStates] /\ work'[r] = w
        /\ \A o \in Readers \ {r} : SameButQuiet(work'[o], work[o])
    BY <1>3
  <1>5. CaptureTypes'
    BY <1>2, <1>4 DEF CaptureTypes
  <1>6. ASSUME NEW o \in Readers PROVE Carries(o, work'[o], host', native', Rendering')
    <2>1. CASE o = r
      BY <1>1, <1>4, <2>1
    <2>2. CASE o # r
      BY <1>1, <1>4, <2>2 DEF CaptureInv, Carries, SameButQuiet
    <2>3. QED
      BY <2>1, <2>2
  <1>7. ASSUME NEW o \in Readers
        PROVE  IsAlone(o, work'[o], host', native', source', view', queue', Rendering', Revising')
    <2>1. CASE o = r
      BY <1>1, <1>4, <2>1
    <2>2. CASE o # r
      BY <1>4, <2>2 DEF IsAlone, SameButQuiet, HasRead, HasShown, Pinned
    <2>3. QED
      BY <2>1, <2>2
  <1>8. OneAtATime(host', native', source', work')
    <2>1. SUFFICES ASSUME native.crossed = "no"
          PROVE  OneAtATime(host', native', source', work')
      BY DEF OneAtATime
    <2>2. \A o \in Readers \ {r} : ~Flies(work[o])
      BY <2>1 DEF CaptureInv, OneAtATime
    <2>3. \A o \in Readers \ {r} : ~Flies(work'[o])
      BY <1>4, <2>2 DEF Flies, SameButQuiet
    <2>4. \A o \in Readers \ {r} : Continuing(o, work'[o], host', source')
      BY <2>3 DEF Flies, Continuing, Pinned
    <2>5. Continuing(r, work'[r], host', source') /\ OnlySource(host', source')
      BY <1>4, <2>1
    <2>6. QED
      BY <2>3, <2>4, <2>5 DEF OneAtATime
  <1>9. QED
    BY <1>1, <1>5, <1>6, <1>7, <1>8 DEF CaptureInv
-----------------------------------------------------------------------------
(* What the steps of a reader do.                                              *)
LEMMA RestIs ==
  ASSUME NEW r \in Readers
  PROVE  /\ AtRest \in ReaderStates /\ ~Flies(AtRest)
         /\ CaptureTypes => Carries(r, AtRest, host, native, Rendering)
         /\ \A S, V, Q : IsAlone(r, AtRest, host, native, S, V, Q, Rendering, Revising)
         /\ \A S : Continuing(r, AtRest, host, S)
  <1>1. 0 \in Halves
    BY LengthIs DEF Halves
  <1>2. AtRest.at = "idle" /\ AtRest.text = 0
    BY DEF AtRest
  <1>3. AtRest \in ReaderStates
    BY <1>1 DEF AtRest, ReaderStates, Stages, Places
  <1>4. CaptureTypes => Carries(r, AtRest, host, native, Rendering)
    <2>1. CaptureTypes => 0 <= native.text
      BY LengthIs DEF CaptureTypes, Natives, Halves
    <2>2. QED
      BY <1>2, <2>1 DEF Carries, HasRead, HasShown
  <1>5. \A S, V, Q : IsAlone(r, AtRest, host, native, S, V, Q, Rendering, Revising)
    BY <1>2 DEF IsAlone, HasRead, HasShown, Pinned
  <1>6. \A S : Continuing(r, AtRest, host, S)
    BY <1>2 DEF Continuing, Pinned
  <1>7. QED
    BY <1>2, <1>3, <1>4, <1>5, <1>6 DEF Flies

LEMMA GivingUp ==
  ASSUME CaptureInv, NEW r \in Readers, GivesUp(r), UNCHANGED <<host, native, source, view, queue>>,
         events' \in events..MaxEvents
  PROVE  CaptureInv'
  <1>1. work' = [work EXCEPT ![r] = AtRest] /\ CaptureTypes /\ native' \in Natives
    BY DEF GivesUp, CaptureInv, CaptureTypes
  <1>2. QED
    BY <1>1, RestIs, OwnSteps

LEMMA GoingOn ==
  ASSUME CaptureInv, NEW r \in Readers, NEW w \in ReaderStates, Flies(work[r]), Goes(r, w), ReaderKeeps,
         Carries(r, w, host, native, Rendering),
         IsAlone(r, w, host, native, source, view, queue, Rendering, Revising),
         native.crossed = "no" => Continuing(r, w, host, source)
  PROVE  CaptureInv'
  <1>1. work' = [work EXCEPT ![r] = w] /\ native' \in Natives /\ events' \in events..MaxEvents
    BY LengthIs DEF Goes, ReaderKeeps, CaptureInv, CaptureTypes
  <1>2. UNCHANGED <<host, native, source, view, queue>>
    BY DEF ReaderKeeps
  <1>3. native.crossed = "no" => \A o \in Readers \ {r} : ~Flies(work[o])
    BY DEF CaptureInv, OneAtATime
  <1>4. QED
    BY <1>1, <1>2, <1>3, OwnSteps

LEMMA GivingUpHere ==
  ASSUME CaptureInv, NEW r \in Readers, GivesUp(r), ReaderKeeps
  PROVE  CaptureInv'
  <1>1. UNCHANGED <<host, native, source, view, queue>> /\ events' \in events..MaxEvents
    BY LengthIs DEF ReaderKeeps, CaptureInv, CaptureTypes
  <1>2. QED
    BY <1>1, GivingUp

\* What the invariant says of one reader.
LEMMA ReaderFacts ==
  ASSUME CaptureInv, NEW r \in Readers
  PROVE  /\ work[r] \in ReaderStates /\ native \in Natives
         /\ work[r].text \in Halves /\ native.text \in Halves
         /\ Carries(r, work[r], host, native, Rendering)
         /\ IsAlone(r, work[r], host, native, source, view, queue, Rendering, Revising)
         /\ native.crossed = "no" => Continuing(r, work[r], host, source) /\ OnlySource(host, source)
         /\ SourcesSound(native, source, Revising)
         /\ ViewsSound(host, native, view, Rendering, Revising)
  BY DEF CaptureInv, CaptureTypes, ReaderStates, Natives, OneAtATime

\* A reader lists the session.
LEMMA Listing ==
  ASSUME CaptureInv, NEW r \in Readers, NEW w \in ReaderStates, Starting(r), Goes(r, w),
         UNCHANGED <<host, source, view, queue, events>>,
         NEW t \in {0, native.text}, r = "scan" /\ host = "cursor-db" => t = native.text,
         w.at = "listed", w.place = native.place, w.text = t
  PROVE  CaptureInv'
  <1>1. CaptureTypes
    BY DEF CaptureInv
  <1>2. 0 \in Halves /\ native.text \in Halves /\ native \in Natives /\ 0 <= native.text /\ native.text <= native.text
    BY <1>1, LengthIs DEF CaptureTypes, Natives, Halves
  <1>3. w.at = "listed" /\ w.place = native.place /\ w.text = t
    OBVIOUS
  <1>5. Carries(r, w, host, native, Rendering)
    BY <1>2, <1>3 DEF Carries, HasRead, HasShown
  <1>6. IsAlone(r, w, host, native, source, view, queue, Rendering, Revising)
    BY <1>3 DEF IsAlone, HasRead, HasShown, Pinned
  <1>7. Continuing(r, w, host, source)
    <2>1. \A p \in Places : source[p] # NoSource => source[p].proof <= native.text
      BY DEF CaptureInv, SourcesSound
    <2>2. QED
      BY <1>3, <2>1 DEF Continuing, Pinned
  <1> DEFINE c == IF \E o \in Readers \ {r} : InFlight(o) THEN "yes" ELSE native.crossed
  <1>8. native' = [native EXCEPT !.crossed = c]
    BY DEF Starting
  <1>9. c = "no" => native.crossed = "no" /\ \A o \in Readers \ {r} : ~Flies(work[o])
    BY DEF InFlight, Flies
  <1>10. c \in {"yes", "no"}
    BY <1>2 DEF Natives
  <1> HIDE DEF c
  <1>11. /\ native' \in Natives /\ native'.text = native.text /\ native'.version = native.version
         /\ native'.place = native.place /\ native'.evidence = native.evidence /\ native'.crossed = c
    BY <1>2, <1>8, <1>10 DEF Natives
  <1>12. work' = [work EXCEPT ![r] = w] /\ events' \in events..MaxEvents
    BY <1>1, LengthIs DEF Goes, CaptureTypes
  <1>13. QED
    BY <1>5, <1>6, <1>7, <1>9, <1>11, <1>12, OwnSteps

LEMMA ScanListsKeeps ==
  ASSUME CaptureInv, ScanLists
  PROVE  CaptureInv'
  <1> DEFINE t == IF Reading.pinned = "yes" THEN native.text ELSE 0
             w == [AtRest EXCEPT !.at = "listed", !.place = native.place, !.owner = Roots, !.text = t]
  <1>1. Starting("scan") /\ Goes("scan", w) /\ UNCHANGED <<host, source, view, queue, events>>
    BY DEF ScanLists
  <1>2. t \in {0, native.text} /\ (host = "cursor-db" => t = native.text)
    BY ReadingIs
  <1>2a. t \in Halves
    BY ReaderFacts, LengthIs DEF Readers, Halves
  <1> HIDE DEF t
  <1>3. w \in ReaderStates /\ w.at = "listed" /\ w.place = native.place /\ w.text = t
    BY <1>2a, ReaderFacts, RestIs, RootsAre, ZenonT(60) DEF ReaderStates, Stages, Natives, AtRest,
       Readers
  <1> HIDE DEF w
  <1>4. QED
    BY <1>1, <1>2, <1>3, Listing DEF Readers

LEMMA InspectListsKeeps ==
  ASSUME CaptureInv, InspectLists
  PROVE  CaptureInv'
  <1> DEFINE w == [AtRest EXCEPT !.at = "listed", !.place = native.place, !.owner = Roots]
  <1>1. Starting("inspect") /\ Goes("inspect", w) /\ UNCHANGED <<host, source, view, queue, events>>
    BY DEF InspectLists
  <1>2. w \in ReaderStates /\ w.at = "listed" /\ w.place = native.place /\ w.text = 0
    BY ReaderFacts, RestIs, RootsAre, ZenonT(60) DEF ReaderStates, Stages, Natives, AtRest, Readers
  <1> HIDE DEF w
  <1>3. QED
    BY <1>1, <1>2, Listing DEF Readers
\* It takes the bytes.
LEMMA ScanReadsKeeps ==
  ASSUME CaptureInv, ScanReads
  PROVE  CaptureInv'
  <1> DEFINE w == work["scan"]
             t == IF Reading.pinned = "yes" THEN w.text ELSE native.text
             x == [w EXCEPT !.at = "read", !.owner = {}, !.text = t]
  <1>1. "scan" \in Readers
    BY DEF Readers
  <1>2. w.at = "listed" /\ ReaderKeeps
    BY DEF ScanReads
  <1>3. /\ w \in ReaderStates /\ native \in Natives /\ w.text \in Halves /\ native.text \in Halves
        /\ Carries("scan", w, host, native, Rendering)
        /\ IsAlone("scan", w, host, native, source, view, queue, Rendering, Revising)
        /\ native.crossed = "no" => Continuing("scan", w, host, source)
        /\ SourcesSound(native, source, Revising)
    BY <1>1, ReaderFacts
  <1>4. [w EXCEPT !.at = "read", !.owner = {}] = [w EXCEPT !.at = "read", !.owner = {}, !.text = w.text]
    BY <1>3 DEF ReaderStates
  <1>5. GivesUp("scan") \/ (Goes("scan", x) /\ (Reading.pinned = "yes" \/ native.place = w.place))
    BY <1>4 DEF ScanReads
  <1>6. CASE GivesUp("scan")
    BY <1>1, <1>2, <1>6, GivingUpHere
  <1>7. CASE Goes("scan", x) /\ (Reading.pinned = "yes" \/ native.place = w.place)
    <2>1. t \in Halves /\ (Reading.pinned = "yes" => t = w.text) /\ (Reading.pinned # "yes" => t = native.text)
      BY <1>3
    <2> HIDE DEF t
    <2>2. /\ x \in ReaderStates /\ x.at = "read" /\ x.text = t /\ x.quiet = w.quiet /\ x.place = w.place
      BY <1>3, <2>1 DEF ReaderStates, Stages
    <2> HIDE DEF x, w
    <2>3. t <= native.text
      BY <1>3, <2>1, LengthIs DEF Carries, Halves
    <2>4. Carries("scan", x, host, native, Rendering)
      BY <2>2, <2>3 DEF Carries, HasShown, HasRead
    <2>5. IsAlone("scan", x, host, native, source, view, queue, Rendering, Revising)
      <3>1. w.quiet = "yes" => t = native.text /\ w.place = native.place
        BY <1>2, <1>3, <2>1, ReadingIs DEF IsAlone, Pinned
      <3>2. QED
        BY <2>2, <3>1 DEF IsAlone, HasShown, Pinned
    <2>6. native.crossed = "no" => Continuing("scan", x, host, source)
      <3>1. native.crossed = "no" => \A p \in Places : source[p] # NoSource => source[p].proof <= t
        BY <1>2, <1>3, <2>1, ReadingIs DEF Continuing, SourcesSound, Pinned
      <3>2. QED
        BY <2>2, <3>1 DEF Continuing
    <2>7. Flies(work["scan"])
      BY <1>2 DEF Flies, w
    <2>8. QED
      BY <1>1, <1>2, <1>7, <2>2, <2>4, <2>5, <2>6, <2>7, GoingOn
  <1>8. QED
    BY <1>5, <1>6, <1>7

\* It renders them, or what the file has by now.
LEMMA ScanRendersKeeps ==
  ASSUME CaptureInv, ScanRenders
  PROVE  CaptureInv'
  <1> DEFINE w == work["scan"]
             t == IF Reading.again = "yes" THEN native.text ELSE w.text
             x == [w EXCEPT !.at = "save", !.shown = Rendered(t)]
  <1>1. "scan" \in Readers
    BY DEF Readers
  <1>2. w.at = "read" /\ ReaderKeeps
    BY DEF ScanRenders
  <1>3. /\ w \in ReaderStates /\ w.text \in Halves /\ native.text \in Halves
        /\ Carries("scan", w, host, native, Rendering)
        /\ IsAlone("scan", w, host, native, source, view, queue, Rendering, Revising)
        /\ native.crossed = "no" => Continuing("scan", w, host, source)
    BY <1>1, ReaderFacts
  <1>4. GivesUp("scan") \/ Goes("scan", x)
    BY DEF ScanRenders
  <1>5. CASE GivesUp("scan")
    BY <1>1, <1>2, <1>5, GivingUpHere
  <1>6. CASE Goes("scan", x)
    <2>1. t \in Halves /\ (t = w.text \/ (host \notin Codex /\ t = native.text))
      BY <1>3, ReadingIs
    <2> HIDE DEF t
    <2>2. Rendered(t) = Rendering[t] /\ Rendered(t) \in Halves
      BY <2>1, Tables, RenderedIs
    <2>3. /\ x \in ReaderStates /\ x.at = "save" /\ x.text = w.text /\ x.quiet = w.quiet
          /\ x.place = w.place /\ x.shown = Rendering[t]
      BY <1>3, <2>2 DEF ReaderStates, Stages
    <2> HIDE DEF x, w
    <2>4. w.text <= native.text
      BY <1>3 DEF Carries
    <2>5. Fits(w.text, Rendering[t], host, native, Rendering)
      BY <1>3, <2>1, <2>4, LengthIs DEF Fits, Halves
    <2>6. Carries("scan", x, host, native, Rendering)
      BY <2>3, <2>4, <2>5 DEF Carries
    <2>7. IsAlone("scan", x, host, native, source, view, queue, Rendering, Revising)
      <3>1. w.quiet = "yes" => t = native.text /\ w.text = native.text /\ w.place = native.place
        BY <1>2, <1>3, <2>1 DEF IsAlone, HasRead
      <3>2. QED
        BY <2>3, <3>1 DEF IsAlone, Pinned
    <2>8. native.crossed = "no" => Continuing("scan", x, host, source)
      BY <1>2, <1>3, <2>3 DEF Continuing
    <2>9. Flies(work["scan"])
      BY <1>2 DEF Flies, w
    <2>10. QED
      BY <1>1, <1>2, <1>6, <2>3, <2>6, <2>7, <2>8, <2>9, GoingOn
  <1>7. QED
    BY <1>4, <1>5, <1>6

LEMMA InspectStampsKeeps ==
  ASSUME CaptureInv, InspectStamps
  PROVE  CaptureInv'
  <1> DEFINE w == work["inspect"]
             x == [w EXCEPT !.at = "stamped", !.seen = native.version]
  <1>1. "inspect" \in Readers
    BY DEF Readers
  <1>2. w.at = "listed" /\ ReaderKeeps /\ Goes("inspect", x)
    BY DEF InspectStamps
  <1>3. /\ w \in ReaderStates /\ native \in Natives
        /\ Carries("inspect", w, host, native, Rendering)
        /\ IsAlone("inspect", w, host, native, source, view, queue, Rendering, Revising)
    BY <1>1, ReaderFacts
  <1>4. native.version \in Nat
    BY <1>3 DEF Natives
  <1>5. /\ x \in ReaderStates /\ x.at = "stamped" /\ x.text = w.text /\ x.quiet = w.quiet
        /\ x.place = w.place /\ x.seen = native.version
    BY <1>3, <1>4 DEF ReaderStates, Stages
  <1> HIDE DEF x, w
  <1>6. Carries("inspect", x, host, native, Rendering)
    BY <1>3, <1>4, <1>5 DEF Carries, HasShown, HasRead
  <1>7. IsAlone("inspect", x, host, native, source, view, queue, Rendering, Revising)
    BY <1>2, <1>3, <1>5 DEF IsAlone, HasShown, HasRead, Pinned
  <1>8. Continuing("inspect", x, host, source)
    BY <1>5 DEF Continuing, Pinned
  <1>9. Flies(work["inspect"])
    BY <1>2 DEF Flies, w
  <1>10. QED
    BY <1>1, <1>2, <1>5, <1>6, <1>7, <1>8, <1>9, GoingOn

LEMMA InspectReadsKeeps ==
  ASSUME CaptureInv, InspectReads
  PROVE  CaptureInv'
  <1> DEFINE w == work["inspect"]
             x == [w EXCEPT !.at = "render", !.owner = {}, !.text = native.text]
  <1>1. "inspect" \in Readers
    BY DEF Readers
  <1>2. w.at = "stamped" /\ ReaderKeeps
    BY DEF InspectReads
  <1>3. /\ w \in ReaderStates /\ native.text \in Halves
        /\ Carries("inspect", w, host, native, Rendering)
        /\ IsAlone("inspect", w, host, native, source, view, queue, Rendering, Revising)
        /\ SourcesSound(native, source, Revising)
    BY <1>1, ReaderFacts
  <1>4. \/ GivesUp("inspect")
        \/ /\ Goes("inspect", x) /\ native.place = w.place /\ w.owner \cup Roots = {"mine"}
           /\ ~HalfLine(native.text)
    BY DEF InspectReads
  <1>5. CASE GivesUp("inspect")
    BY <1>1, <1>2, <1>5, GivingUpHere
  <1>6. CASE /\ Goes("inspect", x) /\ native.place = w.place /\ w.owner \cup Roots = {"mine"}
             /\ ~HalfLine(native.text)
    <2>1. native.evidence = "mine"
      BY <1>6, RootsAre
    <2>2. /\ x \in ReaderStates /\ x.at = "render" /\ x.text = native.text /\ x.quiet = w.quiet
          /\ x.place = w.place /\ x.seen = w.seen
      BY <1>3 DEF ReaderStates, Stages
    <2>3. native.text <= native.text
      BY <1>3, LengthIs DEF Halves
    <2> HIDE DEF x, w
    <2>4. Carries("inspect", x, host, native, Rendering)
      BY <1>2, <1>3, <1>6, <2>1, <2>2, <2>3 DEF Carries, HasShown, HasRead
    <2>5. IsAlone("inspect", x, host, native, source, view, queue, Rendering, Revising)
      BY <1>6, <2>2 DEF IsAlone, HasShown, Pinned
    <2>6. Continuing("inspect", x, host, source)
      BY <1>3, <2>2 DEF Continuing, SourcesSound
    <2>7. Flies(work["inspect"])
      BY <1>2 DEF Flies, w
    <2>8. QED
      BY <1>1, <1>2, <1>6, <2>2, <2>4, <2>5, <2>6, <2>7, GoingOn
  <1>7. QED
    BY <1>4, <1>5, <1>6

LEMMA InspectRendersKeeps ==
  ASSUME CaptureInv, InspectRenders
  PROVE  CaptureInv'
  <1> DEFINE w == work["inspect"]
             t == IF Reading.pinned = "yes" THEN w.text ELSE native.text
             x == [w EXCEPT !.at = "rendered", !.shown = Rendered(t)]
  <1>1. "inspect" \in Readers
    BY DEF Readers
  <1>2. w.at = "render" /\ ReaderKeeps
    BY DEF InspectRenders
  <1>3. /\ w \in ReaderStates /\ w.text \in Halves /\ native.text \in Halves
        /\ Carries("inspect", w, host, native, Rendering)
        /\ IsAlone("inspect", w, host, native, source, view, queue, Rendering, Revising)
        /\ native.crossed = "no" => Continuing("inspect", w, host, source)
    BY <1>1, ReaderFacts
  <1>4. GivesUp("inspect") \/ (Goes("inspect", x) /\ native.version = w.seen)
    BY DEF InspectRenders, StampsHold
  <1>5. CASE GivesUp("inspect")
    BY <1>1, <1>2, <1>5, GivingUpHere
  <1>6. CASE Goes("inspect", x) /\ native.version = w.seen
    <2>1. native.text = w.text /\ t = w.text
      BY <1>2, <1>3, <1>6 DEF Carries
    <2>2. Rendered(t) = Rendering[w.text] /\ Rendered(t) \in Halves
      BY <1>3, <2>1, Tables, RenderedIs
    <2> HIDE DEF t
    <2>3. /\ x \in ReaderStates /\ x.at = "rendered" /\ x.text = w.text /\ x.quiet = w.quiet
          /\ x.place = w.place /\ x.shown = Rendering[w.text] /\ x.seen = w.seen
      BY <1>3, <2>2 DEF ReaderStates, Stages
    <2> HIDE DEF x, w
    <2>4. Carries("inspect", x, host, native, Rendering)
      BY <1>2, <1>3, <2>3 DEF Carries, HasShown, HasRead, Fits
    <2>5. IsAlone("inspect", x, host, native, source, view, queue, Rendering, Revising)
      BY <1>2, <1>3, <2>1, <2>3 DEF IsAlone, HasRead, Pinned
    <2>6. native.crossed = "no" => Continuing("inspect", x, host, source)
      BY <1>2, <1>3, <2>3 DEF Continuing
    <2>7. Flies(work["inspect"])
      BY <1>2 DEF Flies, w
    <2>8. QED
      BY <1>1, <1>2, <1>6, <2>3, <2>4, <2>5, <2>6, <2>7, GoingOn
  <1>7. QED
    BY <1>4, <1>5, <1>6

LEMMA InspectRechecksKeeps ==
  ASSUME CaptureInv, InspectRechecks
  PROVE  CaptureInv'
  <1> DEFINE w == work["inspect"]
             x == [w EXCEPT !.at = "save"]
  <1>1. "inspect" \in Readers
    BY DEF Readers
  <1>2. w.at = "rendered" /\ ReaderKeeps
    BY DEF InspectRechecks
  <1>3. /\ w \in ReaderStates
        /\ Carries("inspect", w, host, native, Rendering)
        /\ IsAlone("inspect", w, host, native, source, view, queue, Rendering, Revising)
        /\ native.crossed = "no" => Continuing("inspect", w, host, source)
    BY <1>1, ReaderFacts
  <1>4. GivesUp("inspect") \/ Goes("inspect", x)
    BY DEF InspectRechecks
  <1>5. CASE GivesUp("inspect")
    BY <1>1, <1>2, <1>5, GivingUpHere
  <1>6. CASE Goes("inspect", x)
    <2>1. /\ x \in ReaderStates /\ x.at = "save" /\ x.text = w.text /\ x.quiet = w.quiet
          /\ x.place = w.place /\ x.shown = w.shown /\ x.seen = w.seen
      BY <1>3 DEF ReaderStates, Stages
    <2> HIDE DEF x, w
    <2>2. Carries("inspect", x, host, native, Rendering)
      BY <1>2, <1>3, <2>1 DEF Carries, HasShown, HasRead
    <2>3. IsAlone("inspect", x, host, native, source, view, queue, Rendering, Revising)
      BY <1>2, <1>3, <2>1 DEF IsAlone, HasShown, HasRead, Pinned
    <2>4. native.crossed = "no" => Continuing("inspect", x, host, source)
      BY <1>2, <1>3, <2>1 DEF Continuing
    <2>5. Flies(work["inspect"])
      BY <1>2 DEF Flies, w
    <2>6. QED
      BY <1>1, <1>2, <1>6, <2>1, <2>2, <2>3, <2>4, <2>5, GoingOn
  <1>7. QED
    BY <1>4, <1>5, <1>6
-----------------------------------------------------------------------------
(* What is saved.                                                              *)

\* A rendering that names the revision the host holds is that revision's.
LEMMA CurrentRenders ==
  ASSUME CaptureInv, NEW p \in Places, view[p] # NoView, view[p].rev = Revising[native.text]
  PROVE  ViewIsWhole(p, native, view, Rendering, Revising)
  <1>1. native.text \in Halves /\ view[p] \in Views
    BY DEF CaptureInv, CaptureTypes, Natives
  <1>2. PICK t \in Halves : t <= native.text /\ view[p].rev = Revising[t]
                            /\ Fits(t, view[p].text, host, native, Rendering)
    BY DEF CaptureInv, ViewsSound
  <1>3. view[p].text = Rendering[native.text]
    <2>1. CASE host \in Codex
      <3>1. view[p].text = Rendering[t]
        BY <1>2, <2>1 DEF Fits
      <3>2. Rendering[t] = Revising[t] /\ Rendering[native.text] = Revising[native.text]
        BY <1>1, <1>2, <2>1, Tables, SavedIs, ZenonT(60)
      <3>3. QED
        BY <1>2, <3>1, <3>2
    <2>2. CASE host \notin Codex
      <3>1. Revising[t] = t /\ Revising[native.text] = native.text
        BY <1>1, <1>2, <2>2, Tables, SavedIs
      <3>2. t = native.text
        BY <1>2, <3>1
      <3>3. ~ (t < native.text)
        BY <1>1, <3>2, LengthIs DEF Halves
      <3>4. QED
        BY <1>2, <3>2, <3>3 DEF Fits
    <2>3. QED
      BY <2>1, <2>2
  <1>4. QED
    BY <1>1, <1>3 DEF ViewIsWhole, Views

LEMMA PlanCaptureKeeps ==
  ASSUME CaptureInv, NEW r \in Readers, PlanCapture(r)
  PROVE  CaptureInv'
  <1> DEFINE w == work[r]
             key == KeyOf(r, w)
             current == IF RenderingCurrent(key, w) THEN "yes" ELSE "no"
             action == ActionOf(key, w)
             at == FromStore(action, current)
             x == [w EXCEPT !.at = at, !.seen = 0, !.key = key, !.current = current]
  <1>1. w.at = "save" /\ ReaderKeeps /\ Goes(r, x)
    BY DEF PlanCapture
  <1>2. /\ w \in ReaderStates /\ w.text \in Halves /\ native.text \in Halves
        /\ Carries(r, w, host, native, Rendering)
        /\ IsAlone(r, w, host, native, source, view, queue, Rendering, Revising)
        /\ native.crossed = "no" => Continuing(r, w, host, source) /\ OnlySource(host, source)
        /\ SourcesSound(native, source, Revising)
    BY ReaderFacts
  <1>3. source \in [Places -> Sources]
    BY DEF CaptureInv, CaptureTypes
  <1>4. w.place \in Places
    BY <1>2 DEF ReaderStates
  <1>5. key \in Places
    BY <1>4, KeyIs
  <1>6. Saved(w.text) = Revising[w.text]
    BY <1>2, Tables
  <1>7. native.crossed = "no" => \A p \in Places : source[p] # NoSource /\ host # "hermes" => p = key
    <2>1. SUFFICES ASSUME native.crossed = "no", NEW p \in Places, source[p] # NoSource, host # "hermes"
                   PROVE  p = key
      OBVIOUS
    <2>2. source[p].proof <= w.text /\ source[p].rev = Revising[source[p].proof]
      BY <1>1, <1>2, <2>1 DEF Continuing, SourcesSound
    <2>3. source[p].proof \in Halves
      BY <1>3, <2>1 DEF Sources
    <2>4. source[p].rev = Saved(source[p].proof)
      BY <2>2, <2>3, Tables
    <2>5. source[p].rev <= Saved(w.text)
      BY <1>2, <2>2, <2>3, <2>4, SavedIs
    <2>6. OnlySource(host, source)
      BY <1>2, <2>1
    <2>7. QED
      BY <1>4, <2>1, <2>5, <2>6, KeyIs
  <1>8. current \in {"yes", "no"} /\ (current = "yes" => view[key] # NoView /\ view[key].rev = Revising[w.text])
    BY <1>6 DEF RenderingCurrent
  <1>9. action = "keep" => /\ source[key] # NoSource /\ source[key].rev = Revising[w.text]
                           /\ source[key].status # "missing" /\ source[key].uri = w.place
    BY <1>6 DEF ActionOf
  <1>9a. action = "keep" => source[key].status = "synced"
    BY <1>3, <1>5, <1>9 DEF Sources
  <1>10. /\ at \in {"store", "view", "queue"}
         /\ at # "store" => action = "keep"
         /\ at = "queue" => current = "yes"
    BY DEF FromStore, FromView
  <1> HIDE DEF key, current, action, at
  <1>11. /\ x \in ReaderStates /\ x.at = at /\ x.text = w.text /\ x.quiet = w.quiet /\ x.place = w.place
         /\ x.shown = w.shown /\ x.key = key /\ x.current = current
    BY <1>2, <1>5, <1>8, <1>10 DEF ReaderStates, Stages
  <1> HIDE DEF x, w
  <1>12. Carries(r, x, host, native, Rendering)
    BY <1>1, <1>2, <1>10, <1>11 DEF Carries, HasShown, HasRead
  <1>13. IsAlone(r, x, host, native, source, view, queue, Rendering, Revising)
    <2>1. SUFFICES ASSUME w.quiet = "yes"
                   PROVE  IsAlone(r, x, host, native, source, view, queue, Rendering, Revising)
      BY <1>11 DEF IsAlone
    <2>2. w.text = native.text /\ w.place = native.place /\ w.shown = Rendering[native.text]
      BY <1>1, <1>2, <2>1 DEF IsAlone, HasRead, HasShown
    <2>3. current = "yes" => ViewIsWhole(key, native, view, Rendering, Revising)
      BY <1>5, <1>8, <2>2, CurrentRenders
    <2>4. action = "keep" => SourceIsWhole(key, native, source, Revising)
      BY <1>9, <1>9a, <2>2 DEF SourceIsWhole
    <2>5. QED
      BY <1>10, <1>11, <2>2, <2>3, <2>4 DEF IsAlone, Pinned
  <1>14. native.crossed = "no" => Continuing(r, x, host, source)
    BY <1>7, <1>10, <1>11 DEF Continuing, Pinned
  <1>15. Flies(work[r])
    BY <1>1 DEF Flies, w
  <1>16. QED
    BY <1>1, <1>11, <1>12, <1>13, <1>14, <1>15, GoingOn

LEMMA StoreCaptureKeeps ==
  ASSUME CaptureInv, NEW r \in Readers, StoreCapture(r)
  PROVE  CaptureInv'
  <1> DEFINE w == work[r]
             s == [rev |-> Saved(w.text), proof |-> w.text, status |-> "synced", uri |-> w.place]
             x == [w EXCEPT !.at = FromView(w.current)]
  <1>1. w.at = "store" /\ source' = [source EXCEPT ![w.key] = s] /\ Saves(r, x)
        /\ UNCHANGED <<host, native, view, queue, events>>
    BY DEF StoreCapture
  <1>2. /\ w \in ReaderStates /\ w.text \in Halves /\ native \in Natives
        /\ Carries(r, w, host, native, Rendering)
        /\ IsAlone(r, w, host, native, source, view, queue, Rendering, Revising)
        /\ native.crossed = "no" => Continuing(r, w, host, source) /\ OnlySource(host, source)
        /\ SourcesSound(native, source, Revising)
        /\ ViewsSound(host, native, view, Rendering, Revising)
    BY ReaderFacts
  <1>3. /\ source \in [Places -> Sources] /\ view \in [Places -> Views] /\ queue \subseteq Places \X Halves
        /\ w.key \in Places /\ w.place \in Places /\ w.current \in {"yes", "no"} /\ w.text <= native.text
    BY <1>2 DEF CaptureInv, CaptureTypes, ReaderStates, Carries
  <1>4. /\ s \in Sources /\ s.rev = Revising[w.text] /\ s.proof = w.text /\ s.status = "synced" /\ s.uri = w.place
        /\ s # NoSource
    BY <1>2, <1>3, Tables, SavedIs DEF Sources, NoSource, Nowhere
  <1>5. FromView(w.current) \in {"view", "queue"} /\ (FromView(w.current) = "queue" => w.current = "yes")
    BY DEF FromView
  <1>6. /\ x \in ReaderStates /\ x.at = FromView(w.current) /\ x.text = w.text /\ x.quiet = w.quiet
        /\ x.place = w.place /\ x.shown = w.shown /\ x.key = w.key
    BY <1>2, <1>5 DEF ReaderStates, Stages
  <1>7. work' = [Disturbed(work) EXCEPT ![r] = x]
    BY <1>1 DEF Saves
  <1>8. Flies(work[r])
    BY <1>1 DEF Flies
  <1> HIDE DEF s, x, w
  <1>9. source' \in [Places -> Sources] /\ \A p \in Places : source'[p] = IF p = w.key THEN s ELSE source[p]
    BY <1>1, <1>3, <1>4
  <1>10. SourcesSound(native, source', Revising)
    BY <1>2, <1>3, <1>4, <1>9 DEF SourcesSound
  <1>11. Carries(r, x, host, native, Rendering)
    BY <1>1, <1>2, <1>5, <1>6 DEF Carries, HasShown, HasRead
  <1>12. IsAlone(r, x, host, native, source', view', queue', Rendering, Revising)
    <2>1. SUFFICES ASSUME w.quiet = "yes"
                   PROVE  IsAlone(r, x, host, native, source', view, queue, Rendering, Revising)
      BY <1>1, <1>6 DEF IsAlone
    <2>2. w.text = native.text /\ w.place = native.place /\ w.shown = Rendering[native.text]
          /\ (w.current = "yes" => ViewIsWhole(w.key, native, view, Rendering, Revising))
      BY <1>1, <1>2, <2>1 DEF IsAlone, HasRead, HasShown
    <2>3. SourceIsWhole(w.key, native, source', Revising)
      BY <1>3, <1>4, <1>9, <2>2 DEF SourceIsWhole
    <2>4. QED
      BY <1>5, <1>6, <2>2, <2>3 DEF IsAlone, Pinned
  <1>13. native.crossed = "no" => OnlySource(host, source') /\ Continuing(r, x, host, source')
    <2>1. native.crossed = "no" => OnlySource(host, source')
      BY <1>1, <1>2, <1>9 DEF OnlySource, Continuing
    <2>2. Continuing(r, x, host, source')
      BY <1>5, <1>6 DEF Continuing, Pinned
    <2>3. QED
      BY <2>1, <2>2
  <1>14. ViewsSound(host, native, view', Rendering, Revising) /\ view' \in [Places -> Views]
         /\ queue' \subseteq Places \X Halves
    BY <1>1, <1>2, <1>3
  <1>15. UNCHANGED <<host, native, events>>
    BY <1>1
  <1>16. QED
    BY <1>6, <1>7, <1>8, <1>9, <1>10, <1>11, <1>12, <1>13, <1>14, <1>15, SavingSteps

LEMMA ViewCaptureKeeps ==
  ASSUME CaptureInv, NEW r \in Readers, ViewCapture(r)
  PROVE  CaptureInv'
  <1> DEFINE w == work[r]
             v == [rev |-> Saved(w.text), text |-> w.shown]
             x == [AtRest EXCEPT !.at = "queue", !.key = w.key, !.quiet = w.quiet]
  <1>1. w.at = "view" /\ view' = [view EXCEPT ![w.key] = v] /\ Saves(r, x)
        /\ UNCHANGED <<host, native, source, queue, events>>
    BY DEF ViewCapture
  <1>2. /\ w \in ReaderStates /\ w.text \in Halves /\ native \in Natives
        /\ Carries(r, w, host, native, Rendering)
        /\ IsAlone(r, w, host, native, source, view, queue, Rendering, Revising)
        /\ native.crossed = "no" => Continuing(r, w, host, source) /\ OnlySource(host, source)
        /\ SourcesSound(native, source, Revising)
        /\ ViewsSound(host, native, view, Rendering, Revising)
    BY ReaderFacts
  <1>3. /\ source \in [Places -> Sources] /\ view \in [Places -> Views] /\ queue \subseteq Places \X Halves
        /\ w.key \in Places /\ w.shown \in Halves /\ w.quiet \in {"yes", "no"} /\ w.text <= native.text
    BY <1>2 DEF CaptureInv, CaptureTypes, ReaderStates, Carries
  <1>4. v \in Views /\ v.rev = Revising[w.text] /\ v.text = w.shown
    BY <1>2, <1>3, Tables, SavedIs DEF Views
  <1>5. /\ x \in ReaderStates /\ x.at = "queue" /\ x.text = 0 /\ x.quiet = w.quiet /\ x.key = w.key
    BY <1>3, RestIs DEF ReaderStates, Stages, AtRest
  <1>6. work' = [Disturbed(work) EXCEPT ![r] = x]
    BY <1>1 DEF Saves
  <1>7. Flies(work[r])
    BY <1>1 DEF Flies
  <1> HIDE DEF v, x, w
  <1>8. view' \in [Places -> Views] /\ \A p \in Places : view'[p] = IF p = w.key THEN v ELSE view[p]
    BY <1>1, <1>3, <1>4
  <1>9. ViewsSound(host, native, view', Rendering, Revising)
    <2>1. SUFFICES ASSUME NEW p \in Places, view'[p] # NoView
                   PROVE  \E t \in Halves : t <= native.text /\ view'[p].rev = Revising[t]
                                            /\ Fits(t, view'[p].text, host, native, Rendering)
      BY DEF ViewsSound
    <2>2. CASE p = w.key
      <3>1. Fits(w.text, w.shown, host, native, Rendering)
        BY <1>1, <1>2 DEF Carries, HasShown
      <3>2. QED
        BY <1>2, <1>3, <1>4, <1>8, <2>2, <3>1
    <2>3. CASE p # w.key
      BY <1>2, <1>8, <2>1, <2>3 DEF ViewsSound
    <2>4. QED
      BY <2>2, <2>3
  <1>10. 0 <= native.text
    BY <1>2, LengthIs DEF Natives, Halves
  <1>11. Carries(r, x, host, native, Rendering)
    BY <1>5, <1>10 DEF Carries, HasShown, HasRead
  <1>12. IsAlone(r, x, host, native, source', view', queue', Rendering, Revising)
    <2>1. SUFFICES ASSUME w.quiet = "yes"
                   PROVE  IsAlone(r, x, host, native, source, view', queue, Rendering, Revising)
      BY <1>1, <1>5 DEF IsAlone
    <2>2. w.text = native.text /\ w.shown = Rendering[native.text] /\ SourceIsWhole(w.key, native, source, Revising)
      BY <1>1, <1>2, <2>1 DEF IsAlone, HasRead, HasShown
    <2>3. v = [rev |-> Revising[native.text], text |-> Rendering[native.text]]
      BY <1>4, <2>2 DEF Views
    <2>4. ViewIsWhole(w.key, native, view', Rendering, Revising)
      BY <1>3, <1>8, <2>3 DEF ViewIsWhole
    <2>5. QED
      BY <1>5, <2>2, <2>4 DEF IsAlone, HasRead, HasShown, Pinned
  <1>13. native.crossed = "no" => OnlySource(host, source') /\ Continuing(r, x, host, source')
    BY <1>1, <1>2, <1>5 DEF Continuing, Pinned
  <1>14. SourcesSound(native, source', Revising) /\ source' \in [Places -> Sources]
         /\ queue' \subseteq Places \X Halves
    BY <1>1, <1>2, <1>3
  <1>15. UNCHANGED <<host, native, events>>
    BY <1>1
  <1>16. QED
    BY <1>5, <1>6, <1>7, <1>8, <1>9, <1>11, <1>12, <1>13, <1>14, <1>15, SavingSteps
LEMMA QueueCaptureKeeps ==
  ASSUME CaptureInv, NEW r \in Readers, QueueCapture(r)
  PROVE  CaptureInv'
  <1> DEFINE w == work[r]
             j == <<w.key, source[w.key].rev>>
             x == [AtRest EXCEPT !.at = "done", !.key = w.key, !.quiet = w.quiet]
  <1>1. w.at = "queue" /\ UNCHANGED <<host, native, source, view, events>>
    BY DEF QueueCapture
  <1>2. /\ w \in ReaderStates /\ native \in Natives
        /\ IsAlone(r, w, host, native, source, view, queue, Rendering, Revising)
        /\ native.crossed = "no" => Continuing(r, w, host, source) /\ OnlySource(host, source)
        /\ SourcesSound(native, source, Revising)
        /\ ViewsSound(host, native, view, Rendering, Revising)
    BY ReaderFacts
  <1>3. /\ source \in [Places -> Sources] /\ view \in [Places -> Views] /\ queue \subseteq Places \X Halves
        /\ w.key \in Places /\ w.quiet \in {"yes", "no"} /\ CaptureTypes
    BY <1>2 DEF CaptureInv, CaptureTypes, ReaderStates
  <1>4. Flies(work[r])
    BY <1>1 DEF Flies
  <1>5. /\ SourcesSound(native, source', Revising) /\ source' \in [Places -> Sources]
        /\ ViewsSound(host, native, view', Rendering, Revising) /\ view' \in [Places -> Views]
        /\ UNCHANGED <<host, native, events>>
        /\ native.crossed = "no" => OnlySource(host, source')
    BY <1>1, <1>2, <1>3
  <1>6. CASE source[w.key].status = "synced" /\ queue' = queue \cup {j} /\ Saves(r, x)
    <2>1. source[w.key].rev \in Halves
      BY <1>3, <1>6 DEF Sources, NoSource, Nowhere
    <2>2. queue' \subseteq Places \X Halves
      BY <1>3, <1>6, <2>1
    <2>3. x \in ReaderStates /\ x.at = "done" /\ x.text = 0 /\ x.quiet = w.quiet /\ x.key = w.key
      BY <1>3, RestIs DEF ReaderStates, Stages, AtRest
    <2>4. work' = [Disturbed(work) EXCEPT ![r] = x]
      BY <1>6 DEF Saves
    <2> HIDE DEF x, w
    <2>5. 0 <= native.text
      BY <1>2, LengthIs DEF Natives, Halves
    <2>6. Carries(r, x, host, native, Rendering)
      BY <2>3, <2>5 DEF Carries, HasShown, HasRead
    <2>7. IsAlone(r, x, host, native, source', view', queue', Rendering, Revising)
      <3>1. SUFFICES ASSUME w.quiet = "yes"
                     PROVE  IsAlone(r, x, host, native, source, view, queue', Rendering, Revising)
        BY <1>1, <2>3 DEF IsAlone
      <3>2. SourceIsWhole(w.key, native, source, Revising) /\ ViewIsWhole(w.key, native, view, Rendering, Revising)
        BY <1>1, <1>2, <3>1 DEF IsAlone
      <3>3. <<w.key, Revising[native.text]>> \in queue'
        BY <1>6, <3>2 DEF SourceIsWhole
      <3>4. QED
        BY <2>3, <3>2, <3>3 DEF IsAlone, HasRead, HasShown, Pinned
    <2>8. Continuing(r, x, host, source')
      BY <2>3 DEF Continuing, Pinned
    <2>9. QED
      BY <1>4, <1>5, <2>2, <2>3, <2>4, <2>6, <2>7, <2>8, SavingSteps
  <1>7. CASE queue' = queue /\ Saves(r, AtRest)
    <2>1. work' = [Disturbed(work) EXCEPT ![r] = AtRest]
      BY <1>7 DEF Saves
    <2>2. AtRest \in ReaderStates /\ Carries(r, AtRest, host, native, Rendering)
      BY <1>3, RestIs
    <2>3. IsAlone(r, AtRest, host, native, source', view', queue', Rendering, Revising)
          /\ Continuing(r, AtRest, host, source')
      BY RestIs
    <2>4. queue' \subseteq Places \X Halves
      BY <1>3, <1>7
    <2>5. QED
      BY <1>4, <1>5, <2>1, <2>2, <2>3, <2>4, SavingSteps
  <1>8. QED
    BY <1>6, <1>7 DEF QueueCapture

-----------------------------------------------------------------------------
(* What happens besides.                                                       *)
LEMMA HostStepsKeep ==
  ASSUME CaptureInv, NEW c \in Natives, c.text >= native.text, c.version = native.version,
         c.crossed = native.crossed, HostSteps(c)
  PROVE  CaptureInv'
  <1>1. CaptureTypes
    BY DEF CaptureInv
  <1>2. events' = events + 1 /\ events < MaxEvents /\ native' = [c EXCEPT !.version = c.version + 1]
        /\ work' = Disturbed(work) /\ UNCHANGED <<host, source, view, queue>>
    BY DEF HostSteps, Happens
  <1>3. native.version \in Nat /\ c.version \in Nat /\ native.version <= events /\ events \in Nat /\ MaxEvents \in Nat
    BY <1>1, LengthIs DEF CaptureTypes, Natives
  <1>4. native' \in Natives /\ native'.text = c.text /\ native'.crossed = c.crossed
        /\ native'.version = native.version + 1
    BY <1>2, <1>3 DEF Natives
  <1>5. events' \in 0..MaxEvents /\ native'.version <= events' /\ native'.version > native.version
    BY <1>2, <1>3, <1>4
  <1>6. source' \in [Places -> Sources]
    BY <1>1, <1>2 DEF CaptureTypes
  <1>7. QED
    BY <1>2, <1>4, <1>5, <1>6, OutsideSteps

LEMMA HostWritesKeeps ==
  ASSUME CaptureInv, HostWrites
  PROVE  CaptureInv'
  <1>1. native \in Natives /\ native.text \in Halves
    BY DEF CaptureInv, CaptureTypes, Natives
  <1>2. PICK d \in {1, 2} : native.text + d <= 2 * Len(Script) /\ HostSteps([native EXCEPT !.text = native.text + d])
    BY DEF HostWrites
  <1>3. native.text + d \in Halves /\ native.text + d >= native.text
    BY <1>1, <1>2, LengthIs DEF Halves
  <1> DEFINE c == [native EXCEPT !.text = native.text + d]
  <1>4. c \in Natives /\ c.text = native.text + d /\ c.version = native.version /\ c.crossed = native.crossed
    BY <1>1, <1>3 DEF Natives
  <1>5. HostSteps(c)
    BY <1>2
  <1> HIDE DEF c
  <1>6. QED
    BY <1>3, <1>4, <1>5, HostStepsKeep

LEMMA HostRebindsKeeps ==
  ASSUME CaptureInv, HostRebinds
  PROVE  CaptureInv'
  <1>1. native \in Natives /\ native.text \in Halves
    BY DEF CaptureInv, CaptureTypes, Natives
  <1>2. PICK e \in {"mine", "mixed", "other"} : HostSteps([native EXCEPT !.evidence = e])
    <2>1. CASE HostSteps([native EXCEPT !.evidence = IF @ = "mine" THEN "other" ELSE "mine"])
      <3> DEFINE e == IF native.evidence = "mine" THEN "other" ELSE "mine"
      <3>1. e \in {"mine", "mixed", "other"} /\ HostSteps([native EXCEPT !.evidence = e])
        BY <2>1
      <3>2. QED
        BY <3>1
    <2>2. CASE HostSteps([native EXCEPT !.evidence = "mixed"])
      BY <2>2
    <2>3. QED
      BY <2>1, <2>2 DEF HostRebinds
  <1> DEFINE c == [native EXCEPT !.evidence = e]
  <1>3. c \in Natives /\ c.text = native.text /\ c.version = native.version /\ c.crossed = native.crossed
    BY <1>1 DEF Natives
  <1>4. HostSteps(c)
    BY <1>2
  <1> HIDE DEF c
  <1>5. c.text >= native.text
    BY <1>1, <1>3, LengthIs DEF Halves
  <1>6. QED
    BY <1>3, <1>4, <1>5, HostStepsKeep

LEMMA HostMovesKeeps ==
  ASSUME CaptureInv, HostMoves
  PROVE  CaptureInv'
  <1>1. native \in Natives /\ native.text \in Halves
    BY DEF CaptureInv, CaptureTypes, Natives
  <1> DEFINE c == [native EXCEPT !.place = "there"]
  <1>2. c \in Natives /\ c.text = native.text /\ c.version = native.version /\ c.crossed = native.crossed
    BY <1>1 DEF Natives, Places
  <1>3. HostSteps(c)
    BY DEF HostMoves
  <1> HIDE DEF c
  <1>4. c.text >= native.text
    BY <1>1, <1>2, LengthIs DEF Halves
  <1>5. QED
    BY <1>2, <1>3, <1>4, HostStepsKeep

LEMMA OtherScanSweepsKeeps ==
  ASSUME CaptureInv, OtherScanSweeps
  PROVE  CaptureInv'
  <1>1. CaptureTypes
    BY DEF CaptureInv
  <1>2. /\ events' = events + 1 /\ events < MaxEvents /\ work' = Disturbed(work)
        /\ UNCHANGED <<host, native, view, queue>>
        /\ source' = [p \in Places |-> IF source[p] = NoSource THEN NoSource
                                       ELSE [source[p] EXCEPT !.status = "missing"]]
    BY DEF OtherScanSweeps, Happens
  <1>3. events' \in 0..MaxEvents /\ native'.version <= events'
    <2>1. native.version \in Nat /\ native.version <= events /\ events \in Nat /\ MaxEvents \in Nat
      BY <1>1, LengthIs DEF CaptureTypes, Natives
    <2>2. QED
      BY <1>2, <2>1
  <1>4. ASSUME NEW p \in Places
        PROVE  /\ source'[p] \in Sources
               /\ source'[p] # NoSource => /\ source[p] # NoSource
                                           /\ source'[p].rev = source[p].rev /\ source'[p].proof = source[p].proof
    BY <1>1, <1>2 DEF CaptureTypes, Sources
  <1>5. source' \in [Places -> Sources]
    BY <1>2, <1>4
  <1>6. native' \in Natives /\ native' = native /\ native.text >= native.text
    BY <1>1, <1>2, LengthIs DEF CaptureTypes, Natives, Halves
  <1>7. QED
    BY <1>2, <1>3, <1>4, <1>5, <1>6, OutsideSteps

LEMMA ReaderDiesKeeps ==
  ASSUME CaptureInv, NEW r \in Readers, ReaderDies(r)
  PROVE  CaptureInv'
  <1>1. events' \in events..MaxEvents
    BY LengthIs DEF ReaderDies, Happens, CaptureInv, CaptureTypes
  <1>2. GivesUp(r) /\ UNCHANGED <<host, native, source, view, queue>>
    BY DEF ReaderDies
  <1>3. QED
    BY <1>1, <1>2, GivingUp

-----------------------------------------------------------------------------
LEMMA CaptureInitHolds ==
  ASSUME CaptureInit
  PROVE  CaptureInv
  <1>1. /\ native \in [text : {2 * n : n \in Starts}, place : {"here"}, evidence : Evidence,
                       version : {0}, crossed : {"no"}]
        /\ source = [p \in Places |-> NoSource] /\ view = [p \in Places |-> NoView] /\ queue = {}
        /\ work = [r \in Readers |-> AtRest] /\ events = 0 /\ host \in Hosts
    BY DEF CaptureInit
  <1>2. 0 \in Halves /\ \A n \in Starts : 2 * n \in Halves
    BY LengthIs DEF Halves
  <1>3. native \in Natives /\ native.version = 0
    BY <1>1, <1>2 DEF Natives, Places
  <1>4. NoSource \in Sources /\ NoView \in Views /\ \A r \in Readers : AtRest \in ReaderStates
    BY <1>2, RestIs DEF Sources, Views, NoView
  <1>5. 0 \in 0..MaxEvents
    BY LengthIs
  <1>6. CaptureTypes
    BY <1>1, <1>3, <1>4, <1>5 DEF CaptureTypes
  <1>7. SourcesSound(native, source, Revising) /\ ViewsSound(host, native, view, Rendering, Revising)
    BY <1>1 DEF SourcesSound, ViewsSound
  <1>8. \A r \in Readers : work[r] = AtRest
    BY <1>1
  <1>9. \A r \in Readers : /\ Carries(r, work[r], host, native, Rendering)
                           /\ IsAlone(r, work[r], host, native, source, view, queue, Rendering, Revising)
                           /\ Continuing(r, work[r], host, source) /\ ~Flies(work[r])
    BY <1>6, <1>8, RestIs
  <1>10. OneAtATime(host, native, source, work)
    BY <1>1, <1>9 DEF OneAtATime, OnlySource
  <1>11. QED
    BY <1>6, <1>7, <1>9, <1>10 DEF CaptureInv

LEMMA CaptureNextKeeps ==
  ASSUME CaptureInv, [CaptureNext]_captureVars
  PROVE  CaptureInv'
  <1>1. CASE UNCHANGED captureVars
    <2>1. UNCHANGED <<host, native, source, view, queue, work, events>>
      BY <1>1 DEF captureVars
    <2>2. Rendering' = Rendering /\ Revising' = Revising
      BY <2>1, TablesStay
    <2>3. QED
      BY <2>1, <2>2 DEF CaptureInv, CaptureTypes
  <1>2. CASE HostWrites \/ HostRebinds \/ HostMoves \/ OtherScanSweeps
    BY <1>2, HostWritesKeeps, HostRebindsKeeps, HostMovesKeeps, OtherScanSweepsKeeps
  <1>3. CASE ScanLists \/ ScanReads \/ ScanRenders
    BY <1>3, ScanListsKeeps, ScanReadsKeeps, ScanRendersKeeps
  <1>4. CASE InspectLists \/ InspectStamps \/ InspectReads \/ InspectRenders \/ InspectRechecks
    BY <1>4, InspectListsKeeps, InspectStampsKeeps, InspectReadsKeeps, InspectRendersKeeps,
       InspectRechecksKeeps
  <1>5. CASE \E r \in Readers : PlanCapture(r) \/ StoreCapture(r) \/ ViewCapture(r)
                                \/ QueueCapture(r) \/ ReaderDies(r)
    BY <1>5, PlanCaptureKeeps, StoreCaptureKeeps, ViewCaptureKeeps, QueueCaptureKeeps,
       ReaderDiesKeeps
  <1>6. QED
    BY <1>1, <1>2, <1>3, <1>4, <1>5 DEF CaptureNext

(* What readers carry and have saved fits the session, whatever its host, its    *)
(* script, the interleaving of a scan, an inspection and the host, and whoever   *)
(* dies (persist_session_snapshot, inspect_native_source, sync_session).         *)
THEOREM CaptureInvariant == CaptureSpec => []CaptureInv
  <1>1. CaptureInv /\ [CaptureNext]_captureVars => CaptureInv'
    BY CaptureNextKeeps
  <1>2. QED
    BY <1>1, CaptureInitHolds, PTL DEF CaptureSpec

(* A reader that was alone leaves the session whole, an inspection saves one     *)
(* version of it, what proves a deletion says what the revision says, no stale   *)
(* rendering is final, and readers that do not cross make one source             *)
(* (persist_session_snapshot, _record_dependency_stamps).                        *)
THEOREM CapturesAreWhole == CaptureSpec => []CaptureIsWhole
  <1>1. ASSUME CaptureInv PROVE CaptureIsWhole
    <2>1. CaptureTypes /\ native \in Natives /\ native.text \in Halves /\ "inspect" \in Readers
      BY <1>1 DEF CaptureInv, CaptureTypes, Natives, Readers
    <2>2. CaptureTypeOK
      <3>1. native.version \in 0..MaxEvents
        BY <2>1, LengthIs DEF CaptureTypes, Natives
      <3>2. \A p \in Places : source[p] # NoSource => source[p].status \in {"synced", "missing"}
        BY <2>1 DEF CaptureTypes, Sources
      <3>3. \A r \in Readers : work[r].at \in Stages /\ work[r].quiet \in {"yes", "no"}
        BY <2>1 DEF CaptureTypes, ReaderStates
      <3>4. QED
        BY <2>1, <3>1, <3>2, <3>3 DEF CaptureTypeOK, CaptureTypes, Halves
    <2>3. /\ Revising[native.text] = Saved(native.text) /\ Rendering[native.text] = Rendered(native.text)
          /\ RenderingOf(Saved(native.text)) = Rendered(native.text)
      BY <2>1, Tables, SavedIs
    <2>4. WholeWhenQuiet
      BY <1>1, <2>3 DEF CaptureInv, IsAlone, SourceIsWhole, ViewIsWhole, WholeWhenQuiet
    <2>5. InspectedIsWhole
      <3>1. Carries("inspect", work["inspect"], host, native, Rendering) /\ work["inspect"].text \in Halves
        BY <1>1, <2>1 DEF CaptureInv, CaptureTypes, ReaderStates
      <3>2. Rendering[work["inspect"].text] = Rendered(work["inspect"].text)
        BY <3>1, Tables
      <3>3. native.evidence = "mine" => Roots = {"mine"}
        BY DEF Roots
      <3>4. QED
        BY <3>1, <3>2, <3>3 DEF InspectedIsWhole, Carries, HasShown, HasRead
    <2>6. ProvenIsSaved
      <3>1. \A p \in Places : source[p] # NoSource => source[p].proof \in Halves
        BY <2>1 DEF CaptureTypes, Sources
      <3>2. QED
        BY <1>1, <3>1, Tables DEF ProvenIsSaved, CaptureInv, SourcesSound
    <2>7. NothingStaleIsFinal
      <3>1. SUFFICES ASSUME NEW p \in Places, view[p] # NoView, view[p].rev = Saved(native.text)
                     PROVE  view[p].text = RenderingOf(view[p].rev)
        BY DEF NothingStaleIsFinal
      <3>2. ViewIsWhole(p, native, view, Rendering, Revising)
        BY <1>1, <2>3, <3>1, CurrentRenders
      <3>3. QED
        BY <2>3, <3>1, <3>2 DEF ViewIsWhole
    <2>8. OneSource
      <3>1. SUFFICES ASSUME native.crossed = "no", host # "hermes"
                     PROVE  Cardinality({p \in Places : source[p] # NoSource}) <= 1
        BY DEF OneSource
      <3> DEFINE known == {p \in Places : source[p] # NoSource}
      <3>2. \A p, q \in known : p = q
        BY <1>1, <3>1 DEF CaptureInv, OneAtATime, OnlySource
      <3>3. CASE known = {}
        BY <3>3, FS_EmptySet
      <3>4. CASE known # {}
        <4>1. PICK p \in known : TRUE
          BY <3>4
        <4>2. known = {p}
          BY <3>2, <4>1
        <4> HIDE DEF known
        <4>3. Cardinality(known) = 1
          BY <4>2, FS_Singleton
        <4>4. Cardinality(known) <= 1
          BY <4>3
        <4>5. QED
          BY <4>4 DEF known
      <3>5. QED
        BY <3>3, <3>4
    <2>9. QED
      BY <2>2, <2>4, <2>5, <2>6, <2>7, <2>8 DEF CaptureIsWhole
  <1>2. QED
    BY <1>1, CaptureInvariant, PTL

=============================================================================
