----------------------------- MODULE PrepareDistill -----------------------------
(* prepare_session_distill: the call in which an agent, a background worker or  *)
(* an IDE hook asks for a session's evidence.  One call is many transactions    *)
(* and reads; other callers, a reviewer, and a capture of the growing session   *)
(* come between any two of them.                                                *)
EXTENDS Naturals, FiniteSets

CONSTANTS
    Caller,     \* processes that call prepare
    Agent,      \* the interactive ones
    Hook,       \* IDE hooks, which only queue; the other callers are workers
    Piece,      \* chunks of a revision
    MaxRevision \* bound on the revisions of the session

ASSUME PrepareAssumption ==
    /\ Agent \subseteq Caller /\ Hook \subseteq Caller \ Agent /\ "free" \notin Caller
    /\ MaxRevision \in Nat \ {0}

VARIABLES
    revision,   \* the source's current revision
    observed,   \* the revision whose rendering the observation of the source holds
    kept,       \* whether the source has not been cleaned up
    task,       \* the distill job of each revision and pipeline
    call        \* each caller's call

prepareVars == <<revision, observed, kept, task, call>>

Pipelines == {"base", "signal", "current", "manual"}
Tasks == (1 .. MaxRevision) \X Pipelines
NoTask == [status |-> "none", manual |-> "no", retained |-> "no", v1 |-> "no", read |-> {},
           held |-> [c \in Piece |-> "free"], review |-> "free", lacks |-> "nothing"]
NoCall == [at |-> "idle", select |-> "queue", retry |-> FALSE, mode |-> "semantic", task |-> <<0, "base">>, seen |-> "none",
           windows |-> {}, answer |-> "none"]

Unfinished == {"queued", "processing", "reviewing", "retryable", "backoff", "parked"}
Offered == {"processing", "queued", "retryable", "reviewing"}

PrepareTypeOK ==
    /\ revision \in 1 .. MaxRevision /\ observed \in 0 .. MaxRevision /\ kept \in BOOLEAN
    /\ task \in [Tasks -> [status : {"none", "stale", "completed"} \cup Unfinished,
                           manual : {"no", "yes"}, retained : {"no", "yes"}, v1 : {"no", "yes"},
                           read : SUBSET Piece, held : [Piece -> Caller \cup {"free"}],
                           review : {"free", "background"},
                           lacks : {"nothing", "unfinished", "signal", "result"}]]
    /\ \A p \in Caller : call[p].windows \subseteq 1 .. MaxRevision

Queued(manual) == [NoTask EXCEPT !.status = "queued", !.manual = manual, !.retained = manual, !.v1 = "yes"]
(* A job of an older release lacks the challenge version; the base job of the   *)
(* first revision may have been completed, parked or half read.                 *)
PrepareInit ==
    /\ revision = 1 /\ observed = 1 /\ kept = TRUE
    /\ \E absent \in Caller \ Agent :   \* a bound: one caller in the background stays away
          call = [p \in Caller |-> IF p = absent THEN [NoCall EXCEPT !.at = "gone"] ELSE NoCall]
    /\ \E first \in {[Queued("no") EXCEPT !.v1 = "no"], [Queued("no") EXCEPT !.status = "parked"],
                     [Queued("no") EXCEPT !.status = "reviewing", !.read = Piece]}
                    \cup {[Queued("no") EXCEPT !.status = "completed", !.read = Piece, !.lacks = l] :
                             l \in {"nothing", "unfinished", "signal", "result"}} :
          task = [j \in Tasks |-> IF j = <<1, "base">> THEN first ELSE NoTask]
------------------------------------------------------------------------------
At(p, step) == call[p].at = step
Go(p, step) == call' = [call EXCEPT ![p].at = step]
Goes(p, step, j) == call' = [call EXCEPT ![p].at = step, ![p].task = j, ![p].seen = task[j].status]
(* An answer ends the call's own variables, but for the job it is about.        *)
Done(p, what, windows) ==
    call' = [call EXCEPT ![p] = [NoCall EXCEPT !.at = "answered", !.task = call[p].task,
                                               !.answer = what, !.windows = windows]]
Answer(p, what) == Done(p, what, {})
Source == <<revision, observed, kept>>

Mine(p) == call[p].task
Exists == {j \in Tasks : task[j].status # "none"}

(* Older revisions' unfinished jobs become stale with every enqueue.            *)
Staled(t) == [j \in Tasks |-> IF j[1] # revision /\ t[j].status \in Unfinished
                              THEN [t[j] EXCEPT !.status = "stale"] ELSE t[j]]
(* One job per revision and pipeline; a recheck by hand keeps its source, and   *)
(* also marks the job that is already there.                                    *)
Enqueued(pipe, byHand) ==
    LET j == <<revision, pipe>>
    IN  Staled([task EXCEPT ![j] =
            IF @.status = "none" THEN Queued(IF byHand THEN "yes" ELSE "no")
            ELSE IF byHand THEN [@ EXCEPT !.manual = "yes", !.retained = "yes"] ELSE @])

OwnedElsewhere(j) == task[j].review = "background"
(* A live background review is not taken over; otherwise the job is reserved.   *)
Reserve(p, j, next) ==
    IF OwnedElsewhere(j) THEN Answer(p, "owned") /\ UNCHANGED task
    ELSE task' = [task EXCEPT ![j].manual = "yes"] /\ Go(p, next)
Retain(p, from, next) ==
    /\ At(p, from) /\ Goes(p, next, Mine(p))
    /\ task' = [task EXCEPT ![Mine(p)].retained = "yes"] /\ UNCHANGED Source
(* A worker stops at a job that belongs to manual processing.                   *)
Keeps(p, j, next) == IF task[j].manual = "yes" THEN Answer(p, "manual") ELSE Go(p, next)
------------------------------------------------------------------------------
(* An agent selects a job, the session or the queue; a hook names its session,  *)
(* and a worker the job it was given.                                           *)
Open(p) ==
    /\ At(p, "idle")
    /\ \E mode \in IF p \in Agent THEN {"semantic", "raw"} ELSE {"semantic"},
          retry \in IF p \in Agent THEN BOOLEAN ELSE {FALSE} :
          \/ \E select \in IF p \in Agent THEN {"queue", "session"} ELSE {"session"} :
                /\ p \in Agent \cup Hook
                /\ call' = [call EXCEPT ![p] = [NoCall EXCEPT !.at = "ingest", !.select = select, !.retry = retry, !.mode = mode]]
          \/ \E j \in Exists :
                /\ p \notin Hook
                /\ call' = [call EXCEPT ![p] = [NoCall EXCEPT !.at = "first", !.select = "job", !.retry = retry,
                                                           !.mode = mode, !.task = j]]
    /\ UNCHANGED <<Source, task>>

(* Ingestion captures the session as it is, and queues its base job.            *)
Ingest(p) ==
    /\ At(p, "ingest") /\ task' = IF kept THEN Enqueued("base", FALSE) ELSE task
    /\ Go(p, "defer") /\ UNCHANGED Source

ReserveFirst(p) ==
    /\ At(p, "first") /\ UNCHANGED Source
    /\ LET j == Mine(p)
       IN  IF p \in Agent
           THEN IF task[j].status = "completed" THEN Go(p, "defer") /\ UNCHANGED task
                ELSE Reserve(p, j, "retain_first")
           ELSE /\ IF p \in Hook THEN Go(p, "defer") ELSE Keeps(p, j, "defer")
                /\ UNCHANGED task

(* The agent may put off another job in the same call.  The queue is not        *)
(* reconciled, and neither is a job of a batch.                                 *)
DeferOther(p) ==
    /\ At(p, "defer") /\ UNCHANGED Source
    /\ Go(p, IF call[p].select = "queue" THEN "list" ELSE "reconcile")
    /\ \/ UNCHANGED task
       \/ \E j \in Tasks \ {Mine(p)} :
             /\ p \in Agent /\ task[j].status \in Unfinished
             /\ task' = [task EXCEPT ![j].status = "backoff", ![j].held = [c \in Piece |-> "free"], ![j].review = "free"]

(* What a restart finds: leases of the dead are cleared, and a job whose chunks *)
(* are all read goes to review.  Its budget and backoff are in DistillLedger.   *)
Reconcile(p) ==
    /\ At(p, "reconcile") /\ UNCHANGED Source
    /\ task' = [j \in Tasks |->
                  IF j = Mine(p) \/ call[p].select = "session"
                  THEN IF task[j].status \in {"queued", "processing"}
                       THEN IF task[j].read = Piece THEN [task[j] EXCEPT !.status = "reviewing"]
                            ELSE IF \A c \in Piece : task[j].held[c] = "free" THEN [task[j] EXCEPT !.status = "queued"]
                            ELSE task[j]
                       ELSE task[j]
                  ELSE task[j]]
    /\ Go(p, IF call[p].select = "session" THEN "session" ELSE "retry")

(* The recheck a completed job calls for; each pipeline is tried once.          *)
RecheckPipeline(p, j) ==
    CASE call[p].retry /\ task[j].lacks = "unfinished" /\ j[2] # "manual" -> "manual"
      [] task[j].lacks = "signal" /\ j[2] # "signal" -> "signal"
      [] task[j].lacks = "result" /\ j[2] # "current" -> "current"
      [] OTHER -> "none"

(* The newest job: rechecks are younger than the job they repeat.               *)
Newest == LET last == {j \in Exists : \A i \in Exists : i[1] <= j[1]}
          IN  IF last \ {<<revision, "base">>} # {} THEN {j \in last : last = {j} \/ j[2] # "base"} ELSE last
SelectSession(p) ==
    /\ At(p, "session") /\ UNCHANGED Source
    /\ \E j \in Newest :
       LET pipe == IF task[j].status = "completed" THEN RecheckPipeline(p, j) ELSE "none"
       IN  IF pipe = "none" THEN Goes(p, "retry", j) /\ UNCHANGED task
           ELSE IF ~kept THEN Answer(p, "unavailable") /\ UNCHANGED task
           ELSE /\ task' = Enqueued(pipe, p \in Agent)
                /\ Goes(p, IF p \in Agent THEN "retain_recheck" ELSE "retry", <<revision, pipe>>)

(* A retry of an explicit completed job is about its own revision.              *)
RetryCompleted(p) ==
    /\ At(p, "retry") /\ UNCHANGED Source
    /\ LET j == Mine(p)
       IN  IF p \notin Agent \cup Hook /\ task[j].manual = "yes" THEN Answer(p, "manual") /\ UNCHANGED task
           ELSE IF /\ task[j].status = "completed" /\ call[p].retry /\ j[2] # "manual"
                   /\ task[j].lacks # "nothing"
           THEN IF revision # j[1] \/ ~kept THEN Answer(p, "changed") /\ UNCHANGED task
                ELSE task' = Enqueued("manual", TRUE) /\ Goes(p, "reserve_retry", <<revision, "manual">>)
           ELSE Go(p, "replay") /\ UNCHANGED task
ReserveRetry(p) == At(p, "reserve_retry") /\ Reserve(p, Mine(p), "retain_retry") /\ UNCHANGED Source

(* A completed job is answered as it is, and a caller in the background resumes *)
(* the cleanup of its source, which may succeed.  A parked job becomes active.  *)
Replay(p) ==
    /\ At(p, "replay") /\ UNCHANGED revision
    /\ LET j == Mine(p)
       IN  IF task[j].status = "completed"
           THEN /\ Answer(p, IF task[j].lacks = "result" THEN "unproven" ELSE "completed") /\ UNCHANGED task
                /\ \/ UNCHANGED <<observed, kept>>
                   \/ /\ p \notin Agent /\ task[j].lacks # "result" /\ task[j].retained = "no" /\ j[1] = revision
                      /\ kept' = FALSE /\ observed' = 0
           ELSE /\ UNCHANGED <<observed, kept>>
                /\ task' = IF task[j].status = "parked" THEN [task EXCEPT ![j].status = "queued"] ELSE task
                /\ Go(p, "list")

(* An explicit job must be on offer; otherwise jobs nearest to their end come   *)
(* first, and newer ones before older ones.                                     *)
Rank(j) == CASE task[j].status = "reviewing" -> 4 [] task[j].status = "processing" -> 3
             [] task[j].status = "queued" -> 2 [] OTHER -> 1
Pick(p) ==
    /\ At(p, "list") /\ UNCHANGED <<Source, task>>
    /\ LET offered == {j \in Tasks : task[j].status \in Offered}
           chosen == IF call[p].select = "queue" THEN offered ELSE offered \cap {Mine(p)}
           best == {j \in chosen : \A i \in chosen : Rank(i) <= Rank(j)}
       IN  IF chosen = {} THEN Answer(p, "nothing")
           ELSE \E j \in best :
                   call' = [call EXCEPT ![p] = [NoCall EXCEPT !.at = "take", !.mode = call[p].mode,
                                                              !.task = j, !.seen = task[j].status]]

Take(p) ==
    /\ At(p, "take") /\ UNCHANGED Source
    /\ IF p \in Agent THEN Reserve(p, Mine(p), "retain_taken")
       ELSE IF p \in Hook THEN Answer(p, "queued") /\ UNCHANGED task
       ELSE Keeps(p, Mine(p), "evidence") /\ UNCHANGED task
------------------------------------------------------------------------------
RendersOf(r) == IF observed = r THEN {r} ELSE {}

(* The semantic rendering must be of the job's revision, twice: a small one to  *)
(* measure the answer, and the one that fits.                                   *)
LoadEvidence(p) ==
    /\ At(p, "evidence") /\ UNCHANGED <<Source, task>>
    /\ IF call[p].mode = "semantic" /\ RendersOf(Mine(p)[1]) # {} THEN Go(p, "measured") ELSE Go(p, "raw")
LoadAgain(p) ==
    /\ At(p, "measured")
    /\ IF RendersOf(Mine(p)[1]) # {}
       THEN task' = (IF task[Mine(p)].status = "completed" THEN task ELSE [task EXCEPT ![Mine(p)].v1 = "yes"])
            /\ Go(p, "checkpoint")
       ELSE Go(p, "raw") /\ UNCHANGED task
    /\ UNCHANGED Source

Claimable(p, j) == {c \in Piece \ task[j].read : task[j].held[c] = "free"}
MayClaim(p, j) == /\ kept /\ task[j].status \in Offered /\ (p \in Agent \/ task[j].manual = "no")
                  /\ Claimable(p, j) # {}
Claimed(p, j) == [task EXCEPT ![j].status = "processing",
                     ![j].held = [c \in Piece |-> IF c \in Claimable(p, j) THEN p ELSE @[c]]]
(* Every chunk is claimed and checkpointed as verified by its hash; somebody    *)
(* else's leases send the call to the raw evidence.                             *)
ClaimAll(p) ==
    /\ At(p, "checkpoint") /\ UNCHANGED Source
    /\ LET j == Mine(p)
       IN  IF "reviewing" \in {task[j].status, call[p].seen} THEN Go(p, "bundle") /\ UNCHANGED task
           ELSE IF MayClaim(p, j) THEN task' = Claimed(p, j) /\ Go(p, "verified")
           ELSE Go(p, "raw") /\ UNCHANGED task
Checkpoint(p) ==
    /\ At(p, "verified") /\ UNCHANGED Source
    /\ LET j == Mine(p)
           mine == {c \in Piece : task[j].held[c] = p}
           read == task[j].read \cup mine
       IN  IF mine = {} THEN Answer(p, "lost_lease") /\ UNCHANGED task
           ELSE /\ task' = [task EXCEPT ![j].read = read, ![j].status = IF read = Piece THEN "reviewing" ELSE @,
                               ![j].held = [c \in Piece |-> IF c \in mine THEN "free" ELSE @[c]]]
                /\ Go(p, "checkpoint")

(* The exchanges to decide on are rendered by another read, and the compact     *)
(* answer renders all of them once more.                                        *)
DecisionBundle(p) ==
    /\ At(p, "bundle") /\ UNCHANGED <<Source, task>>
    /\ call' = [call EXCEPT ![p].at = "compact", ![p].windows = RendersOf(Mine(p)[1])]

(* Mutant of Compact: whatever windows there are make the answer.               *)
CompactAnyway(p) ==
    /\ At(p, "compact") /\ UNCHANGED <<Source, task>>
    /\ Done(p, "review", RendersOf(Mine(p)[1]))

Compact(p) ==
    /\ At(p, "compact") /\ UNCHANGED <<Source, task>>
    /\ IF RendersOf(Mine(p)[1]) = {} THEN Answer(p, "unavailable")
       ELSE Done(p, "review", {Mine(p)[1]})

(* Raw evidence: the results of a job under review, or leases on its chunks.    *)
RawEvidence(p) ==
    /\ At(p, "raw") /\ UNCHANGED Source
    /\ LET j == Mine(p)
       IN  IF call[p].seen = "reviewing" THEN Answer(p, "results") /\ UNCHANGED task
           ELSE IF MayClaim(p, j) THEN task' = Claimed(p, j) /\ Answer(p, "chunks")
           ELSE Answer(p, "no_chunks") /\ UNCHANGED task

(* The caller goes away with its answer, or in the middle of the call.          *)
Close(p) == ~At(p, "idle") /\ ~At(p, "gone") /\ call' = [call EXCEPT ![p] = [NoCall EXCEPT !.at = "gone"]]
            /\ UNCHANGED <<Source, task>>
------------------------------------------------------------------------------
(* An agent submits a chunk it has read.                                        *)
Submit(p, j, c) ==
    /\ task[j].held[c] = p /\ At(p, "answered")
    /\ LET read == task[j].read \cup {c}
       IN  task' = [task EXCEPT ![j].read = read, ![j].held[c] = "free",
                       ![j].status = IF read = Piece THEN "reviewing" ELSE @]
    /\ UNCHANGED <<Source, call>>
(* A lease runs out once its owner is gone.                                      *)
LeaseRunsOut(j, c) ==
    /\ task[j].held[c] # "free" /\ At(task[j].held[c], "gone") /\ task' = [task EXCEPT ![j].held[c] = "free"] /\ UNCHANGED <<Source, call>>

(* A background review begins on what nobody has reserved, and ends; any        *)
(* review may complete the job.                                                 *)
Review(j) ==
    /\ task[j].status = "reviewing" /\ UNCHANGED <<Source, call>>
    /\ \/ task[j].manual = "no" /\ task[j].review = "free" /\ task' = [task EXCEPT ![j].review = "background"]
       \/ task[j].review = "background" /\ task' = [task EXCEPT ![j].review = "free"]
       \/ task' = [task EXCEPT ![j].status = "completed", ![j].review = "free"]
BackoffEnds(j) == task[j].status = "backoff" /\ task' = [task EXCEPT ![j].status = "retryable"] /\ UNCHANGED <<Source, call>>

(* A capture saves the new revision, and then its rendering.                    *)
Capture ==
    \/ /\ kept /\ revision < MaxRevision /\ observed = revision /\ revision' = revision + 1
       /\ UNCHANGED <<observed, kept, task, call>>
    \/ /\ kept /\ observed < revision /\ observed' = revision /\ task' = Enqueued("base", FALSE)
       /\ UNCHANGED <<revision, kept, call>>

(* A bound: nothing more happens to the jobs once every call has its answer.     *)
Busy == \E p \in Caller : call[p].at \notin {"answered", "gone"}

PrepareNext ==
    \/ \E p \in Caller :
          \/ Open(p) \/ Ingest(p) \/ ReserveFirst(p) \/ Reconcile(p) \/ SelectSession(p) \/ RetryCompleted(p)
          \/ ReserveRetry(p) \/ Replay(p) \/ Pick(p) \/ Take(p) \/ LoadEvidence(p) \/ LoadAgain(p) \/ ClaimAll(p)
          \/ Checkpoint(p) \/ DecisionBundle(p) \/ Compact(p) \/ RawEvidence(p) \/ Close(p)
          \/ Retain(p, "retain_first", "defer") \/ Retain(p, "retain_recheck", "retry")
          \/ Retain(p, "retain_retry", "list") \/ Retain(p, "retain_taken", "evidence")
          \/ DeferOther(p) \/ \E j \in Tasks, c \in Piece : Submit(p, j, c)
    \/ Busy /\ \E j \in Tasks : Review(j) \/ BackoffEnds(j) \/ \E c \in Piece : LeaseRunsOut(j, c)
    \/ Busy /\ Capture
PrepareSpec == PrepareInit /\ [][PrepareNext]_prepareVars
------------------------------------------------------------------------------
(* Evidence for a final review is whole and of the job's own revision, whatever *)
(* is captured between the reads; every chunk of the job has been read by then; *)
(* and an agent that holds evidence has the job reserved and its source kept    *)
(* (tool_prepare_session_distill, _compact_prepare_result).                     *)
EvidenceIsWhole ==
    \A p \in Caller : call[p].at = "answered" =>
        /\ call[p].answer = "review" => /\ call[p].windows = {Mine(p)[1]}
                                        /\ task[Mine(p)].read = Piece
                                        /\ task[Mine(p)].v1 = "yes" \/ task[Mine(p)].status = "completed"
        /\ p \in Agent /\ call[p].answer \in {"review", "results", "chunks"} =>
               task[Mine(p)].manual = "yes" /\ task[Mine(p)].retained = "yes"
==============================================================================
