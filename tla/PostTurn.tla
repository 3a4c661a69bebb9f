-------------------------------- MODULE PostTurn --------------------------------
(* What a detached worker does for one post-turn request: staging the session,  *)
(* distilling its job in a batch of one, Dream's slices, and the receipt that a *)
(* hook called with --wait polls for.  A project has one receipt file; every    *)
(* write reads it, merges, and replaces it, and the workers of two clients, or  *)
(* of the archive, do so side by side.  A worker that dies takes no more steps. *)
EXTENDS Naturals, FiniteSets

CONSTANTS
    HookRequest,     \* requests of different clients, each with a generation and a waiter
    Archiver,    \* archive batches, which hold the maintenance lock while they run
    Of,          \* the session of each runner: its trigger
    MaxAttempts, \* looks at a session that is not there yet (6 in the code)
    MaxSlices    \* Dream slices after the first one

Runner == HookRequest \cup Archiver
ASSUME PostTurnAssumption ==
    /\ HookRequest \cap Archiver = {} /\ DOMAIN Of = Runner
    /\ \A r \in Runner : r # "none"
    /\ MaxAttempts \in Nat \ {0} /\ MaxSlices \in Nat

Sessions == {Of[r] : r \in Runner}
Generation(r) == IF r \in HookRequest THEN r ELSE "none"

VARIABLES
    receiptFile,     \* the receipt file
    turn,        \* where each runner is, and what it has come to
    work,        \* the job of each session
    created,     \* jobs that stagings have created in the project
    wait,        \* what each waiter knows
    crossed      \* history: requests whose receipt was read, and written back with what
                 \* another runner came to

turnVars == <<receiptFile, turn, work, created, wait, crossed>>

NoReceipt == [state |-> "none", trigger |-> "none", gen |-> "none",
              maintenance |-> "none", error |-> "none"]
NoTurn == [at |-> "idle", kind |-> "none", next |-> "none", held |-> NoReceipt, tries |-> 0,
           staged |-> "no", seen |-> 0, did |-> "none", dream |-> "none", slices |-> 0,
           closes |-> NoReceipt]

TurnTypeOK ==
    /\ receiptFile.state \in {"none", "running", "succeeded", "deferred", "busy", "failed", "partial"}
    /\ receiptFile.trigger \in Sessions \cup {"none"} /\ receiptFile.gen \in HookRequest \cup {"none"}
    /\ receiptFile.maintenance \in {"none", "running", "failed", "paused", "completed", "skipped"}
    /\ receiptFile.error \in {"none", "some"}
    /\ \A r \in Runner :
          /\ turn[r].did \in {"none", "completed", "deferred", "busy"}
          /\ turn[r].dream \in {"none", "completed", "continuing", "failed", "skipped"}
          /\ turn[r].tries \in 0..MaxAttempts /\ turn[r].slices \in 0..MaxSlices
    /\ work \in [Sessions -> {"queued", "completed", "manual"}]
    /\ wait \in [HookRequest -> {"waiting", "succeeded", "failed", "timeout"}]
    /\ crossed \subseteq HookRequest

TurnInit ==
    /\ receiptFile = NoReceipt
    /\ turn = [r \in Runner |-> NoTurn]
    /\ work \in [Sessions -> {"queued", "completed", "manual"}]
    /\ created = 0
    /\ wait = [r \in HookRequest |-> "waiting"]
    /\ crossed = {}
------------------------------------------------------------------------------
(* Writing a receipt: read it, then replace it by what was read with an update. *)
Go(r, t) == turn' = [turn EXCEPT ![r] = t]
Writing(t, kind, next) ==
    [t EXCEPT !.at = "write", !.kind = kind, !.next = next, !.held = receiptFile]

(* A run that ends before any model is called (worker 267-360).                 *)
Nonsemantic(r, state) ==
    [state |-> state, trigger |-> Of[r], gen |-> Generation(r), error |-> "some",
     maintenance |-> IF state = "failed" THEN "failed" ELSE "paused"]

Running(r) ==
    [NoReceipt EXCEPT !.state = "running", !.trigger = Of[r], !.gen = Generation(r),
                      !.maintenance = IF r \in HookRequest THEN "running" ELSE "none"]

(* The last write of a batch speaks for the job of the trigger, and leaves the  *)
(* generation and Dream's part of the receipt as they are.                      *)
Final(r, old) ==
    LET t == turn[r]
    IN  [old EXCEPT !.state = CASE t.did = "completed" -> "succeeded"
                                [] t.did = "busy" -> "busy"
                                [] OTHER -> "deferred",
                    !.trigger = Of[r],
                    !.error = IF t.did = "completed" THEN "none" ELSE "some"]

(* Dream's outcome keeps the state and error of the receipt that was looked at. *)
WithOutcome(r, old) ==
    LET t == turn[r]
    IN  [old EXCEPT !.state = CASE t.dream = "failed" -> "failed"
                                [] t.dream = "continuing" -> "deferred"
                                [] OTHER -> t.closes.state,
                    !.error = IF t.closes.error = "none" /\ t.dream \in {"failed", "continuing"}
                              THEN "some" ELSE t.closes.error,
                    !.maintenance = IF t.dream = "continuing" THEN "paused" ELSE t.dream]

Merged(r, kind, old) ==
    CASE kind = "failed" -> Nonsemantic(r, "failed")
      [] kind = "backoff" -> Nonsemantic(r, "deferred")
      [] kind = "running" -> Running(r)
      [] kind \in {"note", "closed"} -> old
      [] kind = "beat" -> [old EXCEPT !.state = "running"]
      [] kind = "success" -> [old EXCEPT !.state = "succeeded", !.trigger = Of[r], !.error = "none"]
      [] kind = "deferral" -> [old EXCEPT !.state = "deferred", !.error = "some"]
      [] kind = "final" -> Final(r, old)
      [] kind = "unclosed" -> [old EXCEPT !.state = "partial", !.error = "some"]
      [] OTHER -> WithOutcome(r, old)

(* The receipt a runner read may be another's by then.  Dream's outcome is      *)
(* written over it whosever it is, and the success of a job of the same session *)
(* as well; nothing else that is written says that the request is done.         *)
Crosses(r, q) ==
    /\ q # r /\ turn[r].held.gen = q
    /\ \/ turn[r].kind = "outcome"
       \/ turn[r].kind \in {"success", "final"} /\ Of[r] = Of[q]

Replace(r) ==
    /\ turn[r].at = "write"
    /\ crossed' = crossed \cup {q \in HookRequest : Crosses(r, q)}
    /\ receiptFile' = Merged(r, turn[r].kind, turn[r].held)
    /\ Go(r, [turn[r] EXCEPT !.at = turn[r].next, !.kind = "none", !.next = "none",
                             !.held = NoReceipt, !.closes = NoReceipt])
    /\ UNCHANGED <<work, created, wait>>
------------------------------------------------------------------------------
(* A request is given up without a receipt while the lock is held, twice.       *)
Locked == \E b \in Archiver : turn[b].at \notin {"idle", "over"}
Others == <<receiptFile, work, created, wait, crossed>>

Accept(r) ==
    /\ r \in HookRequest /\ turn[r].at \in {"idle", "accepted"}
    /\ Go(r, [turn[r] EXCEPT !.at = IF Locked THEN "over"
                                    ELSE IF @ = "idle" THEN "accepted" ELSE "stage"])
    /\ UNCHANGED Others

StartArchive(b) ==
    /\ b \in Archiver /\ turn[b].at = "idle" /\ ~Locked
    /\ Go(b, [turn[b] EXCEPT !.at = "stage"])
    /\ UNCHANGED Others

(* Staging: a session whose native record has not arrived is looked for again;  *)
(* one that is refused, or waits for its retry, is not distilled.               *)
Staged(r) ==
    /\ turn[r].at = "stage"
    /\ \E new \in {0, 1} : created' = created + new
    /\ Go(r, [turn[r] EXCEPT !.at = IF r \in HookRequest THEN "tick" ELSE "batch", !.staged = "yes"])
    /\ UNCHANGED <<receiptFile, work, wait, crossed>>
NotThereYet(r) ==
    /\ turn[r].at = "stage" /\ r \in HookRequest /\ turn[r].tries + 1 < MaxAttempts
    /\ Go(r, [turn[r] EXCEPT !.tries = @ + 1])
    /\ UNCHANGED Others
NotStaged(r) ==
    /\ turn[r].at = "stage" /\ r \in HookRequest
    /\ \E why \in {"failed", "backoff"} :
          Go(r, [turn[r] EXCEPT !.at = "outcome", !.staged = why, !.dream = "skipped"])
    /\ UNCHANGED Others

(* Dream's tick distills the session of the request first, if a command line    *)
(* tool is there to do so.                                                      *)
DreamTick(r) ==
    /\ turn[r].at = "tick"
    /\ \/ Locked /\ Go(r, [turn[r] EXCEPT !.at = "outcome", !.dream = "skipped"])
       \/ ~Locked /\ Go(r, Writing([turn[r] EXCEPT !.dream = "failed"], "failed", "outcome"))
       \/ ~Locked /\ Go(r, [turn[r] EXCEPT !.at = "batch"])
    /\ UNCHANGED Others

OpenBatch(r) ==
    /\ turn[r].at = "batch"
    /\ IF r \in Archiver THEN Go(r, Writing(turn[r], "running", "repair"))
       ELSE IF Locked THEN Go(r, [turn[r] EXCEPT !.at = "outcome", !.dream = "failed"])
       ELSE Go(r, [turn[r] EXCEPT !.at = "guard", !.seen = created])
    /\ UNCHANGED Others
NoExecutor(r) ==
    /\ turn[r].at = "batch" /\ (r \in Archiver \/ ~Locked)
    /\ Go(r, Writing([turn[r] EXCEPT !.dream = "failed"], "failed",
                     IF r \in HookRequest THEN "outcome" ELSE "over"))
    /\ UNCHANGED Others

(* The guard against hooks of the model's own session is tried out; a job that  *)
(* anybody has created meanwhile counts against it.                             *)
Challenge(r) ==
    /\ turn[r].at = "guard"
    /\ LET t == [turn[r] EXCEPT !.seen = 0]
       IN  \/ created = turn[r].seen /\ Go(r, Writing(t, "running", "repair"))
           \/ Go(r, Writing([t EXCEPT !.dream = "failed"], "failed", "outcome"))
    /\ UNCHANGED Others

RepairNotes(r) ==
    /\ turn[r].at = "repair"
    /\ \/ Go(r, [turn[r] EXCEPT !.at = "select"])
       \/ Go(r, Writing(turn[r], "note", "select"))
    /\ UNCHANGED Others

(* The job of the trigger: not one of a manual selection; one that is complete  *)
(* is replayed.                                                                 *)
Select(r) ==
    /\ turn[r].at = "select"
    /\ LET w == work[Of[r]]
       IN  Go(r, IF w = "queued" THEN [turn[r] EXCEPT !.at = "review"]
                 ELSE [turn[r] EXCEPT !.at = "final",
                                      !.did = IF w = "completed" THEN "completed" ELSE "none"])
    /\ UNCHANGED Others

Reviewing(s) == \E q \in Runner : turn[q].at = "reviewing" /\ Of[q] = s
Review(r) ==
    /\ turn[r].at = "review"
    /\ LET s == Of[r]
       IN  Go(r, IF work[s] = "completed"
                 THEN Writing([turn[r] EXCEPT !.did = "completed"], "success", "final")
                 ELSE IF work[s] = "manual" \/ Reviewing(s)
                 THEN [turn[r] EXCEPT !.at = "final", !.did = "busy"]
                 ELSE [turn[r] EXCEPT !.at = "reviewing"])
    /\ UNCHANGED Others

Heartbeat(r) ==
    /\ turn[r].at = "reviewing"
    /\ Go(r, Writing(turn[r], "beat", "reviewing"))
    /\ UNCHANGED Others
Completes(r) ==
    /\ turn[r].at = "reviewing"
    /\ work' = [work EXCEPT ![Of[r]] = "completed"]
    /\ Go(r, Writing([turn[r] EXCEPT !.did = "completed"], "success", "final"))
    /\ UNCHANGED <<receiptFile, created, wait, crossed>>
Defers(r) ==
    /\ turn[r].at = "reviewing"
    /\ Go(r, Writing([turn[r] EXCEPT !.did = "deferred"], "deferral", "final"))
    /\ UNCHANGED Others

WriteFinal(r) ==
    /\ turn[r].at = "final"
    /\ Go(r, Writing(turn[r], "final", "close"))
    /\ UNCHANGED Others

(* Closing the executor may add to the receipt, or fail the batch.  A batch     *)
(* succeeds with its job, or if it had none.                                    *)
AfterBatch(r, t, ok) ==
    IF r \in Archiver THEN [t EXCEPT !.at = "over"]
    ELSE IF ok THEN [t EXCEPT !.at = "dream"]
    ELSE [t EXCEPT !.at = "outcome", !.dream = "failed"]
CloseExecutor(r) ==
    /\ turn[r].at = "close"
    /\ LET t == turn[r]
           done == AfterBatch(r, t, t.did \in {"completed", "none"})
           undone == AfterBatch(r, t, FALSE)
       IN  \/ Go(r, done)
           \/ Go(r, Writing(done, "closed", done.at))
           \/ Go(r, Writing(undone, "unclosed", undone.at))
    /\ UNCHANGED Others
------------------------------------------------------------------------------
(* Dream's slices, until it is done, or the lock, new user input or a lost      *)
(* worker lease pauses it.                                                      *)
DreamSlice(r) ==
    /\ turn[r].at = "dream"
    /\ \/ \E d \in {"completed", "failed", "skipped"} :
             Go(r, [turn[r] EXCEPT !.at = "outcome", !.dream = d])
       \/ Go(r, [turn[r] EXCEPT !.at = IF turn[r].slices < MaxSlices THEN "slice" ELSE "outcome",
                                !.dream = "continuing"])
    /\ UNCHANGED Others
NextSlice(r) ==
    /\ turn[r].at = "slice"
    /\ \/ Go(r, [turn[r] EXCEPT !.at = "outcome"])
       \/ ~Locked /\ Go(r, [turn[r] EXCEPT !.at = "resume", !.slices = @ + 1])
    /\ UNCHANGED Others
Resume(r) ==
    /\ turn[r].at = "resume"
    /\ Go(r, IF Locked THEN [turn[r] EXCEPT !.at = "outcome", !.dream = "skipped"]
             ELSE [turn[r] EXCEPT !.at = "dream"])
    /\ UNCHANGED Others

(* The outcome goes to the receipt only if that is the one of this request;     *)
(* what the write then merges with is read again.                               *)
Mine(r, old) == old.trigger = Of[r] /\ old.gen = Generation(r)
Unstaged(r) == turn[r].staged \in {"failed", "backoff"}

LookAtReceipt(r) ==
    /\ turn[r].at = "outcome"
    /\ Go(r, IF Mine(r, receiptFile) THEN [turn[r] EXCEPT !.at = "closing", !.closes = receiptFile]
             ELSE [turn[r] EXCEPT !.at = IF Unstaged(r) THEN "report" ELSE "over"])
    /\ UNCHANGED Others
RecordOutcome(r) ==
    /\ turn[r].at = "closing"
    /\ Go(r, Writing(turn[r], "outcome", IF Unstaged(r) THEN "report" ELSE "over"))
    /\ UNCHANGED Others
ReportStaging(r) ==
    /\ turn[r].at = "report"
    /\ Go(r, Writing(turn[r], turn[r].staged, "over"))
    /\ UNCHANGED Others

(* The waiter takes the first terminal receipt of its trigger and generation    *)
(* that Dream is done with.                                                     *)
(* Mutant of Answers: a receipt of this generation will do, whoever wrote it last.*)
AnswersAnyTrigger(r) ==
    /\ receiptFile.gen = Generation(r)
    /\ receiptFile.state \in {"succeeded", "deferred", "busy", "failed", "partial"}
    /\ receiptFile.maintenance # "running"

Answers(r) ==
    /\ Mine(r, receiptFile)
    /\ receiptFile.state \in {"succeeded", "deferred", "busy", "failed", "partial"}
    /\ receiptFile.maintenance # "running"

Poll(r) ==
    /\ wait[r] = "waiting" /\ Answers(r)
    /\ wait' = [wait EXCEPT ![r] = IF receiptFile.state = "succeeded" /\ receiptFile.error = "none"
                                   THEN "succeeded" ELSE "failed"]
    /\ UNCHANGED <<receiptFile, turn, work, created, crossed>>
WaitTimesOut(r) ==
    /\ wait[r] = "waiting"
    /\ wait' = [wait EXCEPT ![r] = "timeout"]
    /\ UNCHANGED <<receiptFile, turn, work, created, crossed>>

TurnNext ==
    \/ \E r \in Runner :
          \/ Replace(r) \/ Accept(r) \/ StartArchive(r) \/ Staged(r) \/ NotThereYet(r)
          \/ NotStaged(r) \/ DreamTick(r) \/ OpenBatch(r) \/ NoExecutor(r) \/ Challenge(r)
          \/ RepairNotes(r) \/ Select(r) \/ Review(r) \/ Heartbeat(r) \/ Completes(r)
          \/ Defers(r) \/ WriteFinal(r) \/ CloseExecutor(r) \/ DreamSlice(r) \/ NextSlice(r)
          \/ Resume(r) \/ LookAtReceipt(r) \/ RecordOutcome(r) \/ ReportStaging(r)
    \/ \E r \in HookRequest : Poll(r) \/ WaitTimesOut(r)

TurnSpec == TurnInit /\ [][TurnNext]_turnVars
------------------------------------------------------------------------------
(* A waiter that reports success reports on its own request: the session's job  *)
(* is complete, and this request's Dream has come to an end that is no failure  *)
(* (record_post_turn_maintenance_outcome, _wait_for_autonomous_receipt).  The   *)
(* one way round it is a receipt of this request that another client's worker   *)
(* read after looking at its own, and wrote back with its own outcome, or into  *)
(* which another batch wrote that it finished the same session.                 *)
SuccessIsOwn ==
    \A r \in HookRequest : wait[r] = "succeeded" /\ r \notin crossed =>
        work[Of[r]] = "completed" /\ turn[r].dream \in {"completed", "skipped"}
==============================================================================
