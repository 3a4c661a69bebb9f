----------------------------- MODULE ManualBatch -----------------------------
(* A person freezes a selection of sessions and has the active agent distill    *)
(* them one by one, while the background worker goes through the same queue.    *)
(* The selection is a manifest file of its own; what keeps the worker off the   *)
(* frozen sessions is that the manifest is published inside the transaction     *)
(* that looks for leases, and that a claim reads the manifests inside its own.  *)
EXTENDS Naturals, FiniteSets

CONSTANTS
    HostSession,     \* the sessions of the device
    MaxDraft,    \* bound on the revisions of a session
    Bundle,      \* the batches that may be created
    Runner       \* background workers

ASSUME BatchAssumption ==
    /\ MaxDraft \in Nat \ {0}
    /\ Runner \cap {"none", "agent"} = {}

Draft == 1..MaxDraft

VARIABLES
    draft,       \* the current revision of each session
    duty,        \* the job of each revision: status, lease, its two flags
    bundle,      \* the manifests
    runner,      \* what each worker has checked: a job, or none
    freezing     \* a selection published but not yet committed in the ledger

batchVars == <<draft, duty, bundle, runner, freezing>>

NoDuty == [status |-> "none", owner |-> "none", lease |-> "none",
           manual |-> "no", retain |-> "no"]
NoBundle == [state |-> "none", scope |-> "project", chosen |-> [s \in HostSession |-> 0],
             bound |-> [s \in HostSession |-> 0], failed |-> {}, skipped |-> {}]
NoRunner == [session |-> "none", draft |-> 0]

BatchTypeOK ==
    /\ draft \in [HostSession -> Draft]
    /\ duty \in [HostSession -> [Draft ->
          [status : {"none", "reviewing", "completed"},
           owner : {"none", "agent"} \cup Runner, lease : {"none", "live", "expired"},
           manual : {"yes", "no"}, retain : {"yes", "no"}]]]
    /\ bundle \in [Bundle ->
          [state : {"none", "active", "stopped"}, scope : {"project", "all"},
           chosen : [HostSession -> 0..MaxDraft], bound : [HostSession -> 0..MaxDraft],
           failed : SUBSET HostSession, skipped : SUBSET HostSession]]
    /\ runner \in [Runner -> [session : HostSession \cup {"none"}, draft : 0..MaxDraft]]
    /\ freezing \in Bundle \cup {"none"}

BatchInit ==
    /\ draft = [s \in HostSession |-> 1]
    /\ duty = [s \in HostSession |-> [v \in Draft |-> NoDuty]]
    /\ bundle = [b \in Bundle |-> NoBundle]
    /\ runner = [w \in Runner |-> NoRunner]
    /\ freezing = "none"
------------------------------------------------------------------------------
(* What a manifest owns: the job it bound, and of a chosen session the frozen   *)
(* revision; a device selection that is not bound yet owns every revision.      *)
Chosen(b) == {s \in HostSession : bundle[b].chosen[s] # 0}

Names(b, s, v) ==
    /\ s \in Chosen(b) \ bundle[b].skipped
    /\ \/ bundle[b].bound[s] = v
       \/ bundle[b].scope = "project" /\ bundle[b].chosen[s] = v
       \/ bundle[b].scope = "all" /\ bundle[b].bound[s] = 0

(* Mutant of OwnsJob: a stopped batch gives its sessions back.                  *)
ActiveOnly(s, v) ==
    \/ duty[s][v].manual = "yes"
    \/ \E b \in Bundle : bundle[b].state = "active" /\ Names(b, s, v)

OwnsJob(s, v) ==
    \/ duty[s][v].manual = "yes"
    \/ \E b \in Bundle : bundle[b].state # "none" /\ Names(b, s, v)

LiveBackground(j) == j.owner \in Runner /\ j.lease = "live"

(* The ledger's write lock is held while a selection is being frozen.           *)
Unlocked == freezing = "none"
------------------------------------------------------------------------------
HostTurn(s) ==
    /\ draft[s] < MaxDraft
    /\ draft' = [draft EXCEPT ![s] = @ + 1]
    /\ UNCHANGED <<duty, bundle, runner, freezing>>

(* A scan stores the current revision and queues its job.                       *)
Store(s) ==
    /\ Unlocked
    /\ duty[s][draft[s]].status = "none"
    /\ duty' = [duty EXCEPT ![s][draft[s]].status = "reviewing"]
    /\ UNCHANGED <<draft, bundle, runner, freezing>>

(* The batch is created inside a ledger transaction: no matching job may have a *)
(* live background lease, then the manifest is published.                       *)
PublishSelection(b, chosen, scope) ==
    /\ bundle[b].state = "none"
    /\ Unlocked
    /\ chosen # {}
    /\ \A s \in chosen, v \in Draft :
          (scope = "all" \/ v = draft[s]) => ~LiveBackground(duty[s][v])
    /\ bundle' = [bundle EXCEPT ![b] =
                    [NoBundle EXCEPT !.state = "active", !.scope = scope,
                        !.chosen = [s \in HostSession |-> IF s \in chosen THEN draft[s] ELSE 0]]]
    /\ freezing' = b
    /\ UNCHANGED <<draft, duty, runner>>

CommitSelection ==
    /\ freezing # "none"
    /\ duty' = [s \in HostSession |-> [v \in Draft |->
                   IF duty[s][v].status # "none" /\ Names(freezing, s, v)
                   THEN [duty[s][v] EXCEPT !.manual = "yes"] ELSE duty[s][v]]]
    /\ freezing' = "none"
    /\ UNCHANGED <<draft, bundle, runner>>

(* The process dies in between: the manifest stays, the transaction is undone.  *)
FreezeDies ==
    /\ freezing # "none"
    /\ freezing' = "none"
    /\ UNCHANGED <<draft, duty, bundle, runner>>

(* A person asks for the next session of the batch.                             *)
TakesNext(b, s) ==
    /\ Unlocked
    /\ bundle[b].state = "active"
    /\ s \in Chosen(b) \ (bundle[b].failed \cup bundle[b].skipped)

(* Bind: the job of the revision that was frozen, or for a device selection of  *)
(* the revision that is read now; a frozen revision that moved is a failure.    *)
BindJob(b, s) ==
    /\ TakesNext(b, s)
    /\ bundle[b].bound[s] = 0
    /\ IF bundle[b].scope = "project" /\ bundle[b].chosen[s] # draft[s]
       THEN /\ bundle' = [bundle EXCEPT ![b].failed = @ \cup {s}]
            /\ UNCHANGED duty
       ELSE /\ bundle' = [bundle EXCEPT ![b].bound[s] = draft[s]]
            /\ duty' = [duty EXCEPT ![s][draft[s]].status = IF @ = "none" THEN "reviewing" ELSE @]
    /\ UNCHANGED <<draft, runner, freezing>>

(* The session turns out to be empty, or is excluded by the privacy settings.   *)
SkipSession(b, s) ==
    /\ TakesNext(b, s)
    /\ bundle[b].scope = "all" /\ bundle[b].bound[s] = 0
    /\ bundle' = [bundle EXCEPT ![b].skipped = @ \cup {s}]
    /\ UNCHANGED <<draft, duty, runner, freezing>>

(* Reserve and claim the bound job for the agent; a worker with a live lease    *)
(* keeps it.                                                                    *)
AgentClaims(b, s) ==
    /\ TakesNext(b, s)
    /\ LET v == bundle[b].bound[s]
       IN /\ v # 0
          /\ duty[s][v].status = "reviewing"
          /\ ~LiveBackground(duty[s][v])
          /\ duty' = [duty EXCEPT ![s][v] =
                        [@ EXCEPT !.manual = "yes", !.retain = "yes",
                                  !.owner = "agent", !.lease = "live"]]
    /\ UNCHANGED <<draft, bundle, runner, freezing>>

(* No bound batch may have stopped.                                             *)
Stopped(s, v) == \E b \in Bundle : bundle[b].state = "stopped" /\ bundle[b].bound[s] = v

AgentFinishes(s, v) ==
    /\ Unlocked
    /\ duty[s][v].owner = "agent" /\ duty[s][v].lease = "live"
    /\ duty[s][v].status = "reviewing"
    /\ ~Stopped(s, v)
    /\ duty' = [duty EXCEPT ![s][v].status = "completed",
                            ![s][v].owner = "none", ![s][v].lease = "none"]
    /\ UNCHANGED <<draft, bundle, runner, freezing>>

(* A failure that the batch survives, an escalation that stops it, and the      *)
(* explicit retry that clears the failures of a batch still active.             *)
RecordFailure(b, s) ==
    /\ TakesNext(b, s)
    /\ bundle' = [bundle EXCEPT ![b].failed = @ \cup {s}]
    /\ UNCHANGED <<draft, duty, runner, freezing>>

StopBatch(b, s) ==
    /\ Unlocked
    /\ bundle[b].state = "active" /\ s \in Chosen(b)
    /\ bundle' = [bundle EXCEPT ![b].failed = @ \cup {s}, ![b].state = "stopped"]
    /\ UNCHANGED <<draft, duty, runner, freezing>>

RetryFailures(b) ==
    /\ bundle[b].state = "active" /\ bundle[b].failed # {}
    /\ bundle' = [bundle EXCEPT ![b].failed = {}]
    /\ UNCHANGED <<draft, duty, runner, freezing>>
------------------------------------------------------------------------------
(* The worker selects a job that nothing manual owns, and claims it later; the  *)
(* claim looks again, inside its transaction.                                   *)
Selects(w, s, v) ==
    /\ runner[w] = NoRunner
    /\ duty[s][v].status = "reviewing"
    /\ ~OwnsJob(s, v)
    /\ runner' = [runner EXCEPT ![w] = [session |-> s, draft |-> v]]
    /\ UNCHANGED <<draft, duty, bundle, freezing>>

RunnerClaims(w, s, v) ==
    /\ Unlocked
    /\ runner[w] = [session |-> s, draft |-> v]
    /\ duty[s][v].owner # w
    /\ IF /\ duty[s][v].status = "reviewing"
          /\ ~OwnsJob(s, v)
          /\ duty[s][v].owner = "none" \/ duty[s][v].lease = "expired"
       THEN /\ duty' = [duty EXCEPT ![s][v].owner = w, ![s][v].lease = "live"]
            /\ UNCHANGED runner
       ELSE runner' = [runner EXCEPT ![w] = NoRunner] /\ UNCHANGED duty
    /\ UNCHANGED <<draft, bundle, freezing>>

RunnerFinishes(w, s, v) ==
    /\ Unlocked
    /\ runner[w] = [session |-> s, draft |-> v]
    /\ duty[s][v].owner = w
    /\ duty' = IF duty[s][v].lease = "live"
               THEN [duty EXCEPT ![s][v].status = "completed",
                                 ![s][v].owner = "none", ![s][v].lease = "none"]
               ELSE duty
    /\ runner' = [runner EXCEPT ![w] = NoRunner]
    /\ UNCHANGED <<draft, bundle, freezing>>

LeaseExpires(s, v) ==
    /\ duty[s][v].lease = "live"
    /\ duty' = [duty EXCEPT ![s][v].lease = "expired"]
    /\ UNCHANGED <<draft, bundle, runner, freezing>>

RunnerStep(w) ==
    \E s \in HostSession, v \in Draft :
        Selects(w, s, v) \/ RunnerClaims(w, s, v) \/ RunnerFinishes(w, s, v)

BatchNext ==
    \/ \E s \in HostSession : HostTurn(s) \/ Store(s)
    \/ \E b \in Bundle :
          \/ \E chosen \in SUBSET HostSession, scope \in {"project", "all"} :
                PublishSelection(b, chosen, scope)
          \/ \E s \in HostSession : \/ BindJob(b, s) \/ SkipSession(b, s) \/ AgentClaims(b, s)
                                \/ RecordFailure(b, s) \/ StopBatch(b, s)
          \/ RetryFailures(b)
    \/ CommitSelection \/ FreezeDies
    \/ \E s \in HostSession, v \in Draft : AgentFinishes(s, v) \/ LeaseExpires(s, v)
    \/ \E w \in Runner : RunnerStep(w)

BatchSpec == BatchInit /\ [][BatchNext]_batchVars
------------------------------------------------------------------------------
(* A frozen session is the person's: no worker holds a live lease on a job that *)
(* a manifest names, before the job is bound, after a restart and when the      *)
(* batch has stopped just the same.                                             *)
FrozenIsManual ==
    \A b \in Bundle, s \in HostSession, v \in Draft :
        bundle[b].state # "none" /\ Names(b, s, v) => ~LiveBackground(duty[s][v])
==============================================================================
