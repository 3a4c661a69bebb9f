--------------------------------- MODULE MCLive ---------------------------------
(* What must happen in the end, in four protocols that share no state here: the *)
(* chunks of one job, the post-turn queue without faults, the maintenance lock, *)
(* and the cleanup of a source.  A behaviour is one of any of them, under that  *)
(* one's fairness.                                                              *)
EXTENDS HookBackground, MaintenanceLock, SourceCleanup, TLC

CONSTANTS r1, r2, r3, g1, Source, Revision, Chunk, Reader, Interactive, RecoveryBudget, NoOne

MCSessionOf == [r \in Request |-> IF r = 2 THEN "other" ELSE "one"]
LaunchedByHost == [r \in Run |-> IF r = r1 THEN NoSession ELSE g1]

VARIABLES part, row, evidence, job, seen, frozen

Ledger == INSTANCE DistillLedger WITH Worker <- Reader
ledgerVars == <<row, evidence, job, seen, frozen>>

AllInit ==
    /\ part \in {"hooks", "lock", "cleanup", "ledger"}
    /\ Init /\ LockInit /\ CleanInit /\ Ledger!Init
    /\ part # "cleanup" => side = "none" /\ blocked = "no"
AllNext ==
    /\ \/ part = "hooks" /\ Next /\ UNCHANGED <<lockVars, cleanVars, ledgerVars>>
       \/ part = "lock" /\ LockNext /\ UNCHANGED <<vars, cleanVars, ledgerVars>>
       \/ part = "cleanup" /\ CleanNext /\ UNCHANGED <<vars, lockVars, ledgerVars>>
       \/ part = "ledger" /\ Ledger!Next /\ UNCHANGED <<vars, lockVars, cleanVars>>
    /\ UNCHANGED part

AllFairness ==
    /\ WF_vars(part = "hooks" /\ IdleOver)
    /\ \A r \in Request : WF_vars(part = "hooks" /\ WriteRequest(r))
    /\ \A p \in Process : WF_vars(part = "hooks" /\ LockStep(p))
    /\ \A w \in Worker : WF_vars(part = "hooks" /\ RunStep(w))
    /\ \A g \in Guarded : WF_lockVars(part = "lock" /\ AskStep(g))
    /\ \A c \in Cleaner : WF_cleanVars(part = "cleanup" /\ CleanStep(c))
    /\ WF_ledgerVars(part = "ledger" /\ Ledger!WakeReconcile)
    /\ \A j \in Ledger!Job :
          /\ WF_ledgerVars(part = "ledger" /\ Ledger!BackoffOver(j))
          /\ \A c \in Chunk : WF_ledgerVars(part = "ledger" /\ Ledger!ExpireChunk(j, c))
AllSpec == AllInit /\ [][AllNext]_<<part, vars, lockVars, cleanVars, ledgerVars>> /\ AllFairness

(* No job stays with readers that are gone: it is read, or free for others.     *)
NothingProcessesForever == Ledger!NothingProcessesForever
==============================================================================
