-------------------------------- MODULE MCStores --------------------------------
(* The post-turn queue and the protocols around the ledger, which share no      *)
(* state with each other, side by side: a behaviour is one of any of them.      *)
EXTENDS MaintenanceLock, KnowledgeStore, SourceCleanup, Erasure, ManualBatch,
        HookBackground, TLC

CONSTANTS r1, r2, r3, g1, e1, e2, e3, d1, d2, n1, n2

LaunchedByHost == [r \in Run |-> IF r = r1 THEN NoSession ELSE g1]
RetiresFirst == d1 :> {e1} @@ d2 :> {}
AddsThird == d1 :> {e3} @@ d2 :> {e1}
FirstJob == n1 :> {1} @@ n2 :> {}
SecondNamesFirst == n1 :> {} @@ n2 :> {n1}
FirstGoesFirst == n1 :> 1 @@ n2 :> 2
SecondIsOther == [r \in Request |-> IF r = 2 THEN "other" ELSE "one"]

VARIABLE part

AllInit ==
    /\ part \in {"lock", "knowledge", "cleanup", "erasure", "batch", "hooks"}
    /\ LockInit /\ KnowInit /\ CleanInit /\ EraseInit /\ BatchInit /\ Init
    /\ part # "cleanup" => side = "none" /\ blocked = "no"
AllNext ==
    /\ \/ part = "lock" /\ LockNext
          /\ UNCHANGED <<vars, knowVars, cleanVars, eraseVars, batchVars>>
       \/ part = "knowledge" /\ KnowNext
          /\ UNCHANGED <<vars, lockVars, cleanVars, eraseVars, batchVars>>
       \/ part = "cleanup" /\ CleanNext
          /\ UNCHANGED <<vars, lockVars, knowVars, eraseVars, batchVars>>
       \/ part = "erasure" /\ EraseNext
          /\ UNCHANGED <<vars, lockVars, knowVars, cleanVars, batchVars>>
       \/ part = "batch" /\ BatchNext
          /\ UNCHANGED <<vars, lockVars, knowVars, cleanVars, eraseVars>>
       \/ part = "hooks" /\ Next
          /\ UNCHANGED <<lockVars, knowVars, cleanVars, eraseVars, batchVars>>
    /\ UNCHANGED part
allVars == <<part, vars, lockVars, knowVars, cleanVars, eraseVars, batchVars>>

AllSpec == AllInit /\ [][AllNext]_allVars

==============================================================================
