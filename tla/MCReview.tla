-------------------------------- MODULE MCReview --------------------------------
(* The review of a job, the planning inside of it, and Dream's rechecks of what  *)
(* is known: a behaviour is one of any of them.                                  *)
EXTENDS SessionReview, AssimilationPlan, Dream, TLC

CONSTANTS k1, k2, same, less

TwoAlike == 1 :> same @@ 2 :> same @@ 3 :> Unused

VARIABLE part

Init ==
    /\ part \in {"review", "plan", "dream"}
    /\ ReviewInit /\ PlanInit /\ DreamInit
Next ==
    /\ \/ part = "review" /\ ReviewNext /\ UNCHANGED <<planVars, dreamVars>>
       \/ part = "plan" /\ PlanNext /\ UNCHANGED <<reviewVars, dreamVars>>
       \/ part = "dream" /\ DreamNext /\ UNCHANGED <<reviewVars, planVars>>
    /\ UNCHANGED part
Spec == Init /\ [][Next]_<<part, reviewVars, planVars, dreamVars>>

Symmetric == Permutations(Worker) \cup Permutations(Candidate)
             \cup Permutations(Point) \cup Permutations(Truth)
==============================================================================
