-------------------------- MODULE MCDistillLedger --------------------------
(* The ledger while sessions are revised, the capture of a session that its     *)
(* host goes on writing, and the store's migration from files to a database,    *)
(* side by side: a behaviour is one of the three.                               *)
EXTENDS DistillLedger, StoreMigration, NativeCapture, TLC

\* A line of the host's before anything was asked, a question, its answer.
ShortSession == <<"host", "assistant", "user", "tool", "assistant">>

VARIABLE part

AllInit ==
    /\ part \in {"ledger", "migration", "capture"}
    /\ Init /\ StoreInit /\ CaptureInit
    /\ part # "migration" => files = [r \in Record |-> None]
    /\ part # "capture" => host = "codex" /\ native.evidence = "mine"
AllNext ==
    /\ \/ part = "ledger" /\ Next /\ UNCHANGED <<storeVars, captureVars>>
       \/ part = "migration" /\ StoreNext /\ UNCHANGED <<vars, captureVars>>
       \/ part = "capture" /\ CaptureNext /\ UNCHANGED <<vars, storeVars>>
    /\ UNCHANGED part
AllSpec == AllInit /\ [][AllNext]_<<part, vars, storeVars, captureVars>>

\* Contents, chunks and sources are interchangeable; workers are not.
Symmetry == Permutations(Revision) \cup Permutations(Chunk) \cup Permutations(Source)
=============================================================================
