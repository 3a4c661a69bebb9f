---------------------------- MODULE JobLifecycle ----------------------------
(***************************************************************************)
(* What the distill ledger promises about a captured revision, without     *)
(* leases, workers, retries or queues: it is read chunk by chunk, may cost *)
(* a bounded number of recoveries, completes only when it was read, and is *)
(* forgotten only when a revision of its session has completed.            *)
(***************************************************************************)
EXTENDS Integers

CONSTANTS Source, Revision, Chunk, RecoveryBudget

VARIABLE life   \* what became of every revision

Job == Source \X Revision

Life == [phase : {"none", "open", "done", "failed"},
         read  : SUBSET Chunk,          \* chunks whose reading is recorded
         spent : 0..RecoveryBudget,
         text  : {"kept", "pruned"}]    \* the captured evidence

Init ==
    life = [j \in Job |-> [phase |-> "none", read |-> {}, spent |-> 0, text |-> "kept"]]

Opens(x, y) ==
    x.phase = "none" /\ x.text = "kept" /\ y = [x EXCEPT !.phase = "open"]

Reads(x, y) ==
    /\ x.phase = "open" /\ x.text = "kept"
    /\ \E c \in Chunk \ x.read : y = [x EXCEPT !.read = @ \cup {c}]

Charged(x) == [x EXCEPT !.spent = @ + 1]

Recovers(x, y) ==
    /\ x.phase = "open"
    /\ x.spent + 1 < RecoveryBudget
    /\ y = Charged(x)

Fails(x, y) ==
    /\ x.phase = "open"
    /\ x.spent + 1 = RecoveryBudget
    /\ y = [Charged(x) EXCEPT !.phase = "failed"]

Completes(x, y) ==
    /\ x.phase = "open" /\ x.text = "kept"
    /\ x.read = Chunk
    /\ y = [x EXCEPT !.phase = "done"]

Moves(x, y) == Opens(x, y) \/ Reads(x, y) \/ Recovers(x, y) \/ Fails(x, y) \/ Completes(x, y)

Forgotten(x) == [phase |-> x.phase, read |-> {}, spent |-> x.spent, text |-> "pruned"]

\* Any number of jobs move on, each by one move.
Work ==
    /\ life' \in [Job -> Life]
    /\ \A j \in Job : life'[j] = life[j] \/ Moves(life[j], life'[j])

\* A session is forgotten, with all its revisions that were ever captured.
Forget(s) ==
    /\ \E r \in Revision : life[<<s, r>>].phase = "done"
    /\ life' \in [Job -> Life]
    /\ \A j \in Job :
          \/ j[1] = s /\ life'[j] = Forgotten(life[j])
          \/ (j[1] = s => life[j].phase = "none") /\ life'[j] = life[j]

Next == Work \/ \E s \in Source : Forget(s)

Spec == Init /\ [][Next]_life
=============================================================================
