--------------------------------- MODULE MCQueue --------------------------------
(* The ledger of one job with two chunks, and of two sources with one job each, *)
(* and what feeds the queue and reports on it, scans of a host's sessions,      *)
(* requests of its turns and its archives, side by side: they share no state    *)
(* here, and a behaviour is one of any of them.                                 *)
EXTENDS DistillLedger, PostTurn, ArchiveDistill, SessionScan, TLC

CONSTANTS q1, q2, a1, a2, first, second, k1,
          Parts,  \* the protocols of the run
          Reader, Budget

OwnSession == [r \in HookRequest \cup Archiver |->
                  CASE r = q2 -> "second" [] r = a1 -> "archived" [] OTHER -> "first"]

ScanSetups ==
    {[limit |-> 1, broken |-> {}, calm |-> "yes", scanners |-> {"p1"}],
     [limit |-> 2, broken |-> {2}, calm |-> "no", scanners |-> {"p1"}],
     [limit |-> 2, broken |-> {}, calm |-> "yes", scanners |-> {"p1", "p2"}]}

VARIABLES part, rows, evidences, pairJob, seens, frozens

\* Who works beside the first client: an archive of another session, one of the
\* same session, or a second client, whose Dreams are then one slice each.
Companion == [turns |-> a1, again |-> a2, clients |-> q2]
TurnBounds ==
    /\ \A r \in Runner \ {q1, Companion[part]} : turn'[r] = turn[r]
    /\ \A r \in HookRequest \ {q1, Companion[part]} : wait'[r] = wait[r]
    /\ part = "clients" => \A r \in Runner : turn'[r].tries = 0 /\ turn'[r].slices = 0

(* Two sources with one chunk each, whose jobs compete for the queue.           *)
Pair == INSTANCE DistillLedger WITH
            Source <- {first, second}, Chunk <- {k1}, Worker <- Reader, RecoveryBudget <- Budget,
            row <- rows, evidence <- evidences, job <- pairJob, seen <- seens, frozen <- frozens
pairVars == <<rows, evidences, pairJob, seens, frozens>>

AllInit ==
    /\ part \in Parts /\ TurnInit /\ Init /\ Pair!Init /\ ArchiveInit /\ ScanInit
    /\ \A s \in Sessions : part \notin DOMAIN Companion \/ s # "first" => work[s] = "queued"
    /\ part # "archive" => /\ \A s \in Archive \ Foreign : archives[s] = "gone" /\ index[s] = NoEntry
                          /\ runReceipts = {} /\ \A s \in Foreign : index[s].version = k1
    /\ part # "scan" => /\ session = [s \in Session |-> "unborn"]
                       /\ setup.limit = 1 /\ setup.watched = 1
AllNext ==
    /\ \/ part = "chunks" /\ Next /\ UNCHANGED <<pairVars, turnVars, archiveVars, scanVars>>
       \/ part = "pair" /\ Pair!Next /\ UNCHANGED <<vars, turnVars, archiveVars, scanVars>>
       \/ part \in DOMAIN Companion /\ TurnNext /\ TurnBounds
             /\ UNCHANGED <<vars, pairVars, archiveVars, scanVars>>
       \/ part = "archive" /\ ArchiveNext /\ UNCHANGED <<vars, pairVars, turnVars, scanVars>>
       \/ part = "scan" /\ ScanNext /\ UNCHANGED <<vars, pairVars, turnVars, archiveVars>>
    /\ UNCHANGED part
AllSpec == AllInit /\ [][AllNext]_<<part, vars, pairVars, turnVars, archiveVars, scanVars>>

(* A published manual selection never meets a live background lease, whichever  *)
(* of its jobs it is (freeze_manual_selection).                                 *)
SelectionIsExclusive == Pair!FrozenIsExclusive

(* The two sources of the pair are interchangeable.                             *)
EitherSource == Permutations({first, second})
==============================================================================
