------------------------------- MODULE Erasure -------------------------------
(* Hard deletion of a session's evidence against the capture of the same        *)
(* session.  An erasure plans the closure of everything that was derived from   *)
(* the selected revisions, leaves an in-progress receipt that doubles as a      *)
(* tombstone, deletes the structured records one at a time, then the search     *)
(* observation, then the ledger rows in one transaction, and reads everything   *)
(* back before its receipt says succeeded.  A capture checks the tombstones     *)
(* first and stores revision, observation and job in separate steps; a review   *)
(* looks at what it derives a record from, waits for the model's answer and     *)
(* writes the record without another look.                                      *)
EXTENDS Naturals, FiniteSets, Sequences, SequencesExt

CONSTANTS
    MaxRev,      \* revisions the session goes through, in the order of capture
    Record,      \* structured records derived from the session
    JobsOf,      \* the revisions whose jobs a record names
    Observers,   \* the records that name the search observation
    RefsOf,      \* the records that a record names
    OrderOf,     \* the order in which the collections are deleted
    Capturer,    \* processes that capture the session
    MaxErase,    \* bound on erasures
    MaxErrors    \* bound on crashes and failing operations

Rev == 1..MaxRev

ASSUME ErasureAssumption ==
    /\ MaxRev \in Nat \ {0} /\ MaxErase \in Nat /\ MaxErrors \in Nat
    /\ OrderOf \in [Record -> Nat]
    /\ \A r \in Record : JobsOf[r] \subseteq Rev /\ RefsOf[r] \subseteq Record
    /\ Observers \subseteq Record

VARIABLES
    hostRev,     \* the revision the host's file has
    held,        \* revisions of the ledger
    current,     \* the source row's revision; 0 without a source row
    job,         \* revisions that have a job
    obs,         \* the revision of the search observation; 0 when there is none
    record,      \* structured records that exist
    reviewing,   \* records whose reviews have looked and not written yet
    erasures,    \* the deletion receipts: scope, cutoff and status
    eraser,      \* the running erasure
    capture,     \* each capturing process
    raced,       \* a capture overlapped an erasure, or a review its read-back
    broken,      \* an earlier erasure did not succeed
    errors

eraseVars == <<hostRev, held, current, job, obs, record, reviewing, erasures, eraser,
               capture, raced, broken, errors>>

NoErasure == [at |-> "idle", revs |-> {}, recs |-> {}, obs |-> "keep"]
NoCapture == [at |-> "idle", rev |-> 0, stored |-> "no", found |-> "no"]

EraseTypeOK ==
    /\ hostRev \in Rev
    /\ held \subseteq Rev
    /\ current \in 0..MaxRev
    /\ job \subseteq Rev
    /\ obs \in 0..MaxRev
    /\ record \subseteq Record /\ reviewing \subseteq Record
    /\ \A i \in DOMAIN erasures :
          erasures[i] \in [scope : {"session", "before"}, cut : 0..MaxRev + 1,
                           status : {"in_progress", "partial_failure", "succeeded", "skipped"}]
    /\ eraser \in [at : {"idle", "records", "observation", "ledger", "verify"},
                   revs : SUBSET Rev, recs : SUBSET Record, obs : {"keep", "drop"}]
    /\ capture \in [Capturer -> [at : {"idle", "save", "observe", "enqueue"},
                                 rev : 0..MaxRev, stored : {"yes", "no"},
                                 found : {"yes", "no"}]]
    /\ raced \in {"yes", "no"} /\ broken \in {"yes", "no"}
    /\ errors \in 0..MaxErrors

EraseInit ==
    /\ hostRev = 1 /\ held = {} /\ current = 0 /\ job = {} /\ obs = 0 /\ record = {}
    /\ reviewing = {}
    /\ erasures = <<>>
    /\ eraser = NoErasure
    /\ capture = [p \in Capturer |-> NoCapture]
    /\ raced = "no" /\ broken = "no" /\ errors = 0

Err == errors < MaxErrors /\ errors' = errors + 1
------------------------------------------------------------------------------
(* Capture.                                                                     *)

(* Mutant of Tombstoned: only a finished erasure counts.                        *)
OnlySucceeded ==
    \E i \in DOMAIN erasures :
        erasures[i].scope = "session" /\ erasures[i].status = "succeeded"

(* Receipts of a whole session forbid recapture, the unfinished and failed ones *)
(* included; retention cutoffs and erasures that found nothing do not.          *)
Tombstoned ==
    \E i \in DOMAIN erasures :
        erasures[i].scope = "session" /\ erasures[i].status # "skipped"

HostGrows ==
    /\ hostRev < MaxRev
    /\ hostRev' = hostRev + 1
    /\ UNCHANGED <<reviewing, held, current, job, obs, record, erasures, eraser, capture,
                   raced, broken, errors>>

(* What is stored already is read here, and acted upon in the later steps.      *)
ReadNative(p) ==
    /\ capture[p].at = "idle"
    /\ ~Tombstoned
    /\ capture' = [capture EXCEPT ![p] =
                      [at |-> "save", rev |-> hostRev,
                       stored |-> IF current = hostRev THEN "yes" ELSE "no",
                       found |-> IF obs = hostRev THEN "yes" ELSE "no"]]
    /\ raced' = IF eraser.at # "idle" THEN "yes" ELSE raced
    /\ UNCHANGED <<reviewing, hostRev, held, current, job, obs, record, erasures, eraser,
                   broken, errors>>

SaveSnapshot(p) ==
    /\ capture[p].at = "save"
    /\ capture' = [capture EXCEPT ![p].at = "observe"]
    /\ IF capture[p].stored = "yes"
       THEN UNCHANGED <<held, current>>
       ELSE held' = held \cup {capture[p].rev} /\ current' = capture[p].rev
    /\ UNCHANGED <<reviewing, hostRev, job, obs, record, erasures, eraser, raced, broken, errors>>

SaveObservation(p) ==
    /\ capture[p].at = "observe"
    /\ capture' = [capture EXCEPT ![p].at = "enqueue"]
    /\ obs' = IF capture[p].found = "yes" THEN obs ELSE capture[p].rev
    /\ UNCHANGED <<reviewing, hostRev, held, current, job, record, erasures, eraser,
                   raced, broken, errors>>

(* The job is for the source row's revision; without a row the capture fails.   *)
EnqueueJob(p) ==
    /\ capture[p].at = "enqueue"
    /\ capture' = [capture EXCEPT ![p] = NoCapture]
    /\ job' = IF current = 0 THEN job ELSE job \cup {current}
    /\ UNCHANGED <<reviewing, hostRev, held, current, obs, record, erasures, eraser,
                   raced, broken, errors>>

CaptureDies(p) ==
    /\ capture[p].at # "idle"
    /\ Err
    /\ capture' = [capture EXCEPT ![p] = NoCapture]
    /\ UNCHANGED <<reviewing, hostRev, held, current, job, obs, record, erasures, eraser,
                   raced, broken>>

(* A review looks for the jobs, the records and the observation that its record *)
(* will name, and asks the model.                                               *)
BeginReview(r) ==
    /\ r \notin record \cup reviewing
    /\ JobsOf[r] \subseteq job
    /\ RefsOf[r] \subseteq record
    /\ r \in Observers => obs # 0
    /\ reviewing' = reviewing \cup {r}
    /\ UNCHANGED <<hostRev, held, current, job, obs, record, erasures, eraser, capture,
                   raced, broken, errors>>

(* Its answer is written, whatever has become of those, or there is none.       *)
EndReview(r) ==
    /\ r \in reviewing
    /\ reviewing' = reviewing \ {r}
    /\ record' \in {record, record \cup {r}}
    /\ UNCHANGED <<hostRev, held, current, job, obs, erasures, eraser, capture,
                   raced, broken, errors>>
------------------------------------------------------------------------------
(* Erasure.                                                                     *)

(* What the closure starts from: the jobs of revisions, the observation or not, *)
(* and records that are gone already.                                           *)
Linked(r, revs, drop, recs) ==
    \/ JobsOf[r] \cap revs # {}
    \/ r \in Observers /\ drop = "drop"
    \/ RefsOf[r] \cap recs # {}

(* Mutant of ClosureOf: direct links only.                                      *)
DirectOnly(revs, drop, recs) == {r \in record : Linked(r, revs, drop, recs)}

(* The smallest set of existing records that has every record linked to the     *)
(* seeds or to a member: what the plan's loop arrives at.                       *)
ClosureOf(revs, drop, recs) ==
    LET closed(S) == \A r \in record : Linked(r, revs, drop, recs \cup S) => r \in S
    IN {r \in record : \A S \in SUBSET record : closed(S) => r \in S}

(* A session's erasure takes every revision, a retention what is older.         *)
Selected(scope, cut) == IF scope = "session" THEN held ELSE {v \in held : v < cut}

(* The observation goes with the revision it renders.                           *)
ObsOf(revs) == IF obs # 0 /\ obs \in revs THEN "drop" ELSE "keep"

PlanErasure(scope, cut) ==
    /\ eraser.at = "idle"
    /\ Len(erasures) < MaxErase
    /\ LET revs == Selected(scope, cut)
       IN /\ eraser' = [at |-> IF revs = {} THEN "idle" ELSE "records",
                        revs |-> revs,
                        recs |-> ClosureOf(job \cap revs, ObsOf(revs), {}),
                        obs |-> ObsOf(revs)]
          /\ erasures' = Append(erasures,
                           [scope |-> scope, cut |-> cut,
                            status |-> IF revs = {} THEN "skipped" ELSE "in_progress"])
    /\ raced' = IF \E p \in Capturer : capture[p].at # "idle" THEN "yes" ELSE raced
    /\ UNCHANGED <<reviewing, hostRev, held, current, job, obs, record, capture, broken, errors>>

(* Collection by collection.                                                    *)
DeleteRecord ==
    /\ eraser.at = "records"
    /\ LET left == eraser.recs \cap record
       IN IF left = {}
          THEN eraser' = [eraser EXCEPT !.at = "observation"] /\ UNCHANGED record
          ELSE /\ \E r \in left : /\ \A s \in left : OrderOf[r] <= OrderOf[s]
                                  /\ record' = record \ {r}
               /\ UNCHANGED eraser
    /\ UNCHANGED <<reviewing, hostRev, held, current, job, obs, erasures, capture,
                   raced, broken, errors>>

DeleteObservation ==
    /\ eraser.at = "observation"
    /\ obs' = IF eraser.obs = "drop" THEN 0 ELSE obs
    /\ eraser' = [eraser EXCEPT !.at = "ledger"]
    /\ UNCHANGED <<reviewing, hostRev, held, current, job, record, erasures, capture,
                   raced, broken, errors>>

(* Mutant of Newest: the source row keeps its revision.                         *)
KeepsRevision(revs) == IF revs = {} THEN 0 ELSE current

(* One transaction: the rows go, and the source row goes back to the revision   *)
(* that was captured last among those that are left.                            *)
Newest(revs) == IF revs = {} THEN 0 ELSE CHOOSE v \in revs : \A w \in revs : w <= v

DeleteRevisions ==
    /\ eraser.at = "ledger"
    /\ held' = held \ eraser.revs
    /\ job' = job \ eraser.revs
    /\ current' = IF current = 0 THEN 0 ELSE Newest(held \ eraser.revs)
    /\ eraser' = [eraser EXCEPT !.at = "verify"]
    /\ UNCHANGED <<reviewing, hostRev, obs, record, erasures, capture, raced, broken, errors>>

(* Mutant of Residue: only the ledger is looked at.                             *)
LedgerOnly(e) == e.revs \cap (held \cup job) # {}

(* The plan is made again: neither what the first one selected nor what the     *)
(* second one finds may exist, and nothing may name what is gone.               *)
Residue(e) ==
    LET last == erasures[Len(erasures)]
        revs == e.revs \cup Selected(last.scope, last.cut)
        drop == IF e.obs = "drop" THEN "drop" ELSE ObsOf(revs)
    IN \/ revs \cap (held \cup job) # {}
       \/ drop = "drop" /\ obs # 0
       \/ ClosureOf(revs, drop, e.recs) # {}

Verify ==
    /\ eraser.at = "verify"
    /\ erasures' = [erasures EXCEPT ![Len(erasures)].status =
                       IF Residue(eraser) THEN "partial_failure" ELSE "succeeded"]
    /\ eraser' = NoErasure
    /\ broken' = IF Residue(eraser) THEN "yes" ELSE broken
    /\ raced' = IF reviewing # {} THEN "yes" ELSE raced
    /\ UNCHANGED <<hostRev, held, current, job, obs, record, reviewing, capture, errors>>

(* An operation fails: the receipt says so.                                     *)
ErasureFails ==
    /\ eraser.at \notin {"idle", "verify"}
    /\ Err
    /\ erasures' = [erasures EXCEPT ![Len(erasures)].status = "partial_failure"]
    /\ eraser' = NoErasure
    /\ broken' = "yes"
    /\ UNCHANGED <<reviewing, hostRev, held, current, job, obs, record, capture, raced>>

(* The process dies: its receipt stays in progress.                             *)
EraserDies ==
    /\ eraser.at # "idle"
    /\ Err
    /\ eraser' = NoErasure
    /\ broken' = "yes"
    /\ UNCHANGED <<reviewing, hostRev, held, current, job, obs, record, erasures, capture, raced>>

EraseNext ==
    \/ HostGrows
    \/ \E p \in Capturer : ReadNative(p) \/ SaveSnapshot(p) \/ SaveObservation(p)
                           \/ EnqueueJob(p) \/ CaptureDies(p)
    \/ \E r \in Record : BeginReview(r) \/ EndReview(r)
    \/ PlanErasure("session", 0)
    \/ \E cut \in 2..MaxRev : PlanErasure("before", cut)
    \/ DeleteRecord \/ DeleteObservation \/ DeleteRevisions \/ Verify
    \/ ErasureFails \/ EraserDies

EraseSpec == EraseInit /\ [][EraseNext]_eraseVars
------------------------------------------------------------------------------
(* The source row always names a revision that the ledger holds, and jobs       *)
(* belong to such revisions: erasing a range never strands either.              *)
PointersHold ==
    /\ current # 0 => current \in held
    /\ current = 0 => held = {}
    /\ job \subseteq held

(* Once a session is erased with success nothing of it comes back, provided no  *)
(* capture overlapped an erasure (was past its tombstone check when one began,  *)
(* or ran beside a retention), no review was waiting for its answer when an     *)
(* erasure was read back, and every earlier erasure succeeded.                  *)
ErasedAll ==
    \E i \in DOMAIN erasures :
        erasures[i].scope = "session" /\ erasures[i].status = "succeeded"

ErasedStaysErased ==
    ErasedAll /\ raced = "no" /\ broken = "no" =>
        held = {} /\ job = {} /\ obs = 0 /\ record = {}

(* Both: no erasure strands what is left, and none is undone behind its back.   *)
ErasureHolds == EraseTypeOK /\ PointersHold /\ ErasedStaysErased
==============================================================================
