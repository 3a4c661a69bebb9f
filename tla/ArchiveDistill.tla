----------------------------- MODULE ArchiveDistill -----------------------------
(* A batch over archived sessions: it reads its index of terminal sessions and  *)
(* the archives, takes the maintenance lock, repairs old records, distills what *)
(* is selected, verifies every outcome again, and writes the index as a whole.  *)
(* Jobs are completed by agents meanwhile, archives change, and a batch can die.*)
EXTENDS Naturals, FiniteSets, Functions

CONSTANTS
    Invoker,    \* command lines that run batches, one after the other each
    Archive,    \* archived sessions
    Foreign,    \* those of another project than the one the batches are run in
    Version,    \* revisions of an archive's conversation
    Silent      \* revisions without a conversation

VARIABLES
    index,      \* the terminal index
    runReceipts,\* outcomes kept in receipts of runs that did not pass as a whole
    ledgerDay,  \* sessions the day's ledger has as processed
    archives,   \* what each archive file holds: a revision, or "gone"
    synced,     \* the current revision of each session in the transcript ledger
    jobs,       \* the distill job of each revision of each session
    holder,     \* who holds the maintenance lock
    batch       \* each invoker's batch

archiveVars == <<index, runReceipts, ledgerDay, archives, synced, jobs, holder, batch>>

NoEntry == [is |-> "none", version |-> "none"]
Entries == {NoEntry} \cup [is : {"verified", "quarantined"}, version : Version]
Outcomes == [session : Archive, version : Version \cup {"gone"},
             status : {"completed", "deferred", "succeeded"}, empty : {"yes", "no"}]
NoBatch == [at |-> "idle", row |-> "none", found |-> "none", ledger |-> {},
            sessions |-> [s \in Archive |-> NoEntry], seen |-> [s \in Archive |-> "gone"],
            selected |-> {}, outcomes |-> {}, passed |-> {}]

Done == {"completed", "cleaned"}

ArchiveTypeOK ==
    /\ index \in [Archive -> Entries] /\ runReceipts \subseteq Outcomes /\ ledgerDay \subseteq Archive
    /\ archives \in [Archive -> Version \cup {"gone"}] /\ synced \in [Archive -> Version \cup {"none"}]
    /\ jobs \in [Archive -> [Version -> {"none", "queued", "leased", "retryable", "stale"} \cup Done]]
    /\ holder \in Invoker \cup {"nobody", "dead"}
    /\ \A p \in Invoker :
          /\ batch[p].outcomes \subseteq Outcomes
          /\ batch[p].ledger \cup batch[p].passed \subseteq Archive

(* Older runs have left records: of another project, of a session that was set  *)
(* aside, and a receipt whose outcome has never been admitted to the index.     *)
ArchiveInit ==
    /\ index \in [Archive -> Entries]
    /\ \A s \in Archive : index[s].version \notin Silent /\ (s \in Foreign <=> index[s].is = "verified")
    /\ jobs = [s \in Archive |-> [k \in Version |->
                  IF index[s].version = k THEN IF s \in Foreign THEN "completed" ELSE "queued" ELSE "none"]]
    /\ runReceipts \in SUBSET [session : Archive \ Foreign, version : Version \ Silent,
                               status : {"completed"}, empty : {"no"}]
    /\ Cardinality(runReceipts) <= 1
    /\ archives \in [Archive -> Version \cup {"gone"}] /\ \A s \in Foreign : archives[s] = "gone"
    /\ synced = [s \in Archive |-> IF index[s] = NoEntry THEN "none" ELSE index[s].version]
    /\ ledgerDay = {} /\ holder = "nobody" /\ batch = [p \in Invoker |-> NoBatch]
------------------------------------------------------------------------------
BatchGo(p, b) == batch' = [batch EXCEPT ![p] = b]
Stores == <<index, runReceipts, ledgerDay>>
World == <<archives, synced, jobs>>

OpenRun(p) ==
    /\ batch[p].at = "idle"
    /\ BatchGo(p, [NoBatch EXCEPT !.at = "inventory", !.ledger = ledgerDay, !.sessions = index])
    /\ UNCHANGED <<Stores, World, holder>>

(* An archive whose entry is about its present revision is not eligible.  Only  *)
(* the entries of this project are looked at.                                   *)
Matches(b, s, k) == b.sessions[s].is # "none" /\ b.sessions[s].version = k

Inventory(p) ==
    /\ batch[p].at = "inventory"
    /\ LET live == {s \in Archive \ Foreign : archives[s] # "gone"}
       IN  \E repairOnly \in BOOLEAN :
             BatchGo(p, [batch[p] EXCEPT !.at = "lock", !.seen = archives,
                       !.selected = IF repairOnly THEN {}
                                    ELSE {s \in live : ~Matches(batch[p], s, archives[s])}])
    /\ UNCHANGED <<Stores, World, holder>>

TakeLock(p) ==
    /\ batch[p].at = "lock"
    /\ IF holder \in {"nobody", "dead"}
       THEN holder' = p /\ BatchGo(p, [batch[p] EXCEPT !.at = "repair"])
       ELSE holder' = holder /\ BatchGo(p, NoBatch)
    /\ UNCHANGED <<Stores, World>>

VersionOf(s, outcomes) == (CHOOSE o \in outcomes : o.session = s).version

(* What a verification reads again.  A selected archive must still hold the     *)
(* bytes of the job, or be gone because its cleanup has removed it; an old      *)
(* record without a selection is taken without its source.                      *)
SourceHolds(s, k, selected) ==
    IF jobs[s][k] = "cleaned" THEN archives[s] = "gone"
    ELSE ~selected \/ (synced[s] = k /\ archives[s] = k)
(* Mutant of JobHolds: the outcome's word that the job is complete is enough.     *)
OutcomeSaysSo(o, selected) ==
    /\ o.status = "completed" /\ o.version \in Version
    /\ SourceHolds(o.session, o.version, selected)

JobHolds(o, selected) ==
    /\ o.status = "completed" /\ o.version \in Version
    /\ jobs[o.session][o.version] \in Done
    /\ SourceHolds(o.session, o.version, selected)
EmptyHolds(o) ==
    /\ archives[o.session] = o.version /\ o.version \in Silent
    /\ \A k \in Version : jobs[o.session][k] = "none"
Verifies(o, selected) == IF o.empty = "yes" THEN EmptyHolds(o) ELSE JobHolds(o, selected)

Repairable(b, o) ==
    /\ o.status = "completed" /\ o.session \notin Foreign
    /\ b.seen[o.session] \in {"gone", o.version}
    /\ \/ b.sessions[o.session] = NoEntry
       \/ b.sessions[o.session] = [is |-> "quarantined", version |-> o.version]

SetAside(b, s) ==
    /\ s \notin Foreign /\ b.sessions[s].is = "quarantined"
    /\ b.seen[s] \in {"gone", b.sessions[s].version}

(* Records of completed jobs that were set aside are admitted if they verify;   *)
(* the note and the knowledge of a job may fail to, whatever is modelled here.  *)
Repair(p) ==
    /\ batch[p].at = "repair"
    /\ LET b == batch[p]
           fromReceipts == {o \in runReceipts : Repairable(b, o) /\ Verifies(o, TRUE)}
       IN  \E admitted \in SUBSET fromReceipts :
           LET mended == [s \in Archive |->
                           IF \E o \in admitted : o.session = s
                           THEN [is |-> "verified",
                                 version |-> VersionOf(s, admitted)]
                           ELSE b.sessions[s]]
               completed == {s \in Archive : /\ SetAside([b EXCEPT !.sessions = mended], s)
                                             /\ jobs[s][mended[s].version] \in Done
                                             /\ SourceHolds(s, mended[s].version, FALSE)}
           IN  \E again \in SUBSET completed :
                 BatchGo(p, [b EXCEPT !.at = "conflicts",
                           !.sessions = [s \in Archive |->
                               IF s \in again THEN [mended[s] EXCEPT !.is = "verified"] ELSE mended[s]]])
    /\ UNCHANGED <<Stores, World, holder>>

(* Somebody else's live lease blocks the batch; only a receipt says so.         *)
Conflicts(p) ==
    /\ batch[p].at = "conflicts"
    /\ IF \E s \in batch[p].selected, k \in Version : jobs[s][k] = "leased"
       THEN holder' = "nobody" /\ BatchGo(p, NoBatch)
       ELSE holder' = holder /\ BatchGo(p, [batch[p] EXCEPT !.at = "rows"])
    /\ UNCHANGED <<Stores, World>>
------------------------------------------------------------------------------
Took(b, s, k, status, empty) ==
    [b EXCEPT !.selected = @ \ {s}, !.at = "rows", !.row = "none", !.found = "none",
              !.outcomes = @ \cup {[session |-> s, version |-> k, status |-> status, empty |-> empty]}]

(* One selected archive: one without a conversation is complete as it is; one   *)
(* that cannot be read or is not authorised is put off.                         *)
TakeRow(p, s) ==
    /\ batch[p].at = "rows" /\ s \in batch[p].selected
    /\ LET b == batch[p]
       IN  \/ archives[s] \in Silent /\ BatchGo(p, Took(b, s, archives[s], "completed", "yes"))
           \/ BatchGo(p, Took(b, s, b.seen[s], "deferred", "no"))
    /\ UNCHANGED <<Stores, World, holder>>

(* Otherwise it is captured, which makes older jobs of the session stale.       *)
Sync(p, s) ==
    /\ batch[p].at = "rows" /\ s \in batch[p].selected
    /\ archives[s] \in Version \ Silent
    /\ LET k == archives[s]
       IN  /\ jobs' = [jobs EXCEPT ![s] = [j \in Version |->
                          IF j = k THEN IF @[j] = "none" THEN "queued" ELSE @[j]
                          ELSE IF @[j] \in Done \cup {"none"} THEN @[j] ELSE "stale"]]
           /\ synced' = [synced EXCEPT ![s] = k]
           /\ BatchGo(p, IF jobs'[s][k] = "retryable" THEN Took(batch[p], s, k, "deferred", "no")
                    ELSE [batch[p] EXCEPT !.at = "job", !.row = s, !.found = jobs'[s][k]])
    /\ UNCHANGED <<Stores, archives, holder>>

(* A job that was complete is verified before its source may be cleaned up.     *)
Replay(p) ==
    /\ batch[p].at = "job" /\ batch[p].found \in Done
    /\ LET s == batch[p].row
           k == synced[s]
           holds == SourceHolds(s, k, TRUE)
       IN  \E status \in IF holds THEN {"completed", "deferred"} ELSE {"deferred"} :
             /\ BatchGo(p, Took(batch[p], s, k, status, "no"))
             /\ \/ UNCHANGED World
                \/ /\ status = "completed" /\ jobs[s][k] = "completed"
                   /\ jobs' = [jobs EXCEPT ![s][k] = "cleaned"]
                   /\ archives' = [archives EXCEPT ![s] = "gone"]
                   /\ UNCHANGED synced
    /\ UNCHANGED <<Stores, holder>>

(* The worker's batch of one.  A job that has been completed by somebody else   *)
(* meanwhile is replayed there, without an outcome of its own.  A systemic      *)
(* failure ends the batch with what it has.                                     *)
Distill(p) ==
    /\ batch[p].at = "job" /\ batch[p].found \notin Done
    /\ LET s == batch[p].row
           k == synced[s]
       IN
       \/ /\ jobs[s][k] \in Done
          /\ BatchGo(p, Took(batch[p], s, k, "succeeded", "no")) /\ UNCHANGED World
       \/ /\ jobs[s][k] = "queued"
          /\ \E st \in Done : /\ jobs' = [jobs EXCEPT ![s][k] = st]
                              /\ archives' = IF st = "cleaned" THEN [archives EXCEPT ![s] = "gone"] ELSE archives
          /\ BatchGo(p, Took(batch[p], s, k, "completed", "no")) /\ UNCHANGED synced
       \/ /\ jobs[s][k] \notin Done
          /\ jobs' = IF jobs[s][k] = "queued" THEN [jobs EXCEPT ![s][k] = "retryable"] ELSE jobs
          /\ \/ BatchGo(p, Took(batch[p], s, k, "deferred", "no"))
             \/ BatchGo(p, [Took(batch[p], s, k, "deferred", "no") EXCEPT !.selected = {}])
          /\ UNCHANGED <<archives, synced>>
    /\ UNCHANGED <<Stores, holder>>

(* Every outcome is read back; a completed one that does not verify is put off. *)
VerifyRun(p) ==
    /\ batch[p].at = "rows" /\ batch[p].selected = {}
    /\ LET b == batch[p]
           sound == {o \in b.outcomes : Verifies(o, TRUE)}
       IN  \E ok \in SUBSET sound :
             BatchGo(p, [b EXCEPT !.at = "ledger", !.passed = {o.session : o \in ok},
                       !.outcomes = {IF o \in ok \/ o.status # "completed" THEN o
                                     ELSE [o EXCEPT !.status = "deferred"] : o \in b.outcomes}])
    /\ UNCHANGED <<Stores, World, holder>>

(* The day's ledger, like the index, is written back as it was read before the  *)
(* lock was taken; what another batch has added meanwhile is lost.              *)
WriteLedger(p) ==
    /\ batch[p].at = "ledger"
    /\ ledgerDay' = batch[p].ledger \cup batch[p].passed
    /\ BatchGo(p, [batch[p] EXCEPT !.at = "index"])
    /\ UNCHANGED <<index, runReceipts, World, holder>>

(* Mutant of TerminalSessions: only the entries this project sees are kept.     *)
ScopedSessions(b) ==
    [s \in Archive |-> IF s \in b.passed
                       THEN [is |-> "verified",
                             version |-> VersionOf(s, b.outcomes)]
                       ELSE IF s \in Foreign THEN NoEntry ELSE b.sessions[s]]

TerminalSessions(b) ==
    [s \in Archive |-> IF s \in b.passed
                       THEN [is |-> "verified",
                             version |-> VersionOf(s, b.outcomes)]
                       ELSE b.sessions[s]]

WriteIndex(p) ==
    /\ batch[p].at = "index"
    /\ index' = TerminalSessions(batch[p])
    /\ BatchGo(p, [batch[p] EXCEPT !.at = "receipt"])
    /\ UNCHANGED <<runReceipts, ledgerDay, World, holder>>

WriteReceipt(p) ==
    /\ batch[p].at = "receipt"
    /\ runReceipts' = IF {o.session : o \in batch[p].outcomes} = batch[p].passed THEN runReceipts
                      ELSE runReceipts \cup {o \in batch[p].outcomes : o.status = "completed"}
    /\ holder' = "nobody" /\ BatchGo(p, NoBatch)
    /\ UNCHANGED <<index, ledgerDay, World>>

BatchDies(p) ==
    /\ batch[p].at # "idle" /\ BatchGo(p, NoBatch)
    /\ holder' = IF holder = p THEN "dead" ELSE holder
    /\ UNCHANGED <<Stores, World>>
------------------------------------------------------------------------------
(* Agents lease, complete and put off jobs; the host rewrites archives.         *)
AgentWorks(s, k) ==
    /\ \/ jobs[s][k] = "queued" /\ jobs' = [jobs EXCEPT ![s][k] = "leased"]
       \/ jobs[s][k] = "leased" /\ \E st \in {"completed", "retryable"} : jobs' = [jobs EXCEPT ![s][k] = st]
       \/ jobs[s][k] = "retryable" /\ jobs' = [jobs EXCEPT ![s][k] = "queued"]
    /\ UNCHANGED <<Stores, archives, synced, holder, batch>>

ArchiveChanges(s) ==
    /\ s \notin Foreign
    /\ \E k \in (Version \cup {"gone"}) \ {archives[s]} : archives' = [archives EXCEPT ![s] = k]
    /\ UNCHANGED <<Stores, synced, jobs, holder, batch>>

ArchiveNext ==
    \/ \E p \in Invoker :
          \/ OpenRun(p) \/ Inventory(p) \/ TakeLock(p) \/ Repair(p) \/ Conflicts(p)
          \/ \E s \in Archive \ Foreign : TakeRow(p, s) \/ Sync(p, s)
          \/ Replay(p) \/ Distill(p) \/ VerifyRun(p) \/ WriteLedger(p) \/ WriteIndex(p) \/ WriteReceipt(p) \/ BatchDies(p)
    \/ \E s \in Archive \ Foreign : ArchiveChanges(s) \/ \E k \in Version : AgentWorks(s, k)

ArchiveSpec == ArchiveInit /\ [][ArchiveNext]_archiveVars
------------------------------------------------------------------------------
(* A verified entry is about a completed job or an archive without conversation *)
(* (_verify_archive_distill_run, _repair_partial_completed_receipts).           *)
VerifiedIsDone ==
    \A s \in Archive : index[s].is = "verified" =>
        jobs[s][index[s].version] \in Done \/ index[s].version \in Silent

(* No write of the index takes its verdict from a verified session; verified    *)
(* entries of other projects stay as they are (run_archive_distill_batch).      *)
RecordsRemain ==
    [][\A s \in Archive : index[s].is = "verified" =>
          index'[s].is = "verified" /\ (s \in Foreign => index'[s] = index[s])]_archiveVars
==============================================================================
