------------------------------ MODULE StoreMigration ------------------------------
(* Which store is the authority: JSON files, until an operator migrates them    *)
(* into a database, or that database. Servers choose when they start and keep   *)
(* to it; a migration builds a staging copy beside them, validates it, and puts *)
(* it in place only when nothing was committed meanwhile; what fails afterwards *)
(* is rolled back.                                                              *)
EXTENDS Naturals, Integers, FiniteSets

CONSTANTS Record, Server, Run, \* the migrations, one after the other
          MaxWrites            \* bound: writes of all the servers

ASSUME StoreAssumption == Run \subseteq Nat /\ MaxWrites \in Nat \ {0}

VARIABLES
    files,   \* the version of each record's JSON file
    db,      \* the database
    mode,    \* what the runtime state file says
    server,  \* what each server has opened
    run,     \* the migration at work
    receipt, \* what each migration's receipt says
    writes,
    late     \* records written to files that no validation has seen

storeVars == <<files, db, mode, server, run, receipt, writes, late>>

None == 0
Torn == -1
Version == Torn .. MaxWrites
Rows == [Record -> 0 .. MaxWrites]
Empty == [r \in Record |-> None]
(* row: the entities. copied: the payloads as the last migration copied them.   *)
(* runs: the migrations whose tables it has. said: the last version that a      *)
(* server was told is committed, None when it was deleted.                      *)
NoDb == [there |-> "no", row |-> Empty, copied |-> Empty, runs |-> {}, said |-> [r \in Record |-> Torn]]
NewDb == [NoDb EXCEPT !.there = "yes"]
Content(d) == [row |-> d.row, copied |-> d.copied, runs |-> d.runs]
Idle == [at |-> "idle", id |-> 0, had |-> "no", before |-> "none", start |-> Content(NoDb), staged |-> Content(NoDb),
         fits |-> "yes", active |-> "no"]

StoreTypeOK ==
    /\ files \in [Record -> Version]
    /\ db.there \in {"no", "yes"} /\ db.row \in Rows /\ db.copied \in Rows /\ db.runs \subseteq Run
    /\ db.said \in [Record -> Version]
    /\ mode \in {"none", "canonical", "degraded"}
    /\ server \in [Server -> {"down", "fallback", "canonical", "moved"}]
    /\ run.at \in {"idle", "snapshot", "payloads", "entities", "validate", "compare", "activate", "state", "finish",
                   "rollback", "aside", "restore"}
    /\ receipt \in [Run -> {"none", "in_progress", "succeeded", "failed", "kept"}]
    /\ writes \in 0 .. MaxWrites /\ late \subseteq Record

StoreInit ==
    /\ files \in {f \in [Record -> {None, 1}] : TRUE} /\ db = NoDb /\ mode = "none"
    /\ server = [s \in Server |-> "down"] /\ run = Idle /\ receipt = [i \in Run |-> "none"]
    /\ writes = 1 /\ late = {}

Legacy == {r \in Record : files[r] # None}
Invalid == \E r \in Record : files[r] = Torn
------------------------------------------------------------------------------
(* A server starts: with a database it uses it, whatever the files hold; with   *)
(* files alone it stays with them; with neither it creates the database.        *)
Boot(s) ==
    /\ server[s] = "down"
    /\ LET kind == IF db.there = "yes" \/ Legacy = {} THEN "canonical" ELSE "fallback"
       IN  /\ server' = [server EXCEPT ![s] = kind]
           /\ mode' = IF kind = "canonical" THEN "canonical" ELSE "degraded"
           /\ db' = IF kind = "canonical" /\ db.there = "no" THEN NewDb ELSE db
    /\ UNCHANGED <<files, run, receipt, writes, late>>
Halt(s) ==
    /\ server[s] # "down" /\ server' = [server EXCEPT ![s] = "down"]
    /\ UNCHANGED <<files, db, mode, run, receipt, writes, late>>

(* Writes and deletions go where the server was opened; a write to a file is    *)
(* not atomic, and one that its server does not survive leaves it torn.         *)
Unseen(r) == late' = IF run.at \in {"compare", "activate", "state", "finish", "rollback", "aside", "restore"} \/ db.there = "yes"
                     THEN late \cup {r} ELSE late
SaveFile(s, r, v) ==
    /\ server[s] = "fallback" /\ writes < MaxWrites /\ writes' = writes + 1
    /\ v \in {writes + 1, Torn, None} /\ files' = [files EXCEPT ![r] = v] /\ Unseen(r)
    /\ server' = IF v = Torn THEN [server EXCEPT ![s] = "down"] ELSE server
    /\ UNCHANGED <<db, mode, run, receipt>>
SaveRow(s, r, v) ==
    /\ server[s] = "canonical" /\ writes < MaxWrites /\ writes' = writes + 1
    /\ v \in {writes + 1, None} /\ (v = None => db.row[r] # None)
    /\ db' = [db EXCEPT !.row[r] = v, !.said[r] = v]
    /\ UNCHANGED <<files, mode, server, run, receipt, late>>
------------------------------------------------------------------------------
(* How the doctor compares the files with the entities of a database, and when  *)
(* it offers the migration.                                                     *)
Relation(d) ==
    IF Invalid THEN "invalid_legacy"
    ELSE IF \E r \in Legacy : d.row[r] = None THEN "legacy_missing_in_canonical"
    ELSE IF mode # "canonical" /\ \E r \in Legacy : d.row[r] # files[r] THEN "content_conflict"
    ELSE "safe"
Advised ==
    /\ Relation(db) \notin {"invalid_legacy", "content_conflict"}
    /\ \/ db.there = "no"
       \/ mode = "degraded"
       \/ Relation(db) = "legacy_missing_in_canonical"

(* A migration notes the store as it finds it, and its receipt, first of all.   *)
Begin(i, ok) ==
    /\ run.at = "idle" /\ receipt[i] = "none" /\ (\A j \in Run : j < i => receipt[j] # "none") /\ Advised
    /\ receipt' = [receipt EXCEPT ![i] = IF ok = "yes" THEN "in_progress" ELSE "failed"]
    /\ run' = IF ok = "yes" THEN [Idle EXCEPT !.at = "snapshot", !.id = i, !.had = db.there, !.before = mode,
                                              !.start = Content(db)] ELSE Idle
    /\ UNCHANGED <<files, db, mode, server, writes, late>>
Snapshot ==
    /\ run.at = "snapshot" /\ run' = [run EXCEPT !.at = "payloads", !.staged = Content(db)]
    /\ UNCHANGED <<files, db, mode, server, receipt, writes, late>>

Fails == run' = [run EXCEPT !.at = "rollback"]
(* The files are read three times; each reading refuses what it cannot parse.   *)
Copied(old) == [r \in Record |-> IF r \in Legacy THEN files[r] ELSE old[r]]
Payloads ==
    /\ run.at = "payloads"
    /\ IF Invalid THEN Fails
       ELSE run' = [run EXCEPT !.at = "entities", !.staged.copied = Copied(@), !.staged.runs = @ \cup {run.id},
                               !.fits = IF Copied(run.staged.copied) = files THEN "yes" ELSE "no"]
    /\ UNCHANGED <<files, db, mode, server, receipt, writes, late>>
(* Mutant of Imported: what the files say replaces what the database has.       *)
ImportedOver(old) == [r \in Record |-> IF r \in Legacy THEN files[r] ELSE old[r]]
Imported(old) == [r \in Record |-> IF r \in Legacy /\ old[r] = None THEN files[r] ELSE old[r]]
Entities ==
    /\ run.at = "entities"
    /\ IF Invalid THEN Fails
       ELSE run' = [run EXCEPT !.at = "validate", !.staged.row = Imported(@)]
    /\ UNCHANGED <<files, db, mode, server, receipt, writes, late>>
Validate ==
    /\ run.at = "validate"
    /\ IF run.fits = "no" \/ Relation(run.staged) # "safe" THEN Fails
       ELSE run' = [run EXCEPT !.at = "compare"]
    /\ UNCHANGED <<files, db, mode, server, receipt, writes, late>>
Unchanged == Content(db) = run.start /\ db.there = run.had
Compare ==
    /\ run.at = "compare" /\ IF Unchanged THEN run' = [run EXCEPT !.at = "activate"] ELSE Fails
    /\ UNCHANGED <<files, db, mode, server, receipt, writes, late>>

(* An existing database is compared and filled in one transaction; a new one    *)
(* comes to be by a link that fails when there is one by now.                   *)
Activate ==
    /\ run.at = "activate"
    /\ IF Unchanged
       THEN /\ db' = [db EXCEPT !.there = "yes", !.row = run.staged.row, !.copied = run.staged.copied, !.runs = run.staged.runs]
            /\ run' = [run EXCEPT !.at = "state", !.active = "yes"]
       ELSE Fails /\ UNCHANGED db
    /\ UNCHANGED <<files, mode, server, receipt, writes, late>>
WriteState(ok) ==
    /\ run.at = "state"
    /\ IF ok = "yes" THEN mode' = "canonical" /\ run' = [run EXCEPT !.at = "finish"] ELSE Fails /\ UNCHANGED mode
    /\ UNCHANGED <<files, db, server, receipt, writes, late>>
Finish(ok) ==
    /\ run.at = "finish"
    /\ IF ok = "yes" THEN run' = Idle /\ receipt' = [receipt EXCEPT ![run.id] = "succeeded"] ELSE Fails /\ UNCHANGED receipt
    /\ UNCHANGED <<files, db, mode, server, writes, late>>
------------------------------------------------------------------------------
(* A rollback replaces only what the migration itself has put there: rows that  *)
(* a server has committed since keep the database as it is. Tables that only    *)
(* the migration created stay.                                                  *)
Mine == db.there = "yes" /\ Content(db) = run.staged
Ends(how) == /\ run' = Idle /\ receipt' \in {[receipt EXCEPT ![run.id] = how], receipt}
Rollback ==
    /\ run.at = "rollback"
    /\ IF run.active = "yes" /\ db.there = "yes" /\ ~Mine
       THEN Ends("kept") /\ UNCHANGED db
       ELSE /\ UNCHANGED receipt
            /\ IF run.active = "yes" /\ run.had = "yes"
               THEN /\ run' = [run EXCEPT !.at = "restore"]
                    /\ db' = IF run.start.runs = {} THEN [db EXCEPT !.row = run.start.row]
                             ELSE [db EXCEPT !.row = run.start.row, !.copied = run.start.copied, !.runs = run.start.runs]
               ELSE run' = [run EXCEPT !.at = IF run.active = "yes" THEN "aside" ELSE "restore"] /\ UNCHANGED db
    /\ UNCHANGED <<files, mode, server, writes, late>>
(* A database that did not exist before is moved away, with those who have it   *)
(* open.                                                                        *)
SetAside ==
    /\ run.at = "aside" /\ run' = [run EXCEPT !.at = "restore"] /\ db' = NoDb
    /\ server' = [s \in Server |-> IF server[s] = "canonical" THEN "moved" ELSE server[s]]
    /\ UNCHANGED <<files, mode, receipt, writes, late>>
Restore ==
    /\ run.at = "restore" /\ mode' = run.before /\ Ends("failed")
    /\ UNCHANGED <<files, db, server, writes, late>>
Die ==
    /\ run.at # "idle" /\ run' = Idle
    /\ UNCHANGED <<files, db, mode, server, receipt, writes, late>>

StoreNext ==
    \/ \E s \in Server : Boot(s) \/ Halt(s)
    \/ \E s \in Server, r \in Record, v \in Version : SaveFile(s, r, v) \/ SaveRow(s, r, v)
    \/ \E i \in Run, ok \in {"yes", "no"} : Begin(i, ok)
    \/ Snapshot \/ Payloads \/ Entities \/ Validate \/ Compare \/ Activate
    \/ \E ok \in {"yes", "no"} : WriteState(ok) \/ Finish(ok)
    \/ Rollback \/ SetAside \/ Restore \/ Die
StoreSpec == StoreInit /\ [][StoreNext]_storeVars
------------------------------------------------------------------------------
(* What a server was told is committed is there, whichever migration failed,    *)
(* died or succeeded since, as long as the database is.                         *)
CommittedStays == db.there = "yes" => \A r \in Record : db.said[r] > None => db.row[r] = db.said[r]
(* A database is what every server uses that starts from now on: no record of   *)
(* the files is missing from it, but those that a server wrote to a file behind *)
(* the validation, and those that were deleted from the database.               *)
NothingLeftBehind ==
    db.there = "yes" => \A r \in Legacy \ late : db.row[r] # None \/ db.said[r] = None
AuthorityIsWhole == StoreTypeOK /\ CommittedStays /\ NothingLeftBehind
==============================================================================
