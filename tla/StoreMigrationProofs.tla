-------------------------- MODULE StoreMigrationProofs --------------------------
(* No migration loses what the database has been told, or leaves behind what    *)
(* the files have, for any records, servers, migrations and number of writes.   *)
EXTENDS StoreMigration, TLAPS

Contents == [row : Rows, copied : Rows, runs : SUBSET Run]
Databases == [there : {"no", "yes"}, row : Rows, copied : Rows, runs : SUBSET Run,
              said : [Record -> Version]]
Phases == {"idle", "snapshot", "payloads", "entities", "validate", "compare", "activate",
           "state", "finish", "rollback", "aside", "restore"}
Modes == {"none", "canonical", "degraded"}
Migrations == [at : Phases, id : Run \cup {0}, had : {"no", "yes"}, before : Modes,
               start : Contents, staged : Contents, fits : {"no", "yes"}, active : {"no", "yes"}]

Built == {"payloads", "entities", "validate", "compare", "activate"}
Checked == {"compare", "activate"}
InPlace == {"state", "finish", "rollback"}

\* Every version there is has been written.
VersionsWritten ==
    \A r \in Record : /\ files[r] <= writes /\ db.row[r] <= writes
                      /\ run.start.row[r] <= writes /\ run.staged.row[r] <= writes

\* A server that uses the database has one, and of one that is not there nothing
\* was said.
DatabaseIsThere ==
    /\ \A s \in Server : server[s] = "canonical" => db.there = "yes"
    /\ db.there = "no" => \A r \in Record : db.said[r] = Torn

\* What is staged has what the database has had all along, and once validated
\* what the files had then.
StagedKeeps ==
    run.at \in Built =>
        \A r \in Record : db.row[r] # None /\ db.row[r] = run.start.row[r]
                             => run.staged.row[r] = db.row[r]
StagedCovers ==
    run.at \in Checked => \A r \in Legacy \ late : run.staged.row[r] # None

\* What was put in place of is as good as what was staged, but for records that
\* a server has written since.
WrittenSince(r) == db.said[r] > None /\ db.said[r] # run.staged.row[r]
StartIsGood(r) ==
    /\ db.said[r] > None => run.start.row[r] = db.said[r]
    /\ r \in Legacy \ late => run.start.row[r] # None \/ db.said[r] = None
CanBePutBack ==
    /\ run.at \in Built \cup {"snapshot"} => run.active = "no"
    /\ run.at \in InPlace /\ run.active = "yes" =>
          /\ db.there = "yes"
          /\ run.had = "yes" => \A r \in Record : WrittenSince(r) \/ StartIsGood(r)

StoreInv ==
    /\ StoreTypeOK
    /\ db \in Databases /\ run \in Migrations
    /\ run.at # "idle" => run.id \in Run
    /\ VersionsWritten
    /\ DatabaseIsThere
    /\ StagedKeeps
    /\ StagedCovers
    /\ CanBePutBack
    /\ CommittedStays
    /\ NothingLeftBehind
-----------------------------------------------------------------------------
(* The numbers of versions, without anything else. *)
LEMMA VersionFacts ==
  /\ None \in 0 .. MaxWrites /\ 0 .. MaxWrites \subseteq Version /\ Torn \in Version
  /\ 1 \in 0 .. MaxWrites
  /\ Torn # None /\ ~(Torn > None) /\ ~(None > None)
  /\ \A n \in Version : /\ n # Torn => n \in 0 .. MaxWrites
                        /\ n > None => n # None /\ n # Torn
  /\ \A n \in 0 .. MaxWrites :
        /\ n # None => n > None
        /\ None <= n /\ Torn <= n /\ n <= n
        /\ n < MaxWrites => n + 1 \in 0 .. MaxWrites /\ n + 1 > None /\ n <= n + 1 /\ n + 1 <= n + 1
  /\ \A n \in 0 .. MaxWrites, m \in Version : m <= n => m # n + 1 /\ m <= n + 1
  BY StoreAssumption DEF None, Torn, Version

(* The types of the records. *)
LEMMA ContentTypes ==
  ASSUME NEW d \in Databases
  PROVE  /\ Content(d) \in Contents
         /\ Content(d).row = d.row /\ Content(d).copied = d.copied /\ Content(d).runs = d.runs
  BY DEF Content, Contents, Databases

\* What a missing and a new database and an idle migration contain.
LEMMA FreshTypes ==
  /\ NoDb \in Databases /\ NoDb.there = "no" /\ NewDb \in Databases /\ NewDb.there = "yes"
  /\ \A r \in Record : NoDb.row[r] = None /\ NewDb.row[r] = None
                       /\ NoDb.said[r] = Torn /\ NewDb.said[r] = Torn
  /\ Idle \in Migrations /\ Idle.at = "idle" /\ Idle.active = "no"
  /\ \A r \in Record : Idle.start.row[r] = None /\ Idle.staged.row[r] = None
  <1>1. Empty \in Rows /\ \A r \in Record : Empty[r] = None
    BY VersionFacts DEF Empty, Rows
  <1>2. /\ NoDb \in Databases /\ NoDb.there = "no" /\ NewDb \in Databases /\ NewDb.there = "yes"
        /\ NoDb.row = Empty /\ NewDb.row = Empty
        /\ \A r \in Record : NoDb.said[r] = Torn /\ NewDb.said[r] = Torn
    BY <1>1, VersionFacts DEF NoDb, NewDb, Databases
  <1>3. Content(NoDb) \in Contents /\ Content(NoDb).row = Empty
    BY <1>2, ContentTypes
  <1>4. Idle \in Migrations /\ Idle.at = "idle" /\ Idle.active = "no"
        /\ Idle.start = Content(NoDb) /\ Idle.staged = Content(NoDb)
    BY <1>3 DEF Idle, Migrations, Phases, Modes
  <1>5. QED
    BY <1>1, <1>2, <1>3, <1>4

\* One row, and what was said of it.
WithRow(r, v) == [db EXCEPT !.row = [db.row EXCEPT ![r] = v], !.said = [db.said EXCEPT ![r] = v]]

\* Writing one row leaves the other rows as they are.
LEMMA RowSets ==
  ASSUME db \in Databases, NEW r \in Record, NEW v \in 0 .. MaxWrites
  PROVE  /\ WithRow(r, v) \in Databases /\ WithRow(r, v).there = db.there
         /\ \A q \in Record : /\ WithRow(r, v).row[q] = IF q = r THEN v ELSE db.row[q]
                              /\ WithRow(r, v).said[q] = IF q = r THEN v ELSE db.said[q]
  <1>1. /\ [db.row EXCEPT ![r] = v] \in Rows
        /\ [db.said EXCEPT ![r] = v] \in [Record -> Version]
        /\ \A q \in Record : /\ [db.row EXCEPT ![r] = v][q] = IF q = r THEN v ELSE db.row[q]
                             /\ [db.said EXCEPT ![r] = v][q] = IF q = r THEN v ELSE db.said[q]
    BY VersionFacts DEF Databases, Rows
  <1>2. QED
    BY <1>1 DEF WithRow, Databases

\* The contents of another database, what was said staying said.
Filled(c) == [db EXCEPT !.there = "yes", !.row = c.row, !.copied = c.copied, !.runs = c.runs]
Replaced(c) == IF c.runs = {} THEN [db EXCEPT !.row = c.row]
               ELSE [db EXCEPT !.row = c.row, !.copied = c.copied, !.runs = c.runs]

\* Activation and restoring replace the rows, and not what servers were told.
LEMMA ContentSets ==
  ASSUME db \in Databases, NEW c \in Contents
  PROVE  /\ Filled(c) \in Databases /\ Filled(c).there = "yes"
         /\ Filled(c).row = c.row /\ Filled(c).said = db.said
         /\ Replaced(c) \in Databases /\ Replaced(c).there = db.there
         /\ Replaced(c).row = c.row /\ Replaced(c).said = db.said
  BY DEF Filled, Replaced, Databases, Contents

\* A migration that only goes on, and one that has staged something.
GoneOn(p) == [run EXCEPT !.at = p]
Staging(p, c) == [run EXCEPT !.at = p, !.staged = c]

\* A migration that goes on keeps its snapshot and its staging copy.
LEMMA PhaseSets ==
  ASSUME run \in Migrations, NEW p \in Phases
  PROVE  /\ GoneOn(p) \in Migrations /\ GoneOn(p).at = p
         /\ GoneOn(p).start = run.start /\ GoneOn(p).staged = run.staged
         /\ GoneOn(p).id = run.id /\ GoneOn(p).had = run.had /\ GoneOn(p).active = run.active
  BY DEF GoneOn, Migrations

\* Work on the staging copy leaves the snapshot alone.
LEMMA StagingSets ==
  ASSUME run \in Migrations, NEW p \in Phases, NEW c \in Contents
  PROVE  /\ Staging(p, c) \in Migrations /\ Staging(p, c).at = p
         /\ Staging(p, c).start = run.start /\ Staging(p, c).staged = c
         /\ Staging(p, c).id = run.id /\ Staging(p, c).had = run.had /\ Staging(p, c).active = run.active
  BY DEF Staging, Migrations
-----------------------------------------------------------------------------
\* The kinds of steps.  The migration is at p then, with c staged.
RunTo(p, c) ==
    /\ run' \in Migrations /\ run'.at = p /\ run'.staged = c
    /\ run'.id = run.id /\ run'.start = run.start /\ run'.had = run.had /\ run'.active = run.active
Opened == \A s \in Server : server'[s] = "canonical" => server[s] = "canonical"
Elsewhere == UNCHANGED <<files, writes, late>>

Quiet ==
    /\ Elsewhere /\ UNCHANGED <<db, run>>
    /\ db.there = "yes" \/ Opened
Creates == Elsewhere /\ run' = run /\ db.there = "no" /\ db' = NewDb /\ Legacy = {}
FileWritten(r) ==
    /\ writes < MaxWrites /\ writes' = writes + 1
    /\ \E v \in {writes + 1, Torn, None} : files' = [files EXCEPT ![r] = v]
    /\ late' = IF run.at \in Checked \cup InPlace \cup {"aside", "restore"} \/ db.there = "yes"
               THEN late \cup {r} ELSE late
    /\ UNCHANGED <<db, run>> /\ Opened
RowWritten(r) ==
    /\ writes < MaxWrites /\ writes' = writes + 1
    /\ db.there = "yes"
    /\ \E v \in {writes + 1, None} : db' = WithRow(r, v)
    /\ UNCHANGED <<files, run, late, server>>
Stops == Elsewhere /\ UNCHANGED <<db, server>> /\ run' = Idle
Starts ==
    /\ Elsewhere /\ UNCHANGED <<db, server>>
    /\ run' \in Migrations /\ run'.at = "snapshot" /\ run'.active = "no" /\ run'.id \in Run
    /\ run'.start = Content(db) /\ \A r \in Record : run'.staged.row[r] = None
Stages ==
    /\ Elsewhere /\ UNCHANGED <<db, server>>
    /\ \/ run.at = "snapshot" /\ RunTo("payloads", Content(db))
       \/ run.at = "payloads" /\ \E c \in Contents : RunTo("entities", c) /\ c.row = run.staged.row
       \/ run.at = "entities" /\ \E c \in Contents :
             /\ RunTo("validate", c) /\ c.row = Imported(run.staged.row)
             /\ \A r \in Record : files[r] # Torn
GoesOn ==
    /\ Elsewhere /\ UNCHANGED <<db, server>>
    /\ \/ RunTo("rollback", run.staged) /\ (run.at \notin Built => run.at \in InPlace)
       \/ /\ run.at = "validate" /\ RunTo("compare", run.staged)
          /\ \A r \in Legacy : run.staged.row[r] # None
       \/ run.at = "compare" /\ RunTo("activate", run.staged)
       \/ run.at = "state" /\ RunTo("finish", run.staged)
       \/ run.at = "rollback" /\ \E p \in {"aside", "restore"} : RunTo(p, run.staged)
Activates ==
    /\ Elsewhere /\ UNCHANGED server
    /\ run.at = "activate" /\ Content(db) = run.start /\ db.there = run.had
    /\ db' = Filled(run.staged)
    /\ run' \in Migrations /\ run'.at = "state" /\ run'.id = run.id /\ run'.start = run.start
    /\ run'.staged = run.staged /\ run'.had = run.had
PutsBack ==
    /\ Elsewhere /\ UNCHANGED server
    /\ run.at = "rollback" /\ run.active = "yes" /\ run.had = "yes"
    /\ db.there = "yes" => Content(db) = run.staged
    /\ db' = Replaced(run.start)
    /\ RunTo("restore", run.staged)
MovesAway ==
    /\ Elsewhere /\ run.at = "aside" /\ RunTo("restore", run.staged) /\ db' = NoDb
    /\ \A s \in Server : server'[s] # "canonical"

StoreMoves ==
    \/ Quiet \/ Creates \/ \E r \in Record : FileWritten(r) \/ RowWritten(r)
    \/ Stops \/ Starts \/ Stages \/ GoesOn \/ Activates \/ PutsBack \/ MovesAway

StoreTypes ==
    /\ StoreTypeOK /\ db \in Databases /\ run \in Migrations
    /\ run.at # "idle" => run.id \in Run

(* Every step is of one of these kinds. *)
LEMMA EveryMove ==
  ASSUME StoreTypes, DatabaseIsThere, [StoreNext]_storeVars
  PROVE  StoreMoves
  <1> USE DEF StoreTypes
  <1>1. ASSUME NEW s \in Server, Boot(s) PROVE StoreMoves
    <2>1. CASE db.there = "no" /\ Legacy = {}
      BY <1>1, <2>1 DEF Boot, StoreMoves, Creates, Elsewhere
    <2>2. CASE ~(db.there = "no" /\ Legacy = {})
      <3>1. db' = db
        BY <1>1, <2>2 DEF Boot
      <3>2. db.there = "yes" \/ Opened
        BY <1>1, <2>2 DEF Boot, Opened, StoreTypeOK
      <3>3. QED
        BY <1>1, <3>1, <3>2 DEF Boot, StoreMoves, Quiet, Elsewhere
    <2>3. QED
      BY <2>1, <2>2
  <1>2. ASSUME NEW s \in Server, Halt(s) PROVE StoreMoves
    <2>1. Opened
      BY <1>2 DEF Halt, Opened, StoreTypeOK
    <2>2. QED
      BY <1>2, <2>1 DEF Halt, StoreMoves, Quiet, Elsewhere
  <1>3. ASSUME NEW s \in Server, NEW r \in Record, NEW v \in Version, SaveFile(s, r, v)
        PROVE  StoreMoves
    <2>1. Opened
      BY <1>3 DEF SaveFile, Opened, StoreTypeOK
    <2>2. FileWritten(r)
      BY <1>3, <2>1 DEF SaveFile, Unseen, FileWritten, Checked, InPlace
    <2>3. QED
      BY <2>2 DEF StoreMoves
  <1>4. ASSUME NEW s \in Server, NEW r \in Record, NEW v \in Version, SaveRow(s, r, v)
        PROVE  StoreMoves
    <2>1. db' = WithRow(r, v)
      BY <1>4 DEF SaveRow, WithRow, Databases
    <2>2. db.there = "yes"
      BY <1>4 DEF SaveRow, DatabaseIsThere
    <2>3. RowWritten(r)
      BY <1>4, <2>1, <2>2 DEF SaveRow, RowWritten
    <2>4. QED
      BY <2>3 DEF StoreMoves
  <1>5. ASSUME NEW i \in Run, NEW ok \in {"yes", "no"}, Begin(i, ok) PROVE StoreMoves
    <2>1. CASE run' = Idle
      BY <1>5, <2>1 DEF Begin, StoreMoves, Stops, Elsewhere
    <2>2. CASE run' = [Idle EXCEPT !.at = "snapshot", !.id = i, !.had = db.there,
                                   !.before = mode, !.start = Content(db)]
      <3>1. /\ run' \in Migrations /\ run'.at = "snapshot" /\ run'.active = Idle.active /\ run'.id = i
            /\ run'.start = Content(db) /\ run'.staged = Idle.staged
        <4>1. /\ Idle \in Migrations /\ Content(db) \in Contents
              /\ "snapshot" \in Phases /\ db.there \in {"no", "yes"} /\ mode \in Modes
          BY FreshTypes, ContentTypes DEF Phases, Modes, StoreTypeOK
        <4>2. run' \in Migrations
          BY ONLY <2>2, <4>1, i \in Run DEF Migrations
        <4>3. /\ run'.at = "snapshot" /\ run'.active = Idle.active /\ run'.id = i
              /\ run'.start = Content(db) /\ run'.staged = Idle.staged
          BY ONLY <2>2, <4>1 DEF Migrations
        <4> QED
          BY ONLY <4>2, <4>3
      <3>2. QED
        BY <1>5, <3>1, FreshTypes DEF Begin, StoreMoves, Starts, Elsewhere
    <2>3. QED
      BY <1>5, <2>1, <2>2 DEF Begin
  <1>6. CASE Snapshot
    <2>1. run' = Staging("payloads", Content(db))
      BY <1>6 DEF Snapshot, Staging
    <2>2. RunTo("payloads", Content(db))
      BY <2>1, StagingSets, ContentTypes DEF RunTo, Phases
    <2>3. QED
      BY <1>6, <2>2 DEF Snapshot, StoreMoves, Stages, Elsewhere
  <1>7. ASSUME Fails, Elsewhere, UNCHANGED <<db, server>>, run.at \notin Built => run.at \in InPlace
        PROVE  StoreMoves
    <2>1. RunTo("rollback", run.staged)
      BY <1>7, PhaseSets DEF Fails, GoneOn, RunTo, Phases
    <2>2. QED
      BY <1>7, <2>1 DEF StoreMoves, GoesOn
  <1>8. ASSUME Payloads, ~Fails PROVE StoreMoves
    <2> DEFINE c == [run.staged EXCEPT !.copied = Copied(run.staged.copied),
                                       !.runs = run.staged.runs \cup {run.id}]
               f == IF Copied(run.staged.copied) = files THEN "yes" ELSE "no"
    <2>1. ~Invalid /\ run' = [Staging("entities", c) EXCEPT !.fits = f]
      BY <1>8, ZenonT(60) DEF Payloads, Staging, Migrations, Contents
    <2>2. Copied(run.staged.copied) \in Rows
      BY <2>1, VersionFacts, ZenonT(60) DEF Copied, Invalid, Legacy, StoreTypeOK, Migrations,
         Contents, Rows
    <2>3. c \in Contents /\ c.row = run.staged.row
      BY <2>2, <1>8 DEF Contents, Migrations, Payloads
    <2>4. f \in {"yes", "no"}
      OBVIOUS
    <2> HIDE DEF c, f
    <2>5. RunTo("entities", c)
      BY <2>1, <2>3, <2>4, StagingSets DEF RunTo, Migrations, Phases
    <2>6. QED
      BY <1>8, <2>3, <2>5 DEF Payloads, StoreMoves, Stages, Elsewhere
  <1>9. ASSUME Entities, ~Fails PROVE StoreMoves
    <2> DEFINE c == [run.staged EXCEPT !.row = Imported(run.staged.row)]
    <2>1. ~Invalid /\ run' = Staging("validate", c)
      BY <1>9 DEF Entities, Staging, Migrations, Contents
    <2>2. Imported(run.staged.row) \in Rows
      BY <2>1, VersionFacts DEF Imported, Invalid, Legacy, StoreTypeOK, Migrations,
         Contents, Rows
    <2>3. c \in Contents /\ c.row = Imported(run.staged.row)
      BY <2>2 DEF Contents, Migrations
    <2> HIDE DEF c
    <2>4. RunTo("validate", c)
      BY <2>1, <2>3, StagingSets DEF RunTo, Phases
    <2>5. \A r \in Record : files[r] # Torn
      BY <2>1 DEF Invalid
    <2>6. QED
      BY <1>9, <2>3, <2>4, <2>5 DEF Entities, StoreMoves, Stages, Elsewhere
  <1>10. ASSUME NEW p \in Phases, run' = [run EXCEPT !.at = p] PROVE RunTo(p, run.staged)
    BY <1>10, PhaseSets DEF GoneOn, RunTo
  <1>11. ASSUME Validate, ~Fails PROVE StoreMoves
    <2>1. RunTo("compare", run.staged)
      BY <1>10, <1>11 DEF Validate, Phases
    <2>2. \A r \in Legacy : run.staged.row[r] # None
      BY <1>11 DEF Validate, Relation
    <2>3. QED
      BY <1>11, <2>1, <2>2 DEF Validate, StoreMoves, GoesOn, Elsewhere
  <1>12. ASSUME Compare, ~Fails PROVE StoreMoves
    <2>1. RunTo("activate", run.staged)
      BY <1>10, <1>12 DEF Compare, Phases
    <2>2. QED
      BY <1>12, <2>1 DEF Compare, StoreMoves, GoesOn, Elsewhere
  <1>13. ASSUME Activate, ~Fails PROVE StoreMoves
    <2>1. /\ db' = Filled(run.staged)
          /\ run' = [run EXCEPT !.at = "state", !.active = "yes"]
      BY <1>13 DEF Activate, Filled
    <2>2. /\ run' \in Migrations /\ run'.at = "state" /\ run'.id = run.id /\ run'.start = run.start
          /\ run'.staged = run.staged /\ run'.had = run.had
      BY <2>1 DEF Migrations, Phases
    <2>3. QED
      BY <1>13, <2>1, <2>2 DEF Activate, Unchanged, StoreMoves, Activates, Elsewhere
  <1>14. ASSUME NEW ok \in {"yes", "no"}, WriteState(ok), ~Fails PROVE StoreMoves
    <2>1. RunTo("finish", run.staged)
      BY <1>10, <1>14 DEF WriteState, Phases
    <2>2. QED
      BY <1>14, <2>1 DEF WriteState, StoreMoves, GoesOn, Elsewhere
  <1>15. ASSUME NEW ok \in {"yes", "no"}, Finish(ok), ~Fails PROVE StoreMoves
    BY <1>15 DEF Finish, StoreMoves, Stops, Elsewhere
  <1>16. CASE Rollback
    <2>1. CASE run.active = "yes" /\ db.there = "yes" /\ ~Mine
      BY <1>16, <2>1 DEF Rollback, Ends, StoreMoves, Stops, Elsewhere
    <2>2. CASE ~(run.active = "yes" /\ db.there = "yes" /\ ~Mine) /\ run.active = "yes" /\ run.had = "yes"
      <3>1. RunTo("restore", run.staged)
        BY <1>10, <1>16, <2>2 DEF Rollback, Phases
      <3>2. db' = Replaced(run.start)
        BY <1>16, <2>2 DEF Rollback, Replaced
      <3>3. QED
        BY <1>16, <2>2, <3>1, <3>2 DEF Rollback, Mine, StoreMoves, PutsBack, Elsewhere
    <2>3. CASE ~(run.active = "yes" /\ db.there = "yes" /\ ~Mine) /\ ~(run.active = "yes" /\ run.had = "yes")
      <3>1. \E p \in {"aside", "restore"} : RunTo(p, run.staged)
        BY <1>10, <1>16, <2>3 DEF Rollback, Phases
      <3>2. QED
        BY <1>16, <2>3, <3>1 DEF Rollback, StoreMoves, GoesOn, Elsewhere
    <2>4. QED
      BY <2>1, <2>2, <2>3
  <1>17. CASE SetAside
    <2>1. RunTo("restore", run.staged)
      BY <1>10, <1>17 DEF SetAside, Phases
    <2>2. \A s \in Server : server'[s] # "canonical"
      BY <1>17 DEF SetAside
    <2>3. QED
      BY <1>17, <2>1, <2>2 DEF SetAside, StoreMoves, MovesAway, Elsewhere
  <1>18. CASE Restore \/ Die
    BY <1>18 DEF Restore, Die, Ends, StoreMoves, Stops, Elsewhere
  <1>19. CASE UNCHANGED storeVars
    BY <1>19 DEF storeVars, StoreMoves, Quiet, Opened, Elsewhere
  <1>20. ASSUME Fails,
                \/ Payloads \/ Entities \/ Validate \/ Compare
                \/ \E ok \in {"yes", "no"} : WriteState(ok) \/ Finish(ok)
         PROVE  StoreMoves
    BY <1>7, <1>20 DEF Payloads, Entities, Validate, Compare, WriteState, Finish, Elsewhere,
       Built, InPlace
  <1>21. ASSUME Fails, Activate PROVE StoreMoves
    <2>1. run'.at = "rollback"
      BY <1>21, PhaseSets DEF Fails, GoneOn, Phases
    <2>2. run' # [run EXCEPT !.at = "state", !.active = "yes"]
      BY <2>1 DEF Migrations
    <2>3. QED
      BY <1>7, <1>21, <2>2 DEF Activate, Elsewhere, Built
  <1>22. QED
    BY <1>1, <1>2, <1>3, <1>4, <1>5, <1>6, <1>8, <1>9, <1>11, <1>12, <1>13, <1>14, <1>15,
       <1>16,
       <1>17, <1>18, <1>19, <1>20, <1>21 DEF StoreNext
-----------------------------------------------------------------------------
RecordsOK == db \in Databases /\ run \in Migrations /\ (run.at # "idle" => run.id \in Run)

(* The database and the migration keep their types. *)
LEMMA RecordsKept ==
  ASSUME StoreTypes, StoreMoves
  PROVE  RecordsOK'
  <1> USE DEF StoreTypes, RecordsOK
  <1>1. CASE Quiet
    BY <1>1 DEF Quiet
  <1>2. CASE Creates
    BY <1>2, FreshTypes DEF Creates
  <1>3. ASSUME NEW r \in Record, FileWritten(r) PROVE RecordsOK'
    BY <1>3 DEF FileWritten
  <1>4. ASSUME NEW r \in Record, RowWritten(r) PROVE RecordsOK'
    <2>1. \A v \in {writes + 1, None} : v \in 0 .. MaxWrites
      BY <1>4, VersionFacts DEF RowWritten, StoreTypeOK
    <2>2. QED
      BY <1>4, <2>1, RowSets DEF RowWritten
  <1>5. CASE Stops
    BY <1>5, FreshTypes DEF Stops
  <1>6. CASE Starts
    BY <1>6 DEF Starts
  <1>7. CASE Stages
    BY <1>7 DEF Stages, RunTo
  <1>8. CASE GoesOn
    <2>1. run.at # "idle"
      BY <1>8 DEF GoesOn, InPlace, Built
    <2>2. QED
      BY <1>8, <2>1 DEF GoesOn, RunTo
  <1>9. CASE Activates
    <2>1. run.staged \in Contents
      BY DEF Migrations
    <2>2. QED
      BY <1>9, <2>1, ContentSets DEF Activates
  <1>10. CASE PutsBack
    <2>1. run.start \in Contents
      BY DEF Migrations
    <2>2. QED
      BY <1>10, <2>1, ContentSets DEF PutsBack, RunTo
  <1>11. CASE MovesAway
    BY <1>11, FreshTypes DEF MovesAway, RunTo
  <1> HIDE DEF RecordsOK, StoreTypes
  <1>12. QED
    BY <1>1, <1>2, <1>3, <1>4, <1>5, <1>6, <1>7, <1>8, <1>9, <1>10, <1>11 DEF StoreMoves

\* What is neither the database nor the migration.
OthersOK ==
    /\ files \in [Record -> Version]
    /\ mode \in Modes
    /\ server \in [Server -> {"down", "fallback", "canonical", "moved"}]
    /\ receipt \in [Run -> {"none", "in_progress", "succeeded", "failed", "kept"}]
    /\ writes \in 0 .. MaxWrites /\ late \subseteq Record

\* Every step keeps the types of what is neither the database nor the
\* migration.
LEMMA OthersKept ==
  ASSUME StoreTypes, [StoreNext]_storeVars
  PROVE  OthersOK'
  <1> USE DEF StoreTypes, StoreTypeOK, OthersOK, Modes
  <1>1. ASSUME NEW s \in Server, Boot(s) PROVE OthersOK'
    BY <1>1 DEF Boot
  <1>2. ASSUME NEW s \in Server, Halt(s) PROVE OthersOK'
    BY <1>2 DEF Halt
  <1>3. ASSUME NEW s \in Server, NEW r \in Record, NEW v \in Version, SaveFile(s, r, v)
        PROVE  OthersOK'
    BY <1>3, VersionFacts DEF SaveFile, Unseen
  <1>4. ASSUME NEW s \in Server, NEW r \in Record, NEW v \in Version, SaveRow(s, r, v)
        PROVE  OthersOK'
    BY <1>4, VersionFacts DEF SaveRow
  <1>5. ASSUME NEW i \in Run, NEW ok \in {"yes", "no"}, Begin(i, ok) PROVE OthersOK'
    BY <1>5 DEF Begin
  <1>6. ASSUME Snapshot \/ Payloads \/ Entities PROVE OthersOK'
    BY <1>6 DEF Snapshot, Payloads, Entities
  <1>7. ASSUME Validate \/ Compare \/ Activate PROVE OthersOK'
    BY <1>7 DEF Validate, Compare, Activate
  <1>8. ASSUME NEW ok \in {"yes", "no"}, WriteState(ok) \/ Finish(ok) PROVE OthersOK'
    BY <1>8 DEF WriteState, Finish
  <1>9. ASSUME Rollback PROVE OthersOK'
    BY <1>9 DEF Rollback, Ends
  <1>10. ASSUME SetAside PROVE OthersOK'
    BY <1>10 DEF SetAside
  <1>11. ASSUME Restore PROVE OthersOK'
    BY <1>11 DEF Restore, Ends, Migrations
  <1>12. ASSUME Die PROVE OthersOK'
    BY <1>12 DEF Die
  <1>13. CASE UNCHANGED storeVars
    BY <1>13 DEF storeVars
  <1> HIDE DEF OthersOK
  <1>14. QED
    BY ONLY [StoreNext]_storeVars, <1>1, <1>2, <1>3, <1>4, <1>5, <1>6, <1>7, <1>8, <1>9,
       <1>10, <1>11, <1>12, <1>13 DEF StoreNext

\* Every step keeps the types.
LEMMA TypesKept ==
  ASSUME StoreTypes, StoreMoves, [StoreNext]_storeVars
  PROVE  StoreTypes'
  <1>1. RecordsOK' /\ OthersOK'
    BY RecordsKept, OthersKept
  <1>2. StoreTypeOK'
    BY <1>1 DEF StoreTypeOK, RecordsOK, OthersOK, Databases, Migrations, Phases, Modes
  <1>3. QED
    BY <1>1, <1>2 DEF StoreTypes, RecordsOK

(* The fields that the proofs below speak of. *)
LEMMA StoreFields ==
  ASSUME StoreTypes
  PROVE  /\ files \in [Record -> Version] /\ writes \in 0 .. MaxWrites /\ late \subseteq Record
         /\ db \in Databases /\ db.there \in {"no", "yes"} /\ db.row \in [Record -> 0 .. MaxWrites]
         /\ db.said \in [Record -> Version]
         /\ run \in Migrations /\ run.start \in Contents /\ run.staged \in Contents
         /\ run.start.row \in [Record -> 0 .. MaxWrites]
         /\ run.staged.row \in [Record -> 0 .. MaxWrites]
         /\ run.active \in {"no", "yes"} /\ run.had \in {"no", "yes"}
  BY DEF StoreTypes, StoreTypeOK, Databases, Migrations, Contents, Rows
-----------------------------------------------------------------------------
(* Writing a file, a row: what is there then. *)
LEMMA FileFields ==
  ASSUME StoreTypes, NEW q \in Record, FileWritten(q)
  PROVE  /\ writes' = writes + 1 /\ writes < MaxWrites /\ db' = db /\ run' = run /\ Opened
         /\ files'[q] \in {writes + 1, Torn, None}
         /\ \A r \in Record : r # q => files'[r] = files[r]
         /\ late \subseteq late' /\ late' \subseteq late \cup {q}
         /\ run.at \in Checked \cup InPlace \/ db.there = "yes" => q \in late'
         /\ Legacy' \ late' \subseteq (Legacy \ late) \cup {q}
  BY DEF FileWritten, Legacy, StoreTypes, StoreTypeOK

\* A write through the database reaches one row, and the server is told of it.
LEMMA RowFields ==
  ASSUME StoreTypes, NEW q \in Record, RowWritten(q)
  PROVE  /\ writes' = writes + 1 /\ writes < MaxWrites /\ UNCHANGED <<files, run, late, server>>
         /\ db.there = "yes" /\ db'.there = "yes"
         /\ db'.row[q] \in {writes + 1, None} /\ db'.said[q] = db'.row[q]
         /\ \A r \in Record : r # q => db'.row[r] = db.row[r] /\ db'.said[r] = db.said[r]
  <1>1. PICK v \in {writes + 1, None} : db' = WithRow(q, v)
    BY DEF RowWritten
  <1>2. v \in 0 .. MaxWrites
    BY <1>1, VersionFacts, StoreFields DEF RowWritten
  <1>3. QED
    BY <1>1, <1>2, RowSets DEF RowWritten, StoreTypes

(* What is put in place, put back or moved away. *)
LEMMA ActivatesFields ==
  ASSUME StoreTypes, Activates
  PROVE  /\ run.at = "activate" /\ db.there = run.had
         /\ db.row = run.start.row /\ db'.there = "yes" /\ db'.row = run.staged.row
         /\ db'.said = db.said /\ run'.at = "state"
         /\ run'.start = run.start /\ run'.staged = run.staged /\ run'.had = run.had
         /\ UNCHANGED <<files, writes, late, server, Legacy>>
  <1>1. /\ run.at = "activate" /\ Content(db) = run.start /\ db.there = run.had
        /\ db' = Filled(run.staged) /\ run'.at = "state"
        /\ run'.start = run.start /\ run'.staged = run.staged /\ run'.had = run.had
        /\ UNCHANGED <<files, writes, late, server>>
    BY DEF Activates, Elsewhere
  <1>2. Content(db).row = db.row
    BY ContentTypes, StoreFields
  <1>3. db'.there = "yes" /\ db'.row = run.staged.row /\ db'.said = db.said
    BY <1>1, ContentSets, StoreFields
  <1>4. Legacy' = Legacy
    BY <1>1 DEF Legacy
  <1> QED
    BY ONLY <1>1, <1>2, <1>3, <1>4

\* A rollback of an existing database puts the snapshot back if nobody wrote
\* since.
LEMMA PutsBackFields ==
  ASSUME StoreTypes, PutsBack
  PROVE  /\ run.at = "rollback" /\ run.active = "yes" /\ run.had = "yes"
         /\ db.there = "yes" => db.row = run.staged.row
         /\ db'.there = db.there /\ db'.row = run.start.row /\ db'.said = db.said
         /\ run'.at = "restore" /\ run'.start = run.start /\ run'.staged = run.staged
         /\ UNCHANGED <<files, writes, late, server, Legacy>>
  <1>1. /\ run.at = "rollback" /\ run.active = "yes" /\ run.had = "yes"
        /\ db.there = "yes" => Content(db) = run.staged
        /\ db' = Replaced(run.start)
        /\ run'.at = "restore" /\ run'.start = run.start /\ run'.staged = run.staged
        /\ UNCHANGED <<files, writes, late, server>>
    BY DEF PutsBack, RunTo, Elsewhere
  <1>2. Content(db).row = db.row
    BY ContentTypes, StoreFields
  <1>3. db'.there = db.there /\ db'.row = run.start.row /\ db'.said = db.said
    BY <1>1, ContentSets, StoreFields
  <1>4. Legacy' = Legacy
    BY <1>1 DEF Legacy
  <1> QED
    BY ONLY <1>1, <1>2, <1>3, <1>4

\* Staging copies the rows and then adds what only the files have.
LEMMA StagesFields ==
  ASSUME StoreTypes, Stages
  PROVE  /\ run'.start = run.start /\ run'.active = run.active
         /\ UNCHANGED <<files, db, server, writes, late, Legacy>>
         /\ \/ run.at = "snapshot" /\ run'.at = "payloads" /\ run'.staged.row = db.row
            \/ run.at = "payloads" /\ run'.at = "entities" /\ run'.staged.row = run.staged.row
            \/ /\ run.at = "entities" /\ run'.at = "validate"
               /\ \A r \in Record : run'.staged.row[r] \in {run.staged.row[r], files[r]}
               /\ \A r \in Record : run.staged.row[r] # None => run'.staged.row[r] = run.staged.row[r]
  <1>1. /\ Content(db).row = db.row /\ Legacy' = Legacy
    BY ContentTypes DEF StoreTypes, Stages, Elsewhere, Legacy
  <1>2. \A r \in Record : Imported(run.staged.row)[r] \in {run.staged.row[r], files[r]}
    BY DEF Imported
  <1>3. \A r \in Record : run.staged.row[r] # None
                             => Imported(run.staged.row)[r] = run.staged.row[r]
    BY DEF Imported
  <1>4. QED
    BY <1>1, <1>2, <1>3 DEF Stages, RunTo, Elsewhere

\* A migration that goes on has validated its copy, or rolls back.
LEMMA GoesOnFields ==
  ASSUME StoreTypes, GoesOn
  PROVE  /\ run'.start = run.start /\ run'.active = run.active /\ run'.staged = run.staged
         /\ run'.had = run.had /\ UNCHANGED <<files, db, server, writes, late, Legacy>>
         /\ \/ run'.at = "rollback" /\ run.at \in Built \cup InPlace
            \/ /\ run.at = "validate" /\ run'.at = "compare"
               /\ \A r \in Legacy : run.staged.row[r] # None
            \/ run.at = "compare" /\ run'.at = "activate"
            \/ run.at = "state" /\ run'.at = "finish"
            \/ run.at = "rollback" /\ run'.at \in {"aside", "restore"}
  BY DEF GoesOn, RunTo, Elsewhere, Legacy

\* A rollback of a new database moves it away, with no server on it.
LEMMA MovesAwayFields ==
  ASSUME StoreTypes, MovesAway
  PROVE  /\ run'.start = run.start /\ run'.staged = run.staged /\ run'.at = "restore"
         /\ db' = NoDb /\ \A s \in Server : server'[s] # "canonical"
         /\ UNCHANGED <<files, writes, late, Legacy>>
  BY DEF MovesAway, RunTo, Elsewhere, Legacy

\* What the other kinds of steps leave alone.
LEMMA SimpleFields ==
  ASSUME StoreTypes
  PROVE  /\ Quiet => UNCHANGED <<files, writes, late, db, run, Legacy>> /\ (db.there = "yes" \/ Opened)
         /\ Creates => UNCHANGED <<files, writes, late, run, Legacy>> /\ db.there = "no"
                       /\ db' = NewDb /\ Legacy = {}
         /\ Stops => UNCHANGED <<files, writes, late, db, server, Legacy>> /\ run' = Idle
         /\ Starts => UNCHANGED <<files, writes, late, db, server, Legacy>>
                      /\ run'.at = "snapshot" /\ run'.active = "no" /\ run'.start.row = db.row
                      /\ \A r \in Record : run'.staged.row[r] = None
  BY ContentTypes DEF Quiet, Creates, Stops, Starts, Elsewhere, Legacy, StoreTypes

(* Versions are written before they are anywhere. *)
LEMMA WrittenKept ==
  ASSUME StoreTypes, VersionsWritten, StoreMoves
  PROVE  VersionsWritten'
  <1> USE StoreFields, SimpleFields DEF VersionsWritten
  <1>1. CASE Quiet
    BY <1>1
  <1>2. CASE Creates
    BY <1>2, FreshTypes, VersionFacts
  <1>3. ASSUME NEW q \in Record, FileWritten(q) PROVE VersionsWritten'
    BY <1>3, FileFields, VersionFacts
  <1>4. ASSUME NEW q \in Record, RowWritten(q) PROVE VersionsWritten'
    BY <1>4, RowFields, VersionFacts
  <1>5. CASE Stops
    BY <1>5, FreshTypes, VersionFacts
  <1>6. CASE Starts
    BY <1>6, VersionFacts
  <1>7. CASE Stages
    BY <1>7, StagesFields
  <1>8. CASE GoesOn
    BY <1>8, GoesOnFields
  <1>9. CASE Activates
    BY <1>9, ActivatesFields
  <1>10. CASE PutsBack
    BY <1>10, PutsBackFields
  <1>11. CASE MovesAway
    BY <1>11, MovesAwayFields, FreshTypes, VersionFacts
  <1>12. QED
    BY <1>1, <1>2, <1>3, <1>4, <1>5, <1>6, <1>7, <1>8, <1>9, <1>10, <1>11 DEF StoreMoves
(* Who uses the database has one. *)
LEMMA DatabaseKept ==
  ASSUME StoreTypes, DatabaseIsThere, StoreMoves
  PROVE  DatabaseIsThere'
  <1> USE StoreFields, SimpleFields DEF DatabaseIsThere, Opened
  <1>1. CASE Quiet
    BY <1>1
  <1>2. CASE Creates
    BY <1>2, FreshTypes, VersionFacts
  <1>3. ASSUME NEW q \in Record, FileWritten(q) PROVE DatabaseIsThere'
    BY <1>3, FileFields, VersionFacts
  <1>4. ASSUME NEW q \in Record, RowWritten(q) PROVE DatabaseIsThere'
    BY <1>4, RowFields, VersionFacts
  <1>5. CASE Stops
    BY <1>5, FreshTypes, VersionFacts
  <1>6. CASE Starts
    BY <1>6, VersionFacts
  <1>7. CASE Stages
    BY <1>7, StagesFields
  <1>8. CASE GoesOn
    BY <1>8, GoesOnFields
  <1>9. CASE Activates
    BY <1>9, ActivatesFields
  <1>10. CASE PutsBack
    BY <1>10, PutsBackFields
  <1>11. CASE MovesAway
    BY <1>11, MovesAwayFields, FreshTypes, VersionFacts
  <1>12. QED
    BY <1>1, <1>2, <1>3, <1>4, <1>5, <1>6, <1>7, <1>8, <1>9, <1>10, <1>11 DEF StoreMoves

(* What a server writes is a version that no migration has found, so a row that *)
(* is as the migration found it has been so all along.                          *)
LEMMA StagedKept ==
  ASSUME StoreTypes, VersionsWritten, StagedKeeps, StoreMoves
  PROVE  StagedKeeps'
  <1> USE StoreFields, SimpleFields DEF StagedKeeps, Built
  <1>1. CASE Quiet
    BY <1>1
  <1>2. CASE Creates
    BY <1>2, FreshTypes, VersionFacts
  <1>3. ASSUME NEW q \in Record, FileWritten(q) PROVE StagedKeeps'
    BY <1>3, FileFields, VersionFacts, SMTT(40)
  <1>4. ASSUME NEW q \in Record, RowWritten(q) PROVE StagedKeeps'
    <2>1. db'.row[q] # None => db'.row[q] # run.start.row[q]
      BY <1>4, RowFields, VersionFacts DEF VersionsWritten
    <2>2. QED
      BY <1>4, <2>1, RowFields
  <1>5. CASE Stops
    BY <1>5, FreshTypes, VersionFacts
  <1>6. CASE Starts
    BY <1>6, VersionFacts
  <1>7. CASE Stages
    BY <1>7, StagesFields
  <1>8. CASE GoesOn
    BY <1>8, GoesOnFields
  <1>9. CASE Activates
    BY <1>9, ActivatesFields
  <1>10. CASE PutsBack
    BY <1>10, PutsBackFields
  <1>11. CASE MovesAway
    BY <1>11, MovesAwayFields, FreshTypes, VersionFacts
  <1>12. QED
    BY <1>1, <1>2, <1>3, <1>4, <1>5, <1>6, <1>7, <1>8, <1>9, <1>10, <1>11 DEF StoreMoves

(* What validation saw is staged; what is written to a file later is late. *)
LEMMA CoverKept ==
  ASSUME StoreTypes, StagedCovers, StoreMoves
  PROVE  StagedCovers'
  <1> USE StoreFields, SimpleFields DEF StagedCovers, Checked
  <1>1. CASE Quiet
    BY <1>1
  <1>2. CASE Creates
    BY <1>2, FreshTypes, VersionFacts
  <1>3. ASSUME NEW q \in Record, FileWritten(q) PROVE StagedCovers'
    BY <1>3, FileFields, VersionFacts
  <1>4. ASSUME NEW q \in Record, RowWritten(q) PROVE StagedCovers'
    BY <1>4, RowFields DEF Legacy
  <1>5. CASE Stops
    BY <1>5, FreshTypes, VersionFacts
  <1>6. CASE Starts
    BY <1>6, VersionFacts
  <1>7. CASE Stages
    BY <1>7, StagesFields
  <1>8. CASE GoesOn
    BY <1>8, GoesOnFields
  <1>9. CASE Activates
    BY <1>9, ActivatesFields
  <1>10. CASE PutsBack
    BY <1>10, PutsBackFields
  <1>11. CASE MovesAway
    BY <1>11, MovesAwayFields, FreshTypes, VersionFacts
  <1>12. QED
    BY <1>1, <1>2, <1>3, <1>4, <1>5, <1>6, <1>7, <1>8, <1>9, <1>10, <1>11 DEF StoreMoves

(* What a server was told is in every database that is put in place. *)
LEMMA CommittedKept ==
  ASSUME StoreTypes, VersionsWritten, DatabaseIsThere, StagedKeeps, CanBePutBack, CommittedStays, StoreMoves
  PROVE  CommittedStays'
  <1> USE StoreFields, SimpleFields DEF CommittedStays
  <1>1. CASE Quiet
    BY <1>1
  <1>2. CASE Creates
    BY <1>2, FreshTypes, VersionFacts
  <1>3. ASSUME NEW q \in Record, FileWritten(q) PROVE CommittedStays'
    BY <1>3, FileFields, VersionFacts
  <1>4. ASSUME NEW q \in Record, RowWritten(q) PROVE CommittedStays'
    BY <1>4, RowFields, VersionFacts
  <1>5. CASE Stops
    BY <1>5, FreshTypes, VersionFacts
  <1>6. CASE Starts
    BY <1>6, VersionFacts
  <1>7. CASE Stages
    BY <1>7, StagesFields
  <1>8. CASE GoesOn
    BY <1>8, GoesOnFields
  <1>9. CASE Activates
    <2>1. SUFFICES ASSUME NEW r \in Record, db.said[r] > None
          PROVE  run.staged.row[r] = db.said[r]
      BY <1>9, ActivatesFields
    <2>2. db.there = "yes"
      BY <1>9, <2>1, VersionFacts DEF DatabaseIsThere
    <2>3. db.row[r] = db.said[r] /\ db.row[r] # None
      BY <2>1, <2>2, VersionFacts
    <2>4. db.row[r] = run.start.row[r] /\ run.at = "activate"
      BY <1>9, ActivatesFields
    <2>5. QED
      BY <2>3, <2>4 DEF StagedKeeps, Built
  <1>10. CASE PutsBack
    <2>1. SUFFICES ASSUME NEW r \in Record, db.there = "yes", db.said[r] > None
                   PROVE  run.start.row[r] = db.said[r]
      BY <1>10, PutsBackFields
    <2>2. db.row[r] = db.said[r] /\ db.row = run.staged.row
      BY <1>10, <2>1, PutsBackFields
    <2>3. ~WrittenSince(r)
      BY <2>2 DEF WrittenSince
    <2>4. StartIsGood(r)
      BY <1>10, <2>3, PutsBackFields DEF CanBePutBack, InPlace
    <2>5. QED
      BY <2>1, <2>4 DEF StartIsGood
  <1>11. CASE MovesAway
    BY <1>11, MovesAwayFields, FreshTypes, VersionFacts
  <1>12. QED
    BY <1>1, <1>2, <1>3, <1>4, <1>5, <1>6, <1>7, <1>8, <1>9, <1>10, <1>11 DEF StoreMoves

(* No record of the files is left behind by a database that is put in place. *)
LEMMA BehindKept ==
  ASSUME StoreTypes, StagedCovers, CanBePutBack, CommittedStays, NothingLeftBehind, StoreMoves
  PROVE  NothingLeftBehind'
  <1> USE StoreFields, SimpleFields DEF NothingLeftBehind
  <1>1. CASE Quiet
    BY <1>1
  <1>2. CASE Creates
    BY <1>2, FreshTypes, VersionFacts
  <1>3. ASSUME NEW q \in Record, FileWritten(q) PROVE NothingLeftBehind'
    BY <1>3, FileFields, VersionFacts
  <1>4. ASSUME NEW q \in Record, RowWritten(q) PROVE NothingLeftBehind'
    <2>1. Legacy' = Legacy
      BY <1>4, RowFields DEF Legacy
    <2>2. db'.row[q] # None \/ db'.said[q] = None
      BY <1>4, RowFields
    <2>3. QED
      BY <1>4, <2>1, <2>2, RowFields DEF Legacy
  <1>5. CASE Stops
    BY <1>5, FreshTypes, VersionFacts
  <1>6. CASE Starts
    BY <1>6, VersionFacts
  <1>7. CASE Stages
    BY <1>7, StagesFields
  <1>8. CASE GoesOn
    BY <1>8, GoesOnFields
  <1>9. CASE Activates
    BY <1>9, ActivatesFields DEF StagedCovers, Checked
  <1>10. CASE PutsBack
    <2>1. SUFFICES ASSUME NEW r \in Legacy \ late, db.there = "yes"
                   PROVE  run.start.row[r] # None \/ db.said[r] = None
      BY <1>10, PutsBackFields
    <2>2. r \in Record /\ db.row = run.staged.row
      BY <1>10, <2>1, PutsBackFields DEF Legacy
    <2>3. ~WrittenSince(r)
      BY <2>1, <2>2 DEF WrittenSince, CommittedStays
    <2>4. StartIsGood(r)
      BY <1>10, <2>2, <2>3, PutsBackFields DEF CanBePutBack, InPlace
    <2>5. QED
      BY <2>1, <2>4 DEF StartIsGood
  <1>11. CASE MovesAway
    BY <1>11, MovesAwayFields, FreshTypes, VersionFacts
  <1>12. QED
    BY <1>1, <1>2, <1>3, <1>4, <1>5, <1>6, <1>7, <1>8, <1>9, <1>10, <1>11 DEF StoreMoves

(* What was there before stays good enough to be put back. *)
LEMMA BackKept ==
  ASSUME StoreTypes, VersionsWritten, CommittedStays, NothingLeftBehind, CanBePutBack, StoreMoves
  PROVE  CanBePutBack'
  <1> USE StoreFields, SimpleFields DEF CanBePutBack, InPlace, Built
  <1>1. CASE Quiet
    BY <1>1 DEF WrittenSince, StartIsGood
  <1>2. CASE Creates
    BY <1>2, FreshTypes, VersionFacts
  <1>3. ASSUME NEW q \in Record, FileWritten(q) PROVE CanBePutBack'
    <2>1. ASSUME run.at \in InPlace, NEW r \in Record, WrittenSince(r) \/ StartIsGood(r)
          PROVE  (WrittenSince(r) \/ StartIsGood(r))'
      BY <1>3, <2>1, FileFields DEF WrittenSince, StartIsGood
    <2>2. QED
      BY <1>3, <2>1, FileFields
  <1>4. ASSUME NEW q \in Record, RowWritten(q) PROVE CanBePutBack'
    <2>1. Legacy' = Legacy
      BY <1>4, RowFields DEF Legacy
    <2>2. ASSUME NEW r \in Record, WrittenSince(r) \/ StartIsGood(r)
          PROVE  (WrittenSince(r) \/ StartIsGood(r))'
      <3>1. CASE r # q
        BY <1>4, <2>1, <2>2, <3>1, RowFields DEF WrittenSince, StartIsGood
      <3>2. CASE r = q /\ db'.said[q] = None
        BY <1>4, <3>2, RowFields, VersionFacts DEF StartIsGood
      <3>3. CASE r = q /\ db'.said[q] = writes + 1
        <4>1. writes + 1 > None /\ run.staged.row[q] # writes + 1
          BY <1>4, RowFields, VersionFacts DEF VersionsWritten
        <4>2. QED
          BY <1>4, <3>3, <4>1, RowFields DEF WrittenSince
      <3>4. QED
        BY <1>4, <3>1, <3>2, <3>3, RowFields
    <2>3. QED
      BY <1>4, <2>2, RowFields
  <1>5. CASE Stops
    BY <1>5, FreshTypes, VersionFacts
  <1>6. CASE Starts
    BY <1>6, VersionFacts
  <1>7. CASE Stages
    BY <1>7, StagesFields
  <1>8. CASE GoesOn
    <2>1. \A r \in Record : (WrittenSince(r) \/ StartIsGood(r))' <=> WrittenSince(r) \/ StartIsGood(r)
      BY <1>8, GoesOnFields DEF WrittenSince, StartIsGood
    <2>2. QED
      BY <1>8, <2>1, GoesOnFields
  <1>9. CASE Activates
    <2>1. ASSUME NEW r \in Record, run.had = "yes" PROVE StartIsGood(r)'
      BY <1>9, <2>1, ActivatesFields, VersionFacts DEF StartIsGood, CommittedStays,
         NothingLeftBehind
    <2>2. QED
      BY <1>9, <2>1, ActivatesFields
  <1>10. CASE PutsBack
    BY <1>10, PutsBackFields
  <1>11. CASE MovesAway
    BY <1>11, MovesAwayFields, FreshTypes, VersionFacts
  <1>12. QED
    BY <1>1, <1>2, <1>3, <1>4, <1>5, <1>6, <1>7, <1>8, <1>9, <1>10, <1>11 DEF StoreMoves

-----------------------------------------------------------------------------
(* Initially there are files, or nothing. *)
LEMMA StoreStarts == StoreInit => StoreInv
  <1> SUFFICES ASSUME StoreInit PROVE StoreInv
    OBVIOUS
  <1> USE FreshTypes, VersionFacts DEF StoreInit
  <1>1. StoreTypeOK
    BY DEF StoreTypeOK, Databases, Migrations
  <1>2. VersionsWritten
    BY DEF VersionsWritten
  <1>3. DatabaseIsThere /\ CommittedStays /\ NothingLeftBehind
    BY DEF DatabaseIsThere, CommittedStays, NothingLeftBehind
  <1>4. StagedKeeps /\ StagedCovers /\ CanBePutBack
    BY DEF StagedKeeps, StagedCovers, CanBePutBack, Built, Checked, InPlace
  <1>5. QED
    BY <1>1, <1>2, <1>3, <1>4 DEF StoreInv

(* Every step keeps the invariant. *)
LEMMA StoreKept == StoreInv /\ [StoreNext]_storeVars => StoreInv'
  <1> SUFFICES ASSUME StoreInv, [StoreNext]_storeVars PROVE StoreInv'
    OBVIOUS
  <1>1. StoreTypes /\ StoreMoves
    BY EveryMove DEF StoreInv, StoreTypes
  <1>2. StoreTypes'
    BY <1>1, TypesKept
  <1>3. VersionsWritten' /\ DatabaseIsThere' /\ StagedKeeps' /\ StagedCovers'
    BY <1>1, WrittenKept, DatabaseKept, StagedKept, CoverKept DEF StoreInv
  <1>4. CommittedStays' /\ NothingLeftBehind' /\ CanBePutBack'
    BY <1>1, CommittedKept, BehindKept, BackKept DEF StoreInv
  <1>5. QED
    BY <1>2, <1>3, <1>4 DEF StoreInv, StoreTypes

(* The inductive invariant of the store's migration. *)
THEOREM StoreInvariant == StoreSpec => []StoreInv
  BY StoreStarts, StoreKept, PTL DEF StoreSpec

(* Whatever a migration does, and however it fails: the database has what its   *)
(* users were told it has, and lacks nothing that the files had.                *)
THEOREM AuthorityStaysWhole == StoreSpec => []AuthorityIsWhole
  <1>1. StoreInv => AuthorityIsWhole
    BY DEF StoreInv, AuthorityIsWhole
  <1>2. QED
    BY <1>1, StoreInvariant, PTL

=============================================================================
