----------------------------- MODULE VerbatimStore -----------------------------
(* The store of the search observations: the canonical row of an observation is *)
(* the truth, and the row of the full-text index, the trigram postings and the  *)
(* vectors are derived from it in a database of their own.  A save writes the   *)
(* canonical row first, a hard deletion last.  rebuild-verbatim-index publishes *)
(* all postings anew; a process that opens the store repairs what it misses.    *)
EXTENDS VectorIndex

CONSTANTS
    Opener,      \* the process that opens the store
    MaxWork,     \* bound on operations begun
    MaxCrashes   \* bound on processes that die

Writer == Saver \ {Opener}   \* processes that capture sessions
Row == [text : 0..MaxText, compacted : BOOLEAN]   \* text 0: there is no row
NoRow == [text |-> 0, compacted |-> FALSE]

ASSUME StoreAssumption ==
    /\ Opener \in Saver /\ MaxWork \in Nat /\ MaxCrashes \in Nat

VARIABLES
    canon,     \* the canonical row of each observation
    row,       \* its row of the full-text index
    grams,     \* the text whose trigrams are posted
    manifest,  \* the active generation of the postings: its source and its postings
    save,      \* each running save
    boot,      \* init_runtime of the Opener
    eraser,    \* a hard deletion
    purge,     \* a soft deletion
    rebuild,   \* rebuild-verbatim-index
    reader,    \* a search
    erased,    \* observations whose hard deletion has begun
    torn,      \* observations that a dead process has left half done
    raced,     \* operations that the store does not order have overlapped
    work, crashes

opVars == <<save, boot, eraser, purge, rebuild>>
storeVars == <<canon, row, grams, manifest, opVars, reader, erased, torn, raced, work, crashes>>
verbatimVars == <<vectorVars, storeVars>>

NoSave == [at |-> "idle", obs |-> {}, text |-> 0]
NoBoot == [at |-> "off", list |-> Nothing, todo |-> {}, since |-> 0]
NoOp == [at |-> "idle", obs |-> {}, text |-> 0]
NoRebuild == [at |-> "idle", source |-> Nothing]
NoManifest == [made |-> FALSE, source |-> Nothing, postings |-> Nothing]
NoReader == [at |-> "idle", by |-> "fts", text |-> 0, left |-> {}, fill |-> Nothing,
             sure |-> {}, dead |-> {}, found |-> {}]

Live(c, o) == c[o].text # 0 /\ ~c[o].compacted
Source(c) == [o \in Obs |-> IF Live(c, o) THEN c[o].text ELSE 0]

StoreTypeOK ==
    /\ VectorTypeOK
    /\ canon \in [Obs -> Row] /\ row \in [Obs -> Row] /\ grams \in Stored
    /\ manifest \in [made : BOOLEAN, source : Stored, postings : Stored]
    /\ save \in [Saver -> [at : {"idle", "write", "row", "grams", "embed", "vec0"},
                           obs : SUBSET Obs, text : 0..MaxText]]
    /\ boot \in [at : {"off", "rows", "postings", "open"}, list : Stored, todo : SUBSET Obs,
                 since : 0..(MaxWork + MaxCrashes)]
    /\ eraser \in [at : {"idle", "row", "grams", "unlink"}, obs : SUBSET Obs, text : {0}]
    /\ purge \in [at : {"idle", "write", "grams", "row"}, obs : SUBSET Obs, text : 0..MaxText]
    /\ rebuild \in [at : {"idle", "staged", "verified"}, source : Stored]
    /\ reader \in [at : {"idle", "filling", "visiting", "done"},
                   by : {"regex", "fts", "hybrid"}, text : 0..MaxText,
                   left : SUBSET Obs, fill : Stored, sure : SUBSET Obs, dead : SUBSET Obs,
                   found : SUBSET Obs]
    /\ erased \subseteq Obs /\ torn \subseteq Obs /\ raced \in BOOLEAN
    /\ work \in 0..MaxWork /\ crashes \in 0..MaxCrashes

StoreInit ==
    /\ VectorInit
    /\ canon = [o \in Obs |-> NoRow] /\ row = [o \in Obs |-> NoRow] /\ grams = Nothing
    /\ manifest = NoManifest
    /\ save = [p \in Saver |-> NoSave] /\ boot = NoBoot
    /\ eraser = NoOp /\ purge = NoOp /\ rebuild = NoRebuild /\ reader = NoReader
    /\ erased = {} /\ torn = {} /\ raced = FALSE /\ work = 0 /\ crashes = 0

(* The operations on an observation that are under way.                         *)
Saving(o) == {p \in Saver : save[p].obs = {o}}
Busy(o) == Saving(o) # {} \/ eraser.obs = {o} \/ purge.obs = {o}
Listed(o) == \E b \in Builder : build[b].at \in {"listed", "encoding"} /\ build[b].items[o] # 0

Works == work < MaxWork /\ work' = work + 1
(* An operation on o begins: a search that runs can no longer be sure of o, and *)
(* an operation on o that already runs is one that nothing orders before it.    *)
Begin(o, alsoRaced) ==
    /\ raced' = (raced \/ Busy(o) \/ alsoRaced)
    /\ reader' = [reader EXCEPT !.sure = @ \ {o}]
(* A canonical row is written: an observation that lives is no longer dead to   *)
(* the search that runs.                                                        *)
PutCanonical(o, r) ==
    /\ canon' = [canon EXCEPT ![o] = r]
    /\ reader' = [reader EXCEPT !.dead = IF r.text # 0 /\ ~r.compacted THEN @ \ {o} ELSE @]
------------------------------------------------------------------------------
(* A save.                                                                      *)

(* A capture stores the rendering of the revision it has found, unless that is  *)
(* the one that is stored, or the session's erasure forbids it.  Renderings are *)
(* numbered as they appear.                                                     *)
BeginSave(w, o, t) ==
    /\ save[w].at = "idle" /\ o \notin erased
    /\ canon[o].text # t /\ t <= canon[o].text + 1
    /\ Works /\ Begin(o, FALSE)
    /\ save' = [save EXCEPT ![w] = [at |-> "write", obs |-> {o}, text |-> t]]
    /\ UNCHANGED <<vectorVars, canon, row, grams, manifest, boot, eraser, purge, rebuild,
                   erased, torn, crashes>>

SaveCanonical(p, o) ==
    /\ save[p].at = "write" /\ save[p].obs = {o}
    /\ PutCanonical(o, [text |-> save[p].text, compacted |-> FALSE])
    /\ save' = [save EXCEPT ![p].at = "row"]
    /\ UNCHANGED <<vectorVars, row, grams, manifest, boot, eraser, purge, rebuild, erased,
                   torn, raced, work, crashes>>

SaveRow(p, o) ==
    /\ save[p].at = "row" /\ save[p].obs = {o} /\ Writes(p)
    /\ row' = [row EXCEPT ![o] = [text |-> save[p].text, compacted |-> FALSE]]
    /\ save' = [save EXCEPT ![p].at = "grams"]
    /\ UNCHANGED <<tables, build, canon, grams, manifest, boot, eraser, purge, rebuild, reader,
                   erased, torn, raced, work, crashes>>

SaveGrams(p, o) ==
    /\ save[p].at = "grams" /\ save[p].obs = {o} /\ Writes(p)
    /\ grams' = [grams EXCEPT ![o] = save[p].text]
    /\ save' = [save EXCEPT ![p].at = "embed"]
    /\ UNCHANGED <<tables, build, canon, row, manifest, boot, eraser, purge, rebuild, reader,
                   erased, torn, raced, work, crashes>>

(* The save is complete; what an earlier one had left half done is repaired.    *)
SaveEnds(p, o) ==
    /\ save' = [save EXCEPT ![p] = NoSave]
    /\ torn' = IF raced THEN torn ELSE torn \ {o}

(* The encoder gives a vector in time.                                          *)
SaveVector(p, o) ==
    /\ save[p].at = "embed" /\ save[p].obs = {o} /\ Writes(p)
    /\ PersistVector(o, save[p].text)
    /\ save' = [save EXCEPT ![p].at = "vec0"]
    /\ UNCHANGED <<vec0, made, canon, row, grams, manifest, boot, eraser, purge, rebuild,
                   reader, erased, torn, raced, work, crashes>>

SaveSidecar(p, o) ==
    /\ save[p].at = "vec0" /\ save[p].obs = {o}
    /\ Upsert(p, o, save[p].text)
    /\ SaveEnds(p, o)
    /\ UNCHANGED <<vec, made, build, canon, row, grams, manifest, boot, eraser, purge,
                   rebuild, reader, erased, raced, work, crashes>>

(* Embeddings are off, uncached, too slow or failing: the save does without.    *)
SaveWithoutVector(p, o) ==
    /\ save[p].at = "embed" /\ save[p].obs = {o}
    /\ SaveEnds(p, o)
    /\ UNCHANGED <<vectorVars, canon, row, grams, manifest, boot, eraser, purge, rebuild,
                   reader, erased, raced, work, crashes>>
------------------------------------------------------------------------------
(* A hard deletion: row and vectors in one transaction, then the postings, then *)
(* the canonical row.                                                           *)

(* What has read o before and will write it after.                              *)
Remembered(o) ==
    \/ rebuild.source[o] # 0
    \/ Listed(o)
    \/ boot.at \in {"rows", "postings"} /\ boot.list[o] # 0
    \/ reader.fill[o] # 0
BeginErase(o) ==
    /\ eraser.at = "idle" /\ canon[o].text # 0
    /\ Works /\ Begin(o, Remembered(o))
    /\ eraser' = [NoOp EXCEPT !.at = "row", !.obs = {o}]
    /\ erased' = erased \cup {o}
    /\ UNCHANGED <<vectorVars, canon, row, grams, manifest, save, boot, purge, rebuild,
                   torn, crashes>>

EraseRow(o) ==
    /\ eraser.at = "row" /\ eraser.obs = {o} /\ IndexIsFree
    /\ row' = [row EXCEPT ![o] = NoRow] /\ DropVectors(o)
    /\ eraser' = [eraser EXCEPT !.at = "grams"]
    /\ UNCHANGED <<made, held, build, canon, grams, manifest, save, boot, purge, rebuild, reader,
                   erased, torn, raced, work, crashes>>

EraseGrams(o) ==
    /\ eraser.at = "grams" /\ eraser.obs = {o} /\ IndexIsFree
    /\ grams' = [grams EXCEPT ![o] = 0]
    /\ eraser' = [eraser EXCEPT !.at = "unlink"]
    /\ UNCHANGED <<vectorVars, canon, row, manifest, save, boot, purge, rebuild, reader,
                   erased, torn, raced, work, crashes>>

EraseCanonical(o) ==
    /\ eraser.at = "unlink" /\ eraser.obs = {o}
    /\ PutCanonical(o, NoRow)
    /\ eraser' = NoOp
    /\ torn' = IF raced THEN torn ELSE torn \ {o}
    /\ UNCHANGED <<vectorVars, row, grams, manifest, save, boot, purge, rebuild, erased,
                   raced, work, crashes>>
------------------------------------------------------------------------------
(* A soft deletion keeps the payload that it has read, marked compacted.        *)
BeginPurge(o) ==
    /\ purge.at = "idle" /\ Live(canon, o) /\ Live(row, o)
    /\ Works /\ Begin(o, FALSE)
    /\ purge' = [at |-> "write", obs |-> {o}, text |-> canon[o].text]
    /\ UNCHANGED <<vectorVars, canon, row, grams, manifest, save, boot, eraser, rebuild,
                   erased, torn, crashes>>

PurgeCanonical(o) ==
    /\ purge.at = "write" /\ purge.obs = {o}
    /\ PutCanonical(o, [text |-> purge.text, compacted |-> TRUE])
    /\ purge' = [purge EXCEPT !.at = "grams"]
    /\ UNCHANGED <<vectorVars, row, grams, manifest, save, boot, eraser, rebuild, erased,
                   torn, raced, work, crashes>>

PurgeGrams(o) ==
    /\ purge.at = "grams" /\ purge.obs = {o} /\ IndexIsFree
    /\ grams' = [grams EXCEPT ![o] = 0]
    /\ purge' = [purge EXCEPT !.at = "row"]
    /\ UNCHANGED <<vectorVars, canon, row, manifest, save, boot, eraser, rebuild, reader,
                   erased, torn, raced, work, crashes>>

PurgeRow(o) ==
    /\ purge.at = "row" /\ purge.obs = {o} /\ IndexIsFree
    /\ row' = [row EXCEPT ![o].compacted = row[o].text # 0]
    /\ purge' = NoOp
    /\ torn' = IF raced THEN torn ELSE torn \ {o}
    /\ UNCHANGED <<vectorVars, canon, grams, manifest, save, boot, eraser, rebuild, reader,
                   erased, raced, work, crashes>>
------------------------------------------------------------------------------
(* rebuild-verbatim-index: a snapshot of the canonical rows is staged; the      *)
(* publishing transaction looks at them again before it replaces the postings.  *)
BeginRebuild ==
    /\ rebuild.at = "idle" /\ IndexIsFree
    /\ Works
    /\ rebuild' = [at |-> "staged", source |-> Source(canon)]
    /\ raced' = (raced \/ \E o \in eraser.obs : Live(canon, o))
    /\ UNCHANGED <<vectorVars, canon, row, grams, manifest, save, boot, eraser, purge, reader,
                   erased, torn, crashes>>

SourceIsStaged == Source(canon) = rebuild.source

VerifySource ==
    /\ rebuild.at = "staged" /\ IndexIsFree
    /\ SourceIsStaged
    /\ held' = "rebuild"
    /\ rebuild' = [rebuild EXCEPT !.at = "verified"]
    /\ UNCHANGED <<tables, build, canon, row, grams, manifest, save, boot, eraser, purge,
                   reader, erased, torn, raced, work, crashes>>

PublishPostings ==
    /\ rebuild.at = "verified"
    /\ grams' = rebuild.source
    /\ manifest' = [made |-> TRUE, source |-> rebuild.source, postings |-> rebuild.source]
    /\ held' = "nobody" /\ rebuild' = NoRebuild
    /\ UNCHANGED <<tables, build, canon, row, save, boot, eraser, purge, reader, erased,
                   torn, raced, work, crashes>>

(* An error, a changed source or the end of the process: the transaction is     *)
(* rolled back and the postings stay.                                           *)
AbandonRebuild ==
    /\ rebuild.at # "idle"
    /\ held' = "nobody" /\ rebuild' = NoRebuild
    /\ UNCHANGED <<tables, build, canon, row, grams, manifest, save, boot, eraser, purge,
                   reader, erased, torn, raced, work, crashes>>

(* rebuild-vector-index begins with what list returns.                          *)
BeginVectors(b) ==
    /\ build[b].at = "idle"
    /\ Works
    /\ build' = [build EXCEPT ![b] = [NoBuild EXCEPT !.at = "listed",
                    !.items = [o \in Obs |-> IF Live(row, o) THEN Source(canon)[o] ELSE 0]]]
    /\ raced' = (raced \/ \E o \in eraser.obs : Live(canon, o))
    /\ UNCHANGED <<tables, held, canon, row, grams, manifest, opVars, reader, erased,
                   torn, crashes>>
------------------------------------------------------------------------------
(* init_runtime.                                                                *)

(* Rows are looked for only when the index has fewer than there are payloads    *)
(* that are not compacted; it counts the compacted ones too.                    *)
RowsMissing(list) == Cardinality({o \in Obs : row[o].text # 0}) < Cardinality(Ids(list))
(* Mutant of WithoutPostings: an index that has postings is taken to be whole.  *)
EmptyPostings(list) == IF Ids(grams) = {} THEN Ids(list) ELSE {}
WithoutPostings(list) == {o \in Ids(list) : grams[o] = 0}

BootList ==
    /\ boot.at \in {"off", "open"} /\ save[Opener].at = "idle"
    /\ Works
    /\ LET list == Source(canon) IN
          boot' = [at |-> IF RowsMissing(list) THEN "rows" ELSE "postings",
                   todo |-> IF RowsMissing(list) THEN Ids(list) ELSE WithoutPostings(list),
                   list |-> list, since |-> work' + crashes]
    /\ raced' = (raced \/ \E o \in eraser.obs : Live(canon, o))
    /\ UNCHANGED <<vectorVars, canon, row, grams, manifest, save, eraser, purge, rebuild, reader,
                   erased, torn, crashes>>

(* A payload without a row is saved again, as it was listed.                    *)
BootSaves(o) ==
    /\ boot.at = "rows" /\ o \in boot.todo /\ save[Opener].at = "idle"
    /\ row[o].text = 0
    /\ Begin(o, Source(canon)[o] # boot.list[o])
    /\ boot' = [boot EXCEPT !.todo = @ \ {o}]
    /\ save' = [save EXCEPT ![Opener] = [at |-> "write", obs |-> {o}, text |-> boot.list[o]]]
    /\ UNCHANGED <<vectorVars, canon, row, grams, manifest, eraser, purge, rebuild, erased, torn,
                   work, crashes>>

BootPasses(o) ==
    /\ boot.at = "rows" /\ o \in boot.todo /\ save[Opener].at = "idle"
    /\ row[o].text # 0
    /\ boot' = [boot EXCEPT !.todo = @ \ {o}]
    /\ UNCHANGED <<vectorVars, canon, row, grams, manifest, save, eraser, purge, rebuild, reader,
                   erased, torn, raced, work, crashes>>

BootCounts ==
    /\ boot.at = "rows" /\ boot.todo = {} /\ save[Opener].at = "idle"
    /\ boot' = [boot EXCEPT !.at = "postings", !.todo = WithoutPostings(boot.list)]
    /\ UNCHANGED <<vectorVars, canon, row, grams, manifest, save, eraser, purge, rebuild, reader,
                   erased, torn, raced, work, crashes>>

BootPosts(o) ==
    /\ boot.at = "postings" /\ o \in boot.todo /\ Writes(Opener)
    /\ grams' = [grams EXCEPT ![o] = boot.list[o]]
    /\ boot' = [boot EXCEPT !.todo = @ \ {o}]
    /\ raced' = (raced \/ Source(canon)[o] # boot.list[o] \/ eraser.obs = {o} \/ purge.obs = {o})
    /\ UNCHANGED <<tables, build, canon, row, manifest, save, eraser, purge, rebuild, reader,
                   erased, torn, work, crashes>>

BootOpens ==
    /\ boot.at = "postings" /\ boot.todo = {}
    /\ boot' = [boot EXCEPT !.at = "open"]
    /\ UNCHANGED <<vectorVars, canon, row, grams, manifest, save, eraser, purge, rebuild, reader,
                   erased, torn, raced, work, crashes>>
------------------------------------------------------------------------------
(* A search takes its candidates from an index and reads each canonical row.    *)

ByPostings(t) == {o \in Obs : grams[o] = t}
ByWords(t) == {o \in Obs : Live(row, o) /\ row[o].text = t}
ByVectors == {o \in Obs : Live(row, o)}
Candidates(by, t) ==
    CASE by = "regex" -> ByPostings(t)
      [] by = "fts" -> ByWords(t)
      [] by = "hybrid" -> ByVectors
(* The nearest-neighbour query adds the vectors of its candidates that vec0     *)
(* does not have.                                                               *)
Backfill(by, left) ==
    [o \in Obs |-> IF by = "hybrid" /\ o \in left /\ vec0[o] = 0 THEN vec[o] ELSE 0]

BeginSearch(by, t) ==
    /\ reader.at \in {"idle", "done"}
    /\ Works
    /\ LET left == Candidates(by, t)
           fill == Backfill(by, left) IN
          /\ reader' = [at |-> IF fill = Nothing THEN "visiting" ELSE "filling",
                        by |-> by, text |-> t, left |-> left, fill |-> fill, found |-> {},
                        sure |-> {o \in Obs \ torn : Source(canon)[o] = t /\ ~Busy(o)},
                        dead |-> {o \in Obs : ~Live(canon, o)}]
          /\ raced' = (raced \/ Ids(fill) \cap eraser.obs # {})
    /\ UNCHANGED <<vectorVars, canon, row, grams, manifest, opVars, erased, torn, crashes>>

FillSidecar(o) ==
    /\ reader.at = "filling" /\ reader.fill[o] # 0
    /\ Upsert("reader", o, reader.fill[o])
    /\ LET fill == [reader.fill EXCEPT ![o] = 0] IN
          reader' = [reader EXCEPT !.fill = fill, !.at = IF fill = Nothing THEN "visiting" ELSE @]
    /\ UNCHANGED <<vec, made, build, canon, row, grams, manifest, opVars, erased, torn, raced,
                   work, crashes>>

(* Mutant of Shown: a row that exists is shown.                                 *)
ShownIfStored(o) == canon[o].text # 0 /\ (reader.by = "regex" => canon[o].text = reader.text)
(* list, get and search read the canonical row and leave out what is compacted; *)
(* a regular expression is matched against the text that is there now.          *)
Shown(o) == Live(canon, o) /\ (reader.by = "regex" => canon[o].text = reader.text)

Visit(o) ==
    /\ reader.at = "visiting" /\ o \in reader.left
    /\ reader' = [reader EXCEPT !.left = @ \ {o}, !.found = IF Shown(o) THEN @ \cup {o} ELSE @]
    /\ UNCHANGED <<vectorVars, canon, row, grams, manifest, opVars, erased, torn, raced,
                   work, crashes>>

SearchEnds ==
    /\ reader.at = "visiting" /\ reader.left = {}
    /\ reader' = [reader EXCEPT !.at = "done"]
    /\ UNCHANGED <<vectorVars, canon, row, grams, manifest, opVars, erased, torn, raced,
                   work, crashes>>
------------------------------------------------------------------------------
(* A process dies, or a write of its fails (the index has been locked for ten   *)
(* seconds): what it had begun stays half done.                                 *)
Dies == crashes < MaxCrashes /\ crashes' = crashes + 1

CrashSave(p) ==
    /\ save[p].at # "idle" /\ Dies
    /\ torn' = torn \cup save[p].obs
    /\ save' = [save EXCEPT ![p] = NoSave]
    /\ held' = IF held = p THEN "nobody" ELSE held
    /\ boot' = IF p = Opener THEN NoBoot ELSE boot
    /\ UNCHANGED <<tables, build, canon, row, grams, manifest, eraser, purge, rebuild, reader,
                   erased, raced, work>>

CrashErase ==
    /\ eraser.at # "idle" /\ Dies
    /\ torn' = torn \cup eraser.obs
    /\ eraser' = NoOp
    /\ UNCHANGED <<vectorVars, canon, row, grams, manifest, save, boot, purge, rebuild, reader,
                   erased, raced, work>>

CrashPurge ==
    /\ purge.at # "idle" /\ Dies
    /\ torn' = torn \cup purge.obs
    /\ purge' = NoOp
    /\ UNCHANGED <<vectorVars, canon, row, grams, manifest, save, boot, eraser, rebuild, reader,
                   erased, raced, work>>

(* A process that comes to its end closes its connection.                       *)
Closes(p) ==
    /\ held = p
    /\ p = "reader" => reader.at \in {"idle", "done"}
    /\ p \in Saver => save[p].at = "idle"
    /\ p = Opener => boot.at \in {"off", "open"}
    /\ held' = "nobody"
    /\ UNCHANGED <<tables, build, storeVars>>

VectorBuild == VectorNext /\ UNCHANGED storeVars

StoreNext ==
    \/ VectorBuild
    \/ \E o \in Obs :
          \/ \E t \in Text : \E w \in Writer : BeginSave(w, o, t)
          \/ \E p \in Saver : \/ SaveCanonical(p, o) \/ SaveRow(p, o) \/ SaveGrams(p, o)
                              \/ SaveVector(p, o) \/ SaveSidecar(p, o) \/ SaveWithoutVector(p, o)
          \/ BeginErase(o) \/ EraseRow(o) \/ EraseGrams(o) \/ EraseCanonical(o)
          \/ BeginPurge(o) \/ PurgeCanonical(o) \/ PurgeGrams(o) \/ PurgeRow(o)
          \/ BootSaves(o) \/ BootPasses(o) \/ BootPosts(o)
          \/ FillSidecar(o) \/ Visit(o)
    \/ BeginRebuild \/ VerifySource \/ PublishPostings \/ AbandonRebuild
    \/ \E b \in Builder : BeginVectors(b)
    \/ BootList \/ BootCounts \/ BootOpens
    \/ \E t \in Text : \E by \in {"regex", "fts", "hybrid"} : BeginSearch(by, t)
    \/ SearchEnds
    \/ \E p \in Saver : CrashSave(p)
    \/ CrashErase \/ CrashPurge
    \/ \E p \in Saver \cup {"reader"} : Closes(p)

StoreSpec == StoreInit /\ [][StoreNext]_verbatimVars
------------------------------------------------------------------------------
(* exact_index_generation_report.                                               *)
PhysicalIsExpected == grams = Source(canon)
PhysicalIsManifest == manifest.made /\ grams = manifest.postings
Assessment ==
    CASE PhysicalIsExpected /\ PhysicalIsManifest /\ manifest.source = Source(canon) -> "healthy"
      [] PhysicalIsExpected -> "healthy_incremental"
      [] PhysicalIsManifest /\ manifest.source # Source(canon) -> "actionable_drift"
      [] OTHER -> "corruption"
------------------------------------------------------------------------------
Settled(o) == ~Busy(o) /\ o \notin torn

(* local_verbatim_store.py, sqlite_index.py delete: once every operation on it  *)
(* has come to an end, an observation is indexed as its canonical row says, in  *)
(* the rows and in the postings, whatever was rebuilt, opened or crashed        *)
(* elsewhere in between; of one that is gone no index has a trace, no vector    *)
(* and no row of the sidecar either; and when that holds of all of them the     *)
(* doctor's report says so.                                                     *)
SettledIsIndexed == ~raced =>
    /\ \A o \in Obs : Settled(o) =>
          /\ grams[o] = Source(canon)[o]
          /\ Live(canon, o) \/ Live(row, o) => row[o] = canon[o]
          /\ canon[o].text = 0 => row[o] = NoRow /\ vec[o] = 0 /\ vec0[o] = 0
    /\ (\A o \in Obs : Settled(o)) => Assessment \in {"healthy", "healthy_incremental"}

(* local_verbatim_store.py search, list and regex: a read never shows what was  *)
(* deleted, hard or soft, before it began, even from an index that is stale;    *)
(* and what was saved before it began it finds, a rebuild under way or not.     *)
ReadsAreCurrent == reader.at = "done" =>
    /\ reader.found \cap reader.dead = {}
    /\ ~raced => reader.sure \subseteq reader.found

(* rebuild_exact_index, sqlite_vec_index.py, init_runtime: what repairs the      *)
(* indexes does repair them.  A publication of the postings leaves the postings *)
(* of what every observation says at that moment, those excepted that are being *)
(* changed, even if earlier overlaps have spoiled them.  A publication of vec0  *)
(* leaves exactly the vectors that are persisted then, and the doctor agrees.   *)
(* A process that has opened the store alone has repaired the postings of every *)
(* observation whose first save had died.                                       *)
RepairsHeal == [][
    /\ PublishPostings => \A o \in Obs \ erased : Settled(o) => grams'[o] = Source(canon)[o]
    /\ \A b \in Builder : PublishVec0(b) => vec0' = vec' /\ Vec0Verdict' = "healthy"
    /\ BootOpens /\ ~raced /\ work + crashes = boot.since =>
          \A o \in Ids(boot.list) : ~Busy(o) /\ Source(canon)[o] # 0 => grams[o] # 0]_verbatimVars

(* 0.9.8-index-context.md: "concurrent rebuilds cannot publish another worker's *)
(* rows or overwrite a newer target embedding."                                 *)
NewerVectorStays == [][
    \A b \in Builder : PublishBatch(b) =>
        \A o \in build[b].newer : vec[o] # 0 => vec'[o] = vec[o]]_verbatimVars
==============================================================================
