--------------------------- MODULE NativeCapture ---------------------------
(***************************************************************************)
(* How one session of a host program becomes a source of the ledger.       *)
(*                                                                         *)
(* The host goes on writing while two readers work: the automatic scan     *)
(* (list, read, render, save) and the inspection of a session somebody     *)
(* selected (list, stamp, read, check, render, check, save).  Both end in  *)
(* persist_session_snapshot, which saves in separate transactions: the     *)
(* revision, the search rendering and the job.  A reader may die between   *)
(* any two of them.                                                        *)
(*                                                                         *)
(* A session is the first text half-lines of one script: an odd number is  *)
(* a file whose last line is only half written.  Databases are never torn. *)
(***************************************************************************)
EXTENDS Naturals, FiniteSets, Sequences

CONSTANTS
    Hosts,       \* the kinds of native history that are read
    Script,      \* who speaks in each line: host, context, user, tool, assistant
    Evidence,    \* what says whose session it is, when it starts
    Starts,      \* the whole lines a session may have before anything reads it
    MaxEvents    \* bound: changes of the native session, foreign scans and
                 \* deaths of a reader, all together

ASSUME CaptureAssumption ==
    /\ Script \in Seq({"host", "context", "user", "tool", "assistant"})
    /\ Starts \subseteq 0..Len(Script) /\ MaxEvents \in Nat

VARIABLES
    host,        \* the host this session belongs to
    native,      \* the session as the host keeps it
    source,      \* the ledger's current revision, by the locator it is filed under
    view,        \* the search rendering of each source
    queue,       \* the revisions that have a distill job
    work,        \* the two readers
    events       \* what has happened besides the readers' own steps

captureVars == <<host, native, source, view, queue, work, events>>

Readers == {"scan", "inspect"}
Places == {"here", "there"}
Nowhere == "none"
NoSource == [rev |-> 0, proof |-> 0, status |-> Nowhere, uri |-> Nowhere]
NoView == [rev |-> 0, text |-> 0]

---------------------------------------------------------------------------
(* What each parser shows of the first n lines. *)

Speakers == {"user", "host", "assistant", "tool"}
Line(n, kinds) == {i \in 1..n : Script[i] \in kinds}
Began(i, kinds) == \E u \in Line(i - 1, kinds) : TRUE

\* A Claude answer counts once some user record came before it.
ClaudeShows(n) ==
    {i \in Line(n, Speakers) :
        Script[i] \in {"user", "host"} \/ Began(i, {"user", "host"})}

\* Cursor, Grok and Hermes open a turn without a user for an early answer.
CursorShows(n) == Line(n, Speakers)
GrokShows(n) == Line(n, Speakers)
HermesShows(n) == Line(n, Speakers)
BubbleShows(n) == Line(n, Speakers)
StateShows(n) == Line(n, Speakers)
OpencodeShows(n) == Line(n, Speakers)
RecordShows(n) == Line(n, Speakers)

\* Codex empties what the host wrote in the user's name, but such a message
\* and a new context still end the turn before; an answer in a turn that
\* keeps no user text is not part of the dialogue.
Authored(i) == Script[i] = "user"
CodexShows(n) ==
    {i \in Line(n, {"user", "assistant"}) :
        \/ Authored(i)
        \/ \E u \in 1..(i - 1) : Authored(u) /\
              \A j \in (u + 1)..(i - 1) : Script[j] \notin {"host", "context"}}

\* A rendering is named by the last line it shows, 0 when it shows none.
Last(lines) == IF lines = {} THEN 0 ELSE CHOOSE i \in lines : \A j \in lines : j <= i

---------------------------------------------------------------------------
(* How each host is listed: which evidence of a workspace lets the scan   *)
(* of this project take the session.  mine: the structured workspace is    *)
(* this root; mixed: it was and a later record names another; slug: only    *)
(* the directory is called like the project; mention: the text names it.   *)

CodexLists(e) == e \in {"mine", "mixed"}
ArchiveLists(e) == e \in {"mine", "mixed"}
ClaudeLists(e) == e \in {"mine", "mixed", "slug"}
GrokLists(e) == e \in {"mine", "mixed"}
CursorLists(e) == e \in {"mine", "mixed", "slug", "mention"}
CursorRowLists(e) == e = "mine"
HermesLists(e) == e \in {"mine", "mixed", "mention"}
HermesRowLists(e) == e = "mine"
OpencodeLists(e) == e = "mine"
AntigravityLists(e) == e \in {"mine", "mixed", "mention"}

(* How a scan of each host reads: again - the rendering parses the file a  *)
(* second time after its bytes were taken; pinned - both were taken when   *)
(* the session was listed; logical - a session that moved is the one       *)
(* source of the same name, whatever it says.                              *)

CodexReading == [again |-> "no", pinned |-> "no", logical |-> "no"]
ArchiveReading == [again |-> "no", pinned |-> "no", logical |-> "no"]
ClaudeReading == [again |-> "yes", pinned |-> "no", logical |-> "no"]
GrokReading == [again |-> "yes", pinned |-> "no", logical |-> "no"]
CursorReading == [again |-> "yes", pinned |-> "no", logical |-> "no"]
CursorRowReading == [again |-> "no", pinned |-> "yes", logical |-> "no"]
HermesReading == [again |-> "yes", pinned |-> "no", logical |-> "yes"]
HermesRowReading == [again |-> "no", pinned |-> "no", logical |-> "yes"]
OpencodeReading == [again |-> "no", pinned |-> "no", logical |-> "no"]
AntigravityReading == [again |-> "yes", pinned |-> "no", logical |-> "yes"]
HistoryReading == [again |-> "no", pinned |-> "no", logical |-> "yes"]

Codex == {"codex", "codex-archive"}
Databases == {"cursor-db", "hermes-db", "opencode"}
Exports == Databases \cup {"antigravity-history"}

Listed(e) ==
    CASE host = "codex" -> CodexLists(e)
      [] host = "codex-archive" -> ArchiveLists(e)
      [] host = "claude-code" -> ClaudeLists(e)
      [] host = "grok" -> GrokLists(e)
      [] host = "cursor" -> CursorLists(e)
      [] host = "cursor-db" -> CursorRowLists(e)
      [] host = "hermes" -> HermesLists(e)
      [] host = "hermes-db" -> HermesRowLists(e)
      [] host = "opencode" -> OpencodeLists(e)
      [] host = "antigravity" -> AntigravityLists(e)
      [] OTHER -> e = "mine"

Reading ==
    CASE host = "codex" -> CodexReading
      [] host = "codex-archive" -> ArchiveReading
      [] host = "claude-code" -> ClaudeReading
      [] host = "grok" -> GrokReading
      [] host = "cursor" -> CursorReading
      [] host = "cursor-db" -> CursorRowReading
      [] host = "hermes" -> HermesReading
      [] host = "hermes-db" -> HermesRowReading
      [] host = "opencode" -> OpencodeReading
      [] host = "antigravity" -> AntigravityReading
      [] OTHER -> HistoryReading

Shown(n) ==
    CASE host \in Codex -> CodexShows(n)
      [] host = "claude-code" -> ClaudeShows(n)
      [] host = "grok" -> GrokShows(n)
      [] host = "cursor" -> CursorShows(n)
      [] host = "cursor-db" -> BubbleShows(n)
      [] host = "hermes" -> HermesShows(n)
      [] host = "hermes-db" -> StateShows(n)
      [] host = "opencode" -> OpencodeShows(n)
      [] OTHER -> RecordShows(n)

\* The rendering of a text: parsers skip a line that is not whole.
Rendered(t) == Last(Shown(t \div 2))
HalfLine(t) == t % 2 = 1

\* The bytes that become the revision: Codex keeps only the dialogue, every
\* other host the bytes as they were read.
Saved(t) == IF host \in Codex THEN Rendered(t) ELSE t

\* What rendering belongs to a revision.
RenderingOf(rev) == IF host \in Codex THEN rev ELSE Rendered(rev)

\* The parser gives up: a Hermes file is one JSON document, a Codex session
\* without dialogue is refused.
Unparsable(t) ==
    \/ host = "hermes" /\ HalfLine(t)
    \/ host \in Codex /\ Rendered(t) = 0

---------------------------------------------------------------------------
(* The host. *)

AtRest == [at |-> "idle", place |-> "here", seen |-> 0, text |-> 0, shown |-> 0,
         owner |-> {}, key |-> "here", current |-> "no",
         quiet |-> "yes"]

CaptureInit ==
    /\ host \in Hosts
    /\ native \in [text : {2 * n : n \in Starts}, place : {"here"},
                   evidence : Evidence, version : {0},
                   crossed : {"no"}]
    /\ source = [p \in Places |-> NoSource]
    /\ view = [p \in Places |-> NoView]
    /\ queue = {}
    /\ work = [r \in Readers |-> AtRest]
    /\ events = 0

\* Whoever is at work, or just finished, was not alone with the session.
Disturbed(w) == [r \in Readers |-> [w[r] EXCEPT !.quiet = IF @ = "yes" /\ w[r].at # "idle" THEN "no" ELSE @]]

InFlight(r) == work[r].at \notin {"idle", "done"}

\* crossed: two readers were at work at once.
Starting(r) == native' = [native EXCEPT !.crossed =
                             IF \E o \in Readers \ {r} : InFlight(o) THEN "yes" ELSE @]

Happens == events < MaxEvents /\ events' = events + 1

HostSteps(change) ==
    /\ Happens
    /\ native' = [change EXCEPT !.version = @ + 1]
    /\ work' = Disturbed(work)
    /\ UNCHANGED <<host, source, view, queue>>

\* The host writes the rest of a line, a whole line, or half of one.
HostWrites ==
    \E d \in IF host \in Exports THEN {2} ELSE {1, 2} :
        /\ native.text + d <= 2 * Len(Script)
        /\ HostSteps([native EXCEPT !.text = @ + d])

\* A workspace is renamed or the session goes on in another one.
HostRebinds ==
    \/ /\ host \in Exports \cup {"antigravity"}
       /\ native.evidence \in {"mine", "other"}
       /\ HostSteps([native EXCEPT !.evidence = IF @ = "mine" THEN "other" ELSE "mine"])
    \/ /\ host \in {"claude-code", "codex", "codex-archive"}
       /\ native.evidence = "mine"
       /\ HostSteps([native EXCEPT !.evidence = "mixed"])

\* A session file is archived or its directory renamed.
HostMoves ==
    /\ host \notin Exports
    /\ native.place = "here"
    /\ HostSteps([native EXCEPT !.place = "there"])

\* Only a structured workspace counts for a selected session.
Roots == CASE native.evidence = "mine" -> {"mine"}
           [] native.evidence = "mixed" -> {"mine", "other"}
           [] OTHER -> {"other"}

---------------------------------------------------------------------------
(* The two readers up to the moment they have something to save. *)

Goes(r, w) == work' = [work EXCEPT ![r] = w]
GivesUp(r) == work' = [work EXCEPT ![r] = AtRest]
ReaderKeeps == UNCHANGED <<host, native, source, view, queue, events>>

\* The scan lists the session by its host's evidence; a Cursor row is pinned
\* in the same transaction.
ScanLists ==
    /\ ~InFlight("scan")
    /\ Listed(native.evidence)
    /\ Goes("scan", [AtRest EXCEPT !.at = "listed", !.place = native.place,
                     !.owner = Roots, !.text = IF Reading.pinned = "yes" THEN native.text ELSE 0])
    /\ Starting("scan")
    /\ UNCHANGED <<host, source, view, queue, events>>

\* The workspace a pinned row was listed under is still its owner.
SameOwner(w) == Roots = w.owner

\* sync_session takes the bytes.  The file may be gone; the owner of a
\* pinned row is looked up once more.
ScanReads ==
    LET w == work["scan"] IN
    /\ w.at = "listed"
    /\ IF Reading.pinned = "yes"
       THEN IF SameOwner(w) THEN Goes("scan", [w EXCEPT !.at = "read", !.owner = {}]) ELSE GivesUp("scan")
       ELSE IF native.place = w.place
            THEN Goes("scan", [w EXCEPT !.at = "read", !.owner = {}, !.text = native.text])
            ELSE GivesUp("scan")
    /\ ReaderKeeps

\* It renders them: the hosts that parse again read the file again.
ScanRenders ==
    LET w == work["scan"]
        t == IF Reading.again = "yes" THEN native.text ELSE w.text
    IN  /\ w.at = "read"
        /\ IF Unparsable(t) \/ (Reading.again = "yes" /\ native.place # w.place)
           THEN GivesUp("scan")
           ELSE Goes("scan", [w EXCEPT !.at = "save", !.shown = Rendered(t)])
        /\ ReaderKeeps

\* The inventory lists by structured metadata, and drops what is not ours.
InspectLists ==
    /\ ~InFlight("inspect")
    /\ host # "codex-archive"
    /\ Roots = {"mine"}
    /\ Goes("inspect", [AtRest EXCEPT !.at = "listed", !.place = native.place, !.owner = Roots])
    /\ Starting("inspect")
    /\ UNCHANGED <<host, source, view, queue, events>>

\* _record_dependency_stamps, before anything is read.
InspectStamps ==
    LET w == work["inspect"] IN
    /\ w.at = "listed"
    /\ Goes("inspect", [w EXCEPT !.at = "stamped", !.seen = native.version])
    /\ ReaderKeeps

\* read_native_source and inspect_native_source: the workspaces of what is
\* read now join those that were listed, a torn text is no source, and a
\* Codex session without dialogue is an empty draft.
InspectReads ==
    LET w == work["inspect"] IN
    /\ w.at = "stamped"
    /\ IF /\ native.place = w.place
          /\ w.owner \cup Roots = {"mine"}
          /\ ~HalfLine(native.text)
          /\ ~Unparsable(native.text)
       THEN Goes("inspect", [w EXCEPT !.at = "render", !.owner = {}, !.text = native.text])
       ELSE GivesUp("inspect")
    /\ ReaderKeeps

\* Mutant: the stamps are taken and never compared.
NeverChanged(w) == TRUE

\* Nothing it depends on moved since the stamps.
StampsHold(w) == native.version = w.seen

\* The capture begins with a look at the stamps; then session_to_observation
\* reads the file once more, except a pinned row.
InspectRenders ==
    LET w == work["inspect"]
        t == IF Reading.pinned = "yes" THEN w.text ELSE native.text
    IN  /\ w.at = "render"
        /\ IF ~StampsHold(w) \/ Unparsable(t) \/ native.place # w.place
           THEN GivesUp("inspect")
           ELSE Goes("inspect", [w EXCEPT !.at = "rendered", !.shown = Rendered(t)])
        /\ ReaderKeeps

\* The stamps again; for Codex also the digest of the reopened file, which is
\* read between two looks at the stamps.
InspectRechecks ==
    LET w == work["inspect"] IN
    /\ w.at = "rendered"
    /\ IF StampsHold(w) THEN Goes("inspect", [w EXCEPT !.at = "save"]) ELSE GivesUp("inspect")
    /\ ReaderKeeps

---------------------------------------------------------------------------
(* persist_session_snapshot. *)

\* Old bytes go on in new ones, unless the file is one JSON document.
Continues(old, new) == old = new \/ (host # "hermes" /\ old <= new)

\* The source a reading belongs to: the one of its locator; for some hosts a
\* scan takes the only source of that session; or the only one it continues.
KeyOf(r, w) ==
    LET known == {p \in Places : source[p] # NoSource}
        logical == IF r = "scan" /\ Reading.logical = "yes" THEN known ELSE {}
        moved == {p \in known : Continues(source[p].rev, Saved(w.text))}
    IN  CASE w.place \in known -> w.place
          [] w.place \notin known /\ Cardinality(logical) = 1 -> CHOOSE p \in logical : TRUE
          [] w.place \notin known /\ Cardinality(logical) # 1 /\ Cardinality(moved) = 1 ->
                 CHOOSE p \in moved : TRUE
          [] OTHER -> w.place

\* What there is to save: a new revision, the row of a source that was
\* missing or has moved, or nothing.
ActionOf(key, w) ==
    CASE source[key] = NoSource -> "snapshot"
      [] source[key] # NoSource /\ source[key].rev # Saved(w.text) -> "snapshot"
      [] OTHER -> IF source[key].status = "missing" \/ source[key].uri # w.place THEN "row" ELSE "keep"

\* Mutant: any rendering of the source will do.
RenderingExists(key, w) == view[key] # NoView

\* The rendering is current when it names this revision.
RenderingCurrent(key, w) == view[key] # NoView /\ view[key].rev = Saved(w.text)

\* What is left to do, in this order.
FromView(current) == IF current = "yes" THEN "queue" ELSE "view"
FromStore(action, current) == IF action = "keep" THEN FromView(current) ELSE "store"

PlanCapture(r) ==
    LET w == work[r]
        key == KeyOf(r, w)
        current == IF RenderingCurrent(key, w) THEN "yes" ELSE "no"
    IN  /\ w.at = "save"
        /\ Goes(r, [w EXCEPT !.at = FromStore(ActionOf(key, w), current),
                    !.seen = 0, !.key = key, !.current = current])
        /\ ReaderKeeps

\* Saving steps disturb the other reader.
Saves(r, w) == work' = [Disturbed(work) EXCEPT ![r] = w]

\* save_snapshot or save_source: the row that was read is written back
\* whole, whatever the ledger says by now.
StoreCapture(r) ==
    LET w == work[r] IN
    /\ w.at = "store"
    /\ source' = [source EXCEPT ![w.key] = [rev |-> Saved(w.text), proof |-> w.text,
                                            status |-> "synced", uri |-> w.place]]
    /\ Saves(r, [w EXCEPT !.at = FromView(w.current)])
    /\ UNCHANGED <<host, native, view, queue, events>>

ViewCapture(r) ==
    LET w == work[r] IN
    /\ w.at = "view"
    /\ view' = [view EXCEPT ![w.key] = [rev |-> Saved(w.text), text |-> w.shown]]
    /\ Saves(r, [AtRest EXCEPT !.at = "queue", !.key = w.key, !.quiet = w.quiet])
    /\ UNCHANGED <<host, native, source, queue, events>>

\* enqueue_distill_job takes the source's revision of this moment and refuses
\* a source that is not synced.
QueueCapture(r) ==
    LET w == work[r] IN
    /\ w.at = "queue"
    /\ IF source[w.key].status = "synced"
       THEN /\ queue' = queue \cup {<<w.key, source[w.key].rev>>}
            /\ Saves(r, [AtRest EXCEPT !.at = "done", !.key = w.key, !.quiet = w.quiet])
       ELSE queue' = queue /\ Saves(r, AtRest)
    /\ UNCHANGED <<host, native, source, view, events>>

\* A scan of another checkout that bears the project's name does not see the
\* session and marks its sources missing.
OtherScanSweeps ==
    /\ Happens
    /\ \E p \in Places : source[p] # NoSource
    /\ source' = [p \in Places |-> IF source[p] = NoSource THEN NoSource
                                   ELSE [source[p] EXCEPT !.status = "missing"]]
    /\ work' = Disturbed(work)
    /\ UNCHANGED <<host, native, view, queue>>

ReaderDies(r) ==
    /\ Happens
    /\ InFlight(r)
    /\ GivesUp(r)
    /\ UNCHANGED <<host, native, source, view, queue>>

CaptureNext ==
    \/ HostWrites \/ HostRebinds \/ HostMoves
    \/ ScanLists \/ ScanReads \/ ScanRenders
    \/ InspectLists \/ InspectStamps \/ InspectReads 
    \/ InspectRenders \/ InspectRechecks
    \/ OtherScanSweeps
    \/ \E r \in Readers : PlanCapture(r) \/ StoreCapture(r) \/ ViewCapture(r)
                         \/ QueueCapture(r) \/ ReaderDies(r)

CaptureSpec == CaptureInit /\ [][CaptureNext]_captureVars

---------------------------------------------------------------------------
(* What a capture promises. *)

Stages == {"idle", "listed", "stamped", "render", "rendered", "read", "save",
           "store", "view", "queue", "done"}

CaptureTypeOK ==
    /\ host \in Hosts
    /\ native.text \in 0..(2 * Len(Script)) /\ native.version \in 0..MaxEvents
    /\ \A p \in Places : source[p] # NoSource => source[p].status \in {"synced", "missing"}
    /\ \A r \in Readers : work[r].at \in Stages /\ work[r].quiet \in {"yes", "no"}
    /\ queue \subseteq Places \X (0..(2 * Len(Script)))

\* A reader that was alone with the session left it whole: the current
\* revision is what the host holds, the search rendering is a rendering of
\* it and says so, and a distill job waits for it - whatever crashed, raced
\* or was swept before.
WholeWhenQuiet ==
    \A r \in Readers :
        LET w == work[r] IN
        w.at = "done" /\ w.quiet = "yes" =>
            /\ source[w.key].rev = Saved(native.text)
            /\ source[w.key].status = "synced"
            /\ source[w.key].uri = native.place
            /\ view[w.key] = [rev |-> Saved(native.text), text |-> RenderingOf(Saved(native.text))]
            /\ <<w.key, Saved(native.text)>> \in queue

\* What an inspection goes on to save is one version of the session, read
\* whole, that belonged to this workspace alone.
InspectedIsWhole ==
    LET w == work["inspect"] IN
    /\ w.at \in {"save", "store", "view"} => w.shown = Rendered(w.text) /\ ~HalfLine(w.text)
    /\ w.at = "save" /\ native.version = w.seen => native.text = w.text /\ Roots = {"mine"}

\* The native bytes whose digest later allows the cleanup to delete the
\* session are bytes that say what the revision says.
ProvenIsSaved ==
    \A p \in Places : source[p] # NoSource => Saved(source[p].proof) = source[p].rev

\* Nothing stale is left to be final: a rendering that names the revision the
\* host still holds renders that revision, also while somebody reads.
NothingStaleIsFinal ==
    \A p \in Places : view[p] # NoView /\ view[p].rev = Saved(native.text) =>
        view[p].text = RenderingOf(view[p].rev)

\* A file that only grew is one source wherever it lies and whenever it moved,
\* unless two readers were at work at once.  (A moved Hermes document that also
\* grew is a second source for an inspection.)
OneSource ==
    native.crossed = "no" /\ host # "hermes" => Cardinality({p \in Places : source[p] # NoSource}) <= 1

CaptureIsWhole ==
    CaptureTypeOK /\ WholeWhenQuiet /\ InspectedIsWhole /\ ProvenIsSaved
    /\ NothingStaleIsFinal /\ OneSource

=============================================================================
