---------------------------- MODULE SourceCleanup ----------------------------
(* The cleanup of one processed session: the host's native files are claimed by *)
(* renaming them, checked on the claim and deleted, and only then the promoted  *)
(* truth is redacted and the raw evidence of the ledger is pruned.  Every       *)
(* process that finalises the completed job, or replays its finalisation, runs  *)
(* the whole sequence; nothing but the file system and the ledger keeps two of  *)
(* them apart, a crash can come between any two steps, and the host may write   *)
(* its file again at any time.                                                  *)
EXTENDS Naturals, FiniteSets

CONSTANTS
    Cleaner,    \* processes that finalise the job or replay its finalisation
    MaxTurns,   \* bound on the host's writes
    MaxMishaps  \* bound on crashes and failing operations

ASSUME CleanupAssumption == MaxTurns \in Nat /\ MaxMishaps \in Nat

VARIABLES
    file,       \* the native session file under its own name
    claim,      \* the same file under the claim name
    side,       \* the companion artifacts of the session, under their own name
    sideClaim,  \* and under their claim name
    head,       \* "same" while the ledger's current revision is the job's
    raw,        \* the raw evidence of the ledger: "kept" or "pruned"
    kept,       \* the provenance of the promoted truth: "raw" or "clean"
    derived,    \* observations and derived records: "kept" or "gone"
    blocked,    \* an output candidate of the job is still unresolved
    verdict,    \* source_cleanup_status of the job
    receipt,    \* each process's latest deletion receipt
    clean,      \* each process: step, manifests of its plan, its side claim, its result
    overlapped, \* two processes have been cleaning at the same time
    turns,
    mishaps

native == <<file, claim, side, sideClaim>>
ledger == <<head, raw, kept, derived, blocked>>
cleanVars == <<native, ledger, verdict, receipt, clean, overlapped, turns, mishaps>>

\* "done" is the content that was processed, "new" what the host wrote since, and
\* "late" what it wrote between a cleaner's last look and the act that relies on it
Bytes == {"none", "done", "new", "late"}
Folder == {"none", "part", "whole"}
Step == {"idle", "apply", "verify", "side", "verify_all", "restore", "give_back",
         "drop_side", "drop_file", "report", "truth", "derived", "prune", "close", "final"}
Rest == [at |-> "idle", whole |-> "no", folder |-> "none", holds |-> "no", result |-> "none"]

CleanTypeOK ==
    /\ file \in Bytes /\ claim \in Bytes
    /\ side \in Folder /\ sideClaim \in Folder
    /\ head \in {"same", "moved"}
    /\ raw \in {"kept", "pruned"}
    /\ kept \in {"raw", "clean"}
    /\ derived \in {"kept", "gone"}
    /\ blocked \in {"yes", "no"}
    /\ verdict \in {"retained", "partial_failure", "deleted"}
    /\ receipt \in [Cleaner -> {"none", "in_progress", "partial_failure", "succeeded"}]
    /\ clean \in [Cleaner -> [at : Step, whole : {"yes", "no"}, folder : Folder,
                              holds : {"yes", "no"},
                              result : {"none", "retained", "partial_failure", "deleted"}]]
    /\ overlapped \in {"yes", "no"}
    /\ turns \in 0..MaxTurns
    /\ mishaps \in 0..MaxMishaps

CleanInit ==
    /\ file = "done" /\ claim = "none"
    /\ side \in {"none", "whole"} /\ sideClaim = "none"
    /\ head = "same" /\ raw = "kept" /\ kept = "raw" /\ derived = "kept"
    /\ blocked \in {"yes", "no"}
    /\ verdict = "retained"
    /\ receipt = [c \in Cleaner |-> "none"]
    /\ clean = [c \in Cleaner |-> Rest]
    /\ overlapped = "no" /\ turns = 0 /\ mishaps = 0

GoesTo(c, at) == clean' = [clean EXCEPT ![c].at = at]
Ended(c, result) == clean' = [clean EXCEPT ![c].at = "report", ![c].result = result]
Mishap == mishaps < MaxMishaps /\ mishaps' = mishaps + 1
------------------------------------------------------------------------------
(* Mutant of Plannable: a claim left behind does not explain a missing file.    *)
PlansOwnNameOnly == file = "done" \/ (file = "none" /\ claim = "none" /\ side = "none")

(* What a plan accepts.  A changed or missing file is left alone unless this    *)
(* job's own claim explains its absence; the manifests are those of what is     *)
(* still under its own name.                                                    *)
Plannable ==
    \/ file = "done"
    \/ /\ file = "none" /\ claim # "none"
       /\ ~(side # "none" /\ sideClaim # "none")
    \/ file = "none" /\ claim = "none" /\ side = "none"

(* Preview and in-progress receipt, while the source is still the job's.        *)
PlanCleanup(c) ==
    /\ clean[c].at = "idle"
    /\ verdict # "deleted"
    /\ head = "same"
    /\ raw = "kept"          \* a pruned source has no native locator any more
    /\ Plannable
    /\ clean' = [clean EXCEPT ![c] =
                    [Rest EXCEPT !.at = "apply",
                                 !.whole = IF file = "none" THEN "no" ELSE "yes",
                                 !.folder = side]]
    /\ receipt' = [receipt EXCEPT ![c] = "in_progress"]
    /\ overlapped' = IF \E d \in Cleaner \ {c} : clean[d].at # "idle" THEN "yes" ELSE overlapped
    /\ UNCHANGED <<native, ledger, verdict, turns, mishaps>>

(* The activity probes are repeated: a host at work keeps its file.             *)
HostIsActive(c) ==
    /\ clean[c].at = "apply"
    /\ Mishap
    /\ Ended(c, "retained")
    /\ UNCHANGED <<native, ledger, verdict, receipt, turns, overlapped>>

Conflicted(c) ==
    \/ claim # "none" /\ file # "none"
    \/ clean[c].folder # "none" /\ sideClaim # "none" /\ side # "none"

(* The primary file is renamed to the claim name, or an earlier claim taken over. *)
ClaimFile(c) ==
    /\ clean[c].at = "apply"
    /\ \/ /\ Conflicted(c)
          /\ Ended(c, "partial_failure")
          /\ UNCHANGED <<file, claim>>
       \/ /\ ~Conflicted(c) /\ claim # "none"
          /\ GoesTo(c, "verify")
          /\ UNCHANGED <<file, claim>>
       \/ /\ ~Conflicted(c) /\ claim = "none" /\ file # "none"
          /\ GoesTo(c, "verify")
          /\ claim' = file /\ file' = "none"
       \/ /\ ~Conflicted(c) /\ claim = "none" /\ file = "none"
          /\ Ended(c, "partial_failure")      \* missing before the claim
          /\ UNCHANGED <<file, claim>>
    /\ UNCHANGED <<side, sideClaim, ledger, verdict, receipt, turns, mishaps, overlapped>>

(* Mutant of FileMatches: the claim is trusted because its name is.             *)
TrustsClaimName(c) == claim # "none" /\ clean[c].whole = "yes"

(* The claimed object is the planned one: digest and manifest.                  *)
FileMatches(c) == claim = "done" /\ clean[c].whole = "yes"

VerifyFile(c) ==
    /\ clean[c].at = "verify"
    /\ GoesTo(c, IF FileMatches(c) THEN "side" ELSE "restore")
    /\ UNCHANGED <<native, ledger, verdict, receipt, turns, mishaps, overlapped>>

(* Only a companion that the plan found under its own name is claimed, or taken *)
(* over from who claimed it since; one that a dead cleaner left under its claim *)
(* name is not looked for.                                                      *)
ClaimSide(c) ==
    /\ clean[c].at = "side"
    /\ LET listed == clean[c].folder # "none"
       IN IF listed /\ side # "none" /\ sideClaim # "none"
          THEN GoesTo(c, "restore") /\ UNCHANGED <<side, sideClaim>>
          ELSE /\ clean' = [clean EXCEPT ![c].at = "verify_all",
                                ![c].holds = IF listed /\ (side # "none" \/ sideClaim # "none")
                                             THEN "yes" ELSE "no"]
               /\ IF listed /\ sideClaim = "none"
                  THEN sideClaim' = side /\ side' = "none"
                  ELSE UNCHANGED <<side, sideClaim>>
    /\ UNCHANGED <<file, claim, ledger, verdict, receipt, turns, mishaps, overlapped>>

VerifyAll(c) ==
    /\ clean[c].at = "verify_all"
    /\ LET folderMatches == clean[c].holds = "yes" => clean[c].folder = sideClaim
       IN GoesTo(c, IF FileMatches(c) /\ folderMatches THEN "drop_side" ELSE "restore")
    /\ UNCHANGED <<native, ledger, verdict, receipt, turns, mishaps, overlapped>>

(* Each claim goes back to its own name, unless the name is taken by now: the   *)
(* companions' first, then the session's file's, if a look finds the name free. *)
Restore(c) ==
    /\ clean[c].at = "restore"
    /\ LET sideBack == clean[c].holds = "yes" /\ sideClaim # "none"
           taken == (claim # "none" /\ file # "none") \/ (sideBack /\ side # "none")
           free == claim # "none" /\ file = "none"
       IN /\ IF sideBack /\ side = "none"
             THEN side' = sideClaim /\ sideClaim' = "none"
             ELSE UNCHANGED <<side, sideClaim>>
          /\ clean' = [clean EXCEPT ![c].at = IF free THEN "give_back" ELSE "report",
                           ![c].result = IF taken THEN "partial_failure" ELSE "retained"]
    /\ UNCHANGED <<file, claim, ledger, verdict, receipt, turns, mishaps, overlapped>>

(* The rename replaces what stands under the name by now, or is refused for it. *)
GiveBack(c) ==
    /\ clean[c].at = "give_back"
    /\ \/ /\ claim # "none"
          /\ file' = claim /\ claim' = "none"
          /\ Ended(c, clean[c].result)
       \/ /\ claim = "none" \/ file # "none"
          /\ Ended(c, "partial_failure")
          /\ UNCHANGED <<file, claim>>
    /\ UNCHANGED <<side, sideClaim, ledger, verdict, receipt, turns, mishaps, overlapped>>

(* Companions are deleted first, so that a failure keeps the primary claim.     *)
DropSide(c) ==
    /\ clean[c].at = "drop_side"
    /\ \/ /\ clean[c].holds = "no"
          /\ GoesTo(c, "drop_file")
          /\ UNCHANGED <<sideClaim, mishaps>>
       \/ /\ clean[c].holds = "yes" /\ sideClaim = "none"
          /\ Ended(c, "partial_failure")
          /\ UNCHANGED <<sideClaim, mishaps>>
       \/ /\ clean[c].holds = "yes" /\ sideClaim # "none"
          /\ sideClaim' = "none"
          /\ GoesTo(c, "drop_file")
          /\ UNCHANGED mishaps
       \/ /\ clean[c].holds = "yes" /\ sideClaim # "none"
          /\ sideClaim' = "part"
          /\ Ended(c, "partial_failure")
          /\ Mishap
    /\ UNCHANGED <<file, claim, side, ledger, verdict, receipt, turns, overlapped>>

DropFile(c) ==
    /\ clean[c].at = "drop_file"
    /\ \/ /\ claim # "none"
          /\ claim' = "none"
          /\ Ended(c, "deleted")
          /\ UNCHANGED mishaps
       \/ /\ claim = "none"
          /\ Ended(c, "partial_failure")
          /\ UNCHANGED <<claim, mishaps>>
       \/ /\ claim # "none"
          /\ Ended(c, "partial_failure")
          /\ Mishap
          /\ UNCHANGED claim
    /\ UNCHANGED <<file, side, sideClaim, ledger, verdict, receipt, turns, overlapped>>
------------------------------------------------------------------------------
Failed(c) ==
    /\ verdict' = "partial_failure"
    /\ receipt' = [receipt EXCEPT ![c] = "partial_failure"]
    /\ clean' = [clean EXCEPT ![c].at = "final", ![c].result = "partial_failure"]

(* Mutant of MayGoOn: a source that was kept is pruned as well.                 *)
GoesOnRetained(c) == clean[c].result # "partial_failure" /\ blocked = "no"

MayGoOn(c) == clean[c].result = "deleted" /\ blocked = "no"

(* The host's result is recorded; only a deleted source is cleaned up further,  *)
(* and only when no candidate of the job is still open.                         *)
Report(c) ==
    /\ clean[c].at = "report"
    /\ IF MayGoOn(c)
       THEN GoesTo(c, "truth") /\ UNCHANGED <<verdict, receipt>>
       ELSE Failed(c)
    /\ UNCHANGED <<native, ledger, turns, mishaps, overlapped>>

SanitizeTruth(c) ==
    /\ clean[c].at = "truth"
    /\ kept' = "clean"
    /\ GoesTo(c, "derived")
    /\ UNCHANGED <<native, head, raw, derived, blocked, verdict, receipt, turns, mishaps, overlapped>>

DropDerived(c) ==
    /\ clean[c].at = "derived"
    /\ derived' = "gone"
    /\ GoesTo(c, "prune")
    /\ UNCHANGED <<native, head, raw, kept, blocked, verdict, receipt, turns, mishaps, overlapped>>

StepFails(c) ==
    /\ clean[c].at \in {"truth", "derived", "prune", "close"}
    /\ Mishap
    /\ Failed(c)
    /\ UNCHANGED <<native, ledger, turns, overlapped>>

(* One transaction: evidence out, every job of the source marked deleted; it    *)
(* rolls back when the source has a newer revision.                             *)
Prune(c) ==
    /\ clean[c].at = "prune"
    /\ IF head = "same"
       THEN /\ raw' = "pruned"
            /\ verdict' = "deleted"
            /\ GoesTo(c, "close")
            /\ UNCHANGED receipt
       ELSE Failed(c) /\ UNCHANGED raw
    /\ UNCHANGED <<native, head, kept, derived, blocked, turns, mishaps, overlapped>>

(* Verification reads everything back; chunks captured meanwhile are residue.   *)
ReadsBack == head = "same" /\ raw = "pruned" /\ kept = "clean" /\ derived = "gone"
Close(c) ==
    /\ clean[c].at = "close"
    /\ IF ReadsBack
       THEN /\ verdict' = "deleted"
            /\ receipt' = [receipt EXCEPT ![c] = "succeeded"]
            /\ clean' = [clean EXCEPT ![c].at = "final", ![c].result = "deleted"]
       ELSE Failed(c)
    /\ UNCHANGED <<native, ledger, turns, mishaps, overlapped>>

(* The first finalisation writes its result again with the completion outcome   *)
(* (a note that could not be deleted makes it a failure); a replay does not.    *)
RecordResult(c) ==
    /\ clean[c].at = "final"
    /\ verdict' \in {verdict, clean[c].result, "partial_failure"}
    /\ GoesTo(c, "idle")
    /\ UNCHANGED <<native, ledger, receipt, turns, mishaps, overlapped>>

CleanerCrash(c) ==
    /\ clean[c].at # "idle"
    /\ Mishap
    /\ clean' = [clean EXCEPT ![c] = Rest]
    /\ UNCHANGED <<native, ledger, verdict, receipt, turns, overlapped>>
------------------------------------------------------------------------------
Turn == turns < MaxTurns /\ turns' = turns + 1

(* Bytes written while a cleaner stands past the look that its next act relies  *)
(* on are late for it.                                                          *)
HostBytes(steps) == IF \E c \in Cleaner : clean[c].at \in steps THEN "late" ELSE "new"

(* The host opens its session by name: it appends to the file or makes it anew. *)
HostWrites ==
    /\ Turn
    /\ file' = HostBytes({"give_back"})
    /\ UNCHANGED <<claim, side, sideClaim, ledger, verdict, receipt, clean, mishaps, overlapped>>

(* A host that still has the file open appends to whatever name it has.         *)
HostAppends ==
    /\ Turn
    /\ claim = "done"
    /\ claim' = HostBytes({"drop_side", "drop_file"})
    /\ UNCHANGED <<file, side, sideClaim, ledger, verdict, receipt, clean, mishaps, overlapped>>

(* The next scan stores what the host wrote as a newer revision of the source.  *)
CaptureNew ==
    /\ file \in {"new", "late"} /\ head = "same"
    /\ head' = "moved"
    /\ UNCHANGED <<native, raw, kept, derived, blocked, verdict, receipt, clean, turns, mishaps, overlapped>>

(* The session's candidates are resolved outside of this cleanup.               *)
ResolveOutputs ==
    /\ blocked = "yes"
    /\ blocked' = "no"
    /\ UNCHANGED <<native, head, raw, kept, derived, verdict, receipt, clean, turns, mishaps, overlapped>>

CleanStep(c) ==
    \/ PlanCleanup(c) \/ ClaimFile(c) \/ VerifyFile(c) \/ ClaimSide(c) \/ VerifyAll(c)
    \/ Restore(c) \/ GiveBack(c) \/ DropSide(c) \/ DropFile(c) \/ Report(c)
    \/ SanitizeTruth(c) \/ DropDerived(c) \/ Prune(c) \/ Close(c) \/ RecordResult(c)

CleanNext ==
    \/ \E c \in Cleaner : CleanStep(c) \/ HostIsActive(c) \/ StepFails(c) \/ CleanerCrash(c)
    \/ HostWrites \/ HostAppends \/ CaptureNew \/ ResolveOutputs

CleanSpec == CleanInit /\ [][CleanNext]_cleanVars

(* Someone keeps replaying the finalisation of a job that is not cleaned up.    *)
CleanFairness == \A c \in Cleaner : WF_cleanVars(CleanStep(c))
------------------------------------------------------------------------------
New(b) == IF b = "new" THEN 1 ELSE 0

KeepsNewBytes == New(file') + New(claim') >= New(file) + New(claim)

(* A cleanup that has had no rival never loses what the host wrote since the    *)
(* content was processed, under whichever name it is found, but for the bytes   *)
(* that come too late for its last look: between the verification of all claims *)
(* and the unlink, or between the look at a free name and the rename back.      *)
NewBytesSurviveAlone == [][overlapped' = "no" => KeepsNewBytes]_cleanVars

(* Raw evidence goes last: when the ledger has pruned it, the processed file is *)
(* gone under both of its names, the derived records are gone and no promoted   *)
(* truth points at the evidence; and a receipt claims success of nothing less.  *)
PruneIsLast ==
    /\ raw = "pruned" => /\ file # "done" /\ claim # "done"
                         /\ kept = "clean" /\ derived = "gone"
    /\ \A c \in Cleaner : receipt[c] = "succeeded" => raw = "pruned"

(* The claim of the session's own file is not abandoned: the file is deleted or *)
(* gets its name back, unless the host has written to it or has taken the name. *)
ClaimsAreSettled == claim = "done" ~> (claim # "done" \/ file \in {"new", "late"})
==============================================================================
