------------------------- MODULE SourceCleanupProofs -------------------------
(* What a cleanup may prune and delete, for any number of cleaners and turns,   *)
(* and what the erasure of a session leaves, for any revisions, records and     *)
(* captures.                                                                    *)
EXTENDS SourceCleanup, Erasure, WellFoundedInduction, TLAPS

CleanRecord == [at : Step, whole : {"yes", "no"}, folder : Folder, holds : {"yes", "no"},
                result : {"none", "retained", "partial_failure", "deleted"}]

\* The processed content exists once, and no longer when somebody deleted it.
OneCopy == file = "done" => claim = "none"
Gone == file # "done" /\ claim # "done"

\* How far the cleanup has come when a cleaner stands where it stands.
PastDeletion(c) == clean[c].at \in {"truth", "derived", "prune", "close"}
                   \/ (clean[c].at = "report" /\ clean[c].result = "deleted")

GoneAsClaimed ==
    \A c \in Cleaner :
        /\ PastDeletion(c) => Gone
        /\ clean[c].at \in {"derived", "prune", "close"} => kept = "clean"
        /\ clean[c].at \in {"prune", "close"} => derived = "gone"

\* A cleaner that ends the sequence has a result to record.
Settled == \A c \in Cleaner :
    /\ clean[c].at = "final" => clean[c].result \in {"partial_failure", "deleted"}
    /\ clean[c].at = "give_back" => clean[c].result \in {"retained", "partial_failure"}

PruneInv == CleanTypeOK /\ Settled /\ OneCopy /\ GoneAsClaimed /\ PruneIsLast

-----------------------------------------------------------------------------
(* What the helpers do to the cleaner that takes the step, and to nobody else.  *)
LEMMA OneCleanerMoves ==
  ASSUME NEW R, NEW g \in [Cleaner -> R], NEW c \in Cleaner, NEW x \in R,
         NEW h, h = [g EXCEPT ![c] = x]
  PROVE  /\ h \in [Cleaner -> R]
         /\ h[c] = x
         /\ \A d \in Cleaner \ {c} : h[d] = g[d]
  OBVIOUS

\* Where a cleaner stands and its result are written in turn, into its own
\* record.
LEMMA ResultSets ==
  ASSUME CleanTypeOK, NEW c \in Cleaner, NEW at \in Step,
         NEW r \in {"none", "retained", "partial_failure", "deleted"},
         clean' = [clean EXCEPT ![c].at = at, ![c].result = r]
  PROVE  /\ clean' \in [Cleaner -> CleanRecord]
         /\ clean'[c].at = at /\ clean'[c].result = r
         /\ \A d \in Cleaner \ {c} : clean'[d] = clean[d]
  <1> DEFINE q == [clean[c] EXCEPT !.at = at]
             m == [clean EXCEPT ![c] = q]
             x == [q EXCEPT !.result = r]
  <1>1. clean \in [Cleaner -> CleanRecord]
    BY DEF CleanTypeOK, CleanRecord
  <1>2. clean' = [m EXCEPT ![c] = [m[c] EXCEPT !.result = r]] /\ m[c] = q
    BY <1>1
  <1>3. q \in CleanRecord /\ q.at = at
    BY <1>1 DEF CleanRecord
  <1> HIDE DEF q
  <1>4. x \in CleanRecord /\ x.at = at /\ x.result = r
    BY <1>3 DEF CleanRecord
  <1>5. clean' = [clean EXCEPT ![c] = x]
    BY <1>1, <1>2
  <1> HIDE DEF x, m
  <1>6. /\ clean' \in [Cleaner -> CleanRecord]
        /\ clean'[c] = x
        /\ \A d \in Cleaner \ {c} : clean'[d] = clean[d]
    BY ONLY <1>1, <1>4, <1>5, c \in Cleaner, OneCleanerMoves
  <1> QED
    BY ONLY <1>4, <1>6

LEMMA GoesToSets ==
  ASSUME CleanTypeOK, NEW c \in Cleaner, NEW at \in Step, GoesTo(c, at)
  PROVE  /\ clean' \in [Cleaner -> CleanRecord]
         /\ clean'[c].at = at /\ clean'[c].result = clean[c].result
         /\ \A d \in Cleaner \ {c} : clean'[d] = clean[d]
  <1> DEFINE x == [clean[c] EXCEPT !.at = at]
  <1>1. clean \in [Cleaner -> CleanRecord]
    BY DEF CleanTypeOK, CleanRecord
  <1>2. clean' = [clean EXCEPT ![c] = x]
    BY DEF GoesTo
  <1>3. x \in CleanRecord /\ x.at = at /\ x.result = clean[c].result
    BY <1>1 DEF CleanRecord
  <1> HIDE DEF x
  <1> QED
    BY <1>1, <1>2, <1>3, OneCleanerMoves

\* Ending a cleanup rewrites only the cleaner's own record.
LEMMA EndedSets ==
  ASSUME CleanTypeOK, NEW c \in Cleaner, NEW r \in {"retained", "partial_failure", "deleted"},
         Ended(c, r)
  PROVE  /\ clean' \in [Cleaner -> CleanRecord]
         /\ clean'[c].at = "report" /\ clean'[c].result = r
         /\ \A d \in Cleaner \ {c} : clean'[d] = clean[d]
  <1>1. clean' = [clean EXCEPT ![c].at = "report", ![c].result = r] /\ "report" \in Step
    BY DEF Ended, Step
  <1> QED
    BY <1>1, ResultSets, ZenonT(60)

\* Claiming the side file, or finding none, rewrites only the cleaner's own
\* record.
LEMMA SideIsClaimed ==
  ASSUME CleanTypeOK, NEW c \in Cleaner, ClaimSide(c)
  PROVE  /\ clean' \in [Cleaner -> CleanRecord]
         /\ clean'[c].at \in {"restore", "verify_all"} /\ clean'[c].result = clean[c].result
         /\ \A d \in Cleaner \ {c} : clean'[d] = clean[d]
  <1> DEFINE listed == clean[c].folder # "none"
             both == listed /\ side # "none" /\ sideClaim # "none"
             h == IF listed /\ (side # "none" \/ sideClaim # "none") THEN "yes" ELSE "no"
             q == [clean[c] EXCEPT !.at = "verify_all"]
             m == [clean EXCEPT ![c] = q]
             x == [q EXCEPT !.holds = h]
  <1>1. CASE both
    BY <1>1, GoesToSets DEF ClaimSide, Step
  <1>2. CASE ~both
    <2>1. h \in {"yes", "no"}
      OBVIOUS
    <2>2. clean \in [Cleaner -> CleanRecord]
      BY DEF CleanTypeOK, CleanRecord
    <2>3. clean' = [m EXCEPT ![c] = [m[c] EXCEPT !.holds = h]] /\ m[c] = q
      BY <1>2, <2>2 DEF ClaimSide
    <2> HIDE DEF h
    <2>4. q \in CleanRecord /\ q.at = "verify_all" /\ q.result = clean[c].result
      BY <2>2 DEF CleanRecord, Step
    <2> HIDE DEF q
    <2>5. x \in CleanRecord /\ x.at = "verify_all" /\ x.result = clean[c].result
      BY <2>1, <2>4 DEF CleanRecord
    <2>6. clean' = [clean EXCEPT ![c] = x]
      BY <2>2, <2>3
    <2> HIDE DEF x
    <2> QED
      BY <2>2, <2>5, <2>6, OneCleanerMoves
  <1> QED
    BY <1>1, <1>2

\* Looking at the names sets where the claims go back to, and what came of it.
LEMMA RestoreSets ==
  ASSUME CleanTypeOK, NEW c \in Cleaner, Restore(c)
  PROVE  /\ clean' \in [Cleaner -> CleanRecord]
         /\ clean'[c].at \in {"give_back", "report"}
         /\ clean'[c].at = "give_back" => file = "none"
         /\ clean'[c].result \in {"retained", "partial_failure"}
         /\ \A d \in Cleaner \ {c} : clean'[d] = clean[d]
  <1>1. PICK at \in {"give_back", "report"}, r \in {"retained", "partial_failure"} :
            /\ clean' = [clean EXCEPT ![c].at = at, ![c].result = r]
            /\ at = "give_back" => file = "none"
    BY DEF Restore
  <1>2. at \in Step /\ r \in {"none", "retained", "partial_failure", "deleted"}
    BY DEF Step
  <1> QED
    BY <1>1, <1>2, ResultSets

\* A failure rewrites the cleaner's own record, and turns no receipt into a
\* success.
LEMMA FailedSets ==
  ASSUME CleanTypeOK, NEW c \in Cleaner, Failed(c)
  PROVE  /\ clean' \in [Cleaner -> CleanRecord]
         /\ clean'[c].at = "final" /\ clean'[c].result = "partial_failure"
         /\ \A d \in Cleaner \ {c} : clean'[d] = clean[d]
         /\ verdict' = "partial_failure"
         /\ receipt' \in [Cleaner -> {"none", "in_progress", "partial_failure", "succeeded"}]
         /\ \A d \in Cleaner : receipt'[d] = "succeeded" => receipt[d] = "succeeded"
  <1>1. /\ clean' = [clean EXCEPT ![c].at = "final", ![c].result = "partial_failure"]
        /\ verdict' = "partial_failure" /\ "final" \in Step
    BY DEF Failed, Step
  <1>2. /\ clean' \in [Cleaner -> CleanRecord]
        /\ clean'[c].at = "final" /\ clean'[c].result = "partial_failure"
        /\ \A d \in Cleaner \ {c} : clean'[d] = clean[d]
    BY <1>1, ResultSets
  <1>3. /\ receipt \in [Cleaner -> {"none", "in_progress", "partial_failure", "succeeded"}]
        /\ receipt' = [receipt EXCEPT ![c] = "partial_failure"]
    BY DEF CleanTypeOK, Failed
  <1>4. /\ receipt' \in [Cleaner -> {"none", "in_progress", "partial_failure", "succeeded"}]
        /\ \A d \in Cleaner : receipt'[d] = "succeeded" => receipt[d] = "succeeded"
    BY <1>3
  <1> QED
    BY <1>1, <1>2, <1>4

\* Closing a cleanup rewrites only the cleaner's own record.
LEMMA ClosedSets ==
  ASSUME CleanTypeOK, NEW c \in Cleaner, Close(c)
  PROVE  /\ clean' \in [Cleaner -> CleanRecord]
         /\ clean'[c].at = "final" /\ clean'[c].result \in {"partial_failure", "deleted"}
         /\ \A d \in Cleaner \ {c} : clean'[d] = clean[d]
  <1>1. CASE Failed(c)
    BY <1>1, FailedSets, SMTT(40)
  <1>2. CASE ~Failed(c)
    <2>1. clean' = [clean EXCEPT ![c].at = "final", ![c].result = "deleted"] /\ "final" \in Step
      BY <1>2 DEF Close, Step
    <2> QED
      BY <2>1, ResultSets
  <1> QED
    BY <1>1, <1>2

(* The bounds on turns and mishaps are kept by what counts them.                *)
LEMMA Counted ==
  /\ CleanTypeOK /\ Turn => turns' \in 0..MaxTurns
  /\ CleanTypeOK /\ Mishap => mishaps' \in 0..MaxMishaps
  BY CleanupAssumption DEF CleanTypeOK, Turn, Mishap

(* Types are kept. *)
LEMMA CleanTypeKept == CleanTypeOK /\ Settled /\ [CleanNext]_cleanVars => CleanTypeOK'
  <1> SUFFICES ASSUME CleanTypeOK, Settled, [CleanNext]_cleanVars PROVE CleanTypeOK'
    OBVIOUS
  <1> DEFINE CleanersOK == clean \in [Cleaner -> CleanRecord]
             CountsOK == turns \in 0..MaxTurns /\ mishaps \in 0..MaxMishaps
             ReceiptsOK == /\ verdict \in {"retained", "partial_failure", "deleted"}
                           /\ receipt \in [Cleaner -> {"none", "in_progress", "partial_failure",
                                                       "succeeded"}]
             StoresOK == /\ file \in Bytes /\ claim \in Bytes
                         /\ side \in Folder /\ sideClaim \in Folder
                         /\ head \in {"same", "moved"}
                         /\ raw \in {"kept", "pruned"}
                         /\ kept \in {"raw", "clean"}
                         /\ derived \in {"kept", "gone"}
                         /\ blocked \in {"yes", "no"}
                         /\ overlapped \in {"yes", "no"}
  <1>a. CleanersOK /\ CountsOK /\ ReceiptsOK /\ StoresOK
    BY DEF CleanTypeOK, CleanRecord
  <1>b. SUFFICES CleanersOK' /\ CountsOK' /\ ReceiptsOK' /\ StoresOK'
    BY DEF CleanTypeOK, CleanRecord
  <1>1. ASSUME NEW c \in Cleaner, PlanCleanup(c)
        PROVE  CleanersOK' /\ CountsOK' /\ ReceiptsOK' /\ StoresOK'
    <2>1. CleanersOK'
      BY <1>1, <1>a DEF PlanCleanup, CleanRecord, Step, Rest, Folder
    <2>2. CountsOK'
      BY <1>1, <1>a, Counted DEF PlanCleanup
    <2>3. ReceiptsOK'
      BY <1>1, <1>a DEF PlanCleanup
    <2>4. StoresOK'
      BY <1>1, <1>a DEF PlanCleanup, native, ledger, Bytes, Folder
    <2> QED
      BY <2>1, <2>2, <2>3, <2>4
  <1>2. ASSUME NEW c \in Cleaner, HostIsActive(c)
        PROVE  CleanersOK' /\ CountsOK' /\ ReceiptsOK' /\ StoresOK'
    <2>1. CleanersOK'
      BY <1>2, <1>a, EndedSets DEF HostIsActive, Step
    <2>2. CountsOK'
      BY <1>2, <1>a, Counted DEF HostIsActive
    <2>3. ReceiptsOK'
      BY <1>2, <1>a DEF HostIsActive
    <2>4. StoresOK'
      BY <1>2, <1>a DEF HostIsActive, native, ledger, Bytes, Folder
    <2> QED
      BY <2>1, <2>2, <2>3, <2>4
  <1>3. ASSUME NEW c \in Cleaner, ClaimFile(c)
        PROVE  CleanersOK' /\ CountsOK' /\ ReceiptsOK' /\ StoresOK'
    <2>1. CleanersOK'
      BY <1>3, <1>a, GoesToSets, EndedSets DEF ClaimFile, Step
    <2>2. CountsOK'
      BY <1>3, <1>a, Counted DEF ClaimFile
    <2>3. ReceiptsOK'
      BY <1>3, <1>a DEF ClaimFile
    <2>4. StoresOK'
      BY <1>3, <1>a DEF ClaimFile, ledger, Bytes, Folder
    <2> QED
      BY <2>1, <2>2, <2>3, <2>4
  <1>4. ASSUME NEW c \in Cleaner, VerifyFile(c)
        PROVE  CleanersOK' /\ CountsOK' /\ ReceiptsOK' /\ StoresOK'
    <2>1. CleanersOK'
      BY <1>4, <1>a, GoesToSets DEF VerifyFile, Step
    <2>2. CountsOK'
      BY <1>4, <1>a, Counted DEF VerifyFile
    <2>3. ReceiptsOK'
      BY <1>4, <1>a DEF VerifyFile
    <2>4. StoresOK'
      BY <1>4, <1>a DEF VerifyFile, native, ledger, Bytes, Folder
    <2> QED
      BY <2>1, <2>2, <2>3, <2>4
  <1>5. ASSUME NEW c \in Cleaner, ClaimSide(c)
        PROVE  CleanersOK' /\ CountsOK' /\ ReceiptsOK' /\ StoresOK'
    <2>1. CleanersOK'
      BY <1>5, <1>a, SideIsClaimed DEF ClaimSide, Step
    <2>2. CountsOK'
      BY <1>5, <1>a, Counted DEF ClaimSide
    <2>3. ReceiptsOK'
      BY <1>5, <1>a DEF ClaimSide
    <2>4. StoresOK'
      BY <1>5, <1>a DEF ClaimSide, ledger, Bytes, Folder
    <2> QED
      BY <2>1, <2>2, <2>3, <2>4
  <1>6. ASSUME NEW c \in Cleaner, VerifyAll(c)
        PROVE  CleanersOK' /\ CountsOK' /\ ReceiptsOK' /\ StoresOK'
    <2>1. CleanersOK'
      BY <1>6, <1>a, GoesToSets DEF VerifyAll, Step
    <2>2. CountsOK'
      BY <1>6, <1>a, Counted DEF VerifyAll
    <2>3. ReceiptsOK'
      BY <1>6, <1>a DEF VerifyAll
    <2>4. StoresOK'
      <3>1. UNCHANGED <<file, claim, side, sideClaim, head, raw, kept, derived, blocked, overlapped>>
        BY <1>6 DEF VerifyAll, native, ledger
      <3> QED
        BY <3>1, <1>a
    <2> QED
      BY <2>1, <2>2, <2>3, <2>4
  <1>7. ASSUME NEW c \in Cleaner, Restore(c)
        PROVE  CleanersOK' /\ CountsOK' /\ ReceiptsOK' /\ StoresOK'
    <2>1. CleanersOK'
      BY <1>7, <1>a, RestoreSets
    <2>2. CountsOK'
      BY <1>7, <1>a, Counted DEF Restore
    <2>3. ReceiptsOK'
      BY <1>7, <1>a DEF Restore
    <2>4. StoresOK'
      BY <1>7, <1>a DEF Restore, ledger, Bytes, Folder
    <2> QED
      BY <2>1, <2>2, <2>3, <2>4
  <1>8. ASSUME NEW c \in Cleaner, DropSide(c)
        PROVE  CleanersOK' /\ CountsOK' /\ ReceiptsOK' /\ StoresOK'
    <2>1. CleanersOK'
      BY <1>8, <1>a, GoesToSets, EndedSets DEF DropSide, Step
    <2>2. CountsOK'
      BY <1>8, <1>a, Counted DEF DropSide
    <2>3. ReceiptsOK'
      BY <1>8, <1>a DEF DropSide
    <2>4. StoresOK'
      <3>1. UNCHANGED <<file, claim, side, head, raw, kept, derived, blocked, overlapped>>
        BY <1>8 DEF DropSide, ledger
      <3>2. sideClaim' \in Folder
        BY <1>8, <1>a DEF DropSide, Folder
      <3> QED
        BY <3>1, <3>2, <1>a
    <2> QED
      BY <2>1, <2>2, <2>3, <2>4
  <1>9. ASSUME NEW c \in Cleaner, DropFile(c)
        PROVE  CleanersOK' /\ CountsOK' /\ ReceiptsOK' /\ StoresOK'
    <2>1. CleanersOK'
      BY <1>9, <1>a, EndedSets DEF DropFile, Step
    <2>2. CountsOK'
      BY <1>9, <1>a, Counted DEF DropFile
    <2>3. ReceiptsOK'
      BY <1>9, <1>a DEF DropFile
    <2>4. StoresOK'
      <3>1. UNCHANGED <<file, side, sideClaim, head, raw, kept, derived, blocked, overlapped>>
        BY <1>9 DEF DropFile, ledger
      <3>2. claim' \in Bytes
        BY <1>9, <1>a DEF DropFile, Bytes
      <3> QED
        BY <3>1, <3>2, <1>a
    <2> QED
      BY <2>1, <2>2, <2>3, <2>4
  <1>10. ASSUME NEW c \in Cleaner, Report(c)
         PROVE  CleanersOK' /\ CountsOK' /\ ReceiptsOK' /\ StoresOK'
    <2>1. CleanersOK'
      BY <1>10, <1>a, GoesToSets, FailedSets DEF Report, Step
    <2>2. CountsOK'
      BY <1>10, <1>a, Counted DEF Report
    <2>3. ReceiptsOK'
      BY <1>10, <1>a, FailedSets DEF Report
    <2>4. StoresOK'
      BY <1>10, <1>a DEF Report, native, ledger, Bytes, Folder
    <2> QED
      BY <2>1, <2>2, <2>3, <2>4
  <1>11. ASSUME NEW c \in Cleaner, SanitizeTruth(c)
         PROVE  CleanersOK' /\ CountsOK' /\ ReceiptsOK' /\ StoresOK'
    <2>1. CleanersOK'
      BY <1>11, <1>a, GoesToSets DEF SanitizeTruth, Step
    <2>2. CountsOK'
      BY <1>11, <1>a, Counted DEF SanitizeTruth
    <2>3. ReceiptsOK'
      BY <1>11, <1>a DEF SanitizeTruth
    <2>4. StoresOK'
      BY <1>11, <1>a DEF SanitizeTruth, native, Bytes, Folder
    <2> QED
      BY <2>1, <2>2, <2>3, <2>4
  <1>12. ASSUME NEW c \in Cleaner, DropDerived(c)
         PROVE  CleanersOK' /\ CountsOK' /\ ReceiptsOK' /\ StoresOK'
    <2>1. CleanersOK'
      BY <1>12, <1>a, GoesToSets DEF DropDerived, Step
    <2>2. CountsOK'
      BY <1>12, <1>a, Counted DEF DropDerived
    <2>3. ReceiptsOK'
      BY <1>12, <1>a DEF DropDerived
    <2>4. StoresOK'
      BY <1>12, <1>a DEF DropDerived, native, Bytes, Folder
    <2> QED
      BY <2>1, <2>2, <2>3, <2>4
  <1>13. ASSUME NEW c \in Cleaner, StepFails(c)
         PROVE  CleanersOK' /\ CountsOK' /\ ReceiptsOK' /\ StoresOK'
    <2>1. CleanersOK'
      BY <1>13, <1>a, FailedSets DEF StepFails, Step
    <2>2. CountsOK'
      BY <1>13, <1>a, Counted DEF StepFails
    <2>3. ReceiptsOK'
      BY <1>13, <1>a, FailedSets DEF StepFails
    <2>4. StoresOK'
      BY <1>13, <1>a DEF StepFails, native, ledger, Bytes, Folder
    <2> QED
      BY <2>1, <2>2, <2>3, <2>4
  <1>14. ASSUME NEW c \in Cleaner, Prune(c)
         PROVE  CleanersOK' /\ CountsOK' /\ ReceiptsOK' /\ StoresOK'
    <2>1. CleanersOK'
      BY <1>14, <1>a, GoesToSets, FailedSets DEF Prune, Step
    <2>2. CountsOK'
      BY <1>14, <1>a, Counted DEF Prune
    <2>3. ReceiptsOK'
      BY <1>14, <1>a, FailedSets DEF Prune
    <2>4. StoresOK'
      BY <1>14, <1>a DEF Prune, native, Bytes, Folder
    <2> QED
      BY <2>1, <2>2, <2>3, <2>4
  <1>15. ASSUME NEW c \in Cleaner, Close(c)
         PROVE  CleanersOK' /\ CountsOK' /\ ReceiptsOK' /\ StoresOK'
    <2>1. CleanersOK'
      BY <1>15, <1>a, ClosedSets, FailedSets DEF Close, Step
    <2>2. CountsOK'
      BY <1>15, <1>a, Counted DEF Close
    <2>3. ReceiptsOK'
      BY <1>15, <1>a, FailedSets DEF Close
    <2>4. StoresOK'
      <3>1. UNCHANGED <<file, claim, side, sideClaim, head, raw, kept, derived, blocked, overlapped>>
        BY <1>15 DEF Close, native, ledger
      <3> QED
        BY <3>1, <1>a
    <2> QED
      BY <2>1, <2>2, <2>3, <2>4
  <1>16. ASSUME NEW c \in Cleaner, RecordResult(c)
         PROVE  CleanersOK' /\ CountsOK' /\ ReceiptsOK' /\ StoresOK'
    <2>1. CleanersOK'
      BY <1>16, <1>a, GoesToSets DEF RecordResult, Step
    <2>2. CountsOK'
      BY <1>16, <1>a, Counted DEF RecordResult
    <2>3. ReceiptsOK'
      BY <1>16, <1>a DEF RecordResult, Settled, CleanRecord
    <2>4. StoresOK'
      <3>1. UNCHANGED <<file, claim, side, sideClaim, head, raw, kept, derived, blocked, overlapped>>
        BY <1>16 DEF RecordResult, native, ledger
      <3> QED
        BY <3>1, <1>a
    <2> QED
      BY <2>1, <2>2, <2>3, <2>4
  <1>17. ASSUME NEW c \in Cleaner, CleanerCrash(c)
         PROVE  CleanersOK' /\ CountsOK' /\ ReceiptsOK' /\ StoresOK'
    <2>1. CleanersOK'
      BY <1>17, <1>a DEF CleanerCrash, CleanRecord, Step, Rest, Folder
    <2>2. CountsOK'
      BY <1>17, <1>a, Counted DEF CleanerCrash
    <2>3. ReceiptsOK'
      BY <1>17, <1>a DEF CleanerCrash
    <2>4. StoresOK'
      BY <1>17, <1>a DEF CleanerCrash, native, ledger, Bytes, Folder
    <2> QED
      BY <2>1, <2>2, <2>3, <2>4
  <1>18. CASE HostWrites
    <2>1. CleanersOK'
      BY <1>18, <1>a DEF HostWrites
    <2>2. CountsOK'
      BY <1>18, <1>a, Counted DEF HostWrites
    <2>3. ReceiptsOK'
      BY <1>18, <1>a DEF HostWrites
    <2>4. StoresOK'
      BY <1>18, <1>a DEF HostWrites, HostBytes, ledger, Bytes, Folder
    <2> QED
      BY <2>1, <2>2, <2>3, <2>4
  <1>19. CASE HostAppends
    <2>1. CleanersOK'
      BY <1>19, <1>a DEF HostAppends
    <2>2. CountsOK'
      BY <1>19, <1>a, Counted DEF HostAppends
    <2>3. ReceiptsOK'
      BY <1>19, <1>a DEF HostAppends
    <2>4. StoresOK'
      BY <1>19, <1>a DEF HostAppends, HostBytes, ledger, Bytes, Folder
    <2> QED
      BY <2>1, <2>2, <2>3, <2>4
  <1>20. CASE CaptureNew
    <2>1. CleanersOK'
      BY <1>20, <1>a DEF CaptureNew
    <2>2. CountsOK'
      BY <1>20, <1>a, Counted DEF CaptureNew
    <2>3. ReceiptsOK'
      BY <1>20, <1>a DEF CaptureNew
    <2>4. StoresOK'
      BY <1>20, <1>a DEF CaptureNew, native, Bytes, Folder
    <2> QED
      BY <2>1, <2>2, <2>3, <2>4
  <1>21. CASE ResolveOutputs
    <2>1. CleanersOK'
      BY <1>21, <1>a DEF ResolveOutputs
    <2>2. CountsOK'
      BY <1>21, <1>a, Counted DEF ResolveOutputs
    <2>3. ReceiptsOK'
      BY <1>21, <1>a DEF ResolveOutputs
    <2>4. StoresOK'
      BY <1>21, <1>a DEF ResolveOutputs, native, Bytes, Folder
    <2> QED
      BY <2>1, <2>2, <2>3, <2>4
  <1>22. CASE UNCHANGED cleanVars
    BY <1>22, <1>a DEF cleanVars, native, ledger
  <1>23. ASSUME NEW c \in Cleaner, GiveBack(c)
         PROVE  CleanersOK' /\ CountsOK' /\ ReceiptsOK' /\ StoresOK'
    <2>1. CleanersOK'
      <3>1. clean[c].result \in {"retained", "partial_failure"}
        BY <1>23 DEF GiveBack, Settled
      <3> QED
        BY <1>23, <1>a, <3>1, EndedSets DEF GiveBack
    <2>2. CountsOK'
      BY <1>23, <1>a, Counted DEF GiveBack
    <2>3. ReceiptsOK'
      BY <1>23, <1>a DEF GiveBack
    <2>4. StoresOK'
      BY <1>23, <1>a DEF GiveBack, ledger, Bytes, Folder
    <2> QED
      BY <2>1, <2>2, <2>3, <2>4
  <1> HIDE DEF CleanersOK, CountsOK, ReceiptsOK, StoresOK
  <1> QED
    BY <1>1, <1>2, <1>3, <1>4, <1>5, <1>6, <1>7, <1>8, <1>9, <1>10, <1>11,
       <1>12, <1>13, <1>14, <1>15, <1>16, <1>17, <1>18, <1>19, <1>20, <1>21, <1>22, <1>23 DEF CleanNext, CleanStep

-----------------------------------------------------------------------------
(* How a cleaner can get beyond the deletion: the only way to each place of the *)
(* sequence.                                                                    *)
OnlyWay(c) ==
    \/ clean'[c] = clean[c]
    \/ clean'[c].at \notin {"give_back", "report", "truth", "derived", "prune", "close", "final"}
    \/ clean'[c].at = "give_back" /\ clean'[c].result \in {"retained", "partial_failure"}
    \/ clean'[c].at = "report" /\ (clean'[c].result = "deleted"
                                      => DropFile(c) /\ claim # "none" /\ claim' = "none")
    \/ clean'[c].at = "truth" /\ clean[c].at = "report" /\ clean[c].result = "deleted"
    \/ clean'[c].at = "derived" /\ SanitizeTruth(c)
    \/ clean'[c].at = "prune" /\ DropDerived(c)
    \/ clean'[c].at = "close" /\ clean[c].at = "prune"
    \/ clean'[c].at = "final" /\ clean'[c].result \in {"partial_failure", "deleted"}

\* Every step moves a cleaner along the order of the code.
LEMMA CleanerMoves ==
  CleanTypeOK /\ Settled /\ [CleanNext]_cleanVars => \A d \in Cleaner : OnlyWay(d)
  <1> SUFFICES ASSUME CleanTypeOK, Settled, [CleanNext]_cleanVars, NEW d \in Cleaner PROVE OnlyWay(d)
    OBVIOUS
  <1>1. ASSUME NEW c \in Cleaner, PlanCleanup(c) PROVE OnlyWay(d)
    BY <1>1 DEF PlanCleanup, OnlyWay, Rest, CleanTypeOK
  <1>2. ASSUME NEW c \in Cleaner, HostIsActive(c) PROVE OnlyWay(d)
    BY <1>2, EndedSets DEF HostIsActive, OnlyWay, Step
  <1>3. ASSUME NEW c \in Cleaner, ClaimFile(c) PROVE OnlyWay(d)
    BY <1>3, GoesToSets, EndedSets DEF ClaimFile, OnlyWay, Step
  <1>4. ASSUME NEW c \in Cleaner, VerifyFile(c) PROVE OnlyWay(d)
    BY <1>4, GoesToSets DEF VerifyFile, OnlyWay, Step
  <1>5. ASSUME NEW c \in Cleaner, ClaimSide(c) PROVE OnlyWay(d)
    BY <1>5, SideIsClaimed DEF ClaimSide, OnlyWay, Step
  <1>6. ASSUME NEW c \in Cleaner, VerifyAll(c) PROVE OnlyWay(d)
    BY <1>6, GoesToSets DEF VerifyAll, OnlyWay, Step
  <1>7. ASSUME NEW c \in Cleaner, Restore(c) PROVE OnlyWay(d)
    BY <1>7, RestoreSets DEF OnlyWay
  <1>8. ASSUME NEW c \in Cleaner, DropSide(c) PROVE OnlyWay(d)
    BY <1>8, GoesToSets, EndedSets DEF DropSide, OnlyWay, Step
  <1>9. ASSUME NEW c \in Cleaner, DropFile(c) PROVE OnlyWay(d)
    BY <1>9, EndedSets DEF DropFile, OnlyWay, Step
  <1>10. ASSUME NEW c \in Cleaner, Report(c) PROVE OnlyWay(d)
    BY <1>10, GoesToSets, FailedSets DEF Report, OnlyWay, Step, MayGoOn
  <1>11. ASSUME NEW c \in Cleaner, SanitizeTruth(c) PROVE OnlyWay(d)
    BY <1>11, GoesToSets DEF SanitizeTruth, OnlyWay, Step
  <1>12. ASSUME NEW c \in Cleaner, DropDerived(c) PROVE OnlyWay(d)
    BY <1>12, GoesToSets DEF DropDerived, OnlyWay, Step
  <1>13. ASSUME NEW c \in Cleaner, StepFails(c) PROVE OnlyWay(d)
    BY <1>13, FailedSets DEF StepFails, OnlyWay, Step
  <1>14. ASSUME NEW c \in Cleaner, Prune(c) PROVE OnlyWay(d)
    BY <1>14, GoesToSets, FailedSets DEF Prune, OnlyWay, Step
  <1>15. ASSUME NEW c \in Cleaner, Close(c) PROVE OnlyWay(d)
    BY <1>15, ClosedSets DEF Close, OnlyWay, Step
  <1>16. ASSUME NEW c \in Cleaner, RecordResult(c) PROVE OnlyWay(d)
    BY <1>16, GoesToSets DEF RecordResult, OnlyWay, Step
  <1>17. ASSUME NEW c \in Cleaner, CleanerCrash(c) PROVE OnlyWay(d)
    BY <1>17 DEF CleanerCrash, OnlyWay, Rest, CleanTypeOK
  <1>18. CASE HostWrites
    BY <1>18 DEF HostWrites, OnlyWay
  <1>19. CASE HostAppends
    BY <1>19 DEF HostAppends, OnlyWay
  <1>20. CASE CaptureNew
    BY <1>20 DEF CaptureNew, OnlyWay
  <1>21. CASE ResolveOutputs
    BY <1>21 DEF ResolveOutputs, OnlyWay
  <1>22. CASE UNCHANGED cleanVars
    BY <1>22 DEF cleanVars, OnlyWay
  <1>23. ASSUME NEW c \in Cleaner, GiveBack(c) PROVE OnlyWay(d)
    <2>1. clean[c].result \in {"retained", "partial_failure"}
      BY <1>23 DEF GiveBack, Settled
    <2> QED
      BY <1>23, <2>1, EndedSets DEF GiveBack, OnlyWay
  <1> QED
    BY <1>1, <1>2, <1>3, <1>4, <1>5, <1>6, <1>7, <1>8, <1>9, <1>10, <1>11,
       <1>12, <1>13, <1>14, <1>15, <1>16, <1>17, <1>18, <1>19, <1>20, <1>21, <1>22, <1>23 DEF CleanNext, CleanStep

(* Where the bytes of the session's file go in a step.                          *)
LEMMA FileMoves ==
  ASSUME [CleanNext]_cleanVars
  PROVE  \/ UNCHANGED <<file, claim>>
         \/ claim' = claim /\ file' = HostBytes({"give_back"})
         \/ file' = file /\ claim = "done" /\ claim' \in {"new", "late"}
         \/ file' = "none" /\ claim = "none" /\ claim' = file
         \/ file' = claim /\ claim' = "none" /\ \E c \in Cleaner : GiveBack(c)
         \/ file' = file /\ claim' = "none" /\ \E c \in Cleaner : DropFile(c)
  <1>1. \/ UNCHANGED <<file, claim>>
        \/ \E c \in Cleaner : ClaimFile(c) \/ GiveBack(c) \/ DropFile(c)
        \/ HostWrites \/ HostAppends
    <2>1. ASSUME NEW c \in Cleaner,
                   \/ PlanCleanup(c) \/ HostIsActive(c)
                   \/ VerifyFile(c) \/ ClaimSide(c) \/ VerifyAll(c)
           PROVE  UNCHANGED <<file, claim>>
      BY <2>1 DEF PlanCleanup, HostIsActive, VerifyFile, ClaimSide, VerifyAll, native
    <2>2. ASSUME NEW c \in Cleaner,
                   \/ Restore(c) \/ DropSide(c)
                   \/ Report(c) \/ SanitizeTruth(c) \/ DropDerived(c)
           PROVE  UNCHANGED <<file, claim>>
      BY <2>2 DEF Restore, DropSide, Report, SanitizeTruth, DropDerived, native
    <2>3. ASSUME NEW c \in Cleaner,
                   \/ StepFails(c) \/ Prune(c)
                   \/ Close(c) \/ RecordResult(c) \/ CleanerCrash(c)
           PROVE  UNCHANGED <<file, claim>>
      BY <2>3 DEF StepFails, Prune, Close, RecordResult, CleanerCrash, native
    <2>4. CASE CaptureNew \/ ResolveOutputs \/ UNCHANGED cleanVars
      BY <2>4 DEF CaptureNew, ResolveOutputs, cleanVars, native
    <2> QED
      BY <2>1, <2>2, <2>3, <2>4 DEF CleanNext, CleanStep
  <1>2. ASSUME NEW c \in Cleaner, ClaimFile(c)
        PROVE  UNCHANGED <<file, claim>> \/ (file' = "none" /\ claim = "none" /\ claim' = file)
    BY <1>2 DEF ClaimFile
  <1>3. ASSUME NEW c \in Cleaner, GiveBack(c)
        PROVE  UNCHANGED <<file, claim>> \/ (file' = claim /\ claim' = "none")
    BY <1>3 DEF GiveBack
  <1>4. ASSUME NEW c \in Cleaner, DropFile(c)
        PROVE  UNCHANGED <<file, claim>> \/ (file' = file /\ claim' = "none")
    BY <1>4 DEF DropFile
  <1> QED
    BY <1>1, <1>2, <1>3, <1>4 DEF HostWrites, HostAppends, HostBytes

(* The cleanup of the ledger never goes back, and the raw evidence only goes    *)
(* with the transaction that prunes it.                                         *)
LEMMA LedgerMoves ==
  ASSUME [CleanNext]_cleanVars
  PROVE  /\ kept = "clean" => kept' = "clean"
         /\ derived = "gone" => derived' = "gone"
         /\ raw' # raw => raw' = "pruned" /\ \E c \in Cleaner : clean[c].at = "prune"
  <1> DEFINE Kept == /\ kept = "clean" => kept' = "clean"
                     /\ derived = "gone" => derived' = "gone"
                     /\ raw' # raw => raw' = "pruned" /\ \E c \in Cleaner : clean[c].at = "prune"
  <1> SUFFICES Kept
    OBVIOUS
  <1>1. ASSUME NEW c \in Cleaner,
                 \/ PlanCleanup(c) \/ HostIsActive(c) \/ ClaimFile(c)
                 \/ VerifyFile(c) \/ ClaimSide(c) \/ VerifyAll(c)
         PROVE  Kept
    BY <1>1 DEF PlanCleanup, HostIsActive, ClaimFile, VerifyFile, ClaimSide, VerifyAll,
       ledger
  <1>2. ASSUME NEW c \in Cleaner,
                 \/ Restore(c) \/ GiveBack(c) \/ DropSide(c) \/ DropFile(c)
                 \/ Report(c) \/ SanitizeTruth(c) \/ DropDerived(c)
         PROVE  Kept
    BY <1>2 DEF Restore, GiveBack, DropSide, DropFile, Report, SanitizeTruth, DropDerived,
       ledger
  <1>3. ASSUME NEW c \in Cleaner,
                 \/ StepFails(c) \/ Prune(c)
                 \/ Close(c) \/ RecordResult(c) \/ CleanerCrash(c)
         PROVE  Kept
    BY <1>3 DEF StepFails, Prune, Close, RecordResult, CleanerCrash, ledger
  <1>4. CASE HostWrites \/ HostAppends \/ CaptureNew \/ ResolveOutputs \/ UNCHANGED cleanVars
    BY <1>4 DEF HostWrites, HostAppends, CaptureNew, ResolveOutputs, cleanVars, ledger
  <1> QED
    BY <1>1, <1>2, <1>3, <1>4 DEF CleanNext, CleanStep

-----------------------------------------------------------------------------
(* The steps of the invariant. *)
LEMMA GoneStays == Gone /\ [CleanNext]_cleanVars => Gone'
  BY FileMoves DEF Gone, HostBytes

\* The invariant of the deletion's order is inductive.
LEMMA PruneInvKept == PruneInv /\ [CleanNext]_cleanVars => PruneInv'
  <1> SUFFICES ASSUME PruneInv, [CleanNext]_cleanVars PROVE PruneInv'
    OBVIOUS
  <1>1. CleanTypeOK'
    BY CleanTypeKept DEF PruneInv
  <1>2. Settled'
    BY CleanerMoves DEF PruneInv, Settled, OnlyWay
  <1>3. OneCopy'
    BY FileMoves DEF PruneInv, OneCopy, HostBytes
  <1>4. ASSUME NEW d \in Cleaner PROVE PastDeletion(d)' => Gone'
    <2>1. CASE PastDeletion(d)
      BY <2>1, GoneStays DEF PruneInv, GoneAsClaimed
    <2>2. CASE ~PastDeletion(d) /\ PastDeletion(d)'
      <3>1. DropFile(d) /\ claim # "none" /\ claim' = "none"
        BY <2>2, CleanerMoves DEF PruneInv, PastDeletion, OnlyWay, SanitizeTruth,
           DropDerived
      <3> QED
        BY <3>1 DEF PruneInv, OneCopy, Gone, DropFile
    <2> QED
      BY <2>1, <2>2
  <1>5. ASSUME NEW d \in Cleaner
        PROVE  /\ clean'[d].at \in {"derived", "prune", "close"} => kept' = "clean"
               /\ clean'[d].at \in {"prune", "close"} => derived' = "gone"
    BY CleanerMoves, LedgerMoves DEF PruneInv, GoneAsClaimed, OnlyWay, SanitizeTruth,
       DropDerived
  <1>6. raw' = "pruned" => /\ Gone'
                           /\ kept' = "clean" /\ derived' = "gone"
    BY LedgerMoves, GoneStays DEF PruneInv, PruneIsLast, GoneAsClaimed, PastDeletion, Gone
  <1>7. ASSUME NEW d \in Cleaner PROVE receipt'[d] = "succeeded" => raw' = "pruned"
    <2>1. raw = "pruned" => raw' = "pruned"
      BY LedgerMoves
    <2>2. receipt'[d] = "succeeded" => receipt[d] = "succeeded" \/ raw = "pruned"
      <3>0. CleanTypeOK
        BY DEF PruneInv
      <3>1. ASSUME NEW c \in Cleaner,
                     \/ PlanCleanup(c) \/ HostIsActive(c) \/ ClaimFile(c)
                     \/ VerifyFile(c) \/ ClaimSide(c) \/ VerifyAll(c)
             PROVE  receipt'[d] = "succeeded" => receipt[d] = "succeeded" \/ raw = "pruned"
        BY <3>1, <3>0, FailedSets DEF PlanCleanup, HostIsActive, ClaimFile, VerifyFile,
           ClaimSide, VerifyAll, CleanTypeOK
      <3>2. ASSUME NEW c \in Cleaner,
                     \/ Restore(c) \/ GiveBack(c) \/ DropSide(c) \/ DropFile(c)
                     \/ Report(c) \/ SanitizeTruth(c) \/ DropDerived(c)
             PROVE  receipt'[d] = "succeeded" => receipt[d] = "succeeded" \/ raw = "pruned"
        BY <3>2, <3>0, FailedSets DEF Restore, GiveBack, DropSide, DropFile, Report,
           SanitizeTruth, DropDerived, CleanTypeOK
      <3>3. ASSUME NEW c \in Cleaner,
                     \/ StepFails(c) \/ Prune(c)
                     \/ Close(c) \/ RecordResult(c) \/ CleanerCrash(c)
             PROVE  receipt'[d] = "succeeded" => receipt[d] = "succeeded" \/ raw = "pruned"
        BY <3>3, <3>0, FailedSets DEF StepFails, Prune, Close, ReadsBack, RecordResult, CleanerCrash,
           CleanTypeOK
      <3>4. CASE HostWrites \/ HostAppends \/ CaptureNew \/ ResolveOutputs \/ UNCHANGED cleanVars
        BY <3>4, <3>0, FailedSets DEF HostWrites, HostAppends, CaptureNew, ResolveOutputs,
           cleanVars, CleanTypeOK
      <3> QED
        BY <3>1, <3>2, <3>3, <3>4 DEF CleanNext, CleanStep
    <2> QED
      BY <2>1, <2>2 DEF PruneInv, PruneIsLast
  <1> QED
    BY <1>1, <1>2, <1>3, <1>4, <1>5, <1>6, <1>7 DEF PruneInv, GoneAsClaimed, PruneIsLast,
       Gone

\* It holds before the first cleaner starts.
LEMMA CleanStarts == CleanInit => PruneInv
  BY CleanupAssumption DEF CleanInit, PruneInv, CleanTypeOK, Settled, OneCopy, Gone,
     GoneAsClaimed,
     PastDeletion, PruneIsLast, Rest, Bytes, Folder, Step

(* The invariant: one copy of the processed content, gone wherever a cleaner has *)
(* come past its deletion, and what each later place of the sequence stands for. *)
THEOREM PruneInvariant == CleanSpec => []PruneInv
  BY CleanStarts, PruneInvKept, PTL DEF CleanSpec

(* Raw evidence goes last, however many cleaners finalise the job, crash and     *)
(* replay it (cleanup_completed_session, prune_processed_source).                *)
THEOREM EvidenceIsPrunedLast == CleanSpec => []PruneIsLast
  BY PruneInvariant, PTL DEF PruneInv

-----------------------------------------------------------------------------
\* A cleaner without a rival: nobody else is at work; once everything is verified,
\* what the claim holds besides the processed content came late, until it is
\* deleted, and so did what stands under a name that was seen to be free.
AloneInv ==
    /\ CleanTypeOK /\ Settled
    /\ overlapped = "no" =>
          /\ \A c, d \in Cleaner : clean[c].at # "idle" /\ clean[d].at # "idle" => c = d
          /\ \A c \in Cleaner :
                 /\ clean[c].at \in {"drop_side", "drop_file"} => claim \in {"done", "late"}
                 /\ clean[c].at = "give_back" => file # "new"

Dropping(c) == clean[c].at \in {"drop_side", "drop_file"}

\* The way into the deletion, and into the sequence at all.
OnlyEntry(c) ==
    /\ Dropping(c)' => Dropping(c) \/ (VerifyAll(c) /\ claim = "done" /\ claim' = claim)
    /\ clean'[c].at = "give_back"
           => clean[c].at = "give_back" \/ (Restore(c) /\ file = "none" /\ file' = file)
    /\ clean'[c].at # "idle" => clean[c].at # "idle" \/ PlanCleanup(c)

\* A cleaner comes to its places only from those before them.
LEMMA CleanerEnters ==
  CleanTypeOK /\ Settled /\ [CleanNext]_cleanVars => \A d \in Cleaner : OnlyEntry(d)
  <1> SUFFICES ASSUME CleanTypeOK, Settled, [CleanNext]_cleanVars, NEW d \in Cleaner
      PROVE  OnlyEntry(d)
    OBVIOUS
  <1>1. ASSUME NEW c \in Cleaner, PlanCleanup(c) PROVE OnlyEntry(d)
    BY <1>1 DEF PlanCleanup, OnlyEntry, Dropping, Rest, CleanTypeOK
  <1>2. ASSUME NEW c \in Cleaner, HostIsActive(c) PROVE OnlyEntry(d)
    BY <1>2, EndedSets DEF HostIsActive, OnlyEntry, Dropping, Step
  <1>3. ASSUME NEW c \in Cleaner, ClaimFile(c) PROVE OnlyEntry(d)
    BY <1>3, GoesToSets, EndedSets DEF ClaimFile, OnlyEntry, Dropping, Step
  <1>4. ASSUME NEW c \in Cleaner, VerifyFile(c) PROVE OnlyEntry(d)
    BY <1>4, GoesToSets DEF VerifyFile, OnlyEntry, Dropping, Step
  <1>5. ASSUME NEW c \in Cleaner, ClaimSide(c) PROVE OnlyEntry(d)
    BY <1>5, SideIsClaimed DEF ClaimSide, OnlyEntry, Dropping, Step
  <1>6. ASSUME NEW c \in Cleaner, VerifyAll(c) PROVE OnlyEntry(d)
    BY <1>6, GoesToSets DEF VerifyAll, OnlyEntry, Dropping, Step, FileMatches, native
  <1>7. ASSUME NEW c \in Cleaner, Restore(c) PROVE OnlyEntry(d)
    BY <1>7, RestoreSets DEF Restore, OnlyEntry, Dropping
  <1>8. ASSUME NEW c \in Cleaner, DropSide(c) PROVE OnlyEntry(d)
    BY <1>8, GoesToSets, EndedSets DEF DropSide, OnlyEntry, Dropping, Step
  <1>9. ASSUME NEW c \in Cleaner, DropFile(c) PROVE OnlyEntry(d)
    BY <1>9, EndedSets DEF DropFile, OnlyEntry, Dropping, Step
  <1>10. ASSUME NEW c \in Cleaner, Report(c) PROVE OnlyEntry(d)
    BY <1>10, GoesToSets, FailedSets DEF Report, OnlyEntry, Dropping, Step
  <1>11. ASSUME NEW c \in Cleaner, SanitizeTruth(c) PROVE OnlyEntry(d)
    BY <1>11, GoesToSets DEF SanitizeTruth, OnlyEntry, Dropping, Step
  <1>12. ASSUME NEW c \in Cleaner, DropDerived(c) PROVE OnlyEntry(d)
    BY <1>12, GoesToSets DEF DropDerived, OnlyEntry, Dropping, Step
  <1>13. ASSUME NEW c \in Cleaner, StepFails(c) PROVE OnlyEntry(d)
    BY <1>13, FailedSets DEF StepFails, OnlyEntry, Dropping, Step
  <1>14. ASSUME NEW c \in Cleaner, Prune(c) PROVE OnlyEntry(d)
    BY <1>14, GoesToSets, FailedSets DEF Prune, OnlyEntry, Dropping, Step
  <1>15. ASSUME NEW c \in Cleaner, Close(c) PROVE OnlyEntry(d)
    BY <1>15, ClosedSets DEF Close, OnlyEntry, Dropping, Step
  <1>16. ASSUME NEW c \in Cleaner, RecordResult(c) PROVE OnlyEntry(d)
    BY <1>16, GoesToSets DEF RecordResult, OnlyEntry, Dropping, Step
  <1>17. ASSUME NEW c \in Cleaner, CleanerCrash(c) PROVE OnlyEntry(d)
    BY <1>17 DEF CleanerCrash, OnlyEntry, Dropping, Rest, CleanTypeOK
  <1>18. CASE HostWrites
    BY <1>18 DEF HostWrites, OnlyEntry, Dropping
  <1>19. CASE HostAppends
    BY <1>19 DEF HostAppends, OnlyEntry, Dropping
  <1>20. CASE CaptureNew
    BY <1>20 DEF CaptureNew, OnlyEntry, Dropping
  <1>21. CASE ResolveOutputs
    BY <1>21 DEF ResolveOutputs, OnlyEntry, Dropping
  <1>22. CASE UNCHANGED cleanVars
    BY <1>22 DEF cleanVars, OnlyEntry, Dropping
  <1>23. ASSUME NEW c \in Cleaner, GiveBack(c) PROVE OnlyEntry(d)
    <2>1. clean[c].result \in {"retained", "partial_failure"}
      BY <1>23 DEF GiveBack, Settled
    <2> QED
      BY <1>23, <2>1, EndedSets DEF GiveBack, OnlyEntry, Dropping
  <1> QED
    BY <1>1, <1>2, <1>3, <1>4, <1>5, <1>6, <1>7, <1>8, <1>9, <1>10, <1>11,
       <1>12, <1>13, <1>14, <1>15, <1>16, <1>17, <1>18, <1>19, <1>20, <1>21, <1>22, <1>23 DEF CleanNext, CleanStep

\* The claim and the name change under a cleaner that is past its look only in a
\* step of its own, or by bytes that come late.
LEMMA WriteIsLate ==
  ASSUME CleanTypeOK, Settled, [CleanNext]_cleanVars, NEW c \in Cleaner,
         \A d \in Cleaner : clean[d].at # "idle" => d = c
  PROVE  /\ Dropping(c) /\ Dropping(c)' => claim' = claim \/ claim' = "late"
         /\ clean[c].at = "give_back" /\ clean'[c].at = "give_back"
                => file' = file \/ file' = "late"
  <1> DEFINE Stays == /\ Dropping(c) /\ Dropping(c)' => claim' = claim \/ claim' = "late"
                      /\ clean[c].at = "give_back" /\ clean'[c].at = "give_back"
                             => file' = file \/ file' = "late"
  <1>1. ASSUME NEW d \in Cleaner,
               ClaimFile(d) \/ GiveBack(d) \/ DropFile(d) \/ Restore(d)
        PROVE  Stays
    <2>1. d = c /\ clean[c].at \in {"apply", "give_back", "drop_file", "restore"}
      BY <1>1 DEF ClaimFile, GiveBack, DropFile, Restore
    <2>2. CASE ClaimFile(c)
      BY <2>2 DEF ClaimFile, Dropping
    <2>3. CASE GiveBack(c)
      <3>1. clean[c].result \in {"retained", "partial_failure"}
        BY <2>3 DEF GiveBack, Settled
      <3> QED
        BY <2>3, <3>1, EndedSets DEF GiveBack, Dropping
    <2>4. CASE DropFile(c)
      BY <2>4, EndedSets DEF DropFile, Dropping
    <2>5. CASE Restore(c)
      BY <2>5 DEF Restore, Dropping
    <2> QED
      BY <1>1, <2>1, <2>2, <2>3, <2>4, <2>5
  <1>2. CASE HostWrites \/ HostAppends
    BY <1>2 DEF HostWrites, HostAppends, HostBytes, Dropping
  <1>3. CASE UNCHANGED <<file, claim>>
    BY <1>3
  <1>4. \/ UNCHANGED <<file, claim>>
        \/ \E d \in Cleaner : ClaimFile(d) \/ GiveBack(d) \/ DropFile(d) \/ Restore(d)
        \/ HostWrites \/ HostAppends
    <2>1. ASSUME NEW d \in Cleaner,
                   \/ PlanCleanup(d) \/ HostIsActive(d)
                   \/ VerifyFile(d) \/ ClaimSide(d) \/ VerifyAll(d)
           PROVE  UNCHANGED <<file, claim>>
      BY <2>1 DEF PlanCleanup, HostIsActive, VerifyFile, ClaimSide, VerifyAll, native
    <2>2. ASSUME NEW d \in Cleaner,
                   DropSide(d) \/ Report(d) \/ SanitizeTruth(d) \/ DropDerived(d)
           PROVE  UNCHANGED <<file, claim>>
      BY <2>2 DEF DropSide, Report, SanitizeTruth, DropDerived, native
    <2>3. ASSUME NEW d \in Cleaner,
                   \/ StepFails(d) \/ Prune(d)
                   \/ Close(d) \/ RecordResult(d) \/ CleanerCrash(d)
           PROVE  UNCHANGED <<file, claim>>
      BY <2>3 DEF StepFails, Prune, Close, RecordResult, CleanerCrash, native
    <2>4. CASE CaptureNew \/ ResolveOutputs \/ UNCHANGED cleanVars
      BY <2>4 DEF CaptureNew, ResolveOutputs, cleanVars, native
    <2> QED
      BY <2>1, <2>2, <2>3, <2>4 DEF CleanNext, CleanStep
  <1> QED
    BY <1>1, <1>2, <1>3, <1>4

(* A rival is noticed when it plans. *)
LEMMA RivalIsNoticed ==
  ASSUME [CleanNext]_cleanVars, overlapped' = "no", CleanTypeOK
  PROVE  /\ overlapped = "no"
         /\ \A c, d \in Cleaner : PlanCleanup(c) /\ d # c => clean[d].at = "idle"
  <1> SUFFICES overlapped = "no"
    BY DEF PlanCleanup, CleanTypeOK
  <1>1. ASSUME NEW c \in Cleaner,
                 \/ PlanCleanup(c) \/ HostIsActive(c) \/ ClaimFile(c)
                 \/ VerifyFile(c) \/ ClaimSide(c) \/ VerifyAll(c)
         PROVE  overlapped = "no"
    BY <1>1 DEF PlanCleanup, HostIsActive, ClaimFile, VerifyFile, ClaimSide, VerifyAll,
       CleanTypeOK
  <1>2. ASSUME NEW c \in Cleaner,
                 \/ Restore(c) \/ GiveBack(c) \/ DropSide(c) \/ DropFile(c)
                 \/ Report(c) \/ SanitizeTruth(c) \/ DropDerived(c)
         PROVE  overlapped = "no"
    BY <1>2 DEF Restore, GiveBack, DropSide, DropFile, Report, SanitizeTruth, DropDerived,
       CleanTypeOK
  <1>3. ASSUME NEW c \in Cleaner,
                 \/ StepFails(c) \/ Prune(c)
                 \/ Close(c) \/ RecordResult(c) \/ CleanerCrash(c)
         PROVE  overlapped = "no"
    BY <1>3 DEF StepFails, Prune, Close, RecordResult, CleanerCrash, CleanTypeOK
  <1>4. CASE HostWrites \/ HostAppends \/ CaptureNew \/ ResolveOutputs \/ UNCHANGED cleanVars
    BY <1>4 DEF HostWrites, HostAppends, CaptureNew, ResolveOutputs, cleanVars, CleanTypeOK
  <1> QED
    BY <1>1, <1>2, <1>3, <1>4 DEF CleanNext, CleanStep

\* The invariant of a cleaner that works alone is inductive.
LEMMA AloneInvKept == AloneInv /\ [CleanNext]_cleanVars => AloneInv'
  <1> SUFFICES ASSUME AloneInv, [CleanNext]_cleanVars PROVE AloneInv'
    OBVIOUS
  <1>1. CleanTypeOK' /\ Settled'
    BY CleanTypeKept, CleanerMoves DEF AloneInv, Settled, OnlyWay
  <1> DEFINE OneAtWork == \A c, d \in Cleaner : clean[c].at # "idle" /\ clean[d].at # "idle" => c = d
             LooksHold == \A c \in Cleaner :
                 /\ clean[c].at \in {"drop_side", "drop_file"} => claim \in {"done", "late"}
                 /\ clean[c].at = "give_back" => file # "new"
  <1>0. SUFFICES ASSUME overlapped' = "no" PROVE OneAtWork' /\ LooksHold'
    BY <1>1 DEF AloneInv
  <1>2. /\ overlapped = "no"
        /\ \A c, d \in Cleaner : PlanCleanup(c) /\ d # c => clean[d].at = "idle"
    BY <1>0, RivalIsNoticed DEF AloneInv
  <1>3. \A c, d \in Cleaner : clean[c].at # "idle" /\ clean[d].at # "idle" => c = d
    BY <1>2 DEF AloneInv
  <1>4. ASSUME NEW c \in Cleaner, NEW d \in Cleaner, clean'[c].at # "idle", clean'[d].at # "idle"
        PROVE  c = d
    <2>1. CASE PlanCleanup(c)
      BY <2>1, <1>2, <1>4, CleanerEnters DEF AloneInv, OnlyEntry, PlanCleanup, CleanTypeOK
    <2>2. CASE PlanCleanup(d)
      BY <2>2, <1>2, <1>4, CleanerEnters DEF AloneInv, OnlyEntry, PlanCleanup, CleanTypeOK
    <2> QED
      BY <2>1, <2>2, <1>3, <1>4, CleanerEnters DEF AloneInv, OnlyEntry
  <1>5. ASSUME NEW c \in Cleaner, Dropping(c)' PROVE claim' \in {"done", "late"}
    <2>1. CASE Dropping(c)
      <3>1. claim \in {"done", "late"}
        BY <1>2, <2>1 DEF AloneInv, Dropping
      <3>2. \A d \in Cleaner : clean[d].at # "idle" => d = c
        BY <1>3, <2>1 DEF Dropping
      <3> QED
        BY <1>5, <2>1, <3>1, <3>2, WriteIsLate DEF AloneInv
    <2>2. CASE ~Dropping(c)
      BY <2>2, <1>5, CleanerEnters DEF AloneInv, OnlyEntry
    <2> QED
      BY <2>1, <2>2
  <1>6. ASSUME NEW c \in Cleaner, clean'[c].at = "give_back" PROVE file' # "new"
    <2>1. CASE clean[c].at = "give_back"
      <3>1. file # "new"
        BY <1>2, <2>1 DEF AloneInv
      <3>2. \A d \in Cleaner : clean[d].at # "idle" => d = c
        BY <1>3, <2>1
      <3> QED
        BY <1>6, <2>1, <3>1, <3>2, WriteIsLate DEF AloneInv
    <2>2. CASE clean[c].at # "give_back"
      BY <2>2, <1>6, CleanerEnters DEF AloneInv, OnlyEntry
    <2> QED
      BY <2>1, <2>2
  <1> QED
    BY <1>4, <1>5, <1>6 DEF Dropping

(* While no rival has planned, what is about to be deleted or replaced is what  *)
(* was processed, but for bytes that came too late for the last look at it.     *)
THEOREM AloneInvariant == CleanSpec => []AloneInv
  <1>1. CleanInit => AloneInv
    <2> SUFFICES ASSUME CleanInit PROVE AloneInv
      OBVIOUS
    <2>1. CleanTypeOK /\ Settled
      BY CleanStarts DEF PruneInv
    <2>2. \A c \in Cleaner : clean[c].at = "idle"
      BY DEF CleanInit, Rest
    <2> QED
      BY <2>1, <2>2 DEF AloneInv
  <1> QED
    BY <1>1, AloneInvKept, PTL DEF CleanSpec

(* A cleanup without a rival loses, under either name, only what the host wrote *)
(* too late for its last look (apply_native_source_cleanup, _restore_claims).   *)
THEOREM HostKeepsItsBytes == CleanSpec => NewBytesSurviveAlone
  <1>1. AloneInv /\ [CleanNext]_cleanVars => [overlapped' = "no" => KeepsNewBytes]_cleanVars
    <2> SUFFICES ASSUME AloneInv, [CleanNext]_cleanVars, overlapped' = "no"
        PROVE  KeepsNewBytes
      OBVIOUS
    <2>1. \A c \in Cleaner : /\ DropFile(c) => claim \in {"done", "late"}
                             /\ GiveBack(c) => file # "new"
      BY RivalIsNoticed DEF AloneInv, DropFile, GiveBack
    <2>2. file' = HostBytes({"give_back"}) => file # "new" \/ file' = "new"
      BY RivalIsNoticed DEF AloneInv, HostBytes
    <2>3. CASE UNCHANGED <<file, claim>>
      BY <2>3 DEF KeepsNewBytes, New
    <2>4. CASE claim' = claim /\ file' = HostBytes({"give_back"})
      BY <2>2, <2>4 DEF KeepsNewBytes, New
    <2>5. CASE file' = file /\ claim = "done" /\ claim' \in {"new", "late"}
      BY <2>5 DEF KeepsNewBytes, New
    <2>6. CASE file' = "none" /\ claim = "none" /\ claim' = file
      BY <2>6 DEF KeepsNewBytes, New
    <2>7. CASE file' = claim /\ claim' = "none" /\ \E c \in Cleaner : GiveBack(c)
      <3>1. PICK c \in Cleaner : GiveBack(c)
        BY <2>7
      <3>2. file # "new"
        BY <2>1, <3>1
      <3> QED
        BY <2>7, <3>2 DEF KeepsNewBytes, New
    <2>8. CASE file' = file /\ claim' = "none" /\ \E c \in Cleaner : DropFile(c)
      <3>1. PICK c \in Cleaner : DropFile(c)
        BY <2>8
      <3>2. claim \in {"done", "late"}
        BY <2>1, <3>1
      <3> QED
        BY <2>8, <3>2 DEF KeepsNewBytes, New
    <2> QED
      BY <2>3, <2>4, <2>5, <2>6, <2>7, <2>8, FileMoves
  <1> QED
    BY <1>1, AloneInvariant, PTL DEF CleanSpec, NewBytesSurviveAlone

-----------------------------------------------------------------------------

Receipt == [scope : {"session", "before"}, cut : 0..MaxRev + 1,
            status : {"in_progress", "partial_failure", "succeeded", "skipped"}]
Erasers == [at : {"idle", "records", "observation", "ledger", "verify"},
            revs : SUBSET Rev, recs : SUBSET Record, obs : {"keep", "drop"}]
Captures == [at : {"idle", "save", "observe", "enqueue"},
             rev : 0..MaxRev, stored : {"yes", "no"}, found : {"yes", "no"}]

ErasureTypes ==
    /\ EraseTypeOK /\ erasures \in Seq(Receipt)
    /\ eraser.at # "idle" => erasures # <<>>
    /\ \A p \in Capturer : capture[p].at # "idle" => capture[p].rev \in Rev

\* A record names something of the session, and names no record that comes
\* after it: this is what makes the closure of a plan reach every record.
Rooted(rank) ==
    \A r \in Record :
        /\ JobsOf[r] # {} \/ r \in Observers \/ RefsOf[r] # {}
        /\ \A s \in RefsOf[r] : rank[s] < rank[r]

\* No capture has overlapped an erasure and no review its read-back, and every
\* erasure has succeeded.
Orderly == raced = "no" /\ broken = "no"
Erasing == eraser.at # "idle"

\* The running erasure is the last receipt's, no capture is under way, and the
\* receipts before it are final.
ReceiptsTell ==
    /\ Erasing => /\ Len(erasures) > 0 /\ erasures[Len(erasures)].status = "in_progress"
                  /\ \A p \in Capturer : capture[p].at = "idle"
    /\ \A i \in DOMAIN erasures :
          erasures[i].status \in {"succeeded", "skipped"} \/ (Erasing /\ i = Len(erasures))

\* The observation renders a revision that is kept, or goes with the running
\* erasure; a capture has stored what it is about to render.
ObservationIsBacked ==
    /\ obs # 0 => obs \in held
    /\ \A p \in Capturer : \/ capture[p].at = "save" /\ capture[p].stored = "yes"
                           \/ capture[p].at = "observe"
                           => capture[p].rev \in held
    /\ eraser.at \in {"records", "observation"} /\ eraser.obs = "keep" => obs \notin eraser.revs
    /\ eraser.at = "ledger" => obs \notin eraser.revs

\* What a record names exists, or is what the running erasure has deleted; and so
\* does what a review under way has seen.
RecordsAreBacked ==
    \A r \in record \cup reviewing :
        /\ JobsOf[r] \subseteq job \cup (IF eraser.at = "verify" THEN eraser.revs ELSE {})
        /\ RefsOf[r] \subseteq record \cup (IF Erasing THEN eraser.recs ELSE {})
        /\ r \in Observers => obs # 0 \/ (eraser.at \in {"ledger", "verify"} /\ eraser.obs = "drop")

\* A session that was erased is empty, and nobody is capturing or reviewing it.
Emptied ==
    ErasedAll => /\ held = {} /\ job = {} /\ obs = 0 /\ record = {} /\ reviewing = {}
                 /\ ~Erasing /\ \A p \in Capturer : capture[p].at = "idle"

EraseInv ==
    /\ ErasureTypes /\ PointersHold
    /\ Orderly => ReceiptsTell /\ ObservationIsBacked /\ RecordsAreBacked /\ Emptied
-----------------------------------------------------------------------------
\* Among records there is one of the least rank, and in a set of revisions one
\* that is the last.
LEMMA LeastThere ==
  ASSUME NEW S, S \subseteq Nat, S # {}
  PROVE  \E x \in S : \A y \in S : x <= y
  <1> DEFINE R == {ss \in Nat \X Nat : ss[1] < ss[2]}
  <1>1. IsWellFoundedOn(R, Nat)
    BY NatLessThanWellFounded DEF OpToRel
  <1>2. PICK x \in S : \A y \in S : ~ (<<y, x>> \in R)
    BY ONLY <1>1, WFMin, S \subseteq Nat, S # {}
  <1>3. ASSUME NEW y \in S PROVE x <= y
    <2>1. x \in Nat /\ y \in Nat
      OBVIOUS
    <2>2. ~ (<<y, x>>[1] < <<y, x>>[2])
      BY <1>2, <2>1
    <2>3. QED
      BY <2>1, <2>2
  <1>4. QED
    BY <1>3

\* What is left of the ledger has a last revision, which the source row names.
LEMMA NewestIsHeld ==
  ASSUME NEW S \in SUBSET Rev
  PROVE  /\ S = {} => Newest(S) = 0
         /\ S # {} => Newest(S) \in S
  <1>1. ASSUME S # {} PROVE \E v \in S : \A w \in S : w <= v
    <2> DEFINE T == {MaxRev - v : v \in S}
    <2>1. MaxRev \in Nat /\ \A v \in S : v \in Nat /\ MaxRev - v \in Nat
      BY ErasureAssumption DEF Rev
    <2>2. T \subseteq Nat /\ T # {}
      BY <1>1, <2>1
    <2>3. PICK a \in T : \A b \in T : a <= b
      BY <2>2, LeastThere
    <2>4. PICK v \in S : a = MaxRev - v
      OBVIOUS
    <2>5. ASSUME NEW w \in S PROVE w <= v
      <3>1. MaxRev - v <= MaxRev - w
        BY <2>3, <2>4
      <3>2. QED
        BY <2>1, <3>1
    <2>6. QED
      BY <2>5
  <1>2. QED
    BY <1>1 DEF Newest

\* A plan has records that exist, and every one that names what is selected.
LEMMA ClosureReaches ==
  ASSUME NEW revs, NEW drop, NEW recs
  PROVE  /\ ClosureOf(revs, drop, recs) \subseteq record
         /\ \A r \in record : Linked(r, revs, drop, recs) => r \in ClosureOf(revs, drop, recs)
  <1>1. \A r \in record, S \in SUBSET record : Linked(r, revs, drop, recs) => Linked(r, revs, drop, recs \cup S)
    BY DEF Linked
  <1>2. QED
    BY <1>1 DEF ClosureOf

\* A step of a capture rewrites the capture's own record.
LEMMA CaptureSets ==
  ASSUME NEW c \in [Capturer -> Captures], NEW p \in Capturer, NEW n \in Captures
  PROVE  /\ [c EXCEPT ![p] = n] \in [Capturer -> Captures]
         /\ [c EXCEPT ![p] = n][p] = n
         /\ \A q \in Capturer \ {p} : [c EXCEPT ![p] = n][q] = c[q]
  OBVIOUS

\* A receipt is added, or gets its status.
LEMMA ReceiptsGrow ==
  ASSUME NEW es \in Seq(Receipt), NEW e \in Receipt
  PROVE  /\ Append(es, e) \in Seq(Receipt)
         /\ Len(Append(es, e)) = Len(es) + 1 /\ Append(es, e)[Len(es) + 1] = e
         /\ \A i \in DOMAIN es : i \in DOMAIN Append(es, e) /\ Append(es, e)[i] = es[i]
         /\ DOMAIN Append(es, e) = DOMAIN es \cup {Len(es) + 1}
  OBVIOUS

\* The last receipt's status is all that changes.
LEMMA ReceiptCloses ==
  ASSUME NEW es \in Seq(Receipt), es # <<>>,
         NEW st \in {"in_progress", "partial_failure", "succeeded", "skipped"},
         NEW n, n = [es EXCEPT ![Len(es)].status = st]
  PROVE  /\ n \in Seq(Receipt) /\ DOMAIN n = DOMAIN es /\ Len(es) \in DOMAIN es
         /\ n[Len(es)].status = st /\ n[Len(es)].scope = es[Len(es)].scope
         /\ \A i \in DOMAIN es : i # Len(es) => n[i] = es[i]
  <1>1. Len(es) \in DOMAIN es
    OBVIOUS
  <1>2. es[Len(es)] \in Receipt
    BY <1>1
  <1> DEFINE e == [es[Len(es)] EXCEPT !.status = st]
  <1>3. e \in Receipt /\ e.status = st /\ e.scope = es[Len(es)].scope
    BY <1>2 DEF Receipt
  <1>4. n = [es EXCEPT ![Len(es)] = e]
    OBVIOUS
  <1> HIDE DEF e
  <1>5. n \in Seq(Receipt) /\ DOMAIN n = DOMAIN es
    BY <1>1, <1>3, <1>4
  <1>6. n[Len(es)] = e /\ \A i \in DOMAIN es : i # Len(es) => n[i] = es[i]
    BY <1>1, <1>4
  <1>7. QED
    BY <1>1, <1>3, <1>5, <1>6
-----------------------------------------------------------------------------
\* What the types say of each variable, and what an invariant says of an
\* orderly state.
LEMMA ErasureTyped ==
  ASSUME EraseInv
  PROVE  /\ capture \in [Capturer -> Captures] /\ eraser \in Erasers /\ erasures \in Seq(Receipt)
         /\ hostRev \in Rev /\ held \in SUBSET Rev /\ job \in SUBSET Rev /\ record \in SUBSET Record
         /\ reviewing \in SUBSET Record
         /\ current \in 0 .. MaxRev /\ obs \in 0 .. MaxRev /\ errors \in 0 .. MaxErrors
         /\ raced \in {"yes", "no"} /\ broken \in {"yes", "no"}
         /\ MaxRev \in Nat \ {0} /\ Rev = 1 .. MaxRev /\ MaxErrors \in Nat
         /\ Erasing => erasures # <<>>
         /\ \A p \in Capturer : capture[p].at # "idle" => capture[p].rev \in Rev
  BY ErasureAssumption DEF EraseInv, ErasureTypes, EraseTypeOK, Captures, Erasers, Rev,
     Erasing

\* The types, from what each variable is.
LEMMA ErasureTypesHold ==
  ASSUME hostRev' \in Rev, held' \in SUBSET Rev, job' \in SUBSET Rev, record' \in SUBSET Record,
         reviewing' \in SUBSET Record,
         current' \in 0 .. MaxRev, obs' \in 0 .. MaxRev, errors' \in 0 .. MaxErrors,
         raced' \in {"yes", "no"}, broken' \in {"yes", "no"},
         capture' \in [Capturer -> Captures], eraser' \in Erasers, erasures' \in Seq(Receipt),
         Erasing' => erasures' # <<>>,
         \A p \in Capturer : capture'[p].at # "idle" => capture'[p].rev \in Rev
  PROVE  ErasureTypes'
  <1>1. \A i \in DOMAIN erasures' : erasures'[i] \in Receipt
    OBVIOUS
  <1>2. QED
    BY <1>1 DEF ErasureTypes, EraseTypeOK, Captures, Erasers, Receipt, Erasing

\* The host's file grows.
LEMMA HostGrowsKeeps ==
  ASSUME EraseInv, HostGrows
  PROVE  EraseInv'
  <1>1. hostRev' \in Rev
    BY ErasureTyped DEF HostGrows
  <1>2. ErasureTypes'
    BY <1>1, ErasureTyped, ErasureTypesHold DEF HostGrows, Erasing
  <1>3. QED
    BY <1>2 DEF EraseInv, HostGrows, PointersHold, Orderly, ReceiptsTell,
       ObservationIsBacked,
                RecordsAreBacked, Emptied, ErasedAll, Erasing

\* A capture begins: it is orderly only while nobody erases, and never after a
\* tombstone.
LEMMA ReadNativeKeeps ==
  ASSUME EraseInv, NEW p \in Capturer, ReadNative(p)
  PROVE  EraseInv'
  <1> DEFINE n == [at |-> "save", rev |-> hostRev,
                   stored |-> IF current = hostRev THEN "yes" ELSE "no",
                   found |-> IF obs = hostRev THEN "yes" ELSE "no"]
  <1>1. n \in Captures
    BY ErasureTyped DEF Captures
  <1>2. n.at = "save" /\ n.rev = hostRev /\ (n.stored = "yes" => current = hostRev)
    OBVIOUS
  <1>3. capture' = [capture EXCEPT ![p] = n]
    BY DEF ReadNative
  <1> HIDE DEF n
  <1>4. /\ capture' \in [Capturer -> Captures] /\ capture'[p] = n
        /\ \A q \in Capturer \ {p} : capture'[q] = capture[q]
    BY <1>1, <1>3, CaptureSets, ErasureTyped
  <1>5. /\ UNCHANGED <<reviewing, hostRev, held, current, job, obs, record, erasures, eraser, broken, errors>>
        /\ raced' = (IF Erasing THEN "yes" ELSE raced) /\ ~Tombstoned
    BY DEF ReadNative, Erasing
  <1>5a. \A q \in Capturer : capture'[q].at # "idle" => capture'[q].rev \in Rev
    BY <1>2, <1>4, ErasureTyped
  <1>6. ErasureTypes' /\ PointersHold'
    BY <1>4, <1>5, <1>5a, ErasureTyped, ErasureTypesHold DEF Erasing, EraseInv, PointersHold
  <1>7. ASSUME Orderly'
        PROVE  (ReceiptsTell /\ ObservationIsBacked /\ RecordsAreBacked /\ Emptied)'
    <2>1. Orderly /\ ~Erasing
      BY <1>5, <1>7 DEF Orderly
    <2>2. ReceiptsTell'
      BY <1>5, <2>1 DEF EraseInv, ReceiptsTell, Erasing
    <2>3. n.stored = "yes" => n.rev \in held
      BY <1>2, ErasureTyped DEF EraseInv, PointersHold
    <2>4. ObservationIsBacked'
      BY <1>2, <1>4, <1>5, <2>1, <2>3 DEF EraseInv, ObservationIsBacked
    <2>5. RecordsAreBacked'
      BY <1>5, <2>1 DEF EraseInv, RecordsAreBacked, Erasing
    <2>6. ~ErasedAll'
      BY <1>5 DEF ErasedAll, Tombstoned
    <2>7. QED
      BY <2>2, <2>4, <2>5, <2>6 DEF Emptied
  <1>8. QED
    BY <1>6, <1>7 DEF EraseInv

\* Where a capture is under way, no erasure runs and none has emptied the
\* session.
LEMMA CapturingIsAlone ==
  ASSUME EraseInv, Orderly, NEW p \in Capturer, capture[p].at # "idle"
  PROVE  ~Erasing /\ ~ErasedAll
  BY DEF EraseInv, ReceiptsTell, Emptied

\* A capture goes on, or stops: it is the only one that moves, and where it goes
\* on it keeps its revision.
LEMMA CaptureGoes ==
  ASSUME EraseInv, NEW p \in Capturer, capture[p].at # "idle",
         \/ /\ UNCHANGED errors
            /\ \/ \E at \in {"save", "observe", "enqueue"} : capture' = [capture EXCEPT ![p].at = at]
               \/ capture' = [capture EXCEPT ![p] = NoCapture]
         \/ Err /\ capture' = [capture EXCEPT ![p] = NoCapture]
  PROVE  /\ capture' \in [Capturer -> Captures] /\ errors' \in 0 .. MaxErrors
         /\ capture'[p].at # "idle" => capture'[p].rev = capture[p].rev
         /\ \A q \in Capturer \ {p} : capture'[q] = capture[q]
         /\ \A q \in Capturer : capture'[q].at # "idle" => capture'[q].rev \in Rev
  <1>0. capture[p] \in Captures /\ capture[p].rev \in Rev
    BY ErasureTyped
  <1>1. errors' \in 0 .. MaxErrors
    BY ErasureTyped DEF Err
  <1>2. PICK n \in Captures : /\ capture' = [capture EXCEPT ![p] = n]
                              /\ n.at # "idle" => n.rev = capture[p].rev
    <2>1. CASE capture' = [capture EXCEPT ![p] = NoCapture]
      <3>1. NoCapture \in Captures /\ NoCapture.at = "idle"
        BY ErasureTyped DEF NoCapture, Captures
      <3>2. QED
        BY <2>1, <3>1
    <2>2. ASSUME NEW at \in {"save", "observe", "enqueue"}, capture' = [capture EXCEPT ![p].at = at]
          PROVE  \E n \in Captures : /\ capture' = [capture EXCEPT ![p] = n]
                                     /\ n.at # "idle" => n.rev = capture[p].rev
      <3> DEFINE n == [capture[p] EXCEPT !.at = at]
      <3>1. n \in Captures /\ n.rev = capture[p].rev
        BY <1>0 DEF Captures
      <3>2. capture' = [capture EXCEPT ![p] = n]
        BY <2>2
      <3>3. QED
        BY <3>1, <3>2
    <2>3. QED
      BY <2>1, <2>2
  <1>3. QED
    BY <1>0, <1>1, <1>2, CaptureSets, ErasureTyped

\* Its new place.
LEMMA CaptureIsAt ==
  ASSUME EraseInv, NEW p \in Capturer, NEW at, capture' = [capture EXCEPT ![p].at = at]
  PROVE  capture'[p].at = at /\ capture'[p].rev = capture[p].rev /\ capture'[p].stored = capture[p].stored
  BY ErasureTyped DEF Captures

\* A capture stores the revision it has read.
LEMMA SaveSnapshotKeeps ==
  ASSUME EraseInv, NEW p \in Capturer, SaveSnapshot(p)
  PROVE  EraseInv'
  <1>1. /\ capture[p].at = "save" /\ capture[p].rev \in Rev
        /\ capture' = [capture EXCEPT ![p].at = "observe"]
        /\ UNCHANGED <<reviewing, hostRev, job, obs, record, erasures, eraser, raced, broken, errors>>
    BY ErasureTyped DEF SaveSnapshot
  <1>2. /\ capture' \in [Capturer -> Captures]
        /\ \A q \in Capturer \ {p} : capture'[q] = capture[q]
        /\ \A q \in Capturer : capture'[q].at # "idle" => capture'[q].rev \in Rev
    BY <1>1, CaptureGoes
  <1>3. \/ capture[p].stored = "yes" /\ UNCHANGED <<held, current>>
        \/ held' = held \cup {capture[p].rev} /\ current' = capture[p].rev
    BY DEF SaveSnapshot
  <1>4. held' \in SUBSET Rev /\ current' \in 0 .. MaxRev
    BY <1>1, <1>3, ErasureTyped
  <1>5. ErasureTypes'
    BY <1>1, <1>2, <1>4, ErasureTyped, ErasureTypesHold DEF Erasing
  <1>6. held \subseteq held' /\ PointersHold'
    BY <1>1, <1>3, ErasureTyped, SMTT(40) DEF EraseInv, PointersHold
  <1>7. ASSUME Orderly'
        PROVE  (ReceiptsTell /\ ObservationIsBacked /\ RecordsAreBacked /\ Emptied)'
    <2>1. Orderly /\ ~Erasing /\ ~ErasedAll
      BY <1>1, <1>7, CapturingIsAlone DEF Orderly
    <2>2. ReceiptsTell'
      BY <1>1, <2>1 DEF EraseInv, ReceiptsTell, Erasing
    <2>3. capture[p].rev \in held'
      BY <1>1, <1>3, <2>1 DEF EraseInv, ObservationIsBacked
    <2>4. capture'[p].at = "observe" /\ capture'[p].rev = capture[p].rev
      BY <1>1, CaptureIsAt
    <2>5. ObservationIsBacked'
      BY <1>1, <1>2, <1>6, <2>1, <2>3, <2>4 DEF EraseInv, ObservationIsBacked
    <2>6. RecordsAreBacked'
      BY <1>1, <2>1 DEF EraseInv, RecordsAreBacked, Erasing
    <2>7. QED
      BY <1>1, <2>1, <2>2, <2>5, <2>6 DEF Emptied, ErasedAll
  <1>8. QED
    BY <1>5, <1>6, <1>7 DEF EraseInv

\* A capture renders the revision that it has stored.
LEMMA SaveObservationKeeps ==
  ASSUME EraseInv, NEW p \in Capturer, SaveObservation(p)
  PROVE  EraseInv'
  <1>1. /\ capture[p].at = "observe" /\ capture[p].rev \in Rev
        /\ capture' = [capture EXCEPT ![p].at = "enqueue"]
        /\ obs' \in {obs, capture[p].rev}
        /\ UNCHANGED <<reviewing, hostRev, held, current, job, record, erasures, eraser, raced, broken, errors>>
    BY ErasureTyped DEF SaveObservation
  <1>2. /\ capture' \in [Capturer -> Captures]
        /\ \A q \in Capturer \ {p} : capture'[q] = capture[q]
        /\ \A q \in Capturer : capture'[q].at # "idle" => capture'[q].rev \in Rev
    BY <1>1, CaptureGoes
  <1>3. obs' \in 0 .. MaxRev /\ (obs # 0 => obs' # 0)
    BY <1>1, ErasureTyped
  <1>4. ErasureTypes' /\ PointersHold'
    BY <1>1, <1>2, <1>3, ErasureTyped, ErasureTypesHold DEF Erasing, EraseInv, PointersHold
  <1>5. ASSUME Orderly'
        PROVE  (ReceiptsTell /\ ObservationIsBacked /\ RecordsAreBacked /\ Emptied)'
    <2>1. Orderly /\ ~Erasing /\ ~ErasedAll
      BY <1>1, <1>5, CapturingIsAlone DEF Orderly
    <2>2. ReceiptsTell'
      BY <1>1, <2>1 DEF EraseInv, ReceiptsTell, Erasing
    <2>3. capture'[p].at = "enqueue"
      BY <1>1, CaptureIsAt
    <2>4. obs' # 0 => obs' \in held
      BY <1>1, <2>1 DEF EraseInv, ObservationIsBacked
    <2>5. ObservationIsBacked'
      BY <1>1, <1>2, <2>1, <2>3, <2>4 DEF EraseInv, ObservationIsBacked, Erasing
    <2>6. RecordsAreBacked'
      BY <1>1, <1>3, <2>1 DEF EraseInv, RecordsAreBacked, Erasing
    <2>7. QED
      BY <1>1, <2>1, <2>2, <2>5, <2>6 DEF Emptied, ErasedAll
  <1>6. QED
    BY <1>4, <1>5 DEF EraseInv

\* A capture gets a job for the source row's revision, if there is one.
LEMMA EnqueueJobKeeps ==
  ASSUME EraseInv, NEW p \in Capturer, EnqueueJob(p)
  PROVE  EraseInv'
  <1>1. /\ capture[p].at = "enqueue" /\ capture' = [capture EXCEPT ![p] = NoCapture]
        /\ job \subseteq job' /\ job' \subseteq job \cup ({current} \ {0})
        /\ UNCHANGED <<reviewing, hostRev, held, current, obs, record, erasures, eraser, raced, broken, errors>>
    BY DEF EnqueueJob
  <1>2. /\ capture' \in [Capturer -> Captures] /\ capture'[p].at = "idle"
        /\ \A q \in Capturer \ {p} : capture'[q] = capture[q]
        /\ \A q \in Capturer : capture'[q].at # "idle" => capture'[q].rev \in Rev
    BY <1>1, CaptureGoes, ErasureTyped DEF NoCapture
  <1>3. job' \in SUBSET Rev
    BY <1>1, ErasureTyped
  <1>4. ErasureTypes' /\ PointersHold'
    BY <1>1, <1>2, <1>3, ErasureTyped, ErasureTypesHold DEF Erasing, EraseInv, PointersHold
  <1>5. ASSUME Orderly'
        PROVE  (ReceiptsTell /\ ObservationIsBacked /\ RecordsAreBacked /\ Emptied)'
    <2>1. Orderly /\ ~Erasing /\ ~ErasedAll
      BY <1>1, <1>5, CapturingIsAlone DEF Orderly
    <2>2. ReceiptsTell'
      BY <1>1, <2>1 DEF EraseInv, ReceiptsTell, Erasing
    <2>3. ObservationIsBacked'
      BY <1>1, <1>2, <2>1 DEF EraseInv, ObservationIsBacked
    <2>4. RecordsAreBacked'
      BY <1>1, <2>1 DEF EraseInv, RecordsAreBacked, Erasing
    <2>5. QED
      BY <1>1, <2>1, <2>2, <2>3, <2>4 DEF Emptied, ErasedAll
  <1>6. QED
    BY <1>4, <1>5 DEF EraseInv

\* A capture dies: nothing is stored.
LEMMA CaptureDiesKeeps ==
  ASSUME EraseInv, NEW p \in Capturer, CaptureDies(p)
  PROVE  EraseInv'
  <1>1. /\ capture[p].at # "idle" /\ capture' = [capture EXCEPT ![p] = NoCapture] /\ Err
        /\ UNCHANGED <<reviewing, hostRev, held, current, job, obs, record, erasures, eraser, raced, broken>>
    BY DEF CaptureDies
  <1>2. /\ capture' \in [Capturer -> Captures] /\ capture'[p].at = "idle" /\ errors' \in 0 .. MaxErrors
        /\ \A q \in Capturer \ {p} : capture'[q] = capture[q]
        /\ \A q \in Capturer : capture'[q].at # "idle" => capture'[q].rev \in Rev
    BY <1>1, CaptureGoes, ErasureTyped DEF NoCapture
  <1>3. ErasureTypes' /\ PointersHold'
    BY <1>1, <1>2, ErasureTyped, ErasureTypesHold DEF Erasing, EraseInv, PointersHold
  <1>4. ASSUME Orderly'
        PROVE  (ReceiptsTell /\ ObservationIsBacked /\ RecordsAreBacked /\ Emptied)'
    <2>1. Orderly /\ ~Erasing /\ ~ErasedAll
      BY <1>1, <1>4, CapturingIsAlone DEF Orderly
    <2>2. ReceiptsTell' /\ RecordsAreBacked'
      BY <1>1, <2>1 DEF EraseInv, ReceiptsTell, RecordsAreBacked, Erasing
    <2>3. ObservationIsBacked'
      BY <1>1, <1>2, <2>1 DEF EraseInv, ObservationIsBacked
    <2>4. QED
      BY <1>1, <2>1, <2>2, <2>3 DEF Emptied, ErasedAll
  <1>5. QED
    BY <1>3, <1>4 DEF EraseInv

\* A review looks at what exists: an emptied session has nothing to look at.
LEMMA BeginReviewKeeps ==
  ASSUME EraseInv, NEW rank, Rooted(rank), NEW r \in Record, BeginReview(r)
  PROVE  EraseInv'
  <1>1. /\ reviewing' = reviewing \cup {r} /\ JobsOf[r] \subseteq job /\ RefsOf[r] \subseteq record
        /\ r \in Observers => obs # 0
        /\ UNCHANGED <<hostRev, held, current, job, obs, record, erasures, eraser, capture, raced,
                       broken, errors>>
    BY DEF BeginReview
  <1>2. reviewing' \in SUBSET Record
    BY <1>1, ErasureTyped
  <1>3. ErasureTypes' /\ PointersHold'
    BY <1>1, <1>2, ErasureTyped, ErasureTypesHold DEF Erasing, EraseInv, PointersHold
  <1>4. ASSUME Orderly'
        PROVE  (ReceiptsTell /\ ObservationIsBacked /\ RecordsAreBacked /\ Emptied)'
    <2>1. Orderly
      BY <1>1, <1>4 DEF Orderly
    <2>2. ReceiptsTell' /\ ObservationIsBacked'
      BY <1>1, <2>1 DEF EraseInv, ReceiptsTell, ObservationIsBacked, Erasing
    <2>3. RecordsAreBacked'
      BY <1>1, <2>1 DEF EraseInv, RecordsAreBacked, Erasing
    <2>4. ~ErasedAll
      BY <1>1, <2>1 DEF EraseInv, Emptied, Rooted
    <2>5. QED
      BY <1>1, <2>2, <2>3, <2>4 DEF Emptied, ErasedAll
  <1>5. QED
    BY <1>3, <1>4 DEF EraseInv

\* A record is written: its review saw what it names, or what the running erasure
\* has deleted since.
LEMMA EndReviewKeeps ==
  ASSUME EraseInv, NEW r \in Record, EndReview(r)
  PROVE  EraseInv'
  <1>1. /\ r \in reviewing /\ reviewing' = reviewing \ {r} /\ record' \in {record, record \cup {r}}
        /\ UNCHANGED <<hostRev, held, current, job, obs, erasures, eraser, capture, raced, broken,
                       errors>>
    BY DEF EndReview
  <1>2. record' \in SUBSET Record /\ reviewing' \in SUBSET Record
    BY <1>1, ErasureTyped
  <1>3. ErasureTypes' /\ PointersHold'
    BY <1>1, <1>2, ErasureTyped, ErasureTypesHold DEF Erasing, EraseInv, PointersHold
  <1>4. ASSUME Orderly'
        PROVE  (ReceiptsTell /\ ObservationIsBacked /\ RecordsAreBacked /\ Emptied)'
    <2>1. Orderly
      BY <1>1, <1>4 DEF Orderly
    <2>2. ReceiptsTell' /\ ObservationIsBacked'
      BY <1>1, <2>1 DEF EraseInv, ReceiptsTell, ObservationIsBacked, Erasing
    <2>3. record \subseteq record' /\ record' \cup reviewing' \subseteq record \cup reviewing
      BY <1>1
    <2>4. RecordsAreBacked'
      BY <1>1, <2>1, <2>3 DEF EraseInv, RecordsAreBacked, Erasing
    <2>5. ~ErasedAll
      BY <1>1, <2>1 DEF EraseInv, Emptied
    <2>6. QED
      BY <1>1, <2>2, <2>4, <2>5 DEF Emptied, ErasedAll
  <1>5. QED
    BY <1>3, <1>4 DEF EraseInv

-----------------------------------------------------------------------------
\* An erasure is planned: its receipt is in progress, unless there is nothing to
\* erase.
LEMMA PlanErasureKeeps ==
  ASSUME EraseInv, NEW scope \in {"session", "before"}, NEW cut \in 0 .. MaxRev, PlanErasure(scope, cut)
  PROVE  EraseInv'
  <1> DEFINE revs == Selected(scope, cut)
             recs == ClosureOf(job \cap revs, ObsOf(revs), {})
             n == [at |-> IF revs = {} THEN "idle" ELSE "records",
                   revs |-> revs, recs |-> recs, obs |-> ObsOf(revs)]
             e == [scope |-> scope, cut |-> cut,
                   status |-> IF revs = {} THEN "skipped" ELSE "in_progress"]
  <1>1. eraser' = n /\ erasures' = Append(erasures, e) /\ ~Erasing
    BY DEF PlanErasure, Erasing
  <1>2. /\ UNCHANGED <<reviewing, hostRev, held, current, job, obs, record, capture, broken, errors>>
        /\ raced' = (IF \E p \in Capturer : capture[p].at # "idle" THEN "yes" ELSE raced)
    BY DEF PlanErasure
  <1>3. revs \in SUBSET held /\ (scope = "session" => revs = held)
    BY DEF Selected
  <1>4. recs \subseteq record
    BY ClosureReaches
  <1>5. ObsOf(revs) \in {"keep", "drop"} /\ (ObsOf(revs) = "keep" => obs = 0 \/ obs \notin revs)
    BY DEF ObsOf
  <1>6. n \in Erasers /\ n.at = (IF revs = {} THEN "idle" ELSE "records")
        /\ n.revs = revs /\ n.recs = recs /\ n.obs = ObsOf(revs)
    BY <1>3, <1>4, <1>5, ErasureTyped DEF Erasers
  <1>7. e \in Receipt /\ e.scope = scope /\ e.status = (IF revs = {} THEN "skipped" ELSE "in_progress")
    BY ErasureTyped DEF Receipt
  <1> HIDE DEF n, e, recs, revs
  <1>8. /\ erasures' \in Seq(Receipt) /\ erasures' # <<>> /\ Len(erasures') = Len(erasures) + 1
        /\ Len(erasures) \in Nat /\ erasures'[Len(erasures')] = e
        /\ \A i \in DOMAIN erasures : i \in DOMAIN erasures' /\ erasures'[i] = erasures[i]
        /\ DOMAIN erasures' = DOMAIN erasures \cup {Len(erasures')}
    BY <1>1, <1>7, ReceiptsGrow, ErasureTyped, SMTT(40)
  <1>9. ErasureTypes' /\ PointersHold'
    BY <1>1, <1>2, <1>6, <1>8, ErasureTyped, ErasureTypesHold DEF EraseInv, PointersHold
  <1>10. ASSUME Orderly'
         PROVE  (ReceiptsTell /\ ObservationIsBacked /\ RecordsAreBacked /\ Emptied)'
    <2>1. Orderly /\ \A p \in Capturer : capture[p].at = "idle"
      BY <1>2, <1>10 DEF Orderly
    <2>2. Erasing' <=> revs # {}
      BY <1>1, <1>6 DEF Erasing
    <2>3. ReceiptsTell'
      <3>1. \A i \in DOMAIN erasures : erasures[i].status \in {"succeeded", "skipped"}
        BY <1>1, <2>1 DEF EraseInv, ReceiptsTell
      <3>2. QED
        BY <1>2, <1>7, <1>8, <2>1, <2>2, <3>1 DEF ReceiptsTell
    <2>4. ObservationIsBacked'
      <3>1. revs \in SUBSET Rev /\ 0 \notin Rev
        BY <1>3, ErasureTyped
      <3>2. QED
        BY <1>1, <1>2, <1>5, <1>6, <2>1, <3>1 DEF EraseInv, ObservationIsBacked
    <2>5. RecordsAreBacked'
      BY <1>1, <1>2, <1>6, <2>1 DEF EraseInv, RecordsAreBacked, Erasing
    <2>6. Emptied'
      <3>1. ErasedAll' => ErasedAll
        BY <1>7, <1>8 DEF ErasedAll
      <3>2. ErasedAll => revs = {}
        BY <1>3, <2>1 DEF EraseInv, Emptied
      <3>3. QED
        BY <1>2, <2>1, <2>2, <3>1, <3>2 DEF EraseInv, Emptied
    <2>7. QED
      BY <2>3, <2>4, <2>5, <2>6
  <1>11. QED
    BY <1>9, <1>10 DEF EraseInv

\* The running erasure goes on: its place, and nothing else of it.
LEMMA EraserGoes ==
  ASSUME EraseInv, NEW at \in {"records", "observation", "ledger", "verify"},
         eraser' = [eraser EXCEPT !.at = at]
  PROVE  /\ eraser' \in Erasers /\ eraser'.at = at /\ eraser'.revs = eraser.revs
         /\ eraser'.recs = eraser.recs /\ eraser'.obs = eraser.obs
  BY ErasureTyped DEF Erasers

\* While an erasure runs, orderly, no capture is under way and no session has
\* been emptied.
LEMMA ErasingIsAlone ==
  ASSUME EraseInv, Orderly, Erasing
  PROVE  ~ErasedAll /\ \A p \in Capturer : capture[p].at = "idle"
  BY DEF EraseInv, ReceiptsTell, Emptied

\* Records are deleted one at a time, or there are none left.
LEMMA DeleteRecordKeeps ==
  ASSUME EraseInv, DeleteRecord
  PROVE  EraseInv'
  <1>1. /\ eraser.at = "records" /\ Erasing
        /\ UNCHANGED <<reviewing, hostRev, held, current, job, obs, erasures, capture, raced, broken, errors>>
    BY DEF DeleteRecord, Erasing
  <1>2. \/ UNCHANGED record /\ eraser' = [eraser EXCEPT !.at = "observation"]
        \/ UNCHANGED eraser /\ \E r \in eraser.recs : record' = record \ {r}
    BY DEF DeleteRecord
  <1>3. /\ eraser' \in Erasers /\ eraser'.at \in {"records", "observation"} /\ eraser'.revs = eraser.revs
        /\ eraser'.recs = eraser.recs /\ eraser'.obs = eraser.obs
    BY <1>1, <1>2, EraserGoes, ErasureTyped
  <1>4. record' \subseteq record /\ record \subseteq record' \cup eraser.recs
    BY <1>2
  <1>5. ErasureTypes' /\ PointersHold'
    <2>1. record' \in SUBSET Record
      BY <1>4, ErasureTyped
    <2>2. QED
      BY <1>1, <1>3, <2>1, ErasureTyped, ErasureTypesHold DEF Erasing, EraseInv,
         PointersHold
  <1>6. ASSUME Orderly'
        PROVE  (ReceiptsTell /\ ObservationIsBacked /\ RecordsAreBacked /\ Emptied)'
    <2>1. Orderly /\ ~ErasedAll /\ Erasing'
      BY <1>1, <1>3, <1>6, ErasingIsAlone DEF Orderly, Erasing
    <2>2. ReceiptsTell'
      BY <1>1, <2>1 DEF EraseInv, ReceiptsTell
    <2>3. ObservationIsBacked'
      BY <1>1, <1>3, <2>1 DEF EraseInv, ObservationIsBacked
    <2>4. RecordsAreBacked'
      BY <1>1, <1>3, <1>4, <2>1 DEF EraseInv, RecordsAreBacked
    <2>5. QED
      BY <1>1, <2>1, <2>2, <2>3, <2>4 DEF Emptied, ErasedAll
  <1>7. QED
    BY <1>5, <1>6 DEF EraseInv

\* The observation goes if the plan says so.
LEMMA DeleteObservationKeeps ==
  ASSUME EraseInv, DeleteObservation
  PROVE  EraseInv'
  <1>1. /\ eraser.at = "observation" /\ Erasing /\ eraser' = [eraser EXCEPT !.at = "ledger"]
        /\ obs' = (IF eraser.obs = "drop" THEN 0 ELSE obs)
        /\ UNCHANGED <<reviewing, hostRev, held, current, job, record, erasures, capture, raced, broken, errors>>
    BY DEF DeleteObservation, Erasing
  <1>2. /\ eraser' \in Erasers /\ eraser'.at = "ledger" /\ eraser'.revs = eraser.revs
        /\ eraser'.recs = eraser.recs /\ eraser'.obs = eraser.obs
    BY <1>1, EraserGoes
  <1>3. eraser.obs \in {"keep", "drop"} /\ eraser.revs \in SUBSET Rev /\ 0 \notin Rev /\ obs' \in 0 .. MaxRev
    BY <1>1, ErasureTyped DEF Erasers
  <1>4. ErasureTypes' /\ PointersHold'
    BY <1>1, <1>2, <1>3, ErasureTyped, ErasureTypesHold DEF Erasing, EraseInv, PointersHold
  <1>5. ASSUME Orderly'
        PROVE  (ReceiptsTell /\ ObservationIsBacked /\ RecordsAreBacked /\ Emptied)'
    <2>1. Orderly /\ ~ErasedAll /\ Erasing' /\ \A p \in Capturer : capture[p].at = "idle"
      BY <1>1, <1>2, <1>5, ErasingIsAlone DEF Orderly, Erasing
    <2>2. ReceiptsTell'
      BY <1>1, <2>1 DEF EraseInv, ReceiptsTell
    <2>3. ObservationIsBacked'
      BY <1>1, <1>2, <1>3, <2>1 DEF EraseInv, ObservationIsBacked
    <2>4. RecordsAreBacked'
      BY <1>1, <1>2, <1>3, <2>1 DEF EraseInv, RecordsAreBacked
    <2>5. QED
      BY <1>1, <2>1, <2>2, <2>3, <2>4 DEF Emptied, ErasedAll
  <1>6. QED
    BY <1>4, <1>5 DEF EraseInv

\* The rows go in one transaction, and the source row names what is left.
LEMMA DeleteRevisionsKeeps ==
  ASSUME EraseInv, DeleteRevisions
  PROVE  EraseInv'
  <1>1. /\ eraser.at = "ledger" /\ Erasing /\ eraser' = [eraser EXCEPT !.at = "verify"]
        /\ held' = held \ eraser.revs /\ job' = job \ eraser.revs
        /\ current' = (IF current = 0 THEN 0 ELSE Newest(held \ eraser.revs))
        /\ UNCHANGED <<reviewing, hostRev, obs, record, erasures, capture, raced, broken, errors>>
    BY DEF DeleteRevisions, Erasing
  <1>2. /\ eraser' \in Erasers /\ eraser'.at = "verify" /\ eraser'.revs = eraser.revs
        /\ eraser'.recs = eraser.recs /\ eraser'.obs = eraser.obs
    BY <1>1, EraserGoes
  <1>3. /\ held' \in SUBSET Rev /\ job' \in SUBSET Rev /\ job' \subseteq held'
        /\ held' = {} => current' = 0
        /\ held' # {} /\ current # 0 => current' \in held'
    BY <1>1, NewestIsHeld, ErasureTyped DEF EraseInv, PointersHold
  <1>4. (current = 0 => held = {}) /\ (current' # 0 => current' \in held') /\ (current' = 0 => held' = {})
    BY <1>1, <1>3, ErasureTyped DEF EraseInv, PointersHold
  <1>5. current' \in 0 .. MaxRev
    BY <1>3, <1>4, ErasureTyped
  <1>6. ErasureTypes' /\ PointersHold'
    BY <1>1, <1>2, <1>3, <1>4, <1>5, ErasureTyped, ErasureTypesHold DEF Erasing,
       PointersHold
  <1>7. ASSUME Orderly'
        PROVE  (ReceiptsTell /\ ObservationIsBacked /\ RecordsAreBacked /\ Emptied)'
    <2>1. Orderly /\ ~ErasedAll /\ Erasing' /\ \A p \in Capturer : capture[p].at = "idle"
      BY <1>1, <1>2, <1>7, ErasingIsAlone DEF Orderly, Erasing
    <2>2. ReceiptsTell'
      BY <1>1, <2>1 DEF EraseInv, ReceiptsTell
    <2>3. ObservationIsBacked'
      BY <1>1, <1>2, <2>1 DEF EraseInv, ObservationIsBacked
    <2>4. RecordsAreBacked'
      BY <1>1, <1>2, <2>1 DEF EraseInv, RecordsAreBacked
    <2>5. QED
      BY <1>1, <2>1, <2>2, <2>3, <2>4 DEF Emptied, ErasedAll
  <1>8. QED
    BY <1>6, <1>7 DEF EraseInv

\* A session of which nothing is found is empty: every record would lead to a
\* record before it, for ever.
LEMMA NothingIsLeft ==
  ASSUME EraseInv, NEW rank \in [Record -> Nat], Rooted(rank),
         job = {}, obs = 0, \A r \in record : RefsOf[r] \subseteq record /\ JobsOf[r] = {} /\ r \notin Observers
  PROVE  record = {}
  <1>1. SUFFICES ASSUME record # {} PROVE FALSE
    OBVIOUS
  <1> DEFINE S == {rank[r] : r \in record}
  <1>2. S \subseteq Nat /\ S # {}
    BY <1>1, ErasureTyped
  <1>3. PICK x \in S : \A y \in S : x <= y
    BY <1>2, LeastThere
  <1>4. PICK r \in record : x = rank[r]
    OBVIOUS
  <1>5. PICK s \in RefsOf[r] : rank[s] < rank[r]
    BY <1>4, ErasureTyped DEF Rooted
  <1>6. s \in record
    BY <1>4, <1>5
  <1>7. rank[s] \in Nat /\ rank[r] \in Nat /\ rank[r] <= rank[s]
    BY <1>3, <1>4, <1>6, ErasureTyped
  <1>8. QED
    BY <1>5, <1>7

\* What a second plan that finds nothing says: the records that are left name
\* nothing that went.
LEMMA CleanResidue ==
  ASSUME EraseInv, Orderly, eraser.at = "verify", ~Residue(eraser)
  PROVE  /\ \A r \in record : /\ JobsOf[r] \subseteq job /\ RefsOf[r] \subseteq record
                              /\ r \in Observers => obs # 0
         /\ erasures[Len(erasures)].scope = "session" => held = {} /\ job = {} /\ obs = 0
  <1> DEFINE last == erasures[Len(erasures)]
             revs == eraser.revs \cup Selected(last.scope, last.cut)
             drop == IF eraser.obs = "drop" THEN "drop" ELSE ObsOf(revs)
  <1>1. /\ revs \cap (held \cup job) = {}
        /\ drop = "drop" => obs = 0
        /\ ClosureOf(revs, drop, eraser.recs) = {}
    BY DEF Residue
  <1>2. eraser.obs = "drop" => drop = "drop"
    OBVIOUS
  <1>3. eraser.revs \subseteq revs /\ (last.scope = "session" => held \subseteq revs)
    BY DEF Selected
  <1> HIDE DEF revs, drop
  <1>4. \A r \in record : ~Linked(r, revs, drop, eraser.recs)
    BY <1>1, ClosureReaches
  <1>5. \A r \in record : /\ JobsOf[r] \subseteq job \cup eraser.revs
                          /\ RefsOf[r] \subseteq record \cup eraser.recs
                          /\ r \in Observers => obs # 0 \/ eraser.obs = "drop"
    BY DEF EraseInv, RecordsAreBacked
  <1>6. \A r \in record : /\ JobsOf[r] \subseteq job /\ RefsOf[r] \subseteq record
                          /\ r \in Observers => obs # 0
    BY <1>2, <1>3, <1>4, <1>5 DEF Linked
  <1>7. ASSUME last.scope = "session" PROVE held = {} /\ job = {} /\ obs = 0
    <2>1. held = {}
      BY <1>1, <1>3, <1>7
    <2>2. QED
      BY <2>1 DEF EraseInv, PointersHold, ObservationIsBacked
  <1>8. QED
    BY <1>6, <1>7

\* An erasure is over: its receipt gets a final status.
LEMMA ReceiptGets ==
  ASSUME EraseInv, Erasing, NEW st \in {"partial_failure", "succeeded"},
         erasures' = [erasures EXCEPT ![Len(erasures)].status = st], eraser' = NoErasure
  PROVE  /\ eraser' \in Erasers /\ eraser'.at = "idle" /\ ~Erasing'
         /\ erasures' \in Seq(Receipt) /\ DOMAIN erasures' = DOMAIN erasures
         /\ Len(erasures) \in DOMAIN erasures
         /\ erasures'[Len(erasures)].status = st
         /\ erasures'[Len(erasures)].scope = erasures[Len(erasures)].scope
         /\ \A i \in DOMAIN erasures : i # Len(erasures) => erasures'[i] = erasures[i]
  <1>1. NoErasure \in Erasers /\ NoErasure.at = "idle"
    BY DEF NoErasure, Erasers
  <1>2. erasures \in Seq(Receipt) /\ erasures # <<>>
    BY ErasureTyped
  <1>3. /\ erasures' \in Seq(Receipt) /\ DOMAIN erasures' = DOMAIN erasures
        /\ Len(erasures) \in DOMAIN erasures
        /\ erasures'[Len(erasures)].status = st
        /\ erasures'[Len(erasures)].scope = erasures[Len(erasures)].scope
        /\ \A i \in DOMAIN erasures : i # Len(erasures) => erasures'[i] = erasures[i]
    BY <1>2, ReceiptCloses
  <1>4. QED
    BY <1>1, <1>3 DEF Erasing

\* The plan is made again, and its receipt says what was found.
LEMMA VerifyKeeps ==
  ASSUME EraseInv, NEW rank \in [Record -> Nat], Rooted(rank), Verify
  PROVE  EraseInv'
  <1> DEFINE st == IF Residue(eraser) THEN "partial_failure" ELSE "succeeded"
  <1>1. /\ eraser.at = "verify" /\ Erasing /\ eraser' = NoErasure
        /\ erasures' = [erasures EXCEPT ![Len(erasures)].status = st]
        /\ broken' = (IF Residue(eraser) THEN "yes" ELSE broken)
        /\ raced' = (IF reviewing # {} THEN "yes" ELSE raced)
        /\ UNCHANGED <<reviewing, hostRev, held, current, job, obs, record, capture, errors>>
    BY DEF Verify, Erasing
  <1>2. st \in {"partial_failure", "succeeded"} /\ (~Residue(eraser) => st = "succeeded")
    OBVIOUS
  <1> HIDE DEF st
  <1>3. /\ eraser' \in Erasers /\ eraser'.at = "idle" /\ ~Erasing'
        /\ erasures' \in Seq(Receipt) /\ DOMAIN erasures' = DOMAIN erasures
        /\ Len(erasures) \in DOMAIN erasures
        /\ erasures'[Len(erasures)].status = st
        /\ erasures'[Len(erasures)].scope = erasures[Len(erasures)].scope
        /\ \A i \in DOMAIN erasures : i # Len(erasures) => erasures'[i] = erasures[i]
    BY <1>1, <1>2, ReceiptGets
  <1>4. ErasureTypes' /\ PointersHold'
    BY <1>1, <1>3, ErasureTyped, ErasureTypesHold DEF EraseInv, PointersHold
  <1>5. ASSUME Orderly'
        PROVE  (ReceiptsTell /\ ObservationIsBacked /\ RecordsAreBacked /\ Emptied)'
    <2>1. Orderly /\ ~Residue(eraser) /\ st = "succeeded" /\ reviewing = {}
      BY <1>1, <1>2, <1>5, ErasureTyped DEF Orderly
    <2>2. ~ErasedAll /\ \A p \in Capturer : capture[p].at = "idle"
      BY <1>1, <2>1, ErasingIsAlone
    <2>3. /\ \A r \in record : /\ JobsOf[r] \subseteq job /\ RefsOf[r] \subseteq record
                               /\ r \in Observers => obs # 0
          /\ erasures[Len(erasures)].scope = "session" => held = {} /\ job = {} /\ obs = 0
      BY <1>1, <2>1, CleanResidue
    <2>4. ReceiptsTell'
      BY <1>1, <1>3, <2>1 DEF EraseInv, ReceiptsTell
    <2>5. ObservationIsBacked'
      BY <1>1, <1>3, <2>1 DEF EraseInv, ObservationIsBacked
    <2>6. RecordsAreBacked'
      BY <1>1, <1>3, <2>1, <2>3 DEF RecordsAreBacked
    <2>7. ErasedAll' => erasures[Len(erasures)].scope = "session"
      BY <1>3, <2>2 DEF ErasedAll
    <2>8. ASSUME erasures[Len(erasures)].scope = "session" PROVE record = {}
      BY <2>3, <2>8, NothingIsLeft
    <2>9. Emptied'
      BY <1>1, <1>3, <2>1, <2>2, <2>3, <2>7, <2>8 DEF Emptied
    <2>10. QED
      BY <2>4, <2>5, <2>6, <2>9
  <1>6. QED
    BY <1>4, <1>5 DEF EraseInv

\* An erasure that fails or dies leaves a receipt that is not a success.
LEMMA ErasureBreaks ==
  ASSUME EraseInv, ErasureFails \/ EraserDies
  PROVE  EraseInv'
  <1>1. /\ Erasing /\ eraser' = NoErasure /\ broken' = "yes" /\ Err
        /\ UNCHANGED <<reviewing, hostRev, held, current, job, obs, record, capture, raced>>
    BY DEF ErasureFails, EraserDies, Erasing
  <1>2. \/ erasures' = [erasures EXCEPT ![Len(erasures)].status = "partial_failure"]
        \/ UNCHANGED erasures
    BY DEF ErasureFails, EraserDies
  <1>3. eraser' \in Erasers /\ ~Erasing' /\ erasures' \in Seq(Receipt)
    <2>1. NoErasure \in Erasers /\ NoErasure.at = "idle"
      BY DEF NoErasure, Erasers
    <2>2. QED
      BY <1>1, <1>2, <2>1, ReceiptGets, ErasureTyped DEF Erasing
  <1>4. errors' \in 0 .. MaxErrors
    BY <1>1, ErasureTyped DEF Err
  <1>5. ErasureTypes' /\ PointersHold'
    BY <1>1, <1>3, <1>4, ErasureTyped, ErasureTypesHold DEF EraseInv, PointersHold
  <1>6. QED
    BY <1>1, <1>5 DEF EraseInv, Orderly

\* Before anything is captured.
LEMMA EraseInitHolds == EraseInit => EraseInv
  <1> SUFFICES ASSUME EraseInit PROVE EraseInv
    OBVIOUS
  <1>1. MaxRev \in Nat \ {0} /\ MaxErrors \in Nat /\ Rev = 1 .. MaxRev
    BY ErasureAssumption DEF Rev
  <1>2. NoErasure \in Erasers /\ NoErasure.at = "idle" /\ NoCapture \in Captures /\ NoCapture.at = "idle"
    BY <1>1 DEF NoErasure, NoCapture, Erasers, Captures
  <1>3. erasures = <<>> /\ eraser.at = "idle" /\ \A p \in Capturer : capture[p].at = "idle"
    BY <1>2 DEF EraseInit
  <1>4. ErasureTypes
    <2>1. capture \in [Capturer -> Captures] /\ eraser \in Erasers /\ erasures \in Seq(Receipt)
      BY <1>2 DEF EraseInit
    <2>2. /\ hostRev \in Rev /\ held \subseteq Rev /\ current \in 0 .. MaxRev /\ job \subseteq Rev
          /\ obs \in 0 .. MaxRev /\ record \subseteq Record /\ reviewing \subseteq Record
          /\ errors \in 0 .. MaxErrors
          /\ raced \in {"yes", "no"} /\ broken \in {"yes", "no"}
      BY <1>1 DEF EraseInit
    <2>3. QED
      BY <1>3, <2>1, <2>2 DEF ErasureTypes, EraseTypeOK, Captures, Erasers
  <1>5. PointersHold /\ ReceiptsTell /\ ObservationIsBacked /\ RecordsAreBacked /\ Emptied
    BY <1>3 DEF EraseInit, PointersHold, ReceiptsTell, ObservationIsBacked,
       RecordsAreBacked,
                Emptied, ErasedAll, Erasing
  <1>6. QED
    BY <1>4, <1>5 DEF EraseInv

\* Every step.
LEMMA EraseNextKeeps ==
  ASSUME NEW rank \in [Record -> Nat], Rooted(rank), EraseInv, [EraseNext]_eraseVars
  PROVE  EraseInv'
  <1>1. CASE UNCHANGED eraseVars
    BY <1>1 DEF eraseVars, EraseInv, ErasureTypes, EraseTypeOK, PointersHold, Orderly,
       ReceiptsTell,
                ObservationIsBacked, RecordsAreBacked, Emptied, ErasedAll, Erasing
  <1>2. ASSUME PlanErasure("session", 0) \/ \E cut \in 2 .. MaxRev : PlanErasure("before", cut)
        PROVE  EraseInv'
    <2>1. \E scope \in {"session", "before"}, cut \in 0 .. MaxRev : PlanErasure(scope, cut)
      BY <1>2, ErasureTyped
    <2>2. QED
      BY <2>1, PlanErasureKeeps
  <1>3. CASE EraseNext
    BY <1>2, <1>3, HostGrowsKeeps, ReadNativeKeeps, SaveSnapshotKeeps, SaveObservationKeeps,
       EnqueueJobKeeps, CaptureDiesKeeps, BeginReviewKeeps, EndReviewKeeps,
       DeleteRecordKeeps,
       DeleteObservationKeeps, DeleteRevisionsKeeps, VerifyKeeps, ErasureBreaks DEF EraseNext
  <1>4. QED
    BY <1>1, <1>3

(* What erasures and captures have stored, and what a plan must still find, for *)
(* any revisions, records, captures, errors and erasures, and any references    *)
(* between records without a cycle (hard_delete, hard_delete_revisions).        *)
THEOREM EraseInvariant ==
  ASSUME NEW rank \in [Record -> Nat], Rooted(rank)
  PROVE  EraseSpec => []EraseInv
  <1>1. EraseInv /\ [EraseNext]_eraseVars => EraseInv'
    BY EraseNextKeeps
  <1>2. QED
    BY <1>1, EraseInitHolds, PTL DEF EraseSpec

(* No erasure strands the source row or a job, and a session erased with        *)
(* success stays erased, unless a capture had overlapped an erasure, a review   *)
(* was waiting for its answer when one was read back, or one had failed before  *)
(* (hard_delete, matches_hard_delete_tombstone).                                *)
THEOREM ErasureAlwaysHolds ==
  ASSUME NEW rank \in [Record -> Nat], Rooted(rank)
  PROVE  EraseSpec => []ErasureHolds
  <1>1. EraseInv => ErasureHolds
    BY DEF EraseInv, ErasureTypes, Orderly, Emptied, ErasureHolds, ErasedStaysErased
  <1>2. QED
    BY <1>1, EraseInvariant, PTL

=============================================================================
