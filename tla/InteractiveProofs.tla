--------------------------- MODULE InteractiveProofs ---------------------------
(* What belongs to a person.  First the batches: what a manifest names no       *)
(* worker works on, for any sessions, batches, workers and number of revisions. *)
(* Then the calls that prepare a session (PrepareDistill): what they answer,    *)
(* for any agents, hooks and workers. Last what a review or a suggestion brings *)
(* into the knowledge (Admission): from an answer and its verdict to what is    *)
(* written, whatever happens to the sources in between.                         *)
EXTENDS ManualBatch, PrepareDistill, Admission, FiniteSetTheorems, TLAPS

Duty == [status : {"none", "reviewing", "completed"},
         owner : {"none", "agent"} \cup Runner, lease : {"none", "live", "expired"},
         manual : {"yes", "no"}, retain : {"yes", "no"}]
Manifest == [state : {"none", "active", "stopped"}, scope : {"project", "all"},
             chosen : [HostSession -> 0..MaxDraft], bound : [HostSession -> 0..MaxDraft],
             failed : SUBSET HostSession, skipped : SUBSET HostSession]

\* A manifest that exists names the revision.
Owned(b, s, v) == bundle[b].state # "none" /\ Names(b, s, v)

\* What a manifest says of a session that it has chosen and not skipped.
Named(m, s, v) ==
    /\ m.state # "none" /\ m.chosen[s] # 0 /\ s \notin m.skipped
    /\ \/ m.bound[s] = v
       \/ m.scope = "project" /\ m.chosen[s] = v
       \/ m.scope = "all" /\ m.bound[s] = 0

FrozenInv == BatchTypeOK /\ FrozenIsManual

-----------------------------------------------------------------------------
(* Only the manifest itself decides what it names. *)
LEMMA OwnedIsNamed ==
  ASSUME NEW b, NEW s \in HostSession, NEW v
  PROVE  Owned(b, s, v) <=> Named(bundle[b], s, v)
  BY DEF Owned, Named, Names, Chosen

\* What a manifest owns after a step is what its next contents name.
LEMMA OwnedIsNamedAfter ==
  ASSUME NEW b, NEW s \in HostSession, NEW v
  PROVE  Owned(b, s, v)' <=> Named(bundle'[b], s, v)
  BY DEF Owned, Named, Names, Chosen

(* Writing one job leaves the others as they are. *)
LEMMA DutySets ==
  ASSUME NEW d \in [HostSession -> [Draft -> Duty]], NEW s \in HostSession, NEW v \in Draft,
         NEW j \in Duty
  PROVE  LET e == [d EXCEPT ![s] = [d[s] EXCEPT ![v] = j]]
         IN  /\ e \in [HostSession -> [Draft -> Duty]]
             /\ \A t \in HostSession, u \in Draft :
                   e[t][u] = IF t = s /\ u = v THEN j ELSE d[t][u]
  OBVIOUS

(* Writing one manifest leaves the others as they are. *)
LEMMA BundleSets ==
  ASSUME NEW f \in [Bundle -> Manifest], NEW b \in Bundle, NEW m \in Manifest
  PROVE  LET e == [f EXCEPT ![b] = m]
         IN  /\ e \in [Bundle -> Manifest]
             /\ \A c \in Bundle : e[c] = IF c = b THEN m ELSE f[c]
  OBVIOUS

(* A revision of a session is one of those it may have. *)
LEMMA DraftIsOne ==
  /\ 1 \in Draft /\ Draft \subseteq 0..MaxDraft /\ 0 \notin Draft /\ 0 \in 0..MaxDraft
  /\ \A n \in Draft : n < MaxDraft => n + 1 \in Draft
  /\ \A n \in 0..MaxDraft : n # 0 => n \in Draft
  BY BatchAssumption DEF Draft

(* One job is written, or one manifest. *)
Rewrites(s, v, j) == duty' = [duty EXCEPT ![s] = [duty[s] EXCEPT ![v] = j]]
Reissues(b, m) == bundle' = [bundle EXCEPT ![b] = m]

(* A worker's lease is one it had, or on a job that nothing manual owns. *)
Earned(j, s, v) ==
    LiveBackground(j) => LiveBackground(duty[s][v]) \/ (bundle' = bundle /\ ~OwnsJob(s, v))

(* A job that a step touches is written once, or marked manual with the others. *)
OneJob ==
    \E s \in HostSession, v \in Draft, j \in Duty :
        /\ Rewrites(s, v, j)
        /\ Earned(j, s, v)
Marked ==
    /\ duty' \in [HostSession -> [Draft -> Duty]]
    /\ bundle' = bundle
    /\ \A s \in HostSession, v \in Draft :
          duty'[s][v].owner = duty[s][v].owner /\ duty'[s][v].lease = duty[s][v].lease
DutyMoves == duty' = duty \/ OneJob \/ Marked

(* A manifest names nothing new that a worker has a live lease on. *)
BundleMoves ==
    \/ bundle' = bundle
    \/ \E b \in Bundle, m \in Manifest :
          /\ Reissues(b, m)
          /\ \A s \in HostSession, v \in Draft :
                Named(m, s, v) => Named(bundle[b], s, v) \/ ~LiveBackground(duty[s][v])

(* The types in parts. *)
LEMMA BatchTypes ==
  BatchTypeOK <=> /\ draft \in [HostSession -> Draft]
                  /\ duty \in [HostSession -> [Draft -> Duty]]
                  /\ bundle \in [Bundle -> Manifest]
                  /\ runner \in [Runner -> [session : HostSession \cup {"none"}, draft : 0..MaxDraft]]
                  /\ freezing \in Bundle \cup {"none"}
  BY DEF BatchTypeOK, Duty, Manifest

(* Marking a job manual leaves its lease alone. *)
LEMMA ManualSets ==
  ASSUME NEW j \in Duty
  PROVE  LET k == [j EXCEPT !.manual = "yes"]
         IN  k \in Duty /\ k.owner = j.owner /\ k.lease = j.lease
  BY DEF Duty

\* One job written as it is earned is a move.
LEMMA OneJobMoves ==
  ASSUME NEW s \in HostSession, NEW v \in Draft, NEW j \in Duty, Earned(j, s, v),
         duty' = duty \/ Rewrites(s, v, j)
  PROVE  DutyMoves
  BY DEF DutyMoves, OneJob

\* One manifest written that names nothing new a worker has is a move.
LEMMA OneManifestMoves ==
  ASSUME NEW b \in Bundle, NEW m \in Manifest, bundle' = bundle \/ Reissues(b, m),
         \A t \in HostSession, v \in Draft :
            Named(m, t, v) => Named(bundle[b], t, v) \/ ~LiveBackground(duty[t][v])
  PROVE  BundleMoves
  BY DEF BundleMoves

(* Every step that writes jobs writes them in one of these ways. *)
LEMMA JobsMove ==
  ASSUME BatchTypeOK, [BatchNext]_batchVars
  PROVE  DutyMoves
  <1> USE BatchTypes, DraftIsOne, BatchAssumption

  <1>1. ASSUME NEW s \in HostSession, HostTurn(s) PROVE DutyMoves
    BY <1>1 DEF HostTurn, DutyMoves
  <1>2. ASSUME NEW s \in HostSession, Store(s) PROVE DutyMoves
    <2> DEFINE j == [duty[s][draft[s]] EXCEPT !.status = "reviewing"]
    <2>1. draft[s] \in Draft /\ duty[s][draft[s]] \in Duty
      BY <1>2 DEF Store
    <2>2. j \in Duty
      BY <2>1, <1>2 DEF Duty
    <2>3. Earned(j, s, draft[s])
      BY <2>1, <1>2 DEF Store, Duty, Earned, LiveBackground
    <2>4. duty' = duty \/ Rewrites(s, draft[s], j)
      BY <2>1, <1>2 DEF Store, Rewrites
    <2> HIDE DEF j
    <2>5. QED
      BY ONLY <2>1, <2>2, <2>3, <2>4, s \in HostSession, OneJobMoves
  <1>3. ASSUME NEW b \in Bundle, NEW chosen, NEW scope, PublishSelection(b, chosen, scope)
        PROVE  DutyMoves
    BY <1>3 DEF PublishSelection, DutyMoves
  <1>4. ASSUME CommitSelection PROVE DutyMoves
    <2>1. \A s \in HostSession, v \in Draft : duty[s][v] \in Duty
      OBVIOUS
    <2>2. \A s \in HostSession, v \in Draft :
             /\ duty'[s][v] \in Duty
             /\ duty'[s][v].owner = duty[s][v].owner /\ duty'[s][v].lease = duty[s][v].lease
      BY <2>1, <1>4, ManualSets DEF CommitSelection
    <2>3. duty' \in [HostSession -> [Draft -> Duty]]
      BY <2>1, <1>4, ManualSets DEF CommitSelection
    <2>4. QED
      BY <2>2, <2>3, <1>4 DEF CommitSelection, DutyMoves, Marked
  <1>5. ASSUME FreezeDies PROVE DutyMoves
    BY <1>5 DEF FreezeDies, DutyMoves
  <1>6. ASSUME NEW b \in Bundle, NEW s \in HostSession, BindJob(b, s) PROVE DutyMoves
    <2> DEFINE j == [duty[s][draft[s]] EXCEPT !.status = IF @ = "none" THEN "reviewing" ELSE @]
    <2>1. draft[s] \in Draft /\ duty[s][draft[s]] \in Duty
      BY <1>6 DEF BindJob
    <2>2. j \in Duty
      BY <2>1, <1>6 DEF Duty
    <2>3. Earned(j, s, draft[s])
      BY <2>1, <1>6 DEF BindJob, Duty, Earned, LiveBackground
    <2>4. duty' = duty \/ Rewrites(s, draft[s], j)
      BY <2>1, <1>6 DEF BindJob, Rewrites
    <2> HIDE DEF j
    <2>5. QED
      BY ONLY <2>1, <2>2, <2>3, <2>4, s \in HostSession, OneJobMoves
  <1>7. ASSUME NEW b \in Bundle, NEW s \in HostSession, SkipSession(b, s) PROVE DutyMoves
    BY <1>7 DEF SkipSession, DutyMoves
  <1>8. ASSUME NEW b \in Bundle, NEW s \in HostSession, AgentClaims(b, s) PROVE DutyMoves
    <2> DEFINE j == [duty[s][bundle[b].bound[s]] EXCEPT !.manual = "yes", !.retain = "yes",
                     !.owner = "agent", !.lease = "live"]
    <2>1. bundle[b].bound[s] \in Draft /\ duty[s][bundle[b].bound[s]] \in Duty
      BY <1>8, SMTT(40) DEF AgentClaims, Manifest
    <2>2. j \in Duty
      BY <2>1, <1>8 DEF Duty
    <2>3. Earned(j, s, bundle[b].bound[s])
      BY <2>1, <1>8 DEF AgentClaims, Duty, Earned, LiveBackground
    <2>4. duty' = duty \/ Rewrites(s, bundle[b].bound[s], j)
      BY <2>1, <1>8 DEF AgentClaims, Rewrites, Manifest
    <2> HIDE DEF j
    <2>5. QED
      BY ONLY <2>1, <2>2, <2>3, <2>4, s \in HostSession, OneJobMoves
  <1>9. ASSUME NEW b \in Bundle, NEW s \in HostSession, RecordFailure(b, s) PROVE DutyMoves
    BY <1>9 DEF RecordFailure, DutyMoves
  <1>10. ASSUME NEW b \in Bundle, NEW s \in HostSession, StopBatch(b, s) PROVE DutyMoves
    BY <1>10 DEF StopBatch, DutyMoves
  <1>11. ASSUME NEW b \in Bundle, RetryFailures(b) PROVE DutyMoves
    BY <1>11 DEF RetryFailures, DutyMoves
  <1>12. ASSUME NEW s \in HostSession, NEW v \in Draft, AgentFinishes(s, v) PROVE DutyMoves
    <2> DEFINE j == [duty[s][v] EXCEPT !.status = "completed", !.owner = "none", !.lease = "none"]
    <2>1. v \in Draft /\ duty[s][v] \in Duty
      BY <1>12 DEF AgentFinishes
    <2>2. j \in Duty
      BY <2>1, <1>12 DEF Duty
    <2>3. Earned(j, s, v)
      BY <2>1, <1>12 DEF AgentFinishes, Duty, Earned, LiveBackground
    <2>4. duty' = duty \/ Rewrites(s, v, j)
      BY <2>1, <1>12, ZenonT(60) DEF AgentFinishes, Rewrites
    <2> HIDE DEF j
    <2>5. QED
      BY ONLY <2>1, <2>2, <2>3, <2>4, s \in HostSession, OneJobMoves
  <1>13. ASSUME NEW s \in HostSession, NEW v \in Draft, LeaseExpires(s, v) PROVE DutyMoves
    <2> DEFINE j == [duty[s][v] EXCEPT !.lease = "expired"]
    <2>1. v \in Draft /\ duty[s][v] \in Duty
      BY <1>13 DEF LeaseExpires
    <2>2. j \in Duty
      BY <2>1, <1>13 DEF Duty
    <2>3. Earned(j, s, v)
      BY <2>1, <1>13 DEF LeaseExpires, Duty, Earned, LiveBackground
    <2>4. duty' = duty \/ Rewrites(s, v, j)
      BY <2>1, <1>13 DEF LeaseExpires, Rewrites
    <2> HIDE DEF j
    <2>5. QED
      BY ONLY <2>1, <2>2, <2>3, <2>4, s \in HostSession, OneJobMoves
  <1>14. ASSUME NEW w \in Runner, NEW s \in HostSession, NEW v \in Draft, Selects(w, s, v)
         PROVE  DutyMoves
    BY <1>14 DEF Selects, DutyMoves
  <1>15. ASSUME NEW w \in Runner, NEW s \in HostSession, NEW v \in Draft, RunnerClaims(w, s, v)
         PROVE  DutyMoves
    <2> DEFINE j == IF duty' = duty THEN duty[s][v] ELSE [duty[s][v] EXCEPT !.owner = w, !.lease = "live"]
    <2>1. v \in Draft /\ duty[s][v] \in Duty
      BY <1>15 DEF RunnerClaims
    <2>2. j \in Duty
      BY <2>1, <1>15, ZenonT(60) DEF Duty
    <2>3. Earned(j, s, v)
      BY <2>1, <1>15 DEF RunnerClaims, Duty, Earned, LiveBackground
    <2>4. duty' = duty \/ Rewrites(s, v, j)
      BY <2>1, <1>15, ZenonT(60) DEF RunnerClaims, Rewrites
    <2> HIDE DEF j
    <2>5. QED
      BY ONLY <2>1, <2>2, <2>3, <2>4, s \in HostSession, OneJobMoves
  <1>16. ASSUME NEW w \in Runner, NEW s \in HostSession, NEW v \in Draft, RunnerFinishes(w, s, v)
         PROVE  DutyMoves
    <2> DEFINE j == [duty[s][v] EXCEPT !.status = "completed", !.owner = "none", !.lease = "none"]
    <2>1. v \in Draft /\ duty[s][v] \in Duty
      BY <1>16 DEF RunnerFinishes
    <2>2. j \in Duty
      BY <2>1, <1>16 DEF Duty
    <2>3. Earned(j, s, v)
      BY <2>1, <1>16 DEF RunnerFinishes, Duty, Earned, LiveBackground
    <2>4. duty' = duty \/ Rewrites(s, v, j)
      BY <2>1, <1>16, ZenonT(60) DEF RunnerFinishes, Rewrites
    <2> HIDE DEF j
    <2>5. QED
      BY ONLY <2>1, <2>2, <2>3, <2>4, s \in HostSession, OneJobMoves
  <1>17. CASE UNCHANGED batchVars
    BY <1>17 DEF batchVars, DutyMoves
  <1>18. QED
    BY <1>1, <1>2, <1>3, <1>4, <1>5, <1>6, <1>7, <1>8, <1>9, <1>10, <1>11, <1>12, <1>13,
       <1>14, <1>15, <1>16, <1>17 DEF BatchNext, RunnerStep

(* Every step that writes a manifest writes one, and gives it no session that a *)
(* worker has: freezing looks for leases first, binding names what was frozen.  *)
LEMMA ManifestsMove ==
  ASSUME BatchTypeOK, [BatchNext]_batchVars
  PROVE  BundleMoves
  <1> USE BatchTypes, DraftIsOne, BatchAssumption
  <1>1. ASSUME NEW s \in HostSession, HostTurn(s) PROVE BundleMoves
    BY <1>1 DEF HostTurn, BundleMoves
  <1>2. ASSUME NEW s \in HostSession, Store(s) PROVE BundleMoves
    BY <1>2 DEF Store, BundleMoves
  <1>3. ASSUME NEW b \in Bundle, NEW chosen \in SUBSET HostSession, NEW scope \in {"project", "all"},
               PublishSelection(b, chosen, scope) PROVE BundleMoves
    <2> DEFINE m == [NoBundle EXCEPT !.state = "active", !.scope = scope,
                 !.chosen = [s \in HostSession |-> IF s \in chosen THEN draft[s] ELSE 0]]
    <2>1. bundle[b] \in Manifest
      BY <1>3, SMTT(40)
    <2>2. m \in Manifest
      BY <2>1, <1>3 DEF Manifest, PublishSelection, TakesNext, NoBundle
    <2>3. ASSUME NEW t \in HostSession, NEW v \in Draft, Named(m, t, v)
          PROVE  Named(bundle[b], t, v) \/ ~LiveBackground(duty[t][v])
      BY <2>1, <2>3, <1>3 DEF Manifest, PublishSelection, TakesNext, Chosen, Named, NoBundle
    <2>4. bundle' = bundle \/ Reissues(b, m)
      BY <2>1, <1>3 DEF PublishSelection, Reissues, Manifest, NoBundle
    <2> HIDE DEF m
    <2>5. QED
      BY ONLY <2>2, <2>3, <2>4, b \in Bundle, OneManifestMoves
  <1>4. ASSUME CommitSelection PROVE BundleMoves
    BY <1>4 DEF CommitSelection, BundleMoves
  <1>5. ASSUME FreezeDies PROVE BundleMoves
    BY <1>5 DEF FreezeDies, BundleMoves
  <1>6. ASSUME NEW b \in Bundle, NEW s \in HostSession, BindJob(b, s) PROVE BundleMoves
    <2> DEFINE m == IF bundle[b].scope = "project" /\ bundle[b].chosen[s] # draft[s]
                 THEN [bundle[b] EXCEPT !.failed = @ \cup {s}]
                 ELSE [bundle[b] EXCEPT !.bound = [@ EXCEPT ![s] = draft[s]]]
    <2>1. bundle[b] \in Manifest
      BY <1>6
    <2>2. m \in Manifest
      BY <2>1, <1>6, ZenonT(60) DEF Manifest, BindJob, TakesNext
    <2>3. ASSUME NEW t \in HostSession, NEW v \in Draft, Named(m, t, v)
          PROVE  Named(bundle[b], t, v) \/ ~LiveBackground(duty[t][v])
      BY <2>1, <2>3, <1>6 DEF Manifest, BindJob, TakesNext, Chosen, Named
    <2>4. bundle' = bundle \/ Reissues(b, m)
      BY <2>1, <1>6 DEF BindJob, Reissues, Manifest
    <2> HIDE DEF m
    <2>5. QED
      BY ONLY <2>2, <2>3, <2>4, b \in Bundle, OneManifestMoves
  <1>7. ASSUME NEW b \in Bundle, NEW s \in HostSession, SkipSession(b, s) PROVE BundleMoves
    <2> DEFINE m == [bundle[b] EXCEPT !.skipped = @ \cup {s}]
    <2>1. bundle[b] \in Manifest
      BY <1>7
    <2>2. m \in Manifest
      BY <2>1, <1>7, ZenonT(60) DEF Manifest, SkipSession, TakesNext
    <2>3. ASSUME NEW t \in HostSession, NEW v \in Draft, Named(m, t, v)
          PROVE  Named(bundle[b], t, v) \/ ~LiveBackground(duty[t][v])
      BY <2>1, <2>3, <1>7 DEF Manifest, SkipSession, TakesNext, Chosen, Named
    <2>4. bundle' = bundle \/ Reissues(b, m)
      BY <2>1, <1>7 DEF SkipSession, Reissues, Manifest
    <2> HIDE DEF m
    <2>5. QED
      BY ONLY <2>2, <2>3, <2>4, b \in Bundle, OneManifestMoves
  <1>8. ASSUME NEW b \in Bundle, NEW s \in HostSession, AgentClaims(b, s) PROVE BundleMoves
    BY <1>8 DEF AgentClaims, BundleMoves
  <1>9. ASSUME NEW b \in Bundle, NEW s \in HostSession, RecordFailure(b, s)
        PROVE  BundleMoves
    <2> DEFINE m == [bundle[b] EXCEPT !.failed = @ \cup {s}]
    <2>1. bundle[b] \in Manifest
      BY <1>9
    <2>2. m \in Manifest
      BY <2>1, <1>9 DEF Manifest, RecordFailure, TakesNext
    <2>3. ASSUME NEW t \in HostSession, NEW v \in Draft, Named(m, t, v)
          PROVE  Named(bundle[b], t, v) \/ ~LiveBackground(duty[t][v])
      BY <2>1, <2>3, <1>9 DEF Manifest, RecordFailure, TakesNext, Chosen, Named
    <2>4. bundle' = bundle \/ Reissues(b, m)
      BY <2>1, <1>9 DEF RecordFailure, Reissues, Manifest
    <2> HIDE DEF m
    <2>5. QED
      BY ONLY <2>2, <2>3, <2>4, b \in Bundle, OneManifestMoves
  <1>10. ASSUME NEW b \in Bundle, NEW s \in HostSession, StopBatch(b, s) PROVE BundleMoves
    <2> DEFINE m == [bundle[b] EXCEPT !.failed = @ \cup {s}, !.state = "stopped"]
    <2>1. bundle[b] \in Manifest
      BY <1>10
    <2>2. m \in Manifest
      BY <2>1, <1>10 DEF Manifest, StopBatch, TakesNext
    <2>3. ASSUME NEW t \in HostSession, NEW v \in Draft, Named(m, t, v)
          PROVE  Named(bundle[b], t, v) \/ ~LiveBackground(duty[t][v])
      BY <2>1, <2>3, <1>10 DEF Manifest, StopBatch, TakesNext, Chosen, Named
    <2>4. bundle' = bundle \/ Reissues(b, m)
      BY <2>1, <1>10 DEF StopBatch, Reissues, Manifest
    <2> HIDE DEF m
    <2>5. QED
      BY ONLY <2>2, <2>3, <2>4, b \in Bundle, OneManifestMoves
  <1>11. ASSUME NEW b \in Bundle, RetryFailures(b) PROVE BundleMoves
    <2> DEFINE m == [bundle[b] EXCEPT !.failed = {}]
    <2>1. bundle[b] \in Manifest
      BY <1>11
    <2>2. m \in Manifest
      BY <2>1, <1>11 DEF Manifest, RetryFailures, TakesNext
    <2>3. ASSUME NEW t \in HostSession, NEW v \in Draft, Named(m, t, v)
          PROVE  Named(bundle[b], t, v) \/ ~LiveBackground(duty[t][v])
      BY <2>1, <2>3, <1>11 DEF Manifest, RetryFailures, TakesNext, Chosen, Named
    <2>4. bundle' = bundle \/ Reissues(b, m)
      BY <2>1, <1>11 DEF RetryFailures, Reissues, Manifest
    <2> HIDE DEF m
    <2>5. QED
      BY ONLY <2>2, <2>3, <2>4, b \in Bundle, OneManifestMoves
  <1>12. ASSUME NEW s \in HostSession, NEW v \in Draft, AgentFinishes(s, v)
         PROVE  BundleMoves
    BY <1>12 DEF AgentFinishes, BundleMoves
  <1>13. ASSUME NEW s \in HostSession, NEW v \in Draft, LeaseExpires(s, v) PROVE BundleMoves
    BY <1>13 DEF LeaseExpires, BundleMoves
  <1>14. ASSUME NEW w \in Runner, NEW s \in HostSession, NEW v \in Draft, Selects(w, s, v)
         PROVE  BundleMoves
    BY <1>14 DEF Selects, BundleMoves
  <1>15. ASSUME NEW w \in Runner, NEW s \in HostSession, NEW v \in Draft, RunnerClaims(w, s, v)
         PROVE  BundleMoves
    BY <1>15 DEF RunnerClaims, BundleMoves
  <1>16. ASSUME NEW w \in Runner, NEW s \in HostSession, NEW v \in Draft, RunnerFinishes(w, s, v)
         PROVE  BundleMoves
    BY <1>16 DEF RunnerFinishes, BundleMoves
  <1>17. CASE UNCHANGED batchVars
    BY <1>17 DEF batchVars, BundleMoves
  <1>18. QED
    BY <1>1, <1>2, <1>3, <1>4, <1>5, <1>6, <1>7, <1>8, <1>9, <1>10, <1>11, <1>12, <1>13,
       <1>14, <1>15, <1>16, <1>17 DEF BatchNext, RunnerStep

RestTypeOK ==
    /\ draft \in [HostSession -> Draft]
    /\ runner \in [Runner -> [session : HostSession \cup {"none"}, draft : 0..MaxDraft]]
    /\ freezing \in Bundle \cup {"none"}

(* What is neither job nor manifest keeps its type, action by action. *)
LEMMA RestTypeKept ==
  ASSUME BatchTypeOK, [BatchNext]_batchVars
  PROVE  RestTypeOK'
  <1> USE BatchTypes, DraftIsOne DEF RestTypeOK
  <1>1. ASSUME NEW s \in HostSession, HostTurn(s) PROVE RestTypeOK'
    BY <1>1 DEF HostTurn
  <1>2. ASSUME NEW s \in HostSession, Store(s) PROVE RestTypeOK'
    BY <1>2 DEF Store
  <1>3. ASSUME NEW b \in Bundle, NEW chosen, NEW scope, PublishSelection(b, chosen, scope)
        PROVE  RestTypeOK'
    BY <1>3 DEF PublishSelection
  <1>4. ASSUME CommitSelection PROVE RestTypeOK'
    BY <1>4 DEF CommitSelection
  <1>5. ASSUME FreezeDies PROVE RestTypeOK'
    BY <1>5 DEF FreezeDies
  <1>6. ASSUME NEW b \in Bundle, NEW s \in HostSession, BindJob(b, s) PROVE RestTypeOK'
    BY <1>6 DEF BindJob
  <1>7. ASSUME NEW b \in Bundle, NEW s \in HostSession, SkipSession(b, s) PROVE RestTypeOK'
    BY <1>7 DEF SkipSession
  <1>8. ASSUME NEW b \in Bundle, NEW s \in HostSession, AgentClaims(b, s) PROVE RestTypeOK'
    BY <1>8 DEF AgentClaims
  <1>9. ASSUME NEW b \in Bundle, NEW s \in HostSession, RecordFailure(b, s)
        PROVE  RestTypeOK'
    BY <1>9 DEF RecordFailure
  <1>10. ASSUME NEW b \in Bundle, NEW s \in HostSession, StopBatch(b, s) PROVE RestTypeOK'
    BY <1>10 DEF StopBatch
  <1>11. ASSUME NEW b \in Bundle, RetryFailures(b) PROVE RestTypeOK'
    BY <1>11 DEF RetryFailures
  <1>12. ASSUME NEW s \in HostSession, NEW v \in Draft, AgentFinishes(s, v)
         PROVE  RestTypeOK'
    BY <1>12 DEF AgentFinishes
  <1>13. ASSUME NEW s \in HostSession, NEW v \in Draft, LeaseExpires(s, v) PROVE RestTypeOK'
    BY <1>13 DEF LeaseExpires
  <1>14. ASSUME NEW w \in Runner, NEW s \in HostSession, NEW v \in Draft, Selects(w, s, v)
         PROVE  RestTypeOK'
    BY <1>14 DEF Selects, NoRunner
  <1>15. ASSUME NEW w \in Runner, NEW s \in HostSession, NEW v \in Draft, RunnerClaims(w, s, v)
         PROVE  RestTypeOK'
    BY <1>15 DEF RunnerClaims, NoRunner
  <1>16. ASSUME NEW w \in Runner, NEW s \in HostSession, NEW v \in Draft, RunnerFinishes(w, s, v)
         PROVE  RestTypeOK'
    BY <1>16 DEF RunnerFinishes, NoRunner
  <1>17. CASE UNCHANGED batchVars
    BY <1>17 DEF batchVars
  <1> HIDE DEF RestTypeOK
  <1>18. QED
    BY ONLY [BatchNext]_batchVars, <1>1, <1>2, <1>3, <1>4, <1>5, <1>6, <1>7, <1>8, <1>9,
       <1>10, <1>11, <1>12, <1>13, <1>14, <1>15, <1>16, <1>17 DEF BatchNext, RunnerStep

(* Types are kept. *)
LEMMA BatchTypeKept == BatchTypeOK /\ [BatchNext]_batchVars => BatchTypeOK'
  <1> SUFFICES ASSUME BatchTypeOK, [BatchNext]_batchVars PROVE BatchTypeOK'
    OBVIOUS
  <1>1. duty' \in [HostSession -> [Draft -> Duty]]
    <2>1. DutyMoves /\ duty \in [HostSession -> [Draft -> Duty]]
      BY JobsMove, BatchTypes
    <2>2. CASE OneJob
      BY <2>1, <2>2, DutySets DEF OneJob, Rewrites
    <2>3. QED
      BY <2>1, <2>2 DEF DutyMoves, Marked
  <1>2. bundle' \in [Bundle -> Manifest]
    <2>1. BundleMoves /\ bundle \in [Bundle -> Manifest]
      BY ManifestsMove, BatchTypes
    <2>2. QED
      BY <2>1, BundleSets DEF BundleMoves, Reissues
  <1>3. QED
    BY <1>1, <1>2, RestTypeKept DEF BatchTypeOK, RestTypeOK, Duty, Manifest

-----------------------------------------------------------------------------
(* Initially there are no manifests. *)
LEMMA BatchStarts == BatchInit => FrozenInv
  <1> SUFFICES ASSUME BatchInit PROVE FrozenInv
    OBVIOUS
  <1> USE DraftIsOne, BatchAssumption DEF BatchInit
  <1>1. NoDuty \in Duty /\ NoBundle \in Manifest
    BY DEF NoDuty, NoBundle, Duty, Manifest
  <1>2. BatchTypeOK
    BY <1>1 DEF BatchTypeOK, Duty, Manifest, NoRunner
  <1>3. FrozenIsManual
    BY DEF FrozenIsManual, NoBundle
  <1>4. QED
    BY <1>2, <1>3 DEF FrozenInv

(* A job that a step gives to a worker is named by no manifest, and what a step *)
(* newly names no worker has.                                                   *)
LEMMA FrozenKept == FrozenInv /\ [BatchNext]_batchVars => FrozenInv'
  <1> SUFFICES ASSUME FrozenInv, [BatchNext]_batchVars PROVE FrozenInv'
    OBVIOUS
  <1> USE BatchTypes DEF FrozenInv
  <1>1. BatchTypeOK'
    BY BatchTypeKept
  <1> SUFFICES ASSUME NEW b \in Bundle, NEW s \in HostSession, NEW v \in Draft,
                      Owned(b, s, v)', LiveBackground(duty'[s][v])
               PROVE  FALSE
    BY <1>1 DEF FrozenIsManual, Owned
  <1>2. Named(bundle'[b], s, v)
    BY OwnedIsNamedAfter
  <1>3. ASSUME Owned(b, s, v) PROVE ~LiveBackground(duty[s][v])
    BY <1>3 DEF FrozenIsManual, Owned
  <1>4. Named(bundle[b], s, v) \/ ~LiveBackground(duty[s][v])
    BY <1>2, ManifestsMove, BundleSets DEF BundleMoves, Reissues
  <1>5. ~LiveBackground(duty[s][v])
    BY <1>3, <1>4, OwnedIsNamed
  <1>6. \/ LiveBackground(duty[s][v])
        \/ bundle' = bundle /\ ~OwnsJob(s, v)
    BY JobsMove, DutySets, SMTT(40) DEF DutyMoves, OneJob, Marked, Rewrites, Earned, LiveBackground
  <1>7. ~Owned(b, s, v) /\ bundle' = bundle
    BY <1>5, <1>6 DEF OwnsJob, Owned
  <1>8. QED
    BY <1>2, <1>7, OwnedIsNamed

(* The inductive invariant of the frozen selections. *)
THEOREM BatchInvariant == BatchSpec => []FrozenInv
  BY BatchStarts, FrozenKept, PTL DEF BatchSpec

(* No worker holds a live lease on a job that a manifest names: the owner of    *)
(* the lease and the manifest decide, whatever bind, skip, stop and restart do. *)
THEOREM FrozenIsThePersons == BatchSpec => []FrozenIsManual
  BY BatchInvariant, PTL DEF FrozenInv

-----------------------------------------------------------------------------

(* The values of jobs and calls.                                                *)
Jobs == [status : {"none", "stale", "completed"} \cup Unfinished,
         manual : {"no", "yes"}, retained : {"no", "yes"}, v1 : {"no", "yes"},
         read : SUBSET Piece, held : [Piece -> Caller \cup {"free"}],
         review : {"free", "background"},
         lacks : {"nothing", "unfinished", "signal", "result"}]
Early == {"idle", "gone", "ingest", "first", "retain_first", "defer", "reconcile", "session",
          "retain_recheck", "retry", "reserve_retry", "retain_retry", "replay", "list"}
Late == {"take", "retain_taken", "evidence", "measured", "checkpoint", "verified", "bundle",
         "compact", "raw"}
Calls == [at : Early \cup Late \cup {"answered"}, select : {"queue", "session", "job"},
          retry : BOOLEAN, mode : {"semantic", "raw"}, task : Tasks \cup {<<0, "base">>},
          seen : {"none", "stale", "completed"} \cup Unfinished,
          windows : SUBSET (1 .. MaxRevision),
          answer : {"none", "owned", "manual", "unavailable", "changed", "unproven", "completed",
                    "nothing", "queued", "lost_lease", "review", "results", "chunks", "no_chunks"}]

PrepareTypes ==
    /\ revision \in 1 .. MaxRevision /\ observed \in 0 .. MaxRevision /\ kept \in BOOLEAN
    /\ task \in [Tasks -> Jobs] /\ call \in [Caller -> Calls]

(* What is reviewed has been read, and only what is unread is leased, of jobs   *)
(* that are there.                                                              *)
WellRead(a) ==
    /\ a.status \in {"reviewing", "completed"} => a.read = Piece
    /\ \A c \in Piece : a.held[c] # "free" => c \notin a.read /\ a.status # "none"

(* Where a call stands, given the jobs.                                         *)
Reserved(a) == a.manual = "yes" /\ a.retained = "yes"
Versioned(a) == a.v1 = "yes" \/ a.status = "completed"
Placed == Late \cup {"first", "retain_first", "retain_recheck", "retry", "reserve_retry",
                     "retain_retry", "replay"}
Stands(p, k, t) ==
    /\ k.task \in Tasks => t[k.task].status # "none"
    /\ k.seen = "reviewing" => k.task \in Tasks /\ t[k.task].read = Piece
    /\ k.select = "job" \/ k.at \in Placed => k.task \in Tasks
    /\ k.at = "reconcile" => k.select # "queue"
    /\ k.at \in {"bundle", "compact"} => t[k.task].read = Piece
    /\ k.at \in {"checkpoint", "verified", "bundle", "compact"} => Versioned(t[k.task])
    /\ p \in Agent =>
          /\ k.at = "retain_taken" => t[k.task].manual = "yes"
          /\ k.at \in Late \ {"take", "retain_taken"} => Reserved(t[k.task])
    /\ k.at = "answered" =>
          /\ k.answer = "review" => /\ k.task \in Tasks /\ k.windows = {k.task[1]}
                                    /\ t[k.task].read = Piece /\ Versioned(t[k.task])
          /\ p \in Agent /\ k.answer \in {"review", "results", "chunks"} =>
                k.task \in Tasks /\ Reserved(t[k.task])

PrepareInv ==
    /\ PrepareTypes
    /\ \A j \in Tasks : WellRead(task[j])
    /\ \A p \in Caller : Stands(p, call[p], task)
-----------------------------------------------------------------------------
(* How a job may change: what it has, it keeps.                                 *)
Moves(a, b) ==
    /\ b \in Jobs /\ WellRead(b)
    /\ a.status # "none" =>
          /\ b.status # "none" /\ a.read \subseteq b.read
          /\ a.manual = "yes" => b.manual = "yes"
          /\ a.retained = "yes" => b.retained = "yes"
          /\ a.v1 = "yes" => b.v1 = "yes"
          /\ a.status = "completed" => b.status = "completed"
TasksMove == task' \in [Tasks -> Jobs] /\ \A j \in Tasks : Moves(task[j], task'[j])
SourceMoves == revision' \in 1 .. MaxRevision /\ observed' \in 0 .. MaxRevision /\ kept' \in BOOLEAN

\* Nothing has to happen to a job, and one change may follow another.
LEMMA MovesCompose ==
  /\ \A a \in Jobs : WellRead(a) => Moves(a, a)
  /\ \A a, b, c \in Jobs : Moves(a, b) /\ Moves(b, c) => Moves(a, c)
  BY DEF Moves

\* A caller stands where it stood while jobs move.
LEMMA StandsStill ==
  ASSUME NEW t \in [Tasks -> Jobs], NEW u \in [Tasks -> Jobs],
         \A j \in Tasks : Moves(t[j], u[j]), NEW p, NEW k \in Calls, Stands(p, k, t)
  PROVE  Stands(p, k, u)
  <1>1. CASE k.task \notin Tasks
    BY <1>1 DEF Stands, Placed, Late
  <1>2. CASE k.task \in Tasks
    <2> DEFINE a == t[k.task]
               b == u[k.task]
    <2>1. Moves(a, b) /\ a \in Jobs /\ b \in Jobs /\ a.status # "none"
      BY <1>2 DEF Stands
    <2>1a. a.read \in SUBSET Piece /\ b.read \in SUBSET Piece
      BY <2>1 DEF Jobs
    <2> HIDE DEF a, b
    <2>2. /\ b.status # "none" /\ (a.read = Piece => b.read = Piece)
          /\ a.manual = "yes" => b.manual = "yes"
          /\ Reserved(a) => Reserved(b)
          /\ Versioned(a) => Versioned(b)
      BY <2>1, <2>1a DEF Moves, Reserved, Versioned
    <2>3. QED
      BY <1>2, <2>2 DEF Stands, a, b
  <1>3. QED
    BY <1>1, <1>2

\* Jobs move, and at most one call.
LEMMA JobsStep ==
  ASSUME PrepareInv, SourceMoves, TasksMove, UNCHANGED call
  PROVE  PrepareInv'
  <1>1. PrepareTypes' /\ \A j \in Tasks : WellRead(task'[j])
    BY DEF PrepareInv, PrepareTypes, SourceMoves, TasksMove, Moves
  <1>2. ASSUME NEW p \in Caller PROVE Stands(p, call'[p], task')
    BY StandsStill DEF PrepareInv, PrepareTypes, TasksMove
  <1>3. QED
    BY <1>1, <1>2 DEF PrepareInv
\* When a call is replaced, the new one must stand on what its job has become.
LEMMA CallSteps ==
  ASSUME PrepareInv, SourceMoves, TasksMove, NEW p \in Caller, NEW k \in Calls,
         Stands(p, k, task'), call' = [call EXCEPT ![p] = k]
  PROVE  PrepareInv'
  <1>1. PrepareTypes' /\ \A j \in Tasks : WellRead(task'[j])
    BY DEF PrepareInv, PrepareTypes, SourceMoves, TasksMove, Moves
  <1>2. ASSUME NEW q \in Caller PROVE Stands(q, call'[q], task')
    <2>1. CASE q = p
      BY <2>1 DEF PrepareInv, PrepareTypes
    <2>2. CASE q # p
      <3>1. call'[q] = call[q] /\ call[q] \in Calls /\ Stands(q, call[q], task)
        BY <2>2 DEF PrepareInv, PrepareTypes
      <3>2. QED
        BY <3>1, StandsStill DEF PrepareInv, PrepareTypes, TasksMove
    <2>3. QED
      BY <2>1, <2>2
  <1>3. QED
    BY <1>1, <1>2 DEF PrepareInv

\* Most steps of a call leave the jobs, or the source, alone.
LEMMA Rests ==
  ASSUME PrepareInv
  PROVE  /\ UNCHANGED task => TasksMove
         /\ UNCHANGED Source => SourceMoves
         /\ \A p \in Caller : call[p] \in Calls /\ Stands(p, call[p], task)
         /\ \A j \in Tasks : task[j] \in Jobs /\ WellRead(task[j])
  BY MovesCompose DEF PrepareInv, PrepareTypes, TasksMove, SourceMoves, Source

\* A call goes to its next step.
LEMMA GoKeeps ==
  ASSUME PrepareInv, SourceMoves, TasksMove, NEW p \in Caller, NEW step \in Early \cup Late,
         Go(p, step), step \in Placed => Mine(p) \in Tasks,
         step = "reconcile" => call[p].select # "queue",
         step \in {"bundle", "compact"} => task'[Mine(p)].read = Piece,
         step \in {"checkpoint", "verified", "bundle", "compact"} => Versioned(task'[Mine(p)]),
         p \in Agent /\ step = "retain_taken" => task'[Mine(p)].manual = "yes",
         p \in Agent /\ step \in Late \ {"take", "retain_taken"} => Reserved(task'[Mine(p)])
  PROVE  PrepareInv'
  <1> DEFINE k == [call[p] EXCEPT !.at = step]
  <1>1. call[p] \in Calls /\ Stands(p, call[p], task)
    BY Rests
  <1>2. Stands(p, call[p], task')
    BY <1>1, StandsStill DEF PrepareInv, PrepareTypes, TasksMove
  <1>3. k \in Calls /\ k.at = step /\ k.select = call[p].select /\ k.task = call[p].task
        /\ k.seen = call[p].seen
    BY <1>1 DEF Calls
  <1>3a. call' = [call EXCEPT ![p] = k]
    BY DEF Go, PrepareInv, PrepareTypes
  <1>4. step # "answered"
    BY DEF Early, Late
  <1> HIDE DEF k
  <1>5. Stands(p, k, task')
    BY <1>2, <1>3, <1>4 DEF Stands, Mine
  <1>6. QED
    BY <1>3, <1>3a, <1>5, CallSteps

\* A call goes to its next step with a job.
LEMMA GoesKeeps ==
  ASSUME PrepareInv, SourceMoves, TasksMove, NEW p \in Caller, NEW j \in Tasks,
         NEW step \in {"defer", "retry", "list", "evidence", "retain_recheck", "reserve_retry"},
         Goes(p, step, j), task'[j].status # "none",
         p \in Agent /\ step = "evidence" => Reserved(task'[j])
  PROVE  PrepareInv'
  <1> DEFINE k == [call[p] EXCEPT !.at = step, !.task = j, !.seen = task[j].status]
  <1>1. call[p] \in Calls /\ task[j] \in Jobs /\ WellRead(task[j]) /\ Moves(task[j], task'[j])
    BY Rests DEF TasksMove
  <1>2. k \in Calls /\ k.at = step /\ k.task = j /\ k.seen = task[j].status
        /\ k.select = call[p].select
    <2>1. step \in Early \cup Late
      BY DEF Early, Late
    <2>2. task[j].status \in {"none", "stale", "completed"} \cup Unfinished
      BY <1>1 DEF Jobs
    <2>3. QED
      BY <1>1, <2>1, <2>2, ZenonT(60) DEF Calls
  <1>2a. call' = [call EXCEPT ![p] = k]
    BY DEF Goes, PrepareInv, PrepareTypes
  <1>3. k.seen = "reviewing" => task'[j].read = Piece
    BY <1>1, <1>2, SMTT(40) DEF WellRead, Moves, Jobs
  <1> HIDE DEF k
  <1>4. Stands(p, k, task')
    BY <1>2, <1>3 DEF Stands, Late
  <1>5. QED
    BY <1>2, <1>2a, <1>4, CallSteps

\* A call is answered.
LEMMA DoneKeeps ==
  ASSUME PrepareInv, SourceMoves, TasksMove, NEW p \in Caller,
         NEW what \in {"owned", "manual", "unavailable", "changed", "unproven", "completed",
                       "nothing", "queued", "lost_lease", "review", "results", "chunks", "no_chunks"},
         NEW w \in SUBSET (1 .. MaxRevision), Done(p, what, w),
         what = "review" => /\ Mine(p) \in Tasks /\ w = {Mine(p)[1]}
                            /\ task'[Mine(p)].read = Piece /\ Versioned(task'[Mine(p)]),
         p \in Agent /\ what \in {"review", "results", "chunks"} =>
            Mine(p) \in Tasks /\ Reserved(task'[Mine(p)])
  PROVE  PrepareInv'
  <1> DEFINE k == [NoCall EXCEPT !.at = "answered", !.task = call[p].task,
                                 !.answer = what, !.windows = w]
  <1>1. call[p] \in Calls /\ Stands(p, call[p], task)
    BY Rests
  <1>2. Stands(p, call[p], task')
    BY <1>1, StandsStill DEF PrepareInv, PrepareTypes, TasksMove
  <1>3. k \in Calls /\ k.at = "answered" /\ k.task = call[p].task /\ k.seen = "none"
        /\ k.select = "queue" /\ k.answer = what /\ k.windows = w
    <2>1. NoCall \in Calls /\ NoCall.seen = "none" /\ NoCall.select = "queue"
      BY DEF Calls, NoCall, Early
    <2>2. call[p].task \in Tasks \cup {<<0, "base">>}
      BY <1>1 DEF Calls
    <2>3. k \in Calls
      BY <2>1, <2>2, ZenonT(60) DEF Calls
    <2> QED
      BY <2>1, <2>3 DEF Calls
  <1>4. call' = [call EXCEPT ![p] = k]
    BY DEF Done
  <1> HIDE DEF k
  <1>5. Stands(p, k, task')
    BY <1>2, <1>3 DEF Stands, Mine, Placed, Late
  <1> QED
    BY <1>3, <1>4, <1>5, CallSteps
-----------------------------------------------------------------------------
(* The ways in which a job moves.                                               *)
LEMMA Marks ==
  ASSUME NEW a \in Jobs, WellRead(a)
  PROVE  /\ Moves(a, [a EXCEPT !.manual = "yes"])
         /\ Moves(a, [a EXCEPT !.retained = "yes"])
         /\ Moves(a, [a EXCEPT !.manual = "yes", !.retained = "yes"])
         /\ Moves(a, [a EXCEPT !.v1 = "yes"])
  <1>1. ASSUME NEW b, b = [a EXCEPT !.manual = "yes"] PROVE Moves(a, b)
    <2>1. /\ b \in Jobs /\ b.status = a.status /\ b.read = a.read /\ b.held = a.held
          /\ b.manual = "yes" /\ b.retained = a.retained /\ b.v1 = a.v1
      BY <1>1 DEF Jobs
    <2> QED
      BY ONLY <2>1, WellRead(a) DEF Moves, WellRead
  <1>2. ASSUME NEW b, b = [a EXCEPT !.retained = "yes"] PROVE Moves(a, b)
    <2>1. /\ b \in Jobs /\ b.status = a.status /\ b.read = a.read /\ b.held = a.held
          /\ b.manual = a.manual /\ b.retained = "yes" /\ b.v1 = a.v1
      BY <1>2 DEF Jobs
    <2> QED
      BY ONLY <2>1, WellRead(a) DEF Moves, WellRead
  <1>3. ASSUME NEW b, b = [a EXCEPT !.manual = "yes", !.retained = "yes"] PROVE Moves(a, b)
    <2>1. /\ b \in Jobs /\ b.status = a.status /\ b.read = a.read /\ b.held = a.held
          /\ b.manual = "yes" /\ b.retained = "yes" /\ b.v1 = a.v1
      BY <1>3 DEF Jobs
    <2> QED
      BY ONLY <2>1, WellRead(a) DEF Moves, WellRead
  <1>4. ASSUME NEW b, b = [a EXCEPT !.v1 = "yes"] PROVE Moves(a, b)
    <2>1. /\ b \in Jobs /\ b.status = a.status /\ b.read = a.read /\ b.held = a.held
          /\ b.manual = a.manual /\ b.retained = a.retained /\ b.v1 = "yes"
      BY <1>4 DEF Jobs
    <2> QED
      BY ONLY <2>1, WellRead(a) DEF Moves, WellRead
  <1> QED
    BY ONLY <1>1, <1>2, <1>3, <1>4
\* An unfinished job takes another status; only what is read is reviewed.
LEMMA Restated ==
  ASSUME NEW a \in Jobs, WellRead(a), a.status \in Unfinished
  PROVE  /\ \A x \in {"stale", "queued", "retryable"} : Moves(a, [a EXCEPT !.status = x])
         /\ a.read = Piece => Moves(a, [a EXCEPT !.status = "reviewing"])
         /\ Moves(a, [a EXCEPT !.status = "backoff", !.held = [c \in Piece |-> "free"],
                               !.review = "free"])
  <1>1. ASSUME NEW x \in {"stale", "queued", "retryable", "reviewing"}, x = "reviewing" => a.read = Piece
        PROVE  Moves(a, [a EXCEPT !.status = x])
    <2> DEFINE b == [a EXCEPT !.status = x]
    <2>1. b \in Jobs
      BY DEF Jobs, Unfinished
    <2>2. /\ b.status = x /\ b.read = a.read /\ b.held = a.held
          /\ b.manual = a.manual /\ b.retained = a.retained /\ b.v1 = a.v1
      BY DEF Jobs
    <2> HIDE DEF b
    <2>3. x # "none" /\ a.status # "completed"
      BY DEF Unfinished
    <2>4. WellRead(b)
      BY <1>1, <2>2, <2>3 DEF WellRead
    <2>5. QED
      BY <2>1, <2>2, <2>3, <2>4 DEF Moves, b
  <1>2. ASSUME NEW b,
               b = [a EXCEPT !.status = "backoff", !.held = [c \in Piece |-> "free"], !.review = "free"]
       PROVE  Moves(a, b)
    <2>1. b \in Jobs /\ b.manual = a.manual /\ b.retained = a.retained /\ b.v1 = a.v1
      BY <1>2, ZenonT(60) DEF Jobs, Unfinished
    <2>2. b.read = a.read /\ b.status = "backoff" /\ b.held = [c \in Piece |-> "free"]
      BY <1>2 DEF Jobs, Unfinished
    <2> QED
      BY <1>2, <2>1, <2>2 DEF Moves, WellRead, Unfinished
  <1>3. QED
    BY <1>1, <1>2

\* A review begins, ends, or completes the job.
LEMMA Reviewed ==
  ASSUME NEW a \in Jobs, WellRead(a)
  PROVE  /\ \A x \in {"free", "background"} : Moves(a, [a EXCEPT !.review = x])
         /\ a.status = "reviewing" =>
               Moves(a, [a EXCEPT !.status = "completed", !.review = "free"])
  <1>1. ASSUME NEW x \in {"free", "background"}, NEW b,
               b = [a EXCEPT !.review = x]
       PROVE  Moves(a, b)
    <2>1. b \in Jobs /\ b.manual = a.manual /\ b.retained = a.retained /\ b.v1 = a.v1
      BY <1>1 DEF Jobs, Unfinished
    <2>2. b.read = a.read /\ b.status = a.status /\ b.held = a.held
      BY <1>1 DEF Jobs
    <2> QED
      BY <1>1, <2>1, <2>2 DEF Moves, WellRead
  <1>2. ASSUME a.status = "reviewing", NEW b,
               b = [a EXCEPT !.status = "completed", !.review = "free"]
       PROVE  Moves(a, b)
    <2>1. b \in Jobs /\ b.manual = a.manual /\ b.retained = a.retained /\ b.v1 = a.v1
      BY <1>2 DEF Jobs, Unfinished
    <2>2. b.read = a.read /\ b.status = "completed" /\ b.held = a.held
      BY <1>2 DEF Jobs
    <2> QED
      BY <1>2, <2>1, <2>2 DEF Moves, WellRead
  <1> QED
    BY ONLY <1>1, <1>2
\* Unread chunks are claimed, and released.
LEMMA Leased ==
  ASSUME NEW a \in Jobs, WellRead(a), NEW p \in Caller
  PROVE  /\ a.status \in Offered =>
               Moves(a, [a EXCEPT !.status = "processing",
                     !.held = [c \in Piece |-> IF c \in {d \in Piece \ a.read : a.held[d] = "free"}
                                               THEN p ELSE a.held[c]]])
         /\ \A c \in Piece : Moves(a, [a EXCEPT !.held[c] = "free"])
  <1>1. ASSUME a.status \in Offered
        PROVE Moves(a, [a EXCEPT !.status = "processing",
                     !.held = [c \in Piece |-> IF c \in {d \in Piece \ a.read : a.held[d] = "free"}
                                               THEN p ELSE a.held[c]]])
    <2> DEFINE h == [c \in Piece |-> IF c \in {d \in Piece \ a.read : a.held[d] = "free"}
                                     THEN p ELSE a.held[c]]
               b == [a EXCEPT !.status = "processing", !.held = h]
    <2>1. h \in [Piece -> Caller \cup {"free"}]
      BY DEF Jobs
    <2>2. \A c \in Piece : h[c] # "free" => c \notin a.read
      BY DEF WellRead
    <2> HIDE DEF h
    <2>3. b \in Jobs /\ b.manual = a.manual /\ b.retained = a.retained /\ b.v1 = a.v1
      BY <2>1 DEF Jobs, Unfinished
    <2>4. b.read = a.read /\ b.status = "processing" /\ b.held = h
      BY DEF Jobs
    <2> HIDE DEF b
    <2>5. a.status # "completed"
      BY <1>1 DEF Offered
    <2>6. Moves(a, b)
      BY ONLY <2>2, <2>3, <2>4, <2>5 DEF Moves, WellRead
    <2> QED
      BY ONLY <2>6 DEF b, h
  <1>2. ASSUME NEW c \in Piece PROVE Moves(a, [a EXCEPT !.held[c] = "free"])
    <2> DEFINE h == [a.held EXCEPT ![c] = "free"]
               b == [a EXCEPT !.held = h]
    <2>1. h \in [Piece -> Caller \cup {"free"}] /\ \A d \in Piece : h[d] # "free" => a.held[d] # "free"
      BY DEF Jobs
    <2> HIDE DEF h
    <2>2. b \in Jobs /\ b.manual = a.manual /\ b.retained = a.retained /\ b.v1 = a.v1
      BY <2>1 DEF Jobs
    <2>3. b.read = a.read /\ b.status = a.status /\ b.held = h
      BY DEF Jobs
    <2> HIDE DEF b
    <2>4. Moves(a, b)
      BY ONLY <2>1, <2>2, <2>3, WellRead(a) DEF Moves, WellRead
    <2> QED
      BY ONLY <2>4 DEF b, h
  <1>3. QED
    BY <1>1, <1>2
\* Who reads has leases, so the job is not completed.
LEMMA ReadOn ==
  ASSUME NEW a \in Jobs, WellRead(a), NEW M \in SUBSET Piece, M # {},
         \A c \in M : a.held[c] # "free", a.status # "none",
         NEW b, b = [a EXCEPT !.read = @ \cup M, !.status = IF a.read \cup M = Piece THEN "reviewing" ELSE @,
                               !.held = [c \in Piece |-> IF c \in M THEN "free" ELSE @[c]]]
  PROVE  Moves(a, b)
  <1>1. a.status # "completed"
    BY DEF WellRead
  <1> DEFINE h == [c \in Piece |-> IF c \in M THEN "free" ELSE a.held[c]]
             s == IF a.read \cup M = Piece THEN "reviewing" ELSE a.status
  <1>2. h \in [Piece -> Caller \cup {"free"}] /\ a.read \cup M \in SUBSET Piece
        /\ s \in {"none", "stale", "completed"} \cup Unfinished /\ s # "none"
    BY DEF Jobs, Unfinished
  <1>3. \A c \in Piece : h[c] # "free" => c \notin a.read \cup M
    BY DEF WellRead
  <1>4. s \in {"reviewing", "completed"} => a.read \cup M = Piece
    BY <1>1 DEF WellRead, Jobs
  <1>5. b = [a EXCEPT !.read = a.read \cup M, !.status = s, !.held = h]
    OBVIOUS
  <1> HIDE DEF h, s
  <1>6. b \in Jobs /\ b.read = a.read \cup M /\ b.status = s /\ b.held = h
        /\ b.manual = a.manual /\ b.retained = a.retained /\ b.v1 = a.v1
    <2>1. b \in Jobs
      BY ONLY <1>2, <1>5, a \in Jobs DEF Jobs
    <2>2. b.read = a.read \cup M /\ b.status = s /\ b.held = h
      BY ONLY <1>5, a \in Jobs DEF Jobs
    <2>3. b.manual = a.manual /\ b.retained = a.retained /\ b.v1 = a.v1
      BY ONLY <1>5, a \in Jobs DEF Jobs
    <2> QED
      BY ONLY <2>1, <2>2, <2>3
  <1>7. QED
    BY <1>1, <1>2, <1>3, <1>4, <1>6 DEF Moves, WellRead

\* One job moves.
LEMMA OneMoves ==
  ASSUME PrepareInv, NEW j \in Tasks, NEW b, Moves(task[j], b), task' = [task EXCEPT ![j] = b]
  PROVE  TasksMove
  BY Rests, MovesCompose DEF TasksMove, PrepareInv, PrepareTypes, Moves

\* A job is queued, or marked, and older ones become stale.
LEMMA EnqueuedMoves ==
  ASSUME PrepareInv, NEW pipe \in Pipelines, NEW byHand \in BOOLEAN, task' = Enqueued(pipe, byHand)
  PROVE  TasksMove /\ <<revision, pipe>> \in Tasks /\ task'[<<revision, pipe>>].status # "none"
  <1> DEFINE j == <<revision, pipe>>
             m == IF byHand THEN "yes" ELSE "no"
             b == IF task[j].status = "none" THEN Queued(m)
                  ELSE IF byHand THEN [task[j] EXCEPT !.manual = "yes", !.retained = "yes"]
                  ELSE task[j]
             u == [task EXCEPT ![j] = b]
  <1>1. j \in Tasks /\ task[j] \in Jobs /\ WellRead(task[j])
    BY Rests DEF PrepareInv, PrepareTypes, Tasks
  <1>2. Moves(task[j], b) /\ b.status # "none"
    <2>1. CASE task[j].status = "none"
      <3>1. /\ Queued(m) \in Jobs /\ Queued(m).status = "queued" /\ Queued(m).read = {}
        BY DEF Queued, NoTask, Jobs, Unfinished
      <3>2. WellRead(Queued(m))
        BY <3>1 DEF WellRead
      <3>3. QED
        BY <2>1, <3>1, <3>2 DEF Moves
    <2>2. CASE task[j].status # "none"
      BY <1>1, <2>2, Marks, MovesCompose, ZenonT(60) DEF Moves
    <2>3. QED
      BY <2>1, <2>2
  <1>3. task' = Staled(u)
    BY DEF Enqueued
  <1> HIDE DEF b
  <1>4. u \in [Tasks -> Jobs] /\ \A i \in Tasks : Moves(task[i], u[i])
    BY <1>1, <1>2, Rests, MovesCompose, SMTT(40) DEF PrepareInv, PrepareTypes, Moves
  <1>5. u[j] = b
    BY <1>1 DEF PrepareInv, PrepareTypes
  <1> HIDE DEF u
  <1>6. ASSUME NEW i \in Tasks
        PROVE  task'[i] \in Jobs /\ Moves(u[i], task'[i])
    <2>1. u[i] \in Jobs /\ WellRead(u[i])
      BY <1>4 DEF Moves
    <2>2. task'[i] = u[i] \/ (u[i].status \in Unfinished /\ task'[i] = [u[i] EXCEPT !.status = "stale"])
      BY <1>3 DEF Staled
    <2>3. CASE task'[i] = u[i]
      BY <2>1, <2>3, MovesCompose
    <2>4. CASE u[i].status \in Unfinished /\ task'[i] = [u[i] EXCEPT !.status = "stale"]
      <3>1. Moves(u[i], [u[i] EXCEPT !.status = "stale"])
        BY <2>1, <2>4, Restated
      <3>2. QED
        BY <2>4, <3>1 DEF Moves
    <2>5. Moves(u[i], task'[i])
      BY <2>2, <2>3, <2>4
    <2>6. QED
      BY <2>5 DEF Moves
  <1>7. task' \in [Tasks -> Jobs]
    BY <1>3, <1>6 DEF Staled
  <1>8. ASSUME NEW i \in Tasks PROVE Moves(task[i], task'[i])
    <2>1. Moves(task[i], u[i]) /\ Moves(u[i], task'[i]) /\ u[i] \in Jobs /\ task[i] \in Jobs /\ task'[i] \in Jobs
      BY <1>4, <1>6, Rests
    <2>2. QED
      BY <2>1, MovesCompose
  <1>9. task'[j].status # "none"
    BY <1>1, <1>2, <1>5, <1>6 DEF Moves
  <1>10. QED
    BY <1>1, <1>7, <1>8, <1>9 DEF TasksMove
-----------------------------------------------------------------------------
(* One lemma for each step of a call: every caller still stands.                *)
\* No call has no job.
LEMMA NoCallIsCall == NoCall \in Calls /\ <<0, "base">> \notin Tasks
  <1>1. <<0, "base">> \notin Tasks
    BY DEF Tasks
  <1>2. NoCall \in Calls
    BY DEF Calls, NoCall, Early
  <1>3. QED
    BY <1>1, <1>2

\* A call that names a job finds it there.
LEMMA OpenKeeps ==
  ASSUME PrepareInv, NEW p \in Caller, Open(p)
  PROVE  PrepareInv'
  <1>0. UNCHANGED <<Source, task>>
    BY Zenon DEF Open
  <1>1. SourceMoves /\ TasksMove /\ UNCHANGED task
    BY <1>0, Rests
  <1>2. PICK mode \in {"semantic", "raw"}, retry \in BOOLEAN :
          \/ \E select \in {"queue", "session"} :
                call' = [call EXCEPT ![p] = [NoCall EXCEPT !.at = "ingest", !.select = select,
                                                           !.retry = retry, !.mode = mode]]
          \/ \E j \in Exists :
                call' = [call EXCEPT ![p] = [NoCall EXCEPT !.at = "first", !.select = "job", !.retry = retry,
                                                           !.mode = mode, !.task = j]]
    BY ZenonT(60) DEF Open
  <1>3. CASE \E select \in {"queue", "session"} :
                call' = [call EXCEPT ![p] = [NoCall EXCEPT !.at = "ingest", !.select = select,
                                                           !.retry = retry, !.mode = mode]]
    <2>1. PICK select \in {"queue", "session"} :
                call' = [call EXCEPT ![p] = [NoCall EXCEPT !.at = "ingest", !.select = select,
                                                           !.retry = retry, !.mode = mode]]
      BY <1>3
    <2> DEFINE k == [NoCall EXCEPT !.at = "ingest", !.select = select, !.retry = retry, !.mode = mode]
    <2>2. k \in Calls /\ k.at = "ingest" /\ k.select # "job" /\ k.task \notin Tasks /\ k.seen = "none"
      <3>1. NoCall.task = <<0, "base">> /\ NoCall.seen = "none"
        BY DEF NoCall
      <3>2. k \in Calls /\ k.at = "ingest" /\ k.select # "job" /\ k.task = NoCall.task /\ k.seen = NoCall.seen
        <4>1. select \in {"queue", "session"} /\ retry \in BOOLEAN /\ mode \in {"semantic", "raw"}
          BY <1>2, <2>1
        <4>2. k \in Calls
          <5> DEFINE m == [NoCall EXCEPT !.at = "ingest", !.select = select]
                     l == [m EXCEPT !.retry = retry]
          <5>1. m \in Calls
            <6>1. "ingest" \in Early
              BY DEF Early
            <6> QED
              BY ONLY <4>1, <6>1, NoCallIsCall, ZenonT(60) DEF Calls
          <5>2. k = [l EXCEPT !.mode = mode]
            OBVIOUS
          <5> HIDE DEF m
          <5>3. l \in Calls
            BY ONLY <4>1, <5>1 DEF Calls
          <5> HIDE DEF l, k
          <5> QED
            BY ONLY <4>1, <5>2, <5>3 DEF Calls
        <4>3. k.at = "ingest" /\ k.select = select /\ k.task = NoCall.task /\ k.seen = NoCall.seen
          BY ONLY NoCallIsCall DEF Calls
        <4>4. QED
          BY <4>1, <4>2, <4>3
      <3>3. QED
        BY <3>1, <3>2, NoCallIsCall
    <2>3. call' = [call EXCEPT ![p] = k]
      BY <2>1
    <2> HIDE DEF k
    <2>4. Stands(p, k, task')
      BY <2>2 DEF Stands, Placed, Late
    <2>5. QED
      BY <1>1, <2>2, <2>3, <2>4, CallSteps
  <1>4. CASE \E j \in Exists :
                call' = [call EXCEPT ![p] = [NoCall EXCEPT !.at = "first", !.select = "job", !.retry = retry,
                                                           !.mode = mode, !.task = j]]
    <2>1. PICK j \in Exists :
                call' = [call EXCEPT ![p] = [NoCall EXCEPT !.at = "first", !.select = "job", !.retry = retry,
                                                           !.mode = mode, !.task = j]]
      BY <1>4
    <2> DEFINE k == [NoCall EXCEPT !.at = "first", !.select = "job", !.retry = retry,
                                   !.mode = mode, !.task = j]
    <2>1a. j \in Tasks /\ task'[j].status # "none"
      BY <1>1 DEF Exists
    <2>2. k \in Calls /\ k.at = "first" /\ k.task = j /\ k.seen = "none"
      BY <2>1a DEF Calls, NoCall, Early
    <2>3. call' = [call EXCEPT ![p] = k]
      BY <2>1
    <2> HIDE DEF k
    <2>4. Stands(p, k, task')
      BY <2>1a, <2>2 DEF Stands, Late
    <2>5. QED
      BY <1>1, <2>2, <2>3, <2>4, CallSteps
  <1>5. QED
    BY <1>2, <1>3, <1>4

\* Ingestion queues the base job.
LEMMA IngestKeeps ==
  ASSUME PrepareInv, NEW p \in Caller, Ingest(p)
  PROVE  PrepareInv'
  <1>1. SourceMoves /\ Go(p, "defer")
    BY Rests DEF Ingest
  <1>2. TasksMove
    BY Rests, EnqueuedMoves DEF Ingest, Pipelines
  <1>3. QED
    BY <1>1, <1>2, GoKeeps DEF Early, Placed, Late

\* The job is reserved, or the call is answered.
LEMMA ReserveKeeps ==
  ASSUME PrepareInv, UNCHANGED Source, NEW p \in Caller, Mine(p) \in Tasks,
         NEW next \in {"retain_first", "retain_retry", "retain_taken"}, Reserve(p, Mine(p), next)
  PROVE  PrepareInv'
  <1> DEFINE j == Mine(p)
  <1>1. SourceMoves /\ task[j] \in Jobs /\ WellRead(task[j])
    BY Rests
  <1>2. CASE OwnedElsewhere(j)
    <2>1. TasksMove /\ Done(p, "owned", {})
      BY <1>2, Rests DEF Reserve, Answer
    <2>2. QED
      BY <1>1, <2>1, DoneKeeps
  <1>3. CASE ~OwnedElsewhere(j)
    <2>1. task' = [task EXCEPT ![j].manual = "yes"] /\ Go(p, next)
      BY <1>3 DEF Reserve
    <2>2. Moves(task[j], [task[j] EXCEPT !.manual = "yes"])
      BY <1>1, Marks
    <2>3. TasksMove /\ task'[j].manual = "yes"
      BY <1>1, <2>1, <2>2, OneMoves, ZenonT(60) DEF PrepareInv, PrepareTypes, Jobs
    <2>4. QED
      BY <1>1, <2>1, <2>3, GoKeeps DEF Early, Late, Placed
  <1>4. QED
    BY <1>2, <1>3

\* Where a call has a job, the job is there.
LEMMA HasJob ==
  ASSUME PrepareInv, NEW p \in Caller, call[p].at \in Placed \/ call[p].select = "job"
  PROVE  Mine(p) \in Tasks /\ task[Mine(p)].status # "none" /\ task[Mine(p)] \in Jobs /\ WellRead(task[Mine(p)])
  BY Rests DEF Stands, Mine

\* An agent reserves the job it has named.
LEMMA ReserveFirstKeeps ==
  ASSUME PrepareInv, NEW p \in Caller, ReserveFirst(p)
  PROVE  PrepareInv'
  <1>1. UNCHANGED Source /\ SourceMoves /\ At(p, "first") /\ Mine(p) \in Tasks
    BY Rests, HasJob DEF ReserveFirst, At, Placed
  <1>2. \/ Go(p, "defer") /\ UNCHANGED task
        \/ Answer(p, "manual") /\ UNCHANGED task
        \/ Reserve(p, Mine(p), "retain_first")
    BY DEF ReserveFirst, Keeps
  <1>3. CASE Go(p, "defer") /\ UNCHANGED task
    BY <1>1, <1>3, Rests, GoKeeps DEF Early, Placed, Late
  <1>4. CASE Answer(p, "manual") /\ UNCHANGED task
    BY <1>1, <1>4, Rests, DoneKeeps DEF Answer
  <1>5. CASE Reserve(p, Mine(p), "retain_first")
    BY <1>1, <1>5, ReserveKeeps
  <1>6. QED
    BY <1>2, <1>3, <1>4, <1>5

\* Retaining the source makes the reservation complete.
LEMMA RetainKeeps ==
  ASSUME PrepareInv, NEW p \in Caller,
         NEW from \in {"retain_first", "retain_recheck", "retain_retry", "retain_taken"},
         NEW next \in {"defer", "retry", "list", "evidence"},
         next = "evidence" <=> from = "retain_taken", Retain(p, from, next)
  PROVE  PrepareInv'
  <1> DEFINE j == Mine(p)
  <1>1. SourceMoves /\ call[p].at = from /\ Goes(p, next, j)
        /\ task' = [task EXCEPT ![j].retained = "yes"]
    BY Rests DEF Retain, At
  <1>2. j \in Tasks /\ task[j].status # "none" /\ task[j] \in Jobs /\ WellRead(task[j])
    BY <1>1, HasJob DEF Placed, Late
  <1>3. Stands(p, call[p], task)
    BY Rests
  <1>4. Moves(task[j], [task[j] EXCEPT !.retained = "yes"])
    BY <1>2, Marks
  <1>5. task' = [task EXCEPT ![j] = [task[j] EXCEPT !.retained = "yes"]]
    BY <1>1, <1>2 DEF PrepareInv, PrepareTypes
  <1>6. TasksMove
    BY <1>2, <1>4, <1>5, OneMoves
  <1>7. task'[j] = [task[j] EXCEPT !.retained = "yes"]
    BY <1>2, <1>5 DEF PrepareInv, PrepareTypes
  <1>8. task'[j].status # "none" /\ task'[j].retained = "yes" /\ task'[j].manual = task[j].manual
    BY <1>2, <1>7 DEF Jobs
  <1>9. p \in Agent /\ next = "evidence" => Reserved(task'[j])
    BY <1>1, <1>3, <1>8 DEF Stands, Mine, Reserved
  <1>10. QED
    BY <1>1, <1>2, <1>6, <1>8, <1>9, GoesKeeps

\* A job that is put off keeps what it has.
LEMMA DeferOtherKeeps ==
  ASSUME PrepareInv, NEW p \in Caller, DeferOther(p)
  PROVE  PrepareInv'
  <1>1. SourceMoves
    BY Rests, ZenonT(60) DEF DeferOther
  <1>2. TasksMove
    <2>1. CASE UNCHANGED task
      BY <2>1, Rests
    <2>2. CASE \E j \in Tasks : task[j].status \in Unfinished /\
                 task' = [task EXCEPT ![j].status = "backoff", ![j].held = [c \in Piece |-> "free"], ![j].review = "free"]
      <3>1. PICK j \in Tasks : task[j].status \in Unfinished /\
                 task' = [task EXCEPT ![j].status = "backoff", ![j].held = [c \in Piece |-> "free"], ![j].review = "free"]
        BY <2>2
      <3> DEFINE b == [task[j] EXCEPT !.status = "backoff", !.held = [c \in Piece |-> "free"], !.review = "free"]
      <3>2. task' = [task EXCEPT ![j] = b]
        BY <3>1 DEF PrepareInv, PrepareTypes
      <3>3. Moves(task[j], b)
        BY <3>1, Rests, Restated
      <3>4. QED
        BY <3>2, <3>3, OneMoves
    <2>3. QED
      BY <2>1, <2>2, Zenon DEF DeferOther
  <1>3. PICK step \in {"list", "reconcile"} : Go(p, step) /\ (step = "reconcile" => call[p].select # "queue")
    BY DEF DeferOther
  <1>4. QED
    BY <1>1, <1>2, <1>3, GoKeeps, SMTT(40) DEF Early, Placed, Late

\* Reconciliation sends to review only what has been read.
LEMMA ReconcileKeeps ==
  ASSUME PrepareInv, NEW p \in Caller, Reconcile(p)
  PROVE  PrepareInv'
  <1>1. SourceMoves /\ call[p].at = "reconcile" /\ Stands(p, call[p], task) /\ call[p] \in Calls
    BY Rests DEF Reconcile, At
  <1>2. ASSUME NEW j \in Tasks PROVE Moves(task[j], task'[j])
    <2>1. \/ task'[j] = task[j]
          \/ task[j].status \in {"queued", "processing"} /\ task[j].read = Piece
             /\ task'[j] = [task[j] EXCEPT !.status = "reviewing"]
          \/ task[j].status \in {"queued", "processing"} /\ task'[j] = [task[j] EXCEPT !.status = "queued"]
      BY DEF Reconcile
    <2>2. task[j] \in Jobs /\ WellRead(task[j])
      BY Rests
    <2>3. CASE task'[j] = task[j]
      BY <2>2, <2>3, MovesCompose
    <2>4. CASE task[j].status \in Unfinished /\ task[j].read = Piece
               /\ task'[j] = [task[j] EXCEPT !.status = "reviewing"]
      <3>1. Moves(task[j], [task[j] EXCEPT !.status = "reviewing"])
        BY <2>2, <2>4, Restated
      <3>2. QED
        BY <2>4, <3>1
    <2>5. CASE task[j].status \in Unfinished /\ task'[j] = [task[j] EXCEPT !.status = "queued"]
      <3>1. Moves(task[j], [task[j] EXCEPT !.status = "queued"])
        BY <2>2, <2>5, Restated
      <3>2. QED
        BY <2>5, <3>1
    <2>6. QED
      BY <2>1, <2>3, <2>4, <2>5 DEF Unfinished
  <1>3. TasksMove
    <2>1. \A j \in Tasks : task'[j] \in Jobs
      BY <1>2 DEF Moves
    <2>2. task' = [j \in Tasks |-> task'[j]]
      BY SMTT(40) DEF Reconcile
    <2>3. QED
      BY <1>2, <2>1, <2>2 DEF TasksMove
  <1>4. CASE call[p].select = "session"
    BY <1>1, <1>3, <1>4, GoKeeps DEF Reconcile, Early, Placed, Late
  <1>5. CASE call[p].select # "session"
    <2>1. Go(p, "retry")
      BY <1>5 DEF Reconcile
    <2>2. call[p].select = "job"
      BY <1>1, <1>5 DEF Stands, Calls
    <2>3. Mine(p) \in Tasks
      BY <2>2, HasJob
    <2>4. QED
      BY <1>1, <1>3, <2>1, <2>3, GoKeeps DEF Early, Late
  <1>6. QED
    BY <1>4, <1>5

\* A recheck is queued, and is there when it is selected.
LEMMA SelectSessionKeeps ==
  ASSUME PrepareInv, NEW p \in Caller, SelectSession(p)
  PROVE  PrepareInv'
  <1>1. SourceMoves
    BY Rests DEF SelectSession
  <1>2. PICK j \in Newest :
          LET pipe == IF task[j].status = "completed" THEN RecheckPipeline(p, j) ELSE "none"
          IN  IF pipe = "none" THEN Goes(p, "retry", j) /\ UNCHANGED task
              ELSE IF ~kept THEN Answer(p, "unavailable") /\ UNCHANGED task
              ELSE /\ task' = Enqueued(pipe, p \in Agent)
                   /\ Goes(p, IF p \in Agent THEN "retain_recheck" ELSE "retry", <<revision, pipe>>)
    BY DEF SelectSession
  <1>3. j \in Tasks /\ task[j].status # "none"
    BY DEF Newest, Exists
  <1> DEFINE pipe == IF task[j].status = "completed" THEN RecheckPipeline(p, j) ELSE "none"
  <1>4. pipe \in Pipelines \cup {"none"}
    BY DEF RecheckPipeline, Pipelines
  <1>5. \/ Goes(p, "retry", j) /\ UNCHANGED task
        \/ Answer(p, "unavailable") /\ UNCHANGED task
        \/ /\ pipe # "none" /\ task' = Enqueued(pipe, p \in Agent)
           /\ Goes(p, IF p \in Agent THEN "retain_recheck" ELSE "retry", <<revision, pipe>>)
    BY <1>2
  <1> HIDE DEF pipe
  <1>6. CASE Goes(p, "retry", j) /\ UNCHANGED task
    BY <1>1, <1>3, <1>6, Rests, GoesKeeps
  <1>7. CASE Answer(p, "unavailable") /\ UNCHANGED task
    BY <1>1, <1>7, Rests, DoneKeeps DEF Answer
  <1>8. CASE /\ pipe # "none" /\ task' = Enqueued(pipe, p \in Agent)
             /\ Goes(p, IF p \in Agent THEN "retain_recheck" ELSE "retry", <<revision, pipe>>)
    <2>1. TasksMove /\ <<revision, pipe>> \in Tasks /\ task'[<<revision, pipe>>].status # "none"
      <3>1. pipe \in Pipelines
        BY <1>4, <1>8
      <3>2. task' = Enqueued(pipe, TRUE) \/ task' = Enqueued(pipe, FALSE)
        BY <1>8 DEF Enqueued
      <3>3. QED
        BY <3>1, <3>2, EnqueuedMoves
    <2>2. PICK step \in {"retain_recheck", "retry"} : Goes(p, step, <<revision, pipe>>)
      BY <1>8
    <2>3. QED
      BY <1>1, <2>1, <2>2, GoesKeeps
  <1>9. QED
    BY <1>5, <1>6, <1>7, <1>8

\* So is the retry of a completed job.
LEMMA RetryCompletedKeeps ==
  ASSUME PrepareInv, NEW p \in Caller, RetryCompleted(p)
  PROVE  PrepareInv'
  <1> DEFINE j == Mine(p)
  <1>1. SourceMoves /\ j \in Tasks
    BY Rests, HasJob DEF RetryCompleted, At, Placed
  <1>2. \/ Answer(p, "manual") /\ UNCHANGED task
        \/ Answer(p, "changed") /\ UNCHANGED task
        \/ task' = Enqueued("manual", TRUE) /\ Goes(p, "reserve_retry", <<revision, "manual">>)
        \/ Go(p, "replay") /\ UNCHANGED task
    BY DEF RetryCompleted
  <1>3. CASE Answer(p, "manual") /\ UNCHANGED task
    BY <1>1, <1>3, Rests, DoneKeeps DEF Answer
  <1>4. CASE Answer(p, "changed") /\ UNCHANGED task
    BY <1>1, <1>4, Rests, DoneKeeps DEF Answer
  <1>5. CASE task' = Enqueued("manual", TRUE) /\ Goes(p, "reserve_retry", <<revision, "manual">>)
    <2>1. TasksMove /\ <<revision, "manual">> \in Tasks /\ task'[<<revision, "manual">>].status # "none"
      BY <1>5, EnqueuedMoves DEF Pipelines
    <2>2. QED
      BY <1>1, <1>5, <2>1, GoesKeeps
  <1>6. CASE Go(p, "replay") /\ UNCHANGED task
    BY <1>1, <1>6, Rests, GoKeeps DEF Early, Late
  <1>7. QED
    BY <1>2, <1>3, <1>4, <1>5, <1>6

\* It is reserved like any other.
LEMMA ReserveRetryKeeps ==
  ASSUME PrepareInv, NEW p \in Caller, ReserveRetry(p)
  PROVE  PrepareInv'
  <1>1. UNCHANGED Source /\ Mine(p) \in Tasks /\ Reserve(p, Mine(p), "retain_retry")
    BY HasJob DEF ReserveRetry, At, Placed
  <1>2. QED
    BY <1>1, ReserveKeeps

\* A completed job stays as it is, whatever becomes of its source.
LEMMA ReplayKeeps ==
  ASSUME PrepareInv, NEW p \in Caller, Replay(p)
  PROVE  PrepareInv'
  <1> DEFINE j == Mine(p)
  <1>1. j \in Tasks /\ task[j] \in Jobs /\ WellRead(task[j])
    BY HasJob DEF Replay, At, Placed
  <1>2. SourceMoves
    <2>1. \/ UNCHANGED <<revision, observed, kept>>
          \/ revision' = revision /\ kept' = FALSE /\ observed' = 0
      BY DEF Replay
    <2>2. 0 \in 0 .. MaxRevision
      BY PrepareAssumption
    <2>3. CASE UNCHANGED <<revision, observed, kept>>
      BY <2>3 DEF SourceMoves, PrepareInv, PrepareTypes
    <2>4. CASE revision' = revision /\ kept' = FALSE /\ observed' = 0
      BY <2>2, <2>4 DEF SourceMoves, PrepareInv, PrepareTypes
    <2>5. QED
      BY <2>1, <2>3, <2>4
  <1>3. CASE task[j].status = "completed"
    <2>1. UNCHANGED task /\ \E what \in {"unproven", "completed"} : Done(p, what, {})
      BY <1>3 DEF Replay, Answer
    <2>2. QED
      BY <1>2, <2>1, Rests, DoneKeeps
  <1>4. CASE task[j].status # "completed"
    <2>1. Go(p, "list")
      BY <1>4 DEF Replay
    <2>2. CASE task[j].status = "parked"
      <3>1. task' = [task EXCEPT ![j] = [task[j] EXCEPT !.status = "queued"]]
        BY <1>1, <1>4, <2>2, SMTT(40) DEF Replay, PrepareInv, PrepareTypes
      <3>2. Moves(task[j], [task[j] EXCEPT !.status = "queued"])
        BY <1>1, <2>2, Restated DEF Unfinished
      <3>3. TasksMove
        BY <1>1, <3>1, <3>2, OneMoves
      <3>4. QED
        BY <1>2, <2>1, <3>3, GoKeeps DEF Early, Placed, Late
    <2>3. CASE task[j].status # "parked"
      <3>1. TasksMove
        BY <1>4, <2>3, Rests DEF Replay
      <3>2. QED
        BY <1>2, <2>1, <3>1, GoKeeps DEF Early, Placed, Late
    <2>4. QED
      BY <2>2, <2>3
  <1>5. QED
    BY <1>3, <1>4

\* What is picked as reviewing has been read, and stays read.
LEMMA PickKeeps ==
  ASSUME PrepareInv, NEW p \in Caller, Pick(p)
  PROVE  PrepareInv'
  <1>1. SourceMoves /\ TasksMove /\ UNCHANGED task /\ call[p] \in Calls
    BY Rests, ZenonT(60) DEF Pick
  <1>2. \/ Answer(p, "nothing")
        \/ \E j \in Tasks : task[j].status \in Offered /\
              call' = [call EXCEPT ![p] = [NoCall EXCEPT !.at = "take", !.mode = call[p].mode,
                                                         !.task = j, !.seen = task[j].status]]
    BY DEF Pick
  <1>3. CASE Answer(p, "nothing")
    BY <1>1, <1>3, DoneKeeps DEF Answer
  <1>4. CASE \E j \in Tasks : task[j].status \in Offered /\
              call' = [call EXCEPT ![p] = [NoCall EXCEPT !.at = "take", !.mode = call[p].mode,
                                                         !.task = j, !.seen = task[j].status]]
    <2>1. PICK j \in Tasks : task[j].status \in Offered /\
              call' = [call EXCEPT ![p] = [NoCall EXCEPT !.at = "take", !.mode = call[p].mode,
                                                         !.task = j, !.seen = task[j].status]]
      BY <1>4
    <2> DEFINE k == [NoCall EXCEPT !.at = "take", !.mode = call[p].mode,
                                   !.task = j, !.seen = task[j].status]
    <2>2. k \in Calls
      <3>1. call[p].mode \in {"semantic", "raw"} /\ task[j].status \in Unfinished
        BY <1>1, <2>1 DEF Calls, Offered, Unfinished
      <3>2. QED
        BY <3>1, NoCallIsCall, ZenonT(60) DEF Calls, Late
    <2>3. k.at = "take" /\ k.task = j /\ k.seen = task[j].status
      BY NoCallIsCall DEF Calls
    <2>4. call' = [call EXCEPT ![p] = k]
      BY <2>1
    <2>5. task'[j].status # "none" /\ (task'[j].status = "reviewing" => task'[j].read = Piece)
      BY <1>1, <2>1, Rests DEF WellRead, Offered
    <2> HIDE DEF k
    <2>6. Stands(p, k, task')
      BY <1>1, <2>3, <2>5 DEF Stands
    <2>7. QED
      BY <1>1, <2>2, <2>4, <2>6, CallSteps
  <1>5. QED
    BY <1>2, <1>3, <1>4

\* An agent reserves the job it takes.
LEMMA TakeKeeps ==
  ASSUME PrepareInv, NEW p \in Caller, Take(p)
  PROVE  PrepareInv'
  <1>1. UNCHANGED Source /\ SourceMoves /\ Mine(p) \in Tasks
    BY Rests, HasJob DEF Take, At, Placed, Late
  <1>2. \/ Reserve(p, Mine(p), "retain_taken")
        \/ Answer(p, "queued") /\ UNCHANGED task
        \/ Answer(p, "manual") /\ UNCHANGED task
        \/ p \notin Agent /\ Go(p, "evidence") /\ UNCHANGED task
    BY DEF Take, Keeps
  <1>3. CASE Reserve(p, Mine(p), "retain_taken")
    BY <1>1, <1>3, ReserveKeeps
  <1>4. CASE Answer(p, "queued") /\ UNCHANGED task
    BY <1>1, <1>4, Rests, DoneKeeps DEF Answer
  <1>5. CASE Answer(p, "manual") /\ UNCHANGED task
    BY <1>1, <1>5, Rests, DoneKeeps DEF Answer
  <1>6. CASE p \notin Agent /\ Go(p, "evidence") /\ UNCHANGED task
    BY <1>1, <1>6, Rests, GoKeeps DEF Late
  <1>7. QED
    BY <1>2, <1>3, <1>4, <1>5, <1>6
-----------------------------------------------------------------------------
(* The reading of the evidence.                                                 *)
\* What a caller's job has, it still has after jobs move.
LEMMA JobKeeps ==
  ASSUME PrepareInv, TasksMove, NEW j \in Tasks, task[j].status # "none"
  PROVE  /\ task'[j].status # "none"
         /\ Reserved(task[j]) => Reserved(task'[j])
         /\ Versioned(task[j]) => Versioned(task'[j])
         /\ task[j].read = Piece => task'[j].read = Piece
  <1>1. task[j] \in Jobs /\ task'[j] \in Jobs /\ Moves(task[j], task'[j])
    BY Rests DEF TasksMove
  <1>2. task[j].read \in SUBSET Piece /\ task'[j].read \in SUBSET Piece
    BY <1>1 DEF Jobs
  <1>3. QED
    BY <1>1, <1>2 DEF Moves, Reserved, Versioned

\* What a caller that reads has, before and after.
LEMMA Reading ==
  ASSUME PrepareInv, TasksMove, NEW p \in Caller, call[p].at \in Late \ {"take", "retain_taken"}
  PROVE  /\ Mine(p) \in Tasks /\ task[Mine(p)] \in Jobs /\ WellRead(task[Mine(p)])
         /\ task[Mine(p)].status # "none" /\ task'[Mine(p)].status # "none"
         /\ p \in Agent => Reserved(task[Mine(p)]) /\ Reserved(task'[Mine(p)])
         /\ call[p].at \in {"checkpoint", "verified", "bundle", "compact"} => Versioned(task'[Mine(p)])
         /\ call[p].at \in {"bundle", "compact"} => task'[Mine(p)].read = Piece
         /\ call[p].seen = "reviewing" => task'[Mine(p)].read = Piece
  <1>1. Mine(p) \in Tasks /\ task[Mine(p)] \in Jobs /\ WellRead(task[Mine(p)]) /\ task[Mine(p)].status # "none"
    BY HasJob DEF Placed
  <1>2. Stands(p, call[p], task)
    BY Rests
  <1>3. QED
    BY <1>1, <1>2, JobKeeps DEF Stands, Mine

\* Loading evidence changes no job.
LEMMA LoadEvidenceKeeps ==
  ASSUME PrepareInv, NEW p \in Caller, LoadEvidence(p)
  PROVE  PrepareInv'
  <1>1. SourceMoves /\ TasksMove /\ call[p].at = "evidence"
    BY Rests DEF LoadEvidence, At
  <1>2. Mine(p) \in Tasks /\ (p \in Agent => Reserved(task'[Mine(p)]))
    BY <1>1, Reading DEF Late
  <1>3. \E step \in {"measured", "raw"} : Go(p, step)
    BY DEF LoadEvidence
  <1>4. QED
    BY <1>1, <1>2, <1>3, GoKeeps DEF Early, Late

\* The second load gives the job the challenge version, unless it is completed.
LEMMA LoadAgainKeeps ==
  ASSUME PrepareInv, NEW p \in Caller, LoadAgain(p)
  PROVE  PrepareInv'
  <1> DEFINE j == Mine(p)
  <1>1. SourceMoves /\ call[p].at = "measured"
    BY Rests DEF LoadAgain, At
  <1>2. j \in Tasks /\ task[j] \in Jobs /\ WellRead(task[j])
    BY <1>1, HasJob DEF Placed, Late
  <1>3. \/ UNCHANGED task /\ Go(p, "raw")
        \/ UNCHANGED task /\ task[j].status = "completed" /\ Go(p, "checkpoint")
        \/ task' = [task EXCEPT ![j].v1 = "yes"] /\ Go(p, "checkpoint")
    BY DEF LoadAgain
  <1>4. CASE UNCHANGED task /\ Go(p, "raw")
    <2>1. TasksMove
      BY <1>4, Rests
    <2>2. p \in Agent => Reserved(task'[j])
      BY <1>1, <2>1, Reading DEF Late
    <2>3. QED
      BY <1>1, <1>2, <1>4, <2>1, <2>2, GoKeeps DEF Late
  <1>5. CASE UNCHANGED task /\ task[j].status = "completed" /\ Go(p, "checkpoint")
    <2>1. TasksMove
      BY <1>5, Rests
    <2>2. p \in Agent => Reserved(task'[j])
      BY <1>1, <2>1, Reading DEF Late
    <2>3. Versioned(task'[j])
      BY <1>5 DEF Versioned
    <2>4. QED
      BY <1>1, <1>2, <1>5, <2>1, <2>2, <2>3, GoKeeps DEF Late
  <1>6. CASE task' = [task EXCEPT ![j].v1 = "yes"] /\ Go(p, "checkpoint")
    <2>1. Moves(task[j], [task[j] EXCEPT !.v1 = "yes"])
      BY <1>2, Marks
    <2>2. task' = [task EXCEPT ![j] = [task[j] EXCEPT !.v1 = "yes"]]
      BY <1>6
    <2>3. TasksMove
      BY <1>2, <2>1, <2>2, OneMoves
    <2>4. p \in Agent => Reserved(task'[j])
      BY <1>1, <2>3, Reading DEF Late
    <2>5. task'[j] = [task[j] EXCEPT !.v1 = "yes"]
      BY <1>2, <2>2 DEF PrepareInv, PrepareTypes
    <2>6. Versioned(task'[j])
      BY <1>2, <2>5, SMTT(40) DEF Versioned, Jobs
    <2>7. QED
      BY <1>1, <1>2, <1>6, <2>3, <2>4, <2>6, GoKeeps DEF Late
  <1>7. QED
    BY <1>3, <1>4, <1>5, <1>6

\* Claiming the free chunks of a job on offer.
LEMMA ClaimMoves ==
  ASSUME PrepareInv, NEW p \in Caller, NEW j \in Tasks, MayClaim(p, j), task' = Claimed(p, j)
  PROVE  TasksMove
  <1> DEFINE a == task[j]
             b == [a EXCEPT !.status = "processing",
                     !.held = [c \in Piece |-> IF c \in {d \in Piece \ a.read : a.held[d] = "free"}
                                               THEN p ELSE a.held[c]]]
  <1>1. a \in Jobs /\ WellRead(a) /\ a.status \in Offered
    BY Rests, SMTT(40) DEF MayClaim
  <1>2. Moves(a, b)
    BY <1>1, Leased
  <1>3. task' = [task EXCEPT ![j] = b]
    BY DEF Claimed, Claimable, PrepareInv, PrepareTypes
  <1>4. QED
    BY <1>2, <1>3, OneMoves

\* What is seen under review has been read; else its chunks are claimed.
LEMMA ClaimAllKeeps ==
  ASSUME PrepareInv, NEW p \in Caller, ClaimAll(p)
  PROVE  PrepareInv'
  <1> DEFINE j == Mine(p)
  <1>1. SourceMoves /\ call[p].at = "checkpoint"
    BY Rests DEF ClaimAll, At
  <1>2. j \in Tasks /\ task[j] \in Jobs /\ WellRead(task[j])
    BY <1>1, HasJob DEF Placed, Late
  <1>3. \/ "reviewing" \in {task[j].status, call[p].seen} /\ Go(p, "bundle") /\ UNCHANGED task
        \/ MayClaim(p, j) /\ task' = Claimed(p, j) /\ Go(p, "verified")
        \/ Go(p, "raw") /\ UNCHANGED task
    BY DEF ClaimAll
  <1>4. TasksMove
    BY <1>2, <1>3, Rests, ClaimMoves
  <1>5. (p \in Agent => Reserved(task'[j])) /\ Versioned(task'[j])
        /\ (call[p].seen = "reviewing" => task'[j].read = Piece)
    BY <1>1, <1>4, Reading DEF Late
  <1>6. CASE "reviewing" \in {task[j].status, call[p].seen} /\ Go(p, "bundle") /\ UNCHANGED task
    <2>1. task'[j].read = Piece
      BY <1>2, <1>5, <1>6 DEF WellRead
    <2>2. QED
      BY <1>1, <1>2, <1>4, <1>5, <1>6, <2>1, GoKeeps DEF Late
  <1>7. CASE Go(p, "verified")
    BY <1>1, <1>2, <1>4, <1>5, <1>7, GoKeeps DEF Late
  <1>8. CASE Go(p, "raw")
    BY <1>1, <1>2, <1>4, <1>5, <1>8, GoKeeps DEF Late
  <1>9. QED
    BY <1>3, <1>6, <1>7, <1>8

\* The chunks of one's own leases are read.
LEMMA CheckpointKeeps ==
  ASSUME PrepareInv, NEW p \in Caller, Checkpoint(p)
  PROVE  PrepareInv'
  <1> DEFINE j == Mine(p)
             a == task[j]
             mine == {c \in Piece : a.held[c] = p}
             b == [a EXCEPT !.read = @ \cup mine, !.status = IF a.read \cup mine = Piece THEN "reviewing" ELSE @,
                            !.held = [c \in Piece |-> IF c \in mine THEN "free" ELSE @[c]]]
  <1>1. SourceMoves /\ call[p].at = "verified"
    BY Rests DEF Checkpoint, At
  <1>2. j \in Tasks /\ a \in Jobs /\ WellRead(a) /\ a.status # "none"
    BY <1>1, HasJob, SMTT(40) DEF Placed, Late
  <1>3. \/ mine = {} /\ Answer(p, "lost_lease") /\ UNCHANGED task
        \/ mine # {} /\ task' = [task EXCEPT ![j] = b] /\ Go(p, "checkpoint")
    BY <1>2 DEF Checkpoint, PrepareInv, PrepareTypes
  <1>4. CASE Answer(p, "lost_lease") /\ UNCHANGED task
    BY <1>1, <1>4, Rests, DoneKeeps DEF Answer
  <1>5. CASE mine # {} /\ task' = [task EXCEPT ![j] = b] /\ Go(p, "checkpoint")
    <2>1. mine \in SUBSET Piece /\ \A c \in mine : a.held[c] # "free"
      BY PrepareAssumption
    <2> HIDE DEF mine
    <2>2. Moves(a, b)
      BY <1>2, <1>5, <2>1, ReadOn
    <2> HIDE DEF a, b
    <2>3. TasksMove
      BY <1>2, <1>5, <2>2, OneMoves DEF a
    <2>4. (p \in Agent => Reserved(task'[j])) /\ Versioned(task'[j])
      BY <1>1, <2>3, Reading DEF Late
    <2>5. QED
      BY <1>1, <1>2, <1>5, <2>3, <2>4, GoKeeps DEF Late
  <1>6. QED
    BY <1>3, <1>4, <1>5, SMTT(40)

\* The windows of the first rendering are not yet an answer.
LEMMA DecisionBundleKeeps ==
  ASSUME PrepareInv, NEW p \in Caller, DecisionBundle(p)
  PROVE  PrepareInv'
  <1> DEFINE k == [call[p] EXCEPT !.at = "compact", !.windows = RendersOf(Mine(p)[1])]
  <1>1. SourceMoves /\ TasksMove /\ UNCHANGED task /\ call[p].at = "bundle"
        /\ call[p] \in Calls /\ Stands(p, call[p], task)
    BY Rests DEF DecisionBundle, At
  <1>2. Mine(p) \in Tasks
    BY <1>1, HasJob DEF Placed, Late
  <1>3. RendersOf(Mine(p)[1]) \in SUBSET (1 .. MaxRevision)
    BY <1>2 DEF RendersOf, Tasks
  <1>4. k \in Calls
    BY <1>1, <1>3 DEF Calls, Late
  <1>5. k.at = "compact" /\ k.task = call[p].task /\ k.seen = call[p].seen /\ k.select = call[p].select
    BY <1>1 DEF Calls
  <1>6. call' = [call EXCEPT ![p] = k]
    BY DEF DecisionBundle, PrepareInv, PrepareTypes
  <1> HIDE DEF k
  <1>7. Stands(p, k, task')
    BY <1>1, <1>5 DEF Stands, Placed, Late
  <1>8. QED
    BY <1>1, <1>4, <1>6, <1>7, CallSteps

\* The answer is of the revision the job is about.
LEMMA CompactKeeps ==
  ASSUME PrepareInv, NEW p \in Caller, Compact(p)
  PROVE  PrepareInv'
  <1>1. SourceMoves /\ TasksMove /\ call[p].at = "compact"
    BY Rests DEF Compact, At
  <1>2. /\ Mine(p) \in Tasks /\ (p \in Agent => Reserved(task'[Mine(p)]))
        /\ Versioned(task'[Mine(p)]) /\ task'[Mine(p)].read = Piece
    BY <1>1, Reading DEF Late
  <1>3. {Mine(p)[1]} \in SUBSET (1 .. MaxRevision)
    BY <1>2 DEF Tasks
  <1>4. Done(p, "unavailable", {}) \/ Done(p, "review", {Mine(p)[1]})
    BY DEF Compact, Answer
  <1>5. CASE Done(p, "unavailable", {})
    BY <1>1, <1>5, DoneKeeps
  <1>6. CASE Done(p, "review", {Mine(p)[1]})
    BY <1>1, <1>2, <1>3, <1>6, DoneKeeps
  <1>7. QED
    BY <1>4, <1>5, <1>6

\* Raw evidence goes to an agent that has reserved the job.
LEMMA RawEvidenceKeeps ==
  ASSUME PrepareInv, NEW p \in Caller, RawEvidence(p)
  PROVE  PrepareInv'
  <1> DEFINE j == Mine(p)
  <1>1. SourceMoves /\ call[p].at = "raw"
    BY Rests DEF RawEvidence, At
  <1>2. j \in Tasks
    BY <1>1, HasJob DEF Placed, Late
  <1>3. /\ UNCHANGED task \/ (MayClaim(p, j) /\ task' = Claimed(p, j))
        /\ \E what \in {"results", "chunks", "no_chunks"} : Done(p, what, {})
    BY DEF RawEvidence, Answer
  <1>4. TasksMove
    BY <1>2, <1>3, Rests, ClaimMoves
  <1>5. p \in Agent => Reserved(task'[j])
    BY <1>1, <1>4, Reading DEF Late
  <1>6. PICK what \in {"results", "chunks", "no_chunks"} : Done(p, what, {})
    BY <1>3
  <1>7. QED
    BY <1>1, <1>2, <1>4, <1>5, <1>6, DoneKeeps

\* Who goes away holds nothing.
LEMMA CloseKeeps ==
  ASSUME PrepareInv, NEW p \in Caller, Close(p)
  PROVE  PrepareInv'
  <1> DEFINE k == [NoCall EXCEPT !.at = "gone"]
  <1>1. SourceMoves /\ TasksMove /\ call' = [call EXCEPT ![p] = k]
    BY Rests DEF Close
  <1>2. k \in Calls
    BY NoCallIsCall DEF Calls, Early
  <1>3. k.at = "gone" /\ k.task = <<0, "base">> /\ k.seen = "none" /\ k.select = "queue"
    BY DEF NoCall
  <1> HIDE DEF k
  <1>4. Stands(p, k, task')
    BY <1>3, NoCallIsCall DEF Stands, Placed, Late
  <1>5. QED
    BY <1>1, <1>2, <1>4, CallSteps
-----------------------------------------------------------------------------
(* What others do to the jobs and to the source.                                *)
\* An agent reads a chunk of its lease.
LEMMA SubmitKeeps ==
  ASSUME PrepareInv, NEW p \in Caller, NEW j \in Tasks, NEW c \in Piece, Submit(p, j, c)
  PROVE  PrepareInv'
  <1> DEFINE a == task[j]
             b == [a EXCEPT !.read = @ \cup {c}, !.status = IF a.read \cup {c} = Piece THEN "reviewing" ELSE @,
                            !.held = [d \in Piece |-> IF d \in {c} THEN "free" ELSE @[d]]]
  <1>1. SourceMoves /\ UNCHANGED call /\ a \in Jobs /\ WellRead(a) /\ a.held[c] = p
    BY Rests DEF Submit
  <1>2. a.held[c] # "free"
    BY <1>1, PrepareAssumption
  <1>3. a.held \in [Piece -> Caller \cup {"free"}]
    BY <1>1 DEF Jobs
  <1>4. [d \in Piece |-> IF d \in {c} THEN "free" ELSE a.held[d]] = [a.held EXCEPT ![c] = "free"]
    BY <1>3
  <1> DEFINE s == IF a.read \cup {c} = Piece THEN "reviewing" ELSE a.status
             h == [a.held EXCEPT ![c] = "free"]
             e == [a EXCEPT !.read = a.read \cup {c}, !.held = h, !.status = s]
  <1>5. task' = [task EXCEPT ![j] = e]
    BY ZenonT(60) DEF Submit, PrepareInv, PrepareTypes
  <1>6. b = [a EXCEPT !.read = a.read \cup {c}, !.status = s, !.held = h]
    BY <1>4
  <1> HIDE DEF s, h
  <1>7. e = b
    BY <1>1, <1>6 DEF Jobs
  <1>8. Moves(a, b)
    BY <1>1, <1>2, ReadOn DEF WellRead
  <1> HIDE DEF b, e
  <1>9. TasksMove
    BY <1>5, <1>7, <1>8, OneMoves
  <1>10. QED
    BY <1>1, <1>9, JobsStep

\* A lease that runs out leaves the chunk unread.
LEMMA LeaseRunsOutKeeps ==
  ASSUME PrepareInv, NEW j \in Tasks, NEW c \in Piece, LeaseRunsOut(j, c)
  PROVE  PrepareInv'
  <1> DEFINE b == [task[j] EXCEPT !.held[c] = "free"]
  <1>1. SourceMoves /\ UNCHANGED call /\ task[j] \in Jobs /\ WellRead(task[j])
    BY Rests DEF LeaseRunsOut
  <1>2. task' = [task EXCEPT ![j] = b]
    BY SMTT(40) DEF LeaseRunsOut, PrepareInv, PrepareTypes
  <1>3. Moves(task[j], b)
    <2>1. PICK p \in Caller : TRUE
      BY DEF LeaseRunsOut, PrepareInv, PrepareTypes, Jobs
    <2>2. QED
      BY <1>1, <2>1, Leased
  <1>4. QED
    BY <1>1, <1>2, <1>3, OneMoves, JobsStep

\* A review begins, ends or completes what has been read.
LEMMA ReviewKeeps ==
  ASSUME PrepareInv, NEW j \in Tasks, Review(j)
  PROVE  PrepareInv'
  <1>1. SourceMoves /\ UNCHANGED call /\ task[j] \in Jobs /\ WellRead(task[j]) /\ task[j].status = "reviewing"
    BY Rests DEF Review
  <1>2. \/ \E x \in {"free", "background"} : task' = [task EXCEPT ![j] = [task[j] EXCEPT !.review = x]]
        \/ task' = [task EXCEPT ![j] = [task[j] EXCEPT !.status = "completed", !.review = "free"]]
    BY DEF Review, PrepareInv, PrepareTypes
  <1>3. PICK b : Moves(task[j], b) /\ task' = [task EXCEPT ![j] = b]
    BY <1>1, <1>2, Reviewed
  <1>4. QED
    BY <1>1, <1>3, OneMoves, JobsStep

\* A waiting job becomes retryable.
LEMMA BackoffEndsKeeps ==
  ASSUME PrepareInv, NEW j \in Tasks, BackoffEnds(j)
  PROVE  PrepareInv'
  <1> DEFINE b == [task[j] EXCEPT !.status = "retryable"]
  <1>1. SourceMoves /\ UNCHANGED call /\ task[j] \in Jobs /\ WellRead(task[j]) /\ task[j].status = "backoff"
    BY Rests DEF BackoffEnds
  <1>2. task' = [task EXCEPT ![j] = b]
    BY DEF BackoffEnds, PrepareInv, PrepareTypes
  <1>3. Moves(task[j], b)
    BY <1>1, Restated DEF Unfinished
  <1>4. QED
    BY <1>1, <1>2, <1>3, OneMoves, JobsStep

\* A capture makes older jobs stale and leaves what they have.
LEMMA CaptureKeeps ==
  ASSUME PrepareInv, Capture
  PROVE  PrepareInv'
  <1>1. UNCHANGED call /\ kept' = kept
    BY DEF Capture
  <1>2. CASE revision < MaxRevision /\ revision' = revision + 1 /\ UNCHANGED <<observed, task>>
    <2>1. SourceMoves
      BY <1>1, <1>2, PrepareAssumption DEF PrepareInv, PrepareTypes, SourceMoves
    <2>2. QED
      BY <1>1, <1>2, <2>1, Rests, JobsStep
  <1>3. CASE observed' = revision /\ task' = Enqueued("base", FALSE) /\ UNCHANGED revision
    <2>1. SourceMoves
      BY <1>1, <1>3, PrepareAssumption DEF PrepareInv, PrepareTypes, SourceMoves
    <2>2. TasksMove
      BY <1>3, EnqueuedMoves DEF Pipelines
    <2>3. QED
      BY <1>1, <2>1, <2>2, JobsStep
  <1>4. QED
    BY <1>2, <1>3 DEF Capture
-----------------------------------------------------------------------------
(* Init, Next, and the theorem of the invariant.                                *)
\* The invariant holds at first,
LEMMA PrepareInitHolds == PrepareInit => PrepareInv
  <1> SUFFICES ASSUME PrepareInit PROVE PrepareInv
    OBVIOUS
  <1>1. revision \in 1 .. MaxRevision /\ observed \in 0 .. MaxRevision /\ kept \in BOOLEAN
    BY PrepareAssumption DEF PrepareInit
  <1>2. NoTask \in Jobs /\ WellRead(NoTask) /\ NoTask.status = "none"
    BY DEF NoTask, Jobs, WellRead
  <1> DEFINE q == Queued("no")
  <1>3. q \in Jobs /\ q.status = "queued" /\ q.held = [c \in Piece |-> "free"]
    BY DEF Queued, NoTask, Jobs, Unfinished
  <1> HIDE DEF q
  <1>4. PICK first : /\ task = [j \in Tasks |-> IF j = <<1, "base">> THEN first ELSE NoTask]
                     /\ \/ first = [q EXCEPT !.v1 = "no"]
                        \/ first = [q EXCEPT !.status = "parked"]
                        \/ first = [q EXCEPT !.status = "reviewing", !.read = Piece]
                        \/ \E l \in {"nothing", "unfinished", "signal", "result"} :
                              first = [q EXCEPT !.status = "completed", !.read = Piece, !.lacks = l]
    <2>1. PICK first \in {[q EXCEPT !.v1 = "no"], [q EXCEPT !.status = "parked"],
                          [q EXCEPT !.status = "reviewing", !.read = Piece]}
                         \cup {[q EXCEPT !.status = "completed", !.read = Piece, !.lacks = l] :
                                  l \in {"nothing", "unfinished", "signal", "result"}} :
                 task = [j \in Tasks |-> IF j = <<1, "base">> THEN first ELSE NoTask]
      BY Zenon DEF PrepareInit, q
    <2>2. QED
      BY <2>1, Zenon
  <1>5. first \in Jobs /\ WellRead(first)
    <2>1. CASE first = [q EXCEPT !.v1 = "no"]
      BY <1>3, <2>1 DEF Jobs, WellRead
    <2>2. CASE first = [q EXCEPT !.status = "parked"]
      BY <1>3, <2>2 DEF Jobs, WellRead, Unfinished
    <2>3. CASE first = [q EXCEPT !.status = "reviewing", !.read = Piece]
      BY <1>3, <2>3 DEF Jobs, WellRead, Unfinished
    <2>4. CASE \E l \in {"nothing", "unfinished", "signal", "result"} :
                  first = [q EXCEPT !.status = "completed", !.read = Piece, !.lacks = l]
      <3>1. PICK l \in {"nothing", "unfinished", "signal", "result"} :
                  first = [q EXCEPT !.status = "completed", !.read = Piece, !.lacks = l]
        BY <2>4
      <3>2. first \in Jobs
        BY <1>3, <3>1 DEF Jobs
      <3>3. first.status = "completed" /\ first.read = Piece /\ first.held = q.held
        BY <1>3, <3>1 DEF Jobs
      <3>4. QED
        BY <1>3, <3>2, <3>3 DEF WellRead
    <2>5. QED
      BY <1>4, <2>1, <2>2, <2>3, <2>4
  <1>6. task \in [Tasks -> Jobs] /\ \A j \in Tasks : WellRead(task[j])
    BY <1>2, <1>4, <1>5
  <1> DEFINE g == [NoCall EXCEPT !.at = "gone"]
  <1>7. g \in Calls /\ g.at = "gone" /\ g.task = <<0, "base">> /\ g.seen = "none" /\ g.select = "queue"
    <2>1. g \in Calls
      BY NoCallIsCall DEF Calls, Early
    <2>2. QED
      BY <2>1 DEF NoCall
  <1>8. NoCall.at = "idle" /\ NoCall.task = <<0, "base">> /\ NoCall.seen = "none" /\ NoCall.select = "queue"
    BY DEF NoCall
  <1>9. PICK absent : call = [p \in Caller |-> IF p = absent THEN g ELSE NoCall]
    BY DEF PrepareInit
  <1> HIDE DEF g
  <1>10. call \in [Caller -> Calls]
    BY <1>7, <1>9, NoCallIsCall
  <1>11. ASSUME NEW p \in Caller PROVE Stands(p, call[p], task)
    <2>1. /\ call[p].at \in {"gone", "idle"} /\ call[p].task = <<0, "base">>
          /\ call[p].seen = "none" /\ call[p].select = "queue"
      BY <1>7, <1>8, <1>9
    <2>2. QED
      BY <2>1, NoCallIsCall DEF Stands, Placed, Late
  <1>12. QED
    BY <1>1, <1>6, <1>10, <1>11 DEF PrepareInv, PrepareTypes

\* and every step keeps it.
LEMMA PrepareNextKeeps == PrepareInv /\ [PrepareNext]_prepareVars => PrepareInv'
  <1> SUFFICES ASSUME PrepareInv, [PrepareNext]_prepareVars PROVE PrepareInv'
    OBVIOUS
  <1>1. CASE UNCHANGED prepareVars
    BY <1>1, Rests, JobsStep DEF prepareVars, Source
  <1>2. ASSUME NEW p \in Caller,
               \/ Open(p) \/ Ingest(p) \/ ReserveFirst(p) \/ Reconcile(p) \/ SelectSession(p) \/ RetryCompleted(p)
               \/ ReserveRetry(p) \/ Replay(p) \/ Pick(p) \/ Take(p) \/ DeferOther(p)
        PROVE  PrepareInv'
    BY <1>2, OpenKeeps, IngestKeeps, ReserveFirstKeeps, ReconcileKeeps,
       SelectSessionKeeps, RetryCompletedKeeps,
       ReserveRetryKeeps, ReplayKeeps, PickKeeps, TakeKeeps, DeferOtherKeeps
  <1>3. ASSUME NEW p \in Caller,
               \/ LoadEvidence(p) \/ LoadAgain(p) \/ ClaimAll(p) \/ Checkpoint(p) \/ DecisionBundle(p) \/ Compact(p)
               \/ RawEvidence(p) \/ Close(p) \/ \E j \in Tasks, c \in Piece : Submit(p, j, c)
        PROVE  PrepareInv'
    BY <1>3, LoadEvidenceKeeps, LoadAgainKeeps, ClaimAllKeeps, CheckpointKeeps,
       DecisionBundleKeeps, CompactKeeps,
       RawEvidenceKeeps, CloseKeeps, SubmitKeeps
  <1>4. ASSUME NEW p \in Caller,
               \/ Retain(p, "retain_first", "defer") \/ Retain(p, "retain_recheck", "retry")
               \/ Retain(p, "retain_retry", "list") \/ Retain(p, "retain_taken", "evidence")
        PROVE  PrepareInv'
    BY <1>4, RetainKeeps
  <1>5. ASSUME NEW j \in Tasks, Review(j) \/ BackoffEnds(j) \/ \E c \in Piece : LeaseRunsOut(j, c)
        PROVE  PrepareInv'
    BY <1>5, ReviewKeeps, BackoffEndsKeeps, LeaseRunsOutKeeps
  <1>6. CASE PrepareNext
    BY <1>2, <1>3, <1>4, <1>5, <1>6, CaptureKeeps DEF PrepareNext
  <1>7. QED
    BY <1>1, <1>6

(* Jobs and calls have their types; only what is read is reviewed or completed, *)
(* and every caller stands where its job lets it stand, through every call of   *)
(* every number of agents, hooks and workers (tool_prepare_session_distill).    *)
THEOREM PrepareInvariant == PrepareSpec => []PrepareInv
  <1>1. PrepareInit => PrepareInv
    BY PrepareInitHolds
  <1>2. PrepareInv /\ [PrepareNext]_prepareVars => PrepareInv'
    BY PrepareNextKeeps
  <1>3. QED
    BY <1>1, <1>2, PTL DEF PrepareSpec

(* Evidence for a final review is whole and of the job's own revision, of a job *)
(* whose every chunk has been read, and an agent holds evidence only of a job   *)
(* it has reserved and whose source is kept (_compact_prepare_result).          *)
THEOREM EvidenceIsAlwaysWhole == PrepareSpec => []EvidenceIsWhole
  <1>1. PrepareInv => EvidenceIsWhole
    BY DEF PrepareInv, Stands, EvidenceIsWhole, Mine, Reserved, Versioned
  <1>2. QED
    BY <1>1, PrepareInvariant, PTL
------------------------------------------------------------------------------
(* Admission: what a row may say of its point, and what a candidate may. *)
Uses == {"durable", "session_only"}
RowRecord == [claim : Candidate, shown : Version, digest : Version, said : Point,
              outcome : Outcomes, use : Uses]
Supported(p) ==
    /\ p.support = "supported" /\ p.sound = "all" /\ p.parts = {"durable"} /\ p.whole = "whole"
    /\ p.future = "durable"
RowSound(r) ==
    /\ r.outcome = "verified" => Supported(r.said)
    /\ r.outcome = "not_applicable" => r.use = "session_only"

Places == {"none", "pending", "ready", "planned", "checked", "closed", "written", "stuck"}
CandidateRecord ==
    [at : Places, from : {"worker", "agent"}, claim : Candidate, shown : Version, digest : Version,
     said : Point, outcome : Outcomes, stale : {"no", "yes"}, use : Uses, discard : {"no", "yes"},
     proof : Plan, proved : {"no", "yes"}]
CandidateSound(p) ==
    p.from = "worker" =>
        /\ p.outcome = "verified" => Supported(p.said)
        /\ p.outcome = "not_applicable" => p.use = "session_only" \/ p.claim.basis = "transcript"

AdmitTypes ==
    /\ file \in Version /\ asked \in 0 .. 2 /\ (review = "decide" => asked \in {0, 1})
    /\ review \in {"decide", "read", "digest", "verify", "judged", "empty", "failed"}
    /\ session \in {"whole", "unrendered", "rerendered", "damaged"}
    /\ author \in {"proved", "legacy", "injected"}
    /\ target \in 0 .. MaxTarget /\ plan \in Plan /\ written \in Plan
RowsSound == \A i \in DOMAIN rows : rows[i] \in RowRecord /\ RowSound(rows[i])

\* What is followed is typed and sound, and what is written rests on all of it.
Followed == point \in CandidateRecord /\ CandidateSound(point)
AdmitInv ==
    /\ AdmitTypes /\ RowsSound /\ Followed
    /\ SilenceIsExplained /\ VerifiedIsWritten /\ RestsOnSources

LEMMA AdmitInvGives == AdmitInv => KnowledgeIsEarned
<1>1. ASSUME AdmitInv
      PROVE  AdmitTypeOK
  <2>1. \A i \in DOMAIN rows : rows[i] \in RowRecord
    BY <1>1 DEF AdmitInv, RowsSound
  <2>2. \A i \in DOMAIN rows :
           /\ rows[i].claim \in Candidate /\ rows[i].shown \in Version
           /\ rows[i].digest \in Version /\ rows[i].said \in Point
           /\ rows[i].outcome \in Outcomes
    BY ONLY <2>1 DEF RowRecord
  <2>3. point.at \in Places /\ point.outcome \in Outcomes /\ point.proof \in Plan
    BY <1>1 DEF AdmitInv, Followed, CandidateRecord
  <2> QED
    BY <1>1, <2>2, <2>3 DEF AdmitInv, AdmitTypes, AdmitTypeOK, VerdictTypeOK, Outcomes, Places
<1> QED
  BY <1>1 DEF AdmitInv, KnowledgeIsEarned

LEMMA PlainThings ==
  /\ 0 \in Version /\ 1 \in Version /\ 0 \in 0 .. MaxTarget /\ 1 \in 0 .. MaxTarget
  /\ NoPoint \in Point /\ NoPlan \in Plan /\ Plain \in Candidate /\ NoCandidate \in CandidateRecord
<1>1. 0 \in Version /\ 1 \in Version /\ 0 \in 0 .. MaxTarget /\ 1 \in 0 .. MaxTarget
  BY AdmissionAssumption DEF Version
<1>2. NoPoint \in Point
  BY DEF NoPoint, Durable, Point, Scope
<1>3. NoPlan \in Plan
  BY <1>1 DEF NoPlan, Plan, Does
<1>4. Plain \in Candidate
  BY <1>1 DEF Plain, Candidate, Basis
<1>5. NoCandidate \in CandidateRecord
  BY <1>1, <1>2, <1>3, <1>4 DEF NoCandidate, CandidateRecord, Places, Outcomes, Uses
<1> QED
  BY <1>1, <1>2, <1>3, <1>4, <1>5
-----------------------------------------------------------------------------
\* What a verdict makes of a row: only a point that is supported in all its
\* parts, and durable in each, is called verified.
LEMMA OneScope ==
  ASSUME NEW p \in Point, ScopeStatus(p) # "none", ScopeStatus(p) # "session_only"
  PROVE  p.parts = {"durable"}
<1>1. /\ p.parts \subseteq Scope /\ p.parts # {} /\ "unclear" \notin p.parts
      /\ ~(Cardinality(p.parts) > 1)
  BY DEF ScopeStatus, Point
<1>2. ScopeStatus(p) = CHOOSE s \in p.parts : TRUE
  BY DEF ScopeStatus
<1>3. ScopeStatus(p) \in p.parts
  BY <1>1, <1>2
<1>4. ScopeStatus(p) = "durable"
  BY <1>1, <1>3 DEF Scope
<1>5. CASE "session_only" \in p.parts
  <2>1. p.parts = {"durable", "session_only"}
    BY <1>1, <1>3, <1>4, <1>5 DEF Scope
  <2>2. Cardinality({"durable", "session_only"}) = 2
    <3>1. Cardinality({"durable"}) = 1 /\ IsFiniteSet({"durable"})
      BY FS_Singleton
    <3>2. {"durable"} \cup {"session_only"} = {"durable", "session_only"}
      OBVIOUS
    <3>3. "session_only" \notin {"durable"}
      OBVIOUS
    <3> QED
      BY <3>1, <3>2, <3>3, FS_AddElement
  <2> QED
    BY <1>1, <2>1, <2>2
<1> QED
  BY <1>1, <1>3, <1>4, <1>5 DEF Scope

LEMMA JudgedSound ==
  ASSUME NEW r \in RowRecord, NEW p \in Point
  PROVE  Judged(r, p) \in RowRecord /\ RowSound(Judged(r, p))
<1>1. PICK out : out = Outcome(r, p)
  OBVIOUS
<1>2. out \in Outcomes
  BY <1>1 DEF Outcome, Outcomes
<1>3. out = "verified" => Supported(p)
  <2> SUFFICES ASSUME out = "verified"
               PROVE  Supported(p)
    OBVIOUS
  <2>1. /\ ScopeStatus(p) # "none" /\ ScopeStatus(p) # "session_only"
        /\ p.support = "supported" /\ p.future = "durable"
    BY <1>1 DEF Outcome
  <2>2. p.parts = {"durable"}
    BY <2>1, OneScope
  <2>3. p.whole = "whole" /\ p.sound = "all"
    BY <2>1 DEF ScopeStatus, Point
  <2> QED
    BY <2>1, <2>2, <2>3 DEF Supported
<1>4. PICK d \in Version : d = Rebound(r, out)
  <2>1. r.digest \in Version /\ r.claim.cites \in Version
    BY DEF RowRecord, Candidate
  <2> QED
    BY <2>1 DEF Rebound
<1>5. PICK s \in Point : s = IF out = "verified" THEN p ELSE NoPoint
  BY PlainThings
<1>6. PICK u \in Uses : u = IF out = "not_applicable" THEN "session_only" ELSE "durable"
  BY DEF Uses
<1>7. PICK j : j = [r EXCEPT !.said = s, !.outcome = out, !.digest = d, !.use = u]
  OBVIOUS
<1>8. Judged(r, p) = j
  BY <1>1, <1>4, <1>5, <1>6, <1>7 DEF Judged
<1>9. j \in RowRecord /\ j.said = s /\ j.outcome = out /\ j.use = u
  BY ONLY <1>2, <1>7, d \in Version, s \in Point, u \in Uses, r \in RowRecord DEF RowRecord
<1> QED
  BY <1>3, <1>5, <1>6, <1>8, <1>9 DEF RowSound

\* Validation never makes of a candidate what its verdict has not made of it.
LEMMA RevalidatedSound ==
  ASSUME NEW p \in CandidateRecord, CandidateSound(p), NEW closing
  PROVE  /\ Revalidated(p, closing) \in CandidateRecord
         /\ CandidateSound(Revalidated(p, closing))
         /\ \A f \in {"at", "from", "claim", "shown", "digest", "said", "use", "discard", "proof",
                      "proved"} : Revalidated(p, closing)[f] = p[f]
         /\ Revalidated(p, closing).outcome = Validated(p, closing)
<1>1. PICK out : out = Validated(p, closing)
  OBVIOUS
<1>2. out \in Outcomes
  BY <1>1 DEF Validated, Outcomes
<1>3. PICK st \in {"no", "yes"} : st = IF Refs(p) = "changed" THEN "yes" ELSE p.stale
  BY DEF CandidateRecord
<1>4. PICK q : q = [p EXCEPT !.outcome = out, !.stale = st]
  OBVIOUS
<1>5. Revalidated(p, closing) = q
  BY <1>1, <1>3, <1>4 DEF Revalidated
<1>6. /\ q \in CandidateRecord /\ q.outcome = out
      /\ q.at = p.at /\ q.from = p.from /\ q.claim = p.claim /\ q.shown = p.shown
      /\ q.digest = p.digest /\ q.said = p.said /\ q.use = p.use /\ q.discard = p.discard
      /\ q.proof = p.proof /\ q.proved = p.proved
  BY ONLY <1>2, <1>4, st \in {"no", "yes"}, p \in CandidateRecord DEF CandidateRecord
<1>7. /\ out = "verified" => /\ p.claim.basis # "transcript" /\ Refs(p) \notin {"changed", "unverified"}
                             /\ p.outcome \notin {"contradicted", "unverified"}
                             /\ p.outcome = "not_applicable" => p.use # "session_only"
      /\ out = "not_applicable" => p.outcome = "not_applicable" \/ p.claim.basis = "transcript"
  BY <1>1 DEF Validated
<1>8. p.outcome \in Outcomes
  BY DEF CandidateRecord
<1>9. CandidateSound(q)
  BY <1>6, <1>7, <1>8 DEF CandidateSound, Outcomes
<1> QED
  BY <1>1, <1>5, <1>6, <1>9
-----------------------------------------------------------------------------
\* The first answer: what it lists becomes rows without a verdict, and one that
\* lists nothing is taken only with an explanation.
LEMMA AnswersListCandidates ==
  ASSUME NEW a \in Answers, NEW i \in DOMAIN a.points
  PROVE  a.points[i] \in Candidate
<1> DEFINE one == {<<c>> : c \in Candidate}
           two == {<<c, Plain>> : c \in {d \in Candidate : d.fit = "handoff" \/ d.cites = 0}} \cup {<<Plain, Plain>>}
<1>1. \/ \E s \in one \cup two : a = [NoAnswer EXCEPT !.points = s]
      \/ a \in [points : {<<>>}, dismissed : SUBSET Signal, named : SUBSET Signal, substance : {"yes", "no"}]
  BY Zenon DEF Answers
<1>2. CASE \E s \in one \cup two : a = [NoAnswer EXCEPT !.points = s]
  <2>1. PICK s \in one \cup two : a = [NoAnswer EXCEPT !.points = s]
    BY <1>2
  <2>2. PICK c \in Candidate : s = <<c>> \/ s = <<c, Plain>>
    <3>1. CASE s \in one
      BY Zenon, <3>1
    <3>2. CASE s \in two
      <4>1. \/ \E c \in {d \in Candidate : d.fit = "handoff" \/ d.cites = 0} : s = <<c, Plain>>
            \/ s = <<Plain, Plain>>
        BY Zenon, <3>2
      <4> QED
        BY Zenon, <4>1, PlainThings
    <3> QED
      BY <2>1, <3>1, <3>2
  <2> HIDE DEF one, two
  <2>3. a.points = s
    BY <2>1 DEF NoAnswer
  <2>4. CASE s = <<c>>
    <3>1. i = 1 /\ s[1] = c
      BY ONLY <2>3, <2>4, i \in DOMAIN a.points
    <3> QED
      BY <2>3, <3>1
  <2>5. CASE s = <<c, Plain>>
    <3>1. i \in {1, 2} /\ s[1] = c /\ s[2] = Plain
      BY ONLY <2>3, <2>5, i \in DOMAIN a.points
    <3> QED
      BY <2>3, <3>1, PlainThings
  <2> QED
    BY <2>2, <2>4, <2>5
<1>3. CASE a \in [points : {<<>>}, dismissed : SUBSET Signal, named : SUBSET Signal, substance : {"yes", "no"}]
  <2>1. a.points = <<>>
    BY <1>3
  <2> QED
    BY <2>1
<1> QED
  BY <1>1, <1>2, <1>3

LEMMA RowsBegin ==
  ASSUME NEW c \in Candidate
  PROVE  Row(c) \in RowRecord /\ RowSound(Row(c))
<1>1. c.cites \in Version
  BY DEF Candidate
<1> QED
  BY <1>1, PlainThings DEF Row, RowRecord, RowSound, Outcomes, Uses

LEMMA DecideKeeps ==
  ASSUME AdmitInv, point.at = "none", NEW a \in Answers, Decide(a), UNCHANGED admitVars
  PROVE  AdmitInv'
<1>1. /\ file' = file /\ session' = session /\ author' = author /\ target' = target
      /\ point' = point /\ plan' = plan /\ written' = written
  BY DEF Decide, admitVars
<1>2. AdmitTypes'
  BY <1>1 DEF AdmitInv, AdmitTypes, Decide
<1>3. RowsSound'
  <2>1. CASE review' = "read"
    <3>1. rows' = [i \in {j \in DOMAIN a.points : Usable(a.points[j])} |-> Row(a.points[i])]
      BY <2>1 DEF Decide
    <3>2. ASSUME NEW i \in DOMAIN rows'
          PROVE  rows'[i] \in RowRecord /\ RowSound(rows'[i])
      <4>1. i \in DOMAIN a.points /\ rows'[i] = Row(a.points[i])
        BY <3>1
      <4> QED
        BY <4>1, AnswersListCandidates, RowsBegin
    <3> QED
      BY <3>2 DEF RowsSound, RowSound
  <2>2. CASE review' # "read"
    BY <2>2 DEF Decide, RowsSound
  <2> QED
    BY <2>1, <2>2
<1>4. SilenceIsExplained'
  <2>1. review' = "empty" => answer' = a /\ Explained(a)
    BY DEF Decide, Taken
  <2> QED
    BY <2>1 DEF SilenceIsExplained, Explained
<1> QED
  BY <1>1, <1>2, <1>3, <1>4 DEF AdmitInv, Followed, VerifiedIsWritten, RestsOnSources, CandidateSound

\* The two readings of a file, and the verdict.
LEMMA ReadingKeeps ==
  ASSUME AdmitInv, point.at = "none", ReadContent \/ ReadDigest, UNCHANGED admitVars
  PROVE  AdmitInv'
<1>1. /\ file' = file /\ session' = session /\ author' = author /\ target' = target
      /\ point' = point /\ plan' = plan /\ written' = written /\ asked' = asked /\ answer' = answer
      /\ review' \in {"digest", "verify", "failed"}
  BY DEF ReadContent, ReadDigest, admitVars
<1>2. AdmitTypes'
  BY <1>1 DEF AdmitInv, AdmitTypes
<1>3. RowsSound'
  <2>1. ASSUME NEW i \in DOMAIN rows'
        PROVE  rows'[i] \in RowRecord /\ RowSound(rows'[i])
    <3>1. /\ i \in DOMAIN rows
          /\ \/ rows'[i] = rows[i]
             \/ rows'[i] = [rows[i] EXCEPT !.shown = file, !.digest = 0]
             \/ rows'[i] = [rows[i] EXCEPT !.digest = file]
      <4>1. CASE ReadContent
        <5>1. rows' = [k \in DOMAIN rows |-> IF OnFile(k) THEN [rows[k] EXCEPT !.shown = file, !.digest = 0]
                                             ELSE rows[k]]
          BY <4>1 DEF ReadContent
        <5>2. i \in DOMAIN rows
          BY <5>1
        <5> QED
          BY Zenon, <5>1, <5>2
      <4>2. CASE ReadDigest
        <5>1. \/ rows' = <<>>
              \/ rows' = [k \in DOMAIN rows |-> IF OnFile(k) /\ rows[k].shown # 0
                                                THEN [rows[k] EXCEPT !.digest = file] ELSE rows[k]]
          BY <4>2 DEF ReadDigest
        <5>2. i \in DOMAIN rows /\ rows' # <<>>
          BY <5>1
        <5> QED
          BY Zenon, <5>1, <5>2
      <4> QED
        BY <4>1, <4>2
    <3>2. /\ rows[i] \in RowRecord /\ RowSound(rows[i])
          /\ file \in Version /\ 0 \in Version
      BY <3>1, PlainThings DEF AdmitInv, RowsSound, AdmitTypes
    <3>3. PICK r, n : r = rows[i] /\ n = rows'[i]
      OBVIOUS
    <3>4. n \in RowRecord /\ n.outcome = r.outcome /\ n.said = r.said /\ n.use = r.use
      <4>1. CASE n = r
        BY ONLY <3>2, <3>3, <4>1
      <4>2. CASE n = [r EXCEPT !.shown = file, !.digest = 0]
        BY ONLY <3>2, <3>3, <4>2 DEF RowRecord
      <4>3. CASE n = [r EXCEPT !.digest = file]
        BY ONLY <3>2, <3>3, <4>3 DEF RowRecord
      <4> QED
        BY <3>1, <3>3, <4>1, <4>2, <4>3
    <3> QED
      BY ONLY <3>2, <3>3, <3>4 DEF RowSound
  <2> QED
    BY <2>1 DEF RowsSound, RowSound
<1>4. SilenceIsExplained'
  BY <1>1 DEF SilenceIsExplained
<1> QED
  BY <1>1, <1>2, <1>3, <1>4 DEF AdmitInv, Followed, VerifiedIsWritten, RestsOnSources, CandidateSound

LEMMA VerifyKeeps ==
  ASSUME AdmitInv, point.at = "none", NEW p \in Point, NEW first, NEW covers \in BOOLEAN,
         Verify([i \in DOMAIN rows |-> IF i = first THEN p ELSE Durable], covers),
         UNCHANGED admitVars
  PROVE  AdmitInv'
<1>1. /\ file' = file /\ session' = session /\ author' = author /\ target' = target
      /\ point' = point /\ plan' = plan /\ written' = written /\ asked' = asked /\ answer' = answer
      /\ review' \in {"judged", "failed"}
  BY DEF Verify, admitVars
<1>2. AdmitTypes'
  BY <1>1 DEF AdmitInv, AdmitTypes
<1>3. RowsSound'
  <2>1. Durable \in Point
    BY DEF Durable, Point, Scope
  <2>2. ASSUME NEW i \in DOMAIN rows'
        PROVE  rows'[i] \in RowRecord /\ RowSound(rows'[i])
    <3>1. i \in DOMAIN rows /\ rows'[i] = Judged(rows[i], IF i = first THEN p ELSE Durable)
      BY DEF Verify
    <3>2. rows[i] \in RowRecord
      BY <3>1 DEF AdmitInv, RowsSound
    <3> QED
      BY <2>1, <3>1, <3>2, JudgedSound
  <2> QED
    BY <2>2 DEF RowsSound, RowSound
<1>4. SilenceIsExplained'
  BY <1>1 DEF SilenceIsExplained
<1> QED
  BY <1>1, <1>2, <1>3, <1>4 DEF AdmitInv, Followed, VerifiedIsWritten, RestsOnSources, CandidateSound

\* The world goes on, but not under what has been written.
LEMMA WorldKeeps ==
  ASSUME AdmitInv,
         \/ \E v \in Version : Changed(v)
         \/ \E s \in {"unrendered", "rerendered", "damaged"} : Decay(s)
         \/ \E v \in 0 .. MaxTarget : Move(v)
  PROVE  AdmitInv'
<1>1. /\ point' = point /\ written' = written /\ author' = author /\ plan' = plan
      /\ rows' = rows /\ review' = review /\ answer' = answer /\ asked' = asked
      /\ point.at # "written"
  BY DEF Changed, Decay, Move, Edit, admitVars, verdictVars
<1>2. AdmitTypes'
  BY <1>1 DEF AdmitInv, AdmitTypes, Changed, Decay, Move, Edit, admitVars, verdictVars
<1>3. RowsSound' /\ Followed'
  BY <1>1 DEF AdmitInv, RowsSound, RowSound, Followed, CandidateSound
<1> QED
  BY <1>1, <1>2, <1>3 DEF AdmitInv, SilenceIsExplained, VerifiedIsWritten, RestsOnSources
-----------------------------------------------------------------------------
\* A row, or an agent's suggestion, is followed.
LEMMA AdmitKeeps ==
  ASSUME AdmitInv, NEW i \in DOMAIN rows, NEW a \in {"proved", "legacy", "injected"}, Admit(i, a)
  PROVE  AdmitInv'
<1>1. rows[i] \in RowRecord /\ RowSound(rows[i])
  BY DEF AdmitInv, RowsSound
<1>2. PICK p : p = [NoCandidate EXCEPT !.at = "pending", !.claim = rows[i].claim, !.shown = rows[i].shown,
                       !.digest = rows[i].digest, !.said = rows[i].said, !.outcome = rows[i].outcome,
                       !.use = rows[i].use]
  OBVIOUS
<1>3. point' = Revalidated(p, "no")
  BY <1>2 DEF Admit
<1>4. /\ rows[i].claim \in Candidate /\ rows[i].shown \in Version /\ rows[i].digest \in Version
      /\ rows[i].said \in Point /\ rows[i].outcome \in Outcomes /\ rows[i].use \in Uses
  BY ONLY <1>1 DEF RowRecord
<1>5. PICK n \in CandidateRecord : n = NoCandidate
  BY PlainThings
<1>6. /\ p \in CandidateRecord /\ p.at = "pending" /\ p.said = rows[i].said
      /\ p.outcome = rows[i].outcome /\ p.use = rows[i].use
  BY ONLY <1>2, <1>4, <1>5, n \in CandidateRecord, ZenonT(60) DEF CandidateRecord, Places
<1>7. CandidateSound(p)
  BY ONLY <1>1, <1>6 DEF CandidateSound, RowSound
<1>8. point' \in CandidateRecord /\ CandidateSound(point') /\ point'.at = "pending"
  BY <1>3, <1>6, <1>7, RevalidatedSound
<1>9. /\ file' = file /\ review' = review /\ asked' = asked /\ session' = session
      /\ target' = target /\ plan' = plan /\ written' = written /\ author' = a /\ rows' = <<>>
      /\ review = "judged"
  BY DEF Admit, Authored
<1>10. AdmitTypes' /\ RowsSound' /\ SilenceIsExplained'
  BY <1>9 DEF AdmitInv, AdmitTypes, RowsSound, SilenceIsExplained
<1> QED
  BY <1>8, <1>10 DEF AdmitInv, Followed, VerifiedIsWritten, RestsOnSources, CandidateSound

LEMMA SuggestKeeps ==
  ASSUME AdmitInv, NEW c \in Candidate, NEW outcome \in Outcomes,
         NEW use \in Uses, NEW discard \in {"no", "yes"},
         NEW a \in {"proved", "legacy", "injected"}, Suggest(c, outcome, use, discard, a)
  PROVE  AdmitInv'
<1>1. PICK p : p = [NoCandidate EXCEPT !.at = "pending", !.from = "agent", !.claim = c, !.digest = c.cites,
                       !.outcome = outcome, !.use = use, !.discard = discard]
  OBVIOUS
<1>2. point' = Revalidated(p, "no")
  BY <1>1 DEF Suggest
<1>3. c.cites \in Version
  BY DEF Candidate
<1>4. PICK n \in CandidateRecord : n = NoCandidate
  BY PlainThings
<1>5. p \in CandidateRecord /\ p.at = "pending" /\ p.from = "agent"
  BY ONLY <1>1, <1>3, <1>4, n \in CandidateRecord, c \in Candidate, outcome \in Outcomes,
     use \in Uses, discard \in {"no", "yes"}, ZenonT(60), ZenonT(60) DEF CandidateRecord, Places
<1>6. CandidateSound(p)
  BY ONLY <1>5 DEF CandidateSound
<1>7. point' \in CandidateRecord /\ CandidateSound(point') /\ point'.at = "pending"
  BY <1>2, <1>5, <1>6, RevalidatedSound
<1>8. /\ file' = file /\ review' = review /\ asked' = asked /\ session' = session /\ answer' = answer
      /\ target' = target /\ plan' = plan /\ written' = written /\ author' = a /\ rows' = rows
  BY DEF Suggest, Authored, verdictVars
<1>9. AdmitTypes' /\ RowsSound' /\ SilenceIsExplained'
  BY <1>8 DEF AdmitInv, AdmitTypes, RowsSound, RowSound, SilenceIsExplained
<1> QED
  BY <1>7, <1>9 DEF AdmitInv, Followed, VerifiedIsWritten, RestsOnSources, CandidateSound

\* A candidate goes on with the evidence it has, validated or not again.
LEMMA PassingKeeps ==
  ASSUME AdmitInv, Prepare \/ (\E m \in Plan : Decided(m)) \/ (\E p \in {"durable", "other"} : Check(p)) \/ Hand
  PROVE  AdmitInv'
<1>1. point \in CandidateRecord /\ CandidateSound(point) /\ plan \in Plan
  BY DEF AdmitInv, Followed, AdmitTypes
<1>2. /\ file' = file /\ review' = review /\ asked' = asked /\ session' = session /\ answer' = answer
      /\ target' = target /\ written' = written /\ author' = author /\ rows' = rows
      /\ plan' \in Plan
  BY <1>1 DEF Prepare, Decided, Check, Hand, verdictVars
<1>3. PICK q : /\ q \in CandidateRecord /\ CandidateSound(q) /\ q.at \notin {"written"}
               /\ point' = q
  <2>1. CASE Prepare
    <3>1. PICK p : p = Revalidated(point, point.discard)
      OBVIOUS
    <3>2. p \in CandidateRecord /\ CandidateSound(p)
      BY <1>1, <3>1, RevalidatedSound
    <3>3. PICK at \in {"ready", "closed"} : at = IF Eligible(p) THEN "ready" ELSE "closed"
      OBVIOUS
    <3>4. PICK q : q = [p EXCEPT !.at = at]
      OBVIOUS
    <3>5. point' = q
      BY <2>1, <3>1, <3>3, <3>4 DEF Prepare
    <3>6. /\ q \in CandidateRecord /\ q.at = at /\ q.from = p.from /\ q.outcome = p.outcome
          /\ q.said = p.said /\ q.use = p.use /\ q.claim = p.claim
      BY ONLY <3>2, <3>4, at \in {"ready", "closed"} DEF CandidateRecord, Places
    <3>7. CandidateSound(q)
      BY ONLY <3>2, <3>6 DEF CandidateSound
    <3> QED
      BY <3>3, <3>5, <3>6, <3>7
  <2>2. CASE ~Prepare
    <3>1. \/ \E at \in {"closed", "planned", "checked"} : point' = [point EXCEPT !.at = at]
          \/ point' = [point EXCEPT !.at = "checked", !.proof = plan, !.proved = "yes"]
      BY <2>2 DEF Decided, Check, Hand
    <3>2. PICK q : point' = q
      OBVIOUS
    <3>3. /\ q \in CandidateRecord /\ q.at \in {"closed", "planned", "checked"}
          /\ q.from = point.from /\ q.outcome = point.outcome
          /\ q.said = point.said /\ q.use = point.use /\ q.claim = point.claim
      BY ONLY <1>1, <3>1, <3>2, ZenonT(60) DEF CandidateRecord, Places
    <3>4. CandidateSound(q)
      BY ONLY <1>1, <3>3 DEF CandidateSound
    <3> QED
      BY <3>2, <3>3, <3>4
  <2> QED
    BY <2>1, <2>2
<1>4. AdmitTypes' /\ RowsSound' /\ SilenceIsExplained'
  BY <1>2 DEF AdmitInv, AdmitTypes, RowsSound, RowSound, SilenceIsExplained
<1> QED
  BY <1>3, <1>4 DEF AdmitInv, Followed, VerifiedIsWritten, RestsOnSources, CandidateSound
\* Application: what is eligible now was earned, and the plan is its own proof.
LEMMA EligibleIsEarned ==
  ASSUME NEW p \in CandidateRecord, CandidateSound(p), NEW closing,
         Eligible(Revalidated(p, closing)), author \in {"proved", "legacy", "injected"}
  PROVE  /\ p.use = "durable" /\ Validated(p, closing) = "verified"
         /\ p.from = "worker" => Supported(p.said)
         /\ p.claim.basis # "transcript"
         /\ p.claim.basis = "source_report" => author = "proved"
         /\ p.claim.basis = "user_statement" => author # "injected"
         /\ p.claim.basis = "repository" => p.digest = file
<1>1. PICK q \in CandidateRecord :
         /\ q = Revalidated(p, closing) /\ CandidateSound(q)
         /\ q.use = p.use /\ q.from = p.from /\ q.said = p.said
         /\ q.outcome = Validated(p, closing)
  BY RevalidatedSound
<1>2. q.outcome \in Outcomes
  BY <1>1 DEF CandidateRecord
<1>3. q.outcome = "verified" /\ q.use = "durable"
  BY <1>1, <1>2 DEF Eligible, Status, Outcomes
<1>4. p.from = "worker" => Supported(p.said)
  BY <1>1, <1>3 DEF CandidateSound
<1>5. Refs(p) \notin {"changed", "unverified"} /\ p.claim.basis # "transcript"
  BY <1>1, <1>3 DEF Validated
<1>6. p.claim.basis = "source_report" => author = "proved"
  BY <1>5 DEF Refs, SourceReport
<1>7. p.claim.basis = "user_statement" => author # "injected"
  BY <1>5 DEF Refs, UserStatement
<1>8. p.claim.basis = "repository" => p.digest = file
  BY <1>5 DEF Refs, Repository
<1> QED
  BY <1>1, <1>3, <1>4, <1>5, <1>6, <1>7, <1>8

LEMMA ApplyKeeps ==
  ASSUME AdmitInv, Apply
  PROVE  AdmitInv'
<1>1. /\ point \in CandidateRecord /\ CandidateSound(point) /\ plan \in Plan
      /\ target \in 0 .. MaxTarget /\ author \in {"proved", "legacy", "injected"} /\ written \in Plan
  BY DEF AdmitInv, Followed, AdmitTypes
<1>2. PICK p : p = Revalidated(point, point.discard)
  OBVIOUS
<1>3. /\ p \in CandidateRecord /\ CandidateSound(p)
      /\ p.from = point.from /\ p.claim = point.claim /\ p.said = point.said /\ p.use = point.use
      /\ p.digest = point.digest /\ p.proof = point.proof /\ p.proved = point.proved
  BY <1>1, <1>2, RevalidatedSound
<1>4. PICK now : now = [plan EXCEPT !.snapshot = IF plan.does = "add" THEN 0 ELSE target]
  OBVIOUS
<1>5. now \in Plan /\ now.does = plan.does
  <2>1. PICK t \in 0 .. MaxTarget : t = IF plan.does = "add" THEN 0 ELSE target
    BY <1>1, PlainThings
  <2>2. now = [plan EXCEPT !.snapshot = t]
    BY <1>4, <2>1
  <2> QED
    BY ONLY <1>1, <2>1, <2>2 DEF Plan
<1>6. PICK fits \in BOOLEAN :
         fits = (/\ Eligible(p) /\ (plan.does \in {"replace", "confirm"} => target # 0)
                 /\ (p.from = "worker" => p.proved = "yes" /\ p.proof = now))
  OBVIOUS
<1>7. PICK at \in {"written", "stuck"} : at = IF fits THEN "written" ELSE "stuck"
  OBVIOUS
<1>8. PICK q : q = [p EXCEPT !.at = at]
  OBVIOUS
<1>9. /\ point' = q
      /\ written' = (IF fits THEN now ELSE written)
      /\ target' = (IF fits /\ plan.does = "replace" THEN 0 ELSE target)
  BY <1>2, <1>4, <1>6, <1>7, <1>8 DEF Apply
<1>10. /\ q \in CandidateRecord /\ q.at = at /\ q.from = p.from /\ q.claim = p.claim
       /\ q.said = p.said /\ q.use = p.use /\ q.digest = p.digest /\ q.proof = p.proof
       /\ q.outcome = p.outcome
  BY ONLY <1>3, <1>8, at \in {"written", "stuck"} DEF CandidateRecord, Places
<1>11. CandidateSound(q)
  BY ONLY <1>3, <1>10 DEF CandidateSound
<1>12. /\ file' = file /\ review' = review /\ asked' = asked /\ session' = session /\ answer' = answer
       /\ author' = author /\ rows' = rows /\ plan' = plan
  BY DEF Apply, verdictVars
<1>13. AdmitTypes' /\ RowsSound' /\ SilenceIsExplained'
  BY <1>1, <1>5, <1>9, <1>12, PlainThings
     DEF AdmitInv, AdmitTypes, RowsSound, RowSound, SilenceIsExplained
<1>14. CASE ~fits
  <2>1. point'.at # "written"
    BY <1>7, <1>9, <1>10, <1>14
  <2> QED
    BY <1>9, <1>10, <1>11, <1>13, <2>1
       DEF AdmitInv, Followed, VerifiedIsWritten, RestsOnSources, CandidateSound
<1>15. CASE fits
  <2>1. Eligible(p) /\ (p.from = "worker" => p.proof = now)
    BY <1>6, <1>15
  <2>2. /\ point.use = "durable"
        /\ point.from = "worker" => Supported(point.said)
        /\ point.claim.basis # "transcript"
        /\ point.claim.basis = "source_report" => author = "proved"
        /\ point.claim.basis = "user_statement" => author # "injected"
        /\ point.claim.basis = "repository" => point.digest = file
    BY <1>1, <1>2, <2>1, EligibleIsEarned
  <2>3. /\ written' = now
        /\ now.does = "replace" => target' = 0
    BY <1>5, <1>9, <1>15
  <2>4. VerifiedIsWritten'
    BY <1>3, <1>9, <1>10, <2>1, <2>2, <2>3 DEF VerifiedIsWritten, Supported
  <2>5. RestsOnSources'
    BY <1>3, <1>9, <1>10, <1>12, <2>2 DEF RestsOnSources
  <2> QED
    BY <1>9, <1>10, <1>11, <1>13, <2>4, <2>5 DEF AdmitInv, Followed, CandidateSound
<1> QED
  BY <1>14, <1>15

LEMMA AdmitBegins == AdmitInit => AdmitInv
<1> SUFFICES ASSUME AdmitInit PROVE AdmitInv
  OBVIOUS
<1>1. AdmitTypes /\ RowsSound /\ SilenceIsExplained
  BY PlainThings DEF AdmitInit, VerdictInit, AdmitTypes, RowsSound, SilenceIsExplained
<1>2. point \in CandidateRecord /\ point.at = "none" /\ point.outcome = "unverified"
  BY PlainThings DEF AdmitInit, NoCandidate
<1> QED
  BY <1>1, <1>2 DEF AdmitInv, Followed, CandidateSound, VerifiedIsWritten, RestsOnSources

\* What a background review and an agent's suggestion bring into the current
\* knowledge is earned, whatever the world does between any two of their steps.
THEOREM AdmitInvariant == AdmitSpec => []AdmitInv
<1>1. AdmitInit => AdmitInv
  BY AdmitBegins
<1>2. AdmitInv /\ [AdmitNext]_<<verdictVars, admitVars>> => AdmitInv'
  <2> SUFFICES ASSUME AdmitInv, [AdmitNext]_<<verdictVars, admitVars>>
               PROVE  AdmitInv'
    OBVIOUS
  <2>1. CASE Verdict
    <3>1. point.at = "none" /\ UNCHANGED admitVars
      BY <2>1 DEF Verdict
    <3>2. CASE \E a \in Answers : Decide(a)
      BY <3>1, <3>2, DecideKeeps
    <3>3. CASE ReadContent \/ ReadDigest
      BY <3>1, <3>3, ReadingKeeps
    <3>4. CASE \E p \in Point, first \in DOMAIN rows, covers \in BOOLEAN :
                  Verify([i \in DOMAIN rows |-> IF i = first THEN p ELSE Durable], covers)
      BY <3>1, <3>4, VerifyKeeps
    <3> QED
      BY <2>1, <3>2, <3>3, <3>4 DEF Verdict
  <2>2. CASE \/ \E v \in Version : Changed(v)
             \/ \E s \in {"unrendered", "rerendered", "damaged"} : Decay(s)
             \/ \E v \in 0 .. MaxTarget : Move(v)
    BY <2>2, WorldKeeps
  <2>3. CASE \E i \in DOMAIN rows, a \in {"proved", "legacy", "injected"} : Admit(i, a)
    BY <2>3, AdmitKeeps
  <2>4. CASE \E c \in Candidate, outcome \in Outcomes, use \in {"durable", "session_only"},
                discard \in {"no", "yes"}, a \in {"proved", "legacy", "injected"} :
                Suggest(c, outcome, use, discard, a)
    BY <2>4, SuggestKeeps DEF Uses
  <2>5. CASE Prepare \/ (\E m \in Plan : Decided(m)) \/ (\E p \in {"durable", "other"} : Check(p)) \/ Hand
    BY <2>5, PassingKeeps
  <2>6. CASE Apply
    BY <2>6, ApplyKeeps
  <2>7. CASE UNCHANGED <<verdictVars, admitVars>>
    BY <2>7 DEF verdictVars, admitVars, AdmitInv, AdmitTypes, RowsSound, RowSound, Followed,
       CandidateSound, SilenceIsExplained, VerifiedIsWritten, RestsOnSources
  <2> QED
    BY <2>1, <2>2, <2>3, <2>4, <2>5, <2>6, <2>7 DEF AdmitNext
<1> QED
  BY <1>1, <1>2, PTL DEF AdmitSpec

\* A session without points has answered for its signals; what a review has
\* written was supported in all its parts, and by the proof of its very plan;
\* and nothing written rests on a transcript alone or on sources that changed.
THEOREM KnowledgeIsAlwaysEarned == AdmitSpec => []KnowledgeIsEarned
  BY AdmitInvariant, AdmitInvGives, PTL
==============================================================================
