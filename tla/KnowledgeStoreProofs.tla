------------------------- MODULE KnowledgeStoreProofs -------------------------
(* Knowledge survives racing transactions, and what was verified is what is     *)
(* changed, for any entries, decisions, callers and number of versions.         *)
EXTENDS KnowledgeStore, TLAPS

\* A digest read after the version was verified is that version's, or the entry
\* has moved on, to a version that is not written twice.
Past(p, e) == sha[p][e] = got[p][e] \/ entry[e] # got[p][e]

\* What a caller knows of the entries it works on, and of the one that it keeps.
Verified(p) ==
    /\ stand[p] # "idle" => \A e \in Asserted(task[p]) : got[p][e] # Absent
    /\ stand[p] = "committed" => task[p].kind = "change"
    /\ task[p].kind \in {"refresh", "retire"} =>
          /\ stand[p] \in {"hashed", "checked", "kept", "ready"} => Past(p, task[p].on)
          /\ stand[p] \in {"checked", "kept", "ready"} =>
                sha[p][task[p].on] = got[p][task[p].on]
    /\ task[p].kind = "retire" =>
          /\ stand[p] \in {"kept", "ready"} => Past(p, task[p].for)
          /\ stand[p] = "ready" => sha[p][task[p].for] = got[p][task[p].for]

\* No version is later than the last one written.
VersionsWritten ==
    \A e \in Entry : entry[e] <= version /\ \A p \in Caller : got[p][e] <= version

\* Only current entries stand for facts.
GoneIsEmpty == \A e \in Entry : ~Current(e) => carries[e] = {}

KnowInv ==
    /\ KnowTypeOK
    /\ VersionsWritten
    /\ GoneIsEmpty
    /\ NoFactLost
    /\ \A p \in Caller : Verified(p)
-----------------------------------------------------------------------------
\* The callers' own state, and what they share.
CallersOK ==
    /\ stand \in [Caller -> {"idle", "looked", "hashed", "checked", "kept", "ready", "committed"}]
    /\ task \in [Caller -> Tasks]
    /\ got \in [Caller -> [Entry -> Versions]] /\ sha \in [Caller -> [Entry -> Versions]]
SharedOK ==
    /\ entry \in [Entry -> Versions] /\ version \in Versions
    /\ made \subseteq Change /\ ended \subseteq Change
    /\ carries \in [Entry -> SUBSET First] /\ dropped \subseteq First

\* The type invariant, split into what is said of callers and of the store.
LEMMA KnowTypes == KnowTypeOK <=> CallersOK /\ SharedOK
  BY DEF KnowTypeOK, CallersOK, SharedOK

(* The numbers of versions, without anything else. *)
LEMMA VersionBounds ==
  /\ 0 \in Versions /\ 1 \in Versions /\ Versions \subseteq Nat
  /\ \A n \in Versions : n < MaxVersion => n + 1 \in Versions /\ n + 1 # 0
  /\ \A n, m \in Versions : m <= n => m # n + 1 /\ m <= n + 1
  /\ \A n \in Versions : n <= n /\ 0 <= n
  BY KnowledgeAssumption DEF Versions

(* What a task may be. *)
LEMMA TaskKinds ==
  ASSUME NEW t \in Tasks
  PROVE  /\ t.kind \in {"change", "refresh", "delete", "retire", "none"}
         /\ t.kind = "change" => t.by \in Change
         /\ t.kind \in {"refresh", "delete", "retire"} => t.on \in Entry
         /\ t.kind = "retire" => t.for \in Entry /\ t.on # t.for
         /\ Subject(t) \subseteq Entry /\ Retained(t) \subseteq Entry
  BY KnowledgeAssumption DEF Tasks, NoTask, Subject, Retained

\* A caller without a decision has no kind of task.
LEMMA NoTaskKind == NoTask \in Tasks /\ NoTask.kind = "none"
  BY DEF Tasks, NoTask

(* Reading some entries into a map of versions. *)
LEMMA HoldsSets ==
  ASSUME SharedOK, NEW f \in [Entry -> Versions], NEW who
  PROVE  /\ Holds(f, who) \in [Entry -> Versions]
         /\ \A e \in Entry : Holds(f, who)[e] = IF e \in who THEN entry[e] ELSE f[e]
  BY DEF SharedOK, Holds

\* A caller's own state does not change.
Stays(q) == /\ stand'[q] = stand[q] /\ task'[q] = task[q]
            /\ got'[q] = got[q] /\ sha'[q] = sha[q]

\* The step of a caller is its own.
Own(p) ==
    /\ CallersOK'
    /\ \A q \in Caller \ {p} : Stays(q)

\* A caller that ends leaves only its own place and task behind.
LEMMA EndsIsOwn ==
  ASSUME CallersOK, NEW p \in Caller, Ends(p)
  PROVE  Own(p) /\ stand'[p] = "idle" /\ task'[p].kind = "none"
  BY NoTaskKind, VersionBounds DEF CallersOK, Ends, To, Own, Stays, Nowhere, Absent

\* A caller that goes on leaves the places of the others alone.
LEMMA ToIsOwn ==
  ASSUME CallersOK, NEW p \in Caller,
         NEW s \in {"idle", "looked", "hashed", "checked", "kept", "ready", "committed"}, To(p, s)
  PROVE  /\ stand' \in [Caller -> {"idle", "looked", "hashed", "checked", "kept", "ready", "committed"}]
         /\ stand'[p] = s
         /\ \A q \in Caller \ {p} : stand'[q] = stand[q]
  BY DEF CallersOK, To

\* The kinds of change to knowledge: none; a decision; a new date; a deletion.
Writes(d) ==
    /\ FreshKey(d) /\ \A e \in Adds[d] : ~Current(e)
    /\ version < MaxVersion /\ version' = version + 1
    /\ entry' = [e \in Entry |-> IF e \in Adds[d] THEN version'
                                 ELSE IF e \in Retires[d] THEN Absent ELSE entry[e]]
    /\ carries' = [e \in Entry |-> IF e \in Adds[d] THEN UNION {carries[r] : r \in Retires[d]}
                                   ELSE IF e \in Retires[d] THEN {} ELSE carries[e]]
    /\ made' = made \cup {d}
    /\ UNCHANGED dropped
Dates(p, on) ==
    /\ stand[p] = "ready" /\ task[p].kind = "refresh" /\ task[p].on = on /\ Unchanged(p)
    /\ version < MaxVersion /\ version' = version + 1
    /\ entry' = [entry EXCEPT ![on] = version']
    /\ UNCHANGED <<made, carries, dropped>>
Deletes(p, t) ==
    /\ stand[p] = "ready" /\ task[p] = t /\ t.kind \in {"delete", "retire"} /\ Unchanged(p)
    /\ entry' = [entry EXCEPT ![t.on] = Absent]
    /\ carries' = [e \in Entry |-> IF e = t.on THEN {}
                                   ELSE IF e \in Retained(t) THEN carries[e] \cup carries[t.on]
                                   ELSE carries[e]]
    /\ dropped' = IF t.kind = "delete" THEN dropped \cup carries[t.on] ELSE dropped
    /\ UNCHANGED <<version, made>>
Nothing == UNCHANGED <<entry, version, made, carries, dropped>>

KnowledgeMoves ==
    \/ Nothing
    \/ \E d \in Change : Writes(d)
    \/ \E p \in Caller : \E on \in Entry : Dates(p, on)
    \/ \E p \in Caller : \E t \in Tasks : t.on \in Entry /\ Deletes(p, t)

(* Every step changes knowledge in one of these ways. *)
LEMMA EveryWrite ==
  ASSUME KnowTypeOK, [KnowNext]_knowVars
  PROVE  KnowledgeMoves
  <1> USE KnowTypes DEF KnowledgeMoves
  <1>1. ASSUME NEW p \in Caller, Look(p) PROVE KnowledgeMoves
    BY <1>1 DEF Look, Nothing
  <1>2. ASSUME NEW p \in Caller, Replay(p) PROVE KnowledgeMoves
    BY <1>2 DEF Replay, Nothing
  <1>3. ASSUME NEW p \in Caller, Hash(p) PROVE KnowledgeMoves
    BY <1>3 DEF Hash, Nothing
  <1>4. ASSUME NEW p \in Caller, Check(p) PROVE KnowledgeMoves
    BY <1>4 DEF Check, Nothing
  <1>5. ASSUME NEW p \in Caller, HashRetained(p) PROVE KnowledgeMoves
    BY <1>5 DEF HashRetained, Nothing
  <1>6. ASSUME NEW p \in Caller, CheckRetained(p) PROVE KnowledgeMoves
    BY <1>6 DEF CheckRetained, Nothing
  <1>7. ASSUME NEW p \in Caller, CommitChange(p) PROVE KnowledgeMoves
    <2>1. task[p] \in Tasks
      BY DEF CallersOK
    <2>2. task[p].by \in Change
      BY <2>1, TaskKinds, <1>7 DEF CommitChange
    <2>3. Nothing \/ Writes(task[p].by)
      BY <1>7 DEF CommitChange, Nothing, Writes
    <2>4. QED
      BY <2>2, <2>3
  <1>8. ASSUME NEW p \in Caller, CommitRefresh(p) PROVE KnowledgeMoves
    <2>1. task[p].on \in Entry
      BY TaskKinds, <1>8 DEF CommitRefresh, CallersOK
    <2>2. Nothing \/ Dates(p, task[p].on)
      BY <1>8 DEF CommitRefresh, Nothing, Dates
    <2>3. QED
      BY <2>1, <2>2
  <1>9. ASSUME NEW p \in Caller, CommitDelete(p) PROVE KnowledgeMoves
    <2>1. task[p] \in Tasks /\ task[p].on \in Entry
      BY TaskKinds, <1>9 DEF CommitDelete, CallersOK
    <2>2. Nothing \/ Deletes(p, task[p])
      BY <1>9 DEF CommitDelete, Nothing, Deletes
    <2>3. QED
      BY <2>1, <2>2
  <1>10. ASSUME NEW p \in Caller, SaveAssimilated(p) PROVE KnowledgeMoves
    BY <1>10 DEF SaveAssimilated, Nothing
  <1>11. ASSUME NEW p \in Caller, KnowCrash(p) PROVE KnowledgeMoves
    BY <1>11 DEF KnowCrash, Nothing
  <1>12. CASE UNCHANGED knowVars
    BY <1>12 DEF knowVars, Nothing
  <1>13. QED
    BY <1>1, <1>2, <1>3, <1>4, <1>5, <1>6, <1>7, <1>8, <1>9, <1>10, <1>11,
       <1>12 DEF KnowNext
-----------------------------------------------------------------------------
\* What is there was there, is gone, or is of a version never written before.
Anew ==
    /\ version' \in Versions /\ entry' \in [Entry -> Versions]
    /\ version' = version \/ version' = version + 1
    /\ \A e \in Entry : \/ entry'[e] = entry[e]
                        \/ entry'[e] = Absent
                        \/ entry'[e] = version + 1 /\ version' = version + 1

(* Every version is new. *)
LEMMA EntriesMove ==
  ASSUME KnowTypeOK, KnowledgeMoves
  PROVE  Anew
  <1> USE KnowTypes, VersionBounds DEF SharedOK, Anew, Absent
  <1>1. CASE Nothing
    BY <1>1 DEF Nothing
  <1>2. ASSUME NEW d \in Change, Writes(d) PROVE Anew
    BY <1>2 DEF Writes
  <1>3. ASSUME NEW p \in Caller, NEW on \in Entry, Dates(p, on) PROVE Anew
    BY <1>3 DEF Dates
  <1>4. ASSUME NEW p \in Caller, NEW t \in Tasks, t.on \in Entry, Deletes(p, t) PROVE Anew
    BY <1>4 DEF Deletes
  <1>5. QED
    BY <1>1, <1>2, <1>3, <1>4 DEF KnowledgeMoves

(* What an entry has moved on from it does not come back to. *)
LEMMA NeverAgain ==
  ASSUME KnowTypeOK, VersionsWritten, KnowledgeMoves, NEW e \in Entry, NEW g \in Versions,
         g <= version, g # Absent, entry[e] # g
  PROVE  entry'[e] # g
  BY EntriesMove, VersionBounds, KnowTypes DEF Anew, SharedOK

(* Versions written stay so. *)
LEMMA WrittenStays ==
  ASSUME KnowTypeOK, VersionsWritten, KnowledgeMoves
  PROVE  /\ \A e \in Entry : entry'[e] <= version'
         /\ \A e \in Entry, p \in Caller : got[p][e] <= version'
         /\ \A e \in Entry : entry[e] <= version'
  <1>1. version \in Versions /\ version' \in Versions /\ Anew
    BY EntriesMove, KnowTypes DEF Anew, SharedOK
  <1>2. \A n \in Versions : n <= version => n <= version'
    BY <1>1, VersionBounds DEF Anew
  <1>3. \A e \in Entry : entry'[e] <= version'
    <2>1. SUFFICES ASSUME NEW e \in Entry PROVE entry'[e] <= version'
      OBVIOUS
    <2>2. entry[e] \in Versions /\ entry[e] <= version
      BY KnowTypes DEF SharedOK, VersionsWritten
    <2>3. CASE entry'[e] = entry[e]
      BY ONLY <1>2, <2>2, <2>3, Zenon
    <2>4. CASE entry'[e] = Absent
      BY <1>1, <2>4, VersionBounds DEF Absent
    <2>5. CASE entry'[e] = version + 1 /\ version' = version + 1
      BY <1>1, <2>5, VersionBounds
    <2> QED
      BY <1>1, <2>3, <2>4, <2>5 DEF Anew
  <1>4. \A e \in Entry, p \in Caller : got[p][e] <= version'
    BY <1>2, KnowTypes DEF CallersOK, VersionsWritten
  <1>5. \A e \in Entry : entry[e] <= version'
    BY <1>2, KnowTypes DEF SharedOK, VersionsWritten
  <1>6. QED
    BY <1>3, <1>4, <1>5

(* The types of what is shared. *)
LEMMA SharedKept ==
  ASSUME KnowTypeOK, KnowledgeMoves, ended' \subseteq Change
  PROVE  SharedOK'
  <1> DEFINE Facts == carries' \in [Entry -> SUBSET First] /\ dropped' \subseteq First
                      /\ made' \subseteq Change
  <1> USE KnowTypes DEF SharedOK
  <1>1. CASE Nothing
    BY <1>1 DEF Nothing
  <1>2. ASSUME NEW d \in Change, Writes(d) PROVE Facts
    <2>1. Retires[d] \subseteq Entry
      BY KnowledgeAssumption
    <2>2. UNION {carries[r] : r \in Retires[d]} \subseteq First
      BY <2>1
    <2>3. QED
      BY <1>2, <2>2 DEF Writes
  <1>3. ASSUME NEW p \in Caller, NEW on \in Entry, Dates(p, on) PROVE Facts
    BY <1>3 DEF Dates
  <1>4. ASSUME NEW p \in Caller, NEW t \in Tasks, t.on \in Entry, Deletes(p, t) PROVE Facts
    BY <1>4 DEF Deletes
  <1>5. Facts
    BY <1>1, <1>2, <1>3, <1>4 DEF KnowledgeMoves, Nothing
  <1>6. QED
    BY <1>5, EntriesMove DEF Anew

(* An entry that a caller is about to date or to delete for another is the      *)
(* version that it verified, and so is the one kept instead.                    *)
LEMMA ReadyIsVerified ==
  ASSUME KnowTypeOK, NEW p \in Caller, Verified(p), Unchanged(p), stand[p] = "ready",
         task[p].kind \in {"refresh", "retire"}
  PROVE  /\ entry[task[p].on] = got[p][task[p].on] /\ Current(task[p].on)
         /\ task[p].kind = "retire" =>
               /\ entry[task[p].for] = got[p][task[p].for]
               /\ Current(task[p].for)
  BY DEF Verified, Unchanged, Asserted, Subject, Retained, Current

(* What is gone stands for nothing. *)
LEMMA EmptyKept ==
  ASSUME KnowTypeOK, GoneIsEmpty, KnowledgeMoves, \A p \in Caller : Verified(p)
  PROVE  GoneIsEmpty'
  <1> USE KnowTypes DEF SharedOK, GoneIsEmpty, Current
  <1>1. CASE Nothing
    BY <1>1 DEF Nothing
  <1>2. ASSUME NEW d \in Change, Writes(d) PROVE GoneIsEmpty'
    BY <1>2, VersionBounds DEF Writes, Absent
  <1>3. ASSUME NEW p \in Caller, NEW on \in Entry, Dates(p, on) PROVE GoneIsEmpty'
    <2>1. version + 1 # Absent
      BY <1>3, VersionBounds DEF Dates, Absent
    <2>2. QED
      BY <1>3, <2>1 DEF Dates
  <1>4. ASSUME NEW p \in Caller, NEW t \in Tasks, t.on \in Entry, Deletes(p, t)
        PROVE  GoneIsEmpty'
    <2>1. t.kind = "retire" => Current(t.for) /\ Retained(t) = {t.for}
      BY <1>4, ReadyIsVerified DEF Deletes, Retained
    <2>2. t.kind = "delete" => Retained(t) = {}
      BY DEF Retained
    <2>3. QED
      BY <1>4, <2>1, <2>2 DEF Deletes
  <1>5. QED
    BY <1>1, <1>2, <1>3, <1>4 DEF KnowledgeMoves

(* Facts pass from what goes to what comes, or to what is kept instead. *)
LEMMA FactsKept ==
  ASSUME KnowTypeOK, GoneIsEmpty, NoFactLost, KnowledgeMoves, \A p \in Caller : Verified(p)
  PROVE  NoFactLost'
  <1> USE KnowTypes DEF SharedOK, GoneIsEmpty, Current
  <1> SUFFICES ASSUME NEW f \in First, f \notin dropped'
               PROVE  \E e \in Entry : entry'[e] # Absent /\ f \in carries'[e]
    BY DEF NoFactLost
  <1>1. f \notin dropped
    BY DEF KnowledgeMoves, Nothing, Writes, Dates, Deletes
  <1>2. PICK e \in Entry : entry[e] # Absent /\ f \in carries[e]
    BY <1>1 DEF NoFactLost
  <1>3. CASE Nothing
    BY <1>2, <1>3 DEF Nothing
  <1>4. ASSUME NEW d \in Change, Writes(d)
        PROVE  \E a \in Entry : entry'[a] # Absent /\ f \in carries'[a]
    <2>1. version + 1 # Absent
      BY <1>4, VersionBounds DEF Writes, Absent
    <2>2. PICK a \in Entry : a \in Adds[d]
      BY KnowledgeAssumption
    <2>3. e \notin Adds[d]
      BY <1>2, <1>4 DEF Writes
    <2>4. CASE e \in Retires[d]
      BY <1>2, <1>4, <2>1, <2>2, <2>4 DEF Writes
    <2>5. CASE e \notin Retires[d]
      BY <1>2, <1>4, <2>3, <2>5 DEF Writes
    <2>6. QED
      BY <2>4, <2>5
  <1>5. ASSUME NEW p \in Caller, NEW on \in Entry, Dates(p, on)
        PROVE  \E a \in Entry : entry'[a] # Absent /\ f \in carries'[a]
    <2>1. version + 1 # Absent
      BY <1>5, VersionBounds DEF Dates, Absent
    <2>2. QED
      BY <1>2, <1>5, <2>1 DEF Dates
  <1>6. ASSUME NEW p \in Caller, NEW t \in Tasks, t.on \in Entry, Deletes(p, t)
        PROVE  \E a \in Entry : entry'[a] # Absent /\ f \in carries'[a]
    <2>1. CASE t.kind = "delete"
      <3>1. e # t.on
        BY <1>1, <1>2, <1>6, <2>1 DEF Deletes
      <3>2. QED
        BY <1>2, <1>6, <2>1, <3>1 DEF Deletes
    <2>2. CASE t.kind = "retire"
      <3>1. Current(t.for) /\ Retained(t) = {t.for} /\ t.for \in Entry /\ t.on # t.for
        BY <1>6, <2>2, ReadyIsVerified, TaskKinds DEF Deletes, Retained
      <3>2. CASE e = t.on
        BY <1>2, <1>6, <3>1, <3>2 DEF Deletes
      <3>3. CASE e # t.on
        BY <1>2, <1>6, <3>1, <3>3 DEF Deletes
      <3>4. QED
        BY <3>2, <3>3
    <2>3. QED
      BY <1>6, <2>1, <2>2 DEF Deletes
  <1>7. QED
    BY <1>3, <1>4, <1>5, <1>6 DEF KnowledgeMoves
-----------------------------------------------------------------------------
\* A caller's step: it knows no more than it has read.
OwnStep(p) ==
    /\ Own(p)
    /\ Verified(p)'
    /\ \A e \in Entry : got'[p][e] \in {Absent, entry[e], got[p][e]}

(* A caller that ends has nothing verified, and needs nothing. *)
LEMMA EndsIsOwnStep ==
  ASSUME CallersOK, NEW p \in Caller, Ends(p)
  PROVE  OwnStep(p)
  <1>1. Own(p) /\ stand'[p] = "idle" /\ task'[p].kind = "none"
    BY EndsIsOwn
  <1>2. got'[p] = Nowhere
    BY DEF Ends, CallersOK
  <1>3. QED
    BY <1>1, <1>2 DEF OwnStep, Verified, Nowhere

(* Only the stand of a caller changes, and what it must know it knows. *)
LEMMA ToIsOwnStep ==
  ASSUME CallersOK, NEW p \in Caller, UNCHANGED <<task, got, sha>>, Verified(p)',
         NEW s \in {"looked", "hashed", "checked", "kept", "ready", "committed"}, To(p, s)
  PROVE  OwnStep(p)
  BY ToIsOwn DEF OwnStep, Own, Stays, CallersOK

(* What a caller that takes no step has verified stays verified: entries that   *)
(* move on from it do not come back to it.                                      *)
LEMMA OthersVerified ==
  ASSUME KnowTypeOK, VersionsWritten, KnowledgeMoves, NEW q \in Caller, Verified(q), Stays(q)
  PROVE  Verified(q)'
  <1> USE KnowTypes DEF CallersOK
  <1>1. task[q] \in Tasks
    OBVIOUS
  <1>2. ASSUME NEW e \in Entry, Past(q, e), got[q][e] # Absent PROVE Past(q, e)'
    <2>1. got[q][e] \in Versions /\ got[q][e] <= version
      BY DEF VersionsWritten
    <2>2. entry[e] # got[q][e] => entry'[e] # got[q][e]
      BY <1>2, <2>1, NeverAgain
    <2>3. QED
      BY <1>2, <2>2 DEF Past, Stays
  <1>3. ASSUME stand[q] # "idle", task[q].kind \in {"refresh", "retire"}
        PROVE  /\ task[q].on \in Entry /\ got[q][task[q].on] # Absent
               /\ task[q].kind = "retire" => task[q].for \in Entry /\ got[q][task[q].for] # Absent
    BY <1>1, <1>3, TaskKinds DEF Verified, Asserted, Subject, Retained
  <1>4. stand[q] # "idle" => \A e \in Asserted(task[q])' : got'[q][e] # Absent
    BY DEF Verified, Stays, Asserted, Subject, Retained
  <1>5. QED
    BY <1>2, <1>3, <1>4 DEF Verified, Stays

(* Reading the entries of a task, a caller knows their versions. *)
LEMMA LookVerifies ==
  ASSUME KnowTypeOK, NEW p \in Caller, Verified(p), Look(p)
  PROVE  OwnStep(p)
  <1> USE KnowTypes
  <1>1. PICK t \in Tasks \ {NoTask} :
          /\ \A e \in Subject(t) \cup Retained(t) : Current(e)
          /\ task' = [task EXCEPT ![p] = t]
          /\ got' = [got EXCEPT ![p] = Holds(Nowhere, Subject(t) \cup Retained(t))]
    BY DEF Look
  <1>2. Nowhere \in [Entry -> Versions] /\ \A e \in Entry : Nowhere[e] = Absent
    BY VersionBounds DEF Nowhere, Absent
  <1> DEFINE h == Holds(Nowhere, Subject(t) \cup Retained(t))
  <1>3. h \in [Entry -> Versions]
        /\ \A e \in Entry : h[e] = IF e \in Subject(t) \cup Retained(t) THEN entry[e] ELSE Absent
    BY <1>2, HoldsSets
  <1> HIDE DEF h
  <1>4. task'[p] = t /\ got'[p] = h /\ stand'[p] = "looked" /\ sha' = sha
    BY <1>1, <1>3 DEF Look, To, CallersOK, h
  <1>5. Own(p)
    BY <1>1, <1>3, ToIsOwn, ZenonT(60) DEF Look, Own, Stays, CallersOK, h
  <1>6. Subject(t) \subseteq Entry /\ Retained(t) \subseteq Entry
    BY TaskKinds
  <1>7. Verified(p)'
    BY <1>1, <1>3, <1>4, <1>6 DEF Verified, Asserted, Subject, Retained, Current
  <1>8. QED
    BY <1>3, <1>4, <1>5, <1>7 DEF OwnStep

(* A digest is that of the entry as it is. *)
LEMMA HashVerifies ==
  ASSUME KnowTypeOK, NEW p \in Caller, Verified(p), Hash(p), KnowledgeMoves
  PROVE  OwnStep(p)
  <1> USE KnowTypes
  <1>1. CASE Ends(p)
    BY <1>1, EndsIsOwnStep
  <1> DEFINE h == Holds(sha[p], Subject(task[p]))
             s == IF Early(task[p]) THEN "hashed" ELSE "ready"
  <1>2. CASE sha' = [sha EXCEPT ![p] = h] /\ To(p, s) /\ UNCHANGED <<task, got>>
    <2>1. sha[p] \in [Entry -> Versions] /\ task[p] \in Tasks
      BY DEF CallersOK
    <2>2. h \in [Entry -> Versions]
          /\ \A e \in Entry : h[e] = IF e \in Subject(task[p]) THEN entry[e] ELSE sha[p][e]
      BY <2>1, HoldsSets
    <2> HIDE DEF h
    <2>3. Own(p) /\ stand'[p] = s /\ sha'[p] = h
      BY <1>2, <2>2, ToIsOwn DEF Own, Stays, CallersOK
    <2>4. entry' = entry /\ stand[p] # "idle"
      BY DEF Hash
    <2>5. Verified(p)'
      BY <1>2, <2>1, <2>2, <2>3, <2>4, TaskKinds
         DEF Verified, Past, Early, Asserted, Subject, Retained
    <2>6. QED
      BY <1>2, <2>3, <2>5 DEF OwnStep
  <1>3. QED
    BY <1>1, <1>2 DEF Hash

(* An entry that is still what was verified has the digest that was read. *)
LEMMA CheckVerifies ==
  ASSUME KnowTypeOK, NEW p \in Caller, Verified(p), Check(p)
  PROVE  OwnStep(p)
  <1> USE KnowTypes
  <1>1. CASE Ends(p)
    BY <1>1, EndsIsOwnStep
  <1> DEFINE s == IF Late(task[p]) \/ task[p].kind = "retire" THEN "checked" ELSE "ready"
  <1>2. CASE /\ UNCHANGED <<task, got, sha>> /\ To(p, s)
             /\ \A e \in Subject(task[p]) :
                   IF task[p].kind = "delete" THEN Current(e) ELSE entry[e] = got[p][e]
    <2>1. task[p] \in Tasks
      BY DEF CallersOK
    <2>2. stand'[p] = s
      BY <1>2, ToIsOwn
    <2>3. Verified(p)'
      BY <1>2, <2>1, <2>2, TaskKinds
         DEF Check, Verified, Past, Early, Late, Asserted, Subject, Retained
    <2>4. QED
      BY <1>2, <2>3, ToIsOwnStep
  <1>3. QED
    BY <1>1, <1>2 DEF Check

(* The same for the entry that is retained. *)
LEMMA HashRetainedVerifies ==
  ASSUME KnowTypeOK, NEW p \in Caller, Verified(p), HashRetained(p)
  PROVE  OwnStep(p)
  <1> USE KnowTypes
  <1> DEFINE h == Holds(sha[p], Retained(task[p]))
  <1>1. sha[p] \in [Entry -> Versions] /\ task[p] \in Tasks
    BY DEF CallersOK
  <1>2. h \in [Entry -> Versions]
        /\ \A e \in Entry : h[e] = IF e \in Retained(task[p]) THEN entry[e] ELSE sha[p][e]
    BY <1>1, HoldsSets
  <1>3. sha' = [sha EXCEPT ![p] = h] /\ To(p, "kept") /\ UNCHANGED <<task, got, entry>>
    BY DEF HashRetained
  <1> HIDE DEF h
  <1>4. Own(p) /\ stand'[p] = "kept" /\ sha'[p] = h
    BY <1>2, <1>3, ToIsOwn DEF Own, Stays, CallersOK
  <1>5. Verified(p)'
    <2>1. stand[p] = "checked" /\ task[p].kind = "retire"
      BY DEF HashRetained
    <2>2. task[p].on \in Entry /\ task[p].for \in Entry /\ task[p].on # task[p].for
      BY <1>1, <2>1, TaskKinds
    <2>3. h[task[p].for] = entry[task[p].for] /\ h[task[p].on] = sha[p][task[p].on]
      BY <1>2, <2>1, <2>2 DEF Retained
    <2>4. \A e \in Asserted(task[p]) : got[p][e] # Absent
      BY <2>1 DEF Verified
    <2>5. \A e \in Asserted(task[p])' : got'[p][e] # Absent
      BY <1>3, <2>4 DEF Asserted, Subject, Retained
    <2>6. sha[p][task[p].on] = got[p][task[p].on]
      BY <2>1 DEF Verified
    <2>7. QED
      BY <1>3, <1>4, <2>1, <2>3, <2>5, <2>6 DEF Verified, Past
  <1>6. QED
    BY <1>3, <1>4, <1>5 DEF OwnStep

\* The check of the entry that a retirement keeps (plan application) is a step
\* of the caller alone, which has verified what it compares.
LEMMA CheckRetainedVerifies ==
  ASSUME KnowTypeOK, NEW p \in Caller, Verified(p), CheckRetained(p)
  PROVE  OwnStep(p)
  <1> USE KnowTypes
  <1>1. CASE Ends(p)
    BY <1>1, EndsIsOwnStep
  <1>2. CASE /\ UNCHANGED <<task, got, sha>> /\ To(p, "ready")
             /\ \A e \in Retained(task[p]) : entry[e] = got[p][e]
    <2>1. task[p] \in Tasks
      BY DEF CallersOK
    <2>2. stand'[p] = "ready"
      BY <1>2, ToIsOwn
    <2>3. Verified(p)'
      BY <1>2, <2>1, <2>2, TaskKinds DEF CheckRetained, Verified, Past, Asserted, Subject,
         Retained
    <2>4. QED
      BY <1>2, <2>3, ToIsOwnStep
  <1>3. QED
    BY <1>1, <1>2 DEF CheckRetained
(* A commit, a saving and a crash leave the caller idle or with what it had. *)
LEMMA CommitVerifies ==
  ASSUME KnowTypeOK, NEW p \in Caller, Verified(p),
         CommitChange(p) \/ CommitRefresh(p) \/ CommitDelete(p) \/ SaveAssimilated(p) \/ KnowCrash(p)
  PROVE  OwnStep(p)
  <1> USE KnowTypes
  <1>1. CASE Ends(p)
    BY <1>1, EndsIsOwnStep
  <1>2. CASE stand[p] = "ready" /\ task[p].kind = "change"
             /\ To(p, "committed") /\ UNCHANGED <<task, got, sha>>
    <2>1. stand'[p] = "committed"
      BY <1>2, ToIsOwn
    <2>2. Verified(p)'
      BY <1>2, <2>1 DEF Verified, Asserted, Subject, Retained
    <2>3. QED
      BY <1>2, <2>2, ToIsOwnStep
  <1>3. QED
    BY <1>1, <1>2 DEF CommitChange, CommitRefresh, CommitDelete, SaveAssimilated, KnowCrash

(* A step is one caller's, or nobody's. *)
LEMMA CallersStep ==
  ASSUME KnowTypeOK, \A p \in Caller : Verified(p), [KnowNext]_knowVars
  PROVE  \/ \E p \in Caller : OwnStep(p)
         \/ CallersOK' /\ \A p \in Caller : Stays(p)
  <1> USE KnowTypes
  <1>1. CASE UNCHANGED knowVars
    BY <1>1 DEF knowVars, CallersOK, Stays
  <1>2. ASSUME NEW p \in Caller, Replay(p) PROVE CallersOK' /\ \A q \in Caller : Stays(q)
    BY <1>2 DEF Replay, CallersOK, Stays
  <1>3. ASSUME NEW p \in Caller,
               \/ Look(p) \/ Hash(p) \/ Check(p) \/ HashRetained(p) \/ CheckRetained(p)
               \/ CommitChange(p) \/ CommitRefresh(p) \/ CommitDelete(p) \/ SaveAssimilated(p)
               \/ KnowCrash(p)
        PROVE  OwnStep(p)
    BY <1>3, EveryWrite, LookVerifies, HashVerifies, CheckVerifies, HashRetainedVerifies,
       CheckRetainedVerifies, CommitVerifies, SMTT(40)
  <1>4. QED
    BY <1>1, <1>2, <1>3 DEF KnowNext

(* Which candidates have been saved is about decisions only. *)
LEMMA EndedKept ==
  ASSUME KnowTypeOK, \A p \in Caller : Verified(p), [KnowNext]_knowVars
  PROVE  ended' \subseteq Change
  <1> USE KnowTypes DEF SharedOK
  <1>1. ASSUME NEW p \in Caller, SaveAssimilated(p) PROVE ended' \subseteq Change
    <2>1. CASE ended' = ended
      BY <2>1
    <2>2. CASE ended' = ended \cup {task[p].by}
      <3>1. task[p] \in Tasks /\ task[p].kind = "change"
        BY <1>1 DEF SaveAssimilated, Verified, CallersOK
      <3>2. QED
        BY <2>2, <3>1, TaskKinds
    <2>3. QED
      BY <1>1, <2>1, <2>2 DEF SaveAssimilated
  <1>2. QED
    BY <1>1 DEF KnowNext, knowVars, Look, Replay, Hash, Check, HashRetained, CheckRetained,
       CommitChange, CommitRefresh, CommitDelete, KnowCrash

(* Initially every entry stands for itself. *)
LEMMA KnowStarts == KnowInit => KnowInv
  <1> SUFFICES ASSUME KnowInit PROVE KnowInv
    OBVIOUS
  <1> USE KnowledgeAssumption, VersionBounds DEF KnowInit, Absent
  <1>1. SharedOK
    BY DEF SharedOK
  <1>2. CallersOK
    BY NoTaskKind DEF CallersOK, Nowhere
  <1>3. VersionsWritten
    BY DEF VersionsWritten, Nowhere
  <1>4. GoneIsEmpty
    BY DEF GoneIsEmpty, Current
  <1>5. NoFactLost
    BY DEF NoFactLost, Current
  <1>6. \A p \in Caller : Verified(p)
    BY NoTaskKind DEF Verified
  <1>7. QED
    BY <1>1, <1>2, <1>3, <1>4, <1>5, <1>6, KnowTypes DEF KnowInv

(* Every step keeps the invariant. *)
LEMMA KnowKept == KnowInv /\ [KnowNext]_knowVars => KnowInv'
  <1> SUFFICES ASSUME KnowInv, [KnowNext]_knowVars PROVE KnowInv'
    OBVIOUS
  <1> USE DEF KnowInv
  <1>1. KnowledgeMoves
    BY EveryWrite
  <1>2. GoneIsEmpty' /\ NoFactLost'
    BY <1>1, EmptyKept, FactsKept
  <1>3. SharedOK'
    BY <1>1, SharedKept, EndedKept
  <1>4. ASSUME NEW q \in Caller, Stays(q)
        PROVE  Verified(q)' /\ \A e \in Entry : got'[q][e] <= version'
    BY <1>1, <1>4, OthersVerified, WrittenStays DEF Stays
  <1>5. ASSUME NEW p \in Caller, OwnStep(p)
        PROVE  Verified(p)' /\ \A e \in Entry : got'[p][e] <= version'
    <2>1. Absent <= version'
      BY <1>3, VersionBounds DEF SharedOK, Absent
    <2>2. QED
      BY <1>1, <1>5, <2>1, WrittenStays DEF OwnStep
  <1>6. CallersOK' /\ \A q \in Caller : Verified(q)' /\ \A e \in Entry : got'[q][e] <= version'
    <2>1. CASE CallersOK' /\ \A p \in Caller : Stays(p)
      BY <1>4, <2>1
    <2>2. ASSUME NEW p \in Caller, OwnStep(p)
          PROVE  CallersOK' /\ \A q \in Caller :
                    Verified(q)' /\ \A e \in Entry : got'[q][e] <= version'
      BY <1>4, <1>5, <2>2 DEF OwnStep, Own
    <2>3. QED
      BY <2>1, <2>2, CallersStep
  <1>7. VersionsWritten'
    BY <1>1, <1>6, WrittenStays DEF VersionsWritten
  <1>8. KnowTypeOK'
    BY <1>3, <1>6 DEF KnowTypeOK, SharedOK, CallersOK
  <1>9. QED
    BY <1>2, <1>6, <1>7, <1>8

(* What a decision that was carried out has added comes back only with another  *)
(* one: a new date is for an entry that is there.                               *)
LEMMA ReturnsWithAChange ==
  ASSUME KnowInv, [KnowNext]_knowVars, NEW e \in Entry,
         entry[e] = Absent, \A d \in Change : e \in Adds[d] => d \in made
  PROVE  entry'[e] = Absent
  <1> USE KnowTypes DEF KnowInv, SharedOK
  <1>1. CASE Nothing
    BY <1>1 DEF Nothing
  <1>2. ASSUME NEW d \in Change, Writes(d) PROVE entry'[e] = Absent
    BY <1>2 DEF Writes, FreshKey
  <1>3. ASSUME NEW p \in Caller, NEW on \in Entry, Dates(p, on) PROVE entry'[e] = Absent
    <2>1. e # on
      BY <1>3, ReadyIsVerified DEF Dates, Current
    <2>2. QED
      BY <1>3, <2>1 DEF Dates
  <1>4. ASSUME NEW p \in Caller, NEW t \in Tasks, t.on \in Entry, Deletes(p, t)
        PROVE  entry'[e] = Absent
    BY <1>4 DEF Deletes
  <1>5. QED
    BY <1>1, <1>2, <1>3, <1>4, EveryWrite DEF KnowledgeMoves

(* Who is no longer ready has taken the step: a commit of its own, if anything  *)
(* has been written.                                                            *)
LEMMA CommitIsVerified ==
  ASSUME KnowInv, [KnowNext]_knowVars, NEW p \in Caller,
         stand[p] = "ready", task[p].kind \in {"retire", "refresh"}, entry' # entry,
         stand'[p] = "idle"
  PROVE  entry[task[p].on] = got[p][task[p].on]
  <1> USE DEF KnowInv
  <1>1. Unchanged(p) => entry[task[p].on] = got[p][task[p].on]
    BY ReadyIsVerified
  <1>2. PICK q \in Caller : CommitChange(q) \/ CommitRefresh(q) \/ CommitDelete(q)
    BY DEF KnowNext, knowVars, Look, Replay, Hash, Check, HashRetained, CheckRetained,
       SaveAssimilated, KnowCrash
  <1>3. OwnStep(q)
    BY <1>2, CommitVerifies
  <1>4. q = p
    BY <1>3 DEF OwnStep, Own, Stays
  <1>5. QED
    BY <1>1, <1>2, <1>4 DEF CommitChange, CommitRefresh, CommitDelete

(* The inductive invariant of the knowledge store. *)
THEOREM KnowledgeInvariant == KnowSpec => []KnowInv
  BY KnowStarts, KnowKept, PTL DEF KnowSpec

(* No fact is lost: a successor is written with its predecessors' retirement,   *)
(* and a deletion for a duplicate asserts the duplicate that it keeps.          *)
THEOREM FactsSurvive == KnowSpec => []NoFactLost
  BY KnowledgeInvariant, PTL DEF KnowInv

(* What was decided before, or about another version, changes nothing.          *)
THEOREM StaleChangesNothing == KnowSpec => NothingStaleApplies
  <1>1. KnowInv /\ [KnowNext]_knowVars =>
          [\A e \in Entry :
              entry[e] = Absent /\ (\A d \in Change : e \in Adds[d] => d \in made)
                  => entry'[e] = Absent]_knowVars
    BY ReturnsWithAChange
  <1>2. KnowInv /\ [KnowNext]_knowVars =>
          [\A p \in Caller :
              stand[p] = "ready" /\ task[p].kind \in {"retire", "refresh"} /\ entry' # entry
                 /\ stand'[p] = "idle" => entry[task[p].on] = got[p][task[p].on]]_knowVars
    BY CommitIsVerified
  <1>3. KnowSpec => NothingReturns
    BY <1>1, KnowledgeInvariant, PTL DEF KnowSpec, NothingReturns
  <1>4. KnowSpec => VerifiedVersionOnly
    BY <1>2, KnowledgeInvariant, PTL DEF KnowSpec, VerifiedVersionOnly
  <1>5. QED
    BY <1>3, <1>4, PTL DEF NothingStaleApplies

=============================================================================
