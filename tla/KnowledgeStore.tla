----------------------------- MODULE KnowledgeStore -----------------------------
(***************************************************************************)
(* Current knowledge (storage/knowledge_store.py) and the transactions     *)
(* that change it (canonical_store.apply_payload_transaction).  Reviews,   *)
(* Dream runs and users call it from different processes.  A call reads    *)
(* entries, reopens their sources, reads digests, and then commits one     *)
(* SQLite transaction that compares the digests again.                     *)
(*                                                                         *)
(* An entry's identifier is derived from its text, so its payload changes  *)
(* only by a new verification date: its version.  Its sources are written  *)
(* and removed in the same transactions and are part of it.                *)
(***************************************************************************)
EXTENDS Naturals, FiniteSets

CONSTANTS
    Entry,      \* identifiers of knowledge entries
    First,      \* the entries there are at the beginning
    Change,     \* decisions of reviews: add, refine, replace
    Retires,    \* the entries each decision replaces
    Adds,       \* and those it writes
    Caller,     \* processes
    MaxVersion  \* bound: versions written

ASSUME KnowledgeAssumption ==
    /\ First \subseteq Entry
    /\ Retires \in [Change -> SUBSET Entry]
    /\ Adds \in [Change -> SUBSET Entry]
    /\ \A d \in Change : Adds[d] # {} /\ Adds[d] \cap Retires[d] = {}
    /\ MaxVersion \in Nat \ {0}

VARIABLES
    entry,      \* the version of each entry, 0 when it is not current
    version,    \* the last version written
    made,       \* decisions with a transaction record
    ended,      \* decisions whose candidate was saved as assimilated
    stand,      \* where each caller is
    task,       \* what it does
    got,        \* versions it has verified
    sha,        \* versions whose digests it has read
    carries,    \* history: the facts of the beginning that an entry stands for
    dropped     \* history: facts that a user has deleted

knowVars == <<entry, version, made, ended, stand, task, got, sha, carries, dropped>>

Absent == 0
Versions == 0 .. MaxVersion
Nowhere == [e \in Entry |-> Absent]
NoTask == [kind |-> "none"]
Current(e) == entry[e] # Absent

Tasks == [kind : {"change"}, by : Change]
         \cup [kind : {"refresh", "delete"}, on : Entry]
         \cup {t \in [kind : {"retire"}, on : Entry, for : Entry] : t.on # t.for}
         \cup {NoTask}

\* The entries a task reads, in their roles.
Subject(t) == IF t.kind = "change" THEN Retires[t.by]
              ELSE IF t.kind = "none" THEN {} ELSE {t.on}
Retained(t) == IF t.kind = "retire" THEN {t.for} ELSE {}

KnowTypeOK ==
    /\ entry \in [Entry -> Versions] /\ version \in Versions
    /\ made \subseteq Change /\ ended \subseteq Change
    /\ stand \in [Caller -> {"idle", "looked", "hashed", "checked", "kept", "ready", "committed"}]
    /\ task \in [Caller -> Tasks]
    /\ got \in [Caller -> [Entry -> Versions]] /\ sha \in [Caller -> [Entry -> Versions]]
    /\ carries \in [Entry -> SUBSET First] /\ dropped \subseteq First

KnowInit ==
    /\ entry = [e \in Entry |-> IF e \in First THEN 1 ELSE Absent]
    /\ version = 1
    /\ made = {} /\ ended = {}
    /\ stand = [p \in Caller |-> "idle"] /\ task = [p \in Caller |-> NoTask]
    /\ got = [p \in Caller |-> Nowhere] /\ sha = [p \in Caller |-> Nowhere]
    /\ carries = [e \in Entry |-> IF e \in First THEN {e} ELSE {}]
    /\ dropped = {}

To(p, s) == stand' = [stand EXCEPT ![p] = s]
Ends(p) ==
    /\ To(p, "idle")
    /\ task' = [task EXCEPT ![p] = NoTask]
    /\ got' = [got EXCEPT ![p] = Nowhere]
    /\ sha' = [sha EXCEPT ![p] = Nowhere]
Holds(f, who) == [e \in Entry |-> IF e \in who THEN entry[e] ELSE f[e]]

-----------------------------------------------------------------------------
\* The entries to be worked on are read: record_assimilation_result,
\* apply_dream_assimilation, delete_current_knowledge.  A Dream maintenance
\* may confirm an entry, or delete it because another one says the same.
Look(p) ==
    /\ stand[p] = "idle"
    /\ \E t \in Tasks \ {NoTask} :
          /\ t.kind = "change" => t.by \notin made
          /\ \A e \in Subject(t) \cup Retained(t) : Current(e)
          /\ task' = [task EXCEPT ![p] = t]
          /\ got' = [got EXCEPT ![p] = Holds(Nowhere, Subject(t) \cup Retained(t))]
    /\ To(p, "looked")
    /\ UNCHANGED <<entry, version, made, ended, sha, carries, dropped>>

\* A retry of a committed change only saves the candidate, when knowledge
\* still is what the change made of it.
Replay(p) ==
    /\ stand[p] = "idle"
    /\ \E d \in made :
          /\ \A e \in Adds[d] : Current(e)
          /\ \A e \in Retires[d] : ~Current(e)
          /\ ended' = ended \cup {d}
    /\ UNCHANGED <<entry, version, made, stand, task, got, sha, carries, dropped>>

\* refresh_entry_verification and delete_current_entry read the digest before
\* they read the entry again, apply_current_change afterwards.
EarlyForNone(t) == FALSE  \* mutant: every caller compares first and then reads digests
Early(t) == t.kind # "change"
Late(t) == ~Early(t)

Hash(p) ==
    /\ stand[p] = IF Early(task[p]) THEN "looked" ELSE "checked"
    /\ IF Late(task[p]) /\ \E e \in Subject(task[p]) : ~Current(e)
       THEN Ends(p)
       ELSE /\ sha' = [sha EXCEPT ![p] = Holds(sha[p], Subject(task[p]))]
            /\ To(p, IF Early(task[p]) THEN "hashed" ELSE "ready")
            /\ UNCHANGED <<task, got>>
    /\ UNCHANGED <<entry, version, made, ended, carries, dropped>>

\* The entries must be those that were verified.  A user's deletion verifies
\* nothing, it takes the entry as it is now.
Check(p) ==
    /\ stand[p] = IF Early(task[p]) THEN "hashed" ELSE "looked"
    /\ LET t == task[p] IN
       IF \A e \in Subject(t) : IF t.kind = "delete" THEN Current(e) ELSE entry[e] = got[p][e]
       THEN /\ To(p, IF Late(t) \/ t.kind = "retire" THEN "checked" ELSE "ready")
            /\ UNCHANGED <<task, got, sha>>
       ELSE Ends(p)
    /\ UNCHANGED <<entry, version, made, ended, carries, dropped>>

\* The same for an entry that must be retained: first its digest ...
HashRetained(p) ==
    /\ stand[p] = "checked" /\ task[p].kind = "retire"
    /\ sha' = [sha EXCEPT ![p] = Holds(sha[p], Retained(task[p]))]
    /\ To(p, "kept")
    /\ UNCHANGED <<entry, version, made, ended, task, got, carries, dropped>>

\* ... then its payload.
CheckRetained(p) ==
    /\ stand[p] = "kept"
    /\ IF \A e \in Retained(task[p]) : entry[e] = got[p][e]
       THEN To(p, "ready") /\ UNCHANGED <<task, got, sha>>
       ELSE Ends(p)
    /\ UNCHANGED <<entry, version, made, ended, carries, dropped>>

-----------------------------------------------------------------------------
\* apply_payload_transaction: a transaction record under the decision's key
\* ends a second attempt; every digest is compared under the write lock; then
\* all mutations and the record are written.
AssertedSubject(t) == Subject(t)  \* mutant: the assert operation is not compared
Asserted(t) == Subject(t) \cup Retained(t)
Unchanged(p) == \A e \in Asserted(task[p]) : entry[e] = sha[p][e]

AnyKey(d) == TRUE  \* mutant: no transaction record
FreshKey(d) == d \notin made

CommitChange(p) ==
    /\ stand[p] = "ready" /\ task[p].kind = "change"
    /\ LET d == task[p].by IN
       IF FreshKey(d) /\ Unchanged(p) /\ (\A e \in Adds[d] : ~Current(e))
       THEN /\ version < MaxVersion
            /\ version' = version + 1
            /\ entry' = [e \in Entry |-> IF e \in Adds[d] THEN version'
                                         ELSE IF e \in Retires[d] THEN Absent ELSE entry[e]]
            /\ carries' = [e \in Entry |-> IF e \in Adds[d]
                                           THEN UNION {carries[r] : r \in Retires[d]}
                                           ELSE IF e \in Retires[d] THEN {} ELSE carries[e]]
            /\ made' = made \cup {d}
            /\ To(p, "committed")
            /\ UNCHANGED <<task, got, sha>>
       ELSE Ends(p) /\ UNCHANGED <<entry, version, carries, made>>
    /\ UNCHANGED <<ended, dropped>>

CommitRefresh(p) ==
    /\ stand[p] = "ready" /\ task[p].kind = "refresh"
    /\ IF Unchanged(p)
       THEN /\ version < MaxVersion
            /\ version' = version + 1
            /\ entry' = [entry EXCEPT ![task[p].on] = version']
       ELSE UNCHANGED <<entry, version>>
    /\ Ends(p)
    /\ UNCHANGED <<made, ended, carries, dropped>>

CommitDelete(p) ==
    /\ stand[p] = "ready" /\ task[p].kind \in {"delete", "retire"}
    /\ LET t == task[p] IN
       IF Unchanged(p)
       THEN /\ entry' = [entry EXCEPT ![t.on] = Absent]
            /\ carries' = [e \in Entry |-> IF e = t.on THEN {}
                                           ELSE IF e \in Retained(t) THEN carries[e] \cup carries[t.on]
                                           ELSE carries[e]]
            /\ dropped' = IF t.kind = "delete" THEN dropped \cup carries[t.on] ELSE dropped
       ELSE UNCHANGED <<entry, carries, dropped>>
    /\ Ends(p)
    /\ UNCHANGED <<version, made, ended>>

\* The change must be readable by the ordinary search; then the candidate is
\* saved.
SaveAssimilated(p) ==
    /\ stand[p] = "committed"
    /\ ended' = IF (\A e \in Adds[task[p].by] : Current(e)) /\ (\A e \in Retires[task[p].by] : ~Current(e))
                THEN ended \cup {task[p].by} ELSE ended
    /\ Ends(p)
    /\ UNCHANGED <<entry, version, made, carries, dropped>>

KnowCrash(p) ==
    /\ stand[p] # "idle"
    /\ Ends(p)
    /\ UNCHANGED <<entry, version, made, ended, carries, dropped>>

KnowNext ==
    \E p \in Caller :
        \/ Look(p) \/ Replay(p) \/ Hash(p) \/ Check(p) \/ HashRetained(p) \/ CheckRetained(p)
        \/ CommitChange(p) \/ CommitRefresh(p) \/ CommitDelete(p) \/ SaveAssimilated(p)
        \/ KnowCrash(p)

KnowSpec == KnowInit /\ [][KnowNext]_knowVars

-----------------------------------------------------------------------------
\* No fact is lost, however changes, refreshes, Dream's deletions of duplicates
\* and users' deletions race: unless a user deleted it, some current entry
\* stands for it (predecessors retired with their successors' transaction, the
\* retained duplicate asserted in the deletion's).
NoFactLost ==
    \A f \in First \ dropped : \E e \in Entry : Current(e) /\ f \in carries[e]

\* Knowledge that is gone does not come back by a change that was made before:
\* a retry, or a second process with the same decision, applies nothing twice.
NothingReturns ==
    [][\A e \in Entry :
          entry[e] = Absent /\ (\A d \in Change : e \in Adds[d] => d \in made)
              => entry'[e] = Absent]_knowVars

\* Dream deletes and refreshes the version it has verified, nothing newer.
VerifiedVersionOnly ==
    [][\A p \in Caller :
          stand[p] = "ready" /\ task[p].kind \in {"retire", "refresh"} /\ entry' # entry /\ stand'[p] = "idle"
              => entry[task[p].on] = got[p][task[p].on]]_knowVars

\* What was decided before, or about another version, changes nothing.
NothingStaleApplies == NothingReturns /\ VerifiedVersionOnly
=============================================================================
