-------------------------------- MODULE Dream --------------------------------
(* Dream rechecks the current knowledge against its sources and confirms,       *)
(* deletes or trims entries.  A pass over the signals it finds is a run, worked *)
(* off in slices by ticks that race each other: a slice that passes its         *)
(* deadline leaves a run to be continued, with the answers of the model kept    *)
(* for entries and sources that have not changed.                               *)
EXTENDS Naturals, FiniteSets

CONSTANTS
    Tick,        \* processes that may run a slice
    ByHook,      \* those that a session's end forces, whatever the schedule says
    Fact,        \* ids of knowledge entries, in their order
    Text,        \* what an entry may say
    Trimmed,     \* what is left of an entry that is trimmed
    FirstText,   \* the entry of each id, or Unused
    Checked,     \* entries covered by an earlier scope check
    Answer,      \* what the model may say of an entry: supported and durable, or
                 \* only for the time; contradicted; durable in complete parts of
                 \* it ("mixed"); or unclear
    Unused, Gone,
    BatchLimit,  \* entries in one verification (4 in the code)
    MaxPasses,   \* bound on the runs of the ledger
    MaxEvents    \* bound on edits, source changes, mishaps and upgrades together

ASSUME DreamAssumption ==
    /\ ByHook \subseteq Tick /\ Fact \subseteq Nat /\ Checked \subseteq Fact /\ Trimmed \in Text
    /\ FirstText \in [Fact -> Text \cup {Unused}] /\ Unused # Gone
    /\ Unused \notin Text /\ Gone \notin Text
    /\ Answer \subseteq {"durable", "temporary", "contradicted", "mixed", "unclear"}
    /\ BatchLimit \in Nat \ {0} /\ MaxPasses \in Nat \ {0} /\ MaxEvents \in Nat

Pass == 1..MaxPasses
Proof == [text : Text, source : {"old", "new"}, contract : {1, 2}, says : Answer]
NoProof == [text |-> Unused, source |-> "none", contract |-> 0, says |-> "none"]
Signal == [kind : {"duplicate", "conflict", "stale"}, of : (SUBSET Fact) \ {{}}]

VARIABLES
    memory,      \* the text of each entry
    origin,      \* what its source is: a version, or "missing"
    ledger,      \* the runs, by the order they started in
    tick,        \* where each tick is, its job, and its copy of the run
    contract,    \* version of the verification contract of the installed code
    active,      \* has the project seen activity since its last run started
    events,      \* counts edits, changes, mishaps and upgrades
    vouched,     \* history: what the model answered
    edited,      \* history: entries that a user changed since a run started
    slipped      \* history: entries whose source changed between the last look at
                 \* it and the write

dreamVars == <<memory, origin, ledger, tick, contract, active, events, vouched, edited, slipped>>

NoRun == [status |-> "none", by |-> "nobody", signals |-> {}, done |-> {},
          open |-> {}, proofs |-> [f \in Fact |-> NoProof], applied |-> {},
          covered |-> {}, held |-> [f \in Fact |-> Unused], slices |-> 0, contract |-> 0]
NoTick == [at |-> "idle", age |-> "none", id |-> 0, run |-> NoRun,
           snap |-> [f \in Fact |-> Unused], read |-> [f \in Fact |-> "none"],
           says |-> [f \in Fact |-> "none"], signal |-> {}, rest |-> {}, todo |-> {},
           now |-> {}, asking |-> {}, asked |-> "no"]

DreamTypeOK ==
    /\ memory \in [Fact -> Text \cup {Unused, Gone}]
    /\ origin \in [Fact -> {"old", "new", "missing"}]
    /\ \A p \in Pass : /\ ledger[p].status \in {"none", "processing", "continuing",
                                               "completed", "failed"}
                       /\ ledger[p].done \subseteq ledger[p].signals
                       /\ ledger[p].signals \subseteq Signal
                       /\ ledger[p].proofs \in [Fact -> Proof \cup {NoProof}]
                       /\ ledger[p].held \in [Fact -> Text \cup {Unused}]
    /\ \A t \in Tick : /\ tick[t].age \in {"none", "fresh", "late"}
                       /\ tick[t].id \in Pass \cup {0}
    /\ contract \in {1, 2} /\ active \in {"yes", "no"} /\ events \in 0..MaxEvents
    /\ vouched \subseteq [fact : Fact, proof : Proof]
    /\ edited \in [Pass -> SUBSET Fact] /\ slipped \subseteq Fact

DreamInit ==
    /\ memory = FirstText
    /\ origin = [f \in Fact |-> "old"]
    /\ ledger = [p \in Pass |-> NoRun]
    /\ tick = [t \in Tick |-> NoTick]
    /\ contract = 1 /\ active = "yes" /\ events = 0
    /\ vouched = {} /\ edited = [p \in Pass |-> {}] /\ slipped = {}
------------------------------------------------------------------------------
(* The ledger, and what there is to recheck.                                    *)
Current == {f \in Fact : memory[f] \in Text}
Started == {p \in Pass : ledger[p].status # "none"}
Latest == IF Started = {} THEN 0 ELSE CHOOSE p \in Started : \A q \in Started : q <= p
Continues == Latest # 0 /\ ledger[Latest].status = "continuing"

Covered == Checked \cup {f \in Fact : \E p \in Started : <<f, memory[f]>> \in ledger[p].covered}
Targets(S) == UNION {s.of : s \in S}

(* Entries that say the same; entries of one title that differ, all of them     *)
(* here; and every entry without a scope check.  A group with a member whose    *)
(* missing source is under review is left out (of the reviews, those that have  *)
(* fallen due after thirty days are not modelled).                              *)
Reviews == IF Latest = 0 THEN [f \in Fact |-> Unused] ELSE ledger[Latest].held

Detected ==
    LET alike(x) == {f \in Current : memory[f] = x}
        groups == {[kind |-> "duplicate", of |-> alike(x)] :
                       x \in {y \in Text : Cardinality(alike(y)) > 1}}
        rivals == IF Cardinality({memory[f] : f \in Current}) > 1
                  THEN {[kind |-> "conflict", of |-> Current]} ELSE {}
        stale == {[kind |-> "stale", of |-> {f}] : f \in Current \ Covered}
    IN  {s \in groups \cup rivals \cup stale : \A f \in s.of : Reviews[f] # memory[f]}

ReviewDue == \E f \in Current : Reviews[f] \notin {Unused, memory[f]}
Eligible == Continues \/ ReviewDue \/ active = "yes"

(* Groups come before single entries.                                           *)
Rank(s) == IF s.kind = "duplicate" THEN 1 ELSE IF s.kind = "conflict" THEN 2 ELSE 3
Left(r) == r.signals \ r.done
FirstLeft(r) == {s \in Left(r) : \A u \in Left(r) : Rank(s) <= Rank(u)}

(* Under a new contract, groups that were left without a result are reopened,   *)
(* unless a member was changed.                                                 *)
Reopened(r) ==
    IF r.contract = contract THEN r.done
    ELSE {s \in r.done : s.of \cap r.open = {} \/ s.of \cap r.applied # {}}
------------------------------------------------------------------------------
Store(p, r) == ledger' = [ledger EXCEPT ![p] = r]
Knowledge == <<memory, origin, contract, active, events, vouched, edited, slipped>>
Writing(t) == tick[t].at = "writing"
AtPoint(t) == tick[t].at \in {"signal", "batch"}
Late(t) == tick[t].age = "late"

(* A tick looks at the schedule, claims the job, and looks at it again.         *)
Decide(t) ==
    /\ tick[t].at = "idle" /\ (t \in ByHook \/ Eligible)
    /\ tick' = [tick EXCEPT ![t] = [NoTick EXCEPT !.at = "eligible"]]
    /\ UNCHANGED <<ledger, Knowledge>>

ClaimTick(t) ==
    /\ tick[t].at = "eligible"
    /\ tick' = [tick EXCEPT ![t] =
          IF \E u \in Tick : tick[u].age = "fresh" THEN NoTick
          ELSE [@ EXCEPT !.at = "claimed", !.age = "fresh"]]
    /\ UNCHANGED <<ledger, Knowledge>>

StandDown(t) ==
    /\ tick[t].at = "claimed" /\ t \notin ByHook /\ ~Eligible
    /\ tick' = [tick EXCEPT ![t] = NoTick]
    /\ UNCHANGED <<ledger, Knowledge>>

(* The slice continues the latest run, or starts one.  Its stub keeps what the  *)
(* run has; the entries are read for the whole slice.                           *)
Opens(t, p, r, stub) ==
    LET reviews == [f \in Fact |-> IF Reviews[f] = memory[f] THEN memory[f] ELSE Unused]
        now(run) == [run EXCEPT !.status = "processing", !.by = t, !.held = reviews]
    IN
    /\ Store(p, now(stub))
    /\ tick' = [tick EXCEPT ![t] = [@ EXCEPT
          !.at = "signal", !.id = p, !.run = now(r),
          !.snap = [f \in Fact |-> IF f \in Targets(r.signals) THEN memory[f] ELSE Unused]]]

ContinueRun(t) ==
    /\ tick[t].at = "claimed" /\ (t \in ByHook \/ Eligible) /\ Continues
    /\ LET r == ledger[Latest]
           next == [r EXCEPT !.slices = @ + 1, !.done = Reopened(r), !.contract = contract]
       IN  IF next.slices > Cardinality(Targets(r.signals)) + 1
           THEN /\ Store(Latest, [next EXCEPT !.status = "failed", !.by = t])
                /\ tick' = [tick EXCEPT ![t].at = "closing", ![t].id = Latest,
                              ![t].run = [next EXCEPT !.status = "failed", !.by = t]]
           ELSE Opens(t, Latest, next, r)
    /\ UNCHANGED Knowledge

StartRun(t) ==
    /\ tick[t].at = "claimed" /\ (t \in ByHook \/ Eligible) /\ ~Continues
    /\ Latest < MaxPasses
    /\ Opens(t, Latest + 1, [NoRun EXCEPT !.signals = Detected, !.slices = 1,
                                          !.contract = contract], NoRun)
    /\ active' = "no"
    /\ UNCHANGED <<memory, origin, contract, events, vouched, edited, slipped>>

(* At each of its checkpoints a slice past its deadline leaves the rest.        *)
LeavesRest(t, r) ==
    /\ Store(tick[t].id, [r EXCEPT !.status = "continuing"])
    /\ tick' = [tick EXCEPT ![t].at = "closing", ![t].run = [r EXCEPT !.status = "continuing"]]
    /\ UNCHANGED Knowledge
Yield(t) == AtPoint(t) /\ tick[t].run.signals # {} /\ Late(t) /\ LeavesRest(t, tick[t].run)
------------------------------------------------------------------------------
(* The next signal, with the batch of signals it opens: up to four entries, or  *)
(* one larger group in chunks of four.                                          *)
Readable(t, f) == tick[t].read[f] \in {"old", "new"}
Batches(r, s) ==
    {X \in {Targets(S \cup {s}) : S \in SUBSET r.signals} :
        X = s.of \/ Cardinality(X) <= BatchLimit}

NextSignal(t) ==
    /\ tick[t].at = "signal" /\ ~Late(t)
    /\ \E s \in FirstLeft(tick[t].run) : \E X \in Batches(tick[t].run, s) :
          tick' = [tick EXCEPT ![t] = [@ EXCEPT !.at = "batch", !.signal = {s}, !.rest = X]]
    /\ UNCHANGED <<ledger, Knowledge>>

(* The sources of a chunk are opened; answers given before for this text,       *)
(* source and contract are taken up again, and the model is asked for the rest, *)
(* once in a slice.                                                             *)
Chunk(k) == {f \in k.rest : Cardinality({g \in k.rest : g < f}) < BatchLimit}

(* Mutant of Bound: an answer is kept for its text, whatever the source says.   *)
BoundToText(r, f, text, source) ==
    r.proofs[f] # NoProof /\ r.proofs[f].text = text /\ r.proofs[f].contract = r.contract

Bound(r, f, text, source) ==
    /\ r.proofs[f] # NoProof /\ r.proofs[f].text = text
    /\ r.proofs[f].source = source /\ r.proofs[f].contract = r.contract

Prepare(t) ==
    LET k == tick[t]
        X == Chunk(k)
        read == [f \in Fact |-> IF f \in X /\ k.snap[f] \in Text /\ k.read[f] = "none"
                                THEN origin[f] ELSE k.read[f]]
        open == {f \in X : read[f] \in {"old", "new"} /\ k.says[f] = "none"}
        reuse == {f \in open : Bound(k.run, f, k.snap[f], read[f])}
        ask == open \ reuse
        run == [k.run EXCEPT !.proofs =
                  [f \in Fact |-> IF f \in ask THEN NoProof ELSE @[f]]]
    IN  /\ k.at = "batch" /\ k.rest # {} /\ ~Late(t)
        /\ IF ask # {} /\ k.asked = "yes" THEN LeavesRest(t, run)
           ELSE /\ Store(k.id, run)
                /\ tick' = [tick EXCEPT ![t] = [k EXCEPT
                      !.at = IF ask = {} THEN "batch" ELSE "asking",
                      !.asked = IF ask = {} THEN @ ELSE "yes",
                      !.run = run, !.read = read, !.asking = ask, !.rest = @ \ X,
                      !.says = [f \in Fact |-> IF f \in reuse THEN run.proofs[f].says ELSE @[f]]]]
                /\ UNCHANGED Knowledge

(* The model answers for every entry it was asked about, or the call fails.     *)
(* Only a complete partition of the text is kept as proof, and an entry without *)
(* a supported, decided scope counts as open until something is done about it.  *)
Kept(k, says) ==
    [k.run EXCEPT
        !.proofs = [f \in Fact |->
            IF f \notin k.asking THEN @[f] ELSE IF says[f] = "unclear" THEN NoProof
            ELSE [text |-> k.snap[f], source |-> k.read[f],
                  contract |-> k.run.contract, says |-> says[f]]],
        !.open = @ \cup {f \in k.asking : says[f] \notin {"durable", "temporary"}}]

ModelAnswers(t) ==
    /\ tick[t].at = "asking"
    /\ \E says \in [tick[t].asking -> Answer] :
         LET k == tick[t]
             run == Kept(k, says)
         IN  /\ tick' = [tick EXCEPT ![t] = [k EXCEPT !.at = "batch", !.run = run,
                   !.says = [f \in Fact |-> IF f \in k.asking THEN says[f] ELSE @[f]],
                   !.asking = {}]]
             /\ Store(k.id, run)
             /\ vouched' = vouched \cup
                  {[fact |-> f, proof |-> [text |-> k.snap[f], source |-> k.read[f],
                                           contract |-> k.run.contract, says |-> says[f]]] :
                      f \in k.asking}
    /\ UNCHANGED <<memory, origin, contract, active, events, edited, slipped>>
------------------------------------------------------------------------------
(* The group of a signal.                                                       *)
Verified(t) == tick[t].at = "batch" /\ tick[t].rest = {} /\ ~Late(t)
Group(t) == UNION {s.of : s \in tick[t].signal}
Kind(t) == (CHOOSE s \in tick[t].signal : TRUE).kind
GroupEnds(k, run) == [k EXCEPT !.at = "signal", !.signal = {}, !.todo = {}, !.now = {},
                          !.run = [run EXCEPT !.done = @ \cup k.signal]]

(* Members that are no longer current: nothing is left to do, or a group of     *)
(* several is not applied in part.  The loop goes on without a checkpoint.      *)
GroupChanged(t) ==
    /\ Verified(t)
    /\ LET k == tick[t]
           there == Group(t) \cap Current
       IN  /\ Group(t) # there
           /\ there = {} \/ Kind(t) # "stale"
           /\ tick' = [tick EXCEPT ![t] =
                 [GroupEnds(k, [k.run EXCEPT !.open = @ \cup there]) EXCEPT !.at = "next"]]
    /\ UNCHANGED <<ledger, Knowledge>>

GoesOn(t) ==
    /\ tick[t].at = "next" /\ Left(tick[t].run) # {}
    /\ tick' = [tick EXCEPT ![t].at = "signal"]
    /\ UNCHANGED <<ledger, Knowledge>>

EnterGroup(t) ==
    /\ Verified(t) /\ Group(t) \subseteq Current
    /\ tick' = [tick EXCEPT ![t].at = "applying", ![t].todo = Group(t)]
    /\ UNCHANGED <<ledger, Knowledge>>

(* Among entries that say the same and are all supported, the first one stays.  *)
Keeper(k, f, group) ==
    LET equals == {g \in group : k.snap[g] = k.snap[f] /\ k.says[g] = "durable"}
    IN  CHOOSE g \in equals : \A h \in equals : g <= h

(* What is to become of an entry follows from the answers alone.  A partition   *)
(* is trimmed to its complete durable claims, taken literally, or all of it is  *)
(* disposable; the rules for partitions are part of what an answer stands for.  *)
Trims(k, f) == k.says[f] = "mixed"
Disposable(k, f) == k.says[f] = "temporary"

PlanFor(t, f) ==
    LET k == tick[t]
    IN  IF k.says[f] = "unclear" THEN "leave"
        ELSE IF Trims(k, f) THEN "trim"
        ELSE IF Disposable(k, f) \/ k.says[f] = "contradicted" THEN "delete"
        ELSE IF Kind(t) = "duplicate" /\ Keeper(k, f, Group(t)) # f THEN "merge"
        ELSE "confirm"

(* The entry, its source, and the entry that stays in its place must be what    *)
(* was verified.  The sources are opened once more, and awaited; the            *)
(* transaction that follows compares the entries again, and no source.          *)
Stands(k, f) == memory[f] = k.snap[f]
Unchanged(k, f) == Stands(k, f) /\ origin[f] = k.read[f]

Validated(t, f) ==
    LET k == tick[t]
        p == PlanFor(t, f)
    IN  /\ Readable(t, f) /\ p # "leave" /\ Unchanged(k, f)
        /\ p = "merge" => Unchanged(k, Keeper(k, f, Group(t)))

ValidateSources(t, f) ==
    /\ tick[t].at = "applying" /\ f \in tick[t].todo
    /\ Validated(t, f)
    /\ tick' = [tick EXCEPT ![t] = [@ EXCEPT !.at = "writing", !.now = {f}]]
    /\ UNCHANGED <<ledger, Knowledge>>

Outcome(t, f) ==
    LET k == tick[t]
        p == PlanFor(t, f)
    IN  IF ~Readable(t, f)
        THEN IF k.read[f] = "missing" /\ memory[f] = k.snap[f] THEN "reviewed" ELSE "skipped"
        ELSE IF p = "leave" THEN "rejected"
        ELSE IF ~Writing(t) \/ ~Stands(k, f) \/ (p = "merge" /\ ~Stands(k, Keeper(k, f, Group(t))))
        THEN "skipped"
        ELSE IF p \in {"merge", "delete"} THEN "deleted"
        ELSE IF p = "trim" THEN "trimmed" ELSE "refreshed"

(* Mutant of Recorded: an entry that was skipped no longer counts as open.      *)
SettledBySkip(run, f, did) ==
    [run EXCEPT !.open = @ \ {f},
                !.applied = IF did \in {"deleted", "trimmed", "refreshed"} THEN @ \cup {f} ELSE @,
                !.held[f] = IF did = "reviewed" THEN memory[f] ELSE @]

(* An entry whose source is missing stays, for a person to look at.             *)
UnderReview(run, f, did) ==
    IF did = "reviewed" THEN memory[f]
    ELSE IF did \in {"skipped", "rejected"} THEN run.held[f] ELSE Unused

Recorded(run, f, did) ==
    [run EXCEPT !.open = IF did \in {"skipped", "rejected"} THEN @ \cup {f} ELSE @ \ {f},
                !.applied = IF did \in {"deleted", "trimmed", "refreshed"} THEN @ \cup {f} ELSE @,
                !.covered = IF did = "refreshed" THEN @ \cup {<<f, memory[f]>>} ELSE @,
                !.held[f] = UnderReview(run, f, did)]

ApplyOne(t, f) ==
    /\ f \in tick[t].todo
    /\ \/ tick[t].at = "applying" /\ ~Validated(t, f)
       \/ Writing(t) /\ f \in tick[t].now
    /\ LET k == tick[t]
           did == Outcome(t, f)
           run == Recorded(k.run, f, did)
           last == k.todo = {f}
           next(r) == IF last THEN GroupEnds(k, r)
                      ELSE [k EXCEPT !.at = "applying", !.run = r, !.todo = @ \ {f}, !.now = {}]
       IN  /\ \/ did \notin {"deleted", "trimmed"} /\ UNCHANGED memory
                 /\ tick' = [tick EXCEPT ![t] = next(run)]
              \/ did = "deleted" /\ memory' = [memory EXCEPT ![f] = Gone]
                 /\ tick' = [tick EXCEPT ![t] = next(run)]
              \/ did = "trimmed"
                 /\ \E g \in Fact :
                       /\ memory[g] = Unused /\ \A h \in Fact : memory[h] = Unused => g <= h
                       /\ memory' = [memory EXCEPT ![f] = Gone, ![g] = Trimmed]
                       /\ tick' = [tick EXCEPT ![t] =
                             next([run EXCEPT !.covered = @ \cup {<<g, Trimmed>>}])]
           /\ IF last THEN Store(k.id, tick'[t].run) ELSE UNCHANGED ledger
    /\ UNCHANGED <<origin, contract, active, events, vouched, edited, slipped>>

(* No signal is left.  Afterwards the provider is closed, and the slice saves   *)
(* its copy of the run once more with a note of that; the tick of a hook saves  *)
(* it a third time, and closes its job.                                         *)
Finish(t) ==
    /\ \/ tick[t].at = "signal" /\ (~Late(t) \/ tick[t].run.signals = {})
       \/ tick[t].at = "next"
    /\ Left(tick[t].run) = {}
    /\ LET run == [tick[t].run EXCEPT !.status = IF tick[t].run.open # {}
                                                 THEN "failed" ELSE "completed"]
       IN  /\ Store(tick[t].id, run)
           /\ tick' = [tick EXCEPT ![t].at = "closing", ![t].run = run]
    /\ UNCHANGED Knowledge

CloseProvider(t) ==
    /\ tick[t].at = "closing"
    /\ Store(tick[t].id, tick[t].run)
    /\ tick' = [tick EXCEPT ![t] = IF t \in ByHook THEN [@ EXCEPT !.at = "noting"] ELSE NoTick]
    /\ UNCHANGED Knowledge

NoteSession(t) ==
    /\ tick[t].at = "noting"
    /\ Store(tick[t].id, tick[t].run)
    /\ tick' = [tick EXCEPT ![t] = NoTick]
    /\ UNCHANGED Knowledge

(* The model's call fails, or the watchdog ends a slice that is overdue: what   *)
(* has been stored stays, under a failed run.                                   *)
EndsFailed(t) ==
    /\ ledger' = IF ledger[tick[t].id].status = "processing" /\ ledger[tick[t].id].by = t
                 THEN [ledger EXCEPT ![tick[t].id].status = "failed"] ELSE ledger
    /\ tick' = [tick EXCEPT ![t] = NoTick]
    /\ UNCHANGED <<memory, origin, contract, active, vouched, edited, slipped>>
CallFails(t) ==
    /\ events < MaxEvents /\ events' = events + 1
    /\ tick[t].at = "asking" /\ EndsFailed(t)
Overdue(t) ==
    /\ Late(t) /\ tick[t].at \in {"signal", "batch", "asking", "applying", "writing"}
    /\ EndsFailed(t) /\ UNCHANGED events

DreamCrash(t) ==
    /\ events < MaxEvents /\ events' = events + 1
    /\ tick[t].at \notin {"idle", "eligible", "dead"}
    /\ tick' = [tick EXCEPT ![t] = [NoTick EXCEPT !.at = "dead", !.age = tick[t].age]]
    /\ UNCHANGED <<memory, origin, ledger, contract, active, vouched, edited, slipped>>
------------------------------------------------------------------------------
(* A job that was claimed max_runtime ago counts as abandoned, about when the   *)
(* deadline of its slice passes; its lease is not renewed.                      *)
TimePasses(t) ==
    /\ events < MaxEvents /\ events' = events + 1
    /\ tick[t].age = "fresh"
    /\ tick' = [tick EXCEPT ![t].age = "late"]
    /\ UNCHANGED <<memory, origin, ledger, contract, active, vouched, edited, slipped>>

(* Everybody else: edits, deletions, changes of a source, a new version of the  *)
(* code while no slice runs.                                                    *)
UserChanges(f, x) ==
    /\ events < MaxEvents /\ events' = events + 1
    /\ f \in Current /\ x \in (Text \cup {Gone}) \ {memory[f]}
    /\ memory' = [memory EXCEPT ![f] = x]
    /\ active' = "yes"
    /\ edited' = [p \in Pass |-> IF p \in Started THEN edited[p] \cup {f} ELSE edited[p]]
    /\ UNCHANGED <<origin, ledger, tick, contract, vouched, slipped>>
SourceChanges(f, x) ==
    /\ events < MaxEvents /\ events' = events + 1
    /\ f \in Current /\ x \in {"new", "missing"} \ {origin[f]}
    /\ origin' = [origin EXCEPT ![f] = x]
    /\ slipped' = IF \E t \in Tick : Writing(t) /\ f \in tick[t].now
                  THEN slipped \cup {f} ELSE slipped
    /\ UNCHANGED <<memory, ledger, tick, contract, active, vouched, edited>>
Upgrade ==
    /\ events < MaxEvents /\ events' = events + 1
    /\ contract = 1 /\ contract' = 2
    /\ \A t \in Tick : tick[t].at \in {"idle", "dead"}
    /\ UNCHANGED <<memory, origin, ledger, tick, active, vouched, edited, slipped>>

DreamNext ==
    \/ \E t \in Tick :
          \/ Decide(t) \/ ClaimTick(t) \/ StandDown(t) \/ ContinueRun(t) \/ StartRun(t)
          \/ Yield(t) \/ NextSignal(t) \/ Prepare(t) \/ ModelAnswers(t) \/ GroupChanged(t) \/ GoesOn(t)
          \/ EnterGroup(t) \/ (\E f \in Fact : ValidateSources(t, f) \/ ApplyOne(t, f)) \/ Finish(t)
          \/ CloseProvider(t) \/ NoteSession(t) \/ CallFails(t) \/ Overdue(t)
          \/ DreamCrash(t) \/ TimePasses(t)
    \/ \E f \in Fact : \/ \E x \in Text \cup {Gone} : UserChanges(f, x)
                       \/ \E x \in {"new", "missing"} : SourceChanges(f, x)
    \/ Upgrade

DreamSpec == DreamInit /\ [][DreamNext]_dreamVars
------------------------------------------------------------------------------
(* What Dream does to an entry rests on an answer of the model about this very  *)
(* text and source, in this slice or in one that it continues: it deletes what  *)
(* was contradicted or only for the time, what is repeated by a supported entry *)
(* that stays, and what was trimmed.  The one exception is a source that        *)
(* changes after it has been opened for the last time: the transaction that     *)
(* follows compares the text of the entries only.                               *)
ChangesAreVerified ==
    [][\A f \in Fact : memory[f] \in Text /\ memory'[f] # memory[f] /\ events' = events =>
          \E v \in vouched :
             /\ v.fact = f /\ v.proof.text = memory[f]
             /\ v.proof.source = origin[f] \/ f \in slipped
             /\ \/ v.proof.says \in {"contradicted", "temporary"}
                \/ v.proof.says = "mixed" /\ \E g \in Fact : memory'[g] = Trimmed
                \/ v.proof.says = "durable"
                   /\ \E g \in Fact \ {f} : memory'[g] = memory[f]]_dreamVars

(* A completed run has dealt with every entry it set out to recheck: it was     *)
(* changed or confirmed, is gone, or stays under review for a missing source;   *)
(* or a user has changed it since the run started, which ends such a review and *)
(* makes the project active again.                                              *)
DealtWith(p, f) ==
    f \in ledger[p].applied \/ memory[f] = Gone \/ ledger[p].held[f] # Unused \/ f \in edited[p]
CompletedIsDone ==
    \A p \in Started : ledger[p].status = "completed" =>
        \A f \in Targets(ledger[p].signals) : DealtWith(p, f)

(* The claim of a job lets only one tick at a time run Dream                    *)
(* (storage/reflection_job_store.py:88).                                        *)
Working(t) == tick[t].at \in {"signal", "batch", "asking", "applying", "writing"}
OneSlice == \A t, u \in Tick : Working(t) /\ Working(u) => t = u
==============================================================================
