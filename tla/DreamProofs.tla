----------------------------- MODULE DreamProofs -----------------------------
(* What Dream leaves behind, for any number of ticks, entries and runs: every   *)
(* copy of a run, stored or carried by a slice, says what is so of the entries, *)
(* and answers are kept only for what the model was shown.                      *)
EXTENDS Dream, FiniteSetTheorems, WellFoundedInduction, TLAPS

(* There is a first among numbers, and a last among bounded ones. *)
LEMMA FirstThere ==
  ASSUME NEW S, S \subseteq Nat, S # {}
  PROVE  \E x \in S : \A y \in S : x <= y
  <1> DEFINE R == {ss \in Nat \X Nat : ss[1] < ss[2]}
  <1>1. IsWellFoundedOn(R, Nat)
    BY NatLessThanWellFounded DEF OpToRel
  <1>2. PICK x \in S : \A y \in S : ~ (<<y, x>> \in R)
    BY ONLY <1>1, WFMin, S \subseteq Nat, S # {}
  <1>3. ASSUME NEW y \in S PROVE x <= y
    <2>1. x \in Nat /\ y \in Nat
      OBVIOUS
    <2>2. ~ (<<y, x>>[1] < <<y, x>>[2])
      BY <1>2, <2>1
    <2>3. QED
      BY <2>1, <2>2
  <1>4. QED
    BY <1>3

\* The last one counts from the bound downwards.
LEMMA LastThere ==
  ASSUME NEW N \in Nat, NEW S, S \subseteq 1 .. N, S # {}
  PROVE  \E x \in S : \A y \in S : y <= x
  <1> DEFINE T == {N - x : x \in S}
  <1>1. \A x \in S : x \in Nat /\ N - x \in Nat
    OBVIOUS
  <1>1a. T \subseteq Nat /\ T # {}
    BY <1>1
  <1>2. PICK a \in T : \A b \in T : a <= b
    BY <1>1a, FirstThere
  <1>3. PICK x \in S : a = N - x
    OBVIOUS
  <1>4. ASSUME NEW y \in S PROVE y <= x
    <2>1. N - x <= N - y
      BY <1>2, <1>3
    <2>2. QED
      BY <2>1, <1>1
  <1>5. QED
    BY <1>4
-----------------------------------------------------------------------------
(* The values that runs and ticks take.                                         *)
Texts == Text \cup {Unused, Gone}
Runs == [status : {"none", "processing", "continuing", "completed", "failed"},
         by : Tick \cup {"nobody"}, signals : SUBSET Signal, done : SUBSET Signal,
         open : SUBSET Fact, proofs : [Fact -> Proof \cup {NoProof}], applied : SUBSET Fact,
         covered : SUBSET (Fact \X Texts), held : [Fact -> Text \cup {Unused}],
         slices : Nat, contract : {0, 1, 2}]
AtEntry == {"applying", "writing"}
AtWork == {"signal", "batch", "asking", "next"} \cup AtEntry
Ending == {"closing", "noting"}
Ticks == [at : {"idle", "eligible", "claimed", "dead"} \cup AtWork \cup Ending,
          age : {"none", "fresh", "late"}, id : Pass \cup {0}, run : Runs,
          snap : [Fact -> Texts], read : [Fact -> {"none", "old", "new", "missing"}],
          says : [Fact -> Answer \cup {"none"}], signal : SUBSET Signal, rest : SUBSET Fact,
          todo : SUBSET Fact, now : SUBSET Fact, asking : SUBSET Fact, asked : {"no", "yes"}]

DreamTypes ==
    /\ memory \in [Fact -> Texts] /\ origin \in [Fact -> {"old", "new", "missing"}]
    /\ ledger \in [Pass -> Runs] /\ tick \in [Tick -> Ticks]
    /\ contract \in {1, 2} /\ active \in {"yes", "no"} /\ events \in 0..MaxEvents
    /\ vouched \subseteq [fact : Fact, proof : Proof]
    /\ edited \in [Pass -> SUBSET Fact] /\ slipped \in SUBSET Fact

(* What a copy of a run says is so, whoever has it: m is the memory, v the      *)
(* answers of the model, and e what users have changed since the run started.   *)
Dealt(r, m, e, f) == f \in r.applied \/ m[f] = Gone \/ r.held[f] # Unused \/ f \in e

Sound(r, m, v, e) ==
    /\ r.done \subseteq r.signals
    /\ \A f \in Targets(r.signals) :
          /\ m[f] # Unused
          /\ r.held[f] \in {Unused, m[f]} \/ m[f] = Gone \/ f \in e
    /\ \A f \in Targets(r.done) : f \in r.open \/ Dealt(r, m, e, f)
    /\ r.status = "completed" => r.open = {} /\ r.signals \subseteq r.done
    /\ \A f \in Fact : r.proofs[f] # NoProof => [fact |-> f, proof |-> r.proofs[f]] \in v

(* The ledger's copies, and those of the ticks that work on a run.              *)
LedgerSound ==
    \A p \in Pass : /\ Sound(ledger[p], memory, vouched, edited[p])
                    /\ ledger[p].status = "none" => ledger[p].signals = {}

Vouches(k, v, f) ==
    \E a \in v : /\ a.fact = f /\ a.proof.text = k.snap[f]
                 /\ a.proof.source = k.read[f] /\ a.proof.says = k.says[f]

(* What a slice knows of an entry: it opens the source of what was there, and   *)
(* an answer is the model's, about this text and source.                        *)
Informed(k, v) ==
    /\ k.at \in {"idle", "eligible", "claimed", "dead"} =>
          k.signal = {} /\ \A f \in Fact : k.read[f] = "none" /\ k.says[f] = "none"
    /\ k.at = "asking" => \A f \in k.asking : k.read[f] \in {"old", "new"}
    /\ \A f \in Fact :
          /\ k.read[f] # "none" => k.snap[f] \in Text
          /\ k.says[f] # "none" => k.read[f] \in {"old", "new"} /\ Vouches(k, v, f)
          /\ k.read[f] \in {"old", "new"} /\ k.says[f] = "none" =>
                k.at = "asking" /\ f \in k.asking

(* Where a slice stands in its run, and what it has done of the group.          *)
Follows(k, m, v, e) ==
    /\ Sound(k.run, m, v, e)
    /\ k.at \in AtWork => k.run.status = "processing" /\ k.run.contract \in {1, 2}
    /\ k.run.status # "none"
    /\ k.signal \subseteq k.run.signals
    /\ k.at \in AtEntry =>
          /\ k.todo \subseteq Targets(k.signal)
          /\ \A f \in Targets(k.signal) \ k.todo : f \in k.run.open \/ Dealt(k.run, m, e, f)

(* Before it writes, a slice has seen the source as the model was shown it.     *)
Looked(k, o, s) == k.at = "writing" => \A f \in k.now : o[f] = k.read[f] \/ f \in s

TickSound(t) ==
    /\ Informed(tick[t], vouched)
    /\ Looked(tick[t], origin, slipped)
    /\ tick[t].at \in AtWork \cup Ending =>
          /\ tick[t].id \in Started
          /\ Follows(tick[t], memory, vouched, edited[tick[t].id])

DreamInv == DreamTypes /\ LedgerSound /\ \A t \in Tick : TickSound(t)
-----------------------------------------------------------------------------
(* The first values, and the sets that the model computes.                      *)
LEMMA FreshValues ==
  /\ NoRun \in Runs /\ NoRun.signals = {} /\ NoRun.done = {} /\ NoRun.status = "none"
  /\ NoRun.open = {} /\ NoRun.contract = 0 /\ \A f \in Fact : NoRun.proofs[f] = NoProof
  /\ NoTick \in Ticks /\ NoTick.at = "idle" /\ NoTick.signal = {}
  /\ \A f \in Fact : NoTick.read[f] = "none" /\ NoTick.says[f] = "none"
  <1>1. [f \in Fact |-> NoProof] \in [Fact -> Proof \cup {NoProof}]
    OBVIOUS
  <1>2. NoRun \in Runs
    BY <1>1 DEF NoRun, Runs
  <1>3. NoTick \in Ticks
    BY <1>2 DEF NoTick, Ticks, Texts
  <1>4. QED
    BY <1>2, <1>3 DEF NoRun, NoTick

(* The entries of a set of signals.                                             *)
LEMMA TargetSets ==
  /\ \A S \in SUBSET Signal : Targets(S) \subseteq Fact
  /\ Targets({}) = {}
  /\ \A S, T \in SUBSET Signal : S \subseteq T => Targets(S) \subseteq Targets(T)
  /\ \A S, T \in SUBSET Signal : Targets(S \cup T) = Targets(S) \cup Targets(T)
  BY DEF Targets, Signal

(* The latest run is one that has started.                                      *)
LEMMA LatestIsThere ==
  ASSUME DreamTypes
  PROVE  /\ Latest \in Pass \cup {0}
         /\ Latest # 0 => Latest \in Started
         /\ Latest < MaxPasses => Latest + 1 \in Pass
  <1>1. MaxPasses \in Nat \ {0} /\ Started \subseteq 1 .. MaxPasses
    BY DreamAssumption DEF Started, Pass
  <1>2. Started # {} => \E p \in Started : \A q \in Started : q <= p
    BY <1>1, LastThere
  <1>3. Started # {} => Latest \in Started
    BY <1>2 DEF Latest
  <1>4. Started = {} => Latest = 0
    BY DEF Latest
  <1>5. Latest = 0 \/ (Latest \in 1 .. MaxPasses /\ Latest \in Started)
    BY <1>1, <1>3, <1>4
  <1>6. ASSUME NEW n, n = 0 \/ n \in 1 .. MaxPasses
        PROVE  n \in Pass \cup {0} /\ (n < MaxPasses => n + 1 \in Pass)
    BY <1>1, <1>6 DEF Pass
  <1>7. QED
    BY <1>5, <1>6

(* What is found to recheck are current entries.                                *)
LEMMA DetectedIsCurrent ==
  ASSUME DreamTypes
  PROVE  /\ Detected \in SUBSET Signal
         /\ \A f \in Targets(Detected) : memory[f] \in Text
  <1>1. \A x : Cardinality({f \in Current : memory[f] = x}) > 1
                  => {f \in Current : memory[f] = x} \in (SUBSET Fact) \ {{}}
    BY FS_EmptySet DEF Current
  <1>2. Cardinality({memory[f] : f \in Current}) > 1 => Current \in (SUBSET Fact) \ {{}}
    <2>1. Current = {} => {memory[f] : f \in Current} = {}
      OBVIOUS
    <2>2. QED
      BY <2>1, FS_EmptySet DEF Current
  <1>3. ASSUME NEW s \in Detected
        PROVE  s \in Signal /\ s.of \subseteq Current
    <2> DEFINE alike(x) == {f \in Current : memory[f] = x}
    <2>1. \/ \E x \in Text : /\ Cardinality(alike(x)) > 1
                             /\ s = [kind |-> "duplicate", of |-> alike(x)]
          \/ /\ Cardinality({memory[f] : f \in Current}) > 1
             /\ s = [kind |-> "conflict", of |-> Current]
          \/ \E f \in Current : s = [kind |-> "stale", of |-> {f}]
      BY DEF Detected
    <2>2. CASE \E x \in Text : /\ Cardinality(alike(x)) > 1
                               /\ s = [kind |-> "duplicate", of |-> alike(x)]
      BY <2>2, <1>1 DEF Signal
    <2>3. CASE /\ Cardinality({memory[f] : f \in Current}) > 1
               /\ s = [kind |-> "conflict", of |-> Current]
      BY <2>3, <1>2 DEF Signal
    <2>4. CASE \E f \in Current : s = [kind |-> "stale", of |-> {f}]
      BY <2>4 DEF Signal, Current
    <2>5. QED
      BY <2>1, <2>2, <2>3, <2>4
  <1>4. QED
    BY <1>3 DEF Targets, Current
-----------------------------------------------------------------------------
(* How the world moves on: what is gone stays gone, and an entry of a run is    *)
(* changed by Dream only to be gone.                                            *)
WorldMoves ==
    /\ memory' \in [Fact -> Texts] /\ origin' \in [Fact -> {"old", "new", "missing"}]
    /\ contract' \in {1, 2} /\ active' \in {"yes", "no"} /\ events' \in 0..MaxEvents
    /\ vouched' \subseteq [fact : Fact, proof : Proof] /\ vouched \subseteq vouched'
    /\ edited' \in [Pass -> SUBSET Fact] /\ \A p \in Pass : edited[p] \subseteq edited'[p]
    /\ slipped' \in SUBSET Fact /\ slipped \subseteq slipped'
    /\ \A t \in Tick : Writing(t) =>
          \A f \in tick[t].now : origin'[f] = origin[f] \/ f \in slipped'
    /\ \A f \in Fact : memory[f] = Gone => memory'[f] = Gone
    /\ \A f \in Fact : memory[f] # Unused =>
          /\ memory'[f] # Unused
          /\ \A p \in Started : memory'[f] = memory[f] \/ memory'[f] = Gone \/ f \in edited'[p]

\* A copy of a run stays sound while the world moves on.
LEMMA SoundStays ==
  ASSUME DreamTypes, WorldMoves, NEW r \in Runs, NEW p \in Pass,
         p \in Started \/ r.signals = {}, Sound(r, memory, vouched, edited[p])
  PROVE  Sound(r, memory', vouched', edited'[p])
  <1>1. \A f \in Targets(r.signals) : f \in Fact /\ p \in Started
    BY TargetSets DEF Runs
  <1>2. \A f \in Targets(r.done) : f \in Targets(r.signals)
    BY TargetSets DEF Runs, Sound
  <1>3. edited[p] \subseteq edited'[p] /\ vouched \subseteq vouched'
    BY DEF WorldMoves
  <1>4. ASSUME NEW f \in Targets(r.signals)
        PROVE  memory'[f] # Unused /\ (r.held[f] \in {Unused, memory'[f]} \/ memory'[f] = Gone
                                          \/ f \in edited'[p])
    BY <1>1, <1>3 DEF Sound, WorldMoves
  <1>5. ASSUME NEW f \in Targets(r.done)
        PROVE  f \in r.open \/ Dealt(r, memory', edited'[p], f)
    BY <1>1, <1>2, <1>3 DEF Sound, WorldMoves, Dealt
  <1>6. QED
    BY <1>3, <1>4, <1>5 DEF Sound

\* So does what a slice knows, and where it stands.
LEMMA InformedStays ==
  ASSUME NEW k, NEW v, NEW w, v \subseteq w, Informed(k, v)
  PROVE  Informed(k, w)
  BY DEF Informed, Vouches

\* Entries that were done stay done.
LEMMA FollowsStays ==
  ASSUME DreamTypes, WorldMoves, NEW k \in Ticks, k.id \in Started,
         Follows(k, memory, vouched, edited[k.id])
  PROVE  Follows(k, memory', vouched', edited'[k.id])
  <1>1. k.id \in Pass /\ k.run \in Runs /\ k.signal \in SUBSET Signal
    BY DEF Started, Ticks
  <1>2. Sound(k.run, memory', vouched', edited'[k.id])
    BY <1>1, SoundStays DEF Follows
  <1>3. ASSUME k.at \in AtEntry, NEW f \in Targets(k.signal) \ k.todo
        PROVE  f \in k.run.open \/ Dealt(k.run, memory', edited'[k.id], f)
    <2>1. f \in Fact
      BY <1>1, TargetSets
    <2>2. f \in k.run.open \/ Dealt(k.run, memory, edited[k.id], f)
      BY <1>3 DEF Follows
    <2>3. edited[k.id] \subseteq edited'[k.id]
      BY <1>1 DEF WorldMoves
    <2>4. QED
      BY <2>1, <2>2, <2>3 DEF Dealt, WorldMoves
  <1>4. QED
    BY <1>2, <1>3 DEF Follows
-----------------------------------------------------------------------------
(* The steps of ticks: tick t becomes k, and at most one run of the ledger is   *)
(* written, as r.                                                               *)
Becomes(t, k) == tick' = [tick EXCEPT ![t] = k]
Keeps == UNCHANGED ledger
Stores(p, r) == ledger' = [ledger EXCEPT ![p] = r]
Good(k) ==
    /\ k \in Ticks
    /\ Informed(k, vouched')
    /\ Looked(k, origin', slipped')
    /\ k.at \in AtWork \cup Ending =>
          k.id \in Started' /\ Follows(k, memory', vouched', edited'[k.id])
GoodRun(p, r) ==
    /\ p \in Pass /\ r \in Runs /\ r.status # "none"
    /\ Sound(r, memory', vouched', edited'[p])

\* A run that has started has started for good.
LEMMA StartedStays ==
  ASSUME DreamTypes, Keeps \/ \E p \in Pass, r \in Runs : r.status # "none" /\ Stores(p, r)
  PROVE  Started \subseteq Started'
  BY DEF DreamTypes, Keeps, Stores, Started

\* The ledger stays sound when a sound copy is stored, or none.
LEMMA LedgerStays ==
  ASSUME DreamTypes, LedgerSound, WorldMoves,
         Keeps \/ \E p \in Pass, r \in Runs : GoodRun(p, r) /\ Stores(p, r)
  PROVE  ledger' \in [Pass -> Runs] /\ LedgerSound'
  <1>1. ASSUME NEW q \in Pass PROVE Sound(ledger[q], memory', vouched', edited'[q])
    <2>1. ledger[q] \in Runs /\ (q \in Started \/ ledger[q].signals = {})
      BY DEF DreamTypes, Started, LedgerSound
    <2>2. QED
      BY <2>1, SoundStays DEF LedgerSound
  <1>2. CASE Keeps
    <2>1. \A q \in Pass : ledger'[q] = ledger[q]
      BY <1>2 DEF Keeps
    <2>2. ledger' \in [Pass -> Runs]
      BY <1>2 DEF Keeps, DreamTypes
    <2>3. QED
      BY <1>1, <2>1, <2>2 DEF LedgerSound
  <1>3. ASSUME NEW p \in Pass, NEW r \in Runs, GoodRun(p, r), Stores(p, r)
        PROVE  ledger' \in [Pass -> Runs] /\ LedgerSound'
    <2>1. /\ ledger' \in [Pass -> Runs] /\ ledger'[p] = r
          /\ \A q \in Pass \ {p} : ledger'[q] = ledger[q]
      BY <1>3 DEF DreamTypes, Stores
    <2>2. ASSUME NEW q \in Pass
          PROVE  /\ Sound(ledger'[q], memory', vouched', edited'[q])
                 /\ ledger'[q].status = "none" => ledger'[q].signals = {}
      <3>1. CASE q = p
        BY <1>3, <2>1, <3>1 DEF GoodRun
      <3>2. CASE q # p
        BY <1>1, <2>1, <3>2 DEF LedgerSound
      <3>3. QED
        BY <3>1, <3>2
    <2>3. QED
      BY <2>1, <2>2 DEF LedgerSound
  <1>4. QED
    BY <1>2, <1>3

\* A source that a slice has looked at is as it was, or is known to have slipped.
LEMMA LookedStays ==
  ASSUME WorldMoves, NEW u \in Tick, TickSound(u)
  PROVE  Looked(tick[u], origin', slipped')
  BY DEF WorldMoves, TickSound, Looked, Writing

\* A step of one tick keeps everything when what it becomes, and what it stores,
\* is good.
LEMMA TickSteps ==
  ASSUME DreamInv, WorldMoves, NEW t \in Tick, NEW k, Good(k), Becomes(t, k),
         Keeps \/ \E p \in Pass, r \in Runs : GoodRun(p, r) /\ Stores(p, r)
  PROVE  DreamInv'
  <1>1. ledger' \in [Pass -> Runs] /\ LedgerSound'
    BY LedgerStays DEF DreamInv
  <1>2. tick' \in [Tick -> Ticks] /\ tick'[t] = k /\ \A u \in Tick \ {t} : tick'[u] = tick[u]
    BY DEF DreamInv, DreamTypes, Becomes, Good
  <1>3. Started \subseteq Started'
    BY StartedStays DEF DreamInv, GoodRun
  <1>4. DreamTypes'
    BY <1>1, <1>2 DEF DreamTypes, WorldMoves
  <1>5. ASSUME NEW u \in Tick PROVE TickSound(u)'
    <2>1. CASE u = t
      BY <1>2, <2>1 DEF TickSound, Good
    <2>2. CASE u # t
      <3>1. tick'[u] = tick[u] /\ tick[u] \in Ticks /\ vouched \subseteq vouched'
        BY <1>2, <2>2 DEF DreamInv, DreamTypes, WorldMoves
      <3>2. Informed(tick[u], vouched')
        BY <3>1, InformedStays DEF DreamInv, TickSound
      <3>2a. Looked(tick[u], origin', slipped')
        BY <3>1, LookedStays DEF DreamInv
      <3>3. ASSUME tick[u].at \in AtWork \cup Ending
            PROVE  /\ tick[u].id \in Started'
                   /\ Follows(tick[u], memory', vouched', edited'[tick[u].id])
        <4>1. tick[u].id \in Started /\ Follows(tick[u], memory, vouched, edited[tick[u].id])
          BY <3>3 DEF DreamInv, TickSound
        <4>2. DreamTypes
          BY DEF DreamInv
        <4>3. QED
          BY <1>3, <3>1, <4>1, <4>2, FollowsStays
      <3>4. QED
        BY <3>1, <3>2, <3>2a, <3>3 DEF TickSound
    <2>3. QED
      BY <2>1, <2>2
  <1>6. QED
    BY <1>1, <1>4, <1>5 DEF DreamInv

\* When only the world moves, everything else stays.
LEMMA WorldSteps ==
  ASSUME DreamInv, WorldMoves, UNCHANGED <<ledger, tick>>
  PROVE  DreamInv'
  <1>1. ledger' \in [Pass -> Runs] /\ LedgerSound'
    BY LedgerStays DEF DreamInv, Keeps
  <1>2. DreamTypes' /\ Started' = Started
    BY <1>1 DEF DreamTypes, WorldMoves, DreamInv, Started
  <1>3. ASSUME NEW u \in Tick PROVE TickSound(u)'
    <2>1. tick'[u] = tick[u] /\ tick[u] \in Ticks /\ vouched \subseteq vouched'
      BY DEF DreamInv, DreamTypes, WorldMoves
    <2>2. Informed(tick[u], vouched')
      BY <2>1, InformedStays DEF DreamInv, TickSound
    <2>2a. Looked(tick[u], origin', slipped')
      BY LookedStays DEF DreamInv
    <2>3. ASSUME tick[u].at \in AtWork \cup Ending
          PROVE  /\ tick[u].id \in Started'
                 /\ Follows(tick[u], memory', vouched', edited'[tick[u].id])
      <3>1. tick[u].id \in Started /\ Follows(tick[u], memory, vouched, edited[tick[u].id])
        BY <2>3 DEF DreamInv, TickSound
      <3>2. DreamTypes
        BY DEF DreamInv
      <3>3. QED
        BY <1>2, <2>1, <3>1, <3>2, FollowsStays
    <2>4. QED
      BY <2>1, <2>2, <2>2a, <2>3 DEF TickSound
  <1>4. QED
    BY <1>1, <1>2, <1>3 DEF DreamInv

\* A step of the slices alone leaves the world as it is.
LEMMA WorldRests ==
  ASSUME DreamTypes, UNCHANGED Knowledge
  PROVE  WorldMoves
  BY DEF DreamTypes, Knowledge, WorldMoves
-----------------------------------------------------------------------------
(* The actions, one by one.                                                     *)
LEMMA OwnTick ==
  ASSUME DreamInv, NEW t \in Tick
  PROVE  /\ DreamTypes /\ tick[t] \in Ticks /\ Informed(tick[t], vouched)
         /\ Looked(tick[t], origin, slipped)
         /\ tick[t].run \in Runs /\ tick[t].signal \in SUBSET Signal
         /\ tick[t].at \in AtWork \cup Ending =>
               /\ tick[t].id \in Pass /\ tick[t].id \in Started
               /\ Follows(tick[t], memory, vouched, edited[tick[t].id])
  BY DEF DreamInv, DreamTypes, TickSound, Started, Ticks

\* A tick that has not begun, or is over, knows nothing.
LEMMA RestIsGood ==
  ASSUME NEW k \in Ticks, k.at \in {"idle", "eligible", "claimed", "dead"}, k.signal = {},
         \A f \in Fact : k.read[f] = "none" /\ k.says[f] = "none"
  PROVE  Good(k)
  BY DEF Good, Looked, Informed, AtWork, AtEntry, Ending

\* A tick that goes elsewhere with what it has; a slice that is at an entry must
\* not lose the place.
LEMMA PlaceIsGood ==
  ASSUME DreamInv, WorldMoves, NEW t \in Tick, NEW k \in Ticks, tick[t].at \in AtWork \cup Ending,
         k.run = tick[t].run, k.id = tick[t].id, k.read = tick[t].read, k.snap = tick[t].snap,
         k.says = tick[t].says, k.at \in AtWork \cup Ending,
         Started \subseteq Started', tick[t].at # "asking", k.at # "asking", k.at # "writing",
         k.at \in AtWork => tick[t].at \in AtWork,
         k.signal \subseteq k.run.signals,
         k.at \in AtEntry => k.todo = Targets(k.signal)
  PROVE  Good(k)
  <1>1. Informed(tick[t], vouched) /\ tick[t].id \in Started /\ vouched \subseteq vouched'
        /\ Follows(tick[t], memory, vouched, edited[tick[t].id])
    BY OwnTick DEF WorldMoves
  <1>2. Informed(k, vouched)
    BY <1>1 DEF Informed, AtWork, AtEntry, Ending, Vouches
  <1>3. Follows(k, memory, vouched, edited[k.id])
    BY <1>1 DEF Follows
  <1>4. DreamTypes
    BY DEF DreamInv
  <1>5. Informed(k, vouched')
    BY <1>1, <1>2, InformedStays
  <1>6. k.id \in Started
    BY <1>1
  <1>7. Follows(k, memory', vouched', edited'[k.id])
    BY <1>3, <1>4, <1>6, FollowsStays
  <1>8. QED
    BY <1>5, <1>6, <1>7 DEF Good, Looked

\* A tick before it has a run.
LEMMA DecideKeeps ==
  ASSUME DreamInv, NEW t \in Tick, Decide(t) \/ ClaimTick(t) \/ StandDown(t)
  PROVE  DreamInv'
  <1>1. WorldMoves /\ Keeps
    BY WorldRests DEF DreamInv, Decide, ClaimTick, StandDown, Keeps
  <1>2. PICK k : Becomes(t, k) /\ \/ k = [NoTick EXCEPT !.at = "eligible"]
                                  \/ k = NoTick
                                  \/ /\ tick[t].at = "eligible"
                                     /\ k = [tick[t] EXCEPT !.at = "claimed", !.age = "fresh"]
    BY DEF Decide, ClaimTick, StandDown, Becomes, DreamInv, DreamTypes
  <1>3. Good(k)
    <2>1. CASE k = [NoTick EXCEPT !.at = "eligible"]
      BY <2>1, FreshValues, RestIsGood DEF Ticks
    <2>2. CASE k = NoTick
      BY <2>2, FreshValues, RestIsGood
    <2>3. CASE tick[t].at = "eligible" /\ k = [tick[t] EXCEPT !.at = "claimed", !.age = "fresh"]
      <3>1. tick[t] \in Ticks /\ Informed(tick[t], vouched)
        BY OwnTick
      <3>2. k \in Ticks /\ k.at = "claimed" /\ k.read = tick[t].read /\ k.says = tick[t].says
            /\ k.signal = tick[t].signal
        <4>1. k \in Ticks
          BY ONLY <2>3, <3>1 DEF Ticks
        <4>2. k.at = "claimed" /\ k.read = tick[t].read /\ k.says = tick[t].says
              /\ k.signal = tick[t].signal
          BY ONLY <2>3, <3>1 DEF Ticks
        <4> QED
          BY ONLY <4>1, <4>2
      <3>3. QED
        BY <2>3, <3>1, <3>2, RestIsGood, ZenonT(60) DEF Informed
    <2>4. QED
      BY <1>2, <2>1, <2>2, <2>3
  <1>4. QED
    BY <1>1, <1>2, <1>3, TickSteps

\* The slice ends, or its process dies.
LEMMA EndsKeep ==
  ASSUME DreamInv, NEW t \in Tick, CallFails(t) \/ Overdue(t) \/ DreamCrash(t)
  PROVE  DreamInv'
  <1>1. WorldMoves
    BY DreamAssumption DEF DreamInv, DreamTypes, CallFails, Overdue, DreamCrash,
       EndsFailed, WorldMoves
  <1>2. PICK k : Becomes(t, k) /\ k \in {NoTick, [NoTick EXCEPT !.at = "dead", !.age = tick[t].age]}
    BY DEF CallFails, Overdue, DreamCrash, EndsFailed, Becomes
  <1>3. Good(k)
    <2>1. tick[t] \in Ticks
      BY OwnTick
    <2> DEFINE d == [NoTick EXCEPT !.at = "dead", !.age = tick[t].age]
    <2>2. d \in Ticks /\ d.at = "dead" /\ d.read = NoTick.read /\ d.says = NoTick.says
          /\ d.signal = NoTick.signal
      BY ONLY <2>1, FreshValues, ZenonT(60) DEF Ticks
    <2>3. Good(d)
      BY <2>2, FreshValues, RestIsGood, ZenonT(60)
    <2>4. QED
      BY <1>2, <2>3, FreshValues, RestIsGood
  <1>4. Keeps \/ \E p \in Pass, r \in Runs : GoodRun(p, r) /\ Stores(p, r)
    <2>1. CASE UNCHANGED ledger
      BY <2>1 DEF Keeps
    <2>2. CASE ~UNCHANGED ledger
      <3> DEFINE p == tick[t].id
                 r == [ledger[p] EXCEPT !.status = "failed"]
      <3>1. /\ tick[t].at \in AtWork /\ ledger[p].status = "processing"
            /\ ledger' = [ledger EXCEPT ![p] = r] /\ memory' = memory
            /\ vouched' = vouched /\ edited' = edited
        BY <2>2 DEF CallFails, Overdue, DreamCrash, EndsFailed, AtWork, AtEntry
      <3>2. p \in Pass /\ ledger[p] \in Runs /\ Sound(ledger[p], memory, vouched, edited[p])
        BY <3>1, OwnTick, SMTT(40) DEF DreamInv, LedgerSound, DreamTypes
      <3>3. /\ r \in Runs /\ r.status = "failed" /\ r.signals = ledger[p].signals
            /\ r.done = ledger[p].done /\ r.open = ledger[p].open /\ r.held = ledger[p].held
            /\ r.applied = ledger[p].applied /\ r.proofs = ledger[p].proofs
        BY ONLY <3>2, SMTT(40) DEF Runs
      <3>4. Sound(r, memory, vouched, edited[p])
        BY <3>2, <3>3 DEF Sound, Dealt
      <3>5. GoodRun(p, r)
        BY <3>1, <3>2, <3>3, <3>4 DEF GoodRun
      <3>6. QED
        BY <3>1, <3>2, <3>3, <3>5 DEF Stores
    <2>3. QED
      BY <2>1, <2>2
  <1>5. QED
    BY <1>1, <1>2, <1>3, <1>4, TickSteps

\* A deadline changes nothing but the age of a claim.
LEMMA TimePassesKeeps ==
  ASSUME DreamInv, NEW t \in Tick, TimePasses(t)
  PROVE  DreamInv'
  <1>1. WorldMoves /\ Keeps
    BY DreamAssumption DEF DreamInv, DreamTypes, TimePasses, WorldMoves, Keeps
  <1> DEFINE k == [tick[t] EXCEPT !.age = "late"]
  <1>2. Becomes(t, k) /\ UNCHANGED <<memory, origin, vouched, edited, slipped, ledger>>
    BY DEF TimePasses, Becomes
  <1>3. /\ k \in Ticks /\ k.at = tick[t].at /\ k.id = tick[t].id /\ k.run = tick[t].run
        /\ k.snap = tick[t].snap /\ k.read = tick[t].read /\ k.says = tick[t].says
        /\ k.signal = tick[t].signal /\ k.todo = tick[t].todo /\ k.now = tick[t].now /\ k.asking = tick[t].asking
    BY OwnTick DEF Ticks
  <1>4. Started' = Started
    BY <1>2 DEF Started
  <1>5. Good(k)
    BY <1>2, <1>3, <1>4, OwnTick DEF Good, Looked, Informed, Follows, Vouches
  <1>6. QED
    BY <1>1, <1>2, <1>5, TickSteps

\* What a slice has of its run may be stored, while nothing else happens.
LEMMA OwnRunIsGood ==
  ASSUME DreamInv, NEW t \in Tick, UNCHANGED Knowledge, tick[t].at \in AtWork \cup Ending
  PROVE  GoodRun(tick[t].id, tick[t].run)
  BY OwnTick DEF GoodRun, Knowledge, Follows

\* The next signal, and the way from one to the next.
LEMMA SignalsKeep ==
  ASSUME DreamInv, NEW t \in Tick, NextSignal(t) \/ GoesOn(t) \/ EnterGroup(t)
  PROVE  DreamInv'
  <1>1. WorldMoves /\ Keeps /\ Started' = Started
    BY WorldRests DEF DreamInv, NextSignal, GoesOn, EnterGroup, Keeps, Started
  <1>2. PICK k \in Ticks :
           /\ Becomes(t, k) /\ tick[t].at \in AtWork \ {"asking"} /\ k.at \in AtWork \ {"asking", "writing"}
           /\ k.run = tick[t].run /\ k.id = tick[t].id /\ k.read = tick[t].read
           /\ k.snap = tick[t].snap /\ k.says = tick[t].says
           /\ k.signal \subseteq k.run.signals
           /\ k.at \in AtEntry => k.todo = Targets(k.signal)
    <2>1. CASE NextSignal(t)
      <3>0. PICK s \in FirstLeft(tick[t].run) : \E X \in Batches(tick[t].run, s) :
               Becomes(t, [tick[t] EXCEPT !.at = "batch", !.signal = {s}, !.rest = X])
        BY <2>1 DEF NextSignal, Becomes, DreamInv, DreamTypes
      <3>1. PICK X \in Batches(tick[t].run, s) :
               Becomes(t, [tick[t] EXCEPT !.at = "batch", !.signal = {s}, !.rest = X])
        BY <3>0
      <3>2. s \in tick[t].run.signals /\ tick[t].run.signals \in SUBSET Signal
        BY OwnTick DEF FirstLeft, Left, Runs
      <3>3. X \in SUBSET Fact
        <4>1. PICK S \in SUBSET tick[t].run.signals : X = Targets(S \cup {s})
          BY DEF Batches
        <4>2. S \cup {s} \in SUBSET Signal
          BY <3>2
        <4>3. QED
          BY <4>1, <4>2, TargetSets
      <3>4. {s} \in SUBSET Signal
        BY <3>2
      <3>5. tick[t].at = "signal"
        BY <2>1 DEF NextSignal
      <3> DEFINE k == [tick[t] EXCEPT !.at = "batch", !.signal = {s}, !.rest = X]
      <3>6. tick[t] \in Ticks
        BY OwnTick
      <3>7. k \in Ticks /\ k.signal = {s} /\ k.at = "batch"
            /\ k.run = tick[t].run /\ k.id = tick[t].id /\ k.read = tick[t].read
            /\ k.snap = tick[t].snap /\ k.says = tick[t].says
        BY <3>3, <3>4, <3>6 DEF Ticks, AtWork, AtEntry
      <3>8. QED
        BY <3>1, <3>2, <3>5, <3>7 DEF AtWork, AtEntry
    <2>2. CASE GoesOn(t)
      <3>1. tick[t].at = "next" /\ Becomes(t, [tick[t] EXCEPT !.at = "signal"])
        BY <2>2 DEF GoesOn, Becomes, DreamInv, DreamTypes
      <3>2. tick[t].signal \subseteq tick[t].run.signals
        BY <3>1, OwnTick DEF Follows, AtWork, AtEntry
      <3>3. QED
        BY <3>1, <3>2, OwnTick DEF Ticks, AtWork, AtEntry
    <2>3. CASE EnterGroup(t)
      <3> DEFINE k == [tick[t] EXCEPT !.at = "applying", !.todo = Group(t)]
      <3>1. tick[t].at = "batch" /\ Becomes(t, k)
        BY <2>3 DEF EnterGroup, Verified, Becomes, DreamInv, DreamTypes
      <3>2. tick[t].signal \subseteq tick[t].run.signals /\ Group(t) \in SUBSET Fact
            /\ Group(t) = Targets(tick[t].signal)
        BY <3>1, OwnTick, TargetSets DEF Follows, AtWork, Group, Targets
      <3>3. tick[t] \in Ticks
        BY OwnTick
      <3>4. k \in Ticks /\ k.signal = tick[t].signal /\ k.at = "applying" /\ k.todo = Group(t)
            /\ k.run = tick[t].run /\ k.id = tick[t].id /\ k.read = tick[t].read
            /\ k.snap = tick[t].snap /\ k.says = tick[t].says
        BY <3>2, <3>3 DEF Ticks, AtWork, AtEntry
      <3>5. QED
        BY <3>1, <3>2, <3>4 DEF AtWork, AtEntry
    <2>4. QED
      BY <2>1, <2>2, <2>3
  <1>3. Good(k)
    BY <1>1, <1>2, PlaceIsGood DEF AtWork, AtEntry
  <1>4. QED
    BY <1>1, <1>2, <1>3, TickSteps, SMTT(40)
\* A slice that goes to an entry of its group, or to the next one.
PutAt(k, a, r, X, Y) == [k EXCEPT !.at = a, !.run = r, !.todo = X, !.now = Y]

LEMMA PlaceSets ==
  ASSUME NEW k \in Ticks, NEW a \in AtEntry, NEW X \in SUBSET Fact, NEW Y \in SUBSET Fact,
         NEW r \in Runs
  PROVE  LET g == PutAt(k, a, r, X, Y)
         IN  /\ g \in Ticks /\ g.at = a /\ g.id = k.id /\ g.read = k.read /\ g.snap = k.snap
             /\ g.says = k.says /\ g.signal = k.signal /\ g.run = r /\ g.todo = X /\ g.now = Y
  <1>1. a \in {"idle", "eligible", "claimed", "dead"} \cup AtWork \cup Ending
    BY DEF AtWork
  <1>2. QED
    BY <1>1 DEF PutAt, Ticks

\* A slice that takes up another copy of its run.
LEMMA CarriesIsGood ==
  ASSUME DreamInv, NEW t \in Tick, NEW k \in Ticks,
         tick[t].at \in (AtWork \cup Ending) \ {"asking"},
         k.at \in (AtWork \cup Ending) \ {"asking", "writing"},
         k.id = tick[t].id, k.read = tick[t].read, k.snap = tick[t].snap, k.says = tick[t].says,
         Started \subseteq Started', vouched \subseteq vouched',
         Sound(k.run, memory', vouched', edited'[k.id]), k.run.status # "none",
         k.at \in AtWork => k.run.status = "processing" /\ k.run.contract \in {1, 2},
         k.signal \subseteq k.run.signals,
         k.at \in AtEntry =>
            /\ k.todo \subseteq Targets(k.signal)
            /\ \A f \in Targets(k.signal) \ k.todo :
                  f \in k.run.open \/ Dealt(k.run, memory', edited'[k.id], f)
  PROVE  Good(k)
  <1>1. Informed(tick[t], vouched) /\ tick[t].id \in Started
    BY OwnTick
  <1>2. Informed(k, vouched)
    BY <1>1 DEF Informed, AtWork, AtEntry, Ending, Vouches
  <1>3. Informed(k, vouched')
    BY <1>2, InformedStays
  <1>4. Follows(k, memory', vouched', edited'[k.id])
    BY DEF Follows
  <1>5. QED
    BY <1>1, <1>3, <1>4 DEF Good, Looked

\* The run of a slice ends, and the slice with it.
LEMMA ClosesKeep ==
  ASSUME DreamInv, NEW t \in Tick, NEW r \in Runs, r.status # "none",
         tick[t].at \in (AtWork \cup Ending) \ {"asking"},
         r.signals = tick[t].run.signals, Sound(r, memory, vouched, edited[tick[t].id]),
         Store(tick[t].id, r), UNCHANGED Knowledge,
         tick' = [tick EXCEPT ![t].at = "closing", ![t].run = r]
  PROVE  DreamInv'
  <1> DEFINE k == [tick[t] EXCEPT !.at = "closing", !.run = r]
  <1>1. WorldMoves /\ UNCHANGED <<memory, vouched, edited>>
    BY WorldRests DEF DreamInv, Knowledge
  <1>2. Stores(tick[t].id, r) /\ Becomes(t, k)
    BY DEF Store, Stores, Becomes, DreamInv, DreamTypes
  <1>3. /\ tick[t] \in Ticks /\ tick[t].id \in Pass
        /\ Follows(tick[t], memory, vouched, edited[tick[t].id])
    BY OwnTick
  <1>4. GoodRun(tick[t].id, r)
    BY <1>1, <1>3 DEF GoodRun
  <1>5. Started \subseteq Started'
    BY <1>2, <1>3, StartedStays DEF DreamInv
  <1>6. /\ k \in Ticks /\ k.at = "closing" /\ k.id = tick[t].id /\ k.read = tick[t].read
        /\ k.snap = tick[t].snap /\ k.says = tick[t].says /\ k.run = r /\ k.signal = tick[t].signal
    BY <1>3 DEF Ticks, Ending
  <1>7. k.signal \subseteq k.run.signals
    BY <1>3, <1>6 DEF Follows
  <1> HIDE DEF k
  <1>8. Good(k)
    BY <1>1, <1>5, <1>6, <1>7, CarriesIsGood DEF AtWork, AtEntry, Ending
  <1>9. QED
    BY <1>1, <1>2, <1>3, <1>4, <1>8, TickSteps

\* A run takes another status, and completed only when nothing is open or left.
LEMMA StatusIsSound ==
  ASSUME NEW r \in Runs, NEW m, NEW v, NEW e, Sound(r, m, v, e),
         NEW x \in {"processing", "continuing", "completed", "failed"},
         x = "completed" => r.open = {} /\ r.signals \subseteq r.done,
         NEW n, n = [r EXCEPT !.status = x]
  PROVE  n \in Runs /\ n.status = x /\ n.signals = r.signals /\ Sound(n, m, v, e)
  <1>1. /\ n \in Runs /\ n.status = x /\ n.signals = r.signals
        /\ n.done = r.done /\ n.open = r.open /\ n.held = r.held
        /\ n.applied = r.applied /\ n.proofs = r.proofs
    BY DEF Runs
  <1>2. Sound(n, m, v, e)
    BY <1>1 DEF Sound, Dealt
  <1>3. QED
    BY <1>1, <1>2

\* The rest is left, or nothing is.
LEMMA LeavesRestKeeps ==
  ASSUME DreamInv, NEW t \in Tick, NEW r \in Runs,
         tick[t].at \in AtWork \ {"asking"},
         r.signals = tick[t].run.signals, Sound(r, memory, vouched, edited[tick[t].id]),
         LeavesRest(t, r)
  PROVE  DreamInv'
  <1> DEFINE n == [r EXCEPT !.status = "continuing"]
  <1>1. n \in Runs /\ n.status = "continuing" /\ n.signals = r.signals
        /\ Sound(n, memory, vouched, edited[tick[t].id])
    BY StatusIsSound
  <1>2. Store(tick[t].id, n) /\ UNCHANGED Knowledge
        /\ tick' = [tick EXCEPT ![t].at = "closing", ![t].run = n]
    BY DEF LeavesRest
  <1> HIDE DEF n
  <1>3. QED
    BY <1>1, <1>2, ClosesKeep

\* A slice past its deadline.
LEMMA YieldKeeps ==
  ASSUME DreamInv, NEW t \in Tick, Yield(t)
  PROVE  DreamInv'
  <1>1. tick[t].at \in AtWork \ {"asking"} /\ LeavesRest(t, tick[t].run)
    BY DEF Yield, AtPoint, AtWork, AtEntry
  <1>2. QED
    BY <1>1, LeavesRestKeeps, OwnTick DEF Follows

\* No signal is left: completed, unless something is open.
LEMMA FinishKeeps ==
  ASSUME DreamInv, NEW t \in Tick, Finish(t)
  PROVE  DreamInv'
  <1> DEFINE x == IF tick[t].run.open # {} THEN "failed" ELSE "completed"
             n == [tick[t].run EXCEPT !.status = x]
  <1>1. /\ tick[t].at \in AtWork \ {"asking"} /\ Left(tick[t].run) = {}
        /\ Store(tick[t].id, n) /\ UNCHANGED Knowledge
        /\ tick' = [tick EXCEPT ![t].at = "closing", ![t].run = n]
    BY DEF Finish, AtWork, AtEntry
  <1>2. tick[t].run \in Runs /\ Sound(tick[t].run, memory, vouched, edited[tick[t].id])
    BY <1>1, OwnTick DEF Follows
  <1>3. x = "completed" => tick[t].run.open = {} /\ tick[t].run.signals \subseteq tick[t].run.done
    BY <1>1 DEF Left
  <1>4. x \in {"processing", "continuing", "completed", "failed"}
    OBVIOUS
  <1> HIDE DEF x
  <1>5. n \in Runs /\ n.status = x /\ n.signals = tick[t].run.signals
        /\ Sound(n, memory, vouched, edited[tick[t].id])
    BY <1>2, <1>3, <1>4, StatusIsSound
  <1> HIDE DEF n
  <1>6. QED
    BY <1>1, <1>4, <1>5, ClosesKeep

\* The slice saves its copy once more, and is done.
LEMMA SavesKeep ==
  ASSUME DreamInv, NEW t \in Tick, CloseProvider(t) \/ NoteSession(t)
  PROVE  DreamInv'
  <1>1. WorldMoves /\ UNCHANGED Knowledge /\ tick[t].at \in Ending
        /\ Stores(tick[t].id, tick[t].run)
    BY WorldRests DEF DreamInv, CloseProvider, NoteSession, Ending, Store, Stores
  <1>2. GoodRun(tick[t].id, tick[t].run) /\ tick[t].id \in Pass /\ tick[t].run \in Runs
        /\ tick[t] \in Ticks /\ Follows(tick[t], memory, vouched, edited[tick[t].id])
    BY <1>1, OwnRunIsGood, OwnTick
  <1>3. Started \subseteq Started'
    BY <1>1, <1>2, StartedStays DEF DreamInv, Follows
  <1> DEFINE n == [tick[t] EXCEPT !.at = "noting"]
  <1>4. PICK k : Becomes(t, k) /\ k \in {n, NoTick}
    BY DEF CloseProvider, NoteSession, Becomes
  <1>5. Good(k)
    <2>1. CASE k = NoTick
      BY <2>1, FreshValues, RestIsGood
    <2>2. CASE k = n
      <3>1. /\ n \in Ticks /\ n.at = "noting" /\ n.id = tick[t].id /\ n.read = tick[t].read
            /\ n.snap = tick[t].snap /\ n.says = tick[t].says /\ n.run = tick[t].run
            /\ n.signal = tick[t].signal
        BY <1>2 DEF Ticks, Ending
      <3> HIDE DEF n
      <3>2. n.signal \subseteq n.run.signals
        BY <1>2, <3>1 DEF Follows
      <3>3. Good(n)
        BY <1>1, <1>3, <3>1, <3>2, PlaceIsGood DEF AtWork, AtEntry, Ending
      <3>4. QED
        BY <2>2, <3>3
    <2>3. QED
      BY <1>4, <2>1, <2>2
  <1>6. QED
    BY <1>1, <1>2, <1>4, <1>5, TickSteps
-----------------------------------------------------------------------------
\* More may be left open in a run that is not completed.
LEMMA OpensMore ==
  ASSUME NEW r \in Runs, NEW m, NEW v, NEW e, Sound(r, m, v, e), r.status = "processing",
         NEW F \in SUBSET Fact, NEW n, n = [r EXCEPT !.open = @ \cup F]
  PROVE  /\ n \in Runs /\ n.signals = r.signals /\ n.status = r.status
         /\ n.contract = r.contract /\ n.open = r.open \cup F /\ n.done = r.done
         /\ n.held = r.held /\ n.applied = r.applied /\ n.proofs = r.proofs
         /\ Sound(n, m, v, e)
  <1>1. /\ n \in Runs /\ n.signals = r.signals /\ n.status = r.status
        /\ n.contract = r.contract /\ n.open = r.open \cup F /\ n.done = r.done
        /\ n.held = r.held /\ n.applied = r.applied /\ n.proofs = r.proofs
    BY DEF Runs
  <1>2. Sound(n, m, v, e)
    BY <1>1 DEF Sound, Dealt
  <1>3. QED
    BY <1>1, <1>2

\* A group is done when each of its entries is open, or dealt with.
LEMMA GroupIsDone ==
  ASSUME NEW r \in Runs, NEW m, NEW v, NEW e, Sound(r, m, v, e), r.status = "processing",
         NEW S \in SUBSET r.signals, \A f \in Targets(S) : f \in r.open \/ Dealt(r, m, e, f),
         NEW n, n = [r EXCEPT !.done = @ \cup S]
  PROVE  /\ n \in Runs /\ n.signals = r.signals /\ n.status = r.status
         /\ n.contract = r.contract /\ Sound(n, m, v, e)
  <1>1. r.signals \in SUBSET Signal /\ r.done \in SUBSET Signal /\ S \in SUBSET Signal
    BY DEF Runs
  <1>2. /\ n \in Runs /\ n.signals = r.signals /\ n.status = r.status
        /\ n.contract = r.contract /\ n.open = r.open /\ n.done = r.done \cup S
        /\ n.held = r.held /\ n.applied = r.applied /\ n.proofs = r.proofs
    BY <1>1 DEF Runs
  <1>3. ASSUME NEW f \in Targets(n.done) PROVE f \in n.open \/ Dealt(n, m, e, f)
    <2>1. f \in Targets(r.done) \/ f \in Targets(S)
      BY <1>1, <1>2, TargetSets
    <2>2. f \in r.open \/ Dealt(r, m, e, f)
      BY <2>1 DEF Sound
    <2>3. QED
      BY <1>2, <2>2 DEF Dealt
  <1>4. Sound(n, m, v, e)
    BY <1>2, <1>3 DEF Sound
  <1>5. QED
    BY <1>2, <1>4

\* Members that are no longer current are gone, the others are left open.
LEMMA GroupChangedKeeps ==
  ASSUME DreamInv, NEW t \in Tick, GroupChanged(t)
  PROVE  DreamInv'
  <1> DEFINE k == tick[t]
             r == k.run
             there == Group(t) \cap Current
             a == [r EXCEPT !.open = @ \cup there]
             n == [a EXCEPT !.done = @ \cup k.signal]
             e == edited[k.id]
             g == [GroupEnds(k, a) EXCEPT !.at = "next"]
  <1>1. WorldMoves /\ Keeps /\ Started' = Started /\ UNCHANGED <<memory, vouched, edited>>
        /\ Becomes(t, g) /\ k.at = "batch"
    BY WorldRests DEF DreamInv, GroupChanged, Verified, Keeps, Started, Knowledge, Becomes
  <1>2. k \in Ticks /\ r \in Runs /\ k.signal \in SUBSET Signal /\ k.signal \subseteq r.signals
        /\ Sound(r, memory, vouched, e) /\ r.status = "processing" /\ r.contract \in {1, 2}
    BY <1>1, OwnTick DEF Follows, AtWork, AtEntry
  <1>3. Group(t) = Targets(k.signal) /\ there \in SUBSET Fact
        /\ Group(t) \subseteq Targets(r.signals)
    BY <1>2, TargetSets DEF Group, Targets, Current, Runs
  <1>3a. a = [r EXCEPT !.open = @ \cup there] /\ there = Group(t) \cap Current
    OBVIOUS
  <1> HIDE DEF a, there
  <1>4. /\ a \in Runs /\ a.signals = r.signals /\ a.status = r.status
        /\ a.contract = r.contract /\ a.open = r.open \cup there
        /\ Sound(a, memory, vouched, e)
    <2>1. there \in SUBSET Fact /\ r \in Runs /\ Sound(r, memory, vouched, e)
          /\ r.status = "processing"
      BY <1>2, <1>3
    <2>2. a = [r EXCEPT !.open = @ \cup there]
      BY <1>3a
    <2> QED
      BY ONLY <2>1, <2>2, OpensMore, SMTT(40)
  <1>5. ASSUME NEW f \in Targets(k.signal) PROVE f \in a.open \/ Dealt(a, memory, e, f)
    <2>1. CASE f \in Current
      BY <1>3, <1>3a, <1>4, <2>1
    <2>2. CASE f \notin Current
      <3>1. memory[f] # Unused /\ f \in Fact
        BY <1>2, <1>3, TargetSets DEF Sound
      <3>2. memory[f] = Gone
        BY <2>2, <3>1 DEF Current, DreamInv, DreamTypes, Texts
      <3>3. QED
        BY <3>2 DEF Dealt
    <2>3. QED
      BY <2>1, <2>2
  <1>5a. /\ g.at = "next" /\ g.id = k.id /\ g.read = k.read /\ g.snap = k.snap
         /\ g.says = k.says /\ g.signal = {} /\ g.run = n
    BY <1>2 DEF GroupEnds, Ticks
  <1>6. /\ n \in Runs /\ n.signals = r.signals /\ n.status = r.status
        /\ n.contract = r.contract /\ Sound(n, memory, vouched, e)
    BY <1>2, <1>4, <1>5, GroupIsDone
  <1>7. g \in Ticks
    BY <1>2, <1>6 DEF GroupEnds, Ticks, AtWork, AtEntry
  <1> HIDE DEF n, g
  <1>8. Good(g)
    BY <1>1, <1>2, <1>5a, <1>6, <1>7, CarriesIsGood DEF AtWork, AtEntry, Ending
  <1>9. QED
    BY <1>1, <1>8, TickSteps
-----------------------------------------------------------------------------
\* A chunk: answers are taken up, or asked for.
LEMMA PrepareKeeps ==
  ASSUME DreamInv, NEW t \in Tick, Prepare(t)
  PROVE  DreamInv'
  <1> DEFINE k == tick[t]
             r == k.run
             X == Chunk(k)
             read == [f \in Fact |-> IF f \in X /\ k.snap[f] \in Text /\ k.read[f] = "none"
                                     THEN origin[f] ELSE k.read[f]]
             open == {f \in X : read[f] \in {"old", "new"} /\ k.says[f] = "none"}
             reuse == {f \in open : Bound(k.run, f, k.snap[f], read[f])}
             ask == open \ reuse
             run == [k.run EXCEPT !.proofs = [f \in Fact |-> IF f \in ask THEN NoProof ELSE @[f]]]
             says == [f \in Fact |-> IF f \in reuse THEN run.proofs[f].says ELSE k.says[f]]
             place == IF ask = {} THEN "batch" ELSE "asking"
             more == IF ask = {} THEN k.asked ELSE "yes"
             e == edited[k.id]
             g == [k EXCEPT !.at = IF ask = {} THEN "batch" ELSE "asking",
                            !.asked = IF ask = {} THEN @ ELSE "yes",
                            !.run = run, !.read = read, !.asking = ask, !.rest = @ \ X,
                            !.says = [f \in Fact |-> IF f \in reuse THEN run.proofs[f].says
                                                                    ELSE @[f]]]
  <1>1. k.at = "batch" /\ k \in Ticks /\ r \in Runs /\ k.signal \subseteq r.signals
        /\ Sound(r, memory, vouched, e) /\ r.status = "processing" /\ r.contract \in {1, 2}
        /\ Informed(k, vouched) /\ k.id \in Pass /\ k.id \in Started /\ DreamTypes
    BY OwnTick, Zenon DEF Prepare, AtWork, AtEntry, Follows
  <1>0. \/ LeavesRest(t, run)
        \/ Store(k.id, run) /\ tick' = [tick EXCEPT ![t] = g] /\ UNCHANGED Knowledge
    BY Zenon DEF Prepare
  <1>2. X \in SUBSET Fact /\ read \in [Fact -> {"none", "old", "new", "missing"}]
    <2>1. k.rest \in SUBSET Fact /\ k.read \in [Fact -> {"none", "old", "new", "missing"}]
      BY <1>1 DEF Ticks
    <2>2. origin \in [Fact -> {"old", "new", "missing"}]
      BY <1>1 DEF DreamTypes
    <2>3. QED
      BY <2>1, <2>2 DEF Chunk
  <1>3. ask \in SUBSET Fact /\ reuse \in SUBSET Fact
    BY <1>2
  <1>3a. /\ \A f \in Fact : read[f] = IF f \in X /\ k.snap[f] \in Text /\ k.read[f] = "none"
                                       THEN origin[f] ELSE k.read[f]
         /\ \A f \in X : read[f] \in {"old", "new"} /\ k.says[f] = "none" <=> f \in open
         /\ \A f \in reuse : f \in open /\ Bound(k.run, f, k.snap[f], read[f])
         /\ ask = open \ reuse /\ open \subseteq X
    OBVIOUS
  <1>3b. place \in {"batch", "asking"} /\ (ask # {} => place = "asking")
    BY Zenon
  <1>4. \A f \in Fact : run.proofs[f] = IF f \in ask THEN NoProof ELSE r.proofs[f]
    BY <1>1 DEF Runs
  <1>5. /\ run \in Runs /\ run.status = r.status /\ run.signals = r.signals
        /\ run.contract = r.contract /\ Sound(run, memory, vouched, e)
    <2>1. [f \in Fact |-> IF f \in ask THEN NoProof ELSE r.proofs[f]]
             \in [Fact -> Proof \cup {NoProof}]
      BY <1>1 DEF Runs
    <2>2. /\ run \in Runs /\ run.status = r.status /\ run.signals = r.signals
          /\ run.contract = r.contract /\ run.done = r.done /\ run.open = r.open
          /\ run.held = r.held /\ run.applied = r.applied
      <3> DEFINE q == [f \in Fact |-> IF f \in ask THEN NoProof ELSE r.proofs[f]]
      <3>1. q \in [Fact -> Proof \cup {NoProof}] /\ r \in Runs
        BY ONLY <1>1, <2>1
      <3>2. run = [r EXCEPT !.proofs = q]
        BY Zenon
      <3> HIDE DEF q, r, run
      <3>3. run \in Runs
        BY ONLY <3>1, <3>2 DEF Runs
      <3> QED
        BY ONLY <3>1, <3>2, <3>3 DEF Runs
    <2>3. Sound(r, memory, vouched, e)
      BY ONLY <1>1, Zenon
    <2> HIDE DEF run, r, e, ask
    <2>4. /\ run.done \subseteq run.signals
          /\ \A f \in Targets(run.signals) :
                /\ memory[f] # Unused
                /\ run.held[f] \in {Unused, memory[f]} \/ memory[f] = Gone \/ f \in e
          /\ \A f \in Targets(run.done) : f \in run.open \/ Dealt(run, memory, e, f)
          /\ run.status = "completed" => run.open = {} /\ run.signals \subseteq run.done
      BY ONLY <2>2, <2>3 DEF Sound, Dealt
    <2>5. \A f \in Fact : run.proofs[f] # NoProof => [fact |-> f, proof |-> run.proofs[f]] \in vouched
      BY ONLY <1>4, <2>3 DEF Sound
    <2>6. Sound(run, memory, vouched, e)
      BY ONLY <2>4, <2>5, ZenonT(60) DEF Sound
    <2> QED
      BY ONLY <2>2, <2>6
  <1>5a. \A f \in Fact : says[f] = IF f \in reuse THEN run.proofs[f].says ELSE k.says[f]
    OBVIOUS
  <1>5d. says = [f \in Fact |-> IF f \in reuse THEN run.proofs[f].says ELSE k.says[f]]
    OBVIOUS
  <1>5e. more \in {k.asked, "yes"}
    OBVIOUS
  <1> HIDE DEF run, X, read, open, reuse, ask
  <1>5b. g = [k EXCEPT !.at = place, !.asked = more, !.run = run, !.read = read,
                       !.asking = ask, !.rest = k.rest \ X, !.says = says]
    OBVIOUS
  <1> HIDE DEF says, place, more, g
  <1>5c. /\ g.at = place /\ g.id = k.id /\ g.run = run /\ g.snap = k.snap
         /\ g.read = read /\ g.says = says /\ g.signal = k.signal /\ g.asking = ask
    BY <1>1, <1>5b DEF Ticks
  <1>6. CASE LeavesRest(t, run)
    <2>1. QED
      BY <1>1, <1>5, <1>6, LeavesRestKeeps DEF AtWork, AtEntry
  <1>7. CASE Store(k.id, run) /\ tick' = [tick EXCEPT ![t] = g] /\ UNCHANGED Knowledge
    <2>1. WorldMoves /\ UNCHANGED <<memory, vouched, edited>>
      BY <1>1, <1>7, WorldRests DEF Knowledge
    <2>2. GoodRun(k.id, run) /\ Stores(k.id, run) /\ Becomes(t, g)
      BY <1>1, <1>5, <1>7, <2>1 DEF GoodRun, Store, Stores, Becomes
    <2>3. Started \subseteq Started'
      BY <1>1, <1>5, <2>2, StartedStays
    <2>4. \A f \in reuse : /\ r.proofs[f] \in Proof /\ run.proofs[f] = r.proofs[f]
                           /\ r.proofs[f].text = k.snap[f] /\ r.proofs[f].source = read[f]
                           /\ [fact |-> f, proof |-> r.proofs[f]] \in vouched
      <3>1. r.proofs \in [Fact -> Proof \cup {NoProof}]
        BY <1>1 DEF Runs
      <3>2. QED
        BY <1>1, <1>3, <1>3a, <1>4, <3>1 DEF Bound, Sound
    <2>5. \A f \in reuse : r.proofs[f].says \in Answer /\ r.proofs[f].says # "none"
      BY <2>4, DreamAssumption DEF Proof
    <2>6. says \in [Fact -> Answer \cup {"none"}]
      <3>1. k.says \in [Fact -> Answer \cup {"none"}]
        BY <1>1 DEF Ticks
      <3>2. QED
        BY <1>3, <1>5d, <2>4, <2>5, <3>1
    <2>7. g \in Ticks
      <3>1. more \in {"no", "yes"} /\ k.rest \ X \in SUBSET Fact
        BY <1>1, <1>5e DEF Ticks
      <3>2. QED
        BY <1>1, <1>2, <1>3, <1>3b, <1>5, <1>5b, <2>6, <3>1, ZenonT(60) DEF Ticks, AtWork, AtEntry
    <2>8. Informed(g, vouched)
      <3>1. ASSUME NEW f \in Fact, read[f] # "none" PROVE k.snap[f] \in Text
        BY <1>1, <1>3a, <3>1 DEF Informed
      <3>2. ASSUME NEW f \in Fact, says[f] # "none"
            PROVE  read[f] \in {"old", "new"} /\ Vouches(g, vouched, f)
        <4>1. CASE f \in reuse
          <5>1. says[f] = r.proofs[f].says
            BY <1>5a, <2>4, <4>1
          <5>2. read[f] \in {"old", "new"}
            BY <1>3a, <4>1
          <5>3. QED
            BY <1>5c, <2>4, <4>1, <5>1, <5>2 DEF Vouches
        <4>2. CASE f \notin reuse
          <5>1. says[f] = k.says[f] /\ k.read[f] \in {"old", "new"} /\ Vouches(k, vouched, f)
            BY <1>1, <1>5a, <3>2, <4>2 DEF Informed
          <5>2. read[f] = k.read[f]
            BY <1>3a, <5>1
          <5>3. QED
            BY <1>5c, <5>1, <5>2 DEF Vouches
        <4>3. QED
          BY <4>1, <4>2
      <3>3. ASSUME NEW f \in Fact, read[f] \in {"old", "new"}, says[f] = "none"
            PROVE  f \in ask
        <4>1. f \notin reuse
          BY <1>5a, <2>4, <2>5, <3>3
        <4>2. k.says[f] = "none"
          BY <1>5a, <3>3, <4>1
        <4>3. k.read[f] \notin {"old", "new"}
          BY <1>1, <4>2 DEF Informed
        <4>4. QED
          BY <1>3a, <3>3, <4>1, <4>2, <4>3
      <3>4. \A f \in ask : read[f] \in {"old", "new"}
        BY <1>3a
      <3>5. QED
        BY <1>3b, <1>5c, <3>1, <3>2, <3>3, <3>4 DEF Informed
    <2>9. Follows(g, memory, vouched, e)
      <3>1. g.at \notin AtEntry
        BY <1>3b, <1>5c DEF AtEntry
      <3>2. QED
        BY <1>1, <1>3b, <1>5, <1>5c, <3>1 DEF Follows
    <2>10. Good(g)
      <3>1. Looked(g, origin', slipped')
        BY <1>3b, <1>5c DEF Looked
      <3>2. QED
        BY <3>1, <1>1, <1>5c, <2>1, <2>3, <2>7, <2>8, <2>9 DEF Good
    <2>11. QED
      BY <1>1, <1>5, <2>1, <2>2, <2>10, TickSteps
  <1>8. QED
    BY ONLY <1>0, <1>6, <1>7, Zenon
\* The model answers.
LEMMA ModelAnswersKeeps ==
  ASSUME DreamInv, NEW t \in Tick, ModelAnswers(t)
  PROVE  DreamInv'
  <1> DEFINE k == tick[t]
             r == k.run
             e == edited[k.id]
  <1>0. PICK says \in [k.asking -> Answer] :
           /\ tick' = [tick EXCEPT ![t] = [k EXCEPT !.at = "batch", !.run = Kept(k, says),
                   !.says = [f \in Fact |-> IF f \in k.asking THEN says[f] ELSE @[f]],
                   !.asking = {}]]
           /\ Store(k.id, Kept(k, says))
           /\ vouched' = vouched \cup
                  {[fact |-> f, proof |-> [text |-> k.snap[f], source |-> k.read[f],
                                           contract |-> k.run.contract, says |-> says[f]]] :
                      f \in k.asking}
    BY Zenon DEF ModelAnswers
  <1>1. /\ k.at = "asking" /\ k \in Ticks /\ r \in Runs /\ k.signal \subseteq r.signals
        /\ Sound(r, memory, vouched, e) /\ r.status = "processing" /\ r.contract \in {1, 2}
        /\ Informed(k, vouched) /\ k.id \in Pass /\ k.id \in Started /\ DreamTypes
        /\ UNCHANGED <<memory, origin, contract, active, events, edited, slipped>>
    BY OwnTick DEF ModelAnswers, AtWork, AtEntry, Follows
  <1> DEFINE P(f) == [text |-> k.snap[f], source |-> k.read[f],
                      contract |-> r.contract, says |-> says[f]]
             V == {[fact |-> f, proof |-> P(f)] : f \in k.asking}
             proofs == [f \in Fact |->
                IF f \notin k.asking THEN r.proofs[f] ELSE IF says[f] = "unclear" THEN NoProof
                ELSE P(f)]
             F == {f \in k.asking : says[f] \notin {"durable", "temporary"}}
             n == [r EXCEPT !.proofs = proofs, !.open = r.open \cup F]
             given == [f \in Fact |-> IF f \in k.asking THEN says[f] ELSE k.says[f]]
             g == [k EXCEPT !.at = "batch", !.run = n, !.says = given, !.asking = {}]
  <1>2. Store(k.id, n) /\ tick' = [tick EXCEPT ![t] = g] /\ vouched' = vouched \cup V
    BY <1>0, Zenon DEF Kept
  <1>3. k.asking \in SUBSET Fact /\ F \in SUBSET Fact
    BY <1>1, SMTT(40) DEF Ticks
  <1>4. \A f \in k.asking : /\ k.read[f] \in {"old", "new"} /\ k.snap[f] \in Text
                            /\ says[f] \in Answer /\ says[f] # "none" /\ P(f) \in Proof
                            /\ [fact |-> f, proof |-> P(f)] \in vouched'
    <2>1. ASSUME NEW f \in k.asking
          PROVE  k.read[f] \in {"old", "new"} /\ k.snap[f] \in Text
                 /\ says[f] \in Answer /\ says[f] # "none"
      BY <1>1, <1>3, DreamAssumption DEF Informed
    <2>2. ASSUME NEW f \in k.asking
          PROVE  P(f) \in Proof
      BY <1>1, <2>1 DEF Proof
    <2>3. QED
      BY <1>2, <2>1, <2>2
  <1>5. WorldMoves
    <2>1. V \subseteq [fact : Fact, proof : Proof]
      BY <1>3, <1>4
    <2> HIDE DEF V
    <2>2. QED
      BY <1>1, <1>2, <2>1 DEF WorldMoves, DreamTypes
  <1>6. /\ n \in Runs /\ n.status = r.status /\ n.signals = r.signals /\ n.contract = r.contract
        /\ n.done = r.done /\ n.held = r.held /\ n.applied = r.applied
        /\ n.open = r.open \cup F /\ n.proofs = proofs
    <2>1. proofs \in [Fact -> Proof \cup {NoProof}]
      <3>1. r.proofs \in [Fact -> Proof \cup {NoProof}]
        BY <1>1 DEF Runs
      <3> HIDE DEF P
      <3>2. QED
        BY <3>1, <1>4
    <2>2. r.open \cup F \in SUBSET Fact
      BY <1>1, <1>3 DEF Runs
    <2> HIDE DEF proofs, F
    <2>3. QED
      BY <1>1, <2>1, <2>2 DEF Runs
  <1>7. \A f \in Fact : proofs[f] # NoProof => [fact |-> f, proof |-> proofs[f]] \in vouched'
    <2>1. ASSUME NEW f \in Fact, proofs[f] # NoProof
          PROVE  [fact |-> f, proof |-> proofs[f]] \in vouched'
      <3>1. CASE f \in k.asking
        <4>1. proofs[f] = P(f)
          BY <2>1, <3>1, SMTT(40)
        <4> HIDE DEF P, proofs
        <4>2. QED
          BY <1>4, <3>1, <4>1
      <3>2. CASE f \notin k.asking
        <4>1. proofs[f] = r.proofs[f]
          BY <3>2
        <4> HIDE DEF proofs
        <4>2. QED
          BY <1>1, <1>2, <2>1, <4>1 DEF Sound
      <3>3. QED
        BY <3>1, <3>2
    <2>2. QED
      BY <2>1
  <1>8. \A f \in Fact : given[f] = IF f \in k.asking THEN says[f] ELSE k.says[f]
    OBVIOUS
  <1>9. given \in [Fact -> Answer \cup {"none"}]
    <2>1. k.says \in [Fact -> Answer \cup {"none"}]
      BY <1>1 DEF Ticks
    <2>2. QED
      BY <1>4, <2>1
  <1>10. \A f \in k.asking : P(f).text = k.snap[f] /\ P(f).source = k.read[f] /\ P(f).says = says[f]
    OBVIOUS
  <1> HIDE DEF P, V, proofs, F, n, given
  <1>11. /\ g \in Ticks /\ g.at = "batch" /\ g.id = k.id /\ g.run = n /\ g.snap = k.snap
         /\ g.read = k.read /\ g.says = given /\ g.signal = k.signal /\ g.asking = {}
    BY <1>1, <1>6, <1>9 DEF Ticks, AtWork, AtEntry
  <1> HIDE DEF g
  <1>12. Sound(n, memory', vouched', edited'[k.id])
    BY <1>1, <1>6, <1>7 DEF Sound, Dealt
  <1>13. Informed(g, vouched')
    <2>1. ASSUME NEW f \in Fact, given[f] # "none"
          PROVE  k.read[f] \in {"old", "new"} /\ Vouches(g, vouched', f)
      <3>1. CASE f \in k.asking
        <4>1. given[f] = says[f] /\ [fact |-> f, proof |-> P(f)] \in vouched'
          BY <1>4, <1>8, <3>1
        <4>2. Vouches(g, vouched', f)
          BY <1>10, <1>11, <3>1, <4>1 DEF Vouches
        <4>3. QED
          BY <1>4, <3>1, <4>2
      <3>2. CASE f \notin k.asking
        <4>1. given[f] = k.says[f] /\ Vouches(k, vouched, f) /\ k.read[f] \in {"old", "new"}
          BY <1>1, <1>8, <2>1, <3>2 DEF Informed
        <4>2. QED
          BY <1>2, <1>11, <4>1 DEF Vouches
      <3>3. QED
        BY <3>1, <3>2
    <2>2. \A f \in Fact : k.read[f] \in {"old", "new"} => given[f] # "none"
      BY <1>1, <1>4, <1>8 DEF Informed
    <2>3. \A f \in Fact : k.read[f] # "none" => k.snap[f] \in Text
      BY <1>1 DEF Informed
    <2>4. QED
      BY <1>11, <2>1, <2>2, <2>3 DEF Informed
  <1>14. Stores(k.id, n) /\ Becomes(t, g) /\ GoodRun(k.id, n)
    BY <1>1, <1>2, <1>6, <1>12 DEF Stores, Store, Becomes, GoodRun
  <1>15. Started \subseteq Started'
    BY <1>1, <1>6, <1>14, StartedStays
  <1>16. Good(g)
    BY <1>1, <1>6, <1>11, <1>12, <1>13, <1>15 DEF Good, Looked, Follows, AtEntry
  <1>17. QED
    BY <1>1, <1>5, <1>6, <1>14, <1>16, TickSteps
-----------------------------------------------------------------------------
\* A slice opens a run.
LEMMA OpensKeeps ==
  ASSUME DreamInv, WorldMoves, NEW t \in Tick, NEW p \in Pass, NEW n \in Runs, NEW s \in Runs,
         tick[t].at = "claimed", UNCHANGED <<memory, vouched, edited>>,
         n.status = "processing", n.contract \in {1, 2}, Sound(n, memory, vouched, edited[p]),
         s.status = "processing", Sound(s, memory, vouched, edited[p]), Store(p, s),
         NEW x \in [Fact -> Texts],
         tick' = [tick EXCEPT ![t] = [@ EXCEPT !.at = "signal", !.id = p, !.run = n, !.snap = x]]
  PROVE  DreamInv'
  <1> DEFINE g == [tick[t] EXCEPT !.at = "signal", !.id = p, !.run = n, !.snap = x]
  <1>1. tick[t] \in Ticks /\ Informed(tick[t], vouched) /\ DreamTypes
    BY OwnTick
  <1>2. Becomes(t, g) /\ Stores(p, s) /\ GoodRun(p, s)
    BY <1>1 DEF Becomes, Store, Stores, GoodRun, DreamTypes
  <1>3. /\ g \in Ticks /\ g.at = "signal" /\ g.id = p /\ g.run = n
        /\ g.read = tick[t].read /\ g.says = tick[t].says /\ g.signal = tick[t].signal
    BY <1>1 DEF Ticks, AtWork, AtEntry
  <1> HIDE DEF g
  <1>4. g.signal = {} /\ \A f \in Fact : g.read[f] = "none" /\ g.says[f] = "none"
    BY <1>1, <1>3 DEF Informed
  <1>5. Informed(g, vouched')
    BY <1>3, <1>4 DEF Informed
  <1>6. p \in Started'
    BY <1>1, <1>2 DEF DreamTypes, Stores, Started
  <1>7. Good(g)
    BY <1>3, <1>4, <1>5, <1>6 DEF Good, Looked, Follows, AtEntry
  <1>8. QED
    BY <1>2, <1>7, TickSteps

\* A run that goes on, with what is still under review, and maybe less done.
LEMMA ReviewsAreSound ==
  ASSUME DreamTypes, NEW r \in Runs, NEW v, NEW e, Sound(r, memory, v, e),
         NEW n \in Runs, n.status # "completed", n.signals = r.signals,
         n.done \subseteq r.done, n.open = r.open, n.applied = r.applied, n.proofs = r.proofs,
         \A f \in Fact : n.held[f] = IF r.held[f] = memory[f] THEN memory[f] ELSE Unused
  PROVE  Sound(n, memory, v, e)
  <1>1. \A f \in Targets(n.done) : f \in Targets(r.done) /\ f \in Targets(r.signals) /\ f \in Fact
    BY TargetSets DEF Runs, Sound
  <1>2. ASSUME NEW f \in Targets(n.done) PROVE f \in n.open \/ Dealt(n, memory, e, f)
    BY <1>1 DEF Sound, Dealt
  <1>3. \A f \in Targets(n.signals) : f \in Fact
    BY TargetSets DEF Runs
  <1>4. QED
    BY <1>2, <1>3 DEF Sound

\* The reviews that are still due name texts.
LEMMA ReviewTypes ==
  ASSUME DreamTypes
  PROVE  [f \in Fact |-> IF Reviews[f] = memory[f] THEN memory[f] ELSE Unused]
            \in [Fact -> Text \cup {Unused}]
  <1>1. Latest # 0 => Latest \in Pass
    BY LatestIsThere
  <1>2. Reviews \in [Fact -> Text \cup {Unused}]
    BY <1>1 DEF Reviews, DreamTypes, Runs
  <1>3. QED
    BY <1>2

\* A run that starts has something to recheck, and nothing done.
LEMMA StartRunKeeps ==
  ASSUME DreamInv, NEW t \in Tick, StartRun(t)
  PROVE  DreamInv'
  <1> DEFINE p == Latest + 1
             reviews == [f \in Fact |-> IF Reviews[f] = memory[f] THEN memory[f] ELSE Unused]
             r == [NoRun EXCEPT !.signals = Detected, !.slices = 1, !.contract = contract]
             n == [r EXCEPT !.status = "processing", !.by = t, !.held = reviews]
             s == [NoRun EXCEPT !.status = "processing", !.by = t, !.held = reviews]
             x == [f \in Fact |-> IF f \in Targets(r.signals) THEN memory[f] ELSE Unused]
  <1>1. /\ tick[t].at = "claimed" /\ Latest < MaxPasses /\ DreamTypes
        /\ Store(p, s)
        /\ tick' = [tick EXCEPT ![t] = [@ EXCEPT !.at = "signal", !.id = p, !.run = n, !.snap = x]]
        /\ active' = "no" /\ UNCHANGED <<memory, origin, contract, events, vouched, edited, slipped>>
    BY Zenon DEF StartRun, Opens, DreamInv
  <1>2. WorldMoves
    BY <1>1 DEF WorldMoves, DreamTypes
  <1>3. p \in Pass
    BY <1>1, LatestIsThere
  <1>4. reviews \in [Fact -> Text \cup {Unused}]
        /\ \A f \in Fact : reviews[f] \in {Unused, memory[f]}
    BY <1>1, ReviewTypes
  <1>5. x \in [Fact -> Texts]
    BY <1>1 DEF DreamTypes, Texts
  <1>6. NoRun \in Runs /\ Detected \in SUBSET Signal /\ contract \in {1, 2}
    BY <1>1, FreshValues, DetectedIsCurrent DEF DreamTypes
  <1> HIDE DEF reviews, x, p
  <1>7. /\ n \in Runs /\ n.status = "processing" /\ n.signals = Detected /\ n.held = reviews
        /\ n.done = NoRun.done /\ n.proofs = NoRun.proofs /\ n.contract = contract
    BY <1>4, <1>6, ZenonT(60) DEF Runs
  <1>8. /\ s \in Runs /\ s.status = "processing" /\ s.signals = NoRun.signals
        /\ s.done = NoRun.done /\ s.proofs = NoRun.proofs
    BY <1>4, <1>6 DEF Runs
  <1> HIDE DEF n, s
  <1>9. Sound(n, memory, vouched, edited[p])
    <2>1. \A f \in Targets(Detected) : f \in Fact /\ memory[f] # Unused
      BY <1>1, <1>6, DetectedIsCurrent, TargetSets, DreamAssumption
    <2>2. Targets(n.done) = {}
      BY <1>7, FreshValues, TargetSets
    <2>3. QED
      BY <1>4, <1>7, <2>1, <2>2, FreshValues DEF Sound
  <1>10. Sound(s, memory, vouched, edited[p])
    BY <1>8, FreshValues, TargetSets DEF Sound
  <1>11. QED
    BY <1>1, <1>2, <1>3, <1>5, <1>6, <1>7, <1>8, <1>9, <1>10, OpensKeeps
\* A run that goes on, or has gone on for too long.
LEMMA ContinueRunKeeps ==
  ASSUME DreamInv, NEW t \in Tick, ContinueRun(t)
  PROVE  DreamInv'
  <1> DEFINE p == Latest
             r == ledger[p]
             reviews == [f \in Fact |-> IF Reviews[f] = memory[f] THEN memory[f] ELSE Unused]
             a == [r EXCEPT !.slices = @ + 1, !.done = Reopened(r), !.contract = contract]
             n == [a EXCEPT !.status = "processing", !.by = t, !.held = reviews]
             s == [r EXCEPT !.status = "processing", !.by = t, !.held = reviews]
             x == [f \in Fact |-> IF f \in Targets(a.signals) THEN memory[f] ELSE Unused]
             d == [a EXCEPT !.status = "failed", !.by = t]
             g == [tick[t] EXCEPT !.at = "closing", !.id = p, !.run = d]
  <1>1. tick[t].at = "claimed" /\ p # 0 /\ DreamTypes /\ UNCHANGED Knowledge
    BY DEF ContinueRun, Continues, DreamInv
  <1>2. \/ Store(p, s) /\ tick' = [tick EXCEPT ![t] = [@ EXCEPT !.at = "signal", !.id = p,
                                                          !.run = n, !.snap = x]]
        \/ Store(p, d) /\ tick' = [tick EXCEPT ![t].at = "closing", ![t].id = p, ![t].run = d]
    BY DEF ContinueRun, Opens
  <1>3. p \in Pass /\ r \in Runs /\ Sound(r, memory, vouched, edited[p])
    BY <1>1, LatestIsThere DEF DreamTypes, DreamInv, LedgerSound
  <1>4. WorldMoves /\ UNCHANGED <<memory, vouched, edited>>
    BY <1>1, WorldRests DEF Knowledge
  <1>5. Reopened(r) \in SUBSET Signal /\ Reopened(r) \subseteq r.done /\ r.slices + 1 \in Nat
        /\ contract \in {1, 2}
    BY <1>1, <1>3 DEF Reopened, Runs, DreamTypes
  <1>6. reviews \in [Fact -> Text \cup {Unused}]
        /\ \A f \in Fact : reviews[f] = IF r.held[f] = memory[f] THEN memory[f] ELSE Unused
    BY <1>1, ReviewTypes DEF Reviews
  <1>7. x \in [Fact -> Texts]
    BY <1>1 DEF DreamTypes, Texts
  <1>8. /\ a \in Runs /\ a.signals = r.signals /\ a.done = Reopened(r) /\ a.contract = contract
        /\ a.open = r.open /\ a.held = r.held /\ a.applied = r.applied /\ a.proofs = r.proofs
    BY <1>3, <1>5 DEF Runs
  <1> HIDE DEF p, r, a, reviews, x
  <1>10. /\ n \in Runs /\ n.status = "processing" /\ n.signals = r.signals /\ n.held = reviews
         /\ n.done = Reopened(r) /\ n.proofs = r.proofs /\ n.contract = contract
         /\ n.open = r.open /\ n.applied = r.applied
    BY <1>6, <1>8 DEF Runs
  <1>11. /\ s \in Runs /\ s.status = "processing" /\ s.signals = r.signals /\ s.held = reviews
         /\ s.done = r.done /\ s.proofs = r.proofs /\ s.open = r.open /\ s.applied = r.applied
    BY <1>3, <1>6 DEF Runs
  <1>12. /\ d \in Runs /\ d.status = "failed" /\ d.signals = r.signals /\ d.held = r.held
         /\ d.done = Reopened(r) /\ d.proofs = r.proofs
         /\ d.open = r.open /\ d.applied = r.applied
    BY <1>8 DEF Runs
  <1> HIDE DEF n, s, d
  <1>13. Sound(n, memory, vouched, edited[p])
    BY <1>1, <1>3, <1>5, <1>6, <1>10, ReviewsAreSound
  <1>14. Sound(s, memory, vouched, edited[p])
    BY <1>1, <1>3, <1>6, <1>11, ReviewsAreSound
  <1>15. Sound(d, memory, vouched, edited[p])
    <2>1. \A f \in Targets(d.done) : f \in Targets(r.done)
      BY <1>3, <1>5, <1>12, TargetSets DEF Runs
    <2>2. QED
      BY <1>3, <1>5, <1>12, <2>1 DEF Sound, Dealt
  <1>16. CASE Store(p, s) /\ tick' = [tick EXCEPT ![t] = [@ EXCEPT !.at = "signal", !.id = p,
                                                             !.run = n, !.snap = x]]
    BY <1>1, <1>3, <1>4, <1>5, <1>7, <1>10, <1>11, <1>13, <1>14, <1>16, OpensKeeps
  <1>17. CASE Store(p, d) /\ tick' = [tick EXCEPT ![t].at = "closing", ![t].id = p, ![t].run = d]
    <2>1. tick[t] \in Ticks /\ Informed(tick[t], vouched)
      BY OwnTick
    <2>2. Becomes(t, g) /\ Stores(p, d) /\ GoodRun(p, d)
      BY <1>1, <1>3, <1>4, <1>12, <1>15, <1>17 DEF Becomes, Store, Stores, GoodRun,
         DreamTypes
    <2>3. /\ g \in Ticks /\ g.at = "closing" /\ g.id = p /\ g.run = d
          /\ g.read = tick[t].read /\ g.says = tick[t].says /\ g.signal = tick[t].signal
      BY <1>3, <1>12, <2>1 DEF Ticks, Ending
    <2> HIDE DEF g
    <2>4. g.signal = {} /\ \A f \in Fact : g.read[f] = "none" /\ g.says[f] = "none"
      BY <1>1, <2>1, <2>3 DEF Informed
    <2>5. Informed(g, vouched')
      BY <2>3, <2>4 DEF Informed
    <2>6. p \in Started'
      BY <1>1, <1>3, <1>12, <2>2 DEF DreamTypes, Stores, Started
    <2>7. Good(g)
      BY <1>4, <1>12, <1>15, <2>3, <2>4, <2>5, <2>6 DEF Good, Looked, Follows, AtWork, AtEntry
    <2>8. QED
      BY <1>4, <1>3, <1>12, <2>2, <2>7, TickSteps
  <1>18. QED
    BY <1>2, <1>16, <1>17
-----------------------------------------------------------------------------
\* What becomes of an entry is recorded in the copy of the run.
LEMMA RecordIsSound ==
  ASSUME DreamTypes, WorldMoves, NEW r \in Runs, NEW p \in Started, r.status = "processing",
         Sound(r, memory, vouched, edited[p]), NEW f \in Targets(r.signals), NEW did,
         did = "reviewed" => memory[f] \in Text /\ memory' = memory,
         NEW n \in Runs, n.status = r.status, n.signals = r.signals, n.done = r.done,
         n.proofs = r.proofs,
         n.open = IF did \in {"skipped", "rejected"} THEN r.open \cup {f} ELSE r.open \ {f},
         n.applied = IF did \in {"deleted", "trimmed", "refreshed"} THEN r.applied \cup {f}
                                                                    ELSE r.applied,
         n.held = [r.held EXCEPT ![f] = UnderReview(r, f, did)],
         did \in {"reviewed", "skipped", "rejected", "deleted", "trimmed", "refreshed"}
  PROVE  /\ Sound(n, memory', vouched', edited'[p])
         /\ f \in n.open \/ Dealt(n, memory', edited'[p], f)
         /\ \A h \in Fact : h \in r.open \/ Dealt(r, memory, edited[p], h) =>
               h \in n.open \/ Dealt(n, memory', edited'[p], h)
  <1> DEFINE e == edited'[p]
  <1>1. Sound(r, memory', vouched', e) /\ p \in Pass /\ r.signals \in SUBSET Signal
    BY SoundStays DEF Started, Runs
  <1>2. f \in Fact /\ memory'[f] # Unused /\ r.held \in [Fact -> Text \cup {Unused}]
    BY <1>1, TargetSets DEF Sound, Runs
  <1>3. \A h \in Fact \ {f} : /\ n.held[h] = r.held[h] /\ (h \in n.open <=> h \in r.open)
                              /\ h \in n.applied <=> h \in r.applied
    BY <1>2
  <1>4. n.held[f] = UnderReview(r, f, did)
    BY <1>2
  <1>5. f \in n.open \/ Dealt(n, memory', e, f)
    <2>1. CASE did = "reviewed"
      <3>1. n.held[f] = memory[f] /\ memory[f] # Unused
        BY <1>4, <2>1, DreamAssumption DEF UnderReview
      <3>2. QED
        BY <3>1 DEF Dealt
    <2>2. CASE did \in {"skipped", "rejected"}
      BY <2>2
    <2>3. CASE did \in {"deleted", "trimmed", "refreshed"}
      BY <2>3 DEF Dealt
    <2>4. QED
      BY <2>1, <2>2, <2>3
  <1>6. ASSUME NEW h \in Fact, h \in r.open \/ Dealt(r, memory, edited[p], h)
        PROVE  h \in n.open \/ Dealt(n, memory', e, h)
    <2>1. CASE h = f
      BY <1>5, <2>1
    <2>2. CASE h # f
      <3>1. edited[p] \subseteq e
        BY <1>1 DEF WorldMoves
      <3>2. QED
        BY <1>3, <1>6, <2>2, <3>1 DEF Dealt, WorldMoves
    <2>3. QED
      BY <2>1, <2>2
  <1>7. ASSUME NEW h \in Targets(n.signals)
        PROVE  memory'[h] # Unused
               /\ (n.held[h] \in {Unused, memory'[h]} \/ memory'[h] = Gone \/ h \in e)
    <2>1. h \in Fact /\ memory'[h] # Unused
          /\ (r.held[h] \in {Unused, memory'[h]} \/ memory'[h] = Gone \/ h \in e)
      BY <1>1, TargetSets DEF Sound
    <2>2. CASE h # f
      BY <1>3, <2>1, <2>2
    <2>3. CASE h = f
      <3>1. n.held[f] \in {Unused, r.held[f]} \/ (did = "reviewed" /\ n.held[f] = memory[f])
        BY <1>4 DEF UnderReview
      <3>2. QED
        BY <2>1, <2>3, <3>1
    <2>4. QED
      BY <2>2, <2>3
  <1>8. \A h \in Targets(n.done) : h \in n.open \/ Dealt(n, memory', e, h)
    <2>1. ASSUME NEW h \in Targets(r.done)
          PROVE  h \in Fact /\ (h \in r.open \/ Dealt(r, memory, edited[p], h))
      BY TargetSets DEF Sound, Runs
    <2>2. QED
      BY <1>6, <2>1
  <1>9. Sound(n, memory', vouched', e)
    <2> HIDE DEF e
    <2>1. n.done \subseteq n.signals /\ n.status # "completed"
      BY DEF Sound
    <2>2. \A h \in Fact : n.proofs[h] # NoProof => [fact |-> h, proof |-> n.proofs[h]] \in vouched'
      BY <1>1 DEF Sound
    <2>3. QED
      BY <1>7, <1>8, <2>1, <2>2 DEF Sound
  <1>10. QED
    BY <1>5, <1>6, <1>9

\* The decision about one entry, and the end of its group.
LEMMA ApplyOneKeeps ==
  ASSUME DreamInv, NEW t \in Tick, NEW f \in Fact, ApplyOne(t, f)
  PROVE  DreamInv'
  <1> DEFINE k == tick[t]
             r == k.run
             did == Outcome(t, f)
             one == Recorded(r, f, did)
             last == k.todo = {f}
             e == edited[k.id]
  <1>1. /\ k.at \in AtEntry /\ f \in k.todo /\ k \in Ticks /\ r \in Runs
        /\ k.signal \subseteq r.signals /\ k.todo \subseteq Targets(k.signal)
        /\ Follows(k, memory, vouched, e)
        /\ Sound(r, memory, vouched, e) /\ r.status = "processing" /\ r.contract \in {1, 2}
        /\ Informed(k, vouched) /\ k.id \in Pass /\ k.id \in Started /\ DreamTypes
        /\ UNCHANGED <<origin, contract, active, events, vouched, edited, slipped>>
    BY OwnTick DEF ApplyOne, Writing, AtWork, AtEntry, Follows
  <1>2. f \in Targets(r.signals) /\ memory[f] # Unused
    BY <1>1, TargetSets DEF Sound, Runs
  <1>3. PICK n :
           /\ \/ n = one /\ did \notin {"deleted", "trimmed"} /\ UNCHANGED memory
              \/ n = one /\ did = "deleted" /\ memory' = [memory EXCEPT ![f] = Gone]
              \/ /\ did = "trimmed"
                 /\ \E g \in Fact :
                      /\ memory[g] = Unused
                      /\ memory' = [memory EXCEPT ![f] = Gone, ![g] = Trimmed]
                      /\ n = [one EXCEPT !.covered = @ \cup {<<g, Trimmed>>}]
           /\ tick' = [tick EXCEPT ![t] = IF last THEN GroupEnds(k, n)
                                          ELSE [k EXCEPT !.at = "applying", !.run = n, !.todo = @ \ {f},
                                                          !.now = {}]]
    BY DEF ApplyOne
  <1>4. IF last THEN Store(k.id, tick'[t].run) ELSE UNCHANGED ledger
    BY DEF ApplyOne
  <1>5. did \in {"reviewed", "skipped", "rejected", "deleted", "trimmed", "refreshed"}
        /\ (did = "reviewed" => k.read[f] = "missing" /\ memory[f] = k.snap[f])
    BY DEF Outcome
  <1>6. did = "reviewed" => memory[f] \in Text /\ memory' = memory
    BY <1>1, <1>3, <1>5 DEF Informed
  <1>7. WorldMoves
    <2>1. memory' \in [Fact -> Texts]
      BY <1>1, <1>3, DreamAssumption DEF DreamTypes, Texts
    <2>2. \A h \in Fact : memory[h] # Unused => memory'[h] = memory[h] \/ memory'[h] = Gone
      BY <1>1, <1>3 DEF DreamTypes
    <2>3. /\ UNCHANGED <<origin, contract, active, events, vouched, edited, slipped>>
          /\ DreamTypes
      BY <1>1
    <2>4. \A h \in Fact : memory[h] = Gone => memory'[h] = Gone
      BY <1>1, <1>2, <1>3, DreamAssumption DEF DreamTypes
    <2>5. \A h \in Fact : memory[h] # Unused => memory'[h] # Unused
      BY <2>2, DreamAssumption
    <2>6. QED
      BY ONLY <2>1, <2>2, <2>3, <2>4, <2>5 DEF WorldMoves, DreamTypes
  <1> HIDE DEF did
  <1>8. /\ one \in Runs /\ one.status = r.status /\ one.signals = r.signals /\ one.done = r.done
        /\ one.proofs = r.proofs /\ one.contract = r.contract
        /\ one.open = IF did \in {"skipped", "rejected"} THEN r.open \cup {f} ELSE r.open \ {f}
        /\ one.applied = IF did \in {"deleted", "trimmed", "refreshed"} THEN r.applied \cup {f}
                                                                        ELSE r.applied
        /\ one.held = [r.held EXCEPT ![f] = UnderReview(r, f, did)]
    <2> DEFINE o == IF did \in {"skipped", "rejected"} THEN r.open \cup {f} ELSE r.open \ {f}
               a == IF did \in {"deleted", "trimmed", "refreshed"} THEN r.applied \cup {f}
                                                                   ELSE r.applied
               c == IF did = "refreshed" THEN r.covered \cup {<<f, memory[f]>>} ELSE r.covered
               h == [r.held EXCEPT ![f] = UnderReview(r, f, did)]
    <2>1. one = [r EXCEPT !.open = o, !.applied = a, !.covered = c, !.held = h]
      BY <1>1 DEF Recorded, Runs
    <2>2. o \in SUBSET Fact /\ a \in SUBSET Fact
      BY <1>1 DEF Runs
    <2>3. c \in SUBSET (Fact \X Texts)
      BY <1>1 DEF Runs, DreamTypes
    <2>4. h \in [Fact -> Text \cup {Unused}]
      <3>1. r.held \in [Fact -> Text \cup {Unused}]
        BY <1>1 DEF Runs
      <3>2. UnderReview(r, f, did) \in Text \cup {Unused}
        BY <1>6, <3>1 DEF UnderReview
      <3>3. QED
        BY <3>1, <3>2
    <2> HIDE DEF o, a, c, h, one
    <2>5. /\ one \in Runs /\ one.status = r.status /\ one.signals = r.signals /\ one.done = r.done
          /\ one.proofs = r.proofs /\ one.contract = r.contract
          /\ one.open = o /\ one.applied = a /\ one.held = h
      BY <1>1, <2>1, <2>2, <2>3, <2>4 DEF Runs
    <2>6. QED
      BY <2>5 DEF o, a, h
  <1> HIDE DEF one
  <1>9. /\ n \in Runs /\ n.status = r.status /\ n.signals = r.signals /\ n.done = r.done
        /\ n.proofs = r.proofs /\ n.contract = r.contract
        /\ n.open = one.open /\ n.applied = one.applied /\ n.held = one.held
    <2>1. ASSUME NEW g \in Fact, n = [one EXCEPT !.covered = @ \cup {<<g, Trimmed>>}]
          PROVE  /\ n \in Runs /\ n.status = one.status /\ n.signals = one.signals
                 /\ n.done = one.done
                 /\ n.proofs = one.proofs /\ n.contract = one.contract
                 /\ n.open = one.open /\ n.applied = one.applied /\ n.held = one.held
      <3>1. one.covered \cup {<<g, Trimmed>>} \in SUBSET (Fact \X Texts)
        BY <1>8, DreamAssumption DEF Runs, Texts
      <3>2. QED
        BY <1>8, <2>1, <3>1 DEF Runs
    <2>2. QED
      BY <1>3, <1>8, <2>1
  <1>10. /\ Sound(n, memory', vouched', edited'[k.id])
         /\ f \in n.open \/ Dealt(n, memory', edited'[k.id], f)
         /\ \A h \in Fact : h \in r.open \/ Dealt(r, memory, e, h) =>
               h \in n.open \/ Dealt(n, memory', edited'[k.id], h)
    <2>1. /\ n.open = IF did \in {"skipped", "rejected"} THEN r.open \cup {f} ELSE r.open \ {f}
          /\ n.applied = IF did \in {"deleted", "trimmed", "refreshed"} THEN r.applied \cup {f}
                                                                         ELSE r.applied
          /\ n.held = [r.held EXCEPT ![f] = UnderReview(r, f, did)]
      BY <1>8, <1>9
    <2> HIDE DEF r
    <2>2. QED
      <3>1. /\ DreamTypes /\ WorldMoves /\ r \in Runs /\ k.id \in Started /\ r.status = "processing"
            /\ Sound(r, memory, vouched, edited[k.id]) /\ f \in Targets(r.signals)
        BY ONLY <1>1, <1>2, <1>5, <1>6, <1>7, Zenon
      <3>2. /\ did = "reviewed" => memory[f] \in Text /\ memory' = memory
            /\ did \in {"reviewed", "skipped", "rejected", "deleted", "trimmed", "refreshed"}
        BY ONLY <1>5, <1>6, <1>7, Zenon
      <3>3. /\ n \in Runs /\ n.status = r.status /\ n.signals = r.signals /\ n.done = r.done
            /\ n.proofs = r.proofs
        BY ONLY <1>9, Zenon
      <3> HIDE DEF k, did
      <3> QED
        BY ONLY <3>1, <3>2, <3>3, <2>1, RecordIsSound, ZenonT(60)
  <1>11. ASSUME NEW h \in Targets(k.signal) \ (k.todo \ {f})
         PROVE  h \in n.open \/ Dealt(n, memory', edited'[k.id], h)
    <2>1. CASE h = f
      BY <1>10, <2>1
    <2>2. CASE h # f
      <3>1. h \in Targets(k.signal) \ k.todo /\ h \in Fact
        BY <1>1, <2>2, TargetSets DEF Runs
      <3>2. QED
        BY <1>1, <1>10, <3>1 DEF Follows
    <2>3. QED
      BY <2>1, <2>2
  <1>12. CASE ~last
    <2> DEFINE g == [k EXCEPT !.at = "applying", !.run = n, !.todo = k.todo \ {f}, !.now = {}]
    <2>1. Becomes(t, g) /\ Keeps /\ Started' = Started
      BY <1>3, <1>4, <1>12 DEF Becomes, Keeps, Started
    <2>2. /\ g \in Ticks /\ g.at = "applying" /\ g.id = k.id /\ g.read = k.read
          /\ g.snap = k.snap /\ g.says = k.says /\ g.signal = k.signal /\ g.run = n
          /\ g.todo = k.todo \ {f}
      <3>1. k.todo \ {f} \in SUBSET Fact
        BY <1>1 DEF Ticks
      <3>2. g = PutAt(k, "applying", n, k.todo \ {f}, {})
        BY DEF PutAt
      <3>3. "applying" \in AtEntry /\ n \in Runs /\ k \in Ticks
        BY <1>1, <1>9 DEF AtEntry
      <3> HIDE DEF g, k
      <3>4. QED
        BY ONLY <3>1, <3>2, <3>3, PlaceSets
    <2> HIDE DEF g
    <2>3. Good(g)
      BY <1>1, <1>9, <1>10, <1>11, <2>1, <2>2, CarriesIsGood DEF AtWork, AtEntry, Ending
    <2>4. QED
      BY <1>7, <2>1, <2>3, TickSteps
  <1>13. CASE last
    <2> DEFINE w == [n EXCEPT !.done = n.done \cup k.signal]
               g == [k EXCEPT !.at = "signal", !.signal = {}, !.todo = {}, !.now = {}, !.run = w]
    <2>1. Becomes(t, g)
      BY <1>3, <1>13 DEF Becomes, GroupEnds
    <2>2. /\ w \in Runs /\ w.signals = n.signals /\ w.status = n.status /\ w.contract = n.contract
          /\ Sound(w, memory', vouched', edited'[k.id])
      <3>1. \A h \in Targets(k.signal) : h \in n.open \/ Dealt(n, memory', edited'[k.id], h)
        BY <1>11, <1>13
      <3>2. w = [n EXCEPT !.done = @ \cup k.signal] /\ k.signal \in SUBSET n.signals
        BY <1>1, <1>9
      <3> HIDE DEF w
      <3>3. QED
        BY <1>1, <1>9, <1>10, <3>1, <3>2, GroupIsDone
    <2> HIDE DEF w
    <2>3. /\ g \in Ticks /\ g.at = "signal" /\ g.id = k.id /\ g.read = k.read
          /\ g.snap = k.snap /\ g.says = k.says /\ g.signal = {} /\ g.run = w
      BY <1>1, <2>2 DEF Ticks, AtWork, AtEntry
    <2> HIDE DEF g
    <2>4. Stores(k.id, w)
      BY <1>1, <1>4, <1>13, <2>1, <2>3 DEF Becomes, DreamTypes, Store, Stores
    <2>5. GoodRun(k.id, w)
      BY <1>1, <1>9, <2>2 DEF GoodRun
    <2>6. Started \subseteq Started'
      BY <1>1, <1>9, <2>2, <2>4, StartedStays
    <2>7. Good(g)
      BY <1>1, <1>9, <2>2, <2>3, <2>6, CarriesIsGood DEF AtWork, AtEntry, Ending
    <2>8. QED
      BY <1>1, <1>7, <2>1, <2>2, <2>4, <2>5, <2>7, TickSteps
  <1>14. QED
    BY <1>12, <1>13, SMTT(40)
-----------------------------------------------------------------------------
\* The sources are opened once more: the slice stays where it is in its group.
LEMMA ValidateSourcesKeeps ==
  ASSUME DreamInv, NEW t \in Tick, NEW f \in Fact, ValidateSources(t, f)
  PROVE  DreamInv'
  <1> DEFINE k == [tick[t] EXCEPT !.at = "writing", !.run = tick[t].run, !.todo = tick[t].todo,
                                  !.now = {f}]
  <1>1. WorldMoves /\ Keeps /\ Started' = Started
        /\ UNCHANGED <<memory, origin, vouched, edited, slipped>>
    BY WorldRests DEF DreamInv, ValidateSources, Keeps, Started, Knowledge
  <1>2. Becomes(t, k) /\ tick[t].at = "applying" /\ origin[f] = tick[t].read[f]
    <2>1. k = [tick[t] EXCEPT !.at = "writing", !.now = {f}]
      BY OwnTick DEF Ticks
    <2>2. QED
      BY <2>1 DEF ValidateSources, Becomes, Validated, Unchanged, DreamInv, DreamTypes
  <1>3. /\ k \in Ticks /\ k.at = "writing" /\ k.now = {f} /\ k.id = tick[t].id
        /\ k.run = tick[t].run /\ k.snap = tick[t].snap /\ k.read = tick[t].read
        /\ k.says = tick[t].says /\ k.signal = tick[t].signal /\ k.todo = tick[t].todo
    <2>1. /\ tick[t] \in Ticks /\ tick[t].run \in Runs /\ tick[t].todo \in SUBSET Fact
          /\ {f} \in SUBSET Fact /\ "writing" \in AtEntry
      BY OwnTick DEF Ticks, AtEntry
    <2>2. k = PutAt(tick[t], "writing", tick[t].run, tick[t].todo, {f})
      BY DEF PutAt
    <2> HIDE DEF k
    <2>3. QED
      BY ONLY <2>1, <2>2, PlaceSets
  <1> HIDE DEF k
  <1>4. Informed(k, vouched) /\ k.id \in Started /\ Follows(k, memory, vouched, edited[k.id])
    BY <1>2, <1>3, OwnTick DEF Informed, Follows, Vouches, AtWork, AtEntry
  <1>5. Looked(k, origin, slipped)
    BY <1>2, <1>3 DEF Looked
  <1>6. Good(k)
    BY <1>1, <1>3, <1>4, <1>5 DEF Good
  <1>7. QED
    BY <1>1, <1>2, <1>6, TickSteps

\* What everybody else does to the entries and their sources.
LEMMA OthersKeep ==
  ASSUME DreamInv,
         \/ \E f \in Fact : \/ \E x \in Text \cup {Gone} : UserChanges(f, x)
                            \/ \E x \in {"new", "missing"} : SourceChanges(f, x)
         \/ Upgrade
  PROVE  DreamInv'
  <1>1. DreamTypes /\ events \in Nat /\ MaxEvents \in Nat
    BY DreamAssumption DEF DreamInv, DreamTypes
  <1>2. ASSUME NEW f \in Fact, NEW x \in Text \cup {Gone}, UserChanges(f, x)
        PROVE  WorldMoves /\ UNCHANGED <<ledger, tick>>
    <2>1. /\ memory[f] \in Text /\ memory' = [memory EXCEPT ![f] = x] /\ active' = "yes"
          /\ events' = events + 1 /\ events < MaxEvents
          /\ edited' = [p \in Pass |-> IF p \in Started THEN edited[p] \cup {f} ELSE edited[p]]
          /\ UNCHANGED <<origin, ledger, tick, contract, vouched, slipped>>
      BY <1>2 DEF UserChanges, Current
    <2>2. memory' \in [Fact -> Texts] /\ edited' \in [Pass -> SUBSET Fact]
      BY <1>1, <2>1 DEF DreamTypes, Texts
    <2>3. \A h \in Fact \ {f} : memory'[h] = memory[h]
      BY <1>1, <2>1 DEF DreamTypes
    <2>4. memory'[f] # Unused /\ memory[f] # Gone
      BY <1>1, <2>1, DreamAssumption DEF DreamTypes
    <2>5. \A p \in Pass : edited[p] \subseteq edited'[p] /\ (p \in Started => f \in edited'[p])
      BY <2>1
    <2>6. Started \subseteq Pass
      BY DEF Started
    <2>7. QED
      BY <1>1, <2>1, <2>2, <2>3, <2>4, <2>5, <2>6 DEF WorldMoves, DreamTypes
  <1>3. ASSUME NEW f \in Fact, NEW x \in {"new", "missing"}, SourceChanges(f, x)
        PROVE  WorldMoves /\ UNCHANGED <<ledger, tick>>
    <2>1. /\ origin' = [origin EXCEPT ![f] = x] /\ events' = events + 1 /\ events < MaxEvents
          /\ UNCHANGED <<memory, ledger, tick, contract, active, vouched, edited>>
          /\ slipped' \in {slipped, slipped \cup {f}}
          /\ \A t \in Tick : Writing(t) /\ f \in tick[t].now => f \in slipped'
      BY <1>3 DEF SourceChanges
    <2>2. QED
      BY <1>1, <2>1 DEF WorldMoves, DreamTypes
  <1>4. ASSUME Upgrade PROVE WorldMoves /\ UNCHANGED <<ledger, tick>>
    BY <1>1, <1>4 DEF Upgrade, WorldMoves, DreamTypes
  <1>5. QED
    BY <1>2, <1>3, <1>4, WorldSteps

\* A stutter is a step of the world too.
LEMMA NothingHappens ==
  ASSUME DreamInv, UNCHANGED dreamVars
  PROVE  DreamInv'
  <1>1. WorldMoves /\ UNCHANGED <<ledger, tick>>
    BY WorldRests DEF DreamInv, dreamVars, Knowledge
  <1>2. QED
    BY <1>1, WorldSteps

\* At first there is no run, and nobody knows anything.
LEMMA DreamStarts ==
  ASSUME DreamInit
  PROVE  DreamInv
  <1>1. DreamTypes
    BY DreamAssumption, FreshValues DEF DreamInit, DreamTypes, Texts
  <1>2. LedgerSound
    BY FreshValues, TargetSets DEF DreamInit, LedgerSound, Sound
  <1>3. ASSUME NEW t \in Tick PROVE TickSound(t)
    BY FreshValues DEF DreamInit, TickSound, Looked, Informed, AtWork, AtEntry, Ending
  <1>4. QED
    BY <1>1, <1>2, <1>3 DEF DreamInv

\* The ledger, the slices and the memory agree, whatever happens: the stored
\* copies of a run and those that slices carry say what is so, and answers are
\* kept only for what the model was shown.
THEOREM DreamInvariant == DreamSpec => []DreamInv
  <1>1. DreamInit => DreamInv
    BY DreamStarts
  <1>2. DreamInv /\ [DreamNext]_dreamVars => DreamInv'
    <2> SUFFICES ASSUME DreamInv, [DreamNext]_dreamVars PROVE DreamInv'
      OBVIOUS
    <2>1. CASE UNCHANGED dreamVars
      BY <2>1, NothingHappens
    <2>2. ASSUME NEW t \in Tick,
                 \/ Decide(t) \/ ClaimTick(t) \/ StandDown(t) \/ ContinueRun(t) \/ StartRun(t)
                 \/ Yield(t) \/ NextSignal(t) \/ Prepare(t) \/ ModelAnswers(t) \/ GroupChanged(t)
                 \/ GoesOn(t) \/ EnterGroup(t) \/ Finish(t)
                 \/ (\E f \in Fact : ValidateSources(t, f) \/ ApplyOne(t, f))
                 \/ CloseProvider(t) \/ NoteSession(t) \/ CallFails(t) \/ Overdue(t)
                 \/ DreamCrash(t) \/ TimePasses(t)
          PROVE  DreamInv'
      BY <2>2, DecideKeeps, ContinueRunKeeps, StartRunKeeps, YieldKeeps, SignalsKeep,
         PrepareKeeps, ModelAnswersKeeps, GroupChangedKeeps, ValidateSourcesKeeps, ApplyOneKeeps,
         FinishKeeps,
         SavesKeep, EndsKeep, TimePassesKeeps
    <2>3. CASE \/ \E f \in Fact : \/ \E x \in Text \cup {Gone} : UserChanges(f, x)
                                  \/ \E x \in {"new", "missing"} : SourceChanges(f, x)
               \/ Upgrade
      BY <2>3, OthersKeep
    <2>4. QED
      BY <2>1, <2>2, <2>3 DEF DreamNext
  <1>3. QED
    BY <1>1, <1>2, PTL DEF DreamSpec

\* A completed run has dealt with every entry it set out to recheck
\* (commands/dream.py: the run's status, and what it leaves open).
THEOREM CompletedRunsAreDone == DreamSpec => []CompletedIsDone
  <1>1. DreamInv => CompletedIsDone
    <2> SUFFICES ASSUME DreamInv, NEW p \in Started, ledger[p].status = "completed",
                        NEW f \in Targets(ledger[p].signals)
                 PROVE  DealtWith(p, f)
      BY DEF CompletedIsDone
    <2>1. p \in Pass /\ ledger[p] \in Runs /\ Sound(ledger[p], memory, vouched, edited[p])
      BY DEF DreamInv, DreamTypes, LedgerSound, Started
    <2>2. ledger[p].open = {} /\ ledger[p].signals \subseteq ledger[p].done
      BY <2>1 DEF Sound
    <2>3. f \in Targets(ledger[p].done)
      BY <2>1, <2>2, TargetSets DEF Runs
    <2>4. QED
      BY <2>1, <2>2, <2>3 DEF Sound, Dealt, DealtWith
  <1>2. QED
    BY <1>1, DreamInvariant, PTL
-----------------------------------------------------------------------------
\* An answer bears out what a step does to an entry.
Backed(f) ==
    \E v \in vouched :
       /\ v.fact = f /\ v.proof.text = memory[f]
       /\ v.proof.source = origin[f] \/ f \in slipped
       /\ \/ v.proof.says \in {"contradicted", "temporary"}
          \/ v.proof.says = "mixed" /\ \E g \in Fact : memory'[g] = Trimmed
          \/ v.proof.says = "durable" /\ \E g \in Fact \ {f} : memory'[g] = memory[f]

\* The entry that stays in place of the others is one of them.
LEMMA KeeperIsThere ==
  ASSUME NEW k, NEW G \in SUBSET Fact, NEW f \in G, k.says[f] = "durable"
  PROVE  LET h == Keeper(k, f, G)
         IN  h \in Fact /\ k.snap[h] = k.snap[f]
  <1> DEFINE equals == {g \in G : k.snap[g] = k.snap[f] /\ k.says[g] = "durable"}
  <1>1. equals \subseteq Nat /\ f \in equals
    BY DreamAssumption
  <1>2. \E g \in equals : \A h \in equals : g <= h
    BY <1>1, FirstThere
  <1>3. Keeper(k, f, G) \in equals
    BY <1>2 DEF Keeper
  <1>4. QED
    BY <1>3

\* Only the decision about an entry changes it, and it rests on an answer.
LEMMA ApplyOneIsBacked ==
  ASSUME DreamInv, NEW t \in Tick, NEW h \in Fact, ApplyOne(t, h),
         NEW f \in Fact, memory[f] \in Text, memory'[f] # memory[f]
  PROVE  Backed(f)
  <1> DEFINE k == tick[t]
             did == Outcome(t, h)
  <1>1. /\ k.at \in AtEntry /\ h \in k.todo /\ k.todo \subseteq Targets(k.signal)
        /\ k \in Ticks /\ Informed(k, vouched) /\ DreamTypes
    BY OwnTick DEF ApplyOne, Writing, AtWork, AtEntry, Follows
  <1>2. \/ did \notin {"deleted", "trimmed"} /\ UNCHANGED memory
        \/ did = "deleted" /\ memory' = [memory EXCEPT ![h] = Gone]
        \/ did = "trimmed" /\ \E g \in Fact :
              memory[g] = Unused /\ memory' = [memory EXCEPT ![h] = Gone, ![g] = Trimmed]
    BY DEF ApplyOne
  <1>3. f = h /\ did \in {"deleted", "trimmed"}
    BY <1>1, <1>2, DreamAssumption DEF DreamTypes
  <1>4. /\ k.read[f] \in {"old", "new"} /\ Stands(k, f) /\ k.at = "writing"
        /\ did = "trimmed" => PlanFor(t, f) = "trim"
        /\ did = "deleted" => \/ PlanFor(t, f) = "delete"
                              \/ PlanFor(t, f) = "merge" /\ Stands(k, Keeper(k, f, Group(t)))
    BY <1>3 DEF Outcome, Readable, Writing
  <1>4a. origin[f] = k.read[f] \/ f \in slipped
    <2>1. f \in k.now
      BY <1>3, <1>4 DEF ApplyOne, Writing
    <2>2. Looked(k, origin, slipped)
      BY DEF DreamInv, TickSound
    <2>3. QED
      BY <1>4, <2>1, <2>2 DEF Looked
  <1>5. k.says[f] # "none" /\ Vouches(k, vouched, f)
    BY <1>1, <1>4 DEF Informed
  <1>6. PICK v \in vouched : /\ v.fact = f /\ v.proof.text = memory[f]
                             /\ v.proof.source = origin[f] \/ f \in slipped
                             /\ v.proof.says = k.says[f]
    BY <1>4, <1>4a, <1>5 DEF Vouches, Stands
  <1>7. k.says[f] \in {"durable", "temporary", "contradicted", "mixed", "unclear"}
    BY <1>1, <1>5, DreamAssumption DEF Ticks
  <1>8. CASE did = "trimmed"
    <2>1. k.says[f] = "mixed"
      BY <1>4, <1>8 DEF PlanFor, Trims
    <2>2. \E g \in Fact : memory'[g] = Trimmed
      BY <1>1, <1>2, <1>8 DEF DreamTypes
    <2>3. QED
      BY <1>6, <2>1, <2>2 DEF Backed
  <1>9. CASE did = "deleted" /\ PlanFor(t, f) = "delete"
    <2>1. k.says[f] \in {"contradicted", "temporary"}
      BY <1>9 DEF PlanFor, Disposable
    <2>2. QED
      BY <1>6, <2>1 DEF Backed
  <1>10. CASE did = "deleted" /\ PlanFor(t, f) = "merge"
    <2> DEFINE g == Keeper(k, f, Group(t))
    <2>1. k.says[f] = "durable" /\ g # f
      BY <1>7, <1>10 DEF PlanFor, Trims, Disposable
    <2>2. f \in Group(t) /\ Group(t) \in SUBSET Fact
      <3>1. Group(t) = Targets(k.signal) /\ k.signal \in SUBSET Signal
        BY <1>1 DEF Group, Targets, Ticks
      <3>2. QED
        BY <1>1, <1>3, <3>1, TargetSets
    <2>3. g \in Fact /\ k.snap[g] = k.snap[f]
      BY <2>1, <2>2, KeeperIsThere
    <2>4. memory[g] = k.snap[g] /\ memory[f] = k.snap[f]
      BY <1>4, <1>10 DEF Stands
    <2> HIDE DEF g
    <2>5. memory'[g] = memory[f]
      BY <1>1, <1>2, <1>3, <1>10, <2>1, <2>3, <2>4 DEF DreamTypes
    <2>6. QED
      BY <1>6, <2>1, <2>3, <2>5 DEF Backed
  <1>11. QED
    BY <1>3, <1>4, <1>8, <1>9, <1>10

\* What Dream does to an entry rests on an answer of the model about this very
\* text and source (commands/dream.py: what is compared right before an
\* entry is deleted or trimmed).
THEOREM ChangesRestOnAnswers == DreamSpec => ChangesAreVerified
  <1> DEFINE A == \A f \in Fact :
                     memory[f] \in Text /\ memory'[f] # memory[f] /\ events' = events => Backed(f)
  <1>1. DreamInv /\ [DreamNext]_dreamVars => [A]_dreamVars
    <2> SUFFICES ASSUME DreamInv, DreamNext, NEW f \in Fact,
                        memory[f] \in Text, memory'[f] # memory[f], events' = events
                 PROVE  Backed(f)
      OBVIOUS
    <2>1. events \in Nat /\ events + 1 # events
      BY DreamAssumption DEF DreamInv, DreamTypes
    <2>2. ASSUME NEW t \in Tick PROVE ~ ContinueRun(t) /\ ~ StartRun(t) /\ ~ ModelAnswers(t)
      BY DEF ContinueRun, StartRun, ModelAnswers, Knowledge
    <2>3. ASSUME NEW t \in Tick
          PROVE  ~ Decide(t) /\ ~ ClaimTick(t) /\ ~ StandDown(t) /\ ~ NextSignal(t) /\ ~ GoesOn(t)
      BY DEF Decide, ClaimTick, StandDown, NextSignal, GoesOn, Knowledge
    <2>4. ASSUME NEW t \in Tick
          PROVE  /\ ~ Yield(t) /\ ~ Prepare(t) /\ ~ GroupChanged(t) /\ ~ EnterGroup(t)
                 /\ \A h \in Fact : ~ ValidateSources(t, h)
      <3>1. \A r : ~ LeavesRest(t, r)
        BY DEF LeavesRest, Knowledge
      <3>2. ~ Yield(t) /\ ~ GroupChanged(t) /\ ~ EnterGroup(t)
        <4>1. ~ Yield(t)
          BY <3>1 DEF Yield
        <4>2. ~ GroupChanged(t)
          BY <3>1, Zenon DEF GroupChanged, Knowledge
        <4>3. ~ EnterGroup(t)
          BY <3>1, Zenon DEF EnterGroup, Knowledge
        <4> QED
          BY ONLY <4>1, <4>2, <4>3
      <3>3. Prepare(t) => UNCHANGED Knowledge
        BY Zenon DEF Prepare, LeavesRest
      <3>4. \A h \in Fact : ~ ValidateSources(t, h)
        BY Zenon DEF ValidateSources, Knowledge
      <3>5. QED
        BY <3>2, <3>3, <3>4 DEF Knowledge
    <2>5. ASSUME NEW t \in Tick
          PROVE  ~ Finish(t) /\ ~ CloseProvider(t) /\ ~ NoteSession(t)
      BY DEF Finish, CloseProvider, NoteSession, Knowledge
    <2>6. ASSUME NEW t \in Tick
          PROVE  ~ CallFails(t) /\ ~ Overdue(t) /\ ~ DreamCrash(t) /\ ~ TimePasses(t)
      BY <2>1 DEF CallFails, Overdue, DreamCrash, TimePasses, EndsFailed
    <2>7. \A h \in Fact : \A x : ~ UserChanges(h, x) /\ ~ SourceChanges(h, x)
      BY <2>1 DEF UserChanges, SourceChanges
    <2>8. ~ Upgrade
      BY <2>1 DEF Upgrade
    <2>9. \E t \in Tick, h \in Fact : ApplyOne(t, h)
      BY <2>2, <2>3, <2>4, <2>5, <2>6, <2>7, <2>8 DEF DreamNext
    <2>10. QED
      BY <2>9, ApplyOneIsBacked
  <1>2. [][A]_dreamVars => ChangesAreVerified
    BY PTL DEF ChangesAreVerified, Backed
  <1>3. QED
    BY <1>1, <1>2, DreamInvariant, PTL DEF DreamSpec

=============================================================================
