---------------------------- MODULE SessionScan ----------------------------
(***************************************************************************)
(* Which sessions a bounded scan looks at: sync_sessions_fairly.           *)
(*                                                                         *)
(* Every hook, worker and tool call may scan.  A scan may save only so     *)
(* many changed sessions, so it looks at the most recent ones, at a        *)
(* backlog that goes round after a stored cursor, and at sessions that     *)
(* failed before and are due again.  The frontier (cursor, turn, retries)  *)
(* is read at the start and written back whole at the end, without a lock, *)
(* and not at all when the process is killed.                              *)
(*                                                                         *)
(* A session is a number, its place in the order of the paths.  How a      *)
(* session is read and saved is NativeCapture's matter; here it is one     *)
(* step.                                                                   *)
(***************************************************************************)
EXTENDS Naturals, FiniteSets, Sequences

CONSTANTS
    Session,        \* the sessions of one host and project
    Setups,         \* change limits, with the sessions that can never be read, the
                    \* processes that scan, and whether the world is calm: then no
                    \* incident happens, and the watched session is not the latest
                    \* when a scan begins
    Scanner,        \* all processes that scan
    MaxIncidents    \* bound: deaths, single failures, removals, full rescans
ASSUME ScanAssumption ==
    /\ Session \subseteq Nat \ {0} /\ IsFiniteSet(Session)
    /\ \A s \in Setups : s.limit \in Nat \ {0} /\ s.broken \subseteq Session
    /\ MaxIncidents \in Nat

VARIABLES
    setup,          \* the change limit of every scan, and what is unreadable
    session,        \* what the ledger has of each session
    frontier,       \* the stored row: cursor, next lane, retries
    scan,           \* the scans under way
    incidents,
    waited          \* scans that ended while the watched session was behind

scanVars == <<setup, session, frontier, scan, incidents, waited>>

Lanes == {"recent", "backlog"}
NoCursor == 0
There == {s \in Session : session[s] \notin {"unborn", "gone"}}
Behind == {"new", "changed", "missing"}

NoFrontier == [cursor |-> NoCursor, turn |-> "recent",
               retry |-> [s \in Session |-> "none"]]
Resting == [at |-> "idle", todo |-> <<>>, recent |-> {}, limits |-> [l \in Lanes |-> 0],
            seen |-> {}, moves |-> {}, frontier |-> NoFrontier]

---------------------------------------------------------------------------
(* The plan. *)

InOrder(S) == [i \in 1..Cardinality(S) |->
                  CHOOSE s \in S : Cardinality({o \in S : o < s}) = i - 1]
Elements(q) == {q[i] : i \in 1..Len(q)}

\* The backlog goes round: first what follows the cursor.  A cursor whose
\* session is gone starts again at the beginning.
Traversal(S, c) ==
    IF c \in S THEN InOrder({s \in S : s > c}) \o InOrder({s \in S : s <= c})
    ELSE InOrder(S)

\* Due retries come first, at most as many as may change.
DueRetries(S, f, n) ==
    LET due == InOrder({s \in S : f.retry[s] = "due"})
    IN  IF Len(due) <= n THEN due ELSE SubSeq(due, 1, n)

AtLeast(a, b) == IF a > b THEN a ELSE b
RecentBudget(n) == AtLeast(1, (n + 1) \div 2)
ProbeBudget(n) == AtLeast(4, n * 4)

Dropped(q, S) == SelectSeq(q, LAMBDA s : s \notin S)

\* The lanes by turns, the first one first.
Alternated(a, b) ==
    LET both == IF Len(a) < Len(b) THEN Len(a) ELSE Len(b)
        turns == [i \in 1..(2 * both) |-> IF i % 2 = 1 THEN a[(i + 1) \div 2] ELSE b[i \div 2]]
    IN  turns \o SubSeq(a, both + 1, Len(a)) \o SubSeq(b, both + 1, Len(b))

\* _lane_change_limits: what each lane may change while both want to.
LaneLimits(n, primary, recent, backlog) ==
    IF recent = {} \/ backlog = {} THEN [l \in Lanes |-> n]
    ELSE IF n = 1 THEN [l \in Lanes |-> IF l = primary THEN 1 ELSE 0]
    ELSE [l \in Lanes |-> IF l = "recent" THEN (n + 1) \div 2 ELSE n - ((n + 1) \div 2)]

\* plan_session_scan, when the sessions are S and the latest of them newest,
\* the most recent first.
PlanOf(S, newest, f, n) ==
    LET waits == {s \in Session : f.retry[s] # "none"}
        due == DueRetries(S, f, n)
        recent == Dropped(newest, waits)
        backlog == Dropped(Traversal(S, f.cursor), waits \cup Elements(newest))
        primary == IF recent # <<>> /\ backlog # <<>> THEN f.turn
                   ELSE IF recent # <<>> THEN "recent" ELSE "backlog"
        both == IF primary = "recent" THEN Alternated(recent, backlog)
                ELSE Alternated(backlog, recent)
        room == ProbeBudget(n) - Len(due)
        todo == due \o SubSeq(both, 1, IF Len(both) < room THEN Len(both) ELSE room)
        inRecent == Elements(recent) \cap Elements(todo)
        inBacklog == Elements(todo) \ inRecent
    IN  [at |-> "scan", todo |-> todo, recent |-> inRecent,
         limits |-> LaneLimits(n, primary, inRecent, inBacklog),
         seen |-> S, moves |-> S \ Elements(newest), frontier |-> f]

---------------------------------------------------------------------------
(* The host, and what else looks at a session. *)

ScanInit ==
    /\ \E s \in Setups, w \in Session :
          setup = [limit |-> s.limit, broken |-> s.broken, calm |-> s.calm,
                    scanners |-> s.scanners, watched |-> w]
    /\ setup.watched \notin setup.broken
    /\ session \in [Session -> {"new", "unborn"}]
    /\ frontier = NoFrontier
    /\ scan = [p \in Scanner |-> Resting]
    /\ incidents = 0
    /\ waited = 0

Incident == setup.calm = "no" /\ incidents < MaxIncidents /\ incidents' = incidents + 1

\* The wait of the watched session is over.
Saved(s) == waited' = IF s = setup.watched THEN 0 ELSE waited

HostStarts(s) ==
    /\ session[s] = "unborn"
    /\ session' = [session EXCEPT ![s] = "new"]
    /\ UNCHANGED <<setup, frontier, scan, incidents, waited>>

HostWritesOn(s) ==
    /\ session[s] \in {"current", "missing"}
    /\ session' = [session EXCEPT ![s] = "changed"]
    /\ UNCHANGED <<setup, frontier, scan, incidents, waited>>

HostRemoves(s) ==
    /\ Incident
    /\ s \in There
    /\ session' = [session EXCEPT ![s] = "gone"]
    /\ UNCHANGED <<setup, frontier, scan, waited>>

\* A hook names its session: it is read without the frontier.
SyncExact(s) ==
    /\ session[s] \in Behind
    /\ s \notin setup.broken
    /\ session' = [session EXCEPT ![s] = "current"]
    /\ Saved(s)
    /\ UNCHANGED <<setup, frontier, scan, incidents>>

\* The backoff is over, wherever it was noted.
FallsDue(f, s) == IF f.retry[s] = "wait" THEN [f EXCEPT !.retry[s] = "due"] ELSE f
RetryFallsDue(s) ==
    /\ frontier.retry[s] = "wait"
    /\ frontier' = FallsDue(frontier, s)
    /\ scan' = [p \in Scanner |-> [scan[p] EXCEPT !.frontier = FallsDue(@, s)]]
    /\ UNCHANGED <<setup, session, incidents, waited>>

\* full_rescan forgets the frontier.
ResetFrontier ==
    /\ frontier # NoFrontier
    /\ Incident
    /\ frontier' = NoFrontier
    /\ UNCHANGED <<setup, session, scan, waited>>

---------------------------------------------------------------------------
(* A scan. *)

ScanBecomes(p, r) == scan' = [scan EXCEPT ![p] = r]

\* The inventory and the frontier are read; any sessions may be the latest.
BeginScan(p) ==
    /\ scan[p].at = "idle"
    /\ LET n == setup.limit
           k == IF RecentBudget(n) < Cardinality(There) THEN RecentBudget(n)
                ELSE Cardinality(There)
       IN  \E newest \in {q \in [1..k -> There] : Cardinality(Elements(q)) = k} :
              /\ setup.calm = "yes" => setup.watched \notin Elements(newest)
              /\ ScanBecomes(p, PlanOf(There, newest, frontier, n))
    /\ UNCHANGED <<setup, session, frontier, incidents, waited>>

LaneOf(r, s) == IF s \in r.recent THEN "recent" ELSE "backlog"

\* Mutant: the cursor stays where it is.
MarkNothing(r, f, s) == f

\* mark_scanned: only the backlog moves the cursor.
MarkScanned(r, f, s) == IF s \in r.moves THEN [f EXCEPT !.cursor = s] ELSE f

\* What a scan has done so far.
NothingYet(r) == [session |-> session, frontier |-> r.frontier, later |-> <<>>,
             used |-> [l \in Lanes |-> 0], total |-> 0, first |-> "none"]

\* sync_session answers ingested, updated or unchanged, or raises; in the
\* second round a change counts for the whole only.
LookAt(r, d, s, fails, round) ==
    LET lane == LaneOf(r, s)
        failed == s \in fails \/ s \in setup.broken \/ s \notin There
        marked(how) == MarkScanned(r, [d.frontier EXCEPT !.retry[s] = how], s)
        read == [d EXCEPT !.session[s] = "current", !.frontier = marked("none")]
    IN  IF failed THEN [d EXCEPT !.frontier = marked("wait")]
        ELSE IF session[s] = "missing" \/ session[s] = "current" THEN read
        ELSE [read EXCEPT !.total = @ + 1,
                          !.used[lane] = IF round = 1 THEN @ + 1 ELSE @,
                          !.first = IF @ = "none" THEN lane ELSE @]

\* A session whose lane has had its share is put off.
Next1(r, d, s, fails, round) ==
    IF d.total >= setup.limit THEN d
    ELSE IF round = 1 /\ d.used[LaneOf(r, s)] >= r.limits[LaneOf(r, s)]
         THEN [d EXCEPT !.later = Append(@, s)]
         ELSE LookAt(r, d, s, fails, round)

\* One round over the sessions of q, then another over what was put off.
Round(r, d, q, fails, round) ==
    LET done[i \in 0..Len(q)] == IF i = 0 THEN d ELSE Next1(r, done[i - 1], q[i], fails, round)
    IN  done[Len(q)]
Reading(r, q, fails) ==
    LET d == Round(r, NothingYet(r), q, fails, 1)
    IN  Round(r, d, d.later, fails, 2)

\* advance_lane_turn: with a limit of one the lanes take turns.
NextTurn(r, d) ==
    LET backlog == Elements(r.todo) \ r.recent
    IN  IF setup.limit = 1 /\ d.first \in Lanes /\ r.recent # {} /\ backlog # {}
        THEN IF d.first = "recent" THEN "backlog" ELSE "recent"
        ELSE d.frontier.turn

\* Sources of sessions that were not listed are marked missing.
Swept(r, s) == [i \in Session |-> IF s[i] = "current" /\ i \notin r.seen THEN "missing" ELSE s[i]]

\* The sessions are read, and the sources that were not listed are swept.
\* That is one step here: a session is read once in a scan, so what the
\* host does to it meanwhile could as well come before or after.
ReadSessions(p) ==
    LET r == scan[p] IN
    /\ r.at = "scan"
    /\ \E fails \in SUBSET (Elements(r.todo) \cap (There \ setup.broken)) :
          /\ fails # {} => setup.calm = "no"
          /\ incidents + Cardinality(fails) <= MaxIncidents
          /\ incidents' = incidents + Cardinality(fails)
          /\ LET d == Reading(r, r.todo, fails) IN
             /\ session' = Swept(r, d.session)
             /\ ScanBecomes(p, [Resting EXCEPT !.at = "commit",
                                           !.frontier = [d.frontier EXCEPT !.turn = NextTurn(r, d)]])
    /\ waited' = IF session'[setup.watched] = "current" THEN 0 ELSE waited
    /\ UNCHANGED <<setup, frontier>>

\* The whole row is written, whatever it says by now.
CommitScan(p) ==
    /\ scan[p].at = "commit"
    /\ frontier' = scan[p].frontier
    /\ ScanBecomes(p, Resting)
    /\ waited' = IF session[setup.watched] \in Behind /\ frontier'.retry[setup.watched] # "wait"
                 THEN waited + 1 ELSE waited
    /\ UNCHANGED <<setup, session, incidents>>

\* Killed at any point: what was read is saved, the frontier is not.
ScannerDies(p) ==
    /\ scan[p].at # "idle"
    /\ Incident
    /\ \E k \in 0..Len(scan[p].todo) :
          session' = Reading(scan[p], SubSeq(scan[p].todo, 1, k), {}).session
    /\ ScanBecomes(p, Resting)
    /\ waited' = IF session'[setup.watched] = "current" THEN 0 ELSE waited
    /\ UNCHANGED <<setup, frontier>>

ScanStep(p) ==
    BeginScan(p) \/ ReadSessions(p) \/ CommitScan(p)

ScanNext ==
    \/ \E s \in Session : HostStarts(s) \/ HostWritesOn(s) \/ HostRemoves(s)
                         \/ SyncExact(s) \/ RetryFallsDue(s)
    \/ ResetFrontier
    \/ \E p \in setup.scanners : ScanStep(p) \/ ScannerDies(p)

ScanSpec == ScanInit /\ [][ScanNext]_scanVars

---------------------------------------------------------------------------

ScanTypeOK ==
    /\ session \in [Session -> {"unborn", "new", "changed", "current", "missing", "gone"}]
    /\ frontier.cursor \in Session \cup {NoCursor} /\ frontier.turn \in Lanes
    /\ frontier.retry \in [Session -> {"none", "wait", "due"}]
    /\ \A p \in Scanner : scan[p].at \in {"idle", "scan", "commit"}

\* "A broken file cannot block history" (scan_scheduler.py, mark_failed): a
\* session that can be read is read again, after each change, within two
\* scans for each session there is - however often the other sessions
\* change, and for every incident and every other scanner, which may take
\* the cursor back, as many again.
WaitsEnd ==
    waited <= 2 * Cardinality(Session) * (incidents + 1) * Cardinality(setup.scanners)

EverySessionIsInspected == ScanTypeOK /\ WaitsEnd

=============================================================================
