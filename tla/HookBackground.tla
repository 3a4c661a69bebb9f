---------------------------- MODULE HookBackground ----------------------------
(***************************************************************************)
(* The post-turn queue of one project: hook_background.py, and the worker  *)
(* main of host_entry/__main__.py.  A synchronous IDE hook (a dispatcher)  *)
(* writes one immutable request file and starts a detached worker when it  *)
(* wins an O_EXCL lock file; a worker serves one session, retires the      *)
(* request files it saw, gives the lock up and hands over.  Every file     *)
(* operation is one step, because nothing orders them across processes.    *)
(*                                                                         *)
(* Requests are numbered by requested_at.  They need not be written in     *)
(* that order.  A lock file goes stale when nobody renews its mtime: the   *)
(* 300 s limit is far above the 15 s heartbeat, so only when its holder is *)
(* gone.  A dispatcher compares the mtime with its requested_at, so one    *)
(* that began earlier does not find the lock stale.  The idle window is    *)
(* that of the idle clients; for others it is over at once.                *)
(***************************************************************************)
EXTENDS Integers

CONSTANTS
    N,          \* requests, one dispatcher each
    Worker,     \* detached workers alive at a time
    SessionOf,  \* the session key of a request
    MaxFaults   \* bound on killed processes and failed spawns

Request == 1..N

ASSUME HookAssumption ==
    /\ N \in Nat
    /\ Worker \cap Request = {}
    /\ MaxFaults \in Nat

VARIABLES
    pc,         \* where every process is
    gen,        \* the generation a process holds, or asks, the lock for
    snap,       \* _loaded_requests: the files a worker has seen and serves
    pending,    \* request files on disk
    lock,       \* the lock file: its generation, and who finds its mtime stale
    window,     \* requests up to this one have waited for their idle window
    active,     \* activity marker: the last request before a session's user turn
    attempted,  \* history: requests a complete run of their session began after
    faults      \* history: processes killed and spawns failed

vars == <<pc, gen, snap, pending, lock, window, active, attempted, faults>>

Session == {SessionOf[r] : r \in Request}
Process == Request \cup Worker

NoLock == [gen |-> 0, stale |-> {}]
Lock(g) == [gen |-> g, stale |-> {}]

Working == {"wait", "loaded", "run", "finish", "retire", "unlock"}
Locking == {"acquire", "stat", "steal", "create", "spawn"}

TypeOK ==
    /\ pc \in [Process -> {"off", "write", "reload", "done"} \cup Working \cup Locking]
    /\ \A r \in Request : pc[r] \in {"off", "write", "done"} \cup Locking
    /\ gen \in [Process -> 0..N]
    /\ \A r \in Request : gen[r] = r
    /\ snap \in [Worker -> SUBSET Request]
    /\ pending \subseteq Request
    /\ lock \in [gen : 0..N, stale : SUBSET Process]
    /\ window \in 0..N
    /\ active \in [Session -> 0..N]
    /\ attempted \subseteq Request
    /\ faults \in 0..MaxFaults

Init ==
    /\ pc = [p \in Process |-> "off"]
    /\ gen = [p \in Process |-> IF p \in Request THEN p ELSE 0]
    /\ snap = [w \in Worker |-> {}]
    /\ pending = {}
    /\ lock = NoLock
    /\ window = 0
    /\ active = [s \in Session |-> 0]
    /\ attempted = {}
    /\ faults = 0

Begun(r) == pc[r] # "off"

\* A worker process that ends leaves room for another one.
Gone(p) == IF p \in Worker THEN "off" ELSE "done"

Goto(p, from, to) == pc[p] = from /\ pc' = [pc EXCEPT ![p] = to]
-----------------------------------------------------------------------------
(* Time and the user. *)

Begin(r) ==
    /\ \A q \in Request : q < r => Begun(q)
    /\ Goto(r, "off", "write")
    /\ UNCHANGED <<gen, snap, pending, lock, window, active, attempted, faults>>

IdleOver ==
    /\ window < N
    /\ Begun(window + 1)
    /\ window' = window + 1
    /\ UNCHANGED <<pc, gen, snap, pending, lock, active, attempted, faults>>

\* record_background_activity: a user turn after request r was made and
\* before the next one.
UserTurn(r) ==
    /\ Begun(r)
    /\ r < N => ~Begun(r + 1)
    /\ active[SessionOf[r]] < r
    /\ active' = [active EXCEPT ![SessionOf[r]] = r]
    /\ UNCHANGED <<pc, gen, snap, pending, lock, window, attempted, faults>>

\* background_request_cancelled
Cancelled(r) == r <= active[SessionOf[r]]

\* Nobody that could renew the lock's mtime is left.
GoStale ==
    /\ lock # NoLock
    /\ lock.stale = {}
    /\ \A p \in Process : pc[p] \in Working \cup {"spawn"} => gen[p] # lock.gen
    /\ lock' = [lock EXCEPT !.stale = Worker \cup {r \in Request : ~Begun(r)}]
    /\ UNCHANGED <<pc, gen, snap, pending, window, active, attempted, faults>>

Kill(p) ==
    /\ faults < MaxFaults
    /\ pc[p] \notin {"off", "done"}
    /\ pc' = [pc EXCEPT ![p] = Gone(p)]
    /\ faults' = faults + 1
    /\ UNCHANGED <<gen, snap, pending, lock, window, active, attempted>>
-----------------------------------------------------------------------------
(* Dispatch, and the lock that dispatchers and workers take alike. *)

WriteRequest(r) ==
    /\ Goto(r, "write", "acquire")
    /\ pending' = pending \cup {r}
    /\ UNCHANGED <<gen, snap, lock, window, active, attempted, faults>>

\* Faults: the lock file is opened without O_EXCL.
CreateAnyway(p, from, otherwise) ==
    /\ Goto(p, from, "spawn")
    /\ lock' = Lock(gen[p])
    /\ UNCHANGED <<gen, snap, pending, window, active, attempted, faults>>

\* _acquire_lock: O_CREAT | O_EXCL.
Create(p, from, otherwise) ==
    /\ Goto(p, from, IF lock = NoLock THEN "spawn" ELSE otherwise)
    /\ lock' = IF lock = NoLock THEN Lock(gen[p]) ELSE lock
    /\ UNCHANGED <<gen, snap, pending, window, active, attempted, faults>>

Acquire(p) == Create(p, "acquire", "stat")
CreateAgain(p) == Create(p, "create", Gone(p))

\* A lock that is not stale, or gone by now, is left to its owner.
Stat(p) ==
    /\ Goto(p, "stat", IF p \in lock.stale THEN "steal" ELSE Gone(p))
    /\ UNCHANGED <<gen, snap, pending, lock, window, active, attempted, faults>>

\* Whatever lock file is there by now is unlinked.
Steal(p) ==
    /\ Goto(p, "steal", IF lock = NoLock THEN Gone(p) ELSE "create")
    /\ lock' = NoLock
    /\ UNCHANGED <<gen, snap, pending, window, active, attempted, faults>>

Spawn(p, w) ==
    /\ pc[p] = "spawn"
    /\ pc[w] = "off"
    /\ pc' = [pc EXCEPT ![p] = Gone(p), ![w] = "wait"]
    /\ gen' = [gen EXCEPT ![w] = gen[p]]
    /\ snap' = [snap EXCEPT ![w] = {}]
    /\ UNCHANGED <<pending, lock, window, active, attempted, faults>>

SpawnFails(p) ==
    /\ faults < MaxFaults
    /\ Goto(p, "spawn", Gone(p))
    /\ lock' = NoLock
    /\ faults' = faults + 1
    /\ UNCHANGED <<gen, snap, pending, window, active, attempted>>
-----------------------------------------------------------------------------
(* The worker. *)

Waiting(s) == {r \in pending : SessionOf[r] = s}

\* A session is ready when its latest request has waited or was cancelled.
Ready(s) ==
    \E limit \in {window, active[s]} : \A r \in Waiting(s) : r <= limit

\* wait_for_background_request: the ready session with the oldest request.
Load(w) ==
    /\ Goto(w, "wait", "loaded")
    /\ \E r \in pending :
          /\ Ready(SessionOf[r])
          /\ \A q \in pending : Ready(SessionOf[q]) => r <= q
          /\ snap' = [snap EXCEPT ![w] = Waiting(SessionOf[r])]
    /\ UNCHANGED <<gen, pending, lock, window, active, attempted, faults>>

NothingToLoad(w) ==
    /\ pending = {}
    /\ Goto(w, "wait", "finish")
    /\ UNCHANGED <<gen, snap, pending, lock, window, active, attempted, faults>>

\* The run reads the session's transcript as it is now, and may fail.
StartRun(w) ==
    /\ \E r \in snap[w] : ~Cancelled(r)
    /\ Goto(w, "loaded", "run")
    /\ attempted' = attempted \cup snap[w]
    /\ UNCHANGED <<gen, snap, pending, lock, window, active, faults>>

SkipRun(w) ==
    /\ \A r \in snap[w] : Cancelled(r)
    /\ Goto(w, "loaded", "finish")
    /\ UNCHANGED <<gen, snap, pending, lock, window, active, attempted, faults>>

EndRun(w) ==
    /\ Goto(w, "run", "finish")
    /\ UNCHANGED <<gen, snap, pending, lock, window, active, attempted, faults>>

\* finish_background_worker: a worker that lost its lease retires nothing.
Finish(w) ==
    /\ Goto(w, "finish", IF lock # NoLock /\ lock.gen = gen[w] THEN "retire" ELSE "off")
    /\ UNCHANGED <<gen, snap, pending, lock, window, active, attempted, faults>>

\* Faults: the session is listed again; its own request is not retired.
RetireSession(w) ==
    /\ Goto(w, "retire", "unlock")
    /\ pending' = {r \in pending : \A q \in snap[w] : SessionOf[r] # SessionOf[q]}
    /\ snap' = [snap EXCEPT ![w] = {}]
    /\ UNCHANGED <<gen, lock, window, active, attempted, faults>>

RetireNone(w) ==
    /\ Goto(w, "retire", "unlock")
    /\ UNCHANGED <<gen, snap, pending, lock, window, active, attempted, faults>>

\* The snapshot is retired, or without one the worker's own request.
Retire(w) ==
    /\ Goto(w, "retire", "unlock")
    /\ pending' = pending \ (IF snap[w] = {} THEN {gen[w]} ELSE snap[w])
    /\ snap' = [snap EXCEPT ![w] = {}]
    /\ UNCHANGED <<gen, lock, window, active, attempted, faults>>

Unlock(w) ==
    /\ Goto(w, "unlock", "reload")
    /\ lock' = NoLock
    /\ UNCHANGED <<gen, snap, pending, window, active, attempted, faults>>

\* The hand-over asks the lock for the latest request of the oldest session.
Reload(w) ==
    /\ \E r, latest \in pending :
          /\ \A q \in pending : r <= q
          /\ SessionOf[latest] = SessionOf[r]
          /\ \A q \in Waiting(SessionOf[r]) : q <= latest
          /\ gen' = [gen EXCEPT ![w] = latest]
    /\ Goto(w, "reload", "acquire")
    /\ UNCHANGED <<snap, pending, lock, window, active, attempted, faults>>

\* Fault: the worker leaves without looking at the queue again.
LeaveAtOnce(w) ==
    /\ Goto(w, "reload", "off")
    /\ UNCHANGED <<gen, snap, pending, lock, window, active, attempted, faults>>

Leave(w) ==
    /\ pending = {}
    /\ Goto(w, "reload", "off")
    /\ UNCHANGED <<gen, snap, pending, lock, window, active, attempted, faults>>
-----------------------------------------------------------------------------
LockStep(p) ==
    \/ Acquire(p)
    \/ Stat(p)
    \/ Steal(p)
    \/ CreateAgain(p)
    \/ \E w \in Worker : Spawn(p, w)

RunStep(w) ==
    \/ Load(w)
    \/ NothingToLoad(w)
    \/ StartRun(w)
    \/ SkipRun(w)
    \/ EndRun(w)
    \/ Finish(w)
    \/ Retire(w)
    \/ Unlock(w)
    \/ Reload(w)
    \/ Leave(w)

Next ==
    \/ \E r \in Request : Begin(r) \/ UserTurn(r) \/ WriteRequest(r)
    \/ IdleOver
    \/ GoStale
    \/ \E p \in Process : LockStep(p) \/ SpawnFails(p) \/ Kill(p)
    \/ \E w \in Worker : RunStep(w)

Spec == Init /\ [][Next]_vars

\* A process that is not killed goes on, a run ends, and time passes.
Fairness ==
    /\ WF_vars(IdleOver)
    /\ \A r \in Request : WF_vars(WriteRequest(r))
    /\ \A p \in Process : WF_vars(LockStep(p))
    /\ \A w \in Worker : WF_vars(RunStep(w))

LiveSpec == Spec /\ Fairness
-----------------------------------------------------------------------------
(* Safety. *)

Holding(p) == pc[p] \in Working \cup {"spawn"}

\* "A concurrent dispatch must always survive that retirement": whatever
\* kills, stale locks and stolen leases happen, a request leaves the disk only
\* when a run of its session began after it was written, or a later user turn
\* cancelled it.
DropStep ==
    \A r \in pending : r \notin pending' => r \in attempted \/ Cancelled(r)
NothingDropped == [][DropStep]_vars

\* The wake-up is never lost: while request files are left and nothing was
\* killed, a process is on its way to look at them or to lock the queue.
NoLostWakeup ==
    faults = 0 /\ pending # {} =>
        \E p \in Process : Holding(p) \/ pc[p] \in {"acquire", "reload"}

\* "One detached worker per project."
OneWorker ==
    \A v, w \in Worker : pc[v] \in Working /\ pc[w] \in Working => v = w

\* What keeps the wake-up: without a fault the lock has exactly one holder, it
\* carries the holder's generation, and nobody finds it stale.
LockSound ==
    faults = 0 =>
        /\ \A p, q \in Process : Holding(p) /\ Holding(q) => p = q
        /\ \A p \in Process : Holding(p) => lock = Lock(gen[p])
        /\ \A p \in Process : pc[p] \notin {"steal", "create"}
        /\ lock # NoLock => \E p \in Process : Holding(p)

\* What keeps the requests: a worker retires what it served, or its own
\* request, which was on disk before the worker was spawned.
Written(r) == r \in Request /\ pc[r] \notin {"off", "write"}

SnapSound ==
    /\ \A r \in pending : Written(r)
    /\ \A w \in Worker :
          /\ pc[w] # "off" => Written(gen[w])
          /\ pc[w] = "wait" => snap[w] = {}
          /\ pc[w] \in {"loaded", "run"} => snap[w] # {}
          /\ pc[w] \in {"run", "finish", "retire"} =>
                \A r \in snap[w] : r \in attempted \/ Cancelled(r)
          /\ pc[w] \in {"finish", "retire"} /\ snap[w] = {} => gen[w] \notin pending

\* The inductive invariant of the queue.
HookInv == TypeOK /\ LockSound /\ SnapSound /\ NoLostWakeup

(* Liveness. *)

\* Every request is served and retired, as long as nothing is killed.
EveryRequestRetired ==
    \A r \in Request : r \in pending ~> r \notin pending
=============================================================================
