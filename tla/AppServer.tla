-------------------------------- MODULE AppServer --------------------------------
(* The native app server that answers the review calls of one executor: started *)
(* on demand, kept between calls, used by one call at a time, and stopped with  *)
(* everything it owns after any failure. Each call has a thread and a turn of   *)
(* its own; what the server says of others has no part in its answer.           *)
EXTENDS Naturals, FiniteSets, SequencesExt

CONSTANTS Call, None,            \* calls, numbered in the order in which they get the server
          MaxStarts, MaxEvents   \* bounds: servers started, notices (but for ends) heard

VARIABLES
    own,      \* what the owner still has to clean up
    alive,    \* the servers (by number) of which a process or a reader still runs
    server,   \* the current one: its number, what it was started with, seen and fixed
    closed,   \* "yes" once the owner is closed
    world,    \* the model and the instructions at home, as they are now
    call,     \* one record for each call
    paid      \* the responses the server has completed during the call

appVars == <<own, alive, server, closed, world, call, paid>>

Resource == {"root", "stderr", "lease", "process", "scope", "readers"}
Thread == {"t1", "t2"}
Turn == {"u1", "u2"}
Reply == {"r1", "r2"}    \* completed responses; the usage of the second one is malformed
Config == {"a", "b"}
Waiting == {"initialize", "config", "thread", "mcp", "turn", "terminal", "unsubscribe", "closing"}
Over == {"done", "failed", "returned"}
Message == [kind : {"raw", "item", "completed", "failed", "retry", "closed"}, thread : Thread, turn : Turn, id : Reply]

Fresh == [step |-> "idle", thread |-> None, turn |-> None, early |-> <<>>, responses |-> {}, texts |-> <<>>,
          terminal |-> "none", gone |-> "no", retries |-> "none", dispatched |-> "no", heard |-> 0,
          model |-> None, answer |-> None, usage |-> "unknown"]
NoServer == [number |-> 0, seen |-> {}, profile |-> None, pending |-> "no"]
Locked(c) == call[c].step \notin {"idle"} \cup Over
AppTypeOK ==
    /\ own \subseteq Resource /\ alive \subseteq 1 .. MaxStarts /\ world \in Config /\ closed \in {"no", "yes"}
    /\ server.number \in 0 .. MaxStarts /\ server.seen \subseteq Thread
    /\ paid \subseteq Thread \X Turn \X Reply
    /\ \A c \in Call : /\ call[c].step \in {"idle", "start", "raised", "interrupt", "stop"} \cup Waiting \cup Over
                       /\ call[c].thread \in Thread \cup {None} /\ call[c].turn \in Turn \cup {None}

AppInit ==
    /\ own = {} /\ alive = {} /\ server = NoServer /\ closed = "no" /\ world = "a"
    /\ call = [c \in Call |-> Fresh] /\ paid = {}

Step(c, s) == call' = [call EXCEPT ![c].step = s]
------------------------------------------------------------------------------
(* What a call's record makes of a notice: nothing if it is of another thread   *)
(* or turn; kept aside while the turn is not known yet, except for a completed  *)
(* response, which is recorded under the turn that it names.                    *)
Pay(r, m) == [r EXCEPT !.responses = @ \cup {<<m.turn, m.id>>}]
Note(r, m) ==
    IF m.thread # r.thread THEN r
    ELSE IF m.kind = "closed" THEN [r EXCEPT !.gone = "yes"]
    ELSE IF r.turn = None
    THEN [(IF m.kind = "raw" /\ r.dispatched = "yes" THEN Pay(r, m) ELSE r) EXCEPT !.early = Append(@, m)]
    ELSE IF m.turn # r.turn THEN r
    ELSE IF m.kind = "raw" THEN Pay(r, m)
    ELSE IF m.kind = "item" THEN [r EXCEPT !.texts = Append(@, <<m.thread, m.turn>>)]
    ELSE IF m.kind = "retry" THEN [r EXCEPT !.retries = "some"]
    ELSE [r EXCEPT !.terminal = m.kind]

(* Usage is complete when each response's is known, no retry was reported, and  *)
(* the dispatched turn has come to its end.                                     *)
Usage(r) ==
    IF /\ r.responses # {} /\ \A p \in r.responses : p[2] = "r1"
       /\ r.retries = "none" /\ (r.dispatched = "yes" => r.terminal # "none")
    THEN "complete" ELSE "unknown"
Sealed(r, s) == [r EXCEPT !.step = s, !.usage = Usage(r), !.early = <<>>, !.texts = <<>>]
------------------------------------------------------------------------------
(* The parts of a stop, in order: each only once the ones before it are done.   *)
(* The process group is killed first; its readers must end before its pipes,    *)
(* its directory and its lease are given up. On a failure the rest stays owned. *)
Stopping == <<"scope", "process", "readers", "root">>
Kept(k) ==
    CASE k = 0 -> own
      [] k = 1 -> own \ {"scope"}
      [] k = 2 -> own \ {"scope"}
      [] k = 3 -> own \ {"scope", "process", "readers", "stderr"}
      [] OTHER -> {}
Stop(k) ==
    /\ k \in 0 .. 4
    /\ k = 0 => "scope" \in own
    /\ k = 1 => "process" \in own
    /\ k = 2 => "readers" \in own
    /\ k = 3 => "root" \in own
    /\ own' = Kept(k)
    /\ alive' = IF k \in {0, 1, 2} /\ "readers" \in own THEN alive ELSE {}
    /\ server' = [server EXCEPT !.pending = IF k = 4 THEN "no" ELSE "yes"]

(* One call at a time has the server; the others wait, and may give up. What    *)
(* earlier calls have returned is with their callers.                           *)
Returned(r) == [Fresh EXCEPT !.step = IF r.step = "idle" THEN r.step ELSE "returned", !.heard = r.heard]
Acquire(c) ==
    /\ call[c].step = "idle" /\ \A d \in Call : ~Locked(d) /\ (d < c => call[d].step \in Over)
    /\ call' = [d \in Call |-> IF d = c THEN [Fresh EXCEPT !.step = IF closed = "yes" THEN "raised" ELSE "start"]
                               ELSE Returned(call[d])]
    /\ paid' = {} /\ UNCHANGED <<own, alive, server, closed, world>>
GiveUp(c) ==
    /\ call[c].step = "idle" /\ \E d \in Call : Locked(d)
    /\ call' = [call EXCEPT ![c] = Sealed(@, "failed")]
    /\ UNCHANGED <<own, alive, server, closed, world, paid>>

(* The server runs, was started alike and is not being cleaned up: it is used   *)
(* again. Whatever else is left of one is stopped before the next one starts.   *)
Usable == server.number \in alive /\ server.pending = "no"
Reuse(c) ==
    /\ call[c].step = "start" /\ Usable
    /\ Step(c, "config") /\ UNCHANGED <<own, alive, server, closed, world, paid>>
ClearFirst(c, k) ==
    /\ call[c].step = "start" /\ own # {} /\ Stop(k)
    /\ Step(c, IF k = 4 THEN "start" ELSE "raised") /\ UNCHANGED <<closed, world, paid>>
(* A start may fail behind any of its steps, and leaves what it has made.       *)
Launch(c, made) ==
    /\ call[c].step = "start" /\ own = {} /\ server.number < MaxStarts
    /\ made \in {{}, {"root"}, {"root", "stderr"}, {"root", "stderr", "lease"},
                 {"root", "stderr", "lease", "process"}, Resource}
    /\ own' = made
    /\ alive' = IF "process" \in made THEN alive \cup {server.number + 1} ELSE alive
    /\ server' = [NoServer EXCEPT !.number = server.number + 1]
    /\ Step(c, IF made = Resource THEN "initialize" ELSE "raised") /\ UNCHANGED <<closed, world, paid>>

(* The process exits by itself: what it owns stays owned.                       *)
Exit ==
    /\ server.number \in alive /\ "readers" \in own
    /\ alive' = alive \ {server.number} /\ UNCHANGED <<own, server, closed, world, call, paid>>
Change == world = "a" /\ world' = "b" /\ UNCHANGED <<own, alive, server, closed, call, paid>>

(* A deadline, a lost review, a server that ended or speaks out of turn: the    *)
(* call fails wherever it waits.                                                *)
Raise(c) ==
    /\ call[c].step \in Waiting
    /\ Step(c, "raised") /\ UNCHANGED <<own, alive, server, closed, world, paid>>
------------------------------------------------------------------------------
Answered(c, s) == call[c].step = s /\ server.number \in alive /\ UNCHANGED <<own, alive, closed, world, paid>>

(* initialize, and the settings that the server says to work with: those of an  *)
(* earlier call, and the same instructions at home.                             *)
Initialized(c) == Answered(c, "initialize") /\ Step(c, "config") /\ UNCHANGED server
Configured(c) ==
    /\ Answered(c, "config")
    /\ LET fits == server.profile \in {None, world}
       IN  /\ call' = [call EXCEPT ![c].step = IF fits THEN "thread" ELSE "raised", ![c].model = world]
           /\ server' = IF fits THEN [server EXCEPT !.profile = world] ELSE server
(* A new thread: one that was not seen, with nothing inherited, and under the   *)
(* model and the instructions that were announced.                              *)
Started(c, t, inherits) ==
    /\ Answered(c, "thread")
    /\ LET fits == t \notin server.seen /\ inherits = "nothing" /\ world = call[c].model
       IN  /\ call' = [call EXCEPT ![c].step = IF fits THEN "mcp" ELSE "raised", ![c].thread = t]
           /\ server' = IF fits THEN [server EXCEPT !.seen = @ \cup {t}] ELSE server
(* No tool server answers for the thread; then the turn is sent.                *)
Isolated(c) ==
    /\ Answered(c, "mcp")
    /\ call' = [call EXCEPT ![c].step = "turn", ![c].dispatched = "yes"] /\ UNCHANGED server

(* Mutant of Turned: the responses under other turns stay in the account.       *)
TurnedWithAll(c, u) ==
    /\ Answered(c, "turn") /\ UNCHANGED server
    /\ LET bound == [call[c] EXCEPT !.turn = u, !.early = <<>>]
       IN  call' = [call EXCEPT ![c] = [bound EXCEPT !.step = "terminal"]]
(* The turn is known: other turns' responses go, and what came early is read.   *)
Turned(c, u) ==
    /\ Answered(c, "turn") /\ UNCHANGED server
    /\ LET bound == [call[c] EXCEPT !.turn = u, !.early = <<>>, !.responses = {p \in @ : p[1] = u}]
       IN  call' = [call EXCEPT ![c] = [FoldLeft(Note, bound, call[c].early) EXCEPT !.step = "terminal"]]
Terminated(c) ==
    /\ call[c].step = "terminal" /\ call[c].terminal # "none"
    /\ Step(c, "unsubscribe") /\ UNCHANGED <<own, alive, server, closed, world, paid>>
Unsubscribed(c) == Answered(c, "unsubscribe") /\ Step(c, "closing") /\ UNCHANGED server
(* The thread has closed: the last of the turn's messages is the answer.        *)
Finish(c) ==
    /\ call[c].step = "closing" /\ call[c].gone = "yes"
    /\ LET r == call[c]
           fine == r.terminal = "completed" /\ r.texts # <<>>
       IN  call' = [call EXCEPT ![c] = IF fine THEN [Sealed(r, "done") EXCEPT !.answer = Last(r.texts)]
                                       ELSE [r EXCEPT !.step = "raised"]]
    /\ UNCHANGED <<own, alive, server, closed, world, paid>>

(* A notice of the server, of this thread or of others; no response of a turn   *)
(* completes behind the turn, and a tool's work or a final error fails the call *)
(* (Raise).                                                                     *)
Heard == FoldFunction(LAMBDA r, n : r.heard + n, 0, call)
Notify(c, m) ==
    /\ call[c].step \in Waiting \cup {"interrupt"} /\ server.number \in alive
    /\ call[c].dispatched = "yes"
    /\ m.kind \in {"raw", "item", "retry"} \/ call[c].turn = None => Heard < MaxEvents
    /\ m.thread = call[c].thread \/ (m.kind \in {"raw", "item"} /\ m.turn = "u1")
    /\ m.kind = "closed" => m.turn = "u1"
    /\ m.kind = "raw" => call[c].terminal = "none" /\ \A i \in DOMAIN call[c].early :
           ~(call[c].early[i].turn = m.turn /\ call[c].early[i].kind \in {"completed", "failed"})
    /\ m.kind \in {"item", "completed", "failed", "retry", "closed"} => m.id = "r1"
    /\ call' = [call EXCEPT ![c] = [Note(@, m) EXCEPT !.heard = IF m.kind \in {"raw", "item", "retry"} \/ call[c].turn = None THEN @ + 1 ELSE @]]
    /\ paid' = IF m.kind = "raw" THEN paid \cup {<<m.thread, m.turn, m.id>>} ELSE paid
    /\ UNCHANGED <<own, alive, server, closed, world>>
------------------------------------------------------------------------------
(* A failed call interrupts its turn if that has not ended, and hears until the *)
(* server has answered or fails; then it stops the server, whether that         *)
(* succeeds or not.                                                             *)
Interrupt(c) ==
    /\ call[c].step = "raised"
    /\ \/ call[c].turn # None /\ call[c].terminal = "none" /\ Step(c, "interrupt")
       \/ Step(c, "stop")
    /\ UNCHANGED <<own, alive, server, closed, world, paid>>
Interrupted(c) == call[c].step = "interrupt" /\ Step(c, "stop") /\ UNCHANGED <<own, alive, server, closed, world, paid>>
Abandon(c, k) ==
    /\ call[c].step = "stop" /\ Stop(k)
    /\ call' = [call EXCEPT ![c] = Sealed(@, "failed")] /\ UNCHANGED <<closed, world, paid>>

(* The owner closes: nothing starts afterwards.                                 *)
Close(k) ==
    /\ \A c \in Call : ~Locked(c)
    /\ closed' = "yes" /\ Stop(k) /\ UNCHANGED <<world, call, paid>>

AppNext ==
    \/ \E c \in Call :
        \/ Acquire(c) \/ GiveUp(c) \/ Reuse(c) \/ Raise(c) \/ Initialized(c) \/ Configured(c) \/ Isolated(c)
        \/ Terminated(c) \/ Unsubscribed(c) \/ Finish(c) \/ Interrupt(c) \/ Interrupted(c)
        \/ \E k \in 0 .. 4 : ClearFirst(c, k) \/ Abandon(c, k)
        \/ \E made \in SUBSET Resource : Launch(c, made)
        \/ \E t \in Thread, inherits \in {"nothing", "turns"} : Started(c, t, inherits)
        \/ \E u \in Turn : Turned(c, u)
        \/ \E m \in Message : Notify(c, m)
    \/ Exit \/ Change \/ \E k \in 0 .. 4 : Close(k)
AppSpec == AppInit /\ [][AppNext]_appVars
------------------------------------------------------------------------------
(* A call that is done answers with a message of its own thread and turn.       *)
AnswersAreOwn == \A c \in Call : call[c].step = "done" => call[c].answer = <<call[c].thread, call[c].turn>>
(* Usage is only called complete when it counts each response of the turn that  *)
(* the server has completed, and none of another turn.                          *)
UsageIsWhole ==
    \A c \in Call : call[c].step \in Over /\ call[c].usage = "complete" =>
        call[c].responses = {<<p[2], p[3]>> : p \in {q \in paid : q[1] = call[c].thread /\ q[2] = call[c].turn}}
(* One server at most runs, and while it does its owner holds what covers it; a *)
(* closed owner that has cleaned up has nothing left.                           *)
OneServer ==
    /\ Cardinality(alive) <= 1
    /\ alive # {} => {"root", "stderr", "lease", "process"} \subseteq own
    /\ (closed = "yes" /\ server.pending = "no") => own = {}
ServerIsOwned == AppTypeOK /\ OneServer /\ AnswersAreOwn /\ UsageIsWhole
==============================================================================
