--------------------------------- MODULE HostCli ---------------------------------
(* One review call through the command line of a host: the process, the lease   *)
(* that marks it, the wait with its heartbeats, and what is read out of its     *)
(* output; and the hooks that the host runs inside, which must not start more   *)
(* background work.                                                             *)
EXTENDS Naturals, FiniteSets, SequencesExt

CONSTANTS Attempt, MaxOutput   \* calls for one review, in order; a bound on a stream

VARIABLES
    platform,  \* "posix" or "nt"
    holder,    \* the attempt that holds the review
    attempt,   \* one record for each call
    let        \* hooks that were let through: the calls in whose processes they ran

cliVars == <<platform, holder, attempt, let>>

Host == {"stream", "file", "text"}   \* antigravity; opencode; claude-code and hermes
Event == {"init", "tools", "step", "tool", "result", "refused", "junk"}
Output == {"json", "around", "prose", "failure", "empty"}
Failure == {"setup_required", "auth_invalid", "quota_exhausted", "transient", "unrecoverable"}
Outcome == {"none", "decision"} \cup Failure
Idle(host) == [at |-> "idle", host |-> host, process |-> "none", lease |-> "no", stream |-> <<>>,
         output |-> "empty", code |-> "zero", why |-> "none", outcome |-> "none"]
CliTypeOK ==
    /\ platform \in {"posix", "nt"} /\ holder \in 0 .. Attempt /\ let \subseteq 1 .. Attempt
    /\ \A a \in 1 .. Attempt :
        /\ attempt[a].at \in {"idle", "leased", "waiting", "ended", "over"} /\ attempt[a].host \in Host
        /\ attempt[a].process \in {"none", "running", "gone"} /\ attempt[a].outcome \in Outcome
        /\ attempt[a].stream \in UNION {[1 .. n -> Event] : n \in 0 .. MaxOutput}

CliInit ==
    /\ platform \in {"posix", "nt"} /\ holder = 0 /\ let = {}
    /\ \E host \in Host : attempt = [a \in 1 .. Attempt |-> Idle(host)]

(* A child of a host that is contained on Windows ends with its scope.          *)
Contained(a) == platform = "nt" /\ attempt[a].host = "stream"
------------------------------------------------------------------------------
(* The review is claimed (again, once another call has lost it); a program that *)
(* is not found and a directory with hooks of its own end the call at once.     *)
(* What earlier calls have returned is with their callers.                      *)
Begin(a, fits) ==
    /\ attempt[a].at = "idle" /\ a = holder + 1
    /\ holder' = a
    /\ attempt' = [b \in 1 .. Attempt |->
           IF b # a /\ attempt[b].at # "over" THEN attempt[b]
           ELSE IF b # a THEN [attempt[b] EXCEPT !.stream = <<>>, !.outcome = "none", !.code = "zero", !.output = "empty"]
           ELSE IF fits THEN [attempt[a] EXCEPT !.at = "leased", !.lease = "yes"]
           ELSE [attempt[a] EXCEPT !.at = "over", !.outcome = "setup_required"]]
    /\ UNCHANGED <<platform, let>>
Over(a, outcome, process, why) ==
    attempt' = [attempt EXCEPT ![a].at = "over", ![a].lease = "no", ![a].outcome = outcome,
                               ![a].process = process, ![a].why = why,
                               ![a].stream = IF outcome = "decision" THEN @ ELSE <<>>,
                               ![a].output = "empty"]
(* The lease is there before the process is.                                    *)
Spawn(a, starts) ==
    /\ attempt[a].at = "leased"
    /\ IF starts THEN attempt' = [attempt EXCEPT ![a].at = "waiting", ![a].process = "running"]
       ELSE Over(a, "setup_required", "none", "spawn")
    /\ UNCHANGED <<platform, holder, let>>

(* The process writes (bounded for all calls together), and ends; also when     *)
(* nobody waits for it any more.                                                *)
Written == FoldFunctionOnSet(LAMBDA r, n : Len(r.stream) + n, 0, attempt, 1 .. Attempt)
Write(a, e) ==
    /\ attempt[a].process = "running" /\ attempt[a].host = "stream" /\ Written < MaxOutput
    /\ attempt[a].at = "waiting"
    /\ attempt' = [attempt EXCEPT ![a].stream = Append(@, e)] /\ UNCHANGED <<platform, holder, let>>
End(a, code, output) ==
    /\ attempt[a].process = "running"
    /\ attempt[a].host = "stream" => output \in {"empty", "failure"}
    /\ attempt' = [attempt EXCEPT ![a].process = "gone", ![a].code = code, ![a].output = output,
                                  ![a].at = IF @ = "waiting" THEN "ended" ELSE @]
    /\ UNCHANGED <<platform, holder, let>>

(* The deadline passes: the process is terminated first.                        *)
Timeout(a) ==
    /\ attempt[a].at = "waiting" /\ Over(a, "transient", "gone", "deadline") /\ UNCHANGED <<platform, holder, let>>
(* A heartbeat that fails: when the receipt cannot be written the process is    *)
(* terminated; when the review is lost it is not, unless its scope contains it. *)
Heartbeat(a, fault) ==
    /\ attempt[a].at = "waiting"
    /\ fault = "lost" => holder # a
    /\ IF fault = "write" THEN Over(a, "setup_required", "gone", "heartbeat")
       ELSE Over(a, "transient", IF Contained(a) THEN "gone" ELSE "running", "heartbeat")
    /\ UNCHANGED <<platform, holder, let>>
------------------------------------------------------------------------------
(* A stream in the order of its events: it begins with the worker that has no   *)
(* tools, has no tool's work in it, and nothing comes behind its one result.    *)
Read(state, e) ==
    CASE state \in Failure -> state
      [] state = "start" /\ e = "init" -> "open"
      [] state = "start" /\ e = "tools" -> "setup_required"
      [] state = "open" /\ e = "step" -> "open"
      [] state = "open" /\ e \in {"result", "refused"} -> e
      [] OTHER -> "unrecoverable"
StreamOutcome(stream) ==
    LET state == FoldLeft(Read, "start", stream)
    IN  IF state = "result" THEN "decision" ELSE IF state \in {"start", "open"} THEN "unrecoverable" ELSE state
(* The others: the whole text, or the first complete object in it.              *)
TextOutcome(host, output) ==
    IF output = "json" \/ (output = "around" /\ host = "text") THEN "decision" ELSE "unrecoverable"
(* A program that failed, a result that is a refusal and a failure that is only *)
(* reported in words are told apart by their wording.                           *)
Classified(r, kind) ==
    LET read == IF r.host = "stream" THEN StreamOutcome(r.stream) ELSE TextOutcome(r.host, r.output)
    IN  IF r.code # "zero" THEN kind
        ELSE IF read = "refused" \/ (read # "decision" /\ r.output = "failure") THEN kind
        ELSE read
Accept(a, kind) ==
    /\ attempt[a].at = "ended"
    /\ Over(a, Classified(attempt[a], kind), "gone", "ended")
    /\ UNCHANGED <<platform, holder, let>>

(* A hook that the host runs inside a call: blocked by the mark in its          *)
(* environment, or else by the lease of a process above it.                     *)
AncestorActive(a) == attempt[a].lease = "yes"
HookRuns(a, marked) ==
    /\ attempt[a].process = "running"
    /\ let' = IF marked \/ AncestorActive(a) THEN let ELSE let \cup {a}
    /\ UNCHANGED <<platform, holder, attempt>>

CliNext == \E a \in 1 .. Attempt :
    \/ \E b \in BOOLEAN : Begin(a, b) \/ Spawn(a, b) \/ HookRuns(a, b)
    \/ (\E e \in Event : Write(a, e)) \/ Timeout(a) \/ (\E kind \in Failure : Accept(a, kind))
    \/ \E code \in {"zero", "other"}, output \in Output : End(a, code, output)
    \/ \E fault \in {"write", "lost"} : Heartbeat(a, fault)
CliSpec == CliInit /\ [][CliNext]_cliVars
------------------------------------------------------------------------------
(* A process outlives its call only when a heartbeat has lost the review, where *)
(* no scope contains it; only then is a hook inside let through; and what is    *)
(* taken for a decision is a whole one, without a tool's work, of a call that   *)
(* ended well (_wait_for_cli, _extract_antigravity_result, hook_guard).         *)
OnlyALostReviewOrphans ==
    \A a \in 1 .. Attempt :
        LET r == attempt[a]
            n == Len(r.stream)
            lost == r.why = "heartbeat" /\ holder > a /\ ~Contained(a)
        IN  /\ r.at = "over" /\ r.process = "running" => lost
            /\ a \in let => lost
            /\ r.outcome = "decision" =>
                   /\ r.code = "zero" /\ r.process = "gone"
                   /\ r.host = "stream" => n >= 2 /\ r.stream[1] = "init" /\ r.stream[n] = "result"
                                           /\ \A i \in 2 .. n - 1 : r.stream[i] = "step"
==============================================================================
