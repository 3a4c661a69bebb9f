------------------------------ MODULE NativeEvents ------------------------------
(* The command that a host calls on its own events.  At the stop of a turn it   *)
(* queues the turn's maintenance; Codex may deliver one stop several times, by  *)
(* several registrations, and equal deliveries pass through a lock and leave a  *)
(* receipt.  At a start it answers with the context of the project; hosts that  *)
(* ask before each call of the model get it once for a trigger, and a receipt   *)
(* that names the trigger and the hook files of the time says that they did.    *)
EXTENDS FiniteSets, Naturals

CONSTANTS
    Delivery,     \* processes that the hosts start
    Stop,         \* ends of turns: records of host, session, turn and reply
    Wake,         \* requests for context: records of host, session, trigger and task
    Version,      \* contents of a hook file that has our hooks
    Missing,      \* what the host does not say
    MaxMishaps    \* bound on deaths, failed writes and changes of the hook files

Named == {"claude-code", "cursor", "grok"}     \* hosts whose stop must name its session
Repeated == {"hermes", "antigravity"}          \* _REPEATED_WAKE_CLIENTS

VARIABLES
    job,       \* what each process is doing
    turn,      \* who holds the lock of each stop
    kept,      \* the receipt of each stop
    hooks,     \* the user's and the project's hook file
    stamp,     \* the receipts of the starts
    mishaps

eventVars == <<job, turn, kept, hooks, stamp, mishaps>>
------------------------------------------------------------------------------
(* An event is known by its session, its turn and its reply.                    *)
Known(e) == e.host = "codex" /\ Missing \notin {e.session, e.turn}
(* Mutant of Key: a turn ends once.                                             *)
KeyOfTurn(e) == [e EXCEPT !.reply = Missing]
Key(e) == e
Keys == {Key(e) : e \in {s \in Stop : Known(s)}}

(* hook_configuration_fingerprint: the user's hooks are enough; without them    *)
(* the project must have its own.                                               *)
Fingerprint ==
    IF hooks.user \in Version \/ hooks.project \in Version
    THEN [f \in {"user", "project"} |-> IF hooks[f] \in Version THEN hooks[f] ELSE Missing]
    ELSE Missing

(* Receipts are kept by host, and for Antigravity by session as well.           *)
Wide(w) == <<w.host, Missing>>
Own(w) == IF w.host = "antigravity" THEN <<w.host, w.session>> ELSE Wide(w)
Stamped(w) == [trigger |-> w.trigger, hooks |-> Fingerprint]
Repeats(w) ==
    /\ w.host \in Repeated /\ (w.host = "antigravity" \/ ~w.task) /\ w.trigger # Missing
    /\ Fingerprint # Missing /\ stamp[Own(w)] = {Stamped(w)}

Nothing == CHOOSE e \in Stop : TRUE
NoJob == [at |-> "idle", event |-> Nothing, says |-> "none", asked |-> FALSE, dup |-> FALSE]

EventTypeOK ==
    /\ \A d \in Delivery :
          /\ job[d].event \in Stop \cup Wake
          /\ job[d].at \in {"idle", "lock", "run", "ran", "build", "wide", "own", "say", "over"}
          /\ job[d].says \in {"none", "queued", "skipped", "failed", "context", "lost", "dead"}
          /\ job[d].asked \in BOOLEAN /\ job[d].dup \in BOOLEAN
    /\ \A k \in Keys : turn[k] \subseteq Delivery /\ Cardinality(turn[k]) <= 1
    /\ kept \in [Keys -> {"none", "queued", "skipped", "failed"}]
    /\ hooks \in [{"user", "project"} -> Version \cup {Missing}]
    /\ \A p \in DOMAIN stamp : Cardinality(stamp[p]) <= 1
    /\ mishaps \in 0..MaxMishaps

EventInit ==
    /\ job = [d \in Delivery |-> NoJob]
    /\ turn = [k \in Keys |-> {}] /\ kept = [k \in Keys |-> "none"]
    /\ hooks \in [{"user", "project"} -> Version \cup {Missing}]
    /\ stamp = [p \in {Wide(w) : w \in Wake} \cup {Own(w) : w \in Wake} |-> {}]
    /\ mishaps = 0

Mishap == mishaps < MaxMishaps /\ mishaps' = mishaps + 1
Becomes(d, r) == job' = [job EXCEPT ![d] = r]
Free(d) == turn' = [k \in Keys |-> turn[k] \ {d}]
------------------------------------------------------------------------------
(* Stops.                                                                       *)
DeliverStop(d, e) ==
    /\ job[d].at = "idle"
    /\ Becomes(d, IF e.host \in Named /\ e.session = Missing
                  THEN [NoJob EXCEPT !.at = "over", !.event = e, !.says = "failed"]
                  ELSE [NoJob EXCEPT !.at = IF Known(e) THEN "lock" ELSE "run", !.event = e])
    /\ UNCHANGED <<turn, kept, hooks, stamp, mishaps>>

(* serialize_native_hook_event, and the receipt that is read under the lock: an *)
(* event that was queued is answered, another one is run.                       *)
TakeTurn(d) ==
    /\ job[d].at = "lock"
    /\ LET k == Key(job[d].event) IN
          /\ turn[k] = {} /\ turn' = [turn EXCEPT ![k] = {d}]
          /\ Becomes(d, IF kept[k] = "queued" THEN [job[d] EXCEPT !.at = "ran", !.says = "queued", !.dup = TRUE]
                        ELSE [job[d] EXCEPT !.at = "run"])
    /\ UNCHANGED <<kept, hooks, stamp, mishaps>>

(* The turn is queued, or skipped while maintenance or our own review runs, or  *)
(* its dispatch fails.                                                          *)
Request(d, says) ==
    /\ job[d].at = "run"
    /\ Becomes(d, [job[d] EXCEPT !.at = IF Known(job[d].event) THEN "ran" ELSE "over", !.says = says,
                                 !.asked = (says = "queued")])
    /\ UNCHANGED <<turn, kept, hooks, stamp, mishaps>>

(* The receipt is replaced as a whole, also by a duplicate, which adds itself   *)
(* to the callers.                                                              *)
KeepReceipt(d) ==
    /\ job[d].at = "ran"
    /\ kept' = [kept EXCEPT ![Key(job[d].event)] = job[d].says]
    /\ Becomes(d, [job[d] EXCEPT !.at = "over"]) /\ Free(d)
    /\ UNCHANGED <<hooks, stamp, mishaps>>
KeepFails(d) ==
    /\ job[d].at = "ran" /\ Mishap
    /\ Becomes(d, [job[d] EXCEPT !.at = "over", !.says = "failed"]) /\ Free(d)
    /\ UNCHANGED <<kept, hooks, stamp>>
------------------------------------------------------------------------------
(* Starts.  Our own reviewer gets nothing, nor does anybody when the settings   *)
(* do not load; after that the receipt is read.                                 *)
DeliverWake(d, w) ==
    /\ job[d].at = "idle"
    /\ \/ Becomes(d, IF Repeats(w) THEN [NoJob EXCEPT !.at = "over", !.event = w, !.says = "skipped"]
                     ELSE [NoJob EXCEPT !.at = "build", !.event = w])
       \/ Becomes(d, [NoJob EXCEPT !.at = "over", !.event = w, !.says = "failed"])
    /\ UNCHANGED <<turn, kept, hooks, stamp, mishaps>>

Build(d) ==
    /\ job[d].at = "build"
    /\ \/ Becomes(d, [job[d] EXCEPT !.at = "wide"])
       \/ Becomes(d, [job[d] EXCEPT !.at = "over", !.says = "failed"])
    /\ UNCHANGED <<turn, kept, hooks, stamp, mishaps>>

(* record_success, once or twice: the hook files are those of now.              *)
WriteStamp(d, place, next) ==
    /\ stamp' = IF Fingerprint = Missing THEN stamp
                ELSE [stamp EXCEPT ![place] = {Stamped(job[d].event)}]
    /\ Becomes(d, [job[d] EXCEPT !.at = next])
    /\ UNCHANGED <<turn, kept, hooks, mishaps>>
StampWide(d) ==
    /\ job[d].at = "wide"
    /\ WriteStamp(d, Wide(job[d].event), IF Own(job[d].event) = Wide(job[d].event) THEN "say" ELSE "own")
StampOwn(d) == job[d].at = "own" /\ WriteStamp(d, Own(job[d].event), "say")
StampFails(d) ==
    /\ job[d].at \in {"wide", "own"} /\ Mishap
    /\ Becomes(d, [job[d] EXCEPT !.at = "say"])
    /\ UNCHANGED <<turn, kept, hooks, stamp>>

(* The host gets the context after the receipts are written.                    *)
Answer(d) ==
    /\ job[d].at = "say"
    /\ Becomes(d, [job[d] EXCEPT !.at = "over", !.says = "context"])
    /\ UNCHANGED <<turn, kept, hooks, stamp, mishaps>>
------------------------------------------------------------------------------
(* The system releases the lock of a process that dies.                         *)
Die(d) ==
    /\ job[d].at \notin {"idle", "over"} /\ Mishap
    /\ Becomes(d, [job[d] EXCEPT !.at = "over", !.says = IF job[d].at = "say" THEN "lost" ELSE "dead"])
    /\ Free(d)
    /\ UNCHANGED <<kept, hooks, stamp>>
ChangeHooks(f, v) ==
    /\ hooks[f] # v /\ Mishap /\ hooks' = [hooks EXCEPT ![f] = v]
    /\ UNCHANGED <<job, turn, kept, stamp>>

EventNext ==
    \/ \E d \in Delivery :
          \/ \E e \in Stop : DeliverStop(d, e)
          \/ \E w \in Wake : DeliverWake(d, w)
          \/ \E says \in {"queued", "skipped", "failed"} : Request(d, says)
          \/ TakeTurn(d) \/ KeepReceipt(d) \/ KeepFails(d)
          \/ Build(d) \/ StampWide(d) \/ StampOwn(d) \/ StampFails(d) \/ Answer(d) \/ Die(d)
    \/ \E f \in {"user", "project"}, v \in Version \cup {Missing} : ChangeHooks(f, v)

EventSpec == EventInit /\ [][EventNext]_eventVars
------------------------------------------------------------------------------
AskedFor(d, e) == job[d].event = e /\ job[d].asked

(* _run_codex_stop_event: "Queue identical native Stop deliveries once", and "a *)
(* changed reply after a blocking Stop hook must remain eligible".  Whoever is  *)
(* told that a turn is queued, it has been, for this reply and by somebody who  *)
(* was told as well; and it has been queued once, but for those who died or     *)
(* failed before they had their receipt.                                        *)
StopsAreQueuedOnce ==
    /\ \A d \in Delivery : job[d].says = "queued" =>
          \E c \in Delivery : AskedFor(c, job[d].event) /\ job[c].says = "queued"
    /\ \A e \in {s \in Stop : Known(s)} :
          Cardinality({d \in Delivery : AskedFor(d, e) /\ job[d].says = "queued"}) <= 1

(* A start is skipped only when the context of its trigger has been made for    *)
(* this session: the host has it, gets it in a moment, or its process died      *)
(* after the receipt.                                                           *)
SkippedIsGiven == \A d \in Delivery : (job[d].event \in Wake /\ job[d].says = "skipped") =>
    \E c \in Delivery \ {d} :
        /\ job[c].event.host = job[d].event.host /\ job[c].event.session = job[d].event.session
        /\ job[c].event.trigger = job[d].event.trigger
        /\ job[c].at = "say" \/ job[c].says \in {"context", "lost"}
==============================================================================
