------------------------------- MODULE Projection -------------------------------
(* The semantic rendering of a growing session, and the proof that a verdict of *)
(* "nothing to remember" rests on.  A revision that appends to an older one is  *)
(* parsed from where the older one ended; a reviewer is shown windows that are  *)
(* always parsed from the beginning.                                            *)
EXTENDS Naturals, FiniteSets, SequencesExt

CONSTANTS
    Message,     \* what may be said: <<role, words>>
    SignalsOf,   \* words |-> the memory signals and risks found in them
    MaxMessages, \* bounds: on a session's length,
    MaxCaptures  \* and on its revisions

VARIABLES
    revs,       \* the captured revisions, oldest first
    cache,      \* the one saved projection: of which revision, and its exchanges
    verdict     \* the verdict on one of them

projVars == <<revs, cache, verdict>>

Failure == "failure"
NoCache == [rev |-> 0, exchanges |-> <<>>]
NoVerdict == [rev |-> 0, refs |-> {}, marks |-> {}]
------------------------------------------------------------------------------
(* _parse_exchanges: a message that repeats the one before is dropped, a user's *)
(* message starts an exchange, and the names of passive tools are left out.     *)
Unrepeated(msgs) ==
    LET Add(kept, m) == IF kept # <<>> /\ Last(kept) = m THEN kept ELSE Append(kept, m)
    IN  FoldLeft(Add, <<>>, msgs)

Empty == [user |-> <<>>, assistant |-> <<>>, tools |-> <<>>]
Extended(x, m) ==
    CASE m[1] = "user" -> [x EXCEPT !.user = Append(@, m[2])]
      [] m[1] = "assistant" -> [x EXCEPT !.assistant = Append(@, m[2])]
      [] m[2] = "wait" -> x
      [] OTHER -> [x EXCEPT !.tools = Append(@, m[2])]
Exchanges(msgs) ==
    LET Add(xs, m) == IF m[1] = "user" /\ Last(xs) # Empty THEN Append(xs, Extended(Empty, m))
                      ELSE Front(xs) \o <<Extended(Last(xs), m)>>
    IN  SelectSeq(FoldLeft(Add, <<Empty>>, Unrepeated(msgs)), LAMBDA x : x # Empty)

(* Risks and signals are found in what was said, not in the tools.              *)
Signals(x) == UNION {SignalsOf[w] : w \in Range(x.user) \cup Range(x.assistant)}

(* _zero_candidate_challenge_manifest: the last exchange of each signal, the    *)
(* first and the last failure of several, and the final exchange.               *)
With(xs, s) == {i \in DOMAIN xs : s \in Signals(xs[i])}
Largest(S) == CHOOSE i \in S : \A j \in S : j <= i
Smallest(S) == CHOOSE i \in S : \A j \in S : i <= j
AllSignals == UNION {SignalsOf[w] : w \in DOMAIN SignalsOf} \ {Failure}
Reasons(xs) ==
    IF xs = <<>> THEN {}
    ELSE {<<Len(xs), "final">>}
         \cup {<<Largest(With(xs, s)), s>> : s \in {t \in AllSignals : With(xs, t) # {}}}
         \cup (IF With(xs, Failure) = {} THEN {}
               ELSE {<<Smallest(With(xs, Failure)), Failure>>, <<Largest(With(xs, Failure)), Failure>>})
Required(xs) == {r[1] : r \in Reasons(xs)}
------------------------------------------------------------------------------
(* A reused prefix must be one, byte for byte.                                  *)
Covers(old, new) == Len(old) < Len(new) /\ IsPrefix(old, new)

(* Mutant of Reusable: the older revision is only shorter.                      *)
ReusableWhenShorter(r) ==
    /\ cache.rev # 0 /\ cache.rev < r /\ Len(revs[cache.rev]) < Len(revs[r])
Reusable(r) ==
    /\ cache.rev # 0 /\ cache.rev < r /\ Covers(revs[cache.rev], revs[r])
    /\ LET tail == SubSeq(revs[r], Len(revs[cache.rev]) + 1, Len(revs[r]))
       IN  Exchanges(tail) # <<>>

(* _reuse_append_projection: what begins in the middle of an exchange goes on   *)
(* with it.                                                                     *)
Merged(a, b) == [user |-> a.user \o b.user, assistant |-> a.assistant \o b.assistant, tools |-> a.tools \o b.tools]
Joined(xs, tail) ==
    IF tail # <<>> /\ xs # <<>> /\ Head(tail).user = <<>>
    THEN Front(xs) \o <<Merged(Last(xs), Head(tail))>> \o Tail(tail)
    ELSE xs \o tail
Parsed(r) ==
    IF Reusable(r)
    THEN Joined(cache.exchanges, Exchanges(SubSeq(revs[r], Len(revs[cache.rev]) + 1, Len(revs[r]))))
    ELSE Exchanges(revs[r])

(* A window shows all that the user said, the last that the assistant said, and *)
(* how often each tool was used; windows are always parsed in full.             *)
Rendered(x) ==
    [user |-> x.user, outcome |-> IF x.assistant = <<>> THEN "none" ELSE Last(x.assistant),
     tools |-> {<<n, Cardinality({i \in DOMAIN x.tools : x.tools[i] = n})>> : n \in Range(x.tools)}]
Windows(r, indexes) ==
    LET xs == Exchanges(revs[r])
    IN  {<<i, Rendered(xs[i])>> : i \in indexes \cap DOMAIN xs}
------------------------------------------------------------------------------
Sessions == UNION {[1 .. n -> Message] : n \in 0 .. MaxMessages}
ProjTypeOK ==
    /\ \A r \in DOMAIN revs : revs[r] \in Sessions
    /\ cache.rev \in 0 .. MaxCaptures
    /\ verdict.rev \in 0 .. MaxCaptures

ProjInit == revs = <<>> /\ cache = NoCache /\ verdict = NoVerdict

(* A capture finds the session grown, or taken back and told anew.              *)
Capture ==
    /\ Len(revs) < MaxCaptures
    /\ \E new \in Sessions \ ({<<>>} \cup Range(revs)) : revs' = Append(revs, new)
    /\ UNCHANGED <<cache, verdict>>

(* Only the newest revision's projection is kept: the next append needs it.     *)
Saved(new) == IF cache.rev > new.rev THEN cache ELSE new
Load(r) ==
    /\ cache' = Saved([rev |-> r, exchanges |-> Parsed(r)])
    /\ UNCHANGED <<revs, verdict>>

(* _validate_zero_candidate_challenge: the manifest is computed anew, and each  *)
(* exchange that it names must have been inspected as the windows show it; no   *)
(* signal of it may be marked absent.  This reviewer inspects and admits as     *)
(* little as is accepted; without exchanges, all the raw chunks.                *)
Judge(r) ==
    LET xs == Parsed(r)
        proof == Windows(r, Required(xs))
    IN  /\ {w[1] : w \in proof} = Required(xs)
        /\ verdict' = [rev |-> r, refs |-> proof, marks |-> AllSignals \ {s[2] : s \in Reasons(xs)}]
        /\ UNCHANGED <<revs, cache>>

ProjNext ==
    /\ verdict = NoVerdict   \* a bound: one verdict
    /\ \/ Capture
       \/ \E r \in DOMAIN revs : Load(r) \/ Judge(r)
ProjSpec == ProjInit /\ [][ProjNext]_projVars
------------------------------------------------------------------------------
(* "Nothing to remember" is accepted only from a reviewer who has inspected the *)
(* last exchange of every signal, the first and last failure and the final      *)
(* exchange of the revision as it is, and who denies no signal that is there;   *)
(* however the rendering was put together from older revisions                  *)
(* (_validate_zero_candidate_challenge).                                        *)
VerdictIsInspected ==
    verdict.rev # 0 =>
        LET xs == Exchanges(revs[verdict.rev])
        IN  /\ \A i \in Required(xs) : <<i, Rendered(xs[i])>> \in verdict.refs
            /\ \A i \in DOMAIN xs : Signals(xs[i]) \cap verdict.marks = {}

(* A rendering built by appending is the one that a full parse gives.           *)
AppendIsFull == cache.rev # 0 => cache.exchanges = Exchanges(revs[cache.rev])
==============================================================================
