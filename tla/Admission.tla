--------------------------------- MODULE Admission ---------------------------------
(* From a verdict to current knowledge: a point is admitted with its evidence,  *)
(* revalidated before it is planned and before it is applied, and its plan is   *)
(* verified once more as it will be written. Between any two of these the       *)
(* repository, the session's source and the knowledge itself may change. An     *)
(* agent's own suggestions go the same way without the verdicts.                *)
EXTENDS Verdicts

CONSTANT MaxTarget    \* bound: versions of the one current entry
ASSUME AdmissionAssumption == MaxVersion \in Nat \ {0} /\ MaxTarget \in Nat \ {0}

VARIABLES
    session,  \* what is left of the session's source
    author,   \* how its users' texts are proved to be theirs
    target,   \* the current entry's version; 0 when there is none
    point,    \* the candidate that is followed, with its evidence
    plan,     \* what has been planned for it
    written   \* what has been written: the plan, and the target that it replaced

admitVars == <<session, author, target, point, plan, written>>

Outcomes == {"unverified", "verified", "contradicted", "not_applicable"}
Does == {"add", "replace", "confirm", "no_write"}
Plan == [does : Does, item : {"as_stated", "reworded"}, snapshot : 0 .. MaxTarget]
NoPlan == [does |-> "no_write", item |-> "as_stated", snapshot |-> 0]
NoCandidate == [at |-> "none", from |-> "worker", claim |-> Plain, shown |-> 0, digest |-> 0, said |-> NoPoint,
            outcome |-> "unverified", stale |-> "no", use |-> "durable", discard |-> "no", proof |-> NoPlan, proved |-> "no"]

AdmitTypeOK ==
    /\ VerdictTypeOK
    /\ session \in {"whole", "unrendered", "rerendered", "damaged"} /\ author \in {"proved", "legacy", "injected"}
    /\ target \in 0 .. MaxTarget /\ plan \in Plan /\ written \in Plan
    /\ point.at \in {"none", "pending", "ready", "planned", "checked", "closed", "written", "stuck"}
    /\ point.outcome \in Outcomes /\ point.proof \in Plan

AdmitInit ==
    /\ VerdictInit /\ session = "whole" /\ author = "proved"
    /\ target = 1 /\ point = NoCandidate /\ plan = NoPlan /\ written = NoPlan

(* The world: the derived rendering is dropped or made anew by another parser,  *)
(* chunks or bytes are lost; the entry is changed or deleted by others.         *)
Decay(s) ==
    /\ point.at \notin {"none", "closed", "written", "stuck"} /\ point.claim.basis # "repository"
    /\ session = "whole" /\ s \in {"unrendered", "rerendered", "damaged"}
    /\ session' = s /\ UNCHANGED <<verdictVars, author, target, point, plan, written>>
Move(v) ==
    /\ point.at \notin {"none", "closed", "written", "stuck"} /\ target # 0 /\ v \in {0, target + 1} \cap 0 .. MaxTarget
    /\ target' = v /\ UNCHANGED <<verdictVars, session, author, point, plan, written>>
------------------------------------------------------------------------------
(* What the cited references are worth now, each kind by its own rules.         *)
UserStatement ==
    IF session \in {"unrendered", "damaged"} \/ author = "injected" THEN "unverified"
    ELSE IF session = "rerendered" THEN "changed" ELSE "verified"
Transcript == IF session = "damaged" THEN "unverified" ELSE "verified"
SourceReport == IF session = "damaged" \/ author # "proved" THEN "unverified" ELSE "verified"
Repository(digest) == IF file = 0 THEN "unverified" ELSE IF file # digest THEN "changed" ELSE "verified"
Refs(p) ==
    CASE p.claim.basis = "user_statement" -> UserStatement
      [] p.claim.basis = "transcript" -> Transcript
      [] p.claim.basis = "source_report" -> SourceReport
      [] p.claim.basis = "repository" -> Repository(p.digest)

(* What becomes of the outcome that the evidence asks for: intact references    *)
(* never make it better, and a transcript alone never proves anything.          *)
Validated(p, closing) ==
    LET refs == Refs(p)
        basis == p.claim.basis
    IN  IF refs = "changed" THEN "contradicted"
        ELSE IF refs = "unverified" THEN "unverified"
        ELSE IF p.outcome = "contradicted" THEN "contradicted"
        ELSE IF p.outcome = "not_applicable" /\ (basis \in {"user_statement", "source_report"} \/ p.use = "session_only")
        THEN "not_applicable"
        ELSE IF basis = "transcript" THEN IF closing = "yes" THEN "not_applicable" ELSE "unverified"
        ELSE IF p.outcome = "unverified" THEN "unverified"
        ELSE "verified"
Revalidated(p, closing) ==
    [p EXCEPT !.outcome = Validated(p, closing), !.stale = IF Refs(p) = "changed" THEN "yes" ELSE @]
Status(p) ==
    CASE p.outcome = "contradicted" -> IF p.stale = "yes" THEN "STALE" ELSE "CONTRADICTED"
      [] p.outcome = "verified" -> "ANSWERED"
      [] p.outcome = "not_applicable" -> "NOT_APPLICABLE"
      [] p.outcome = "unverified" -> "PARTIAL"
Eligible(p) == Status(p) = "ANSWERED" /\ p.use = "durable"
------------------------------------------------------------------------------
(* A verified row, or an agent's suggestion, is admitted: its references are    *)
(* validated with nothing else known.                                           *)
Authored(a) == a \in {"proved", "legacy", "injected"} /\ author' = a
Admit(i, a) ==
    /\ review = "judged" /\ i \in DOMAIN rows /\ point.at = "none" /\ Authored(a)
    /\ point' = Revalidated([NoCandidate EXCEPT !.at = "pending", !.claim = rows[i].claim, !.shown = rows[i].shown,
                             !.digest = rows[i].digest, !.said = rows[i].said, !.outcome = rows[i].outcome,
                             !.use = rows[i].use], "no")
    /\ rows' = <<>> /\ answer' = NoAnswer
    /\ UNCHANGED <<file, review, asked, session, target, plan, written>>
Suggest(claim, outcome, use, discard, a) ==
    /\ review = "decide" /\ asked = 0 /\ point.at = "none" /\ Authored(a) /\ claim.text = "plain" /\ claim.fit = "fits"
    /\ point' = Revalidated([NoCandidate EXCEPT !.at = "pending", !.from = "agent", !.claim = claim, !.digest = claim.cites,
                             !.outcome = outcome, !.use = use, !.discard = discard], "no")
    /\ UNCHANGED <<verdictVars, session, target, plan, written>>

(* Preparation: the evidence is validated again and kept so; a point that is    *)
(* not eligible is closed by rule, any other one is offered with the knowledge  *)
(* there is.                                                                    *)
Prepare ==
    /\ point.at = "pending"
    /\ LET p == Revalidated(point, point.discard)
       IN  point' = [p EXCEPT !.at = IF Eligible(p) THEN "ready" ELSE "closed"]
    /\ UNCHANGED <<verdictVars, session, author, target, plan, written>>
Decided(move) ==
    /\ point.at = "ready"
    /\ move.snapshot = IF move.does \in {"replace", "confirm"} THEN target ELSE 0
    /\ move.does \in {"replace", "confirm"} => target # 0
    /\ plan' = move
    /\ point' = [point EXCEPT !.at = IF move.does = "no_write" THEN "closed" ELSE "planned"]
    /\ UNCHANGED <<verdictVars, session, author, target, written>>

(* The worker has the very items that are to be written verified again, beside  *)
(* sources that are complete; a plan that fails is deferred. An agent's plan    *)
(* needs no such proof.                                                         *)
Complete == point.claim.basis = "repository" => point.shown # 0
Check(p) ==
    /\ point.at = "planned" /\ point.from = "worker"
    /\ point' = IF Complete /\ p = "durable"
                THEN [point EXCEPT !.at = "checked", !.proof = plan, !.proved = "yes"]
                ELSE [point EXCEPT !.at = "closed"]
    /\ UNCHANGED <<verdictVars, session, author, target, plan, written>>
Hand == point.at = "planned" /\ point.from = "agent"
        /\ point' = [point EXCEPT !.at = "checked"] /\ UNCHANGED <<verdictVars, session, author, target, plan, written>>

(* Application prepares once more; what is eligible, and the target, must be    *)
(* what they were, and the proof of the plan as it now reads must be there.     *)
Apply ==
    /\ point.at = "checked"
    /\ LET p == Revalidated(point, point.discard)
           now == [plan EXCEPT !.snapshot = IF plan.does = "add" THEN 0 ELSE target]
           proven == p.proved = "yes" /\ p.proof = now
           fits == /\ Eligible(p) /\ (plan.does \in {"replace", "confirm"} => target # 0)
                   /\ (p.from = "worker" => proven)
       IN  /\ point' = [p EXCEPT !.at = IF fits THEN "written" ELSE "stuck"]
           /\ written' = IF fits THEN now ELSE written
           /\ target' = IF fits /\ plan.does = "replace" THEN 0 ELSE target
    /\ UNCHANGED <<verdictVars, session, author, plan>>

(* Bound: at most one other point, which is plain and durable.                  *)
Answers ==
    LET one == {<<c>> : c \in Candidate}
        two == {<<c, Plain>> : c \in {d \in Candidate : d.fit = "handoff" \/ d.cites = 0}} \cup {<<Plain, Plain>>}
    IN  {[NoAnswer EXCEPT !.points = s] : s \in one \cup two}
        \cup [points : {<<>>}, dismissed : SUBSET Signal, named : SUBSET Signal, substance : {"yes", "no"}]
(* Bound: the file is followed while something still depends on it.             *)
Changed(v) ==
    /\ point.at \notin {"closed", "written", "stuck"}
    /\ IF point.at = "none" THEN review \in {"decide", "read", "digest", "verify", "judged"} ELSE point.claim.basis = "repository"
    /\ Edit(v) /\ UNCHANGED admitVars
Verdict == point.at = "none" /\ UNCHANGED admitVars /\
    \/ review = "decide" /\ \E a \in Answers : Decide(a)
    \/ ReadContent \/ ReadDigest
    \/ review = "verify" /\ \E p \in Point, first \in DOMAIN rows, covers \in BOOLEAN :
           Verify([i \in DOMAIN rows |-> IF i = first THEN p ELSE Durable], covers)

AdmitNext ==
    \/ Verdict
    \/ \E v \in Version : Changed(v)
    \/ \E s \in {"unrendered", "rerendered", "damaged"} : Decay(s)
    \/ \E v \in 0 .. MaxTarget : Move(v)
    \/ review = "judged" /\ \E i \in DOMAIN rows, a \in {"proved", "legacy", "injected"} : Admit(i, a)
    \/ review = "decide" /\ asked = 0 /\
           \E c \in Candidate, outcome \in Outcomes, use \in {"durable", "session_only"}, discard \in {"no", "yes"},
              a \in {"proved", "legacy", "injected"} : Suggest(c, outcome, use, discard, a)
    \/ Prepare \/ Hand \/ Apply
    \/ \E m \in Plan : Decided(m)
    \/ \E p \in {"durable", "other"} : Check(p)
AdmitSpec == AdmitInit /\ [][AdmitNext]_<<verdictVars, admitVars>>
------------------------------------------------------------------------------
(* A session without points has answered for each durable signal in it.         *)
SilenceIsExplained == review = "empty" => Signal \subseteq answer.dismissed /\ (Signal # {} => answer.substance = "yes")
(* What a review has written was supported in all its parts by the verdict on   *)
(* it, as long-lived as each of them, and as the plan's own proof has it.       *)
VerifiedIsWritten ==
    point.at = "written" /\ point.from = "worker" =>
        /\ point.said.support = "supported" /\ point.said.sound = "all" /\ point.said.parts = {"durable"}
        /\ point.said.whole = "whole" /\ point.said.future = "durable" /\ point.use = "durable"
        /\ point.proof = written /\ (written.does = "replace" => target = 0)
(* Nobody's knowledge rests on a transcript alone, on texts that are not proved *)
(* to be their author's, or on a file that is not what it cites.                *)
RestsOnSources ==
    point.at = "written" =>
        /\ point.claim.basis # "transcript"
        /\ point.claim.basis = "source_report" => author = "proved"
        /\ point.claim.basis = "user_statement" => author # "injected"
        /\ point.claim.basis = "repository" => point.digest = file
(* What is admitted and written has been supported, as it is written, by what   *)
(* it cites; and a session with nothing to keep has accounted for its signals.  *)
KnowledgeIsEarned == AdmitTypeOK /\ SilenceIsExplained /\ VerifiedIsWritten /\ RestsOnSources
==============================================================================
