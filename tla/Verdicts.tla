--------------------------------- MODULE Verdicts ---------------------------------
(* What a background review takes from the two answers of its model: the points *)
(* of a session, or the reasons why it has none, and then a verdict on each     *)
(* point beside the sources that it cites. An unusable first answer is asked    *)
(* for once more; an unusable verdict fails the review.                         *)
EXTENDS Naturals, FiniteSets, Sequences

CONSTANTS Signal,      \* the durable signals that the transcript raised
          MaxVersion   \* bound: contents of the repository's file

VARIABLES
    file,     \* the content of the repository's file; 0 when there is none
    review,   \* how far the review is
    asked,    \* extraction answers so far
    answer,   \* the answer that was taken
    rows      \* the points that are verified, by their places in the answer

verdictVars == <<file, review, asked, answer, rows>>

Version == 0 .. MaxVersion
Basis == {"user_statement", "transcript", "source_report", "repository"}
(* cites: the content that a repository point says to rest on, or for the other *)
(* points whether their exchange exists. text: whether it states the current    *)
(* version, or is a task's envelope. fit: whether it is one of the session's    *)
(* next steps.                                                                  *)
Candidate ==
    {c \in [basis : Basis, cites : Version, text : {"plain", "version", "envelope"}, fit : {"fits", "handoff"}] :
        /\ c.basis # "repository" => c.cites \in {0, 1}
        /\ c.text = "envelope" => c.basis = "user_statement"
        /\ c.fit = "handoff" => c.text = "plain" /\ c.cites = 1}
Plain == [basis |-> "user_statement", cites |-> 1, text |-> "plain", fit |-> "fits"]
Scope == {"durable", "session_only", "unclear"}
Point == [support : {"supported", "partial", "contradicted"}, future : Scope, parts : SUBSET Scope,
          whole : {"whole", "altered"}, sound : {"all", "some"}]
Durable == [support |-> "supported", future |-> "durable", parts |-> {"durable"}, whole |-> "whole", sound |-> "all"]
NoPoint == [Durable EXCEPT !.parts = {}]
NoAnswer == [points |-> <<>>, dismissed |-> {}, named |-> {}, substance |-> "no"]
Row(c) == [claim |-> c, shown |-> 0, digest |-> c.cites, said |-> NoPoint, outcome |-> "unverified", use |-> "durable"]

VerdictTypeOK ==
    /\ file \in Version /\ asked \in 0 .. 2
    /\ review \in {"decide", "read", "digest", "verify", "judged", "empty", "failed"}
    /\ \A i \in DOMAIN rows : /\ rows[i].claim \in Candidate /\ rows[i].shown \in Version /\ rows[i].digest \in Version
                              /\ rows[i].said \in Point
                              /\ rows[i].outcome \in {"unverified", "verified", "contradicted", "not_applicable"}

VerdictInit ==
    /\ file = 1 /\ review = "decide" /\ asked = 0 /\ answer = NoAnswer /\ rows = <<>>

(* Work goes on in the repository: its file is changed, removed, or restored.   *)
Edit(v) == file' = v /\ v \in Version \ {file} /\ UNCHANGED <<review, asked, answer, rows>>
------------------------------------------------------------------------------
(* A signal is dismissed by its name alone; the explanation must name each one  *)
(* that is, and a substantive explanation has missing names added to it.        *)
Labelled(a) == IF a.substance = "yes" THEN a.named \cup a.dismissed ELSE a.named
Explained(a) ==
    /\ Signal \subseteq a.dismissed
    /\ Signal # {} => a.substance = "yes" /\ Signal \subseteq Labelled(a)
Usable(c) == c.fit = "fits"
Taken(a) == IF a.points = <<>> THEN Explained(a) ELSE \E i \in DOMAIN a.points : Usable(a.points[i])
Cited(a) == \A i \in DOMAIN a.points : a.points[i].basis # "repository" => a.points[i].cites = 1

(* An answer that cites an exchange that was not shown fails the review at once.*)
Decide(a) ==
    /\ review = "decide" /\ asked' = asked + 1
    /\ review' = IF ~Cited(a) THEN "failed"
                 ELSE IF Taken(a) THEN IF a.points = <<>> THEN "empty" ELSE "read"
                 ELSE IF asked = 0 THEN "decide" ELSE "failed"
    /\ answer' = IF review' \in {"empty", "read"} THEN a ELSE NoAnswer
    /\ rows' = IF review' = "read" THEN [i \in {j \in DOMAIN a.points : Usable(a.points[j])} |-> Row(a.points[i])]
               ELSE <<>>
    /\ UNCHANGED file

(* What the verifier is shown: the file's content, and then, in a second        *)
(* reading, the digest of its bytes.                                            *)
OnFile(i) == rows[i].claim.basis = "repository"
ReadContent ==
    /\ review = "read" /\ review' = "digest"
    /\ rows' = [i \in DOMAIN rows |-> IF OnFile(i) THEN [rows[i] EXCEPT !.shown = file, !.digest = 0] ELSE rows[i]]
    /\ UNCHANGED <<file, asked, answer>>
ReadDigest ==
    /\ review = "digest"
    /\ LET gone == file = 0 /\ \E i \in DOMAIN rows : OnFile(i) /\ rows[i].shown # 0
       IN  /\ review' = IF gone THEN "failed" ELSE "verify"
           /\ rows' = IF gone THEN <<>>
                      ELSE [i \in DOMAIN rows |-> IF OnFile(i) /\ rows[i].shown # 0
                                                  THEN [rows[i] EXCEPT !.digest = file] ELSE rows[i]]
    /\ UNCHANGED <<file, asked, answer>>
------------------------------------------------------------------------------
(* One scope for every part of the statement, or none.                          *)
ScopeStatus(p) ==
    IF p.parts = {} \/ p.whole = "altered" \/ (p.support = "supported" /\ p.sound = "some") \/ "unclear" \in p.parts
       \/ Cardinality(p.parts) > 1
    THEN "none" ELSE CHOOSE s \in p.parts : TRUE

(* Only a repository whose shown content says so supports a current version.    *)
Outdated(r) == r.claim.text = "version" /\ r.claim.basis # "source_report"
               /\ ~(r.claim.basis = "repository" /\ r.shown # 0 /\ r.shown = r.claim.cites)
Envelope(r) == r.claim.text = "envelope" /\ r.claim.basis = "user_statement"
(* Mutant of Outcome: the whole point's word counts, whatever its parts are.    *)
OutcomeOfWhole(r, p) ==
    IF p.support = "contradicted" THEN "contradicted"
    ELSE IF Outdated(r) \/ Envelope(r) THEN "not_applicable"
    ELSE IF p.support # "supported" THEN "unverified"
    ELSE IF p.future = "durable" THEN "verified" ELSE "not_applicable"
Outcome(r, p) ==
    IF ScopeStatus(p) = "none" THEN "unverified"
    ELSE IF p.support = "contradicted" THEN "contradicted"
    ELSE IF ScopeStatus(p) = "session_only" THEN IF p.support = "supported" THEN "not_applicable" ELSE "unverified"
    ELSE IF Outdated(r) \/ Envelope(r) THEN "not_applicable"
    ELSE IF p.support # "supported" \/ p.future = "unclear" THEN "unverified"
    ELSE IF p.future = "durable" THEN "verified" ELSE "not_applicable"
(* A verified point's reference gets the digest read above; any other keeps the *)
(* one of the answer.                                                           *)
Rebound(r, outcome) ==
    IF r.claim.basis = "repository" /\ (outcome # "verified" \/ r.digest = 0) THEN r.claim.cites ELSE r.digest
Judged(r, p) ==
    LET outcome == Outcome(r, p)
    IN  [r EXCEPT !.said = IF outcome = "verified" THEN p ELSE NoPoint, !.outcome = outcome, !.digest = Rebound(r, outcome),
                  !.use = IF outcome = "not_applicable" THEN "session_only" ELSE "durable"]

(* Each row gets one verdict; answers that leave out or repeat one fail.        *)
Verify(points, covers) ==
    /\ review = "verify" /\ DOMAIN points = DOMAIN rows
    /\ review' = IF covers THEN "judged" ELSE "failed"
    /\ rows' = IF covers THEN [i \in DOMAIN rows |-> Judged(rows[i], points[i])] ELSE <<>>
    /\ UNCHANGED <<file, asked, answer>>
==============================================================================
