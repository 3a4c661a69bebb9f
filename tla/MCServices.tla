------------------------------- MODULE MCServices -------------------------------
(* What prepares, admits, stores, indexes and serves around the ledger, side by *)
(* side: the parts share no state here, and a behaviour is one of any of them.  *)
EXTENDS PrepareDistill, Admission, TLC

CONSTANTS MaxMessages, MaxCaptures, MaxChars, MaxText, Starts, Events, Attempts, Lines, Nobody

VARIABLES part, revs, cache, verdict, content, units, cuts, holding, rebuilt,
          own, alive, server, closed, world, served, paid, platform, holder, attempt, let

Said == {<<"user", "plain">>, <<"user", "decided">>, <<"assistant", "broke">>, <<"tool", "wait">>}
SignalsIn == "plain" :> {} @@ "decided" :> {"decision"} @@ "broke" :> {"failure"} @@ "wait" :> {}
Proj == INSTANCE Projection WITH Message <- Said, SignalsOf <- SignalsIn
projVars == <<revs, cache, verdict>>

Cutter == INSTANCE Chunking
chunkVars == <<content, units, cuts, holding, rebuilt>>

App == INSTANCE AppServer WITH call <- served, Call <- {1, 2}, None <- Nobody, MaxStarts <- Starts, MaxEvents <- Events
appVars == <<own, alive, server, closed, world, served, paid>>

Cli == INSTANCE HostCli WITH Attempt <- Attempts, MaxOutput <- Lines
cliVars == <<platform, holder, attempt, let>>

Init ==
    /\ part \in {"prepare", "projection", "chunks", "app", "cli", "admit"}
    /\ PrepareInit /\ Proj!ProjInit /\ Cutter!ChunkInit /\ App!AppInit /\ Cli!CliInit /\ AdmitInit
    /\ part # "prepare" => task[<<1, "base">>].v1 = "no" /\ \E h \in Hook : call[h].at = "gone"
    /\ part # "chunks" => content = <<TRUE>> /\ units = {}
    /\ part # "cli" => platform = "nt" /\ attempt[1].host = "text"
Next ==
    /\ \/ part = "prepare" /\ PrepareNext /\ UNCHANGED <<projVars, chunkVars, appVars, cliVars, verdictVars, admitVars>>
       \/ part = "projection" /\ Proj!ProjNext /\ UNCHANGED <<prepareVars, chunkVars, appVars, cliVars, verdictVars, admitVars>>
       \/ part = "chunks" /\ Cutter!ChunkNext /\ UNCHANGED <<prepareVars, projVars, appVars, cliVars, verdictVars, admitVars>>
       \/ part = "app" /\ App!AppNext /\ UNCHANGED <<prepareVars, projVars, chunkVars, cliVars, verdictVars, admitVars>>
       \/ part = "cli" /\ Cli!CliNext /\ UNCHANGED <<prepareVars, projVars, chunkVars, appVars, verdictVars, admitVars>>
       \/ part = "admit" /\ AdmitNext /\ UNCHANGED <<prepareVars, projVars, chunkVars, appVars, cliVars>>
    /\ UNCHANGED part
Spec == Init /\ [][Next]_<<part, prepareVars, projVars, chunkVars, appVars, cliVars, verdictVars, admitVars>>

(* A rendering built by appending is the one that a full parse gives.           *)
AppendIsFull == Proj!AppendIsFull
(* What a reviewer reads is the revision: a verdict of nothing to remember      *)
(* rests on the whole of it as it is, and chunks keep to their limit, and cut   *)
(* units only when they exceed it.                                              *)
ReadingIsWhole ==
    /\ Proj!ProjTypeOK /\ Proj!VerdictIsInspected
    /\ Cutter!ChunkTypeOK /\ Cutter!CutsAreFair
(* One server runs, with an owner of all that belongs to it, and each answer    *)
(* and account is of the turn that asked; a host's process outlives its call    *)
(* only when a heartbeat lost the review.                                       *)
ProvidersAreOwned == App!ServerIsOwned /\ Cli!CliTypeOK /\ Cli!OnlyALostReviewOrphans
==============================================================================
