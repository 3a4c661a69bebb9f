-------------------------------- MODULE MCHosts --------------------------------
(* What harness-mem keeps on the machine around its ledgers, side by side: the  *)
(* observation store and its indexes, the settings, the hooks in the files of   *)
(* the hosts, and what the hooks do first.  The parts share no state here, and  *)
(* a behaviour is one of any of them.                                           *)
EXTENDS MCIndex

CONSTANTS Setter, Loader, MaxWrites, Installer, OldRunner, NewRunner, Mine, Other, CallsScript, Garbled, MaxChanges,
          Delivery, Version, Missing, MaxMishaps

VARIABLES part, settings, setter, loader, word, meddled, writes,
          host, hookFile, script, present, entry, installer, wish, on, mixed, changes,
          job, turn, kept, hooks, stamp, mishaps

Trees == {<<>>, (<<"distill", "autonomous", "enabled">> :> "true") @@ (<<"semantic", "execution", "restricted">> :> "false"),
          <<"distill">> :> "5",
          (<<"distill", "auto", "enabled">> :> "bad") @@ (<<"distill", "autonomous", "cli">> :> "codex")}
Sets == [layer : {"user", "project"}, key : {<<"distill", "autonomous", "enabled">>}, value : {"true"}, confirmed : BOOLEAN]
        \cup [layer : {"user", "project"}, key : {<<"distill", "autonomous", "enabled">>}, value : {"false"}, confirmed : {FALSE}]
        \cup [layer : {"project"}, key : {<<"semantic", "execution", "restricted">>}, value : {"true", "false"}, confirmed : {FALSE}]
        \cup [layer : {"project"}, key : {<<"distill", "autonomous", "cli">>}, value : {"codex"}, confirmed : {FALSE}]
Settings == INSTANCE Configuration WITH file <- settings, raced <- meddled, HandMade <- Trees, Asked <- Sets
settingVars == <<settings, setter, loader, word, meddled, writes>>

Group(hs, narrow) == [hs |-> hs, narrow |-> narrow]
Files ==
    { [start |-> <<Group(<<Mine, NewRunner>>, FALSE)>>, stop |-> <<Group(<<OldRunner>>, FALSE), Group(<<Mine>>, TRUE)>>],
      [start |-> <<Group(<<NewRunner>>, TRUE)>>, stop |-> <<Group(<<Other>>, FALSE), Group(<<NewRunner>>, FALSE)>>],
      [start |-> <<Group(<<CallsScript, Mine>>, FALSE)>>,
       stop |-> <<Group(<<Mine>>, FALSE), Group(<<CallsScript>>, FALSE), Group(<<Other>>, TRUE)>>] }
Hosts == INSTANCE HostHooks WITH
    file <- hookFile, raced <- mixed, Runner <- {OldRunner, NewRunner}, Bound <- {OldRunner}, Theirs <- {Mine, Other},
    Script <- CallsScript, HandMade <- Files
hostVars == <<host, hookFile, script, present, entry, installer, wish, on, mixed, changes>>

Stops == {[host |-> e[1], session |-> e[2], turn |-> e[3], reply |-> e[4]] :
             e \in {<<"codex", "s", "t", "one">>, <<"codex", "s", "t", "two">>,
                    <<"codex", "s", Missing, "one">>, <<"grok", Missing, Missing, "one">>}}
Wakes == {[host |-> e[1], session |-> "s", trigger |-> e[2], task |-> e[3]] :
             e \in {<<"antigravity", "one", TRUE>>, <<"antigravity", "two", TRUE>>,
                    <<"hermes", "s", FALSE>>, <<"hermes", "s", TRUE>>}}
Events == INSTANCE NativeEvents WITH Stop <- Stops, Wake <- Wakes
eventVars == <<job, turn, kept, hooks, stamp, mishaps>>

Init ==
    /\ part \in {"store", "settings", "hooks", "events"}
    /\ StoreInit /\ Settings!ConfigInit /\ Hosts!HookInit /\ Events!EventInit
    /\ part # "hooks" => host = "codex"
    /\ entry = IF part = "hooks" /\ host = "codex" THEN "legacy" ELSE "none"
    /\ part # "events" => hooks = [user |-> Missing, project |-> Missing]
Next ==
    /\ \/ part = "store" /\ StoreNext /\ UNCHANGED <<settingVars, hostVars, eventVars>>
       \/ part = "settings" /\ Settings!ConfigNext /\ UNCHANGED <<verbatimVars, hostVars, eventVars>>
       \/ part = "hooks" /\ Hosts!HookNext /\ UNCHANGED <<verbatimVars, settingVars, eventVars>>
       \/ part = "events" /\ Events!EventNext /\ UNCHANGED <<verbatimVars, settingVars, hostVars>>
    /\ UNCHANGED part
Spec == Init /\ [][Next]_<<part, verbatimVars, settingVars, hostVars, eventVars>>

(* What a load finds is what the files say, layer by layer; what `config set`   *)
(* writes changes one setting; and background use of a model is on only if a    *)
(* file has said yes, and not while the project says no.                        *)
SettingsHold == part = "settings" =>
    Settings!ConfigTypeOK /\ Settings!LoadIsLayered /\ Settings!SetIsLocal /\ Settings!ConsentHolds
(* Whatever is installed, reconciled, edited and removed, people keep their own *)
(* handlers, and events that were hooked stay hooked.  And what the hooks do: a *)
(* stop that is told to be queued was, once, whoever delivers it again; a start *)
(* is skipped only when its context has been made.                              *)
HostsHold ==
    /\ part = "hooks" => Hosts!HookTypeOK /\ Hosts!HooksAreKept /\ Hosts!HooksStayOn
    /\ part = "events" => Events!EventTypeOK /\ Events!StopsAreQueuedOnce /\ Events!SkippedIsGiven
==============================================================================
