----------------------------- MODULE Configuration -----------------------------
(* The settings of harness-mem: a legacy JSON file and a TOML file of the user, *)
(* and a TOML file of the project, each of them a tree.  load_merged_config     *)
(* lays them over one another; `config set` and quickstart read one file,       *)
(* change one leaf and write the whole file back; people edit files by hand.    *)
(* A tree is a function from the paths of its leaves, a path is the sequence of *)
(* its parts, and a value is its TOML text.                                     *)
EXTENDS Naturals, Sequences, FiniteSets, SequencesExt

CONSTANTS
    Setter,      \* processes that write settings
    Loader,      \* processes that load them
    HandMade,    \* what people write into a file: no path in it is a prefix of another
    Asked,       \* the settings that are asked for
    Garbled,     \* a file that is no TOML
    MaxWrites    \* bound on writes begun, and on what goes wrong in them

Enabled == <<"distill", "autonomous", "enabled">>   \* background use of a model
Auto == <<"distill", "auto", "enabled">>
Cli == <<"distill", "autonomous", "cli">>
Budget == <<"cost_budget", "wake_tokens">>          \* internal: read, never set
Restricted == <<"semantic", "execution", "restricted">>
Profile == <<"semantic", "execution", "profile">>
Providers == <<"semantic", "providers">>

Bool == {"true", "false"}
Allowed == [k \in {Enabled, Auto, Cli, Budget} |->
    IF k \in {Enabled, Auto} THEN Bool ELSE IF k = Cli THEN {"current", "codex"} ELSE {"2000"}]
Default == [k \in DOMAIN Allowed |->
    IF k = Enabled THEN "false" ELSE IF k = Auto THEN "true" ELSE IF k = Cli THEN "current" ELSE "2000"]
Public == {Enabled, Auto, Cli}
Nowhere == [p \in {} |-> "true"]                    \* no file, or an empty one
Layer == {"legacy", "user", "project"}

------------------------------------------------------------------------------
(* Trees.                                                                       *)
Overlap(p, q) == IsPrefix(p, q) \/ IsPrefix(q, p)
Without(t, P) == [p \in DOMAIN t \ P |-> t[p]]
(* deep_merge: tables are merged; where a leaf meets a table or a leaf, the     *)
(* overlay has it.                                                              *)
Merge(base, overlay) ==
    [p \in DOMAIN overlay \cup {b \in DOMAIN base : \A q \in DOMAIN overlay : ~Overlap(b, q)} |->
        IF p \in DOMAIN overlay THEN overlay[p] ELSE base[p]]
(* _set_dotted: a leaf on the way becomes a table, a table at the end a leaf.   *)
SetDotted(t, k, v) == Merge(t, [p \in {k} |-> v])
(* _remove_dotted: a leaf or a table; tables that it leaves empty go too.       *)
RemoveDotted(t, k) == Without(t, {p \in DOMAIN t : IsPrefix(k, p)})
(* _get_dotted finds a leaf or a table.                                         *)
Found(t, k) == \E p \in DOMAIN t : IsPrefix(k, p)
------------------------------------------------------------------------------
(* load_merged_config.                                                          *)
UserTree(f) == RemoveDotted(RemoveDotted(RemoveDotted(Merge(f.legacy, f.user), Profile), Restricted), Providers)
ProjectTree(f) == RemoveDotted(RemoveDotted(f.project, Profile), Providers)

(* _apply_legacy_autonomous_compat: a restriction that is lifted switches the   *)
(* background off, unless a leaf stands where its table would be.               *)
Compatible(t) ==
    LET blocked == \E p \in DOMAIN t : IsStrictPrefix(p, Enabled)
        lifted == Restricted \in DOMAIN t /\ t[Restricted] = "false"
    IN  RemoveDotted(IF lifted /\ ~blocked THEN SetDotted(t, Enabled, "false") ELSE t, Restricted)

Merged(f) == Compatible(Merge(UserTree(f), ProjectTree(f)))

(* _coerce_key_group: what is not there has its default, and what is there must *)
(* be one of the allowed values.                                                *)
Valid(t) == \A k \in DOMAIN Allowed : Found(t, k) => k \in DOMAIN t /\ t[k] \in Allowed[k]
Typed(t) == [k \in DOMAIN Allowed |-> IF k \in DOMAIN t THEN t[k] ELSE Default[k]]
Parses(f) == \A l \in Layer : f[l] # Garbled
Loads(f) == Parses(f) /\ Valid(Merged(f))
InForce(f) == Typed(Merged(f))
(* background_on.                                                               *)
BackgroundOn(f) == Loads(f) /\ InForce(f)[Enabled] = "true"
------------------------------------------------------------------------------
VARIABLES
    file,      \* the tree that each file holds
    setter,    \* each running write
    loader,    \* each running load
    word,      \* what the last writer of Enabled in each file has said of it
    raced,     \* two writers had one file at a time, or one left it half written
    writes

configVars == <<file, setter, loader, word, raced, writes>>

NoWrite == [at |-> "idle", layer |-> "user", key |-> Auto, value |-> "true", confirmed |-> FALSE, tree |-> Nowhere]
NoLoad == [at |-> "idle", seen |-> [l \in Layer |-> Nowhere], on |-> FALSE, yes |-> FALSE, no |-> FALSE]

ConfigTypeOK ==
    /\ DOMAIN file = Layer
    /\ \A s \in Setter : /\ setter[s].at \in {"idle", "checked", "read", "cut"}
                         /\ setter[s].layer \in {"user", "project"}
                         /\ setter[s].key \in Public \cup {Restricted} /\ setter[s].confirmed \in BOOLEAN
    /\ \A r \in Loader : /\ loader[r].at \in {"idle", "legacy", "user", "done"}
                         /\ DOMAIN loader[r].seen = Layer
                         /\ {loader[r].on, loader[r].yes, loader[r].no} \subseteq BOOLEAN
    /\ word \in [Layer -> {"none", "yes", "no"}] /\ raced \in BOOLEAN /\ writes \in 0..MaxWrites

ConfigInit ==
    /\ file = [l \in Layer |-> Nowhere] /\ word = [l \in Layer |-> "none"]
    /\ setter = [s \in Setter |-> NoWrite] /\ loader = [r \in Loader |-> NoLoad]
    /\ raced = FALSE /\ writes = 0

Writes == writes < MaxWrites /\ writes' = writes + 1
Writing(l) == \E s \in Setter : setter[s].at # "idle" /\ setter[s].layer = l
(* What a load can still rely on when the file of l is written: that a file has *)
(* said yes meanwhile, and that the project has said no all the while.          *)
Written(l) == loader' = [r \in Loader |-> [loader[r] EXCEPT
    !.yes = @ \/ word'[l] = "yes", !.no = @ /\ (l = "project" => word'[l] = "no" /\ file'[l] # Nowhere)]]
------------------------------------------------------------------------------
(* Writing.                                                                     *)

(* A file that people edit says what they want.                                 *)
EditByHand(l, t) ==
    /\ file[l] # t /\ Writes
    /\ file' = [file EXCEPT ![l] = t]
    /\ word' = [word EXCEPT ![l] = IF t = Garbled \/ Enabled \notin DOMAIN t THEN "none"
                                   ELSE IF t[Enabled] = "true" THEN "yes" ELSE "no"]
    /\ Written(l)
    /\ raced' = (raced \/ Writing(l))
    /\ UNCHANGED setter

(* cmd_config_set: enabling background use of a model is confirmed, file by     *)
(* file.                                                                        *)
(* Mutant of NeedsConfirmation: what is in force is not confirmed again.        *)
NeedsItWhenOff(l, k, v) ==
    k = Enabled /\ v = "true" /\ ~BackgroundOn(file)
NeedsConfirmation(l, k, v) ==
    /\ k = Enabled /\ v = "true"
    /\ \/ file[l] = Garbled
       \/ Enabled \notin DOMAIN file[l]
       \/ file[l][Enabled] # "true"

(* set_value knows the public keys and the old restriction of a project.        *)
Settable(l, k, v) ==
    \/ k \in Public /\ v \in Allowed[k]
    \/ k = Restricted /\ v \in Bool /\ l = "project"

(* `config set`, and quickstart, which writes without a look when confirmed.    *)
BeginSet(s, a) ==
    /\ setter[s].at = "idle" /\ Settable(a.layer, a.key, a.value)
    /\ NeedsConfirmation(a.layer, a.key, a.value) => a.confirmed
    /\ Writes
    /\ setter' = [setter EXCEPT ![s] =
                     [NoWrite EXCEPT !.at = "checked", !.layer = a.layer, !.key = a.key, !.value = a.value,
                                     !.confirmed = a.confirmed]]
    /\ raced' = (raced \/ Writing(a.layer))
    /\ UNCHANGED <<file, loader, word>>

(* What set_value makes of the tree that it has read.                           *)
Changed(t, k, v) ==
    IF k # Restricted THEN SetDotted(t, k, v)
    ELSE RemoveDotted(IF v = "false" THEN SetDotted(t, Enabled, "false") ELSE t, Restricted)

ReadFile(s) ==
    /\ setter[s].at = "checked"
    /\ LET w == setter[s] IN
          setter' = [setter EXCEPT ![s] =
              IF file[w.layer] = Garbled THEN NoWrite
              ELSE [w EXCEPT !.at = "read", !.tree = Changed(file[w.layer], w.key, w.value)]]
    /\ UNCHANGED <<file, loader, word, raced, writes>>

(* write_text truncates the file and then fills it.                             *)
CutFile(s) ==
    /\ setter[s].at = "read"
    /\ setter' = [setter EXCEPT ![s].at = "cut"]
    /\ file' = [file EXCEPT ![setter[s].layer] = Nowhere]
    /\ word' = word /\ Written(setter[s].layer)
    /\ UNCHANGED <<raced, writes>>

(* Who sets Enabled says no, or, with a confirmation, yes; who lifts the old     *)
(* restriction says no; anyone else leaves it at what was said.                 *)
Says(w) == IF w.key = Enabled /\ w.value = "true" THEN IF w.confirmed THEN "yes" ELSE word[w.layer]
           ELSE IF w.key = Enabled \/ (w.key = Restricted /\ w.value = "false") THEN "no" ELSE word[w.layer]
FillFile(s) ==
    /\ setter[s].at = "cut"
    /\ LET w == setter[s] IN
          /\ file' = [file EXCEPT ![w.layer] = w.tree]
          /\ word' = [word EXCEPT ![w.layer] = Says(w)]
          /\ Written(w.layer)
    /\ setter' = [setter EXCEPT ![s] = NoWrite]
    /\ UNCHANGED <<raced, writes>>

(* The process dies or the write fails: a file that is cut stays empty.         *)
FailSet(s) ==
    /\ setter[s].at # "idle" /\ Writes
    /\ raced' = (raced \/ (setter[s].at = "cut"))
    /\ setter' = [setter EXCEPT ![s] = NoWrite]
    /\ UNCHANGED <<file, loader, word>>
------------------------------------------------------------------------------
(* Loading: the legacy file, the user's, the project's.                         *)
BeginLoad(r) ==
    /\ loader[r].at \in {"idle", "done"}
    /\ loader' = [loader EXCEPT ![r] = [NoLoad EXCEPT !.at = "legacy", !.seen.legacy = file.legacy,
                     !.yes = \E l \in Layer : word[l] = "yes",
                     !.no = word["project"] = "no" /\ file["project"] # Nowhere]]
    /\ UNCHANGED <<file, setter, word, raced, writes>>
LoadUser(r) ==
    /\ loader[r].at = "legacy"
    /\ loader' = [loader EXCEPT ![r].at = "user", ![r].seen.user = file.user]
    /\ UNCHANGED <<file, setter, word, raced, writes>>
LoadProject(r) ==
    /\ loader[r].at = "user"
    /\ LET seen == [loader[r].seen EXCEPT !.project = file.project] IN
          loader' = [loader EXCEPT ![r].at = "done", ![r].seen = seen,
                        ![r].on = BackgroundOn(seen)]
    /\ UNCHANGED <<file, setter, word, raced, writes>>
(* Without a project, there is only what the user says.                         *)
LoadNoProject(r) ==
    /\ loader[r].at = "user"
    /\ loader' = [loader EXCEPT ![r].at = "done", ![r].on = BackgroundOn(loader[r].seen), ![r].no = FALSE]
    /\ UNCHANGED <<file, setter, word, raced, writes>>

ConfigNext ==
    \/ \E l \in Layer : \E t \in HandMade \cup {Garbled} : EditByHand(l, t)
    \/ \E s \in Setter : \/ \E a \in Asked : BeginSet(s, a)
                         \/ ReadFile(s) \/ CutFile(s) \/ FillFile(s) \/ FailSet(s)
    \/ \E r \in Loader : BeginLoad(r) \/ LoadUser(r) \/ LoadProject(r) \/ LoadNoProject(r)

ConfigSpec == ConfigInit /\ [][ConfigNext]_configVars
------------------------------------------------------------------------------
(* What the files say, file by file: the most specific one that speaks of a key *)
(* decides.  A leaf above the key speaks of it, and so does what is below it.   *)
Speaks(t, k) == \E p \in DOMAIN t : Overlap(p, k)
Spoken(t, k) == IF k \in DOMAIN t THEN t[k] ELSE Default[k]
SaidOf(f, k) ==
    IF Speaks(f.project, k) THEN Spoken(f.project, k)
    ELSE IF Speaks(f.user, k) THEN Spoken(f.user, k) ELSE Spoken(f.legacy, k)
Lifted(t) == Restricted \in DOMAIN t /\ t[Restricted] = "false"

(* merge.py: "The project-level file overrides the user-level file at the       *)
(* leaf-key level; recognized keys absent from both files fall back".           *)
LoadIsLayered == Loads(file) => \A k \in DOMAIN Allowed :
    InForce(file)[k] = IF k = Enabled /\ Lifted(file.project) THEN "false" ELSE SaidOf(file, k)

(* writer.py: "mutate exactly one leaf", "the writer and loader cannot disagree *)
(* about allowed values".  What a setting is about to write loads if what was   *)
(* there did, has the value, and leaves all other keys what they were, unless   *)
(* a leaf stands where a table of settings would be.                            *)
SetIsLocal == \A s \in Setter :
    LET w == setter[s]
        then == [file EXCEPT ![w.layer] = w.tree]
    IN  ( /\ w.at = "read" /\ ~raced /\ Loads(file)
          /\ \A p \in DOMAIN file[w.layer], k \in DOMAIN Allowed : ~IsStrictPrefix(p, k) )
        => /\ Loads(then)
           /\ \A k \in DOMAIN Allowed \ {w.key} :
                 (k = Enabled /\ w.key = Restricted) \/ InForce(then)[k] = InForce(file)[k]
           /\ (w.layer = "project" /\ w.key \in Public) =>
                 InForce(then)[w.key] = IF w.key = Enabled /\ Lifted(w.tree) THEN "false" ELSE w.value

(* config_cmds.py: "enabling authorizes" background use of a model;             *)
(* onboarding.py: "explicit project settings still take precedence".  A load    *)
(* finds it on only if a file has said yes, and not while the project says no,  *)
(* whatever else is set, edited and loaded meanwhile.                           *)
ConsentHolds == ~raced => \A r \in Loader : (loader[r].at = "done" /\ loader[r].on) =>
    loader[r].yes /\ ~loader[r].no
==============================================================================
