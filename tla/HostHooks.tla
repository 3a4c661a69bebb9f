------------------------------- MODULE HostHooks -------------------------------
(* The hooks of a host: one file of the user and one of the project, in which   *)
(* users have handlers of their own beside the handler that calls the installed *)
(* runner.  install-hook-suite and quickstart read a file, merge their handlers *)
(* and write the whole file back; for Codex they then take out of the project's *)
(* file what the user's file covers.                                            *)
EXTENDS Naturals, Sequences, FiniteSets, SequencesExt

CONSTANTS
    Runner,      \* handlers that call an installed harness-mem-hook
    Bound,       \* those of the project's own environment
    Theirs,      \* handlers of the users, which are other ones
    Script,      \* the handler that calls a script in the project, another one
    Installer,   \* processes that install hooks
    HandMade,    \* what people make of a file
    Garbled,     \* a file that is no JSON
    MaxChanges   \* bound on installations begun, on edits and on what goes wrong

File == {"user", "project"}
Event == {"start", "stop"}

(* How a file is merged: by single handlers that are ours exactly, in groups or *)
(* directly, by handlers that call our scripts, by groups that bear our mark,   *)
(* by a block between our marks, or not at all, when the whole file is ours.    *)
(* Cursor's files and Grok's are merged as others here; Hermes has one file.    *)
Style == [codex |-> [user |-> "handlers", project |-> "whole"],
          claude |-> [user |-> "handlers", project |-> "scripts"],
          antigravity |-> [user |-> "direct", project |-> "marked"],
          opencode |-> [user |-> "whole", project |-> "whole"],
          hermes |-> [user |-> "block", project |-> "block"]]

Empty == [e \in Event |-> <<>>]
(* A group of handlers; a narrow one has a matcher or is switched off.          *)
Plain(h) == [hs |-> <<h>>, narrow |-> FALSE]

VARIABLES
    host,        \* which host it is
    file,        \* the groups of each event in each file
    script,      \* the runner that each script in the project calls
    present,     \* runners that are installed
    entry,       \* the host's memory command
    installer,   \* each running installation
    wish,        \* the users' handlers as they were last edited
    on,          \* events that an installation has promised to hook
    raced,       \* two had a file at a time, or one left it half written
    changes

hookVars == <<host, file, script, present, entry, installer, wish, on, raced, changes>>

NoInstall == [at |-> "idle", run |-> CHOOSE r \in Runner : TRUE, file |-> "user", force |-> FALSE,
              quick |-> FALSE, step |-> "install", plan |-> Empty]

HookTypeOK ==
    /\ host \in DOMAIN Style /\ DOMAIN file = File
    /\ script \in [Event -> Runner \cup {"none", "edited"}] /\ present \subseteq Runner
    /\ entry \in {"none", "legacy", "hm"}
    /\ \A i \in Installer :
          /\ installer[i].at \in {"idle", "sync", "add", "read", "start", "stop", "write", "cut", "match"}
          /\ installer[i].run \in Runner /\ installer[i].file \in File
          /\ installer[i].step \in {"install", "reconcile"}
    /\ on \in [Event -> BOOLEAN] /\ raced \in BOOLEAN /\ changes \in 0..MaxChanges

HookInit ==
    /\ host \in DOMAIN Style /\ file = [f \in File |-> Empty]
    /\ script = [e \in Event |-> "none"] /\ present = Runner /\ entry \in {"none", "legacy"}
    /\ installer = [i \in Installer |-> NoInstall]
    /\ wish = [f \in File |-> Empty] /\ on = [e \in Event |-> FALSE] /\ raced = FALSE /\ changes = 0
------------------------------------------------------------------------------
(* Merging.                                                                     *)
Ours(style, r, h) ==
    CASE style \in {"handlers", "direct"} -> h = r
      [] style = "scripts" -> h = Script
      [] OTHER -> h \in Runner
HasOurs(style, r, g) ==
    CASE style = "direct" -> g.hs = <<r>>
      [] style = "block" -> \E q \in Runner : g = Plain(q)
      [] OTHER -> \E k \in DOMAIN g.hs : Ours(style, r, g.hs[k])
Expected(style, r) == Plain(IF style = "scripts" THEN Script ELSE r)

(* What is left of the groups when ours are taken out.                          *)
Rest(style, r, g) ==
    LET others == SelectSeq(g.hs, LAMBDA h : ~Ours(style, r, h))
    IN  IF ~HasOurs(style, r, g) THEN <<g>>
        ELSE IF style = "marked" \/ others = <<>> THEN <<>> ELSE <<[g EXCEPT !.hs = others]>>
Others(style, r, gs) == FlattenSeq([k \in DOMAIN gs |-> Rest(style, r, gs[k])])

Whole(r) == [e \in Event |-> <<Plain(r)>>]
(* _ensure_hermes_event: a block is replaced where it is, and a new one is the  *)
(* first of its event.                                                          *)
InPlace(r, gs) ==
    IF \E k \in DOMAIN gs : HasOurs("block", r, gs[k])
    THEN [k \in DOMAIN gs |-> IF HasOurs("block", r, gs[k]) THEN Plain(r) ELSE gs[k]]
    ELSE <<Plain(r)>> \o gs
Installed(style, r, c) ==
    IF style = "whole" THEN Whole(r)
    ELSE [e \in Event |-> IF style = "block" THEN InPlace(r, c[e])
                          ELSE Append(Others(style, r, c[e]), Expected(style, r))]

(* What is there and is ours must be what would be installed.                   *)
Conflict(style, r, c) ==
    IF style = "whole" THEN c \notin {Empty, Whole(r)}
    ELSE \E e \in Event :
        SelectSeq(c[e], LAMBDA g : HasOurs(style, r, g)) \notin {<<>>, <<Expected(style, r)>>}

(* _codex_user_events: a handler of ours that serves every session, and whose   *)
(* runner is there.                                                             *)
(* Mutant of Covers: of any runner, in any group.                               *)
CoversSome(g) == \E k \in DOMAIN g.hs : g.hs[k] \in Runner
Covers(g) == ~g.narrow /\ \E k \in DOMAIN g.hs : g.hs[k] \in present
Covered(c) == {e \in Event : c # Garbled /\ \E k \in DOMAIN c[e] : Covers(c[e][k])}

(* reconcile_codex_project_hooks takes out the handlers of this runner and of   *)
(* those that the project binds.                                                *)
WithoutOurs(r, gs) ==
    LET others(g) == SelectSeq(g.hs, LAMBDA h : h \notin {r} \cup (Bound \cap present))
    IN  FlattenSeq([k \in DOMAIN gs |->
            IF others(gs[k]) = gs[k].hs THEN <<gs[k]>>
            ELSE IF others(gs[k]) = <<>> THEN <<>> ELSE <<[gs[k] EXCEPT !.hs = others(gs[k])]>>])

(* What the users have in the groups of an event.                               *)
Yours(gs) == FlattenSeq([k \in DOMAIN gs |->
    [h \in DOMAIN SelectSeq(gs[k].hs, LAMBDA x : x \in Theirs) |->
        <<SelectSeq(gs[k].hs, LAMBDA x : x \in Theirs)[h], gs[k].narrow>>]])
YoursIn(c) == IF c = Garbled THEN Empty ELSE [e \in Event |-> Yours(c[e])]

Serves(c, e) == c # Garbled /\ \E k \in DOMAIN c[e] :
    /\ ~c[e][k].narrow
    /\ \E h \in DOMAIN c[e][k].hs :
          c[e][k].hs[h] \in present \/ (c[e][k].hs[h] = Script /\ script[e] \in present)
Hooked(e) == \E f \in File : Serves(file[f], e)
------------------------------------------------------------------------------
Changes == changes < MaxChanges /\ changes' = changes + 1
Busy(i) == installer[i].at # "idle"
Goes(i, at) == installer' = [installer EXCEPT ![i].at = at]
Ends(i) == installer' = [installer EXCEPT ![i] = NoInstall]

(* What people do: they edit a file, or an environment is removed.  What they   *)
(* unhook is not promised any more.                                             *)
Unpromised == on' = [e \in Event |-> on[e] /\ Hooked(e)']
EditByHand(f, c) ==
    /\ file[f] # c /\ Changes
    /\ file' = [file EXCEPT ![f] = c] /\ wish' = [wish EXCEPT ![f] = YoursIn(c)]
    /\ UNCHANGED <<host, script, present, entry, installer>>
    /\ Unpromised /\ raced' = (raced \/ \E i \in Installer : Busy(i))
Uninstall(r) ==
    /\ r \in present /\ Changes
    /\ present' = present \ {r}
    /\ UNCHANGED <<host, file, script, entry, installer, wish>>
    /\ Unpromised /\ raced' = (raced \/ \E i \in Installer : Busy(i))

(* install-hook-suite, after the runner has answered its probe; quickstart is   *)
(* for the user's file.                                                         *)
BeginInstall(i, r, f, force, quick) ==
    /\ ~Busy(i) /\ r \in present /\ Changes
    /\ quick => f = "user" /\ ~force
    /\ host = "hermes" => f = "user"
    /\ installer' = [installer EXCEPT ![i] = [NoInstall EXCEPT
          !.at = IF quick THEN "sync" ELSE "read", !.run = r, !.file = f, !.force = force, !.quick = quick]]
    /\ raced' = (raced \/ \E j \in Installer : Busy(j) /\ (host = "codex" \/ installer[j].file = f))
    /\ UNCHANGED <<host, file, script, present, entry, wish, on>>

(* sync_host_commands removes the old commands before it writes the new one.    *)
RemoveLegacy(i) ==
    /\ installer[i].at = "sync" /\ Goes(i, "add")
    /\ entry' = IF entry = "legacy" THEN "none" ELSE entry
    /\ UNCHANGED <<host, file, script, present, wish, on, raced, changes>>
AddCommand(i) ==
    /\ installer[i].at = "add" /\ Goes(i, "read")
    /\ entry' = "hm"
    /\ UNCHANGED <<host, file, script, present, wish, on, raced, changes>>

(* Everything is compared before anything is written.  Codex inherits what the  *)
(* user's file covers altogether.                                               *)
Inherits(f) == host = "codex" /\ f = "project" /\ Covered(file["user"]) = Event
Refused(i) ==
    LET w == installer[i]
        style == Style[host][w.file]
    IN  \/ file[w.file] = Garbled /\ (style # "whole" \/ ~w.force)
        \/ /\ file[w.file] # Garbled /\ ~w.force
           /\ \/ Conflict(style, w.run, file[w.file])
              \/ style = "scripts" /\ \E e \in Event : script[e] \notin {"none", w.run}
Matches(w) == host = "codex" /\ w.file = "user" /\ w.step = "install"

Refuse(i) ==
    /\ installer[i].at = "read" /\ ~Inherits(installer[i].file) /\ Refused(i)
    /\ Ends(i)
    /\ UNCHANGED <<host, file, script, present, entry, wish, on, raced, changes>>
ReadInherited(i) ==
    /\ installer[i].at = "read" /\ Inherits(installer[i].file)
    /\ Goes(i, "match") /\ on' = [e \in Event |-> TRUE]
    /\ UNCHANGED <<host, file, script, present, entry, wish, raced, changes>>
ReadFile(i) ==
    /\ installer[i].at = "read" /\ ~Inherits(installer[i].file) /\ ~Refused(i)
    /\ LET w == installer[i]
           style == Style[host][w.file]
       IN  installer' = [installer EXCEPT ![i].plan = Installed(style, w.run, file[w.file]),
                                          ![i].at = IF style = "scripts" THEN "start" ELSE "write"]
    /\ UNCHANGED <<host, file, script, present, entry, wish, on, raced, changes>>

(* The scripts are compared again and written, before the file that names them. *)
WriteScript(i, e) ==
    /\ installer[i].at = e
    /\ IF installer[i].force \/ script[e] \in {"none", installer[i].run}
       THEN /\ script' = [script EXCEPT ![e] = installer[i].run]
            /\ Goes(i, IF e = "start" THEN "stop" ELSE "write")
       ELSE Ends(i) /\ UNCHANGED script
    /\ UNCHANGED <<host, file, present, entry, wish, on, raced, changes>>

(* write_text truncates the file and then fills it; a file that would not       *)
(* change is left alone.                                                        *)
CutFile(i) ==
    /\ installer[i].at = "write" /\ file[installer[i].file] # installer[i].plan
    /\ Goes(i, "cut")
    /\ file' = [file EXCEPT ![installer[i].file] = Empty]
    /\ UNCHANGED <<host, script, present, entry, wish, on, raced, changes>>
Finish(i) ==
    LET w == installer[i]
        gives == w.force /\ w.step = "install" /\ Style[host][w.file] \in {"whole", "marked"}
    IN  /\ file' = [file EXCEPT ![w.file] = w.plan]
        /\ wish' = IF gives THEN [wish EXCEPT ![w.file] = YoursIn(w.plan)] ELSE wish
        /\ on' = IF w.step = "install" THEN [e \in Event |-> TRUE] ELSE on
        /\ IF Matches(w) THEN Goes(i, "match") ELSE Ends(i)
        /\ UNCHANGED <<host, script, present, entry, raced, changes>>
FillFile(i) == installer[i].at = "cut" /\ Finish(i)
KeepFile(i) == installer[i].at = "write" /\ file[installer[i].file] = installer[i].plan /\ Finish(i)

(* reconcile_codex_project_hooks.                                               *)
Reconcile(i) ==
    /\ installer[i].at = "match"
    /\ LET w == installer[i]
           covered == Covered(file["user"])
           p == file["project"]
           plan == [e \in Event |-> IF e \in covered THEN WithoutOurs(w.run, p[e]) ELSE p[e]]
       IN  IF covered = {} \/ p \in {Empty, Garbled} THEN Ends(i)
           ELSE installer' = [installer EXCEPT ![i].step = "reconcile", ![i].file = "project",
                                               ![i].plan = plan, ![i].at = "write"]
    /\ UNCHANGED <<host, file, script, present, entry, wish, on, raced, changes>>

(* The process dies or a write fails: a file that is cut stays empty, and a     *)
(* script may be left in halves.                                                *)
FailInstall(i) ==
    /\ Busy(i) /\ Changes
    /\ LET w == installer[i] IN
          /\ script' \in {script} \cup (IF w.at \in Event THEN {[script EXCEPT ![w.at] = "edited"]} ELSE {})
          /\ raced' = (raced \/ (w.at = "cut") \/ (script' # script))
    /\ Ends(i)
    /\ UNCHANGED <<host, file, present, entry, wish, on>>

HookNext ==
    \/ \E f \in File, c \in HandMade \cup {Garbled} : EditByHand(f, c)
    \/ \E r \in Runner : Uninstall(r)
    \/ \E i \in Installer :
          \/ \E r \in Runner, f \in File, force, quick \in BOOLEAN : BeginInstall(i, r, f, force, quick)
          \/ RemoveLegacy(i) \/ AddCommand(i) \/ Refuse(i) \/ ReadInherited(i) \/ ReadFile(i)
          \/ \E e \in Event : WriteScript(i, e)
          \/ CutFile(i) \/ FillFile(i) \/ KeepFile(i) \/ Reconcile(i) \/ FailInstall(i)

HookSpec == HookInit /\ [][HookNext]_hookVars
------------------------------------------------------------------------------
Cut(f) == \E i \in Installer : installer[i].at = "cut" /\ installer[i].file = f

(* installer.py: "retain unrelated settings and Hook entries", "Remove only     *)
(* this project's registrations".  Whatever is installed, updated, repaired and *)
(* reconciled, the users have their handlers in the order and under the         *)
(* matchers that they gave them, unless they forced a group or a file that is   *)
(* ours as a whole; and what is about to be written can be installed again, and *)
(* has one handler of ours for each event.                                      *)
HooksAreKept == ~raced =>
    /\ \A f \in File : file[f] = Garbled \/ Cut(f) \/ YoursIn(file[f]) = wish[f]
    /\ \A i \in Installer :
          LET w == installer[i]
              style == Style[host][w.file]
          IN  (w.at \in {"start", "stop", "write", "cut"} /\ w.step = "install") =>
                 /\ ~Conflict(style, w.run, w.plan) /\ Installed(style, w.run, w.plan) = w.plan

(* "registrations already covered by global Hooks": an event that an            *)
(* installation has hooked for every session stays hooked, by a runner that is  *)
(* there, until people unhook it.                                               *)
HooksStayOn == (~raced /\ \A f \in File : ~Cut(f)) => \A e \in Event : on[e] => Hooked(e)
==============================================================================
