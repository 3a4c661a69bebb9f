--------------------------- MODULE MaintenanceLock ---------------------------
(***************************************************************************)
(* maintenance_lock.py: one lock file excludes background work while an    *)
(* explicit maintenance run (an archive batch, a runtime reset) is alive,  *)
(* and for a while afterwards keeps out the session that launched it.      *)
(* Every access to the file is one step: it is created with O_EXCL, but it *)
(* is examined, and removed or rewritten, by its name.                     *)
(*                                                                         *)
(* A file is blank from its creation until its payload is written, and     *)
(* again while the release rewrites it; readers take a blank file for a    *)
(* lock.  Its inode is the run that created it: a write through an open    *)
(* descriptor is lost when another file has taken the name.                *)
(***************************************************************************)
EXTENDS Naturals, FiniteSets

CONSTANTS
    Run,        \* maintenance processes, each makes one run
    Guarded,    \* background processes that ask maintenance_is_locked
    LaunchedBy, \* the guarded process whose session launched the run, or NoSession
    NoSession

ASSUME MaintenanceAssumption ==
    /\ Run \cap Guarded = {}
    /\ NoSession \notin Run \cup Guarded
    /\ LaunchedBy \in [Run -> Guarded \cup {NoSession}]

VARIABLES
    lockFile,   \* the file under the lock's name
    step,       \* where each process is
    examined,   \* the file a process has read and decides upon
    misfired    \* history: a process removed or rewrote another file than it meant

lockVars == <<lockFile, step, examined, misfired>>

NoFile == [inode |-> NoSession, text |-> "none"]
LockFiles == [inode : Run, text : {"blank", "held", "suppressing", "expired"}] \cup {NoFile}

LockTypeOK ==
    /\ lockFile \in LockFiles
    /\ step \in [Run \cup Guarded -> {"idle", "found", "recheck", "clear", "reopen", "created",
                                      "running", "rewrite", "after", "gone", "refused", "working"}]
    /\ \A r \in Run : step[r] # "working"
    /\ \A g \in Guarded : step[g] \in {"idle", "recheck", "clear", "working"}
    /\ examined \in [Run \cup Guarded -> LockFiles]
    /\ misfired \in {"no", "yes"}

LockInit ==
    /\ lockFile = NoFile
    /\ step = [p \in Run \cup Guarded |-> "idle"]
    /\ examined = [p \in Run \cup Guarded |-> NoFile]
    /\ misfired = "no"

\* What cannot be read belongs to somebody alive (fail closed); otherwise the
\* process decides, and one that released the lock may live on for a while.
BlankIsDead(f) == f.text # "blank" /\ (f.text = "none" \/ step[f.inode] # "gone")  \* mutant
NeverDies(f) == TRUE  \* mutant: a process found under the recorded identifier is taken for the owner
OwnerIsAlive(f) == f.text \in {"none", "blank"} \/ step[f.inode] # "gone"

Goes(p, s) == step' = [step EXCEPT ![p] = s]
Keeps(p, f) == examined' = [examined EXCEPT ![p] = f]

-----------------------------------------------------------------------------
\* os.open(path, O_CREAT | O_EXCL): the first attempt, and the one after a
\* removal.  The second one raises when another process was faster.
CreateLock(r) ==
    /\ step[r] \in {"idle", "reopen"}
    /\ IF lockFile = NoFile
       THEN /\ lockFile' = [inode |-> r, text |-> "blank"]
            /\ Goes(r, "created")
       ELSE /\ Goes(r, IF step[r] = "idle" THEN "found" ELSE "refused")
            /\ UNCHANGED lockFile
    /\ UNCHANGED <<examined, misfired>>

\* _open_lock after FileExistsError: what the first read of the payload says.
\* A released file is removed whether or not its window is over.  A file that
\* vanished or is blank cannot be read a second time either, unless it changes.
Examine(r) ==
    /\ step[r] = "found"
    /\ Keeps(r, lockFile)
    /\ Goes(r, IF lockFile.text \in {"suppressing", "expired"} THEN "clear" ELSE "recheck")
    /\ UNCHANGED <<lockFile, misfired>>

\* _owner_is_alive reads the file again.
Recheck(p) ==
    /\ step[p] = "recheck"
    /\ IF ~OwnerIsAlive(lockFile)
       THEN Keeps(p, lockFile) /\ Goes(p, "clear")
       ELSE Keeps(p, NoFile) /\ Goes(p, IF p \in Run THEN "refused" ELSE "idle")
    /\ UNCHANGED <<lockFile, misfired>>

\* _remove_lock: by name, whatever is there now.
Clear(p) ==
    /\ step[p] = "clear"
    /\ misfired' = IF lockFile \in {NoFile, examined[p]} \/ misfired = "yes"
                   THEN misfired ELSE "yes"
    /\ lockFile' = NoFile
    /\ Goes(p, IF p \in Run THEN "reopen" ELSE "working")
    /\ Keeps(p, NoFile)

\* os.write through the descriptor of the file this run created.
WritePayload(r) ==
    /\ step[r] = "created"
    /\ lockFile' = IF lockFile.inode = r THEN [inode |-> r, text |-> "held"] ELSE lockFile
    /\ Goes(r, "running")
    /\ UNCHANGED <<examined, misfired>>

\* The finally clause, also when writing the payload raised.  A run without a
\* launching session removes the file; one that has it truncates the file
\* under the lock's name, and then writes the time until which it suppresses.
Release(r) ==
    /\ step[r] \in {"created", "running"}
    /\ misfired' = IF lockFile.inode \in {r, NoSession} THEN misfired ELSE "yes"
    /\ IF LaunchedBy[r] = NoSession
       THEN /\ lockFile' = NoFile
            /\ Goes(r, "after")
            /\ UNCHANGED examined
       ELSE /\ lockFile' = [inode |-> IF lockFile = NoFile THEN r ELSE lockFile.inode,
                            text |-> "blank"]
            /\ Keeps(r, lockFile')
            /\ Goes(r, "rewrite")

\* When the file that the release truncated has lost its name, the text is lost.
\* The pid in the text is the releasing run's, whoever created the file.
WriteSuppression(r) ==
    /\ step[r] = "rewrite"
    /\ lockFile' = IF lockFile.inode = examined[r].inode
                   THEN [inode |-> r, text |-> "suppressing"] ELSE lockFile
    /\ Goes(r, "after")
    /\ Keeps(r, NoFile)
    /\ UNCHANGED misfired

SuppressionEnds ==
    /\ lockFile.text = "suppressing"
    /\ lockFile' = [lockFile EXCEPT !.text = "expired"]
    /\ UNCHANGED <<step, examined, misfired>>

\* The process ends, in order or killed.
Exit(r) ==
    /\ step[r] \notin {"idle", "gone"}
    /\ Goes(r, "gone")
    /\ Keeps(r, NoFile)
    /\ UNCHANGED <<lockFile, misfired>>

-----------------------------------------------------------------------------
\* maintenance_is_locked returns at once for no file, for a blank one and
\* within the window: then only the launching session is kept out.
BlankIsFree(g) == lockFile.text = "suppressing" /\ LaunchedBy[lockFile.inode] = g
    \* mutant: a lock without a payload is taken for no lock
KeptOut(g) == lockFile.text = "blank" \/ (lockFile.text = "suppressing" /\ LaunchedBy[lockFile.inode] = g)

Ask(g) ==
    /\ step[g] = "idle"
    /\ Keeps(g, IF lockFile.text \in {"held", "expired"} THEN lockFile ELSE NoFile)
    /\ Goes(g, IF lockFile.text = "held" THEN "recheck"
               ELSE IF lockFile.text = "expired" THEN "clear"
               ELSE IF KeptOut(g) THEN "idle" ELSE "working")
    /\ UNCHANGED <<lockFile, misfired>>

FinishWork(g) ==
    /\ step[g] = "working"
    /\ Goes(g, "idle")
    /\ UNCHANGED <<lockFile, examined, misfired>>

LockNext ==
    \/ \E r \in Run : CreateLock(r) \/ Examine(r) \/ WritePayload(r) \/ Release(r)
                      \/ WriteSuppression(r) \/ Exit(r)
    \/ \E p \in Run \cup Guarded : Recheck(p) \/ Clear(p)
    \/ \E g \in Guarded : Ask(g) \/ FinishWork(g)
    \/ SuppressionEnds

LockSpec == LockInit /\ [][LockNext]_lockVars

\* Background processes are started again and again by the hooks, and a
\* process that examines the file goes on.
AskStep(g) == Ask(g) \/ Recheck(g) \/ Clear(g) \/ FinishWork(g)
LockFairness == \A g \in Guarded : WF_lockVars(AskStep(g))

-----------------------------------------------------------------------------
Owns(r) == step[r] \in {"created", "running"}

\* Cross-process exclusion: two maintenance runs are alive together only after
\* a process removed by name another lock than the one it had examined
\* (_open_lock and maintenance_is_locked, _remove_lock).
ExclusiveUnlessMisfired ==
    misfired = "no" => \A r, s \in Run : Owns(r) /\ Owns(s) => r = s

\* The lock of a run that died is not a lock for ever: somebody removes it.
\* (One that died before it wrote its payload, or while it rewrote it, is.)
DeadOwnerIsCleared ==
    \A r \in Run : lockFile = [inode |-> r, text |-> "held"] /\ step[r] = "gone"
                      ~> lockFile # [inode |-> r, text |-> "held"]

\* A live maintenance process excludes every background writer that asks after
\* it took the lock (maintenance_is_locked), as long as no removal misfired.
NoStartDuringMaintenance ==
    [][\A g \in Guarded :
          step[g] # "working" /\ step'[g] = "working" /\ misfired' = "no"
              => \A r \in Run : ~Owns(r)]_lockVars
=============================================================================
