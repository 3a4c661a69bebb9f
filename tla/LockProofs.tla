------------------------------ MODULE LockProofs ------------------------------
(***************************************************************************)
(* The maintenance lock, the post-turn queue behind its own lock file, and *)
(* the batches that work under the maintenance lock, for any number of     *)
(* processes.                                                              *)
(*                                                                         *)
(* The maintenance lock: until a removal misfires, the file belongs to the *)
(* run at work (LockInv), which gives exclusion and keeps guarded          *)
(* processes out.                                                          *)
(*                                                                         *)
(* The post-turn queue, with any number of requests, sessions, workers and *)
(* faults.  LockSound, true until the first fault, says that the lock file *)
(* and its one holder go together, and gives NoLostWakeup.  SnapSound,     *)
(* true in every run, says what a worker may retire, and gives             *)
(* NothingDropped.                                                         *)
(*                                                                         *)
(* Archive distillation, with any number of batches that share one index   *)
(* under that maintenance lock: ArchiveInv says that a batch's own copy of *)
(* the index and its outcomes are settled, and gives VerifiedIsDone.       *)
(*                                                                         *)
(* The detached worker and its receipt, for any number of clients and of   *)
(* archives: TurnInv says what a receipt, on disk or read and not yet      *)
(* written back, may claim, and gives SuccessIsOwn.                        *)
(***************************************************************************)
EXTENDS MaintenanceLock, HookBackground, ArchiveDistill, PostTurn, TLAPS

Party == Run \cup Guarded

\* Until a removal misfires, who made the lock file and still works on it is
\* named by it, and its text tells how far that run has come.
Named(r) ==
    /\ step[r] = "created" => lockFile = [inode |-> r, text |-> "blank"]
    /\ step[r] = "running" => lockFile = [inode |-> r, text |-> "held"]
    /\ step[r] = "rewrite" => /\ lockFile = [inode |-> r, text |-> "blank"]
                              /\ examined[r].inode = r

OwnerIsNamed == misfired = "no" => \A r \in Run : Named(r)

\* A payload is that of a run which is at work, or is over in the way it says.
Told(f) ==
    /\ f.text = "held" => step[f.inode] \in {"running", "gone"}
    /\ f.text \in {"suppressing", "expired"} => step[f.inode] \in {"after", "gone"}

\* What a process is about to remove was, and so still is, left by its run.
Left(f) ==
    /\ f.text \in {"held", "suppressing", "expired"}
    /\ f.inode \in Run
    /\ f.text = "held" => step[f.inode] = "gone"
    /\ f.text # "held" => step[f.inode] \in {"after", "gone"}

LockInv ==
    /\ LockTypeOK
    /\ OwnerIsNamed
    /\ Told(lockFile)
    /\ \A p \in Party : step[p] = "clear" => Left(examined[p])

-----------------------------------------------------------------------------
(* Initially nothing is there. *)
LEMMA LockStarts == LockInit => LockInv
  BY MaintenanceAssumption DEF LockInit, LockInv, LockTypeOK, LockFiles, NoFile,
     OwnerIsNamed, Named,
     Told, Left, Party

(* A run that is over stays over: nothing that was left comes back to life.     *)
LEMMA OverStaysOver ==
  ASSUME LockTypeOK, [LockNext]_lockVars, NEW r \in Run
  PROVE  /\ step[r] = "gone" => step'[r] = "gone"
         /\ step[r] = "after" => step'[r] \in {"after", "gone"}
  BY MaintenanceAssumption DEF LockTypeOK, LockNext, lockVars, CreateLock, Examine,
     Recheck, Clear,
     WritePayload, Release, WriteSuppression, Exit, Ask, FinishWork, SuppressionEnds, Goes

(* Types are kept. *)
LEMMA LockTypeKept == LockTypeOK /\ [LockNext]_lockVars => LockTypeOK'
  <1> SUFFICES ASSUME LockTypeOK, [LockNext]_lockVars PROVE LockTypeOK'
    OBVIOUS
  <1> USE MaintenanceAssumption DEF LockTypeOK, LockFiles, NoFile, Goes, Keeps
  <1>1. ASSUME NEW r \in Run, CreateLock(r) PROVE LockTypeOK'
    BY <1>1 DEF CreateLock
  <1>2. ASSUME NEW r \in Run, Examine(r) PROVE LockTypeOK'
    BY <1>2 DEF Examine
  <1>3. ASSUME NEW r \in Run, WritePayload(r) PROVE LockTypeOK'
    BY <1>3 DEF WritePayload
  <1>4. ASSUME NEW r \in Run, Release(r) PROVE LockTypeOK'
    BY <1>4 DEF Release
  <1>5. ASSUME NEW r \in Run, WriteSuppression(r) PROVE LockTypeOK'
    BY <1>5 DEF WriteSuppression
  <1>6. ASSUME NEW r \in Run, Exit(r) PROVE LockTypeOK'
    BY <1>6 DEF Exit
  <1>7. ASSUME NEW p \in Run \cup Guarded, Recheck(p) PROVE LockTypeOK'
    BY <1>7 DEF Recheck, OwnerIsAlive
  <1>8. ASSUME NEW p \in Run \cup Guarded, Clear(p) PROVE LockTypeOK'
    BY <1>8 DEF Clear
  <1>9. ASSUME NEW g \in Guarded, Ask(g) PROVE LockTypeOK'
    BY <1>9 DEF Ask
  <1>10. ASSUME NEW g \in Guarded, FinishWork(g) PROVE LockTypeOK'
    BY <1>10 DEF FinishWork
  <1>11. CASE SuppressionEnds
    BY <1>11 DEF SuppressionEnds
  <1>12. CASE UNCHANGED lockVars
    BY <1>12 DEF lockVars
  <1> QED
    BY <1>1, <1>2, <1>3, <1>4, <1>5, <1>6, <1>7, <1>8, <1>9, <1>10, <1>11,
       <1>12 DEF LockNext

-----------------------------------------------------------------------------
(* A file that was left stays left, whatever anybody does: the processes that   *)
(* have examined it may remove it at any later time.                            *)
LEMMA LeftStaysLeft ==
  ASSUME LockTypeOK, [LockNext]_lockVars, NEW f, Left(f)
  PROVE  Left(f)'
  BY OverStaysOver DEF Left

(* What the lock file says of the run that made it stays true.                  *)
LEMMA ToldKept == LockInv /\ [LockNext]_lockVars => Told(lockFile)'
  <1> SUFFICES ASSUME LockInv, [LockNext]_lockVars PROVE Told(lockFile)'
    OBVIOUS
  <1> USE MaintenanceAssumption DEF LockInv, LockTypeOK, LockFiles, NoFile, Goes, Keeps, Told
  <1>1. ASSUME NEW r \in Run, CreateLock(r) PROVE Told(lockFile)'
    BY <1>1 DEF CreateLock
  <1>2. ASSUME NEW r \in Run, Examine(r) PROVE Told(lockFile)'
    BY <1>2 DEF Examine
  <1>3. ASSUME NEW r \in Run, WritePayload(r) PROVE Told(lockFile)'
    BY <1>3 DEF WritePayload
  <1>4. ASSUME NEW r \in Run, Release(r) PROVE Told(lockFile)'
    BY <1>4 DEF Release
  <1>5. ASSUME NEW r \in Run, WriteSuppression(r) PROVE Told(lockFile)'
    BY <1>5 DEF WriteSuppression
  <1>6. ASSUME NEW r \in Run, Exit(r) PROVE Told(lockFile)'
    BY <1>6 DEF Exit
  <1>7. ASSUME NEW p \in Party, Recheck(p) PROVE Told(lockFile)'
    BY <1>7 DEF Recheck, Party
  <1>8. ASSUME NEW p \in Party, Clear(p) PROVE Told(lockFile)'
    BY <1>8 DEF Clear
  <1>9. ASSUME NEW g \in Guarded, Ask(g) PROVE Told(lockFile)'
    BY <1>9 DEF Ask
  <1>10. ASSUME NEW g \in Guarded, FinishWork(g) PROVE Told(lockFile)'
    BY <1>10 DEF FinishWork
  <1>11. CASE SuppressionEnds
    BY <1>11 DEF SuppressionEnds
  <1>12. CASE UNCHANGED lockVars
    BY <1>12 DEF lockVars
  <1> QED
    BY <1>1, <1>2, <1>3, <1>4, <1>5, <1>6, <1>7, <1>8, <1>9, <1>10, <1>11, <1>12
    DEF LockNext, Party

(* Nobody comes to remove a file that was not left: Examine, Recheck and Ask    *)
(* are the ways there, and each looks at the file and at the run's life.        *)
LEMMA OnlyLeftIsCleared ==
  ASSUME LockInv, [LockNext]_lockVars, NEW p \in Party, step'[p] = "clear"
  PROVE  Left(examined[p])'
  <1> USE MaintenanceAssumption DEF LockInv, LockTypeOK, LockFiles, NoFile, Goes, Keeps, Party
  <1> SUFFICES ASSUME step[p] # "clear" \/ examined'[p] # examined[p]
               PROVE  Left(examined[p])'
    BY LeftStaysLeft
  <1>1. ASSUME NEW r \in Run, CreateLock(r) PROVE Left(examined[p])'
    BY <1>1 DEF CreateLock
  <1>2. ASSUME NEW r \in Run, Examine(r) PROVE Left(examined[p])'
    BY <1>2 DEF Examine, Told, Left
  <1>3. ASSUME NEW r \in Run, WritePayload(r) PROVE Left(examined[p])'
    BY <1>3 DEF WritePayload
  <1>4. ASSUME NEW r \in Run, Release(r) PROVE Left(examined[p])'
    BY <1>4 DEF Release
  <1>5. ASSUME NEW r \in Run, WriteSuppression(r) PROVE Left(examined[p])'
    BY <1>5 DEF WriteSuppression
  <1>6. ASSUME NEW r \in Run, Exit(r) PROVE Left(examined[p])'
    BY <1>6 DEF Exit
  <1>7. ASSUME NEW q \in Party, Recheck(q) PROVE Left(examined[p])'
    BY <1>7 DEF Recheck, OwnerIsAlive, Told, Left
  <1>8. ASSUME NEW q \in Party, Clear(q) PROVE Left(examined[p])'
    BY <1>8 DEF Clear
  <1>9. ASSUME NEW g \in Guarded, Ask(g) PROVE Left(examined[p])'
    BY <1>9 DEF Ask, KeptOut, Told, Left
  <1>10. ASSUME NEW g \in Guarded, FinishWork(g) PROVE Left(examined[p])'
    BY <1>10 DEF FinishWork
  <1>11. CASE SuppressionEnds
    BY <1>11 DEF SuppressionEnds
  <1>12. CASE UNCHANGED lockVars
    BY <1>12 DEF lockVars
  <1> QED
    BY <1>1, <1>2, <1>3, <1>4, <1>5, <1>6, <1>7, <1>8, <1>9, <1>10, <1>11,
       <1>12 DEF LockNext

(* While no removal misfires, nobody touches the file of a run that is at work: *)
(* whoever removes or truncates the file has examined this very one, and a run  *)
(* that has left one is not at work.                                            *)
LEMMA OwnerStaysNamed == LockInv /\ [LockNext]_lockVars => OwnerIsNamed'
  <1> SUFFICES ASSUME LockInv, [LockNext]_lockVars, misfired' = "no", NEW s \in Run
               PROVE  Named(s)'
    BY DEF OwnerIsNamed
  <1>0. misfired = "no" /\ \A r \in Run : Named(r)
    BY DEF LockInv, LockTypeOK, OwnerIsNamed, LockNext, lockVars, CreateLock, Examine,
       Recheck, Clear,
       WritePayload, Release, WriteSuppression, Exit, Ask, FinishWork, SuppressionEnds
  <1> USE MaintenanceAssumption DEF LockInv, LockTypeOK, LockFiles, NoFile, Goes, Keeps, Named
  <1>1. ASSUME NEW r \in Run, CreateLock(r) PROVE Named(s)'
    BY <1>0, <1>1 DEF CreateLock
  <1>2. ASSUME NEW r \in Run, Examine(r) PROVE Named(s)'
    BY <1>0, <1>2 DEF Examine
  <1>3. ASSUME NEW r \in Run, WritePayload(r) PROVE Named(s)'
    BY <1>0, <1>3 DEF WritePayload
  <1>4. ASSUME NEW r \in Run, Release(r) PROVE Named(s)'
    BY <1>0, <1>4 DEF Release
  <1>5. ASSUME NEW r \in Run, WriteSuppression(r) PROVE Named(s)'
    BY <1>0, <1>5 DEF WriteSuppression
  <1>6. ASSUME NEW r \in Run, Exit(r) PROVE Named(s)'
    BY <1>0, <1>6 DEF Exit
  <1>7. ASSUME NEW p \in Party, Recheck(p) PROVE Named(s)'
    BY <1>0, <1>7 DEF Recheck, Party
  <1>8. ASSUME NEW p \in Party, Clear(p) PROVE Named(s)'
    <2>1. lockFile = NoFile \/ Left(lockFile)
      BY <1>0, <1>8 DEF Clear
    <2>2. step[s] \notin {"created", "running", "rewrite"}
      BY <1>0, <2>1 DEF Left
    <2> QED
      BY <1>8, <2>2 DEF Clear, Party
  <1>9. ASSUME NEW g \in Guarded, Ask(g) PROVE Named(s)'
    BY <1>0, <1>9 DEF Ask
  <1>10. ASSUME NEW g \in Guarded, FinishWork(g) PROVE Named(s)'
    BY <1>0, <1>10 DEF FinishWork
  <1>11. CASE SuppressionEnds
    BY <1>0, <1>11 DEF SuppressionEnds
  <1>12. CASE UNCHANGED lockVars
    BY <1>0, <1>12 DEF lockVars
  <1> QED
    BY <1>1, <1>2, <1>3, <1>4, <1>5, <1>6, <1>7, <1>8, <1>9, <1>10, <1>11, <1>12
    DEF LockNext, Party

-----------------------------------------------------------------------------
(* The lock's invariant: who works is named by the file, what the file tells is *)
(* so, and only what was left is removed (acquire, _open_lock, _remove_lock).   *)
THEOREM LockInvariant == LockSpec => []LockInv
  <1>1. LockInit => LockInv
    BY LockStarts
  <1>2. LockInv /\ [LockNext]_lockVars => LockInv'
    BY LockTypeKept, OwnerStaysNamed, ToldKept, OnlyLeftIsCleared DEF LockInv
  <1> QED
    BY <1>1, <1>2, PTL DEF LockSpec

(* One file names one run: two maintenance runs are never at work together as   *)
(* long as every removal met the file it was meant for.                         *)
THEOREM LockExclusion == LockSpec => []ExclusiveUnlessMisfired
  <1>1. LockInv => ExclusiveUnlessMisfired
    BY DEF LockInv, OwnerIsNamed, Named, ExclusiveUnlessMisfired, Owns
  <1> QED
    BY <1>1, LockInvariant, PTL

(* No background process starts to work while a maintenance run is at work,     *)
(* whether it found no lock, a suppression of others, or a lock it removed      *)
(* (maintenance_is_locked).                                                     *)
THEOREM LockKeepsWorkOut == LockSpec => NoStartDuringMaintenance
  <1> DEFINE Quiet(g) == step[g] # "working" /\ step'[g] = "working" /\ misfired' = "no"
                            => \A r \in Run : ~Owns(r)
  <1>1. ASSUME LockInv, [LockNext]_lockVars, NEW g \in Guarded PROVE Quiet(g)
    <2> SUFFICES ASSUME step[g] # "working", step'[g] = "working", misfired' = "no",
                        NEW r \in Run, Owns(r)
                 PROVE  FALSE
      OBVIOUS
    <2>1. Ask(g) \/ Clear(g)
      BY <1>1, MaintenanceAssumption DEF LockInv, LockTypeOK, LockNext, lockVars,
         CreateLock, Examine,
         Recheck, Clear, WritePayload, Release, WriteSuppression, Exit, Ask, FinishWork,
         SuppressionEnds, Goes
    <2>2. misfired = "no" /\ lockFile.inode = r /\ lockFile.text \in {"blank", "held"}
      BY <1>1, <2>1 DEF LockInv, OwnerIsNamed, Named, Owns, Ask, Clear, LockTypeOK
    <2>3. ~Ask(g)
      BY <1>1, <2>2 DEF Ask, KeptOut, LockInv, LockTypeOK, Goes
    <2>4. ~Clear(g)
      BY <1>1, <2>2, MaintenanceAssumption
      DEF Clear, LockInv, Left, Owns, Party, NoFile
    <2> QED
      BY <2>1, <2>3, <2>4
  <1>2. LockInv /\ [LockNext]_lockVars => [\A g \in Guarded : Quiet(g)]_lockVars
    BY <1>1
  <1> QED
    BY <1>2, LockInvariant, PTL DEF LockSpec, NoStartDuringMaintenance

-----------------------------------------------------------------------------
\* The vocabulary of the queue: who the processes are and where they can be.
USE HookAssumption DEF Process, Request, Session, Working, Locking, NoLock, Lock,
                       Goto, Gone, Begun

\* What every step does to the queue's files, locks and processes is well typed;
\* in particular the hand-over only ever asks the lock for a request on disk.
LEMMA Types ==
    ASSUME TypeOK, SnapSound, [Next]_vars PROVE TypeOK'
<1>1. ASSUME NEW r \in Request, Begin(r) PROVE TypeOK'
  BY <1>1 DEF Begin, TypeOK
<1>2. ASSUME NEW r \in Request, UserTurn(r) PROVE TypeOK'
  BY <1>2 DEF UserTurn, TypeOK
<1>3. ASSUME NEW r \in Request, WriteRequest(r) PROVE TypeOK'
  BY <1>3 DEF WriteRequest, TypeOK
<1>4. CASE IdleOver
  BY <1>4 DEF IdleOver, TypeOK
<1>5. CASE GoStale
  BY <1>5 DEF GoStale, TypeOK
<1>6. ASSUME NEW p \in Process, Acquire(p) PROVE TypeOK'
  BY <1>6 DEF Acquire, Create, TypeOK
<1>7. ASSUME NEW p \in Process, Stat(p) PROVE TypeOK'
  BY <1>7 DEF Stat, TypeOK
<1>8. ASSUME NEW p \in Process, Steal(p) PROVE TypeOK'
  BY <1>8 DEF Steal, TypeOK
<1>9. ASSUME NEW p \in Process, CreateAgain(p) PROVE TypeOK'
  BY <1>9 DEF CreateAgain, Create, TypeOK
<1>10. ASSUME NEW p \in Process, NEW w \in Worker, Spawn(p, w) PROVE TypeOK'
  <2>1. p # w /\ gen[p] \in 0..N
    BY <1>10 DEF Spawn, TypeOK
  <2>2. pc' \in [Process -> {"off", "write", "reload", "done"} \cup Working \cup Locking]
    BY <1>10, <2>1 DEF Spawn, TypeOK
  <2>3. gen' \in [Process -> 0..N] /\ snap' \in [Worker -> SUBSET Request]
    BY <1>10, <2>1 DEF Spawn, TypeOK
  <2>4. \A r \in Request : r # w /\ gen'[r] = gen[r] /\ (r # p => pc'[r] = pc[r])
    BY <1>10, SMTT(40) DEF Spawn, TypeOK
  <2> QED BY <1>10, <2>2, <2>3, <2>4 DEF Spawn, TypeOK
<1>11. ASSUME NEW p \in Process, SpawnFails(p) PROVE TypeOK'
  BY <1>11 DEF SpawnFails, TypeOK
<1>12. ASSUME NEW p \in Process, Kill(p) PROVE TypeOK'
  BY <1>12 DEF Kill, TypeOK
<1>13. ASSUME NEW w \in Worker, Load(w) PROVE TypeOK'
  <2>1. PICK r \in pending : snap' = [snap EXCEPT ![w] = Waiting(SessionOf[r])]
    BY <1>13 DEF Load
  <2>2. Waiting(SessionOf[r]) \subseteq Request
    BY <1>13 DEF TypeOK, Waiting
  <2> QED BY <1>13, <2>1, <2>2 DEF Load, TypeOK
<1>14. ASSUME NEW w \in Worker, NothingToLoad(w) PROVE TypeOK'
  BY <1>14 DEF NothingToLoad, TypeOK
<1>15. ASSUME NEW w \in Worker, StartRun(w) PROVE TypeOK'
  BY <1>15 DEF StartRun, TypeOK
<1>16. ASSUME NEW w \in Worker, SkipRun(w) PROVE TypeOK'
  BY <1>16 DEF SkipRun, TypeOK
<1>17. ASSUME NEW w \in Worker, EndRun(w) PROVE TypeOK'
  BY <1>17 DEF EndRun, TypeOK
<1>18. ASSUME NEW w \in Worker, Finish(w) PROVE TypeOK'
  BY <1>18 DEF Finish, TypeOK
<1>19. ASSUME NEW w \in Worker, Retire(w) PROVE TypeOK'
  BY <1>19 DEF Retire, TypeOK
<1>20. ASSUME NEW w \in Worker, Unlock(w) PROVE TypeOK'
  BY <1>20 DEF Unlock, TypeOK
<1>21. ASSUME NEW w \in Worker, Reload(w) PROVE TypeOK'
  BY <1>21 DEF Reload, TypeOK
<1>22. ASSUME NEW w \in Worker, Leave(w) PROVE TypeOK'
  BY <1>22 DEF Leave, TypeOK
<1>23. CASE UNCHANGED vars
  BY <1>23 DEF vars, TypeOK
<1> QED BY <1>1, <1>2, <1>3, <1>4, <1>5, <1>6, <1>7, <1>8, <1>9, <1>10, <1>11,
         <1>12, <1>13, <1>14, <1>15, <1>16, <1>17, <1>18, <1>19, <1>20, <1>21,
         <1>22, <1>23
      DEF Next, LockStep, RunStep

\* A holder's generation is a request, so what _acquire_lock wrote for it is
\* a lock file.
LEMMA HolderLocks ==
    ASSUME TypeOK, LockSound, SnapSound, faults = 0, NEW p \in Process, Holding(p)
    PROVE lock # NoLock
<1>1. gen[p] \in Request
  BY DEF TypeOK, SnapSound, Holding, Written
<1>2. lock = Lock(gen[p])
  BY DEF LockSound
<1> QED BY <1>1, <1>2

\* Creating, retiring and unlinking the lock file keep one holder who finds his
\* own generation in it, as long as nothing is killed and no spawn fails.
LEMMA LockStays ==
    ASSUME TypeOK, LockSound, SnapSound, [Next]_vars PROVE LockSound'
<1>1. ASSUME NEW r \in Request, Begin(r) PROVE LockSound'
  BY <1>1 DEF Begin, TypeOK, LockSound, Holding
<1>2. ASSUME NEW r \in Request, UserTurn(r) PROVE LockSound'
  BY <1>2 DEF UserTurn, TypeOK, LockSound, Holding
<1>3. ASSUME NEW r \in Request, WriteRequest(r) PROVE LockSound'
  BY <1>3 DEF WriteRequest, TypeOK, LockSound, Holding
<1>4. CASE IdleOver
  BY <1>4 DEF IdleOver, TypeOK, LockSound, Holding
<1>5. CASE GoStale
  BY <1>5 DEF GoStale, TypeOK, LockSound, Holding
<1>6. ASSUME NEW p \in Process, Acquire(p) PROVE LockSound'
  <2>1. CASE lock = NoLock
    <3>1. lock' = Lock(gen[p]) /\ pc' = [pc EXCEPT ![p] = "spawn"] /\ gen' = gen
      BY <1>6, <2>1 DEF Acquire, Create
    <3>2. SUFFICES ASSUME faults = 0 PROVE LockSound'
      BY <1>6 DEF Acquire, Create, LockSound
    <3>3. \A q \in Process : ~Holding(q)
      BY <2>1, <3>2, HolderLocks
    <3>4. \A q \in Process : Holding(q)' <=> q = p
      BY <1>6, <3>1, <3>3 DEF TypeOK, Holding
    <3> QED BY <1>6, <3>1, <3>2, <3>4, ZenonT(60) DEF Acquire, Create, TypeOK, LockSound, Holding
  <2>2. CASE lock # NoLock
    BY <1>6, <2>2 DEF Acquire, Create, TypeOK, LockSound, Holding
  <2> QED BY <2>1, <2>2
<1>7. ASSUME NEW p \in Process, Stat(p) PROVE LockSound'
  BY <1>7 DEF Stat, TypeOK, LockSound, Holding
<1>8. ASSUME NEW p \in Process, Steal(p) PROVE LockSound'
  BY <1>8 DEF Steal, TypeOK, LockSound, Holding
<1>9. ASSUME NEW p \in Process, CreateAgain(p) PROVE LockSound'
  BY <1>9 DEF CreateAgain, Create, TypeOK, LockSound, Holding
<1>10. ASSUME NEW p \in Process, NEW w \in Worker, Spawn(p, w) PROVE LockSound'
  <2>1. p # w /\ gen' = [gen EXCEPT ![w] = gen[p]] /\ lock' = lock /\ faults' = faults
    BY <1>10 DEF Spawn, TypeOK
  <2>2. SUFFICES ASSUME faults = 0 PROVE LockSound'
    BY <1>10, <2>1 DEF LockSound
  <2>3. Holding(p) /\ \A q \in Process : Holding(q) => q = p
    BY <1>10, <2>2 DEF Spawn, LockSound, Holding
  <2>4. \A q \in Process : Holding(q)' <=> q = w
    BY <1>10, <2>1, <2>3 DEF Spawn, TypeOK, Holding
  <2>5. lock = Lock(gen'[w])
    BY <1>10, <2>1, <2>2, <2>3 DEF LockSound, TypeOK
  <2>6. \A q \in Process : pc'[q] \notin {"steal", "create"}
    BY <1>10, <2>2 DEF Spawn, LockSound, TypeOK
  <2> QED BY <1>10, <2>1, <2>2, <2>4, <2>5, <2>6 DEF LockSound
<1>11. ASSUME NEW p \in Process, SpawnFails(p) PROVE LockSound'
  BY <1>11 DEF SpawnFails, TypeOK, LockSound, Holding
<1>12. ASSUME NEW p \in Process, Kill(p) PROVE LockSound'
  BY <1>12 DEF Kill, TypeOK, LockSound, Holding
<1>13. ASSUME NEW w \in Worker, Load(w) PROVE LockSound'
  BY <1>13 DEF Load, Waiting, TypeOK, LockSound, Holding
<1>14. ASSUME NEW w \in Worker, NothingToLoad(w) PROVE LockSound'
  BY <1>14 DEF NothingToLoad, TypeOK, LockSound, Holding
<1>15. ASSUME NEW w \in Worker, StartRun(w) PROVE LockSound'
  BY <1>15 DEF StartRun, TypeOK, LockSound, Holding
<1>16. ASSUME NEW w \in Worker, SkipRun(w) PROVE LockSound'
  BY <1>16 DEF SkipRun, TypeOK, LockSound, Holding
<1>17. ASSUME NEW w \in Worker, EndRun(w) PROVE LockSound'
  BY <1>17 DEF EndRun, TypeOK, LockSound, Holding
<1>18. ASSUME NEW w \in Worker, Finish(w) PROVE LockSound'
  BY <1>18 DEF Finish, TypeOK, LockSound, Holding
<1>19. ASSUME NEW w \in Worker, Retire(w) PROVE LockSound'
  BY <1>19 DEF Retire, TypeOK, LockSound, Holding
<1>20. ASSUME NEW w \in Worker, Unlock(w) PROVE LockSound'
  BY <1>20 DEF Unlock, TypeOK, LockSound, Holding
<1>21. ASSUME NEW w \in Worker, Reload(w) PROVE LockSound'
  BY <1>21 DEF Reload, Waiting, TypeOK, LockSound, Holding
<1>22. ASSUME NEW w \in Worker, Leave(w) PROVE LockSound'
  BY <1>22 DEF Leave, TypeOK, LockSound, Holding
<1>23. CASE UNCHANGED vars
  BY <1>23 DEF vars, LockSound, Holding
<1> QED BY <1>1, <1>2, <1>3, <1>4, <1>5, <1>6, <1>7, <1>8, <1>9, <1>10, <1>11,
         <1>12, <1>13, <1>14, <1>15, <1>16, <1>17, <1>18, <1>19, <1>20, <1>21,
         <1>22, <1>23
      DEF Next, LockStep, RunStep

\* What a worker is about to retire was attempted or cancelled, or is gone:
\* loading, running and handing over keep it so, also after a fault.
LEMMA SnapsStay ==
    ASSUME TypeOK, SnapSound, [Next]_vars PROVE SnapSound'
<1>1. ASSUME NEW r \in Request, Begin(r) PROVE SnapSound'
  BY <1>1 DEF Begin, TypeOK, SnapSound, Written, Cancelled
<1>2. ASSUME NEW r \in Request, UserTurn(r) PROVE SnapSound'
  BY <1>2 DEF UserTurn, TypeOK, SnapSound, Written, Cancelled
<1>3. ASSUME NEW r \in Request, WriteRequest(r) PROVE SnapSound'
  BY <1>3 DEF WriteRequest, TypeOK, SnapSound, Written, Cancelled
<1>4. CASE IdleOver
  BY <1>4 DEF IdleOver, TypeOK, SnapSound, Written, Cancelled
<1>5. CASE GoStale
  BY <1>5 DEF GoStale, TypeOK, SnapSound, Written, Cancelled
<1>6. ASSUME NEW p \in Process, Acquire(p) PROVE SnapSound'
  BY <1>6 DEF Acquire, Create, TypeOK, SnapSound, Written, Cancelled
<1>7. ASSUME NEW p \in Process, Stat(p) PROVE SnapSound'
  BY <1>7 DEF Stat, TypeOK, SnapSound, Written, Cancelled
<1>8. ASSUME NEW p \in Process, Steal(p) PROVE SnapSound'
  BY <1>8 DEF Steal, TypeOK, SnapSound, Written, Cancelled
<1>9. ASSUME NEW p \in Process, CreateAgain(p) PROVE SnapSound'
  BY <1>9 DEF CreateAgain, Create, TypeOK, SnapSound, Written, Cancelled
<1>10. ASSUME NEW p \in Process, NEW w \in Worker, Spawn(p, w) PROVE SnapSound'
  <2>1. p # w /\ p \notin Request \cap Worker /\ w \notin Request
    BY <1>10 DEF Spawn
  <2>2. \A r : Written(r) => Written(r)'
    BY <1>10, <2>1 DEF Spawn, TypeOK, Written
  <2>3. Written(gen[p])
    BY <1>10 DEF Spawn, TypeOK, SnapSound, Written
  <2>4. \A v \in Worker \ {w} : pc'[v] \in {pc[v], "off"} /\ gen'[v] = gen[v] /\ snap'[v] = snap[v]
    BY <1>10, ZenonT(60) DEF Spawn, TypeOK
  <2>5. pc'[w] = "wait" /\ gen'[w] = gen[p]
    BY <1>10, <2>1 DEF Spawn, TypeOK
  <2>6. snap'[w] = {} /\ pending' = pending /\ attempted' = attempted /\ active' = active
    BY <1>10 DEF Spawn, TypeOK
  <2> QED BY <2>6, <2>2, <2>3, <2>4, <2>5 DEF SnapSound, Cancelled
<1>11. ASSUME NEW p \in Process, SpawnFails(p) PROVE SnapSound'
  BY <1>11 DEF SpawnFails, TypeOK, SnapSound, Written, Cancelled
<1>12. ASSUME NEW p \in Process, Kill(p) PROVE SnapSound'
  BY <1>12 DEF Kill, TypeOK, SnapSound, Written, Cancelled
<1>13. ASSUME NEW w \in Worker, Load(w) PROVE SnapSound'
  BY <1>13 DEF Load, Waiting, TypeOK, SnapSound, Written, Cancelled
<1>14. ASSUME NEW w \in Worker, NothingToLoad(w) PROVE SnapSound'
  <2>1. \A v \in Worker \ {w} : pc'[v] = pc[v]
    BY <1>14 DEF NothingToLoad, TypeOK
  <2>2. pc[w] = "wait" /\ pc'[w] = "finish"
    BY <1>14 DEF NothingToLoad, TypeOK
  <2>3. snap[w] = {}
    BY <1>14, <2>2 DEF SnapSound
  <2> QED BY <1>14, <2>1, <2>2, <2>3 DEF NothingToLoad, TypeOK, SnapSound, Written, Cancelled
<1>15. ASSUME NEW w \in Worker, StartRun(w) PROVE SnapSound'
  BY <1>15 DEF StartRun, TypeOK, SnapSound, Written, Cancelled
<1>16. ASSUME NEW w \in Worker, SkipRun(w) PROVE SnapSound'
  BY <1>16 DEF SkipRun, TypeOK, SnapSound, Written, Cancelled
<1>17. ASSUME NEW w \in Worker, EndRun(w) PROVE SnapSound'
  <2>1. \A v \in Worker \ {w} : pc'[v] = pc[v]
    BY <1>17 DEF EndRun, TypeOK
  <2>2. pc[w] = "run" /\ pc'[w] = "finish"
    BY <1>17 DEF EndRun, TypeOK
  <2>3. snap[w] # {}
    BY <1>17, <2>2 DEF SnapSound
  <2> QED BY <1>17, <2>1, <2>2, <2>3 DEF EndRun, TypeOK, SnapSound, Written, Cancelled
<1>18. ASSUME NEW w \in Worker, Finish(w) PROVE SnapSound'
  BY <1>18 DEF Finish, TypeOK, SnapSound, Written, Cancelled
<1>19. ASSUME NEW w \in Worker, Retire(w) PROVE SnapSound'
  BY <1>19 DEF Retire, TypeOK, SnapSound, Written, Cancelled
<1>20. ASSUME NEW w \in Worker, Unlock(w) PROVE SnapSound'
  BY <1>20 DEF Unlock, TypeOK, SnapSound, Written, Cancelled
<1>21. ASSUME NEW w \in Worker, Reload(w) PROVE SnapSound'
  BY <1>21 DEF Reload, Waiting, TypeOK, SnapSound, Written, Cancelled
<1>22. ASSUME NEW w \in Worker, Leave(w) PROVE SnapSound'
  BY <1>22 DEF Leave, TypeOK, SnapSound, Written, Cancelled
<1>23. CASE UNCHANGED vars
  BY <1>23 DEF vars, SnapSound, Written, Cancelled
<1> QED BY <1>1, <1>2, <1>3, <1>4, <1>5, <1>6, <1>7, <1>8, <1>9, <1>10, <1>11,
         <1>12, <1>13, <1>14, <1>15, <1>16, <1>17, <1>18, <1>19, <1>20, <1>21,
         <1>22, <1>23
      DEF Next, LockStep, RunStep

\* Without a fault every step that leaves a request on disk leaves a process
\* that will look at the disk: a coalesced dispatcher has a holder to rely on.
LEMMA WakeupStays ==
    ASSUME TypeOK, LockSound, SnapSound, NoLostWakeup, [Next]_vars PROVE NoLostWakeup'
<1>1. ASSUME NEW r \in Request, Begin(r) PROVE NoLostWakeup'
  BY <1>1 DEF Begin, TypeOK, LockSound, NoLostWakeup, Holding
<1>2. ASSUME NEW r \in Request, UserTurn(r) PROVE NoLostWakeup'
  BY <1>2 DEF UserTurn, TypeOK, LockSound, NoLostWakeup, Holding
<1>3. ASSUME NEW r \in Request, WriteRequest(r) PROVE NoLostWakeup'
  BY <1>3 DEF WriteRequest, TypeOK, LockSound, NoLostWakeup, Holding
<1>4. CASE IdleOver
  BY <1>4 DEF IdleOver, TypeOK, LockSound, NoLostWakeup, Holding
<1>5. CASE GoStale
  BY <1>5 DEF GoStale, TypeOK, LockSound, NoLostWakeup, Holding
<1>6. ASSUME NEW p \in Process, Acquire(p) PROVE NoLostWakeup'
  BY <1>6 DEF Acquire, Create, TypeOK, LockSound, NoLostWakeup, Holding
<1>7. ASSUME NEW p \in Process, Stat(p) PROVE NoLostWakeup'
  BY <1>7 DEF Stat, TypeOK, LockSound, NoLostWakeup, Holding
<1>8. ASSUME NEW p \in Process, Steal(p) PROVE NoLostWakeup'
  BY <1>8 DEF Steal, TypeOK, LockSound, NoLostWakeup, Holding
<1>9. ASSUME NEW p \in Process, CreateAgain(p) PROVE NoLostWakeup'
  BY <1>9 DEF CreateAgain, Create, TypeOK, LockSound, NoLostWakeup, Holding
<1>10. ASSUME NEW p \in Process, NEW w \in Worker, Spawn(p, w) PROVE NoLostWakeup'
  BY <1>10 DEF Spawn, TypeOK, LockSound, NoLostWakeup, Holding
<1>11. ASSUME NEW p \in Process, SpawnFails(p) PROVE NoLostWakeup'
  BY <1>11 DEF SpawnFails, TypeOK, LockSound, NoLostWakeup, Holding
<1>12. ASSUME NEW p \in Process, Kill(p) PROVE NoLostWakeup'
  BY <1>12 DEF Kill, TypeOK, LockSound, NoLostWakeup, Holding
<1>13. ASSUME NEW w \in Worker, Load(w) PROVE NoLostWakeup'
  BY <1>13 DEF Load, Waiting, TypeOK, LockSound, NoLostWakeup, Holding
<1>14. ASSUME NEW w \in Worker, NothingToLoad(w) PROVE NoLostWakeup'
  BY <1>14 DEF NothingToLoad, TypeOK, LockSound, NoLostWakeup, Holding
<1>15. ASSUME NEW w \in Worker, StartRun(w) PROVE NoLostWakeup'
  BY <1>15 DEF StartRun, TypeOK, LockSound, NoLostWakeup, Holding
<1>16. ASSUME NEW w \in Worker, SkipRun(w) PROVE NoLostWakeup'
  BY <1>16 DEF SkipRun, TypeOK, LockSound, NoLostWakeup, Holding
<1>17. ASSUME NEW w \in Worker, EndRun(w) PROVE NoLostWakeup'
  BY <1>17 DEF EndRun, TypeOK, LockSound, NoLostWakeup, Holding
<1>18. ASSUME NEW w \in Worker, Finish(w) PROVE NoLostWakeup'
  <2> SUFFICES ASSUME faults = 0 PROVE NoLostWakeup'
    BY <1>18 DEF Finish, NoLostWakeup
  <2>1. Holding(w)
    BY <1>18 DEF Finish, Holding
  <2>2. lock # NoLock
    BY <2>1, HolderLocks
  <2>3. lock.gen = gen[w]
    <3>1. lock = Lock(gen[w])
      BY <2>1, Worker \subseteq Process DEF LockSound
    <3> QED BY <3>1
  <2>4. pc'[w] = "retire"
    BY <1>18, <2>2, <2>3 DEF Finish, TypeOK
  <2> QED BY <2>4 DEF NoLostWakeup, Holding
<1>19. ASSUME NEW w \in Worker, Retire(w) PROVE NoLostWakeup'
  BY <1>19 DEF Retire, TypeOK, LockSound, NoLostWakeup, Holding
<1>20. ASSUME NEW w \in Worker, Unlock(w) PROVE NoLostWakeup'
  BY <1>20 DEF Unlock, TypeOK, LockSound, NoLostWakeup, Holding
<1>21. ASSUME NEW w \in Worker, Reload(w) PROVE NoLostWakeup'
  BY <1>21 DEF Reload, Waiting, TypeOK, LockSound, NoLostWakeup, Holding
<1>22. ASSUME NEW w \in Worker, Leave(w) PROVE NoLostWakeup'
  BY <1>22 DEF Leave, TypeOK, LockSound, NoLostWakeup, Holding
<1>23. CASE UNCHANGED vars
  BY <1>23 DEF vars, NoLostWakeup, Holding
<1> QED BY <1>1, <1>2, <1>3, <1>4, <1>5, <1>6, <1>7, <1>8, <1>9, <1>10, <1>11,
         <1>12, <1>13, <1>14, <1>15, <1>16, <1>17, <1>18, <1>19, <1>20, <1>21,
         <1>22, <1>23
      DEF Next, LockStep, RunStep

-----------------------------------------------------------------------------
\* The inductive invariant of the queue: wherever dispatchers and workers are
\* interrupted, HookInv holds after every file operation.
THEOREM QueueInvariance == Spec => []HookInv
<1>1. Init => HookInv
  <2> SUFFICES ASSUME Init PROVE HookInv
    OBVIOUS
  <2>1. \A p \in Process : pc[p] = "off"
    BY DEF Init
  <2>2. TypeOK
    <3>1. pc \in [Process -> {"off"}] /\ \A r \in Request : pc[r] = "off"
      BY DEF Init
    <3>2. gen \in [Process -> 0..N] /\ \A r \in Request : gen[r] = r
      <4>1. Request \subseteq 0..N /\ 0 \in 0..N /\ Request \subseteq Process
        OBVIOUS
      <4> HIDE DEF Request, Process
      <4> QED BY <4>1 DEF Init
    <3>3. window \in 0..N /\ faults \in 0..MaxFaults /\ pending = {} /\ attempted = {}
      BY DEF Init
    <3>4. snap \in [Worker -> SUBSET Request] /\ active \in [Session -> 0..N]
      BY DEF Init
    <3>5. lock \in [gen : 0..N, stale : SUBSET Process]
      BY DEF Init
    <3> QED BY <3>1, <3>2, <3>3, <3>4, <3>5 DEF TypeOK
  <2>3. LockSound /\ NoLostWakeup
    BY <2>1 DEF Init, LockSound, NoLostWakeup, Holding
  <2>4. SnapSound
    BY <2>1 DEF Init, SnapSound
  <2> QED BY <2>2, <2>3, <2>4 DEF HookInv
<1>2. HookInv /\ [Next]_vars => HookInv'
  BY Types, LockStays, SnapsStay, WakeupStays DEF HookInv
<1> QED BY <1>1, <1>2, PTL DEF Spec

\* Until the first fault a request on disk has a process on its way to it:
\* dispatch_post_turn may return "coalesced" without starting anything.
THEOREM WakeupIsNeverLost == Spec => []NoLostWakeup
<1>1. HookInv => NoLostWakeup
  BY DEF HookInv
<1> QED BY <1>1, QueueInvariance, PTL

\* Until the first fault there is one detached worker: O_EXCL, and the unlink
\* only by the holder, are enough while nobody finds the lock stale.
THEOREM OneWorkerWithoutFaults == Spec => [](faults = 0 => OneWorker)
<1>1. HookInv => (faults = 0 => OneWorker)
  BY DEF HookInv, LockSound, OneWorker, Holding
<1> QED BY <1>1, QueueInvariance, PTL

\* Nothing is dropped, with any number of kills, stale and stolen locks:
\* finish_background_worker retires only what was attempted or cancelled.
THEOREM NoRequestIsDropped == Spec => NothingDropped
<1>1. HookInv /\ [Next]_vars => DropStep
  <2> SUFFICES ASSUME HookInv, [Next]_vars, NEW r \in pending, r \notin pending'
               PROVE r \in attempted \/ Cancelled(r)
    BY DEF DropStep
  <2>1. PICK w \in Worker : Retire(w)
    BY DEF Next, vars, LockStep, RunStep, Begin, UserTurn, WriteRequest, IdleOver, GoStale,
           Acquire, CreateAgain, Create, Stat, Steal, Spawn, SpawnFails, Kill, Load,
           NothingToLoad, StartRun, SkipRun, EndRun, Finish, Unlock, Reload, Leave
  <2>2. pc[w] = "retire" /\ r \in (IF snap[w] = {} THEN {gen[w]} ELSE snap[w])
    BY <2>1 DEF Retire
  <2> QED BY <2>2 DEF HookInv, SnapSound
<1> QED BY <1>1, QueueInvariance, PTL DEF Spec, NothingDropped

-------------------------------------------------------------------------------

(* The values of entries, jobs and batches.                                     *)
Entry == [is : {"none", "verified", "quarantined"}, version : Version \cup {"none", "gone"}]
Status == {"none", "queued", "leased", "retryable", "stale"} \cup Done
BatchSteps == {"idle", "inventory", "lock", "repair", "conflicts", "rows", "job", "ledger", "index", "receipt"}
Batches == [at : BatchSteps, row : Archive \cup {"none"}, found : Status,
            ledger : SUBSET Archive, sessions : [Archive -> Entry], seen : [Archive -> Version \cup {"gone"}],
            selected : SUBSET (Archive \ Foreign), outcomes : SUBSET Outcomes, passed : SUBSET Archive]

WorldTypes ==
    /\ archives \in [Archive -> Version \cup {"gone"}]
    /\ synced \in [Archive -> Version \cup {"none"}]
    /\ jobs \in [Archive -> [Version -> Status]]
ArchiveTypes ==
    /\ WorldTypes
    /\ index \in [Archive -> Entry] /\ runReceipts \subseteq Outcomes
    /\ ledgerDay \subseteq Archive /\ batch \in [Invoker -> Batches]

(* A revision is settled once its job is done, or if it has no conversation.    *)
Settled(t, s, v) == v \in Silent \/ (v \in Version /\ t[s][v] \in Done)
EntrySound(t, s, e) ==
    /\ e.is = "verified" => Settled(t, s, e.version)
    /\ e.is = "quarantined" => e.version \in Version
(* What a batch knows: one outcome of each session it has taken, and that what  *)
(* has passed is settled.                                                       *)
OutcomesSound(b, t) ==
    /\ \A o, q \in b.outcomes : o.session = q.session => o = q
    /\ \A o \in b.outcomes : o.session \notin b.selected \cup Foreign
    /\ \A s \in b.passed : \E o \in b.outcomes : o.session = s /\ Settled(t, s, o.version)
BatchSound(b, t, y) ==
    /\ OutcomesSound(b, t)
    /\ \A s \in Archive : EntrySound(t, s, b.sessions[s])
    /\ b.at = "inventory" => b.outcomes = {}
    /\ b.at = "job" => b.row \in b.selected /\ y[b.row] \in Version

ArchiveInv ==
    /\ ArchiveTypes
    /\ \A s \in Archive : EntrySound(jobs, s, index[s])
    /\ \A p \in Invoker : BatchSound(batch[p], jobs, synced)
-----------------------------------------------------------------------------
(* What is done stays done, and what has been captured stays captured.          *)
WorldMoves ==
    /\ WorldTypes'
    /\ \A s \in Archive : \A k \in Version : jobs[s][k] \in Done => jobs'[s][k] \in Done
    /\ \A s \in Archive : synced[s] \in Version => synced'[s] \in Version

\* So what is settled stays settled, and a batch knows what it has known.
LEMMA SettledStays ==
  ASSUME WorldMoves, NEW s \in Archive, NEW v, Settled(jobs, s, v)
  PROVE  Settled(jobs', s, v)
  BY DEF WorldMoves, Settled
\* The same for an entry of the index.
LEMMA EntryStays ==
  ASSUME WorldMoves, NEW s \in Archive, NEW e, EntrySound(jobs, s, e)
  PROVE  EntrySound(jobs', s, e)
  BY SettledStays DEF EntrySound
\* The same for what a batch carries.
LEMMA BatchStays ==
  ASSUME WorldMoves, NEW b \in Batches, BatchSound(b, jobs, synced)
  PROVE  BatchSound(b, jobs', synced')
  <1>1. b.passed \subseteq Archive /\ b.selected \subseteq Archive
    BY DEF Batches
  <1>2. OutcomesSound(b, jobs')
    BY <1>1, SettledStays DEF BatchSound, OutcomesSound
  <1>3. \A s \in Archive : EntrySound(jobs', s, b.sessions[s])
    BY EntryStays DEF BatchSound
  <1>4. b.at = "job" => b.row \in b.selected /\ synced'[b.row] \in Version
    BY <1>1 DEF BatchSound, WorldMoves
  <1>5. QED
    BY <1>2, <1>3, <1>4 DEF BatchSound

\* A step of a batch beside its world, and one of the world alone.
LEMMA BatchTurns ==
  ASSUME ArchiveInv, WorldMoves, index' \in [Archive -> Entry], runReceipts' \subseteq Outcomes,
         ledgerDay' \subseteq Archive, \A s \in Archive : EntrySound(jobs', s, index'[s]),
         NEW p \in Invoker, NEW b \in Batches, BatchSound(b, jobs', synced'), BatchGo(p, b)
  PROVE  ArchiveInv'
  <1>1. ArchiveTypes'
    BY DEF ArchiveInv, ArchiveTypes, WorldMoves, BatchGo
  <1>2. ASSUME NEW q \in Invoker PROVE BatchSound(batch'[q], jobs', synced')
    <2>1. CASE q = p
      BY <2>1 DEF BatchGo, ArchiveInv, ArchiveTypes
    <2>2. CASE q # p
      <3>1. batch'[q] = batch[q] /\ batch[q] \in Batches /\ BatchSound(batch[q], jobs, synced)
        BY <2>2 DEF BatchGo, ArchiveInv, ArchiveTypes
      <3>2. QED
        BY <3>1, BatchStays
    <2>3. QED
      BY <2>1, <2>2
  <1>3. QED
    BY <1>1, <1>2 DEF ArchiveInv
\* A step of the world alone: archives, transcripts and jobs move, no batch does.
LEMMA WorldStep ==
  ASSUME ArchiveInv, WorldMoves, UNCHANGED <<index, runReceipts, ledgerDay, batch>>
  PROVE  ArchiveInv'
  <1>1. ArchiveTypes'
    BY DEF ArchiveInv, ArchiveTypes, WorldMoves
  <1>2. \A s \in Archive : EntrySound(jobs', s, index'[s])
    BY EntryStays DEF ArchiveInv
  <1>3. \A q \in Invoker : BatchSound(batch'[q], jobs', synced')
    BY BatchStays DEF ArchiveInv, ArchiveTypes
  <1>4. QED
    BY <1>1, <1>2, <1>3 DEF ArchiveInv

\* Most steps of a batch leave the stores alone.
LEMMA BatchGoes ==
  ASSUME ArchiveInv, WorldMoves, UNCHANGED <<index, runReceipts, ledgerDay>>,
         NEW p \in Invoker, NEW b \in Batches, BatchSound(b, jobs', synced'), BatchGo(p, b)
  PROVE  ArchiveInv'
  BY BatchTurns, EntryStays DEF ArchiveInv, ArchiveTypes
\* What an action that says UNCHANGED of the stores or of the world leaves.
LEMMA StoresRest ==
  ASSUME ArchiveInv
  PROVE  /\ UNCHANGED World => WorldMoves
         /\ UNCHANGED Stores => UNCHANGED <<index, runReceipts, ledgerDay>>
         /\ \A p \in Invoker : batch[p] \in Batches /\ BatchSound(batch[p], jobs, synced)
  BY DEF ArchiveInv, ArchiveTypes, WorldTypes, WorldMoves, World, Stores
\* Who has gone away knows nothing.
LEMMA NoBatchIsSound ==
  ASSUME NEW t, NEW y
  PROVE  NoBatch \in Batches /\ BatchSound(NoBatch, t, y)
  <1>1. NoBatch \in Batches
    BY DEF NoBatch, Batches, BatchSteps, Status, Entry, NoEntry
  <1>2. BatchSound(NoBatch, t, y)
    BY DEF NoBatch, BatchSound, OutcomesSound, EntrySound, NoEntry
  <1>3. QED
    BY <1>1, <1>2
-----------------------------------------------------------------------------
(* What a batch does to itself.                                                 *)
\* It goes on to another step.
LEMMA Onward ==
  ASSUME NEW t, NEW y, NEW b \in Batches, BatchSound(b, t, y), NEW next \in BatchSteps \ {"inventory", "job"},
         NEW n, n = [b EXCEPT !.at = next]
  PROVE  n \in Batches /\ BatchSound(n, t, y)
  <1>1. n \in Batches
    BY DEF Batches
  <1>2. /\ n.at = next /\ n.outcomes = b.outcomes /\ n.selected = b.selected
        /\ n.passed = b.passed /\ n.sessions = b.sessions
    BY DEF Batches
  <1>3. OutcomesSound(n, t)
    BY <1>2 DEF BatchSound, OutcomesSound
  <1>4. QED
    BY <1>1, <1>2, <1>3 DEF BatchSound

\* It takes one of the sessions that are left.
LEMMA Takes ==
  ASSUME NEW t, NEW y, NEW b \in Batches, BatchSound(b, t, y), NEW s \in b.selected,
         NEW k \in Version \cup {"gone"}, NEW status \in {"completed", "deferred", "succeeded"},
         NEW empty \in {"yes", "no"}, NEW n, n = Took(b, s, k, status, empty)
  PROVE  n \in Batches /\ BatchSound(n, t, y)
  <1> DEFINE o == [session |-> s, version |-> k, status |-> status, empty |-> empty]
  <1>1. o \in Outcomes /\ o.session = s
    BY DEF Outcomes, Batches
  <1> HIDE DEF o
  <1>2. n = [b EXCEPT !.selected = @ \ {s}, !.at = "rows", !.row = "none", !.found = "none",
                      !.outcomes = @ \cup {o}]
    BY DEF Took, o
  <1>3. /\ n.at = "rows" /\ n.outcomes = b.outcomes \cup {o} /\ n.selected = b.selected \ {s}
        /\ n.passed = b.passed /\ n.sessions = b.sessions
    BY <1>2 DEF Batches
  <1>4. n \in Batches
    <2>1. b.selected \ {s} \in SUBSET (Archive \ Foreign) /\ b.outcomes \cup {o} \in SUBSET Outcomes
      BY <1>1 DEF Batches
    <2>2. "rows" \in BatchSteps /\ "none" \in Status
      BY DEF BatchSteps, Status
    <2>3. QED
      BY <1>2, <2>1, <2>2, ZenonT(60) DEF Batches
  <1>5. OutcomesSound(n, t)
    <2>1. \A x, z \in n.outcomes : x.session = z.session => x = z
      BY <1>1, <1>3 DEF BatchSound, OutcomesSound
    <2>2. \A x \in n.outcomes : x.session \notin n.selected \cup Foreign
      <3>1. s \notin Foreign
        BY DEF Batches
      <3>2. QED
        BY <1>1, <1>3, <3>1 DEF BatchSound, OutcomesSound
    <2>3. \A r \in n.passed : \E x \in n.outcomes : x.session = r /\ Settled(t, r, x.version)
      BY <1>3 DEF BatchSound, OutcomesSound
    <2>4. QED
      BY <2>1, <2>2, <2>3 DEF OutcomesSound
  <1>6. QED
    BY <1>3, <1>4, <1>5 DEF BatchSound

\* It gives up what is left.
LEMMA GivesUp ==
  ASSUME NEW t, NEW y, NEW b \in Batches, BatchSound(b, t, y), b.at = "rows", NEW n, n = [b EXCEPT !.selected = {}]
  PROVE  n \in Batches /\ BatchSound(n, t, y)
  <1>1. n \in Batches
    BY DEF Batches
  <1>2. /\ n.at = "rows" /\ n.outcomes = b.outcomes /\ n.selected = {}
        /\ n.passed = b.passed /\ n.sessions = b.sessions
    BY DEF Batches
  <1>3. OutcomesSound(n, t)
    BY <1>2 DEF BatchSound, OutcomesSound
  <1>4. QED
    BY <1>1, <1>2, <1>3 DEF BatchSound

\* The version of an outcome is one that an outcome of the session has.
LEMMA VersionIsOnes ==
  ASSUME NEW O, NEW s, \E o \in O : o.session = s
  PROVE  \E o \in O : o.session = s /\ VersionOf(s, O) = o.version
  <1>1. PICK o \in O : o.session = s
    OBVIOUS
  <1>2. (CHOOSE q \in O : q.session = s) \in O /\ (CHOOSE q \in O : q.session = s).session = s
    BY <1>1
  <1>3. QED
    BY <1>2 DEF VersionOf
\* A verification finds the revision settled.
LEMMA VerifiedIsSettled ==
  ASSUME ArchiveInv, NEW o, Verifies(o, TRUE)
  PROVE  Settled(jobs, o.session, o.version)
  BY DEF Verifies, EmptyHolds, JobHolds, Settled
-----------------------------------------------------------------------------
(* The steps.                                                                   *)
\* Opening a run reads the index.
LEMMA OpenRunKeeps ==
  ASSUME ArchiveInv, NEW p \in Invoker, OpenRun(p)
  PROVE  ArchiveInv'
  <1> DEFINE b == [NoBatch EXCEPT !.at = "inventory", !.ledger = ledgerDay, !.sessions = index]
  <1>1. WorldMoves /\ UNCHANGED <<index, runReceipts, ledgerDay, jobs, synced>> /\ BatchGo(p, b)
    BY StoresRest DEF OpenRun, World, Stores
  <1>2. b \in Batches
    BY NoBatchIsSound DEF ArchiveInv, ArchiveTypes, Batches, BatchSteps
  <1>3. /\ b.at = "inventory" /\ b.outcomes = {} /\ b.selected = {}
        /\ b.passed = {} /\ b.sessions = index
    BY DEF NoBatch
  <1> HIDE DEF b
  <1>4. BatchSound(b, jobs, synced)
    BY <1>3 DEF BatchSound, OutcomesSound, ArchiveInv
  <1>5. QED
    BY <1>1, <1>2, <1>4, BatchGoes

\* The sessions to take are of this project.
LEMMA InventoryKeeps ==
  ASSUME ArchiveInv, NEW p \in Invoker, Inventory(p)
  PROVE  ArchiveInv'
  <1> DEFINE live == {s \in Archive \ Foreign : archives[s] # "gone"}
  <1>1. WorldMoves /\ UNCHANGED <<index, runReceipts, ledgerDay, jobs, synced>> /\ batch[p].at = "inventory"
        /\ batch[p] \in Batches /\ BatchSound(batch[p], jobs, synced)
    BY StoresRest DEF Inventory, World, Stores
  <1>2. PICK S \in SUBSET (Archive \ Foreign) :
           BatchGo(p, [batch[p] EXCEPT !.at = "lock", !.seen = archives, !.selected = S])
    <2>1. PICK repairOnly \in BOOLEAN :
             BatchGo(p, [batch[p] EXCEPT !.at = "lock", !.seen = archives,
                       !.selected = IF repairOnly THEN {}
                                    ELSE {s \in live : ~Matches(batch[p], s, archives[s])}])
      BY Zenon DEF Inventory
    <2> DEFINE T == IF repairOnly THEN {} ELSE {s \in live : ~Matches(batch[p], s, archives[s])}
    <2>2. T \in SUBSET (Archive \ Foreign)
      OBVIOUS
    <2>3. BatchGo(p, [batch[p] EXCEPT !.at = "lock", !.seen = archives, !.selected = T])
      BY <2>1
    <2> HIDE DEF T
    <2>4. QED
      BY <2>2, <2>3
  <1> DEFINE b == [batch[p] EXCEPT !.at = "lock", !.seen = archives, !.selected = S]
  <1>3. b \in Batches
    BY <1>1, <1>2 DEF Batches, BatchSteps, ArchiveInv, ArchiveTypes, WorldTypes
  <1>4. /\ b.at = "lock" /\ b.outcomes = batch[p].outcomes
        /\ b.passed = batch[p].passed /\ b.sessions = batch[p].sessions
    BY <1>1 DEF Batches
  <1> HIDE DEF b
  <1>5. BatchSound(b, jobs, synced)
    BY <1>1, <1>4 DEF BatchSound, OutcomesSound
  <1>6. QED
    BY <1>1, <1>2, <1>3, <1>5, BatchGoes DEF b

\* The lock is taken, or the batch is over.
LEMMA TakeLockKeeps ==
  ASSUME ArchiveInv, NEW p \in Invoker, TakeLock(p) \/ Conflicts(p)
  PROVE  ArchiveInv'
  <1>1. WorldMoves /\ UNCHANGED <<index, runReceipts, ledgerDay, jobs, synced>>
        /\ batch[p] \in Batches /\ BatchSound(batch[p], jobs, synced)
    BY StoresRest DEF TakeLock, Conflicts, World, Stores
  <1>2. BatchGo(p, NoBatch) \/ \E next \in {"repair", "rows"} : BatchGo(p, [batch[p] EXCEPT !.at = next])
    BY DEF TakeLock, Conflicts
  <1>3. CASE BatchGo(p, NoBatch)
    BY <1>1, <1>3, NoBatchIsSound, BatchGoes
  <1>4. CASE \E next \in {"repair", "rows"} : BatchGo(p, [batch[p] EXCEPT !.at = next])
    <2>1. PICK next \in {"repair", "rows"} : BatchGo(p, [batch[p] EXCEPT !.at = next])
      BY <1>4
    <2>2. next \in BatchSteps \ {"inventory", "job"}
      BY DEF BatchSteps
    <2> DEFINE n == [batch[p] EXCEPT !.at = next]
    <2>3. n \in Batches /\ BatchSound(n, jobs, synced)
      BY <1>1, <2>2, Onward
    <2> HIDE DEF n
    <2>4. QED
      BY <1>1, <2>1, <2>3, BatchGoes DEF n
  <1>5. QED
    BY <1>2, <1>3, <1>4

\* What is mended is settled, and what is verified again too.
LEMMA RepairKeeps ==
  ASSUME ArchiveInv, NEW p \in Invoker, Repair(p)
  PROVE  ArchiveInv'
  <1> DEFINE b == batch[p]
             fromReceipts == {o \in runReceipts : Repairable(b, o) /\ Verifies(o, TRUE)}
  <1>1. WorldMoves /\ UNCHANGED <<index, runReceipts, ledgerDay, jobs, synced>>
        /\ b \in Batches /\ BatchSound(b, jobs, synced)
    BY StoresRest DEF Repair, World, Stores
  <1> DEFINE Mended(admitted) == [s \in Archive |->
                           IF \E o \in admitted : o.session = s
                           THEN [is |-> "verified", version |-> VersionOf(s, admitted)]
                           ELSE b.sessions[s]]
             Again(mended) == {s \in Archive : /\ SetAside([b EXCEPT !.sessions = mended], s)
                                               /\ jobs[s][mended[s].version] \in Done
                                               /\ SourceHolds(s, mended[s].version, FALSE)}
  <1>2. PICK admitted \in SUBSET fromReceipts : \E again \in SUBSET Again(Mended(admitted)) :
                 BatchGo(p, [b EXCEPT !.at = "conflicts",
                           !.sessions = [s \in Archive |->
                               IF s \in again THEN [Mended(admitted)[s] EXCEPT !.is = "verified"]
                               ELSE Mended(admitted)[s]]])
    BY ZenonT(60) DEF Repair
  <1> DEFINE mended == Mended(admitted)
  <1>3. PICK again \in SUBSET Again(mended) :
                 BatchGo(p, [b EXCEPT !.at = "conflicts",
                           !.sessions = [s \in Archive |->
                               IF s \in again THEN [mended[s] EXCEPT !.is = "verified"] ELSE mended[s]]])
    BY <1>2, ZenonT(60)
  <1>4. ASSUME NEW s \in Archive
        PROVE  /\ mended[s] \in Entry /\ EntrySound(jobs, s, mended[s])
    <2>1. CASE \E o \in admitted : o.session = s
      <3>1. PICK o \in admitted : o.session = s /\ VersionOf(s, admitted) = o.version
        BY <2>1, VersionIsOnes, SMTT(40)
      <3>2. o \in Outcomes /\ Settled(jobs, s, o.version)
        BY <3>1, VerifiedIsSettled DEF ArchiveInv, ArchiveTypes
      <3>3. mended[s] = [is |-> "verified", version |-> o.version]
        BY <2>1, <3>1
      <3>4. QED
        BY <3>2, <3>3, SMTT(40) DEF Entry, EntrySound, Outcomes
    <2>2. CASE ~ \E o \in admitted : o.session = s
      <3>1. mended[s] = b.sessions[s]
        BY <2>2, SMTT(40)
      <3>2. b.sessions[s] \in Entry /\ EntrySound(jobs, s, b.sessions[s])
        BY <1>1 DEF BatchSound, Batches
      <3>3. QED
        BY <3>1, <3>2, SMTT(40)
    <2>3. QED
      BY <2>1, <2>2, SMTT(40)
  <1> DEFINE done == [s \in Archive |-> IF s \in again THEN [mended[s] EXCEPT !.is = "verified"] ELSE mended[s]]
  <1>4a. ASSUME NEW s \in again
         PROVE  mended[s].is = "quarantined" /\ jobs[s][mended[s].version] \in Done
    <2>1. SetAside([b EXCEPT !.sessions = mended], s) /\ jobs[s][mended[s].version] \in Done
      BY <1>3
    <2> HIDE DEF mended
    <2>2. [b EXCEPT !.sessions = mended].sessions = mended
      BY <1>1 DEF Batches
    <2>3. QED
      BY <2>1, <2>2, SMTT(40) DEF SetAside
  <1>4b. again \subseteq Archive
    BY <1>3
  <1> HIDE DEF mended, Again
  <1>5. ASSUME NEW s \in Archive
        PROVE  done[s] \in Entry /\ EntrySound(jobs, s, done[s])
    <2>1. CASE s \in again
      <3>1. mended[s].version \in Version
        BY <1>4, <1>4a, <2>1 DEF EntrySound
      <3>2. done[s] = [mended[s] EXCEPT !.is = "verified"]
        BY <2>1
      <3>3. done[s] \in Entry /\ done[s].is = "verified" /\ done[s].version = mended[s].version
        BY <1>4, <3>2 DEF Entry
      <3>4. QED
        BY <1>4a, <2>1, <3>1, <3>3 DEF EntrySound, Settled
    <2>2. CASE s \notin again
      BY <1>4, <2>2
    <2>3. QED
      BY <2>1, <2>2
  <1>6. BatchGo(p, [b EXCEPT !.at = "conflicts", !.sessions = done])
    BY <1>3
  <1>7. done \in [Archive -> Entry]
    BY <1>5
  <1> HIDE DEF done
  <1> DEFINE n == [b EXCEPT !.at = "conflicts", !.sessions = done]
  <1>8. n \in Batches
    BY <1>1, <1>7 DEF Batches, BatchSteps
  <1>9. /\ n.at = "conflicts" /\ n.outcomes = b.outcomes /\ n.selected = b.selected
        /\ n.passed = b.passed /\ n.sessions = done
    BY <1>1 DEF Batches
  <1> HIDE DEF n
  <1>10. BatchSound(n, jobs, synced)
    BY <1>1, <1>5, <1>9 DEF BatchSound, OutcomesSound
  <1>11. QED
    BY <1>1, <1>6, <1>8, <1>10, BatchGoes, SMTT(40) DEF n

\* An archive is taken as it is, or put off.
LEMMA TakeRowKeeps ==
  ASSUME ArchiveInv, NEW p \in Invoker, NEW s \in Archive \ Foreign, TakeRow(p, s)
  PROVE  ArchiveInv'
  <1>1. WorldMoves /\ UNCHANGED <<index, runReceipts, ledgerDay, jobs, synced>> /\ s \in batch[p].selected
        /\ batch[p] \in Batches /\ BatchSound(batch[p], jobs, synced)
    BY StoresRest DEF TakeRow, World, Stores
  <1>2. \E k \in Version \cup {"gone"}, status \in {"completed", "deferred", "succeeded"}, empty \in {"yes", "no"} :
           BatchGo(p, Took(batch[p], s, k, status, empty))
    <2>1. archives[s] \in Version \cup {"gone"} /\ batch[p].seen[s] \in Version \cup {"gone"}
      BY <1>1 DEF ArchiveInv, ArchiveTypes, WorldTypes, Batches
    <2>2. BatchGo(p, Took(batch[p], s, archives[s], "completed", "yes"))
          \/ BatchGo(p, Took(batch[p], s, batch[p].seen[s], "deferred", "no"))
      BY DEF TakeRow
    <2>3. QED
      BY <2>1, <2>2
  <1>3. PICK n \in Batches : BatchSound(n, jobs, synced) /\ BatchGo(p, n)
    BY <1>1, <1>2, Takes
  <1>4. QED
    BY <1>1, <1>3, BatchGoes

\* An archive that is captured gets a job; no done job is touched.
LEMMA SyncKeeps ==
  ASSUME ArchiveInv, NEW p \in Invoker, NEW s \in Archive \ Foreign, Sync(p, s)
  PROVE  ArchiveInv'
  <1> DEFINE b == batch[p]
             k == archives[s]
             row == [j \in Version |-> IF j = k THEN IF jobs[s][j] = "none" THEN "queued" ELSE jobs[s][j]
                                       ELSE IF jobs[s][j] \in Done \cup {"none"} THEN jobs[s][j] ELSE "stale"]
  <1>1. /\ UNCHANGED <<index, runReceipts, ledgerDay, archives>> /\ s \in b.selected /\ k \in Version
        /\ b \in Batches /\ BatchSound(b, jobs, synced) /\ s \in Archive
    BY StoresRest DEF Sync, Stores
  <1>2. WorldTypes
    BY DEF ArchiveInv, ArchiveTypes
  <1>3. jobs' = [jobs EXCEPT ![s] = row] /\ synced' = [synced EXCEPT ![s] = k]
    BY <1>2 DEF Sync, WorldTypes
  <1>4. row \in [Version -> Status] /\ \A j \in Version : jobs[s][j] \in Done => row[j] \in Done
    BY <1>1, <1>2 DEF WorldTypes, Status, Done
  <1> HIDE DEF row
  <1>5. WorldMoves
    BY <1>1, <1>2, <1>3, <1>4 DEF WorldTypes, WorldMoves
  <1>6. BatchSound(b, jobs', synced') /\ jobs'[s][k] \in Status /\ synced'[s] \in Version
    BY <1>1, <1>2, <1>3, <1>5, BatchStays, ZenonT(60) DEF WorldTypes, WorldMoves
  <1>7. BatchGo(p, Took(b, s, k, "deferred", "no"))
        \/ BatchGo(p, [b EXCEPT !.at = "job", !.row = s, !.found = jobs'[s][k]])
    BY DEF Sync
  <1>8. CASE BatchGo(p, Took(b, s, k, "deferred", "no"))
    <2>1. PICK n \in Batches : BatchSound(n, jobs', synced') /\ BatchGo(p, n)
      BY <1>1, <1>6, <1>8, Takes
    <2>2. QED
      BY <1>1, <1>5, <2>1, BatchGoes
  <1>9. CASE BatchGo(p, [b EXCEPT !.at = "job", !.row = s, !.found = jobs'[s][k]])
    <2> DEFINE n == [b EXCEPT !.at = "job", !.row = s, !.found = jobs'[s][k]]
    <2>1. n \in Batches
      BY <1>1, <1>6 DEF Batches, BatchSteps
    <2>2. /\ n.at = "job" /\ n.row = s /\ n.outcomes = b.outcomes /\ n.selected = b.selected
          /\ n.passed = b.passed /\ n.sessions = b.sessions
      BY <1>1 DEF Batches
    <2> HIDE DEF n
    <2>3. BatchSound(n, jobs', synced')
      BY <1>1, <1>6, <2>2 DEF BatchSound, OutcomesSound
    <2>4. QED
      BY <1>1, <1>5, <1>9, <2>1, <2>3, BatchGoes DEF n
  <1>10. QED
    BY <1>7, <1>8, <1>9

\* One job of one session changes; what was done is done.
LEMMA JobMovesOn ==
  ASSUME ArchiveInv, NEW s \in Archive, NEW k \in Version, NEW st \in Status,
         jobs[s][k] \in Done => st \in Done,
         jobs' = [jobs EXCEPT ![s][k] = st], UNCHANGED synced,
         archives' = archives \/ archives' = [archives EXCEPT ![s] = "gone"]
  PROVE  WorldMoves
  <1>1. WorldTypes
    BY DEF ArchiveInv, ArchiveTypes
  <1> DEFINE row == [jobs[s] EXCEPT ![k] = st]
  <1>2. row \in [Version -> Status] /\ \A j \in Version : jobs[s][j] \in Done => row[j] \in Done
    BY <1>1 DEF WorldTypes
  <1>3. jobs' = [jobs EXCEPT ![s] = row]
    OBVIOUS
  <1> HIDE DEF row
  <1>4. jobs' \in [Archive -> [Version -> Status]]
        /\ \A r \in Archive : \A j \in Version : jobs[r][j] \in Done => jobs'[r][j] \in Done
    BY <1>1, <1>2, <1>3 DEF WorldTypes
  <1>5. archives' \in [Archive -> Version \cup {"gone"}]
    BY <1>1 DEF WorldTypes
  <1>6. QED
    BY <1>1, <1>4, <1>5 DEF WorldTypes, WorldMoves

\* The session at hand, with its revision.
LEMMA RowIsSelected ==
  ASSUME ArchiveInv, NEW p \in Invoker, batch[p].at = "job"
  PROVE  batch[p].row \in batch[p].selected /\ batch[p].row \in Archive /\ synced[batch[p].row] \in Version
  BY StoresRest DEF BatchSound, Batches

\* An outcome is taken in a world that moves.
LEMMA TakesOn ==
  ASSUME ArchiveInv, WorldMoves, UNCHANGED <<index, runReceipts, ledgerDay>>,
         NEW p \in Invoker, NEW s \in batch[p].selected, NEW k \in Version \cup {"gone"},
         NEW status \in {"completed", "deferred", "succeeded"}, NEW n,
         n = Took(batch[p], s, k, status, "no"),
         BatchGo(p, n) \/ BatchGo(p, [n EXCEPT !.selected = {}])
  PROVE  ArchiveInv'
  <1>1. batch[p] \in Batches /\ BatchSound(batch[p], jobs', synced')
    BY StoresRest, BatchStays
  <1>2. n \in Batches /\ BatchSound(n, jobs', synced')
    BY <1>1, Takes
  <1>3. CASE BatchGo(p, n)
    BY <1>2, <1>3, BatchGoes
  <1>4. CASE BatchGo(p, [n EXCEPT !.selected = {}])
    <2> DEFINE m == [n EXCEPT !.selected = {}]
    <2>1. n.at = "rows"
      BY <1>1 DEF Took, Batches
    <2>2. m \in Batches /\ BatchSound(m, jobs', synced')
      BY <1>2, <2>1, GivesUp
    <2> HIDE DEF m
    <2>3. QED
      BY <1>4, <2>2, BatchGoes DEF m
  <1>5. QED
    BY <1>3, <1>4

\* A job that was done is replayed, and its source may be cleaned up.
LEMMA ReplayDoneKeeps ==
  ASSUME ArchiveInv, NEW p \in Invoker, Replay(p)
  PROVE  ArchiveInv'
  <1> DEFINE s == batch[p].row
             k == synced[s]
  <1>1. s \in batch[p].selected /\ s \in Archive /\ k \in Version /\ UNCHANGED <<index, runReceipts, ledgerDay>>
    BY RowIsSelected DEF Replay, Stores
  <1>2. PICK status \in {"completed", "deferred"} :
             /\ BatchGo(p, Took(batch[p], s, k, status, "no"))
             /\ \/ UNCHANGED World
                \/ /\ status = "completed" /\ jobs[s][k] = "completed"
                   /\ jobs' = [jobs EXCEPT ![s][k] = "cleaned"]
                   /\ archives' = [archives EXCEPT ![s] = "gone"]
                   /\ UNCHANGED synced
    BY DEF Replay
  <1>3. WorldMoves
    <2>1. CASE UNCHANGED World
      BY <2>1, StoresRest
    <2>2. CASE /\ jobs' = [jobs EXCEPT ![s][k] = "cleaned"]
               /\ archives' = [archives EXCEPT ![s] = "gone"] /\ UNCHANGED synced
      <3>1. "cleaned" \in Status /\ "cleaned" \in Done
        BY DEF Status, Done
      <3>2. QED
        BY <1>1, <2>2, <3>1, JobMovesOn
    <2>3. QED
      BY <1>2, <2>1, <2>2
  <1>4. QED
    BY <1>1, <1>2, <1>3, TakesOn

\* The worker completes the job, or puts it off.
LEMMA DistillKeeps ==
  ASSUME ArchiveInv, NEW p \in Invoker, Distill(p)
  PROVE  ArchiveInv'
  <1> DEFINE s == batch[p].row
             k == synced[s]
  <1>1. s \in batch[p].selected /\ s \in Archive /\ k \in Version /\ UNCHANGED <<index, runReceipts, ledgerDay>>
    BY RowIsSelected, SMTT(40) DEF Distill, Stores
  <1>2. \E status \in {"completed", "deferred", "succeeded"} :
           BatchGo(p, Took(batch[p], s, k, status, "no"))
           \/ BatchGo(p, [Took(batch[p], s, k, status, "no") EXCEPT !.selected = {}])
    BY SMTT(40) DEF Distill
  <1>3. \/ UNCHANGED World
        \/ /\ jobs[s][k] = "queued" /\ UNCHANGED synced
           /\ \E st \in Done : /\ jobs' = [jobs EXCEPT ![s][k] = st]
                               /\ archives' = IF st = "cleaned" THEN [archives EXCEPT ![s] = "gone"] ELSE archives
        \/ jobs[s][k] = "queued" /\ jobs' = [jobs EXCEPT ![s][k] = "retryable"] /\ UNCHANGED <<archives, synced>>
    BY DEF Distill, World
  <1>4. WorldMoves
    <2>1. CASE UNCHANGED World
      BY <2>1, StoresRest
    <2>2. CASE /\ jobs[s][k] = "queued" /\ UNCHANGED synced
               /\ \E st \in Done : /\ jobs' = [jobs EXCEPT ![s][k] = st]
                                   /\ archives' = IF st = "cleaned" THEN [archives EXCEPT ![s] = "gone"] ELSE archives
      <3>1. PICK st \in Done : /\ jobs' = [jobs EXCEPT ![s][k] = st]
                               /\ archives' = archives \/ archives' = [archives EXCEPT ![s] = "gone"]
        BY <2>2
      <3>2. st \in Status
        BY <3>1 DEF Status
      <3>3. QED
        BY <1>1, <2>2, <3>1, <3>2, JobMovesOn
    <2>3. CASE jobs[s][k] = "queued" /\ jobs' = [jobs EXCEPT ![s][k] = "retryable"] /\ UNCHANGED <<archives, synced>>
      <3>1. "retryable" \in Status /\ jobs[s][k] \notin Done
        BY <2>3 DEF Status, Done
      <3>2. QED
        BY <1>1, <2>3, <3>1, JobMovesOn
    <2>4. QED
      BY <1>3, <2>1, <2>2, <2>3
  <1>5. QED
    BY <1>1, <1>2, <1>4, TakesOn

\* What passes has been verified again.
LEMMA VerifyRunKeeps ==
  ASSUME ArchiveInv, NEW p \in Invoker, VerifyRun(p)
  PROVE  ArchiveInv'
  <1> DEFINE b == batch[p]
  <1>1. WorldMoves /\ UNCHANGED <<index, runReceipts, ledgerDay, jobs, synced>> /\ b.selected = {}
        /\ b \in Batches /\ BatchSound(b, jobs, synced)
    BY StoresRest, SMTT(40) DEF VerifyRun, World, Stores
  <1>2. PICK ok \in SUBSET {o \in b.outcomes : Verifies(o, TRUE)} :
             BatchGo(p, [b EXCEPT !.at = "ledger", !.passed = {o.session : o \in ok},
                       !.outcomes = {IF o \in ok \/ o.status # "completed" THEN o
                                     ELSE [o EXCEPT !.status = "deferred"] : o \in b.outcomes}])
    BY DEF VerifyRun
  <1> DEFINE Kept(o) == IF o \in ok \/ o.status # "completed" THEN o ELSE [o EXCEPT !.status = "deferred"]
             kept == {Kept(o) : o \in b.outcomes}
             passed == {o.session : o \in ok}
  <1>3. b.outcomes \subseteq Outcomes /\ ok \subseteq b.outcomes
    BY <1>1, <1>2 DEF Batches
  <1>4. \A o \in b.outcomes : Kept(o) \in Outcomes /\ Kept(o).session = o.session
                              /\ (o \in ok => Kept(o) = o)
    BY <1>3 DEF Outcomes
  <1> HIDE DEF Kept
  <1>5. kept \in SUBSET Outcomes
    BY <1>4
  <1>6. passed \in SUBSET Archive
    BY <1>3 DEF Outcomes
  <1>7. \A o, q \in kept : o.session = q.session => o = q
    <2>1. ASSUME NEW o \in kept, NEW q \in kept, o.session = q.session PROVE o = q
      <3>1. PICK x \in b.outcomes, z \in b.outcomes : o = Kept(x) /\ q = Kept(z)
        BY <2>1
      <3>2. x.session = z.session
        BY <1>4, <2>1, <3>1
      <3>3. x = z
        BY <1>1, <3>2 DEF BatchSound, OutcomesSound
      <3>4. QED
        BY <3>1, <3>3
    <2>2. QED
      BY <2>1
  <1>8. \A s \in passed : \E o \in kept : o.session = s /\ Settled(jobs, s, o.version)
    <2>1. ASSUME NEW o \in ok PROVE o \in kept /\ Settled(jobs, o.session, o.version)
      <3>1. Verifies(o, TRUE) /\ o \in b.outcomes /\ Kept(o) = o
        BY <1>2, <1>4
      <3>2. QED
        BY <3>1, VerifiedIsSettled
    <2>2. QED
      BY <2>1
  <1>9. BatchGo(p, [b EXCEPT !.at = "ledger", !.passed = passed, !.outcomes = kept])
    BY <1>2 DEF Kept
  <1> HIDE DEF passed, kept
  <1> DEFINE n == [b EXCEPT !.at = "ledger", !.passed = passed, !.outcomes = kept]
  <1>10. n \in Batches
    BY <1>1, <1>5, <1>6 DEF Batches, BatchSteps
  <1>11. n.at = "ledger" /\ n.outcomes = kept /\ n.selected = {} /\ n.passed = passed /\ n.sessions = b.sessions
    BY <1>1 DEF Batches
  <1> HIDE DEF n
  <1>12. BatchSound(n, jobs, synced)
    <2>1. \A o \in kept : o.session \notin Foreign
      BY <1>1, <1>4 DEF BatchSound, OutcomesSound, kept
    <2>2. QED
      BY <1>1, <1>7, <1>8, <1>11, <2>1 DEF BatchSound, OutcomesSound
  <1>13. QED
    BY <1>1, <1>9, <1>10, <1>12, BatchGoes DEF n

\* The day's ledger is written before the index; a receipt ends the batch.
LEMMA WriteLedgerKeeps ==
  ASSUME ArchiveInv, NEW p \in Invoker, WriteLedger(p)
  PROVE  ArchiveInv'
  <1>1. WorldMoves /\ UNCHANGED <<index, runReceipts, jobs, synced>> /\ ledgerDay' \subseteq Archive
        /\ batch[p] \in Batches /\ BatchSound(batch[p], jobs, synced)
        /\ BatchGo(p, [batch[p] EXCEPT !.at = "index"])
    BY StoresRest DEF WriteLedger, World, Batches
  <1>2. "index" \in BatchSteps \ {"inventory", "job"}
    BY DEF BatchSteps
  <1> DEFINE n == [batch[p] EXCEPT !.at = "index"]
  <1>3. n \in Batches /\ BatchSound(n, jobs, synced)
    BY <1>1, <1>2, Onward
  <1> HIDE DEF n
  <1>4. QED
    BY <1>1, <1>3, BatchTurns DEF n, ArchiveInv, ArchiveTypes

\* What is written to the index is what has passed, or what the index had.
LEMMA WriteIndexKeeps ==
  ASSUME ArchiveInv, NEW p \in Invoker, WriteIndex(p)
  PROVE  ArchiveInv'
  <1> DEFINE b == batch[p]
  <1>1. WorldMoves /\ UNCHANGED <<runReceipts, jobs, synced>> /\ runReceipts \subseteq Outcomes
        /\ ledgerDay' \subseteq Archive
        /\ b \in Batches /\ BatchSound(b, jobs, synced) /\ BatchGo(p, [b EXCEPT !.at = "receipt"])
        /\ index' = TerminalSessions(b)
    BY StoresRest DEF WriteIndex, World, ArchiveInv, ArchiveTypes
  <1>2. ASSUME NEW s \in Archive
        PROVE  index'[s] \in Entry /\ EntrySound(jobs, s, index'[s])
    <2>1. CASE s \in b.passed
      <3>1. PICK q \in b.outcomes : q.session = s /\ Settled(jobs, s, q.version)
        BY <1>1, <2>1 DEF BatchSound, OutcomesSound
      <3>2. PICK o \in b.outcomes : o.session = s /\ VersionOf(s, b.outcomes) = o.version
        BY <3>1, VersionIsOnes
      <3>3. o = q /\ o \in Outcomes
        BY <1>1, <3>1, <3>2 DEF BatchSound, OutcomesSound, Batches
      <3>4. index'[s] = [is |-> "verified", version |-> o.version]
        BY <1>1, <2>1, <3>2 DEF TerminalSessions
      <3>5. QED
        BY <3>1, <3>3, <3>4 DEF Entry, EntrySound, Outcomes
    <2>2. CASE s \notin b.passed
      <3>1. index'[s] = b.sessions[s]
        BY <1>1, <2>2 DEF TerminalSessions
      <3>2. QED
        BY <1>1, <3>1 DEF BatchSound, Batches
    <2>3. QED
      BY <2>1, <2>2
  <1>3. index' \in [Archive -> Entry]
    BY <1>1, <1>2 DEF TerminalSessions
  <1>4. "receipt" \in BatchSteps \ {"inventory", "job"}
    BY DEF BatchSteps
  <1> DEFINE n == [b EXCEPT !.at = "receipt"]
  <1>5. n \in Batches /\ BatchSound(n, jobs, synced)
    BY <1>1, <1>4, Onward
  <1> HIDE DEF n
  <1>6. QED
    BY <1>1, <1>2, <1>3, <1>5, BatchTurns DEF n

\* The last receipt of a batch is written, or its process dies.
LEMMA BatchEnds ==
  ASSUME ArchiveInv, NEW p \in Invoker, WriteReceipt(p) \/ BatchDies(p)
  PROVE  ArchiveInv'
  <1>1. WorldMoves /\ UNCHANGED <<index, jobs, synced>> /\ index \in [Archive -> Entry] /\ BatchGo(p, NoBatch)
    BY StoresRest DEF WriteReceipt, BatchDies, World, Stores, ArchiveInv, ArchiveTypes
  <1>2. runReceipts' \subseteq Outcomes /\ ledgerDay' \subseteq Archive
    BY StoresRest DEF WriteReceipt, BatchDies, Stores, ArchiveInv, ArchiveTypes, Batches
  <1>3. QED
    BY <1>1, <1>2, NoBatchIsSound, BatchTurns DEF ArchiveInv

\* Agents complete jobs and do not undo what is done; archives change.
LEMMA AgentWorksKeeps ==
  ASSUME ArchiveInv, NEW s \in Archive, NEW k \in Version, AgentWorks(s, k)
  PROVE  ArchiveInv'
  <1>1. UNCHANGED <<index, runReceipts, ledgerDay, batch, archives, synced>>
    BY DEF AgentWorks, Stores
  <1>2. PICK st \in {"leased", "completed", "retryable", "queued"} :
           jobs[s][k] \in {"queued", "leased", "retryable"} /\ jobs' = [jobs EXCEPT ![s][k] = st]
    BY DEF AgentWorks
  <1>3. st \in Status /\ jobs[s][k] \notin Done
    BY <1>2 DEF Status, Done
  <1>4. WorldMoves
    BY <1>1, <1>2, <1>3, JobMovesOn
  <1>5. QED
    BY <1>1, <1>4, WorldStep
\* The archived transcript changes on disk, or goes.
LEMMA ArchiveChangesKeeps ==
  ASSUME ArchiveInv, NEW s \in Archive, ArchiveChanges(s)
  PROVE  ArchiveInv'
  <1>1. UNCHANGED <<index, runReceipts, ledgerDay, batch, jobs, synced>>
    BY DEF ArchiveChanges, Stores
  <1>2. archives' \in [Archive -> Version \cup {"gone"}]
    BY DEF ArchiveChanges, ArchiveInv, ArchiveTypes, WorldTypes
  <1>3. WorldMoves
    BY <1>1, <1>2 DEF WorldMoves, WorldTypes, ArchiveInv, ArchiveTypes
  <1>4. QED
    BY <1>1, <1>3, WorldStep
-----------------------------------------------------------------------------
\* At first what the index has verified is done.
LEMMA ArchiveInitHolds == ArchiveInit => ArchiveInv
  <1> SUFFICES ASSUME ArchiveInit PROVE ArchiveInv
    OBVIOUS
  <1>1. index \in [Archive -> Entry]
        /\ \A s \in Archive : index[s].is \in {"verified", "quarantined"} => index[s].version \in Version
    BY DEF ArchiveInit, Entries, NoEntry, Entry
  <1>2. runReceipts \subseteq Outcomes /\ ledgerDay \subseteq Archive
    BY DEF ArchiveInit, Outcomes
  <1>3. WorldTypes
    <2>1. jobs \in [Archive -> [Version -> Status]]
      BY DEF ArchiveInit, Status, Done
    <2>2. synced \in [Archive -> Version \cup {"none"}]
      BY DEF ArchiveInit, Entries, NoEntry
    <2>3. QED
      BY <2>1, <2>2 DEF ArchiveInit, WorldTypes
  <1>4. \A s \in Archive : EntrySound(jobs, s, index[s])
    BY <1>1 DEF ArchiveInit, EntrySound, Settled, Done
  <1>5. batch \in [Invoker -> Batches] /\ \A p \in Invoker : BatchSound(batch[p], jobs, synced)
    <2>1. batch = [p \in Invoker |-> NoBatch]
      BY DEF ArchiveInit
    <2>2. QED
      BY <2>1, NoBatchIsSound
  <1>6. QED
    BY <1>1, <1>2, <1>3, <1>4, <1>5 DEF ArchiveInv, ArchiveTypes

\* Every step of batches and world.
LEMMA ArchiveNextKeeps == ArchiveInv /\ [ArchiveNext]_archiveVars => ArchiveInv'
  <1> SUFFICES ASSUME ArchiveInv, [ArchiveNext]_archiveVars PROVE ArchiveInv'
    OBVIOUS
  <1>1. CASE UNCHANGED archiveVars
    BY <1>1, StoresRest, WorldStep DEF archiveVars, World
  <1>2. CASE ArchiveNext
    BY <1>2, OpenRunKeeps, InventoryKeeps, TakeLockKeeps, RepairKeeps, TakeRowKeeps,
       SyncKeeps, ReplayDoneKeeps,
       DistillKeeps, VerifyRunKeeps, WriteLedgerKeeps, WriteIndexKeeps, BatchEnds, AgentWorksKeeps,
       ArchiveChangesKeeps DEF ArchiveNext
  <1>3. QED
    BY <1>1, <1>2

(* What the index, and every batch's copy of it, calls verified is settled, and *)
(* what is done stays done (run_archive_distill_batch).                         *)
THEOREM ArchiveInvariant == ArchiveSpec => []ArchiveInv
  <1>1. ArchiveInit => ArchiveInv
    BY ArchiveInitHolds
  <1>2. ArchiveInv /\ [ArchiveNext]_archiveVars => ArchiveInv'
    BY ArchiveNextKeeps
  <1>3. QED
    BY <1>1, <1>2, PTL DEF ArchiveSpec

(* A verified entry is about a completed job or an archive without              *)
(* conversation, for any number of batches that die, repair and overwrite one   *)
(* another's index (_verify_archive_distill_run).                               *)
THEOREM VerifiedStaysDone == ArchiveSpec => []VerifiedIsDone
  <1>1. ArchiveInv => VerifiedIsDone
    BY DEF ArchiveInv, EntrySound, Settled, VerifiedIsDone
  <1>2. QED
    BY <1>1, ArchiveInvariant, PTL
-----------------------------------------------------------------------------
(* One command line at a time forgets nothing.                                  *)
Remembers(b, x) ==
    b.at \notin {"idle", "receipt"} =>
        \A s \in Archive : x[s].is = "verified" =>
            b.sessions[s].is = "verified" /\ (s \in Foreign => b.sessions[s] = x[s])
Alone == \A p, q \in Invoker : p = q
AllRemember == ArchiveInv /\ \A p \in Invoker : Remembers(batch[p], index)
RowsKept(x, y) == \A s \in Archive : x[s].is = "verified" => y[s].is = "verified" /\ (s \in Foreign => y[s] = x[s])

\* A batch that goes on with the sessions it has read remembers them.
LEMMA RemembersOn ==
  ASSUME AllRemember, Alone, UNCHANGED index, NEW p \in Invoker, NEW n, BatchGo(p, n),
         n.at \notin {"idle", "receipt"} =>
            n.sessions = batch[p].sessions /\ batch[p].at \notin {"idle", "receipt"}
  PROVE  \A q \in Invoker : Remembers(batch'[q], index')
  <1>1. batch'[p] = n
    BY DEF BatchGo, AllRemember, ArchiveInv, ArchiveTypes
  <1>2. Remembers(n, index)
    BY DEF AllRemember, Remembers
  <1>3. QED
    BY <1>1, <1>2 DEF Alone

\* An outcome taken leaves the sessions alone.
LEMMA TookSessions ==
  ASSUME NEW b \in Batches, NEW s, NEW k, NEW status, NEW empty, NEW n,
         n = Took(b, s, k, status, empty) \/ n = [Took(b, s, k, status, empty) EXCEPT !.selected = {}]
  PROVE  n.sessions = b.sessions
  BY DEF Took, Batches

\* Repairing leaves what is verified as it is.
LEMMA RepairableIsUnverified ==
  ASSUME NEW b, NEW o, Repairable(b, o)
  PROVE  b.sessions[o.session].is # "verified"
  BY DEF Repairable, NoEntry
\* The repair from receipts adds entries and replaces none that is verified.
LEMMA RepairRemembers ==
  ASSUME AllRemember, Alone, NEW p \in Invoker, Repair(p)
  PROVE  \A q \in Invoker : Remembers(batch'[q], index')
  <1> DEFINE b == batch[p]
             fromReceipts == {o \in runReceipts : Repairable(b, o) /\ Verifies(o, TRUE)}
             Mended(admitted) == [s \in Archive |->
                           IF \E o \in admitted : o.session = s
                           THEN [is |-> "verified", version |-> VersionOf(s, admitted)]
                           ELSE b.sessions[s]]
             Again(mended) == {s \in Archive : /\ SetAside([b EXCEPT !.sessions = mended], s)
                                               /\ jobs[s][mended[s].version] \in Done
                                               /\ SourceHolds(s, mended[s].version, FALSE)}
  <1>1. UNCHANGED index /\ b \in Batches /\ b.at = "repair" /\ Remembers(b, index)
    BY StoresRest DEF Repair, Stores, AllRemember
  <1>2. PICK admitted \in SUBSET fromReceipts : \E again \in SUBSET Again(Mended(admitted)) :
                 BatchGo(p, [b EXCEPT !.at = "conflicts",
                           !.sessions = [s \in Archive |->
                               IF s \in again THEN [Mended(admitted)[s] EXCEPT !.is = "verified"]
                               ELSE Mended(admitted)[s]]])
    BY Zenon DEF Repair
  <1> DEFINE mended == Mended(admitted)
  <1>1a. \A o \in admitted : Repairable(b, o)
    <2>1. admitted \in SUBSET fromReceipts
      BY <1>2
    <2> HIDE DEF mended, Again
    <2>2. QED
      BY <2>1
  <1>3. PICK again \in SUBSET Again(mended) :
                 BatchGo(p, [b EXCEPT !.at = "conflicts",
                           !.sessions = [s \in Archive |->
                               IF s \in again THEN [mended[s] EXCEPT !.is = "verified"] ELSE mended[s]]])
    BY <1>2, Zenon
  <1>4. ASSUME NEW s \in Archive, b.sessions[s].is = "verified"
        PROVE  mended[s] = b.sessions[s]
    <2>1. \A o \in admitted : Repairable(b, o)
      BY <1>1a
    <2>2. \A o \in admitted : o.session # s
      BY <1>4, <2>1, RepairableIsUnverified
    <2>3. QED
      BY <2>2
  <1>5. ASSUME NEW s \in again PROVE mended[s].is # "verified"
    <2>1. SetAside([b EXCEPT !.sessions = mended], s)
      BY <1>3
    <2> HIDE DEF mended
    <2>2. [b EXCEPT !.sessions = mended].sessions = mended
      BY <1>1 DEF Batches
    <2>3. QED
      BY <2>1, <2>2, SMTT(40) DEF SetAside
  <1> HIDE DEF mended, Again
  <1> DEFINE done == [s \in Archive |-> IF s \in again THEN [mended[s] EXCEPT !.is = "verified"] ELSE mended[s]]
             n == [b EXCEPT !.at = "conflicts", !.sessions = done]
  <1>6. \A s \in Archive : b.sessions[s].is = "verified" => done[s] = b.sessions[s]
    BY <1>4, <1>5
  <1>7. BatchGo(p, n)
    BY <1>3
  <1> HIDE DEF done
  <1>8. n.at = "conflicts" /\ n.sessions = done
    BY <1>1 DEF Batches
  <1> HIDE DEF n
  <1>9. Remembers(n, index)
    BY <1>1, <1>6, <1>8 DEF Remembers
  <1>10. batch'[p] = n
    BY <1>7 DEF BatchGo, AllRemember, ArchiveInv, ArchiveTypes
  <1>11. QED
    BY <1>1, <1>9, <1>10 DEF Alone

\* The index as it is written keeps what was verified.
LEMMA WriteIndexRemembers ==
  ASSUME AllRemember, Alone, NEW p \in Invoker, WriteIndex(p)
  PROVE  RowsKept(index, index') /\ \A q \in Invoker : Remembers(batch'[q], index')
  <1> DEFINE b == batch[p]
  <1>1. b \in Batches /\ BatchSound(b, jobs, synced) /\ b.at = "index" /\ Remembers(b, index)
        /\ index' = TerminalSessions(b) /\ batch'[p] = [b EXCEPT !.at = "receipt"]
    BY StoresRest DEF WriteIndex, BatchGo, AllRemember, ArchiveInv, ArchiveTypes
  <1>2. ASSUME NEW s \in Archive, index[s].is = "verified"
        PROVE  index'[s].is = "verified" /\ (s \in Foreign => index'[s] = index[s])
    <2>1. b.sessions[s].is = "verified" /\ (s \in Foreign => b.sessions[s] = index[s])
      BY <1>1, <1>2 DEF Remembers
    <2>2. CASE s \in b.passed
      <3>1. s \notin Foreign
        BY <1>1, <2>2 DEF BatchSound, OutcomesSound
      <3>2. index'[s] = [is |-> "verified", version |-> VersionOf(s, b.outcomes)]
        BY <1>1, <2>2 DEF TerminalSessions
      <3>3. QED
        BY <3>1, <3>2
    <2>3. CASE s \notin b.passed
      <3>1. index'[s] = b.sessions[s]
        BY <1>1, <2>3 DEF TerminalSessions
      <3>2. QED
        BY <2>1, <3>1
    <2>4. QED
      BY <2>2, <2>3
  <1>3. batch'[p].at = "receipt"
    BY <1>1 DEF Batches
  <1>4. QED
    BY <1>2, <1>3 DEF RowsKept, Remembers, Alone

\* The other steps leave the index alone.
LEMMA OthersRemember ==
  ASSUME AllRemember, Alone, NEW p \in Invoker,
         \/ OpenRun(p) \/ Inventory(p) \/ TakeLock(p) \/ Conflicts(p)
         \/ \E s \in Archive \ Foreign : TakeRow(p, s) \/ Sync(p, s)
         \/ Replay(p) \/ Distill(p) \/ VerifyRun(p) \/ WriteLedger(p) \/ WriteReceipt(p) \/ BatchDies(p)
  PROVE  UNCHANGED index /\ \A q \in Invoker : Remembers(batch'[q], index')
  <1> DEFINE b == batch[p]
  <1>1. UNCHANGED index /\ b \in Batches
    BY StoresRest, Zenon DEF AllRemember, OpenRun, Inventory, TakeLock, Conflicts, TakeRow, Sync,
       Replay, Distill, VerifyRun,
       WriteLedger, WriteReceipt, BatchDies, Stores
  <1>2. CASE OpenRun(p)
    <2>1. batch'[p] = [NoBatch EXCEPT !.at = "inventory", !.ledger = ledgerDay, !.sessions = index]
      BY <1>2 DEF OpenRun, BatchGo, AllRemember, ArchiveInv, ArchiveTypes
    <2>2. batch'[p].sessions = index
      BY <2>1 DEF NoBatch
    <2>3. QED
      BY <1>1, <2>2 DEF Remembers, Alone
  <1>3. CASE BatchGo(p, NoBatch)
    <2>1. NoBatch.at = "idle"
      BY DEF NoBatch
    <2>2. QED
      BY <1>1, <1>3, <2>1, RemembersOn
  <1>4. CASE b.at \notin {"idle", "receipt"} /\ \E n : BatchGo(p, n) /\ n.sessions = b.sessions
    BY <1>1, <1>4, RemembersOn
  <1>5. CASE Inventory(p) \/ TakeLock(p) \/ Conflicts(p) \/ VerifyRun(p) \/ WriteLedger(p)
    <2>1. b.at \notin {"idle", "receipt"}
      BY <1>5, Zenon DEF Inventory, TakeLock, Conflicts, VerifyRun, WriteLedger
    <2>2. BatchGo(p, NoBatch) \/ \E n : BatchGo(p, n) /\ n.sessions = b.sessions
      <3>1. CASE Inventory(p)
        <4>1. PICK S : BatchGo(p, [b EXCEPT !.at = "lock", !.seen = archives, !.selected = S])
          BY <3>1 DEF Inventory
        <4>2. [b EXCEPT !.at = "lock", !.seen = archives, !.selected = S].sessions = b.sessions
          BY <1>1 DEF Batches
        <4>3. QED
          BY <4>1, <4>2, Zenon
      <3>2. CASE VerifyRun(p)
        <4>1. PICK passed, outcomes : BatchGo(p, [b EXCEPT !.at = "ledger", !.passed = passed, !.outcomes = outcomes])
          BY <3>2 DEF VerifyRun
        <4>2. [b EXCEPT !.at = "ledger", !.passed = passed, !.outcomes = outcomes].sessions = b.sessions
          BY <1>1 DEF Batches
        <4>3. QED
          BY <4>1, <4>2, ZenonT(60)
      <3>3. CASE TakeLock(p) \/ Conflicts(p) \/ WriteLedger(p)
        <4>1. BatchGo(p, NoBatch) \/ \E next \in {"repair", "rows", "index"} : BatchGo(p, [b EXCEPT !.at = next])
          BY <3>3 DEF TakeLock, Conflicts, WriteLedger
        <4>2. \A next : [b EXCEPT !.at = next].sessions = b.sessions
          BY <1>1 DEF Batches
        <4>3. QED
          BY <4>1, <4>2, Zenon
      <3>4. QED
        BY <1>5, <3>1, <3>2, <3>3
    <2>3. QED
      BY ONLY <1>3, <1>4, <2>1, <2>2, ZenonT(60)
  <1>6. CASE Replay(p) \/ Distill(p) \/ \E s \in Archive \ Foreign : TakeRow(p, s) \/ Sync(p, s)
    <2>1. b.at \in {"job", "rows"}
      BY <1>6, Zenon DEF Replay, Distill, TakeRow, Sync
    <2>2. \E n : BatchGo(p, n) /\ n.sessions = b.sessions
      <3>1. CASE Replay(p)
        <4>1. PICK s, k, status : BatchGo(p, Took(b, s, k, status, "no"))
          BY <3>1, Zenon DEF Replay
        <4> QED
          BY <1>1, <4>1, TookSessions
      <3>2. CASE Distill(p)
        <4>1. PICK s, k, status : \/ BatchGo(p, Took(b, s, k, status, "no"))
                                  \/ BatchGo(p, [Took(b, s, k, status, "no") EXCEPT !.selected = {}])
          BY <3>2, Zenon DEF Distill
        <4> QED
          BY <1>1, <4>1, TookSessions
      <3>3. CASE \E s \in Archive \ Foreign : TakeRow(p, s)
        <4>1. PICK s, k, status, empty : BatchGo(p, Took(b, s, k, status, empty))
          BY <3>3, ZenonT(60) DEF TakeRow
        <4> QED
          BY <1>1, <4>1, TookSessions
      <3>4. CASE \E s \in Archive \ Foreign : Sync(p, s)
        <4>1. PICK s \in Archive \ Foreign : Sync(p, s)
          BY <3>4
        <4>2. CASE BatchGo(p, Took(b, s, archives[s], "deferred", "no"))
          BY <1>1, <4>2, TookSessions
        <4>3. CASE BatchGo(p, [b EXCEPT !.at = "job", !.row = s, !.found = jobs'[s][archives[s]]])
          <5>1. \A x : [b EXCEPT !.at = "job", !.row = s, !.found = x].sessions = b.sessions
            BY <1>1 DEF Batches
          <5>2. QED
            BY <4>3, <5>1, Zenon
        <4>4. QED
          BY <4>1, <4>2, <4>3, Zenon DEF Sync
      <3>5. QED
        BY <1>6, <3>1, <3>2, <3>3, <3>4
    <2>3. QED
      <3>1. b.at \notin {"idle", "receipt"}
        BY <2>1
      <3> QED
        BY ONLY <1>4, <2>2, <3>1, Zenon
  <1>7. CASE WriteReceipt(p) \/ BatchDies(p)
    BY <1>3, <1>7 DEF WriteReceipt, BatchDies
  <1>8. QED
    BY <1>2, <1>5, <1>6, <1>7, Zenon

\* With one command line, its batch has every verified row at every write.
LEMMA AllRememberStep ==
  ASSUME AllRemember, Alone, [ArchiveNext]_archiveVars
  PROVE  AllRemember' /\ RowsKept(index, index')
  <1>1. ArchiveInv'
    BY ArchiveNextKeeps DEF AllRemember
  <1>2. CASE UNCHANGED <<index, batch>>
    BY <1>1, <1>2 DEF AllRemember, RowsKept
  <1>3. ASSUME NEW p \in Invoker,
               \/ OpenRun(p) \/ Inventory(p) \/ TakeLock(p) \/ Conflicts(p)
               \/ \E s \in Archive \ Foreign : TakeRow(p, s) \/ Sync(p, s)
               \/ Replay(p) \/ Distill(p) \/ VerifyRun(p) \/ WriteLedger(p) \/ WriteReceipt(p) \/ BatchDies(p)
        PROVE  AllRemember' /\ RowsKept(index, index')
    BY <1>1, <1>3, OthersRemember DEF AllRemember, RowsKept
  <1>4. ASSUME NEW p \in Invoker, Repair(p) PROVE AllRemember' /\ RowsKept(index, index')
    <2>1. UNCHANGED index
      BY <1>4 DEF Repair, Stores
    <2>2. QED
      BY <1>1, <1>4, <2>1, RepairRemembers, SMTT(40) DEF AllRemember, RowsKept
  <1>5. ASSUME NEW p \in Invoker, WriteIndex(p)
        PROVE  AllRemember' /\ RowsKept(index, index')
    BY <1>1, <1>5, WriteIndexRemembers DEF AllRemember
  <1>6. CASE \E s \in Archive \ Foreign : ArchiveChanges(s) \/ \E k \in Version : AgentWorks(s, k)
    <2>1. UNCHANGED <<index, batch>>
      BY <1>6 DEF ArchiveChanges, AgentWorks, Stores
    <2>2. QED
      BY <1>2, <2>1
  <1>7. CASE UNCHANGED archiveVars
    BY <1>2, <1>7 DEF archiveVars
  <1>8. QED
    BY <1>3, <1>4, <1>5, <1>6, <1>7 DEF ArchiveNext

(* With one command line, no write of the index loses a verified entry, or      *)
(* touches another project's; two can, as the run archive_index shows           *)
(* (run_archive_distill_batch).                                                 *)
THEOREM RecordsRemainAlone ==
  ASSUME Alone
  PROVE  ArchiveSpec => RecordsRemain
  <1>1. ArchiveInit => AllRemember
    <2> SUFFICES ASSUME ArchiveInit PROVE AllRemember
      OBVIOUS
    <2>1. ArchiveInv
      BY ArchiveInitHolds
    <2>2. \A p \in Invoker : batch[p].at = "idle"
      BY DEF ArchiveInit, NoBatch
    <2>3. QED
      BY <2>1, <2>2 DEF AllRemember, Remembers
  <1>2. AllRemember /\ [ArchiveNext]_archiveVars => AllRemember'
    BY AllRememberStep
  <1>3. AllRemember /\ [ArchiveNext]_archiveVars
        => [\A s \in Archive : index[s].is = "verified" =>
              index'[s].is = "verified" /\ (s \in Foreign => index'[s] = index[s])]_archiveVars
    BY AllRememberStep DEF RowsKept
  <1>4. QED
    BY <1>1, <1>2, <1>3, PTL DEF ArchiveSpec, RecordsRemain
-----------------------------------------------------------------------------
(* A receipt, with the fields that a waiter or a later write tells apart.       *)
Receipt ==
    [state : {"none", "running", "succeeded", "deferred", "busy", "failed", "partial"},
     trigger : Sessions \cup {"none"}, gen : HookRequest \cup {"none"},
     maintenance : {"none", "running", "failed", "paused", "completed", "skipped"},
     error : {"none", "some"}]

\* Where a runner of an archive may be, and where only a request's may.
ArchiveAt == {"idle", "stage", "batch", "repair", "select", "review", "reviewing", "final",
              "close", "over"}
RequestAt == {"accepted", "tick", "guard", "dream", "slice", "resume", "outcome", "closing",
              "report"}
Kinds == {"failed", "backoff", "running", "note", "beat", "success", "deferral", "final",
          "closed", "unclosed", "outcome"}

TurnRecord ==
    [at : ArchiveAt \cup RequestAt \cup {"write"}, kind : Kinds \cup {"none"},
     next : ArchiveAt \cup RequestAt \cup {"none"}, held : Receipt, tries : 0 .. MaxAttempts,
     staged : {"no", "yes", "failed", "backoff"}, seen : Nat,
     did : {"none", "completed", "deferred", "busy"},
     dream : {"none", "completed", "continuing", "failed", "skipped"},
     slices : 0 .. MaxSlices, closes : Receipt]

TurnTypes ==
    /\ receiptFile \in Receipt
    /\ turn \in [Runner -> TurnRecord]
    /\ work \in [Sessions -> {"queued", "completed", "manual"}]
    /\ created \in Nat
    /\ wait \in [HookRequest -> {"waiting", "succeeded", "failed", "timeout"}]
    /\ crossed \subseteq HookRequest

\* Dream has come to its end for this request, which writes nothing more but that.
DreamOver(t) ==
    /\ t.dream # "none"
    /\ \/ t.at \in {"outcome", "closing", "report", "over"}
       \/ t.at = "write" /\ t.next \in {"report", "over"}

\* What a runner is to do fits what it has done.
Going(t, at, isHook) ==
    /\ at \in RequestAt => isHook
    /\ at \in {"outcome", "closing", "report"} => t.dream # "none"
    /\ at = "report" => t.staged \in {"failed", "backoff"}
RunnerOK(r, t, w) ==
    /\ t.did = "completed" => w[Of[r]] = "completed"
    /\ t.at # "write" => Going(t, t.at, r \in HookRequest)
    /\ t.at = "closing" => t.closes.trigger = Of[r] /\ t.closes.gen = Generation(r)
    /\ t.at = "slice" => t.dream = "continuing" /\ t.slices < MaxSlices
    /\ t.at = "write" =>
          /\ Going(t, t.next, r \in HookRequest)
          /\ t.next \notin {"closing", "slice", "none"} /\ t.kind \in Kinds
          /\ t.kind \in {"backoff", "outcome"} => r \in HookRequest
          /\ t.kind = "success" => t.did = "completed"
          /\ t.kind = "outcome" => t.closes.trigger = Of[r] /\ t.closes.gen = Generation(r)
          /\ t.kind \in {"failed", "backoff", "outcome"} /\ r \in HookRequest =>
                t.dream # "none" /\ t.next \in {"outcome", "report", "over"}
          /\ t.kind \notin {"failed", "backoff", "outcome"} /\ r \in HookRequest =>
                t.next \notin {"report", "over"}

\* A receipt, read or on disk, that carries the generation of a request says no
\* more of its session and its Dream than is so.
Sound(q, x, t, w) ==
    x.gen = q =>
        /\ x.state = "succeeded" /\ x.trigger = Of[q] => w[Of[q]] = "completed"
        /\ x.maintenance # "running" => DreamOver(t)
        /\ x.maintenance # "running" /\ x.state = "succeeded" /\ x.trigger = Of[q] =>
              t.dream \in {"completed", "skipped"}
Answered(q) ==
    wait[q] = "succeeded" /\ q \notin crossed =>
        /\ work[Of[q]] = "completed" /\ DreamOver(turn[q])
        /\ turn[q].dream \in {"completed", "skipped"}

ReceiptsSound ==
    \A q \in HookRequest \ crossed :
        /\ Sound(q, receiptFile, turn[q], work)
        /\ \A r \in Runner : /\ Sound(q, turn[r].held, turn[q], work)
                             /\ Sound(q, turn[r].closes, turn[q], work)

TurnInv ==
    /\ TurnTypes
    /\ \A r \in Runner : RunnerOK(r, turn[r], work)
    /\ ReceiptsSound
    /\ \A q \in HookRequest : Answered(q)
-----------------------------------------------------------------------------
\* One runner goes on: what is asked of the record that it becomes.
Moved(r, t) ==
    /\ t \in TurnRecord /\ turn' = [turn EXCEPT ![r] = t]
    /\ receiptFile' = receiptFile /\ wait' = wait /\ crossed' = crossed /\ created' \in Nat
    /\ work' \in [Sessions -> {"queued", "completed", "manual"}]
    /\ \A s \in Sessions : work[s] = "completed" => work'[s] = "completed"
    /\ RunnerOK(r, t, work')
    /\ t.held \in {turn[r].held, receiptFile, NoReceipt}
    /\ t.closes \in {turn[r].closes, receiptFile}
    /\ DreamOver(turn[r]) => DreamOver(t) /\ t.dream = turn[r].dream

LEMMA RunnerNames ==
  /\ \A r \in Runner : Of[r] \in Sessions /\ r # "none"
  /\ \A q \in HookRequest : q \in Runner /\ q \notin Archiver /\ q # "none"
  /\ \A b \in Archiver : b \in Runner /\ b \notin HookRequest
  BY PostTurnAssumption DEF Runner, Sessions

LEMMA NoReceiptIs ==
  /\ NoReceipt \in Receipt /\ NoReceipt.state = "none" /\ NoReceipt.gen = "none"
  /\ NoReceipt.trigger = "none"
  BY DEF NoReceipt, Receipt

LEMMA SoundStays ==
  ASSUME NEW q \in HookRequest, NEW x, NEW t, NEW w, NEW u, NEW v, Sound(q, x, t, w),
         w[Of[q]] = "completed" => v[Of[q]] = "completed",
         DreamOver(t) => DreamOver(u) /\ u.dream = t.dream
  PROVE  Sound(q, x, u, v)
  BY DEF Sound

LEMMA NothingIsSound ==
  ASSUME NEW q \in HookRequest, NEW t, NEW w
  PROVE  Sound(q, NoReceipt, t, w)
  BY NoReceiptIs, RunnerNames DEF Sound

\* A runner that does not move is as well off when more jobs are complete.
LEMMA OthersStay ==
  ASSUME NEW r \in Runner, NEW t, NEW w, NEW v, RunnerOK(r, t, w),
         w[Of[r]] = "completed" => v[Of[r]] = "completed"
  PROVE  RunnerOK(r, t, v)
  BY DEF RunnerOK

LEMMA MovedKeeps ==
  ASSUME TurnInv, NEW r \in Runner, NEW t, Moved(r, t)
  PROVE  TurnInv'
<1>1. TurnTypes'
  BY DEF TurnInv, TurnTypes, Moved
<1>2. /\ turn'[r] = t
      /\ \A o \in Runner : o # r => turn'[o] = turn[o]
      /\ \A o \in Runner : work[Of[o]] = "completed" => work'[Of[o]] = "completed"
      /\ \A o \in Runner : DreamOver(turn[o]) => DreamOver(turn'[o]) /\ turn'[o].dream = turn[o].dream
  <2>1. turn'[r] = t /\ \A o \in Runner : o # r => turn'[o] = turn[o]
    BY DEF TurnInv, TurnTypes, Moved
  <2>2. \A o \in Runner : work[Of[o]] = "completed" => work'[Of[o]] = "completed"
    BY RunnerNames DEF Moved
  <2>3. ASSUME NEW o \in Runner
        PROVE  DreamOver(turn[o]) => DreamOver(turn'[o]) /\ turn'[o].dream = turn[o].dream
    BY <2>1 DEF Moved
  <2> QED
    BY <2>1, <2>2, <2>3
<1>3. ASSUME NEW o \in Runner
      PROVE  RunnerOK(o, turn[o], work)'
  <2>1. CASE o = r
    BY <1>2, <2>1 DEF Moved, RunnerOK, Going
  <2>2. CASE o # r
    <3>1. RunnerOK(o, turn[o], work')
      BY ONLY o \in Runner, <1>2, OthersStay, TurnInv DEF TurnInv
    <3> QED
      BY <1>2, <2>2, <3>1 DEF RunnerOK, Going
  <2> QED
    BY <2>1, <2>2
<1>4. ASSUME NEW q \in HookRequest \ crossed
      PROVE  /\ Sound(q, receiptFile, turn[q], work)'
             /\ \A o \in Runner : /\ Sound(q, turn[o].held, turn[q], work)'
                                  /\ Sound(q, turn[o].closes, turn[q], work)'
  <2>0. q \in Runner /\ q \in HookRequest
    BY RunnerNames
  <2>1. ASSUME NEW x, Sound(q, x, turn[q], work)
        PROVE  Sound(q, x, turn'[q], work')
    BY ONLY <1>2, <2>0, <2>1, SoundStays
  <2>2. Sound(q, receiptFile, turn'[q], work')
    BY <2>1 DEF TurnInv, ReceiptsSound
  <2>3. ASSUME NEW o \in Runner
        PROVE  /\ Sound(q, turn'[o].held, turn'[q], work')
               /\ Sound(q, turn'[o].closes, turn'[q], work')
    <3>1. /\ Sound(q, turn[o].held, turn'[q], work')
          /\ Sound(q, turn[o].closes, turn'[q], work')
          /\ Sound(q, NoReceipt, turn'[q], work')
      BY <2>1, NothingIsSound DEF TurnInv, ReceiptsSound
    <3>2. CASE o # r
      BY <1>2, <3>1, <3>2
    <3>3. CASE o = r
      <4>1. turn'[o].held \in {turn[o].held, receiptFile, NoReceipt}
        BY <1>2, <3>3 DEF Moved
      <4>2. turn'[o].closes \in {turn[o].closes, receiptFile}
        BY <1>2, <3>3 DEF Moved
      <4> QED
        BY ONLY <4>1, <4>2, <2>2, <3>1
    <3> QED
      BY <3>2, <3>3
  <2>4. receiptFile' = receiptFile
    BY DEF Moved
  <2> QED
    BY <2>2, <2>3, <2>4 DEF Sound, DreamOver
<1>5. ASSUME NEW q \in HookRequest
      PROVE  Answered(q)'
  BY <1>2, RunnerNames DEF TurnInv, Answered, Moved
<1> QED
  BY <1>1, <1>3, <1>4, <1>5 DEF TurnInv, ReceiptsSound, Moved
-----------------------------------------------------------------------------
\* Where Dream has come to its end, or a receipt is about to be written.
AtTheEnd == {"outcome", "closing", "report", "over", "write"}
OnlyTurns ==
    /\ receiptFile' = receiptFile /\ work' = work /\ wait' = wait /\ crossed' = crossed
    /\ created' \in Nat

\* What is the same before and after a step that only moves a runner.
Advances(r, t) ==
    /\ t \in TurnRecord /\ Go(r, t) /\ UNCHANGED <<receiptFile, wait, crossed>>
    /\ t.held \in {turn[r].held, receiptFile, NoReceipt}
    /\ t.closes \in {turn[r].closes, receiptFile}
    /\ ~DreamOver(turn[r]) \/ (DreamOver(t) /\ t.dream = turn[r].dream)

LEMMA GoesOn ==
  ASSUME TurnInv, NEW r \in Runner, NEW t, Advances(r, t), RunnerOK(r, t, work),
         work' = work, created' \in Nat
  PROVE  TurnInv'
<1>1. work \in [Sessions -> {"queued", "completed", "manual"}]
  BY DEF TurnInv, TurnTypes
<1>2. Moved(r, t)
  BY <1>1 DEF Advances, Moved, Go
<1> QED
  BY <1>2, MovedKeeps

\* The fields of a record of which only where it is, and one or two more, change.
LEMMA TurnFields ==
  ASSUME NEW t \in TurnRecord
  PROVE  /\ t.at \in ArchiveAt \cup RequestAt \cup {"write"} /\ t.kind \in Kinds \cup {"none"}
         /\ t.next \in ArchiveAt \cup RequestAt \cup {"none"}
         /\ t.held \in Receipt /\ t.tries \in 0 .. MaxAttempts
         /\ t.staged \in {"no", "yes", "failed", "backoff"} /\ t.seen \in Nat
         /\ t.did \in {"none", "completed", "deferred", "busy"}
         /\ t.dream \in {"none", "completed", "continuing", "failed", "skipped"}
         /\ t.slices \in 0 .. MaxSlices /\ t.closes \in Receipt
  BY DEF TurnRecord

LEMMA WritingIs ==
  ASSUME NEW t \in TurnRecord, receiptFile \in Receipt, NEW kind \in Kinds,
         NEW next \in ArchiveAt \cup RequestAt, NEW u, u = Writing(t, kind, next)
  PROVE  /\ u \in TurnRecord /\ u.at = "write" /\ u.kind = kind /\ u.next = next
         /\ u.held = receiptFile /\ u.did = t.did /\ u.dream = t.dream /\ u.staged = t.staged
         /\ u.closes = t.closes
  BY ZenonT(60) DEF Writing, TurnRecord

\* A runner starts to write a receipt.
LEMMA Writes ==
  ASSUME TurnInv, NEW r \in Runner, NEW t \in TurnRecord, NEW kind \in Kinds,
         NEW next \in ArchiveAt \cup RequestAt,
         turn' = [turn EXCEPT ![r] = Writing(t, kind, next)],
         OnlyTurns, t.closes = turn[r].closes,
         ~DreamOver(turn[r]) \/ (t.dream = turn[r].dream /\ next \in {"report", "over"}),
         t.did = "completed" => work[Of[r]] = "completed",
         Going(t, next, r \in HookRequest), next \notin {"closing", "slice"},
         kind \in {"backoff", "outcome"} => r \in HookRequest,
         kind = "success" => t.did = "completed",
         kind = "outcome" => t.closes.trigger = Of[r] /\ t.closes.gen = Generation(r),
         kind \in {"failed", "backoff", "outcome"} /\ r \in HookRequest =>
             t.dream # "none" /\ next \in {"outcome", "report", "over"},
         kind \notin {"failed", "backoff", "outcome"} /\ r \in HookRequest =>
             next \notin {"report", "over"}
  PROVE  TurnInv'
<1>0. PICK u : u = Writing(t, kind, next)
  OBVIOUS
<1>1. receiptFile \in Receipt /\ turn' = [turn EXCEPT ![r] = u]
  BY <1>0 DEF TurnInv, TurnTypes
<1>2. /\ u \in TurnRecord /\ u.at = "write" /\ u.kind = kind /\ u.next = next
      /\ u.held = receiptFile /\ u.did = t.did /\ u.dream = t.dream /\ u.staged = t.staged
      /\ u.closes = t.closes
  BY <1>0, <1>1, WritingIs
<1>4. DreamOver(turn[r]) => turn[r].dream # "none"
  BY DEF DreamOver
<1>5. Advances(r, u)
  BY <1>1, <1>2, <1>4 DEF Advances, DreamOver, Go, OnlyTurns
<1>6. RunnerOK(r, u, work)
  BY <1>2 DEF RunnerOK, Going, RequestAt, ArchiveAt
<1> QED
  BY <1>1, <1>5, <1>6, GoesOn DEF OnlyTurns

\* ... before Dream's end, and for any runner.
LEMMA WritesOn ==
  ASSUME TurnInv, NEW r \in Runner, NEW t \in TurnRecord, NEW kind \in Kinds,
         NEW next \in ArchiveAt \cup RequestAt,
         turn' = [turn EXCEPT ![r] = Writing(t, kind, next)],
         OnlyTurns,
         t.closes = turn[r].closes,
         turn[r].at \notin AtTheEnd,
         t.did = "completed" => work[Of[r]] = "completed",
         Going(t, next, r \in HookRequest), next \notin {"closing", "slice", "report"},
         kind \notin {"backoff", "outcome"}, kind = "success" => t.did = "completed",
         r \in HookRequest => IF kind = "failed" THEN t.dream # "none" /\ next = "outcome"
                              ELSE next # "over"
  PROVE  TurnInv'
<1>1. ~DreamOver(turn[r])
  BY DEF DreamOver, AtTheEnd
<1>2. /\ kind \in {"failed", "backoff", "outcome"} /\ r \in HookRequest =>
             t.dream # "none" /\ next \in {"outcome", "report", "over"}
      /\ kind \notin {"failed", "backoff", "outcome"} /\ r \in HookRequest =>
             next \notin {"report", "over"}
  OBVIOUS
<1> QED
  BY <1>1, <1>2, Writes

\* A runner that is not about to write, and not at Dream's end, goes somewhere.
LEMMA Walks ==
  ASSUME TurnInv, NEW r \in Runner, NEW t \in TurnRecord, turn' = [turn EXCEPT ![r] = t],
         OnlyTurns,
         t.at # "write", t.held = turn[r].held, t.closes = turn[r].closes,
         turn[r].at \notin AtTheEnd,
         t.did = "completed" => work[Of[r]] = "completed",
         Going(t, t.at, r \in HookRequest), t.at # "closing",
         t.at = "slice" => t.dream = "continuing" /\ t.slices < MaxSlices
  PROVE  TurnInv'
<1>1. ~DreamOver(turn[r])
  BY DEF DreamOver, AtTheEnd
<1>2. Advances(r, t)
  BY <1>1 DEF Advances, Go, OnlyTurns
<1>3. RunnerOK(r, t, work)
  BY DEF RunnerOK
<1> QED
  BY <1>2, <1>3, GoesOn DEF OnlyTurns

\* What is known of a runner before its step.
LEMMA Knows ==
  ASSUME TurnInv, NEW r \in Runner
  PROVE  /\ turn[r] \in TurnRecord /\ receiptFile \in Receipt /\ created \in Nat
         /\ work[Of[r]] \in {"queued", "completed", "manual"}
         /\ turn[r].did = "completed" => work[Of[r]] = "completed"
         /\ turn[r].at # "write" => Going(turn[r], turn[r].at, r \in HookRequest)
         /\ turn[r].at = "slice" => turn[r].dream = "continuing" /\ turn[r].slices < MaxSlices
         /\ turn[r].at = "closing" =>
               turn[r].closes.trigger = Of[r] /\ turn[r].closes.gen = Generation(r)
  BY RunnerNames DEF TurnInv, TurnTypes, RunnerOK

\* Taken up, and staged.
LEMMA EntryMoves ==
  ASSUME TurnInv, NEW r \in Runner, Accept(r) \/ StartArchive(r) \/ Staged(r)
  PROVE  TurnInv'
<1>1. CASE Accept(r)
  <2>0. PICK a \in {"over", "accepted", "stage"} :
           a = IF Locked THEN "over" ELSE IF turn[r].at = "idle" THEN "accepted" ELSE "stage"
    OBVIOUS
  <2>1. PICK t : /\ t = [turn[r] EXCEPT !.at = a]
                 /\ turn' = [turn EXCEPT ![r] = t]
    BY <1>1, <2>0 DEF Accept, Go
  <2>2. /\ turn[r] \in TurnRecord /\ created \in Nat
        /\ turn[r].at \notin AtTheEnd
        /\ r \in HookRequest /\ a \in {"over", "accepted", "stage"}
        /\ a \in ArchiveAt \cup RequestAt
    BY <1>1, <2>0, Knows, RunnerNames DEF Accept, Going, RequestAt, ArchiveAt, AtTheEnd
  <2>3. /\ t \in TurnRecord /\ t.at = a /\ t.staged = turn[r].staged
        /\ t.did = turn[r].did /\ t.dream = turn[r].dream
        /\ t.held = turn[r].held /\ t.closes = turn[r].closes
    BY ONLY <2>1, <2>2 DEF TurnRecord
  <2>4. OnlyTurns /\ (t.did = "completed" => work[Of[r]] = "completed")
    BY <1>1, <2>2, <2>3, Knows DEF Accept, Others, OnlyTurns
  <2>5. /\ Going(t, t.at, r \in HookRequest) /\ t.at \notin {"closing", "write"}
        /\ t.at = "slice" => t.dream = "continuing" /\ t.slices < MaxSlices
    BY ONLY <2>2, <2>3 DEF Going, RequestAt
  <2> QED
    BY <2>1, <2>2, <2>3, <2>4, <2>5, Walks
<1>2. CASE StartArchive(r)
  <2>1. PICK t : /\ t = [turn[r] EXCEPT !.at = "stage"]
                 /\ turn' = [turn EXCEPT ![r] = t]
    BY <1>2 DEF StartArchive, Go
  <2>2. /\ turn[r] \in TurnRecord /\ created \in Nat
        /\ turn[r].at \notin AtTheEnd
        /\ r \in Archiver
        /\ "stage" \in ArchiveAt \cup RequestAt
    BY <1>2, Knows, RunnerNames DEF StartArchive, Going, RequestAt, ArchiveAt, AtTheEnd
  <2>3. /\ t \in TurnRecord /\ t.at = "stage" /\ t.staged = turn[r].staged
        /\ t.did = turn[r].did /\ t.dream = turn[r].dream
        /\ t.held = turn[r].held /\ t.closes = turn[r].closes
    BY ONLY <2>1, <2>2 DEF TurnRecord
  <2>4. OnlyTurns /\ (t.did = "completed" => work[Of[r]] = "completed")
    BY <1>2, <2>2, <2>3, Knows DEF StartArchive, Others, OnlyTurns
  <2>5. /\ Going(t, t.at, r \in HookRequest) /\ t.at \notin {"closing", "write"}
        /\ t.at = "slice" => t.dream = "continuing" /\ t.slices < MaxSlices
    BY ONLY <2>2, <2>3 DEF Going, RequestAt
  <2> QED
    BY <2>1, <2>2, <2>3, <2>4, <2>5, Walks
<1>3. CASE Staged(r)
  <2>0. PICK a \in {"tick", "batch"} : a = IF r \in HookRequest THEN "tick" ELSE "batch"
    OBVIOUS
  <2>1. PICK t : /\ t = [turn[r] EXCEPT !.at = a, !.staged = "yes"]
                 /\ turn' = [turn EXCEPT ![r] = t]
    BY <1>3, <2>0 DEF Staged, Go
  <2>2. /\ turn[r] \in TurnRecord /\ created \in Nat
        /\ turn[r].at \notin AtTheEnd
        /\ a \in {"tick", "batch"} /\ (a = "tick" => r \in HookRequest)
        /\ a \in ArchiveAt \cup RequestAt
        /\ "yes" \in {"no", "yes", "failed", "backoff"}
    BY <1>3, <2>0, Knows, RunnerNames DEF Staged, Going, RequestAt, ArchiveAt, AtTheEnd
  <2>3. /\ t \in TurnRecord /\ t.at = a /\ t.staged = "yes"
        /\ t.did = turn[r].did /\ t.dream = turn[r].dream
        /\ t.held = turn[r].held /\ t.closes = turn[r].closes
    BY ONLY <2>1, <2>2, ZenonT(60) DEF TurnRecord
  <2>4. OnlyTurns /\ (t.did = "completed" => work[Of[r]] = "completed")
    BY <1>3, <2>2, <2>3, Knows DEF Staged, Others, OnlyTurns
  <2>5. /\ Going(t, t.at, r \in HookRequest) /\ t.at \notin {"closing", "write"}
        /\ t.at = "slice" => t.dream = "continuing" /\ t.slices < MaxSlices
    BY ONLY <2>2, <2>3 DEF Going, RequestAt
  <2> QED
    BY <2>1, <2>2, <2>3, <2>4, <2>5, Walks
<1> QED
  BY <1>1, <1>2, <1>3

\* Up to the choice of a job.
LEMMA BatchMoves ==
  ASSUME TurnInv, NEW r \in Runner, DreamTick(r) \/ OpenBatch(r) \/ Challenge(r) \/ RepairNotes(r)
  PROVE  TurnInv'
<1>1. CASE DreamTick(r)
  <2>0. \/ Go(r, [turn[r] EXCEPT !.at = "outcome", !.dream = "skipped"])
        \/ Go(r, Writing([turn[r] EXCEPT !.dream = "failed"], "failed", "outcome"))
        \/ Go(r, [turn[r] EXCEPT !.at = "batch"])
    BY <1>1 DEF DreamTick
  <2>1. CASE Go(r, [turn[r] EXCEPT !.at = "outcome", !.dream = "skipped"])
    <3>1. PICK t : /\ t = [turn[r] EXCEPT !.at = "outcome", !.dream = "skipped"]
                   /\ turn' = [turn EXCEPT ![r] = t]
      BY <1>1, <2>1 DEF DreamTick, Go
    <3>2. /\ turn[r] \in TurnRecord /\ created \in Nat
          /\ turn[r].at \notin AtTheEnd
          /\ r \in HookRequest
          /\ "outcome" \in ArchiveAt \cup RequestAt
          /\ "skipped" \in {"none", "completed", "continuing", "failed", "skipped"}
      BY <1>1, <2>1, Knows, RunnerNames DEF DreamTick, Going, RequestAt, ArchiveAt, AtTheEnd
    <3>3. /\ t \in TurnRecord /\ t.at = "outcome" /\ t.staged = turn[r].staged
          /\ t.did = turn[r].did /\ t.dream = "skipped"
          /\ t.held = turn[r].held /\ t.closes = turn[r].closes
      BY ONLY <3>1, <3>2, ZenonT(60) DEF TurnRecord
    <3>4. OnlyTurns /\ (t.did = "completed" => work[Of[r]] = "completed")
      BY <1>1, <2>1, <3>2, <3>3, Knows DEF DreamTick, Others, OnlyTurns
    <3>5. /\ Going(t, t.at, r \in HookRequest) /\ t.at \notin {"closing", "write"}
          /\ t.at = "slice" => t.dream = "continuing" /\ t.slices < MaxSlices
      BY ONLY <3>2, <3>3 DEF Going, RequestAt
    <3> QED
      BY <3>1, <3>2, <3>3, <3>4, <3>5, Walks
  <2>2. CASE Go(r, Writing([turn[r] EXCEPT !.dream = "failed"], "failed", "outcome"))
    <3>1. PICK t : /\ t = [turn[r] EXCEPT !.dream = "failed"]
                   /\ turn' = [turn EXCEPT ![r] = Writing(t, "failed", "outcome")]
      BY <1>1, <2>2 DEF DreamTick, Go
    <3>2. /\ turn[r] \in TurnRecord /\ created \in Nat
          /\ r \in HookRequest
          /\ turn[r].at \notin AtTheEnd
          /\ "failed" \in Kinds /\ "outcome" \in ArchiveAt \cup RequestAt
      BY <1>1, <2>2, Knows, RunnerNames
         DEF DreamTick, Going, RequestAt, ArchiveAt, AtTheEnd, Kinds
    <3>3. /\ t \in TurnRecord /\ t.staged = turn[r].staged
          /\ t.did = turn[r].did /\ t.dream = "failed" /\ t.closes = turn[r].closes
      BY ONLY <3>1, <3>2 DEF TurnRecord
    <3>4. OnlyTurns /\ (t.did = "completed" => work[Of[r]] = "completed")
      BY <1>1, <2>2, <3>2, <3>3, Knows DEF DreamTick, Others, OnlyTurns
    <3>5. Going(t, "outcome", r \in HookRequest)
      BY ONLY <3>2, <3>3 DEF Going, RequestAt
    <3> QED
      BY <3>1, <3>2, <3>3, <3>4, <3>5, WritesOn
  <2>3. CASE Go(r, [turn[r] EXCEPT !.at = "batch"])
    <3>1. PICK t : /\ t = [turn[r] EXCEPT !.at = "batch"]
                   /\ turn' = [turn EXCEPT ![r] = t]
      BY <1>1, <2>3 DEF DreamTick, Go
    <3>2. /\ turn[r] \in TurnRecord /\ created \in Nat
          /\ turn[r].at \notin AtTheEnd
          /\ r \in HookRequest
          /\ "batch" \in ArchiveAt \cup RequestAt
      BY <1>1, <2>3, Knows, RunnerNames DEF DreamTick, Going, RequestAt, ArchiveAt, AtTheEnd
    <3>3. /\ t \in TurnRecord /\ t.at = "batch" /\ t.staged = turn[r].staged
          /\ t.did = turn[r].did /\ t.dream = turn[r].dream
          /\ t.held = turn[r].held /\ t.closes = turn[r].closes
      BY ONLY <3>1, <3>2 DEF TurnRecord
    <3>4. OnlyTurns /\ (t.did = "completed" => work[Of[r]] = "completed")
      BY <1>1, <2>3, <3>2, <3>3, Knows DEF DreamTick, Others, OnlyTurns
    <3>5. /\ Going(t, t.at, r \in HookRequest) /\ t.at \notin {"closing", "write"}
          /\ t.at = "slice" => t.dream = "continuing" /\ t.slices < MaxSlices
      BY ONLY <3>2, <3>3 DEF Going, RequestAt
    <3> QED
      BY <3>1, <3>2, <3>3, <3>4, <3>5, Walks
  <2> QED
    BY <2>0, <2>1, <2>2, <2>3
<1>2. CASE OpenBatch(r)
  <2>0. \/ Go(r, Writing(turn[r], "running", "repair"))
        \/ r \in HookRequest /\ Go(r, [turn[r] EXCEPT !.at = "outcome", !.dream = "failed"])
        \/ r \in HookRequest /\ Go(r, [turn[r] EXCEPT !.at = "guard", !.seen = created])
    BY <1>2, RunnerNames DEF OpenBatch, Runner
  <2>1. CASE Go(r, Writing(turn[r], "running", "repair"))
    <3>1. PICK t : /\ t = turn[r]
                   /\ turn' = [turn EXCEPT ![r] = Writing(t, "running", "repair")]
      BY <1>2, <2>1 DEF OpenBatch, Go
    <3>2. /\ turn[r] \in TurnRecord /\ created \in Nat
          /\ turn[r].at \notin AtTheEnd
          /\ "running" \in Kinds /\ "repair" \in ArchiveAt \cup RequestAt
      BY <1>2, <2>1, Knows, RunnerNames
         DEF OpenBatch, Going, RequestAt, ArchiveAt, AtTheEnd, Kinds
    <3>3. /\ t \in TurnRecord /\ t.staged = turn[r].staged
          /\ t.did = turn[r].did /\ t.dream = turn[r].dream /\ t.closes = turn[r].closes
      BY ONLY <3>1, <3>2 DEF TurnRecord
    <3>4. OnlyTurns /\ (t.did = "completed" => work[Of[r]] = "completed")
      BY <1>2, <2>1, <3>2, <3>3, Knows DEF OpenBatch, Others, OnlyTurns
    <3>5. Going(t, "repair", r \in HookRequest)
      BY ONLY <3>2, <3>3 DEF Going, RequestAt
    <3> QED
      BY <3>1, <3>2, <3>3, <3>4, <3>5, WritesOn, ZenonT(60)
  <2>2. CASE r \in HookRequest /\ Go(r, [turn[r] EXCEPT !.at = "outcome", !.dream = "failed"])
    <3>1. PICK t : /\ t = [turn[r] EXCEPT !.at = "outcome", !.dream = "failed"]
                   /\ turn' = [turn EXCEPT ![r] = t]
      BY <1>2, <2>2 DEF OpenBatch, Go
    <3>2. /\ turn[r] \in TurnRecord /\ created \in Nat
          /\ turn[r].at \notin AtTheEnd
          /\ r \in HookRequest
          /\ "outcome" \in ArchiveAt \cup RequestAt
          /\ "failed" \in {"none", "completed", "continuing", "failed", "skipped"}
      BY <1>2, <2>2, Knows, RunnerNames DEF OpenBatch, Going, RequestAt, ArchiveAt, AtTheEnd
    <3>3. /\ t \in TurnRecord /\ t.at = "outcome" /\ t.staged = turn[r].staged
          /\ t.did = turn[r].did /\ t.dream = "failed"
          /\ t.held = turn[r].held /\ t.closes = turn[r].closes
      BY ONLY <3>1, <3>2, ZenonT(60) DEF TurnRecord
    <3>4. OnlyTurns /\ (t.did = "completed" => work[Of[r]] = "completed")
      BY <1>2, <2>2, <3>2, <3>3, Knows DEF OpenBatch, Others, OnlyTurns
    <3>5. /\ Going(t, t.at, r \in HookRequest) /\ t.at \notin {"closing", "write"}
          /\ t.at = "slice" => t.dream = "continuing" /\ t.slices < MaxSlices
      BY ONLY <3>2, <3>3 DEF Going, RequestAt
    <3> QED
      BY <3>1, <3>2, <3>3, <3>4, <3>5, Walks
  <2>3. CASE r \in HookRequest /\ Go(r, [turn[r] EXCEPT !.at = "guard", !.seen = created])
    <3>1. PICK t : /\ t = [turn[r] EXCEPT !.at = "guard", !.seen = created]
                   /\ turn' = [turn EXCEPT ![r] = t]
      BY <1>2, <2>3 DEF OpenBatch, Go
    <3>2. /\ turn[r] \in TurnRecord /\ created \in Nat
          /\ turn[r].at \notin AtTheEnd
          /\ r \in HookRequest
          /\ "guard" \in ArchiveAt \cup RequestAt
          /\ created \in Nat
      BY <1>2, <2>3, Knows, RunnerNames DEF OpenBatch, Going, RequestAt, ArchiveAt, AtTheEnd
    <3>3. /\ t \in TurnRecord /\ t.at = "guard" /\ t.staged = turn[r].staged
          /\ t.did = turn[r].did /\ t.dream = turn[r].dream
          /\ t.held = turn[r].held /\ t.closes = turn[r].closes
      BY ONLY <3>1, <3>2 DEF TurnRecord
    <3>4. OnlyTurns /\ (t.did = "completed" => work[Of[r]] = "completed")
      BY <1>2, <2>3, <3>2, <3>3, Knows DEF OpenBatch, Others, OnlyTurns
    <3>5. /\ Going(t, t.at, r \in HookRequest) /\ t.at \notin {"closing", "write"}
          /\ t.at = "slice" => t.dream = "continuing" /\ t.slices < MaxSlices
      BY ONLY <3>2, <3>3 DEF Going, RequestAt
    <3> QED
      BY <3>1, <3>2, <3>3, <3>4, <3>5, Walks
  <2> QED
    BY <2>0, <2>1, <2>2, <2>3
<1>3. CASE Challenge(r)
  <2>0. \/ Go(r, Writing([turn[r] EXCEPT !.seen = 0], "running", "repair"))
        \/ Go(r, Writing([[turn[r] EXCEPT !.seen = 0] EXCEPT !.dream = "failed"], "failed",
                         "outcome"))
    BY <1>3 DEF Challenge
  <2>1. CASE Go(r, Writing([turn[r] EXCEPT !.seen = 0], "running", "repair"))
    <3>1. PICK t : /\ t = [turn[r] EXCEPT !.seen = 0]
                   /\ turn' = [turn EXCEPT ![r] = Writing(t, "running", "repair")]
      BY <1>3, <2>1 DEF Challenge, Go
    <3>2. /\ turn[r] \in TurnRecord /\ created \in Nat
          /\ r \in HookRequest
          /\ turn[r].at \notin AtTheEnd
          /\ "running" \in Kinds /\ "repair" \in ArchiveAt \cup RequestAt
      BY <1>3, <2>1, Knows, RunnerNames
         DEF Challenge, Going, RequestAt, ArchiveAt, AtTheEnd, Kinds
    <3>3. /\ t \in TurnRecord /\ t.staged = turn[r].staged
          /\ t.did = turn[r].did /\ t.dream = turn[r].dream /\ t.closes = turn[r].closes
      BY ONLY <3>1, <3>2 DEF TurnRecord
    <3>4. OnlyTurns /\ (t.did = "completed" => work[Of[r]] = "completed")
      BY <1>3, <2>1, <3>2, <3>3, Knows DEF Challenge, Others, OnlyTurns
    <3>5. Going(t, "repair", r \in HookRequest)
      BY ONLY <3>2, <3>3 DEF Going, RequestAt
    <3> QED
      BY <3>1, <3>2, <3>3, <3>4, <3>5, WritesOn, ZenonT(60)
  <2>2. CASE Go(r, Writing([[turn[r] EXCEPT !.seen = 0] EXCEPT !.dream = "failed"],
                               "failed", "outcome"))
    <3>1. PICK t : /\ t = [[turn[r] EXCEPT !.seen = 0] EXCEPT !.dream = "failed"]
                   /\ turn' = [turn EXCEPT ![r] = Writing(t, "failed", "outcome")]
      BY <1>3, <2>2 DEF Challenge, Go
    <3>2. /\ turn[r] \in TurnRecord /\ created \in Nat
          /\ r \in HookRequest
          /\ turn[r].at \notin AtTheEnd
          /\ "failed" \in Kinds /\ "outcome" \in ArchiveAt \cup RequestAt
      BY <1>3, <2>2, Knows, RunnerNames
         DEF Challenge, Going, RequestAt, ArchiveAt, AtTheEnd, Kinds
    <3>3. /\ t \in TurnRecord /\ t.staged = turn[r].staged
          /\ t.did = turn[r].did /\ t.dream = "failed" /\ t.closes = turn[r].closes
      BY ONLY <3>1, <3>2 DEF TurnRecord
    <3>4. OnlyTurns /\ (t.did = "completed" => work[Of[r]] = "completed")
      BY <1>3, <2>2, <3>2, <3>3, Knows DEF Challenge, Others, OnlyTurns
    <3>5. Going(t, "outcome", r \in HookRequest)
      BY ONLY <3>2, <3>3 DEF Going, RequestAt
    <3> QED
      BY <3>1, <3>2, <3>3, <3>4, <3>5, WritesOn
  <2> QED
    BY <2>0, <2>1, <2>2
<1>4. CASE RepairNotes(r)
  <2>0. \/ Go(r, [turn[r] EXCEPT !.at = "select"])
        \/ Go(r, Writing(turn[r], "note", "select"))
    BY <1>4 DEF RepairNotes
  <2>1. CASE Go(r, [turn[r] EXCEPT !.at = "select"])
    <3>1. PICK t : /\ t = [turn[r] EXCEPT !.at = "select"]
                   /\ turn' = [turn EXCEPT ![r] = t]
      BY <1>4, <2>1 DEF RepairNotes, Go
    <3>2. /\ turn[r] \in TurnRecord /\ created \in Nat
          /\ turn[r].at \notin AtTheEnd
          /\ "select" \in ArchiveAt \cup RequestAt
      BY <1>4, <2>1, Knows, RunnerNames DEF RepairNotes, Going, RequestAt, ArchiveAt, AtTheEnd
    <3>3. /\ t \in TurnRecord /\ t.at = "select" /\ t.staged = turn[r].staged
          /\ t.did = turn[r].did /\ t.dream = turn[r].dream
          /\ t.held = turn[r].held /\ t.closes = turn[r].closes
      BY ONLY <3>1, <3>2 DEF TurnRecord
    <3>4. OnlyTurns /\ (t.did = "completed" => work[Of[r]] = "completed")
      BY <1>4, <2>1, <3>2, <3>3, Knows DEF RepairNotes, Others, OnlyTurns
    <3>5. /\ Going(t, t.at, r \in HookRequest) /\ t.at \notin {"closing", "write"}
          /\ t.at = "slice" => t.dream = "continuing" /\ t.slices < MaxSlices
      BY ONLY <3>2, <3>3 DEF Going, RequestAt
    <3> QED
      BY <3>1, <3>2, <3>3, <3>4, <3>5, Walks
  <2>2. CASE Go(r, Writing(turn[r], "note", "select"))
    <3>1. PICK t : /\ t = turn[r]
                   /\ turn' = [turn EXCEPT ![r] = Writing(t, "note", "select")]
      BY <1>4, <2>2 DEF RepairNotes, Go
    <3>2. /\ turn[r] \in TurnRecord /\ created \in Nat
          /\ turn[r].at \notin AtTheEnd
          /\ "note" \in Kinds /\ "select" \in ArchiveAt \cup RequestAt
      BY <1>4, <2>2, Knows, RunnerNames
         DEF RepairNotes, Going, RequestAt, ArchiveAt, AtTheEnd, Kinds
    <3>3. /\ t \in TurnRecord /\ t.staged = turn[r].staged
          /\ t.did = turn[r].did /\ t.dream = turn[r].dream /\ t.closes = turn[r].closes
      BY ONLY <3>1, <3>2 DEF TurnRecord
    <3>4. OnlyTurns /\ (t.did = "completed" => work[Of[r]] = "completed")
      BY <1>4, <2>2, <3>2, <3>3, Knows DEF RepairNotes, Others, OnlyTurns
    <3>5. Going(t, "select", r \in HookRequest)
      BY ONLY <3>2, <3>3 DEF Going, RequestAt
    <3> QED
      BY <3>1, <3>2, <3>3, <3>4, <3>5, WritesOn, ZenonT(60)
  <2> QED
    BY <2>0, <2>1, <2>2
<1> QED
  BY <1>1, <1>2, <1>3, <1>4

\* A job is chosen, reviewed and reported.
LEMMA ReviewMoves ==
  ASSUME TurnInv, NEW r \in Runner,
         Select(r) \/ Review(r) \/ Heartbeat(r) \/ Defers(r) \/ WriteFinal(r)
  PROVE  TurnInv'
<1>1. CASE Select(r)
  <2>0. \/ Go(r, [turn[r] EXCEPT !.at = "review"])
        \/ /\ work[Of[r]] = "completed"
           /\ Go(r, [turn[r] EXCEPT !.at = "final", !.did = "completed"])
        \/ Go(r, [turn[r] EXCEPT !.at = "final", !.did = "none"])
    BY <1>1 DEF Select
  <2>1. CASE Go(r, [turn[r] EXCEPT !.at = "review"])
    <3>1. PICK t : /\ t = [turn[r] EXCEPT !.at = "review"]
                   /\ turn' = [turn EXCEPT ![r] = t]
      BY <1>1, <2>1 DEF Select, Go
    <3>2. /\ turn[r] \in TurnRecord /\ created \in Nat
          /\ turn[r].at \notin AtTheEnd
          /\ "review" \in ArchiveAt \cup RequestAt
      BY <1>1, <2>1, Knows, RunnerNames DEF Select, Going, RequestAt, ArchiveAt, AtTheEnd
    <3>3. /\ t \in TurnRecord /\ t.at = "review" /\ t.staged = turn[r].staged
          /\ t.did = turn[r].did /\ t.dream = turn[r].dream
          /\ t.held = turn[r].held /\ t.closes = turn[r].closes
      BY ONLY <3>1, <3>2 DEF TurnRecord
    <3>4. OnlyTurns /\ (t.did = "completed" => work[Of[r]] = "completed")
      BY <1>1, <2>1, <3>2, <3>3, Knows DEF Select, Others, OnlyTurns
    <3>5. /\ Going(t, t.at, r \in HookRequest) /\ t.at \notin {"closing", "write"}
          /\ t.at = "slice" => t.dream = "continuing" /\ t.slices < MaxSlices
      BY ONLY <3>2, <3>3 DEF Going, RequestAt
    <3> QED
      BY <3>1, <3>2, <3>3, <3>4, <3>5, Walks
  <2>2. CASE /\ work[Of[r]] = "completed"
             /\ Go(r, [turn[r] EXCEPT !.at = "final", !.did = "completed"])
    <3>1. PICK t : /\ t = [turn[r] EXCEPT !.at = "final", !.did = "completed"]
                   /\ turn' = [turn EXCEPT ![r] = t]
      BY <1>1, <2>2 DEF Select, Go
    <3>2. /\ turn[r] \in TurnRecord /\ created \in Nat
          /\ turn[r].at \notin AtTheEnd
          /\ work[Of[r]] = "completed"
          /\ "final" \in ArchiveAt \cup RequestAt
          /\ "completed" \in {"none", "completed", "deferred", "busy"}
      BY <1>1, <2>2, Knows, RunnerNames DEF Select, Going, RequestAt, ArchiveAt, AtTheEnd
    <3>3. /\ t \in TurnRecord /\ t.at = "final" /\ t.staged = turn[r].staged
          /\ t.did = "completed" /\ t.dream = turn[r].dream
          /\ t.held = turn[r].held /\ t.closes = turn[r].closes
      BY ONLY <3>1, <3>2, ZenonT(60) DEF TurnRecord
    <3>4. OnlyTurns /\ (t.did = "completed" => work[Of[r]] = "completed")
      BY <1>1, <2>2, <3>2, <3>3, Knows DEF Select, Others, OnlyTurns
    <3>5. /\ Going(t, t.at, r \in HookRequest) /\ t.at \notin {"closing", "write"}
          /\ t.at = "slice" => t.dream = "continuing" /\ t.slices < MaxSlices
      BY ONLY <3>2, <3>3 DEF Going, RequestAt
    <3> QED
      BY <3>1, <3>2, <3>3, <3>4, <3>5, Walks
  <2>3. CASE Go(r, [turn[r] EXCEPT !.at = "final", !.did = "none"])
    <3>1. PICK t : /\ t = [turn[r] EXCEPT !.at = "final", !.did = "none"]
                   /\ turn' = [turn EXCEPT ![r] = t]
      BY <1>1, <2>3 DEF Select, Go
    <3>2. /\ turn[r] \in TurnRecord /\ created \in Nat
          /\ turn[r].at \notin AtTheEnd
          /\ "final" \in ArchiveAt \cup RequestAt
          /\ "none" \in {"none", "completed", "deferred", "busy"}
      BY <1>1, <2>3, Knows, RunnerNames DEF Select, Going, RequestAt, ArchiveAt, AtTheEnd
    <3>3. /\ t \in TurnRecord /\ t.at = "final" /\ t.staged = turn[r].staged
          /\ t.did = "none" /\ t.dream = turn[r].dream
          /\ t.held = turn[r].held /\ t.closes = turn[r].closes
      BY ONLY <3>1, <3>2, ZenonT(60) DEF TurnRecord
    <3>4. OnlyTurns /\ (t.did = "completed" => work[Of[r]] = "completed")
      BY <1>1, <2>3, <3>2, <3>3, Knows DEF Select, Others, OnlyTurns
    <3>5. /\ Going(t, t.at, r \in HookRequest) /\ t.at \notin {"closing", "write"}
          /\ t.at = "slice" => t.dream = "continuing" /\ t.slices < MaxSlices
      BY ONLY <3>2, <3>3 DEF Going, RequestAt
    <3> QED
      BY <3>1, <3>2, <3>3, <3>4, <3>5, Walks
  <2> QED
    BY <2>0, <2>1, <2>2, <2>3
<1>2. CASE Review(r)
  <2>0. \/ /\ work[Of[r]] = "completed"
           /\ Go(r, Writing([turn[r] EXCEPT !.did = "completed"], "success", "final"))
        \/ Go(r, [turn[r] EXCEPT !.at = "final", !.did = "busy"])
        \/ Go(r, [turn[r] EXCEPT !.at = "reviewing"])
    BY <1>2 DEF Review
  <2>1. CASE /\ work[Of[r]] = "completed"
             /\ Go(r, Writing([turn[r] EXCEPT !.did = "completed"], "success", "final"))
    <3>1. PICK t : /\ t = [turn[r] EXCEPT !.did = "completed"]
                   /\ turn' = [turn EXCEPT ![r] = Writing(t, "success", "final")]
      BY <1>2, <2>1 DEF Review, Go
    <3>2. /\ turn[r] \in TurnRecord /\ created \in Nat
          /\ work[Of[r]] = "completed"
          /\ turn[r].at \notin AtTheEnd
          /\ "success" \in Kinds /\ "final" \in ArchiveAt \cup RequestAt
      BY <1>2, <2>1, Knows, RunnerNames DEF Review, Going, RequestAt, ArchiveAt, AtTheEnd, Kinds
    <3>3. /\ t \in TurnRecord /\ t.staged = turn[r].staged
          /\ t.did = "completed" /\ t.dream = turn[r].dream /\ t.closes = turn[r].closes
      BY ONLY <3>1, <3>2 DEF TurnRecord
    <3>4. OnlyTurns /\ (t.did = "completed" => work[Of[r]] = "completed")
      BY <1>2, <2>1, <3>2, <3>3, Knows DEF Review, Others, OnlyTurns
    <3>5. Going(t, "final", r \in HookRequest)
      BY ONLY <3>2, <3>3 DEF Going, RequestAt
    <3> QED
      BY <3>1, <3>2, <3>3, <3>4, <3>5, WritesOn
  <2>2. CASE Go(r, [turn[r] EXCEPT !.at = "final", !.did = "busy"])
    <3>1. PICK t : /\ t = [turn[r] EXCEPT !.at = "final", !.did = "busy"]
                   /\ turn' = [turn EXCEPT ![r] = t]
      BY <1>2, <2>2 DEF Review, Go
    <3>2. /\ turn[r] \in TurnRecord /\ created \in Nat
          /\ turn[r].at \notin AtTheEnd
          /\ "final" \in ArchiveAt \cup RequestAt
          /\ "busy" \in {"none", "completed", "deferred", "busy"}
      BY <1>2, <2>2, Knows, RunnerNames DEF Review, Going, RequestAt, ArchiveAt, AtTheEnd
    <3>3. /\ t \in TurnRecord /\ t.at = "final" /\ t.staged = turn[r].staged
          /\ t.did = "busy" /\ t.dream = turn[r].dream
          /\ t.held = turn[r].held /\ t.closes = turn[r].closes
      BY ONLY <3>1, <3>2 DEF TurnRecord
    <3>4. OnlyTurns /\ (t.did = "completed" => work[Of[r]] = "completed")
      BY <1>2, <2>2, <3>2, <3>3, Knows DEF Review, Others, OnlyTurns
    <3>5. /\ Going(t, t.at, r \in HookRequest) /\ t.at \notin {"closing", "write"}
          /\ t.at = "slice" => t.dream = "continuing" /\ t.slices < MaxSlices
      BY ONLY <3>2, <3>3 DEF Going, RequestAt
    <3> QED
      BY <3>1, <3>2, <3>3, <3>4, <3>5, Walks
  <2>3. CASE Go(r, [turn[r] EXCEPT !.at = "reviewing"])
    <3>1. PICK t : /\ t = [turn[r] EXCEPT !.at = "reviewing"]
                   /\ turn' = [turn EXCEPT ![r] = t]
      BY <1>2, <2>3 DEF Review, Go
    <3>2. /\ turn[r] \in TurnRecord /\ created \in Nat
          /\ turn[r].at \notin AtTheEnd
          /\ "reviewing" \in ArchiveAt \cup RequestAt
      BY <1>2, <2>3, Knows, RunnerNames DEF Review, Going, RequestAt, ArchiveAt, AtTheEnd
    <3>3. /\ t \in TurnRecord /\ t.at = "reviewing" /\ t.staged = turn[r].staged
          /\ t.did = turn[r].did /\ t.dream = turn[r].dream
          /\ t.held = turn[r].held /\ t.closes = turn[r].closes
      BY ONLY <3>1, <3>2 DEF TurnRecord
    <3>4. OnlyTurns /\ (t.did = "completed" => work[Of[r]] = "completed")
      BY <1>2, <2>3, <3>2, <3>3, Knows DEF Review, Others, OnlyTurns
    <3>5. /\ Going(t, t.at, r \in HookRequest) /\ t.at \notin {"closing", "write"}
          /\ t.at = "slice" => t.dream = "continuing" /\ t.slices < MaxSlices
      BY ONLY <3>2, <3>3 DEF Going, RequestAt
    <3> QED
      BY <3>1, <3>2, <3>3, <3>4, <3>5, Walks
  <2> QED
    BY <2>0, <2>1, <2>2, <2>3
<1>3. CASE Heartbeat(r)
  <2>1. PICK t : /\ t = turn[r]
                 /\ turn' = [turn EXCEPT ![r] = Writing(t, "beat", "reviewing")]
    BY <1>3 DEF Heartbeat, Go
  <2>2. /\ turn[r] \in TurnRecord /\ created \in Nat
        /\ turn[r].at \notin AtTheEnd
        /\ "beat" \in Kinds /\ "reviewing" \in ArchiveAt \cup RequestAt
    BY <1>3, Knows, RunnerNames DEF Heartbeat, Going, RequestAt, ArchiveAt, AtTheEnd, Kinds
  <2>3. /\ t \in TurnRecord /\ t.staged = turn[r].staged
        /\ t.did = turn[r].did /\ t.dream = turn[r].dream /\ t.closes = turn[r].closes
    BY ONLY <2>1, <2>2 DEF TurnRecord
  <2>4. OnlyTurns /\ (t.did = "completed" => work[Of[r]] = "completed")
    BY <1>3, <2>2, <2>3, Knows DEF Heartbeat, Others, OnlyTurns
  <2>5. Going(t, "reviewing", r \in HookRequest)
    BY ONLY <2>2, <2>3 DEF Going, RequestAt
  <2> QED
    BY <2>1, <2>2, <2>3, <2>4, <2>5, WritesOn, ZenonT(60)
<1>4. CASE Defers(r)
  <2>1. PICK t : /\ t = [turn[r] EXCEPT !.did = "deferred"]
                 /\ turn' = [turn EXCEPT ![r] = Writing(t, "deferral", "final")]
    BY <1>4 DEF Defers, Go
  <2>2. /\ turn[r] \in TurnRecord /\ created \in Nat
        /\ turn[r].at \notin AtTheEnd
        /\ "deferral" \in Kinds /\ "final" \in ArchiveAt \cup RequestAt
    BY <1>4, Knows, RunnerNames DEF Defers, Going, RequestAt, ArchiveAt, AtTheEnd, Kinds
  <2>3. /\ t \in TurnRecord /\ t.staged = turn[r].staged
        /\ t.did = "deferred" /\ t.dream = turn[r].dream /\ t.closes = turn[r].closes
    BY ONLY <2>1, <2>2 DEF TurnRecord
  <2>4. OnlyTurns /\ (t.did = "completed" => work[Of[r]] = "completed")
    BY <1>4, <2>2, <2>3, Knows DEF Defers, Others, OnlyTurns
  <2>5. Going(t, "final", r \in HookRequest)
    BY ONLY <2>2, <2>3 DEF Going, RequestAt
  <2> QED
    BY <2>1, <2>2, <2>3, <2>4, <2>5, WritesOn
<1>5. CASE WriteFinal(r)
  <2>1. PICK t : /\ t = turn[r]
                 /\ turn' = [turn EXCEPT ![r] = Writing(t, "final", "close")]
    BY <1>5 DEF WriteFinal, Go
  <2>2. /\ turn[r] \in TurnRecord /\ created \in Nat
        /\ turn[r].at \notin AtTheEnd
        /\ "final" \in Kinds /\ "close" \in ArchiveAt \cup RequestAt
    BY <1>5, Knows, RunnerNames DEF WriteFinal, Going, RequestAt, ArchiveAt, AtTheEnd, Kinds
  <2>3. /\ t \in TurnRecord /\ t.staged = turn[r].staged
        /\ t.did = turn[r].did /\ t.dream = turn[r].dream /\ t.closes = turn[r].closes
    BY ONLY <2>1, <2>2 DEF TurnRecord
  <2>4. OnlyTurns /\ (t.did = "completed" => work[Of[r]] = "completed")
    BY <1>5, <2>2, <2>3, Knows DEF WriteFinal, Others, OnlyTurns
  <2>5. Going(t, "close", r \in HookRequest)
    BY ONLY <2>2, <2>3 DEF Going, RequestAt
  <2> QED
    BY <2>1, <2>2, <2>3, <2>4, <2>5, WritesOn, ZenonT(60)
<1> QED
  BY <1>1, <1>2, <1>3, <1>4, <1>5

\* Dream's slices, and a session that is not distilled.
LEMMA DreamMoves ==
  ASSUME TurnInv, NEW r \in Runner, DreamSlice(r) \/ Resume(r) \/ NotStaged(r)
  PROVE  TurnInv'
<1>1. CASE DreamSlice(r)
  <2>0. \/ \E e \in {"completed", "failed", "skipped"} :
           Go(r, [turn[r] EXCEPT !.at = "outcome", !.dream = e])
        \/ /\ turn[r].slices < MaxSlices
           /\ Go(r, [turn[r] EXCEPT !.at = "slice", !.dream = "continuing"])
        \/ Go(r, [turn[r] EXCEPT !.at = "outcome", !.dream = "continuing"])
    BY <1>1 DEF DreamSlice
  <2>1. CASE \E e \in {"completed", "failed", "skipped"} :
           Go(r, [turn[r] EXCEPT !.at = "outcome", !.dream = e])
    <3>0. PICK e \in {"completed", "failed", "skipped"} :
             turn' = [turn EXCEPT ![r] = [turn[r] EXCEPT !.at = "outcome", !.dream = e]]
      BY <1>1, <2>1 DEF DreamSlice, Go
    <3>1. PICK t : /\ t = [turn[r] EXCEPT !.at = "outcome", !.dream = e]
                   /\ turn' = [turn EXCEPT ![r] = t]
      BY <1>1, <2>1, <3>0 DEF DreamSlice, Go
    <3>2. /\ turn[r] \in TurnRecord /\ created \in Nat
          /\ turn[r].at \notin AtTheEnd
          /\ r \in HookRequest /\ e \in {"completed", "failed", "skipped"}
          /\ "outcome" \in ArchiveAt \cup RequestAt
          /\ e \in {"none", "completed", "continuing", "failed", "skipped"}
      BY <1>1, <2>1, <3>0, Knows, RunnerNames
         DEF DreamSlice, Going, RequestAt, ArchiveAt, AtTheEnd
    <3>3. /\ t \in TurnRecord /\ t.at = "outcome" /\ t.staged = turn[r].staged
          /\ t.did = turn[r].did /\ t.dream = e
          /\ t.held = turn[r].held /\ t.closes = turn[r].closes
      BY ONLY <3>1, <3>2, ZenonT(60) DEF TurnRecord
    <3>4. OnlyTurns /\ (t.did = "completed" => work[Of[r]] = "completed")
      BY <1>1, <2>1, <3>2, <3>3, Knows DEF DreamSlice, Others, OnlyTurns
    <3>5. /\ Going(t, t.at, r \in HookRequest) /\ t.at \notin {"closing", "write"}
          /\ t.at = "slice" => t.dream = "continuing" /\ t.slices < MaxSlices
      BY ONLY <3>2, <3>3 DEF Going, RequestAt
    <3> QED
      BY <3>1, <3>2, <3>3, <3>4, <3>5, Walks
  <2>2. CASE /\ turn[r].slices < MaxSlices
             /\ Go(r, [turn[r] EXCEPT !.at = "slice", !.dream = "continuing"])
    <3>1. PICK t : /\ t = [turn[r] EXCEPT !.at = "slice", !.dream = "continuing"]
                   /\ turn' = [turn EXCEPT ![r] = t]
      BY <1>1, <2>2 DEF DreamSlice, Go
    <3>2. /\ turn[r] \in TurnRecord /\ created \in Nat
          /\ turn[r].at \notin AtTheEnd
          /\ r \in HookRequest /\ turn[r].slices < MaxSlices
          /\ "slice" \in ArchiveAt \cup RequestAt
          /\ "continuing" \in {"none", "completed", "continuing", "failed", "skipped"}
      BY <1>1, <2>2, Knows, RunnerNames DEF DreamSlice, Going, RequestAt, ArchiveAt, AtTheEnd
    <3>3. /\ t \in TurnRecord /\ t.at = "slice" /\ t.staged = turn[r].staged
          /\ t.did = turn[r].did /\ t.dream = "continuing" /\ t.slices = turn[r].slices
          /\ t.held = turn[r].held /\ t.closes = turn[r].closes
      BY ONLY <3>1, <3>2, ZenonT(60) DEF TurnRecord
    <3>4. OnlyTurns /\ (t.did = "completed" => work[Of[r]] = "completed")
      BY <1>1, <2>2, <3>2, <3>3, Knows DEF DreamSlice, Others, OnlyTurns
    <3>5. /\ Going(t, t.at, r \in HookRequest) /\ t.at \notin {"closing", "write"}
          /\ t.at = "slice" => t.dream = "continuing" /\ t.slices < MaxSlices
      BY ONLY <3>2, <3>3 DEF Going, RequestAt
    <3> QED
      BY <3>1, <3>2, <3>3, <3>4, <3>5, Walks
  <2>3. CASE Go(r, [turn[r] EXCEPT !.at = "outcome", !.dream = "continuing"])
    <3>1. PICK t : /\ t = [turn[r] EXCEPT !.at = "outcome", !.dream = "continuing"]
                   /\ turn' = [turn EXCEPT ![r] = t]
      BY <1>1, <2>3 DEF DreamSlice, Go
    <3>2. /\ turn[r] \in TurnRecord /\ created \in Nat
          /\ turn[r].at \notin AtTheEnd
          /\ r \in HookRequest
          /\ "outcome" \in ArchiveAt \cup RequestAt
          /\ "continuing" \in {"none", "completed", "continuing", "failed", "skipped"}
      BY <1>1, <2>3, Knows, RunnerNames DEF DreamSlice, Going, RequestAt, ArchiveAt, AtTheEnd
    <3>3. /\ t \in TurnRecord /\ t.at = "outcome" /\ t.staged = turn[r].staged
          /\ t.did = turn[r].did /\ t.dream = "continuing"
          /\ t.held = turn[r].held /\ t.closes = turn[r].closes
      BY ONLY <3>1, <3>2, ZenonT(60) DEF TurnRecord
    <3>4. OnlyTurns /\ (t.did = "completed" => work[Of[r]] = "completed")
      BY <1>1, <2>3, <3>2, <3>3, Knows DEF DreamSlice, Others, OnlyTurns
    <3>5. /\ Going(t, t.at, r \in HookRequest) /\ t.at \notin {"closing", "write"}
          /\ t.at = "slice" => t.dream = "continuing" /\ t.slices < MaxSlices
      BY ONLY <3>2, <3>3 DEF Going, RequestAt
    <3> QED
      BY <3>1, <3>2, <3>3, <3>4, <3>5, Walks
  <2> QED
    BY <2>0, <2>1, <2>2, <2>3
<1>2. CASE Resume(r)
  <2>0. \/ Go(r, [turn[r] EXCEPT !.at = "outcome", !.dream = "skipped"])
        \/ Go(r, [turn[r] EXCEPT !.at = "dream"])
    BY <1>2 DEF Resume
  <2>1. CASE Go(r, [turn[r] EXCEPT !.at = "outcome", !.dream = "skipped"])
    <3>1. PICK t : /\ t = [turn[r] EXCEPT !.at = "outcome", !.dream = "skipped"]
                   /\ turn' = [turn EXCEPT ![r] = t]
      BY <1>2, <2>1 DEF Resume, Go
    <3>2. /\ turn[r] \in TurnRecord /\ created \in Nat
          /\ turn[r].at \notin AtTheEnd
          /\ r \in HookRequest
          /\ "outcome" \in ArchiveAt \cup RequestAt
          /\ "skipped" \in {"none", "completed", "continuing", "failed", "skipped"}
      BY <1>2, <2>1, Knows, RunnerNames DEF Resume, Going, RequestAt, ArchiveAt, AtTheEnd
    <3>3. /\ t \in TurnRecord /\ t.at = "outcome" /\ t.staged = turn[r].staged
          /\ t.did = turn[r].did /\ t.dream = "skipped"
          /\ t.held = turn[r].held /\ t.closes = turn[r].closes
      BY ONLY <3>1, <3>2, ZenonT(60) DEF TurnRecord
    <3>4. OnlyTurns /\ (t.did = "completed" => work[Of[r]] = "completed")
      BY <1>2, <2>1, <3>2, <3>3, Knows DEF Resume, Others, OnlyTurns
    <3>5. /\ Going(t, t.at, r \in HookRequest) /\ t.at \notin {"closing", "write"}
          /\ t.at = "slice" => t.dream = "continuing" /\ t.slices < MaxSlices
      BY ONLY <3>2, <3>3 DEF Going, RequestAt
    <3> QED
      BY <3>1, <3>2, <3>3, <3>4, <3>5, Walks
  <2>2. CASE Go(r, [turn[r] EXCEPT !.at = "dream"])
    <3>1. PICK t : /\ t = [turn[r] EXCEPT !.at = "dream"]
                   /\ turn' = [turn EXCEPT ![r] = t]
      BY <1>2, <2>2 DEF Resume, Go
    <3>2. /\ turn[r] \in TurnRecord /\ created \in Nat
          /\ turn[r].at \notin AtTheEnd
          /\ r \in HookRequest
          /\ "dream" \in ArchiveAt \cup RequestAt
      BY <1>2, <2>2, Knows, RunnerNames DEF Resume, Going, RequestAt, ArchiveAt, AtTheEnd
    <3>3. /\ t \in TurnRecord /\ t.at = "dream" /\ t.staged = turn[r].staged
          /\ t.did = turn[r].did /\ t.dream = turn[r].dream
          /\ t.held = turn[r].held /\ t.closes = turn[r].closes
      BY ONLY <3>1, <3>2 DEF TurnRecord
    <3>4. OnlyTurns /\ (t.did = "completed" => work[Of[r]] = "completed")
      BY <1>2, <2>2, <3>2, <3>3, Knows DEF Resume, Others, OnlyTurns
    <3>5. /\ Going(t, t.at, r \in HookRequest) /\ t.at \notin {"closing", "write"}
          /\ t.at = "slice" => t.dream = "continuing" /\ t.slices < MaxSlices
      BY ONLY <3>2, <3>3 DEF Going, RequestAt
    <3> QED
      BY <3>1, <3>2, <3>3, <3>4, <3>5, Walks
  <2> QED
    BY <2>0, <2>1, <2>2
<1>3. CASE NotStaged(r)
  <2>0. PICK g \in {"failed", "backoff"} :
           turn' = [turn EXCEPT ![r] = [turn[r] EXCEPT !.at = "outcome", !.staged = g, !.dream = "skipped"]]
    BY <1>3 DEF NotStaged, Go
  <2>1. PICK t : /\ t = [turn[r] EXCEPT !.at = "outcome", !.staged = g, !.dream = "skipped"]
                 /\ turn' = [turn EXCEPT ![r] = t]
    BY <1>3, <2>0 DEF NotStaged, Go
  <2>2. /\ turn[r] \in TurnRecord /\ created \in Nat
        /\ turn[r].at \notin AtTheEnd
        /\ r \in HookRequest /\ g \in {"failed", "backoff"}
        /\ "outcome" \in ArchiveAt \cup RequestAt
        /\ g \in {"no", "yes", "failed", "backoff"}
        /\ "skipped" \in {"none", "completed", "continuing", "failed", "skipped"}
    BY <1>3, <2>0, Knows, RunnerNames DEF NotStaged, Going, RequestAt, ArchiveAt, AtTheEnd
  <2>3. /\ t \in TurnRecord /\ t.at = "outcome" /\ t.staged = g
        /\ t.did = turn[r].did /\ t.dream = "skipped"
        /\ t.held = turn[r].held /\ t.closes = turn[r].closes
    BY ONLY <2>1, <2>2, ZenonT(60) DEF TurnRecord
  <2>4. OnlyTurns /\ (t.did = "completed" => work[Of[r]] = "completed")
    BY <1>3, <2>2, <2>3, Knows DEF NotStaged, Others, OnlyTurns
  <2>5. /\ Going(t, t.at, r \in HookRequest) /\ t.at \notin {"closing", "write"}
        /\ t.at = "slice" => t.dream = "continuing" /\ t.slices < MaxSlices
    BY ONLY <2>2, <2>3 DEF Going, RequestAt
  <2> QED
    BY <2>1, <2>2, <2>3, <2>4, <2>5, Walks
<1> QED
  BY <1>1, <1>2, <1>3

\* No command line tool, the next slice, and another look for the session.
LEMMA OtherMoves ==
  ASSUME TurnInv, NEW r \in Runner, NoExecutor(r) \/ NextSlice(r) \/ NotThereYet(r)
  PROVE  TurnInv'
<1>1. CASE NoExecutor(r)
  <2>0. \/ /\ r \in HookRequest
           /\ Go(r, Writing([turn[r] EXCEPT !.dream = "failed"], "failed", "outcome"))
        \/ /\ r \notin HookRequest
           /\ Go(r, Writing([turn[r] EXCEPT !.dream = "failed"], "failed", "over"))
    BY <1>1, RunnerNames DEF NoExecutor, Runner
  <2>1. CASE /\ r \in HookRequest
             /\ Go(r, Writing([turn[r] EXCEPT !.dream = "failed"], "failed", "outcome"))
    <3>1. PICK t : /\ t = [turn[r] EXCEPT !.dream = "failed"]
                   /\ turn' = [turn EXCEPT ![r] = Writing(t, "failed", "outcome")]
      BY <1>1, <2>1 DEF NoExecutor, Go
    <3>2. /\ turn[r] \in TurnRecord /\ created \in Nat
          /\ r \in HookRequest
          /\ turn[r].at \notin AtTheEnd
          /\ "failed" \in Kinds /\ "outcome" \in ArchiveAt \cup RequestAt
      BY <1>1, <2>1, Knows, RunnerNames
         DEF NoExecutor, Going, RequestAt, ArchiveAt, AtTheEnd, Kinds
    <3>3. /\ t \in TurnRecord /\ t.staged = turn[r].staged
          /\ t.did = turn[r].did /\ t.dream = "failed" /\ t.closes = turn[r].closes
      BY ONLY <3>1, <3>2 DEF TurnRecord
    <3>4. OnlyTurns /\ (t.did = "completed" => work[Of[r]] = "completed")
      BY <1>1, <2>1, <3>2, <3>3, Knows DEF NoExecutor, Others, OnlyTurns
    <3>5. Going(t, "outcome", r \in HookRequest)
      BY ONLY <3>2, <3>3 DEF Going, RequestAt
    <3> QED
      BY <3>1, <3>2, <3>3, <3>4, <3>5, WritesOn
  <2>2. CASE /\ r \notin HookRequest
             /\ Go(r, Writing([turn[r] EXCEPT !.dream = "failed"], "failed", "over"))
    <3>1. PICK t : /\ t = [turn[r] EXCEPT !.dream = "failed"]
                   /\ turn' = [turn EXCEPT ![r] = Writing(t, "failed", "over")]
      BY <1>1, <2>2 DEF NoExecutor, Go
    <3>2. /\ turn[r] \in TurnRecord /\ created \in Nat
          /\ r \notin HookRequest
          /\ turn[r].at \notin AtTheEnd
          /\ "failed" \in Kinds /\ "over" \in ArchiveAt \cup RequestAt
      BY <1>1, <2>2, Knows, RunnerNames
         DEF NoExecutor, Going, RequestAt, ArchiveAt, AtTheEnd, Kinds
    <3>3. /\ t \in TurnRecord /\ t.staged = turn[r].staged
          /\ t.did = turn[r].did /\ t.dream = "failed" /\ t.closes = turn[r].closes
      BY ONLY <3>1, <3>2 DEF TurnRecord
    <3>4. OnlyTurns /\ (t.did = "completed" => work[Of[r]] = "completed")
      BY <1>1, <2>2, <3>2, <3>3, Knows DEF NoExecutor, Others, OnlyTurns
    <3>5. Going(t, "over", r \in HookRequest)
      BY ONLY <3>2, <3>3 DEF Going, RequestAt
    <3> QED
      BY <3>1, <3>2, <3>3, <3>4, <3>5, WritesOn
  <2> QED
    BY <2>0, <2>1, <2>2
<1>2. CASE NextSlice(r)
  <2>0. \/ Go(r, [turn[r] EXCEPT !.at = "outcome"])
        \/ Go(r, [turn[r] EXCEPT !.at = "resume", !.slices = turn[r].slices + 1])
    BY <1>2 DEF NextSlice
  <2>1. CASE Go(r, [turn[r] EXCEPT !.at = "outcome"])
    <3>1. PICK t : /\ t = [turn[r] EXCEPT !.at = "outcome"]
                   /\ turn' = [turn EXCEPT ![r] = t]
      BY <1>2, <2>1 DEF NextSlice, Go
    <3>2. /\ turn[r] \in TurnRecord /\ created \in Nat
          /\ turn[r].at \notin AtTheEnd
          /\ r \in HookRequest /\ turn[r].dream # "none"
          /\ "outcome" \in ArchiveAt \cup RequestAt
      BY <1>2, <2>1, Knows, RunnerNames DEF NextSlice, Going, RequestAt, ArchiveAt, AtTheEnd
    <3>3. /\ t \in TurnRecord /\ t.at = "outcome" /\ t.staged = turn[r].staged
          /\ t.did = turn[r].did /\ t.dream = turn[r].dream
          /\ t.held = turn[r].held /\ t.closes = turn[r].closes
      BY ONLY <3>1, <3>2 DEF TurnRecord
    <3>4. OnlyTurns /\ (t.did = "completed" => work[Of[r]] = "completed")
      BY <1>2, <2>1, <3>2, <3>3, Knows DEF NextSlice, Others, OnlyTurns
    <3>5. /\ Going(t, t.at, r \in HookRequest) /\ t.at \notin {"closing", "write"}
          /\ t.at = "slice" => t.dream = "continuing" /\ t.slices < MaxSlices
      BY ONLY <3>2, <3>3 DEF Going, RequestAt
    <3> QED
      BY <3>1, <3>2, <3>3, <3>4, <3>5, Walks
  <2>2. CASE Go(r, [turn[r] EXCEPT !.at = "resume", !.slices = turn[r].slices + 1])
    <3>1. PICK t : /\ t = [turn[r] EXCEPT !.at = "resume", !.slices = turn[r].slices + 1]
                   /\ turn' = [turn EXCEPT ![r] = t]
      BY <1>2, <2>2 DEF NextSlice, Go
    <3>2. /\ turn[r] \in TurnRecord /\ created \in Nat
          /\ turn[r].at \notin AtTheEnd
          /\ r \in HookRequest /\ turn[r].slices + 1 \in 0 .. MaxSlices
          /\ "resume" \in ArchiveAt \cup RequestAt
          /\ turn[r].slices + 1 \in 0 .. MaxSlices
      BY <1>2, <2>2, Knows, RunnerNames, TurnFields, PostTurnAssumption
         DEF NextSlice, Going, RequestAt, ArchiveAt, AtTheEnd
    <3>3. /\ t \in TurnRecord /\ t.at = "resume" /\ t.staged = turn[r].staged
          /\ t.did = turn[r].did /\ t.dream = turn[r].dream
          /\ t.held = turn[r].held /\ t.closes = turn[r].closes
      BY ONLY <3>1, <3>2 DEF TurnRecord
    <3>4. OnlyTurns /\ (t.did = "completed" => work[Of[r]] = "completed")
      BY <1>2, <2>2, <3>2, <3>3, Knows DEF NextSlice, Others, OnlyTurns
    <3>5. /\ Going(t, t.at, r \in HookRequest) /\ t.at \notin {"closing", "write"}
          /\ t.at = "slice" => t.dream = "continuing" /\ t.slices < MaxSlices
      BY ONLY <3>2, <3>3 DEF Going, RequestAt
    <3> QED
      BY <3>1, <3>2, <3>3, <3>4, <3>5, Walks
  <2> QED
    BY <2>0, <2>1, <2>2
<1>3. CASE NotThereYet(r)
  <2>1. PICK t : /\ t = [turn[r] EXCEPT !.tries = turn[r].tries + 1]
                 /\ turn' = [turn EXCEPT ![r] = t]
    BY <1>3 DEF NotThereYet, Go
  <2>2. /\ turn[r] \in TurnRecord /\ created \in Nat
        /\ turn[r].at \notin AtTheEnd
        /\ turn[r].at = "stage" /\ turn[r].tries + 1 \in 0 .. MaxAttempts
        /\ turn[r].tries + 1 \in 0 .. MaxAttempts
    BY <1>3, Knows, RunnerNames, TurnFields, PostTurnAssumption
       DEF NotThereYet, Going, RequestAt, ArchiveAt, AtTheEnd
  <2>3. /\ t \in TurnRecord /\ t.at = turn[r].at /\ t.staged = turn[r].staged
        /\ t.did = turn[r].did /\ t.dream = turn[r].dream
        /\ t.held = turn[r].held /\ t.closes = turn[r].closes
    BY ONLY <2>1, <2>2 DEF TurnRecord
  <2>4. OnlyTurns /\ (t.did = "completed" => work[Of[r]] = "completed")
    BY <1>3, <2>2, <2>3, Knows DEF NotThereYet, Others, OnlyTurns
  <2>5. /\ Going(t, t.at, r \in HookRequest) /\ t.at \notin {"closing", "write"}
        /\ t.at = "slice" => t.dream = "continuing" /\ t.slices < MaxSlices
    BY ONLY <2>2, <2>3 DEF Going, RequestAt
  <2> QED
    BY <2>1, <2>2, <2>3, <2>4, <2>5, Walks
<1> QED
  BY <1>1, <1>2, <1>3

LEMMA AfterBatchIs ==
  ASSUME NEW r \in Runner, NEW t \in TurnRecord, NEW ok \in BOOLEAN,
         NEW d, d = AfterBatch(r, t, ok)
  PROVE  \/ r \notin HookRequest /\ d = [t EXCEPT !.at = "over"] /\ d.at = "over"
         \/ r \in HookRequest /\ d = [t EXCEPT !.at = "dream"] /\ d.at = "dream" /\ ok
         \/ /\ r \in HookRequest /\ d = [t EXCEPT !.at = "outcome", !.dream = "failed"]
            /\ d.at = "outcome"
  BY RunnerNames DEF AfterBatch, TurnRecord, Runner

\* The executor is closed.
LEMMA CloseMoves ==
  ASSUME TurnInv, NEW r \in Runner, CloseExecutor(r)
  PROVE  TurnInv'
<1>1. CASE CloseExecutor(r)
  <2>0. \/ r \notin HookRequest /\ Go(r, [turn[r] EXCEPT !.at = "over"])
        \/ r \in HookRequest /\ Go(r, [turn[r] EXCEPT !.at = "dream"])
        \/ r \in HookRequest /\ Go(r, [turn[r] EXCEPT !.at = "outcome", !.dream = "failed"])
        \/ /\ r \notin HookRequest
           /\ Go(r, Writing([turn[r] EXCEPT !.at = "over"], "closed", "over"))
        \/ r \in HookRequest /\ Go(r, Writing([turn[r] EXCEPT !.at = "dream"], "closed", "dream"))
        \/ /\ r \in HookRequest
           /\ Go(r, Writing([turn[r] EXCEPT !.at = "outcome", !.dream = "failed"], "closed", "outcome"))
        \/ /\ r \notin HookRequest
           /\ Go(r, Writing([turn[r] EXCEPT !.at = "over"], "unclosed", "over"))
        \/ /\ r \in HookRequest
           /\ Go(r, Writing([turn[r] EXCEPT !.at = "outcome", !.dream = "failed"], "unclosed", "outcome"))
    <3>1. PICK d, u : /\ d = AfterBatch(r, turn[r], turn[r].did \in {"completed", "none"})
                      /\ u = AfterBatch(r, turn[r], FALSE)
      OBVIOUS
    <3>2. \E ok \in BOOLEAN : d = AfterBatch(r, turn[r], ok)
      BY <3>1 DEF AfterBatch
    <3>3. Go(r, d) \/ Go(r, Writing(d, "closed", d.at)) \/ Go(r, Writing(u, "unclosed", u.at))
      BY <1>1, <3>1 DEF CloseExecutor
    <3>4. turn[r] \in TurnRecord
      BY Knows
    <3>5. \/ r \notin HookRequest /\ d = [turn[r] EXCEPT !.at = "over"] /\ d.at = "over"
          \/ r \in HookRequest /\ d = [turn[r] EXCEPT !.at = "dream"] /\ d.at = "dream"
          \/ /\ r \in HookRequest /\ d = [turn[r] EXCEPT !.at = "outcome", !.dream = "failed"]
             /\ d.at = "outcome"
      BY ONLY <3>2, <3>4, r \in Runner, AfterBatchIs
    <3>6. \/ r \notin HookRequest /\ u = [turn[r] EXCEPT !.at = "over"] /\ u.at = "over"
          \/ /\ r \in HookRequest /\ u = [turn[r] EXCEPT !.at = "outcome", !.dream = "failed"]
             /\ u.at = "outcome"
      BY ONLY <3>1, <3>4, r \in Runner, AfterBatchIs, ZenonT(60)
    <3> QED
      BY ONLY <3>3, <3>5, <3>6
  <2>1. CASE r \notin HookRequest /\ Go(r, [turn[r] EXCEPT !.at = "over"])
    <3>1. PICK t : /\ t = [turn[r] EXCEPT !.at = "over"]
                   /\ turn' = [turn EXCEPT ![r] = t]
      BY <1>1, <2>1 DEF CloseExecutor, Go
    <3>2. /\ turn[r] \in TurnRecord /\ created \in Nat
          /\ turn[r].at \notin AtTheEnd
          /\ r \notin HookRequest
          /\ "over" \in ArchiveAt \cup RequestAt
      BY <1>1, <2>1, Knows, RunnerNames DEF CloseExecutor, Going, RequestAt, ArchiveAt, AtTheEnd
    <3>3. /\ t \in TurnRecord /\ t.at = "over" /\ t.staged = turn[r].staged
          /\ t.did = turn[r].did /\ t.dream = turn[r].dream
          /\ t.held = turn[r].held /\ t.closes = turn[r].closes
      BY ONLY <3>1, <3>2 DEF TurnRecord
    <3>4. OnlyTurns /\ (t.did = "completed" => work[Of[r]] = "completed")
      BY <1>1, <2>1, <3>2, <3>3, Knows DEF CloseExecutor, Others, OnlyTurns
    <3>5. /\ Going(t, t.at, r \in HookRequest) /\ t.at \notin {"closing", "write"}
          /\ t.at = "slice" => t.dream = "continuing" /\ t.slices < MaxSlices
      BY ONLY <3>2, <3>3 DEF Going, RequestAt
    <3> QED
      BY <3>1, <3>2, <3>3, <3>4, <3>5, Walks
  <2>2. CASE r \in HookRequest /\ Go(r, [turn[r] EXCEPT !.at = "dream"])
    <3>1. PICK t : /\ t = [turn[r] EXCEPT !.at = "dream"]
                   /\ turn' = [turn EXCEPT ![r] = t]
      BY <1>1, <2>2 DEF CloseExecutor, Go
    <3>2. /\ turn[r] \in TurnRecord /\ created \in Nat
          /\ turn[r].at \notin AtTheEnd
          /\ r \in HookRequest
          /\ "dream" \in ArchiveAt \cup RequestAt
      BY <1>1, <2>2, Knows, RunnerNames DEF CloseExecutor, Going, RequestAt, ArchiveAt, AtTheEnd
    <3>3. /\ t \in TurnRecord /\ t.at = "dream" /\ t.staged = turn[r].staged
          /\ t.did = turn[r].did /\ t.dream = turn[r].dream
          /\ t.held = turn[r].held /\ t.closes = turn[r].closes
      BY ONLY <3>1, <3>2 DEF TurnRecord
    <3>4. OnlyTurns /\ (t.did = "completed" => work[Of[r]] = "completed")
      BY <1>1, <2>2, <3>2, <3>3, Knows DEF CloseExecutor, Others, OnlyTurns
    <3>5. /\ Going(t, t.at, r \in HookRequest) /\ t.at \notin {"closing", "write"}
          /\ t.at = "slice" => t.dream = "continuing" /\ t.slices < MaxSlices
      BY ONLY <3>2, <3>3 DEF Going, RequestAt
    <3> QED
      BY <3>1, <3>2, <3>3, <3>4, <3>5, Walks
  <2>3. CASE r \in HookRequest /\ Go(r, [turn[r] EXCEPT !.at = "outcome", !.dream = "failed"])
    <3>1. PICK t : /\ t = [turn[r] EXCEPT !.at = "outcome", !.dream = "failed"]
                   /\ turn' = [turn EXCEPT ![r] = t]
      BY <1>1, <2>3 DEF CloseExecutor, Go
    <3>2. /\ turn[r] \in TurnRecord /\ created \in Nat
          /\ turn[r].at \notin AtTheEnd
          /\ r \in HookRequest
          /\ "outcome" \in ArchiveAt \cup RequestAt
          /\ "failed" \in {"none", "completed", "continuing", "failed", "skipped"}
      BY <1>1, <2>3, Knows, RunnerNames DEF CloseExecutor, Going, RequestAt, ArchiveAt, AtTheEnd
    <3>3. /\ t \in TurnRecord /\ t.at = "outcome" /\ t.staged = turn[r].staged
          /\ t.did = turn[r].did /\ t.dream = "failed"
          /\ t.held = turn[r].held /\ t.closes = turn[r].closes
      BY ONLY <3>1, <3>2, ZenonT(60) DEF TurnRecord
    <3>4. OnlyTurns /\ (t.did = "completed" => work[Of[r]] = "completed")
      BY <1>1, <2>3, <3>2, <3>3, Knows DEF CloseExecutor, Others, OnlyTurns
    <3>5. /\ Going(t, t.at, r \in HookRequest) /\ t.at \notin {"closing", "write"}
          /\ t.at = "slice" => t.dream = "continuing" /\ t.slices < MaxSlices
      BY ONLY <3>2, <3>3 DEF Going, RequestAt
    <3> QED
      BY <3>1, <3>2, <3>3, <3>4, <3>5, Walks
  <2>4. CASE /\ r \notin HookRequest
             /\ Go(r, Writing([turn[r] EXCEPT !.at = "over"], "closed", "over"))
    <3>1. PICK t : /\ t = [turn[r] EXCEPT !.at = "over"]
                   /\ turn' = [turn EXCEPT ![r] = Writing(t, "closed", "over")]
      BY <1>1, <2>4 DEF CloseExecutor, Go
    <3>2. /\ turn[r] \in TurnRecord /\ created \in Nat
          /\ r \notin HookRequest
          /\ turn[r].at \notin AtTheEnd
          /\ "closed" \in Kinds /\ "over" \in ArchiveAt \cup RequestAt
      BY <1>1, <2>4, Knows, RunnerNames
         DEF CloseExecutor, Going, RequestAt, ArchiveAt, AtTheEnd, Kinds
    <3>3. /\ t \in TurnRecord /\ t.staged = turn[r].staged
          /\ t.did = turn[r].did /\ t.dream = turn[r].dream /\ t.closes = turn[r].closes
      BY ONLY <3>1, <3>2 DEF TurnRecord
    <3>4. OnlyTurns /\ (t.did = "completed" => work[Of[r]] = "completed")
      BY <1>1, <2>4, <3>2, <3>3, Knows DEF CloseExecutor, Others, OnlyTurns
    <3>5. Going(t, "over", r \in HookRequest)
      BY ONLY <3>2, <3>3 DEF Going, RequestAt
    <3> QED
      BY <3>1, <3>2, <3>3, <3>4, <3>5, WritesOn
  <2>5. CASE /\ r \in HookRequest
             /\ Go(r, Writing([turn[r] EXCEPT !.at = "dream"], "closed", "dream"))
    <3>1. PICK t : /\ t = [turn[r] EXCEPT !.at = "dream"]
                   /\ turn' = [turn EXCEPT ![r] = Writing(t, "closed", "dream")]
      BY <1>1, <2>5 DEF CloseExecutor, Go
    <3>2. /\ turn[r] \in TurnRecord /\ created \in Nat
          /\ r \in HookRequest
          /\ turn[r].at \notin AtTheEnd
          /\ "closed" \in Kinds /\ "dream" \in ArchiveAt \cup RequestAt
      BY <1>1, <2>5, Knows, RunnerNames
         DEF CloseExecutor, Going, RequestAt, ArchiveAt, AtTheEnd, Kinds
    <3>3. /\ t \in TurnRecord /\ t.staged = turn[r].staged
          /\ t.did = turn[r].did /\ t.dream = turn[r].dream /\ t.closes = turn[r].closes
      BY ONLY <3>1, <3>2 DEF TurnRecord
    <3>4. OnlyTurns /\ (t.did = "completed" => work[Of[r]] = "completed")
      BY <1>1, <2>5, <3>2, <3>3, Knows DEF CloseExecutor, Others, OnlyTurns
    <3>5. Going(t, "dream", r \in HookRequest)
      BY ONLY <3>2, <3>3 DEF Going, RequestAt
    <3> QED
      BY <3>1, <3>2, <3>3, <3>4, <3>5, WritesOn, ZenonT(60)
  <2>6. CASE /\ r \in HookRequest
             /\ Go(r, Writing([turn[r] EXCEPT !.at = "outcome", !.dream = "failed"], "closed", "outcome"))
    <3>1. PICK t : /\ t = [turn[r] EXCEPT !.at = "outcome", !.dream = "failed"]
                   /\ turn' = [turn EXCEPT ![r] = Writing(t, "closed", "outcome")]
      BY <1>1, <2>6 DEF CloseExecutor, Go
    <3>2. /\ turn[r] \in TurnRecord /\ created \in Nat
          /\ r \in HookRequest
          /\ turn[r].at \notin AtTheEnd
          /\ "closed" \in Kinds /\ "outcome" \in ArchiveAt \cup RequestAt
      BY <1>1, <2>6, Knows, RunnerNames
         DEF CloseExecutor, Going, RequestAt, ArchiveAt, AtTheEnd, Kinds
    <3>3. /\ t \in TurnRecord /\ t.staged = turn[r].staged
          /\ t.did = turn[r].did /\ t.dream = "failed" /\ t.closes = turn[r].closes
      BY ONLY <3>1, <3>2, ZenonT(60) DEF TurnRecord
    <3>4. OnlyTurns /\ (t.did = "completed" => work[Of[r]] = "completed")
      BY <1>1, <2>6, <3>2, <3>3, Knows DEF CloseExecutor, Others, OnlyTurns
    <3>5. Going(t, "outcome", r \in HookRequest)
      BY ONLY <3>2, <3>3 DEF Going, RequestAt
    <3> QED
      BY <3>1, <3>2, <3>3, <3>4, <3>5, WritesOn
  <2>7. CASE /\ r \notin HookRequest
             /\ Go(r, Writing([turn[r] EXCEPT !.at = "over"], "unclosed", "over"))
    <3>1. PICK t : /\ t = [turn[r] EXCEPT !.at = "over"]
                   /\ turn' = [turn EXCEPT ![r] = Writing(t, "unclosed", "over")]
      BY <1>1, <2>7 DEF CloseExecutor, Go
    <3>2. /\ turn[r] \in TurnRecord /\ created \in Nat
          /\ r \notin HookRequest
          /\ turn[r].at \notin AtTheEnd
          /\ "unclosed" \in Kinds /\ "over" \in ArchiveAt \cup RequestAt
      BY <1>1, <2>7, Knows, RunnerNames
         DEF CloseExecutor, Going, RequestAt, ArchiveAt, AtTheEnd, Kinds
    <3>3. /\ t \in TurnRecord /\ t.staged = turn[r].staged
          /\ t.did = turn[r].did /\ t.dream = turn[r].dream /\ t.closes = turn[r].closes
      BY ONLY <3>1, <3>2 DEF TurnRecord
    <3>4. OnlyTurns /\ (t.did = "completed" => work[Of[r]] = "completed")
      BY <1>1, <2>7, <3>2, <3>3, Knows DEF CloseExecutor, Others, OnlyTurns
    <3>5. Going(t, "over", r \in HookRequest)
      BY ONLY <3>2, <3>3 DEF Going, RequestAt
    <3> QED
      BY <3>1, <3>2, <3>3, <3>4, <3>5, WritesOn
  <2>8. CASE /\ r \in HookRequest
             /\ Go(r, Writing([turn[r] EXCEPT !.at = "outcome", !.dream = "failed"], "unclosed", "outcome"))
    <3>1. PICK t : /\ t = [turn[r] EXCEPT !.at = "outcome", !.dream = "failed"]
                   /\ turn' = [turn EXCEPT ![r] = Writing(t, "unclosed", "outcome")]
      BY <1>1, <2>8 DEF CloseExecutor, Go
    <3>2. /\ turn[r] \in TurnRecord /\ created \in Nat
          /\ r \in HookRequest
          /\ turn[r].at \notin AtTheEnd
          /\ "unclosed" \in Kinds /\ "outcome" \in ArchiveAt \cup RequestAt
      BY <1>1, <2>8, Knows, RunnerNames
         DEF CloseExecutor, Going, RequestAt, ArchiveAt, AtTheEnd, Kinds
    <3>3. /\ t \in TurnRecord /\ t.staged = turn[r].staged
          /\ t.did = turn[r].did /\ t.dream = "failed" /\ t.closes = turn[r].closes
      BY ONLY <3>1, <3>2, ZenonT(60) DEF TurnRecord
    <3>4. OnlyTurns /\ (t.did = "completed" => work[Of[r]] = "completed")
      BY <1>1, <2>8, <3>2, <3>3, Knows DEF CloseExecutor, Others, OnlyTurns
    <3>5. Going(t, "outcome", r \in HookRequest)
      BY ONLY <3>2, <3>3 DEF Going, RequestAt
    <3> QED
      BY <3>1, <3>2, <3>3, <3>4, <3>5, WritesOn, ZenonT(60)
  <2> QED
    BY <2>0, <2>1, <2>2, <2>3, <2>4, <2>5, <2>6, <2>7, <2>8
<1> QED
  BY <1>1

LEMMA Completing ==
  ASSUME TurnInv, NEW r \in Runner, Completes(r)
  PROVE  TurnInv'
<1>1. PICK t : t = [turn[r] EXCEPT !.did = "completed"]
  OBVIOUS
<1>2. PICK u : u = Writing(t, "success", "final")
  OBVIOUS
<1>3. turn' = [turn EXCEPT ![r] = u]
  BY <1>1, <1>2 DEF Completes, Go
<1>4. turn[r] \in TurnRecord /\ receiptFile \in Receipt /\ created \in Nat
  BY Knows
<1>5. t \in TurnRecord /\ t.did = "completed" /\ t.closes = turn[r].closes
  BY ONLY <1>1, <1>4 DEF TurnRecord
<1>6. "success" \in Kinds /\ "final" \in ArchiveAt \cup RequestAt
  BY DEF Kinds, ArchiveAt, RequestAt
<1>7. /\ u \in TurnRecord /\ u.at = "write" /\ u.kind = "success" /\ u.next = "final"
      /\ u.held = receiptFile /\ u.did = "completed" /\ u.closes = turn[r].closes
  BY ONLY <1>2, <1>4, <1>5, <1>6, WritingIs
<1>8. /\ work' \in [Sessions -> {"queued", "completed", "manual"}] /\ work'[Of[r]] = "completed"
      /\ \A s \in Sessions : work[s] = "completed" => work'[s] = "completed"
  BY RunnerNames DEF Completes, TurnInv, TurnTypes
<1>9. RunnerOK(r, u, work')
  BY ONLY <1>6, <1>7, <1>8 DEF RunnerOK, Going, RequestAt
<1>10. ~DreamOver(turn[r])
  BY DEF DreamOver, Completes
<1>11. Moved(r, u)
  BY <1>3, <1>4, <1>7, <1>8, <1>9, <1>10 DEF Moved, Completes
<1> QED
  BY <1>11, MovedKeeps

LEMMA Looking ==
  ASSUME TurnInv, NEW r \in Runner, LookAtReceipt(r)
  PROVE  TurnInv'
<1>1. /\ turn[r] \in TurnRecord /\ receiptFile \in Receipt /\ created \in Nat
      /\ turn[r].did = "completed" => work[Of[r]] = "completed"
      /\ turn[r].at = "outcome" /\ r \in HookRequest /\ turn[r].dream # "none"
  BY Knows DEF LookAtReceipt, Going, RequestAt
<1>2. OnlyTurns
  BY <1>1 DEF LookAtReceipt, Others, OnlyTurns
<1>3. CASE Mine(r, receiptFile)
  <2>1. PICK t : t = [turn[r] EXCEPT !.at = "closing", !.closes = receiptFile]
    OBVIOUS
  <2>2. /\ turn' = [turn EXCEPT ![r] = t]
        /\ receiptFile.trigger = Of[r] /\ receiptFile.gen = Generation(r)
    BY <1>3, <2>1 DEF LookAtReceipt, Go, Mine
  <2>3. "closing" \in RequestAt
    BY DEF RequestAt
  <2>4. /\ t \in TurnRecord /\ t.at = "closing" /\ t.closes = receiptFile /\ t.held = turn[r].held
        /\ t.dream = turn[r].dream /\ t.did = turn[r].did
    BY ONLY <1>1, <2>1, <2>3 DEF TurnRecord
  <2>5. Advances(r, t)
    BY <1>1, <1>2, <2>2, <2>4 DEF Advances, Go, DreamOver, OnlyTurns
  <2>6. RunnerOK(r, t, work)
    BY ONLY <1>1, <2>2, <2>4 DEF RunnerOK, Going
  <2> QED
    BY <1>2, <2>5, <2>6, GoesOn DEF OnlyTurns
<1>4. CASE ~Mine(r, receiptFile)
  <2>1. PICK a \in {"report", "over"} : a = IF Unstaged(r) THEN "report" ELSE "over"
    OBVIOUS
  <2>2. PICK t : t = [turn[r] EXCEPT !.at = a]
    OBVIOUS
  <2>3. turn' = [turn EXCEPT ![r] = t] /\ (a = "report" => turn[r].staged \in {"failed", "backoff"})
    BY <1>4, <2>1, <2>2 DEF LookAtReceipt, Go, Unstaged
  <2>4. a \in ArchiveAt \cup RequestAt
    BY <2>1 DEF RequestAt, ArchiveAt
  <2>5. /\ t \in TurnRecord /\ t.at = a /\ t.closes = turn[r].closes /\ t.held = turn[r].held
        /\ t.dream = turn[r].dream /\ t.did = turn[r].did /\ t.staged = turn[r].staged
    BY ONLY <1>1, <2>2, <2>4 DEF TurnRecord
  <2>6. Advances(r, t)
    BY <1>1, <1>2, <2>1, <2>3, <2>5 DEF Advances, Go, DreamOver, OnlyTurns
  <2>7. RunnerOK(r, t, work)
    BY ONLY <1>1, <2>1, <2>3, <2>5 DEF RunnerOK, Going
  <2> QED
    BY <1>2, <2>6, <2>7, GoesOn DEF OnlyTurns
<1> QED
  BY <1>3, <1>4

LEMMA Reporting ==
  ASSUME TurnInv, NEW r \in Runner, RecordOutcome(r) \/ ReportStaging(r)
  PROVE  TurnInv'
<1>1. /\ turn[r] \in TurnRecord /\ created \in Nat
      /\ turn[r].did = "completed" => work[Of[r]] = "completed"
      /\ turn[r].at \in {"closing", "report"} /\ r \in HookRequest /\ turn[r].dream # "none"
      /\ turn[r].at = "closing" =>
            turn[r].closes.trigger = Of[r] /\ turn[r].closes.gen = Generation(r)
      /\ turn[r].at = "report" => turn[r].staged \in {"failed", "backoff"}
  BY Knows DEF RecordOutcome, ReportStaging, Going, RequestAt
<1>2. OnlyTurns
  BY <1>1 DEF RecordOutcome, ReportStaging, Others, OnlyTurns
<1>3. CASE RecordOutcome(r)
  <2>1. PICK a \in {"report", "over"} : a = IF Unstaged(r) THEN "report" ELSE "over"
    OBVIOUS
  <2>2. /\ turn' = [turn EXCEPT ![r] = Writing(turn[r], "outcome", a)]
        /\ a = "report" => turn[r].staged \in {"failed", "backoff"}
    BY <1>3, <2>1 DEF RecordOutcome, Go, Unstaged
  <2>3. "outcome" \in Kinds /\ a \in ArchiveAt \cup RequestAt
    BY <2>1 DEF RequestAt, ArchiveAt, Kinds
  <2>4. Going(turn[r], a, r \in HookRequest)
    BY ONLY <1>1, <2>1, <2>2 DEF Going
  <2>5. turn[r].closes.trigger = Of[r] /\ turn[r].closes.gen = Generation(r)
    BY <1>1, <1>3 DEF RecordOutcome
  <2> QED
    BY ONLY TurnInv, r \in Runner, <1>1, <1>2, <2>1, <2>2, <2>3, <2>4, <2>5, Writes
<1>4. CASE ReportStaging(r)
  <2>1. PICK k \in {"failed", "backoff"} : k = turn[r].staged
    BY <1>1, <1>4 DEF ReportStaging
  <2>2. turn' = [turn EXCEPT ![r] = Writing(turn[r], k, "over")]
    BY <1>4, <2>1 DEF ReportStaging, Go
  <2>3. k \in Kinds /\ "over" \in ArchiveAt \cup RequestAt
    BY <2>1 DEF RequestAt, ArchiveAt, Kinds
  <2>4. Going(turn[r], "over", r \in HookRequest)
    BY ONLY <1>1, SMTT(40) DEF Going
  <2> QED
    BY ONLY TurnInv, r \in Runner, <1>1, <1>2, <2>1, <2>2, <2>3, <2>4, Writes
<1> QED
  BY <1>3, <1>4
-----------------------------------------------------------------------------
\* What a write makes of the receipt that it has read.
LEMMA MergedIs ==
  ASSUME TurnInv, NEW r \in Runner, NEW t, t = turn[r], t.at = "write",
         NEW x, x = Merged(r, t.kind, t.held)
  PROVE  /\ x \in Receipt
         /\ t.kind \in {"failed", "backoff"} =>
               x.state \in {"failed", "deferred"} /\ x.gen = Generation(r)
         /\ t.kind = "running" =>
               /\ x.state = "running" /\ x.gen = Generation(r)
               /\ r \in HookRequest => x.maintenance = "running"
         /\ t.kind \in {"note", "closed"} =>
               /\ x.state = t.held.state /\ x.trigger = t.held.trigger /\ x.gen = t.held.gen
               /\ x.maintenance = t.held.maintenance
         /\ t.kind \in {"beat", "deferral", "unclosed"} =>
               /\ x.state # "succeeded" /\ x.gen = t.held.gen
               /\ x.maintenance = t.held.maintenance
         /\ t.kind \in {"success", "final"} =>
               /\ x.state = "succeeded" => x.trigger = Of[r] /\ t.did = "completed"
               /\ x.gen = t.held.gen /\ x.maintenance = t.held.maintenance
         /\ t.kind = "outcome" =>
               /\ x.trigger = t.held.trigger /\ x.gen = t.held.gen
               /\ x.state = "succeeded" =>
                     t.closes.state = "succeeded" /\ t.dream \in {"completed", "skipped"}
<1>1. /\ t \in TurnRecord /\ t.kind \in Kinds /\ t.held \in Receipt /\ t.closes \in Receipt
      /\ t.kind = "success" => t.did = "completed"
      /\ t.kind = "outcome" => r \in HookRequest /\ t.dream # "none"
      /\ t.did \in {"none", "completed", "deferred", "busy"}
      /\ t.dream \in {"none", "completed", "continuing", "failed", "skipped"}
  BY Knows, TurnFields DEF TurnInv, RunnerOK
<1>2. /\ Of[r] \in Sessions /\ Generation(r) \in HookRequest \cup {"none"}
      /\ r \in HookRequest => Generation(r) = r
  BY RunnerNames DEF Generation
<1>3. PICK old \in Receipt : old = t.held
  BY <1>1
<1>4. CASE t.kind \in {"failed", "backoff"}
  <2>1. /\ x \in Receipt /\ x.state \in {"failed", "deferred"} /\ x.gen = Generation(r)
    BY ONLY <1>2, <1>4, r \in Runner, x = Merged(r, t.kind, t.held), ZenonT(60)
       DEF Merged, Nonsemantic, Receipt
  <2> QED
    BY <1>4, <2>1
<1>5. CASE t.kind = "running"
  <2>1. /\ x \in Receipt /\ x.state = "running" /\ x.gen = Generation(r)
        /\ r \in HookRequest => x.maintenance = "running"
    <3>1. PICK m \in {"running", "none"} : m = IF r \in HookRequest THEN "running" ELSE "none"
      OBVIOUS
    <3>2. x = [NoReceipt EXCEPT !.state = "running", !.trigger = Of[r], !.gen = Generation(r),
                                !.maintenance = m]
      BY <1>5, <3>1 DEF Merged, Running
    <3>3. PICK y \in Receipt : y = NoReceipt
      BY NoReceiptIs
    <3>4. x = [y EXCEPT !.state = "running", !.trigger = Of[r], !.gen = Generation(r),
                        !.maintenance = m]
      BY ONLY <3>2, <3>3
    <3>5. /\ x \in Receipt /\ x.state = "running" /\ x.gen = Generation(r)
          /\ x.maintenance = m
      BY ONLY <1>2, m \in {"running", "none"}, <3>4, y \in Receipt, ZenonT(60) DEF Receipt
    <3> QED
      BY ONLY <3>1, <3>5
  <2> QED
    BY <1>5, <2>1
<1>6. CASE t.kind \in {"note", "closed"}
  <2>1. x = old
    BY <1>3, <1>6 DEF Merged
  <2>2. /\ x \in Receipt /\ x.state = old.state /\ x.trigger = old.trigger /\ x.gen = old.gen
        /\ x.maintenance = old.maintenance
    BY ONLY old \in Receipt, <2>1
  <2> QED
    BY <1>3, <1>6, <2>2
<1>7. CASE t.kind \in {"beat", "deferral", "unclosed"}
  <2>1. \/ x = [old EXCEPT !.state = "running"]
        \/ x = [old EXCEPT !.state = "deferred", !.error = "some"]
        \/ x = [old EXCEPT !.state = "partial", !.error = "some"]
    BY <1>3, <1>7 DEF Merged
  <2>2. /\ x \in Receipt /\ x.state # "succeeded" /\ x.gen = old.gen
        /\ x.maintenance = old.maintenance
    BY ONLY old \in Receipt, <1>2, r \in Runner, <2>1, ZenonT(60) DEF Receipt
  <2> QED
    BY <1>3, <1>7, <2>2
<1>8. CASE t.kind = "success"
  <2>1. x = [old EXCEPT !.state = "succeeded", !.trigger = Of[r], !.error = "none"]
    BY <1>3, <1>8 DEF Merged
  <2>2. /\ x \in Receipt /\ x.trigger = Of[r] /\ x.gen = old.gen
        /\ x.maintenance = old.maintenance
    BY ONLY old \in Receipt, <1>2, <2>1 DEF Receipt
  <2> QED
    BY <1>1, <1>3, <1>8, <2>2
<1>9. CASE t.kind = "final"
  <2>1. PICK st, e : /\ st = (CASE t.did = "completed" -> "succeeded"
                                [] t.did = "busy" -> "busy" [] OTHER -> "deferred")
                     /\ e = (IF t.did = "completed" THEN "none" ELSE "some")
    OBVIOUS
  <2>2. /\ st \in {"succeeded", "busy", "deferred"} /\ (st = "succeeded" => t.did = "completed")
        /\ e \in {"none", "some"}
    BY ONLY <2>1
  <2>3. x = [old EXCEPT !.state = st, !.trigger = Of[r], !.error = e]
    BY <1>3, <1>9, <2>1 DEF Merged, Final
  <2>4. /\ x \in Receipt /\ x.state = st /\ x.trigger = Of[r] /\ x.gen = old.gen
        /\ x.maintenance = old.maintenance
    BY ONLY old \in Receipt, <1>2, <2>2, <2>3 DEF Receipt
  <2> QED
    BY <1>3, <1>9, <2>2, <2>4
<1>10. CASE t.kind = "outcome"
  <2>1. PICK st, e, m :
           /\ st = (CASE t.dream = "failed" -> "failed" [] t.dream = "continuing" -> "deferred"
                      [] OTHER -> t.closes.state)
           /\ e = (IF t.closes.error = "none" /\ t.dream \in {"failed", "continuing"}
                   THEN "some" ELSE t.closes.error)
           /\ m = (IF t.dream = "continuing" THEN "paused" ELSE t.dream)
    OBVIOUS
  <2>2. /\ t.closes.state \in {"none", "running", "succeeded", "deferred", "busy", "failed",
                               "partial"}
        /\ t.closes.error \in {"none", "some"}
    BY <1>1 DEF Receipt
  <2>3. /\ st \in {"none", "running", "succeeded", "deferred", "busy", "failed", "partial"}
        /\ e \in {"none", "some"} /\ m \in {"failed", "paused", "completed", "skipped"}
        /\ st = "succeeded" =>
              t.closes.state = "succeeded" /\ t.dream \in {"completed", "skipped"}
    BY ONLY <1>1, <1>10, <2>1, <2>2
  <2>4. x = [old EXCEPT !.state = st, !.error = e, !.maintenance = m]
    BY <1>3, <1>10, <2>1 DEF Merged, WithOutcome
  <2>5. x \in Receipt /\ x.state = st /\ x.trigger = old.trigger /\ x.gen = old.gen
    BY ONLY old \in Receipt, <2>3, <2>4, ZenonT(60) DEF Receipt
  <2> QED
    BY <1>3, <1>10, <2>3, <2>5
<1> QED
  BY <1>1, <1>4, <1>5, <1>6, <1>7, <1>8, <1>9, <1>10 DEF Kinds

LEMMA Replacing ==
  ASSUME TurnInv, NEW r \in Runner, Replace(r)
  PROVE  TurnInv'
<1>1. PICK t : t = turn[r]
  OBVIOUS
<1>2. PICK u : u = [t EXCEPT !.at = t.next, !.kind = "none", !.next = "none", !.held = NoReceipt,
                          !.closes = NoReceipt]
  OBVIOUS
<1>3. PICK x : x = Merged(r, t.kind, t.held)
  OBVIOUS
<1>4. /\ t.at = "write" /\ receiptFile' = x /\ turn' = [turn EXCEPT ![r] = u]
      /\ work' = work /\ created' = created /\ wait' = wait
      /\ crossed' = crossed \cup {q \in HookRequest : Crosses(r, q)}
  BY <1>1, <1>2, <1>3 DEF Replace, Go
<1>5. /\ t \in TurnRecord /\ t.next \in ArchiveAt \cup RequestAt \cup {"none"}
      /\ RunnerOK(r, t, work)
  BY <1>1, Knows, TurnFields DEF TurnInv
<1>6. t.next \in ArchiveAt \cup RequestAt
  BY <1>4, <1>5 DEF RunnerOK
<1>7. /\ u \in TurnRecord /\ u.at = t.next /\ u.held = NoReceipt /\ u.closes = NoReceipt
      /\ u.did = t.did /\ u.dream = t.dream /\ u.staged = t.staged
  BY ONLY <1>2, <1>5, <1>6, NoReceiptIs, ZenonT(60) DEF TurnRecord
<1>8. /\ turn'[r] = u /\ \A o \in Runner : o # r => turn'[o] = turn[o]
      /\ turn' \in [Runner -> TurnRecord]
  BY <1>4, <1>7 DEF TurnInv, TurnTypes
<1>9. DreamOver(t) => DreamOver(u)
  BY <1>4, <1>7 DEF DreamOver
<1>10. \A o \in Runner : DreamOver(turn[o]) => DreamOver(turn'[o]) /\ turn'[o].dream = turn[o].dream
  BY <1>1, <1>7, <1>8, <1>9
<1>11. x \in Receipt
  BY <1>1, <1>3, <1>4, MergedIs
<1>12. TurnTypes'
  BY <1>4, <1>8, <1>11 DEF TurnInv, TurnTypes
<1>13. RunnerOK(r, u, work)
  BY <1>4, <1>5, <1>6, <1>7 DEF RunnerOK, Going, ArchiveAt, RequestAt
<1>14. ASSUME NEW o \in Runner
       PROVE  RunnerOK(o, turn[o], work)'
  <2>1. RunnerOK(o, turn'[o], work')
    BY <1>4, <1>8, <1>13 DEF TurnInv
  <2> QED
    BY <2>1 DEF RunnerOK, Going
<1>15. ASSUME NEW q \in HookRequest, q \notin crossed'
       PROVE  Sound(q, x, turn'[q], work)
  <2>0. q \notin crossed /\ ~Crosses(r, q)
    BY <1>4, <1>15
  <2>1. /\ Sound(q, t.held, turn[q], work) /\ Sound(q, t.closes, turn[q], work)
        /\ q \in Runner /\ q # "none"
    BY <1>1, <2>0, RunnerNames DEF TurnInv, ReceiptsSound
  <2>2. Sound(q, t.held, turn'[q], work) /\ Sound(q, t.closes, turn'[q], work)
    BY ONLY <2>1, <1>10, q \in HookRequest, SoundStays
  <2>3. /\ q # r => Generation(r) # q
        /\ q # r /\ t.held.gen = q => /\ t.kind # "outcome"
                                      /\ t.kind \in {"success", "final"} => Of[r] # Of[q]
    BY <1>1, <2>0, <2>1 DEF Crosses, Generation
  <2>4. q = r => turn'[q] = u
    BY <1>8
  <2>5. r \in HookRequest => Generation(r) = r
    BY DEF Generation
  <2>6. /\ t.kind \in Kinds /\ t.next \in ArchiveAt \cup RequestAt
        /\ t.did = "completed" => work[Of[r]] = "completed"
        /\ t.kind = "outcome" => /\ r \in HookRequest /\ t.closes.trigger = Of[r]
                                /\ t.closes.gen = Generation(r)
        /\ t.kind \in {"failed", "backoff", "outcome"} /\ r \in HookRequest => DreamOver(u)
        /\ t.kind \notin {"failed", "backoff", "outcome"} /\ r \in HookRequest => ~DreamOver(t)
    BY <1>4, <1>5, <1>6, <1>7 DEF RunnerOK, DreamOver
  <2>7. CASE t.kind \in {"failed", "backoff"}
    <3>1. x.state \in {"failed", "deferred"} /\ x.gen = Generation(r)
      BY <1>1, <1>3, <1>4, <2>7, MergedIs
    <3> QED
      BY ONLY <2>1, <2>3, <2>4, <2>5, <2>6, <2>7, <3>1 DEF Sound
  <2>8. CASE t.kind = "running"
    <3>1. /\ x.state = "running" /\ x.gen = Generation(r)
          /\ r \in HookRequest => x.maintenance = "running"
      BY <1>1, <1>3, <1>4, <2>8, MergedIs
    <3> QED
      BY ONLY q \in HookRequest, <2>1, <2>3, <3>1 DEF Sound
  <2>9. CASE t.kind \in {"note", "closed"}
    <3>1. /\ x.state = t.held.state /\ x.trigger = t.held.trigger /\ x.gen = t.held.gen
          /\ x.maintenance = t.held.maintenance
      BY <1>1, <1>3, <1>4, <2>9, MergedIs
    <3> QED
      BY ONLY <2>2, <3>1 DEF Sound
  <2>10. CASE t.kind \in {"beat", "deferral", "unclosed"}
    <3>1. x.state # "succeeded" /\ x.gen = t.held.gen /\ x.maintenance = t.held.maintenance
      BY <1>1, <1>3, <1>4, <2>10, MergedIs
    <3> QED
      BY ONLY <2>2, <3>1 DEF Sound
  <2>11. CASE t.kind \in {"success", "final"}
    <3>1. /\ x.state = "succeeded" => x.trigger = Of[r] /\ t.did = "completed"
          /\ x.gen = t.held.gen /\ x.maintenance = t.held.maintenance
      BY <1>1, <1>3, <1>4, <2>11, MergedIs
    <3>2. CASE q = r
      <4>1. x.gen = q => x.maintenance = "running"
        BY <1>1, <2>1, <2>6, <2>11, <3>1, <3>2 DEF Sound
      <4> QED
        BY ONLY <2>6, <3>1, <3>2, <4>1 DEF Sound
    <3>3. CASE q # r
      BY ONLY <2>2, <2>3, <2>11, <3>1, <3>3 DEF Sound
    <3> QED
      BY <3>2, <3>3
  <2>12. CASE t.kind = "outcome"
    <3>1. /\ x.trigger = t.held.trigger /\ x.gen = t.held.gen
          /\ x.state = "succeeded" =>
                t.closes.state = "succeeded" /\ t.dream \in {"completed", "skipped"}
      BY <1>1, <1>3, <1>4, <2>12, MergedIs
    <3>2. CASE q = r
      <4>1. /\ t.closes.gen = q /\ t.closes.trigger = Of[q] /\ turn'[q] = u
            /\ DreamOver(u)
        BY ONLY <2>4, <2>5, <2>6, <2>12, <3>2, q \in HookRequest
      <4>2. x.state = "succeeded" => work[Of[q]] = "completed"
        BY ONLY <2>2, <3>1, <4>1 DEF Sound
      <4>3. x.state = "succeeded" => turn'[q].dream \in {"completed", "skipped"}
        BY ONLY <1>7, <3>1, <4>1
      <4>4. DreamOver(turn'[q])
        BY ONLY <4>1
      <4> QED
        BY ONLY <4>2, <4>3, <4>4 DEF Sound
    <3>3. CASE q # r
      BY ONLY <2>3, <2>12, <3>1, <3>3 DEF Sound
    <3> QED
      BY <3>2, <3>3
  <2> QED
    BY ONLY <2>6, <2>7, <2>8, <2>9, <2>10, <2>11, <2>12 DEF Kinds
<1>16. ReceiptsSound'
  <2>1. ASSUME NEW q \in HookRequest, q \notin crossed', NEW o \in Runner
        PROVE  /\ Sound(q, turn'[o].held, turn'[q], work)
               /\ Sound(q, turn'[o].closes, turn'[q], work)
    <3>1. /\ Sound(q, turn[o].held, turn[q], work) /\ Sound(q, turn[o].closes, turn[q], work)
          /\ q \in Runner
      BY <1>4, <2>1, RunnerNames DEF TurnInv, ReceiptsSound
    <3>2. Sound(q, turn[o].held, turn'[q], work) /\ Sound(q, turn[o].closes, turn'[q], work)
      BY ONLY <3>1, <1>10, q \in HookRequest, SoundStays
    <3>3. Sound(q, NoReceipt, turn'[q], work)
      BY ONLY q \in HookRequest, NothingIsSound
    <3>4. \/ turn'[o] = turn[o]
          \/ turn'[o].held = NoReceipt /\ turn'[o].closes = NoReceipt
      BY ONLY <1>1, <1>7, <1>8, o \in Runner
    <3> QED
      BY ONLY <3>2, <3>3, <3>4
  <2>2. ASSUME NEW q \in HookRequest \ crossed'
        PROVE  /\ Sound(q, receiptFile', turn'[q], work')
               /\ \A o \in Runner : /\ Sound(q, turn'[o].held, turn'[q], work')
                                    /\ Sound(q, turn'[o].closes, turn'[q], work')
    BY ONLY <1>4, <1>15, <2>1, <2>2
  <2> QED
    BY <2>2 DEF ReceiptsSound, Sound, DreamOver
<1>17. ASSUME NEW q \in HookRequest
       PROVE  Answered(q)'
  <2>1. q \in Runner /\ Answered(q)
    BY RunnerNames DEF TurnInv
  <2>2. /\ work' = work /\ wait' = wait /\ (q \in crossed => q \in crossed')
        /\ DreamOver(turn[q]) => DreamOver(turn'[q]) /\ turn'[q].dream = turn[q].dream
    BY ONLY <1>4, <1>10, <2>1
  <2> QED
    BY ONLY <2>1, <2>2 DEF Answered, DreamOver
<1> QED
  BY <1>12, <1>14, <1>16, <1>17 DEF TurnInv
-----------------------------------------------------------------------------
\* A waiter polls the receipt, or gives up.
LEMMA Polling ==
  ASSUME TurnInv, NEW q \in HookRequest, Poll(q) \/ WaitTimesOut(q)
  PROVE  TurnInv'
<1>1. /\ receiptFile' = receiptFile /\ turn' = turn /\ work' = work /\ created' = created
      /\ crossed' = crossed
  BY DEF Poll, WaitTimesOut
<1>2. PICK v \in {"succeeded", "failed", "timeout"} :
         /\ wait' = [wait EXCEPT ![q] = v]
         /\ v = "succeeded" => Answers(q) /\ receiptFile.state = "succeeded"
  BY DEF Poll, WaitTimesOut
<1>3. TurnTypes'
  BY <1>1, <1>2 DEF TurnInv, TurnTypes
<1>4. ReceiptsSound' /\ \A r \in Runner : RunnerOK(r, turn[r], work)'
  BY <1>1 DEF TurnInv, ReceiptsSound, Sound, DreamOver, RunnerOK, Going
<1>5. ASSUME v = "succeeded", q \notin crossed
      PROVE  /\ work[Of[q]] = "completed" /\ DreamOver(turn[q])
             /\ turn[q].dream \in {"completed", "skipped"}
  <2>1. /\ receiptFile.state = "succeeded" /\ receiptFile.trigger = Of[q] /\ receiptFile.gen = q
        /\ receiptFile.maintenance # "running"
    BY <1>2, <1>5 DEF Answers, Mine, Generation
  <2>2. Sound(q, receiptFile, turn[q], work)
    BY <1>5 DEF TurnInv, ReceiptsSound
  <2> QED
    BY ONLY <2>1, <2>2 DEF Sound
<1>6. wait'[q] = v /\ \A o \in HookRequest : o # q => wait'[o] = wait[o]
  BY <1>2 DEF TurnInv, TurnTypes
<1>7. ASSUME NEW o \in HookRequest
      PROVE  Answered(o)'
  <2>1. Answered(o)
    BY DEF TurnInv
  <2> QED
    BY ONLY o \in HookRequest, <1>1, <1>5, <1>6, <2>1 DEF Answered, DreamOver
<1> QED
  BY <1>3, <1>4, <1>7 DEF TurnInv

LEMMA TurnBegins ==
  ASSUME TurnInit
  PROVE  TurnInv
<1>1. NoTurn \in TurnRecord
  <2>1. 0 \in 0 .. MaxAttempts /\ 0 \in 0 .. MaxSlices
    BY PostTurnAssumption
  <2> QED
    BY <2>1, NoReceiptIs DEF NoTurn, TurnRecord, ArchiveAt
<1>2. /\ NoTurn.at = "idle" /\ NoTurn.did = "none" /\ NoTurn.held = NoReceipt
      /\ NoTurn.closes = NoReceipt
  BY DEF NoTurn
<1>3. TurnTypes
  BY <1>1, NoReceiptIs DEF TurnInit, TurnTypes
<1>4. \A r \in Runner : RunnerOK(r, turn[r], work)
  BY <1>2 DEF TurnInit, RunnerOK, Going, RequestAt
<1>5. ReceiptsSound
  BY <1>2, NothingIsSound DEF TurnInit, ReceiptsSound
<1>6. \A q \in HookRequest : Answered(q)
  BY DEF TurnInit, Answered
<1> QED
  BY <1>3, <1>4, <1>5, <1>6 DEF TurnInv

\* What a waiter can rely on, whatever clients and archives work side by side:
\* receipts, on disk or read and not yet written back, and what each runner has come
\* to, fit each other at every step, but for the receipts of the requests that another
\* runner's success or outcome went into.
THEOREM ReceiptsFit == TurnSpec => []TurnInv
<1>1. TurnInit => TurnInv
  BY TurnBegins
<1>2. TurnInv /\ [TurnNext]_turnVars => TurnInv'
  <2> SUFFICES ASSUME TurnInv, [TurnNext]_turnVars
               PROVE  TurnInv'
    OBVIOUS
  <2>1. CASE UNCHANGED turnVars
    BY <2>1
       DEF turnVars, TurnInv, TurnTypes, RunnerOK, Going, ReceiptsSound, Sound, DreamOver, Answered
  <2>2. ASSUME NEW r \in Runner,
               Accept(r) \/ StartArchive(r) \/ Staged(r) \/ DreamTick(r) \/ OpenBatch(r)
                   \/ Challenge(r) \/ RepairNotes(r)
        PROVE  TurnInv'
    BY <2>2, EntryMoves, BatchMoves
  <2>3. ASSUME NEW r \in Runner,
               Select(r) \/ Review(r) \/ Heartbeat(r) \/ Defers(r) \/ WriteFinal(r)
                   \/ CloseExecutor(r) \/ Completes(r)
        PROVE  TurnInv'
    BY <2>3, ReviewMoves, CloseMoves, Completing
  <2>4. ASSUME NEW r \in Runner,
               DreamSlice(r) \/ Resume(r) \/ NotStaged(r) \/ NoExecutor(r) \/ NextSlice(r)
                   \/ NotThereYet(r)
        PROVE  TurnInv'
    BY <2>4, DreamMoves, OtherMoves
  <2>5. ASSUME NEW r \in Runner,
               LookAtReceipt(r) \/ RecordOutcome(r) \/ ReportStaging(r) \/ Replace(r)
        PROVE  TurnInv'
    BY <2>5, Looking, Reporting, Replacing
  <2>6. ASSUME NEW r \in HookRequest, Poll(r) \/ WaitTimesOut(r)
        PROVE  TurnInv'
    BY <2>6, Polling
  <2> QED
    BY <2>1, <2>2, <2>3, <2>4, <2>5, <2>6 DEF TurnNext
<1> QED
  BY <1>1, <1>2, PTL DEF TurnSpec

\* A waiter that reports success reports on its own request, or another runner took up
\* this request's receipt and wrote its own outcome, or the end of the same session's
\* job, into it (record_post_turn_maintenance_outcome, _wait_for_autonomous_receipt);
\* for any clients and archives, any number of looks and slices.
THEOREM SuccessIsTheWaitersOwn == TurnSpec => []SuccessIsOwn
<1>1. TurnInv => SuccessIsOwn
  BY DEF TurnInv, Answered, SuccessIsOwn
<1> QED
  BY <1>1, ReceiptsFit, PTL
=============================================================================
