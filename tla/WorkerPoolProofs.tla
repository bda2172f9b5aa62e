-------------------------- MODULE WorkerPoolProofs --------------------------
(***************************************************************************)
(* Proofs of the safety properties of WorkerPool for any number of         *)
(* callers, killers and workers.                                           *)
(***************************************************************************)
EXTENDS WorkerPool, FiniteSetTheorems, TLAPS

\* Every step of worker.rs keeps the types.
LEMMA NextTypeOK ==
  ASSUME TypeOK, HasWorker, [Next]_vars
  PROVE  TypeOK'
<1>1. CASE UNCHANGED vars
  BY <1>1 DEF vars, TypeOK, HasWorker, Procs, CallerSteps, KillerSteps
<1>2. ASSUME NEW c \in Callers, LockRead(c) \/ Caller(c)
      PROVE  TypeOK'
  <2>. c \in Procs /\ c \notin Killers
    BY PoolAssumption DEF Procs
  <2>1. CASE LockRead(c)
    BY <2>1, PoolAssumption DEF LockRead, Goto, TypeOK, HasWorker, Procs, CallerSteps, KillerSteps
  <2>2. CASE Scan(c, "scan", "take")
    BY <2>2, PoolAssumption DEF Scan, Goto, TypeOK, HasWorker, Procs, CallerSteps, KillerSteps
  <2>3. CASE Take(c, "take")
    BY <2>3, PoolAssumption DEF Take, Goto, TypeOK, HasWorker, Procs, CallerSteps, KillerSteps
  <2>4. CASE UnlockRead(c)
    BY <2>4, PoolAssumption DEF UnlockRead, Goto, TypeOK, HasWorker, Procs, CallerSteps, KillerSteps
  <2>5. CASE AskWrite(c, "want_write", "wait_write")
    BY <2>5, PoolAssumption DEF AskWrite, Goto, TypeOK, HasWorker, Procs, CallerSteps, KillerSteps
  <2>6. CASE LockWrite(c)
    BY <2>6, PoolAssumption DEF LockWrite, Goto, TypeOK, HasWorker, Procs, CallerSteps, KillerSteps
  <2>7. CASE Scan(c, "w_scan", "w_take")
    BY <2>7, PoolAssumption DEF Scan, Goto, TypeOK, HasWorker, Procs, CallerSteps, KillerSteps
  <2>8. CASE Take(c, "w_take")
    BY <2>8, PoolAssumption DEF Take, Goto, TypeOK, HasWorker, Procs, CallerSteps, KillerSteps
  <2>9. CASE ScanWriteEnd(c)
    BY <2>9, PoolAssumption DEF ScanWriteEnd, Goto, TypeOK, HasWorker, Procs, CallerSteps, KillerSteps
  <2>10. CASE Spawn(c)
    BY <2>10, PoolAssumption DEF Spawn, Goto, Fresh, TypeOK, HasWorker, Procs, CallerSteps, KillerSteps
  <2>11. CASE Exhausted(c)
    BY <2>11, PoolAssumption DEF Exhausted, Goto, TypeOK, HasWorker, Procs, CallerSteps, KillerSteps
  <2>12. CASE EndRun(c)
    BY <2>12, PoolAssumption DEF EndRun, Goto, TypeOK, HasWorker, Procs, CallerSteps, KillerSteps
  <2>13. CASE IsDead(c)
    BY <2>13, PoolAssumption DEF IsDead, Goto, TypeOK, HasWorker, Procs, CallerSteps, KillerSteps
  <2>14. CASE MarkIdle(c)
    BY <2>14, PoolAssumption DEF MarkIdle, Goto, TypeOK, HasWorker, Procs, CallerSteps, KillerSteps
  <2>15. CASE AskWrite(c, "want_retain", "wait_retain")
    BY <2>15, PoolAssumption DEF AskWrite, Goto, TypeOK, HasWorker, Procs, CallerSteps, KillerSteps
  <2>16. CASE LockRetain(c)
    BY <2>16, PoolAssumption DEF LockRetain, Goto, TypeOK, HasWorker, Procs, CallerSteps, KillerSteps
  <2>17. CASE RetainReturn(c)
    BY <2>17, PoolAssumption DEF RetainReturn, Goto, Alive, TypeOK, HasWorker, Procs, CallerSteps, KillerSteps
  <2>. QED BY <1>2, <2>1, <2>2, <2>3, <2>4, <2>5, <2>6, <2>7, <2>8, <2>9, <2>10, <2>11, <2>12, <2>13, <2>14, <2>15, <2>16, <2>17 DEF Caller
<1>3. ASSUME NEW k \in Killers, LockKill(k) \/ Killer(k)
      PROVE  TypeOK'
  <2>. k \in Procs /\ k \notin Callers
    BY PoolAssumption DEF Procs
  <2>1. CASE LockKill(k)
    BY <2>1, PoolAssumption DEF LockKill, Goto, TypeOK, HasWorker, Procs, CallerSteps, KillerSteps
  <2>2. CASE MarkDead(k)
    BY <2>2, PoolAssumption DEF MarkDead, Goto, TypeOK, HasWorker, Procs, CallerSteps, KillerSteps
  <2>3. CASE AskWrite(k, "want_kill", "wait_kill")
    BY <2>3, PoolAssumption DEF AskWrite, Goto, TypeOK, HasWorker, Procs, CallerSteps, KillerSteps
  <2>4. CASE LockKillWrite(k)
    BY <2>4, PoolAssumption DEF LockKillWrite, Goto, TypeOK, HasWorker, Procs, CallerSteps, KillerSteps
  <2>5. CASE RetainKill(k)
    BY <2>5, PoolAssumption DEF RetainKill, Goto, Alive, TypeOK, HasWorker, Procs, CallerSteps, KillerSteps
  <2>6. CASE KillReturn(k)
    BY <2>6, PoolAssumption DEF KillReturn, Goto, TypeOK, HasWorker, Procs, CallerSteps, KillerSteps
  <2>. QED BY <1>3, <2>1, <2>2, <2>3, <2>4, <2>5, <2>6 DEF Killer
<1>. QED BY <1>1, <1>2, <1>3 DEF Next

\* Every step leaves a worker with whoever is about to access its status.
LEMMA NextHasWorker ==
  ASSUME TypeOK, HasWorker, [Next]_vars
  PROVE  HasWorker'
<1>1. CASE UNCHANGED vars
  BY <1>1 DEF vars, TypeOK, HasWorker, Procs, CallerSteps, KillerSteps
<1>2. ASSUME NEW c \in Callers, LockRead(c) \/ Caller(c)
      PROVE  HasWorker'
  <2>. c \in Procs /\ c \notin Killers
    BY PoolAssumption DEF Procs
  <2>1. CASE LockRead(c)
    BY <2>1, PoolAssumption DEF LockRead, Goto, TypeOK, HasWorker, Procs, CallerSteps, KillerSteps
  <2>2. CASE Scan(c, "scan", "take")
    BY <2>2, PoolAssumption DEF Scan, Goto, TypeOK, HasWorker, Procs, CallerSteps, KillerSteps
  <2>3. CASE Take(c, "take")
    BY <2>3, PoolAssumption DEF Take, Goto, TypeOK, HasWorker, Procs, CallerSteps, KillerSteps
  <2>4. CASE UnlockRead(c)
    BY <2>4, PoolAssumption DEF UnlockRead, Goto, TypeOK, HasWorker, Procs, CallerSteps, KillerSteps
  <2>5. CASE AskWrite(c, "want_write", "wait_write")
    BY <2>5, PoolAssumption DEF AskWrite, Goto, TypeOK, HasWorker, Procs, CallerSteps, KillerSteps
  <2>6. CASE LockWrite(c)
    BY <2>6, PoolAssumption DEF LockWrite, Goto, TypeOK, HasWorker, Procs, CallerSteps, KillerSteps
  <2>7. CASE Scan(c, "w_scan", "w_take")
    BY <2>7, PoolAssumption DEF Scan, Goto, TypeOK, HasWorker, Procs, CallerSteps, KillerSteps
  <2>8. CASE Take(c, "w_take")
    BY <2>8, PoolAssumption DEF Take, Goto, TypeOK, HasWorker, Procs, CallerSteps, KillerSteps
  <2>9. CASE ScanWriteEnd(c)
    BY <2>9, PoolAssumption DEF ScanWriteEnd, Goto, TypeOK, HasWorker, Procs, CallerSteps, KillerSteps
  <2>10. CASE Spawn(c)
    BY <2>10, PoolAssumption DEF Spawn, Goto, Fresh, TypeOK, HasWorker, Procs, CallerSteps, KillerSteps
  <2>11. CASE Exhausted(c)
    BY <2>11, PoolAssumption DEF Exhausted, Goto, TypeOK, HasWorker, Procs, CallerSteps, KillerSteps
  <2>12. CASE EndRun(c)
    BY <2>12, PoolAssumption DEF EndRun, Goto, TypeOK, HasWorker, Procs, CallerSteps, KillerSteps
  <2>13. CASE IsDead(c)
    BY <2>13, PoolAssumption DEF IsDead, Goto, TypeOK, HasWorker, Procs, CallerSteps, KillerSteps
  <2>14. CASE MarkIdle(c)
    BY <2>14, PoolAssumption DEF MarkIdle, Goto, TypeOK, HasWorker, Procs, CallerSteps, KillerSteps
  <2>15. CASE AskWrite(c, "want_retain", "wait_retain")
    BY <2>15, PoolAssumption DEF AskWrite, Goto, TypeOK, HasWorker, Procs, CallerSteps, KillerSteps
  <2>16. CASE LockRetain(c)
    BY <2>16, PoolAssumption DEF LockRetain, Goto, TypeOK, HasWorker, Procs, CallerSteps, KillerSteps
  <2>17. CASE RetainReturn(c)
    BY <2>17, PoolAssumption DEF RetainReturn, Goto, Alive, TypeOK, HasWorker, Procs, CallerSteps, KillerSteps
  <2>. QED BY <1>2, <2>1, <2>2, <2>3, <2>4, <2>5, <2>6, <2>7, <2>8, <2>9, <2>10, <2>11, <2>12, <2>13, <2>14, <2>15, <2>16, <2>17 DEF Caller
<1>3. ASSUME NEW k \in Killers, LockKill(k) \/ Killer(k)
      PROVE  HasWorker'
  <2>. k \in Procs /\ k \notin Callers
    BY PoolAssumption DEF Procs
  <2>1. CASE LockKill(k)
    BY <2>1, PoolAssumption DEF LockKill, Goto, TypeOK, HasWorker, Procs, CallerSteps, KillerSteps
  <2>2. CASE MarkDead(k)
    BY <2>2, PoolAssumption DEF MarkDead, Goto, TypeOK, HasWorker, Procs, CallerSteps, KillerSteps
  <2>3. CASE AskWrite(k, "want_kill", "wait_kill")
    BY <2>3, PoolAssumption DEF AskWrite, Goto, TypeOK, HasWorker, Procs, CallerSteps, KillerSteps
  <2>4. CASE LockKillWrite(k)
    BY <2>4, PoolAssumption DEF LockKillWrite, Goto, TypeOK, HasWorker, Procs, CallerSteps, KillerSteps
  <2>5. CASE RetainKill(k)
    BY <2>5, PoolAssumption DEF RetainKill, Goto, Alive, TypeOK, HasWorker, Procs, CallerSteps, KillerSteps
  <2>6. CASE KillReturn(k)
    BY <2>6, PoolAssumption DEF KillReturn, Goto, TypeOK, HasWorker, Procs, CallerSteps, KillerSteps
  <2>. QED BY <1>3, <2>1, <2>2, <2>3, <2>4, <2>5, <2>6 DEF Killer
<1>. QED BY <1>1, <1>2, <1>3 DEF Next

\* No step leaves a busy worker without someone who will return it.
LEMMA NextBusy ==
  ASSUME TypeOK, HasWorker, NoBusyLeak, [Next]_vars
  PROVE  NoBusyLeak'
<1>1. CASE UNCHANGED vars
  BY <1>1 DEF vars, TypeOK, HasWorker, NoBusyLeak, HoldersOf, Procs
<1>2. ASSUME NEW c \in Callers, LockRead(c) \/ Caller(c)
      PROVE  NoBusyLeak'
  <2>. c \in Procs /\ c \notin Killers
    BY PoolAssumption DEF Procs
  <2>1. CASE LockRead(c)
    BY <2>1, PoolAssumption DEF LockRead, Goto, TypeOK, HasWorker, NoBusyLeak, HoldersOf, Procs
  <2>2. CASE Scan(c, "scan", "take")
    BY <2>2, PoolAssumption DEF Scan, Goto, TypeOK, HasWorker, NoBusyLeak, HoldersOf, Procs
  <2>3. CASE Take(c, "take")
    BY <2>3, PoolAssumption DEF Take, Goto, TypeOK, HasWorker, NoBusyLeak, HoldersOf, Procs
  <2>4. CASE UnlockRead(c)
    BY <2>4, PoolAssumption DEF UnlockRead, Goto, TypeOK, HasWorker, NoBusyLeak, HoldersOf, Procs
  <2>5. CASE AskWrite(c, "want_write", "wait_write")
    BY <2>5, PoolAssumption DEF AskWrite, Goto, TypeOK, HasWorker, NoBusyLeak, HoldersOf, Procs
  <2>6. CASE LockWrite(c)
    BY <2>6, PoolAssumption DEF LockWrite, Goto, TypeOK, HasWorker, NoBusyLeak, HoldersOf, Procs
  <2>7. CASE Scan(c, "w_scan", "w_take")
    BY <2>7, PoolAssumption DEF Scan, Goto, TypeOK, HasWorker, NoBusyLeak, HoldersOf, Procs
  <2>8. CASE Take(c, "w_take")
    BY <2>8, PoolAssumption DEF Take, Goto, TypeOK, HasWorker, NoBusyLeak, HoldersOf, Procs
  <2>9. CASE ScanWriteEnd(c)
    BY <2>9, PoolAssumption DEF ScanWriteEnd, Goto, TypeOK, HasWorker, NoBusyLeak, HoldersOf, Procs
  <2>10. CASE Spawn(c)
    BY <2>10, PoolAssumption DEF Spawn, Goto, Fresh, TypeOK, HasWorker, NoBusyLeak, HoldersOf, Procs
  <2>11. CASE Exhausted(c)
    BY <2>11, PoolAssumption DEF Exhausted, Goto, TypeOK, HasWorker, NoBusyLeak, HoldersOf, Procs
  <2>12. CASE EndRun(c)
    BY <2>12, PoolAssumption DEF EndRun, Goto, TypeOK, HasWorker, NoBusyLeak, HoldersOf, Procs
  <2>13. CASE IsDead(c)
    BY <2>13, PoolAssumption DEF IsDead, Goto, TypeOK, HasWorker, NoBusyLeak, HoldersOf, Procs
  <2>14. CASE MarkIdle(c)
    BY <2>14, PoolAssumption DEF MarkIdle, Goto, TypeOK, HasWorker, NoBusyLeak, HoldersOf, Procs
  <2>15. CASE AskWrite(c, "want_retain", "wait_retain")
    BY <2>15, PoolAssumption DEF AskWrite, Goto, TypeOK, HasWorker, NoBusyLeak, HoldersOf, Procs
  <2>16. CASE LockRetain(c)
    BY <2>16, PoolAssumption DEF LockRetain, Goto, TypeOK, HasWorker, NoBusyLeak, HoldersOf, Procs
  <2>17. CASE RetainReturn(c)
    BY <2>17, PoolAssumption DEF RetainReturn, Goto, Alive, TypeOK, HasWorker, NoBusyLeak, HoldersOf, Procs
  <2>. QED BY <1>2, <2>1, <2>2, <2>3, <2>4, <2>5, <2>6, <2>7, <2>8, <2>9, <2>10, <2>11, <2>12, <2>13, <2>14, <2>15, <2>16, <2>17 DEF Caller
<1>3. ASSUME NEW k \in Killers, LockKill(k) \/ Killer(k)
      PROVE  NoBusyLeak'
  <2>. k \in Procs /\ k \notin Callers
    BY PoolAssumption DEF Procs
  <2>1. CASE LockKill(k)
    BY <2>1, PoolAssumption DEF LockKill, Goto, TypeOK, HasWorker, NoBusyLeak, HoldersOf, Procs
  <2>2. CASE MarkDead(k)
    BY <2>2, PoolAssumption DEF MarkDead, Goto, TypeOK, HasWorker, NoBusyLeak, HoldersOf, Procs
  <2>3. CASE AskWrite(k, "want_kill", "wait_kill")
    BY <2>3, PoolAssumption DEF AskWrite, Goto, TypeOK, HasWorker, NoBusyLeak, HoldersOf, Procs
  <2>4. CASE LockKillWrite(k)
    BY <2>4, PoolAssumption DEF LockKillWrite, Goto, TypeOK, HasWorker, NoBusyLeak, HoldersOf, Procs
  <2>5. CASE RetainKill(k)
    BY <2>5, PoolAssumption DEF RetainKill, Goto, Alive, TypeOK, HasWorker, NoBusyLeak, HoldersOf, Procs
  <2>6. CASE KillReturn(k)
    BY <2>6, PoolAssumption DEF KillReturn, Goto, TypeOK, HasWorker, NoBusyLeak, HoldersOf, Procs
  <2>. QED BY <1>3, <2>1, <2>2, <2>3, <2>4, <2>5, <2>6 DEF Killer
<1>. QED BY <1>1, <1>2, <1>3 DEF Next

\* No step undoes a kill that did not race.
LEMMA NextKill ==
  ASSUME TypeOK, HasWorker, KillUnderway, [Next]_vars
  PROVE  KillUnderway'
<1>1. CASE UNCHANGED vars
  BY <1>1 DEF vars, TypeOK, HasWorker, KillUnderway, Storing, Procs
<1>2. ASSUME NEW c \in Callers, LockRead(c) \/ Caller(c)
      PROVE  KillUnderway'
  <2>. c \in Procs /\ c \notin Killers
    BY PoolAssumption DEF Procs
  <2>1. CASE LockRead(c)
    BY <2>1, PoolAssumption DEF LockRead, Goto, TypeOK, HasWorker, KillUnderway, Storing, Procs
  <2>2. CASE Scan(c, "scan", "take")
    BY <2>2, PoolAssumption DEF Scan, Goto, TypeOK, HasWorker, KillUnderway, Storing, Procs
  <2>3. CASE Take(c, "take")
    BY <2>3, PoolAssumption DEF Take, Goto, TypeOK, HasWorker, KillUnderway, Storing, Procs
  <2>4. CASE UnlockRead(c)
    BY <2>4, PoolAssumption DEF UnlockRead, Goto, TypeOK, HasWorker, KillUnderway, Storing, Procs
  <2>5. CASE AskWrite(c, "want_write", "wait_write")
    BY <2>5, PoolAssumption DEF AskWrite, Goto, TypeOK, HasWorker, KillUnderway, Storing, Procs
  <2>6. CASE LockWrite(c)
    BY <2>6, PoolAssumption DEF LockWrite, Goto, TypeOK, HasWorker, KillUnderway, Storing, Procs
  <2>7. CASE Scan(c, "w_scan", "w_take")
    BY <2>7, PoolAssumption DEF Scan, Goto, TypeOK, HasWorker, KillUnderway, Storing, Procs
  <2>8. CASE Take(c, "w_take")
    BY <2>8, PoolAssumption DEF Take, Goto, TypeOK, HasWorker, KillUnderway, Storing, Procs
  <2>9. CASE ScanWriteEnd(c)
    BY <2>9, PoolAssumption DEF ScanWriteEnd, Goto, TypeOK, HasWorker, KillUnderway, Storing, Procs
  <2>10. CASE Spawn(c)
    BY <2>10, PoolAssumption DEF Spawn, Goto, Fresh, TypeOK, HasWorker, KillUnderway, Storing, Procs
  <2>11. CASE Exhausted(c)
    BY <2>11, PoolAssumption DEF Exhausted, Goto, TypeOK, HasWorker, KillUnderway, Storing, Procs
  <2>12. CASE EndRun(c)
    BY <2>12, PoolAssumption DEF EndRun, Goto, TypeOK, HasWorker, KillUnderway, Storing, Procs
  <2>13. CASE IsDead(c)
    BY <2>13, PoolAssumption DEF IsDead, Goto, TypeOK, HasWorker, KillUnderway, Storing, Procs
  <2>14. CASE MarkIdle(c)
    BY <2>14, PoolAssumption DEF MarkIdle, Goto, TypeOK, HasWorker, KillUnderway, Storing, Procs
  <2>15. CASE AskWrite(c, "want_retain", "wait_retain")
    BY <2>15, PoolAssumption DEF AskWrite, Goto, TypeOK, HasWorker, KillUnderway, Storing, Procs
  <2>16. CASE LockRetain(c)
    BY <2>16, PoolAssumption DEF LockRetain, Goto, TypeOK, HasWorker, KillUnderway, Storing, Procs
  <2>17. CASE RetainReturn(c)
    BY <2>17, PoolAssumption DEF RetainReturn, Goto, Alive, TypeOK, HasWorker, KillUnderway, Storing, Procs
  <2>. QED BY <1>2, <2>1, <2>2, <2>3, <2>4, <2>5, <2>6, <2>7, <2>8, <2>9, <2>10, <2>11, <2>12, <2>13, <2>14, <2>15, <2>16, <2>17 DEF Caller
<1>3. ASSUME NEW k \in Killers, LockKill(k) \/ Killer(k)
      PROVE  KillUnderway'
  <2>. k \in Procs /\ k \notin Callers
    BY PoolAssumption DEF Procs
  <2>1. CASE LockKill(k)
    BY <2>1, PoolAssumption DEF LockKill, Goto, TypeOK, HasWorker, KillUnderway, Storing, Procs
  <2>2. CASE MarkDead(k)
    BY <2>2, PoolAssumption DEF MarkDead, Goto, TypeOK, HasWorker, KillUnderway, Storing, Procs
  <2>3. CASE AskWrite(k, "want_kill", "wait_kill")
    BY <2>3, PoolAssumption DEF AskWrite, Goto, TypeOK, HasWorker, KillUnderway, Storing, Procs
  <2>4. CASE LockKillWrite(k)
    BY <2>4, PoolAssumption DEF LockKillWrite, Goto, TypeOK, HasWorker, KillUnderway, Storing, Procs
  <2>5. CASE RetainKill(k)
    BY <2>5, PoolAssumption DEF RetainKill, Goto, Alive, TypeOK, HasWorker, KillUnderway, Storing, Procs
  <2>6. CASE KillReturn(k)
    BY <2>6, PoolAssumption DEF KillReturn, Goto, TypeOK, HasWorker, KillUnderway, Storing, Procs
  <2>. QED BY <1>3, <2>1, <2>2, <2>3, <2>4, <2>5, <2>6 DEF Killer
<1>. QED BY <1>1, <1>2, <1>3 DEF Next

\* A kill that did not race ends with its victim out of the pool.
LEMMA NextKilled ==
  ASSUME TypeOK, HasWorker, KillUnderway, CleanKillRemoves, [Next]_vars
  PROVE  CleanKillRemoves'
<1>1. CASE UNCHANGED vars
  BY <1>1 DEF vars, TypeOK, HasWorker, KillUnderway, CleanKillRemoves, Procs
<1>2. ASSUME NEW c \in Callers, LockRead(c) \/ Caller(c)
      PROVE  CleanKillRemoves'
  <2>. c \in Procs /\ c \notin Killers
    BY PoolAssumption DEF Procs
  <2>1. CASE LockRead(c)
    BY <2>1, PoolAssumption DEF LockRead, Goto, TypeOK, HasWorker, KillUnderway, CleanKillRemoves, Procs
  <2>2. CASE Scan(c, "scan", "take")
    BY <2>2, PoolAssumption DEF Scan, Goto, TypeOK, HasWorker, KillUnderway, CleanKillRemoves, Procs
  <2>3. CASE Take(c, "take")
    BY <2>3, PoolAssumption DEF Take, Goto, TypeOK, HasWorker, KillUnderway, CleanKillRemoves, Procs
  <2>4. CASE UnlockRead(c)
    BY <2>4, PoolAssumption DEF UnlockRead, Goto, TypeOK, HasWorker, KillUnderway, CleanKillRemoves, Procs
  <2>5. CASE AskWrite(c, "want_write", "wait_write")
    BY <2>5, PoolAssumption DEF AskWrite, Goto, TypeOK, HasWorker, KillUnderway, CleanKillRemoves, Procs
  <2>6. CASE LockWrite(c)
    BY <2>6, PoolAssumption DEF LockWrite, Goto, TypeOK, HasWorker, KillUnderway, CleanKillRemoves, Procs
  <2>7. CASE Scan(c, "w_scan", "w_take")
    BY <2>7, PoolAssumption DEF Scan, Goto, TypeOK, HasWorker, KillUnderway, CleanKillRemoves, Procs
  <2>8. CASE Take(c, "w_take")
    BY <2>8, PoolAssumption DEF Take, Goto, TypeOK, HasWorker, KillUnderway, CleanKillRemoves, Procs
  <2>9. CASE ScanWriteEnd(c)
    BY <2>9, PoolAssumption DEF ScanWriteEnd, Goto, TypeOK, HasWorker, KillUnderway, CleanKillRemoves, Procs
  <2>10. CASE Spawn(c)
    BY <2>10, PoolAssumption DEF Spawn, Goto, Fresh, TypeOK, HasWorker, KillUnderway, CleanKillRemoves, Procs
  <2>11. CASE Exhausted(c)
    BY <2>11, PoolAssumption DEF Exhausted, Goto, TypeOK, HasWorker, KillUnderway, CleanKillRemoves, Procs
  <2>12. CASE EndRun(c)
    BY <2>12, PoolAssumption DEF EndRun, Goto, TypeOK, HasWorker, KillUnderway, CleanKillRemoves, Procs
  <2>13. CASE IsDead(c)
    BY <2>13, PoolAssumption DEF IsDead, Goto, TypeOK, HasWorker, KillUnderway, CleanKillRemoves, Procs
  <2>14. CASE MarkIdle(c)
    BY <2>14, PoolAssumption DEF MarkIdle, Goto, TypeOK, HasWorker, KillUnderway, CleanKillRemoves, Procs
  <2>15. CASE AskWrite(c, "want_retain", "wait_retain")
    BY <2>15, PoolAssumption DEF AskWrite, Goto, TypeOK, HasWorker, KillUnderway, CleanKillRemoves, Procs
  <2>16. CASE LockRetain(c)
    BY <2>16, PoolAssumption DEF LockRetain, Goto, TypeOK, HasWorker, KillUnderway, CleanKillRemoves, Procs
  <2>17. CASE RetainReturn(c)
    BY <2>17, PoolAssumption DEF RetainReturn, Goto, Alive, TypeOK, HasWorker, KillUnderway, CleanKillRemoves, Procs
  <2>. QED BY <1>2, <2>1, <2>2, <2>3, <2>4, <2>5, <2>6, <2>7, <2>8, <2>9, <2>10, <2>11, <2>12, <2>13, <2>14, <2>15, <2>16, <2>17 DEF Caller
<1>3. ASSUME NEW k \in Killers, LockKill(k) \/ Killer(k)
      PROVE  CleanKillRemoves'
  <2>. k \in Procs /\ k \notin Callers
    BY PoolAssumption DEF Procs
  <2>1. CASE LockKill(k)
    BY <2>1, PoolAssumption DEF LockKill, Goto, TypeOK, HasWorker, KillUnderway, CleanKillRemoves, Procs
  <2>2. CASE MarkDead(k)
    BY <2>2, PoolAssumption DEF MarkDead, Goto, TypeOK, HasWorker, KillUnderway, CleanKillRemoves, Procs
  <2>3. CASE AskWrite(k, "want_kill", "wait_kill")
    BY <2>3, PoolAssumption DEF AskWrite, Goto, TypeOK, HasWorker, KillUnderway, CleanKillRemoves, Procs
  <2>4. CASE LockKillWrite(k)
    BY <2>4, PoolAssumption DEF LockKillWrite, Goto, TypeOK, HasWorker, KillUnderway, CleanKillRemoves, Procs
  <2>5. CASE RetainKill(k)
    BY <2>5, PoolAssumption DEF RetainKill, Goto, Alive, TypeOK, HasWorker, KillUnderway, CleanKillRemoves, Procs
  <2>6. CASE KillReturn(k)
    BY <2>6, PoolAssumption DEF KillReturn, Goto, TypeOK, HasWorker, KillUnderway, CleanKillRemoves, Procs
  <2>. QED BY <1>3, <2>1, <2>2, <2>3, <2>4, <2>5, <2>6 DEF Killer
<1>. QED BY <1>1, <1>2, <1>3 DEF Next


\* The pool only grows by one worker that found room, under the write lock.
LEMMA NextBounded ==
  ASSUME TypeOK, PoolBounded, [Next]_vars
  PROVE  PoolBounded'
<1>1. CASE pool' \subseteq pool
  <2>1. IsFiniteSet(pool) /\ Cardinality(pool) \in Nat
    BY FS_CardinalityType DEF PoolBounded
  <2>2. IsFiniteSet(pool') /\ Cardinality(pool') <= Cardinality(pool)
    BY <1>1, <2>1, FS_Subset
  <2>3. Cardinality(pool') \in Nat
    BY <2>2, FS_CardinalityType
  <2>. QED BY <2>1, <2>2, <2>3, PoolAssumption DEF PoolBounded
<1>2. ASSUME NEW c \in Callers, Spawn(c)
      PROVE  PoolBounded'
  <2>1. PICK w : pool' = pool \cup {w}
    BY <1>2 DEF Spawn
  <2>2. IsFiniteSet(pool) /\ Cardinality(pool) \in Nat
    BY FS_CardinalityType DEF PoolBounded
  <2>3. IsFiniteSet(pool') /\ Cardinality(pool') <= Cardinality(pool) + 1
    BY <2>1, <2>2, FS_AddElement
  <2>4. Cardinality(pool') \in Nat
    BY <2>3, FS_CardinalityType
  <2>. QED BY <1>2, <2>2, <2>3, <2>4, PoolAssumption DEF Spawn, PoolBounded
<1>3. pool' \subseteq pool \/ \E c \in Callers : Spawn(c)
  BY DEF Next, Caller, Killer, vars, LockRead, Scan, Take, UnlockRead, AskWrite, LockWrite,
         ScanWriteEnd, Exhausted, EndRun, IsDead, MarkIdle, LockRetain, RetainReturn, Alive,
         LockKill, MarkDead, LockKillWrite, RetainKill, KillReturn
<1>. QED BY <1>1, <1>2, <1>3

\* A new pool is empty and nobody has called it.
LEMMA InitIInv == Init => IInv
<1>. SUFFICES ASSUME Init PROVE IInv
  OBVIOUS
<1>1. TypeOK
  BY DEF Init, TypeOK, Procs, CallerSteps, KillerSteps
<1>2. PoolBounded
  BY FS_EmptySet, PoolAssumption DEF Init, PoolBounded
<1>3. NoBusyLeak /\ CleanKillRemoves /\ KillUnderway /\ HasWorker
  BY DEF Init, NoBusyLeak, CleanKillRemoves, KillUnderway, HasWorker, Procs
<1>. QED BY <1>1, <1>2, <1>3 DEF IInv

\* IInv is an invariant of get_worker, return_worker and kill_worker in every
\* interleaving.
THEOREM Invariance == Spec => []IInv
<1>1. IInv /\ [Next]_vars => IInv'
  BY NextTypeOK, NextHasWorker, NextBusy, NextKill, NextKilled, NextBounded DEF IInv
<1>. QED BY <1>1, InitIInv, PTL DEF Spec

\* Type correctness.
THEOREM TypeCorrect == Spec => []TypeOK
<1>1. IInv => TypeOK
  BY DEF IInv
<1>. QED BY <1>1, Invariance, PTL

\* max_workers bounds the pool, for any number of concurrent get_worker calls.
THEOREM PoolNeverOverfull == Spec => []PoolBounded
<1>1. IInv => PoolBounded
  BY DEF IInv
<1>. QED BY <1>1, Invariance, PTL

\* No interleaving of the three operations leaves a worker busy for good: the
\* double hand-out of a worker does not leak it.
THEOREM BusyWorkersReturn == Spec => []NoBusyLeak
<1>1. IInv => NoBusyLeak
  BY DEF IInv
<1>. QED BY <1>1, Invariance, PTL

\* kill_worker removes its victim unless a store to its status was under way.
THEOREM CleanKills == Spec => []CleanKillRemoves
<1>1. IInv => CleanKillRemoves
  BY DEF IInv
<1>. QED BY <1>1, Invariance, PTL
=============================================================================
