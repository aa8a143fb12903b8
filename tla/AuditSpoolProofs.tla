-------------------------- MODULE AuditSpoolProofs --------------------------
(***************************************************************************)
(* Proofs about AuditSpool, for any sets of mutations and readers, any     *)
(* bound on the sequence numbers, with and without crashes.                *)
(***************************************************************************)
EXTENDS AuditSpool, FiniteSetTheorems, TLAPS

\* A committed append extends the log by one record and keeps the others.
LEMMA AppendKeeps ==
  ASSUME log \in Seq(Record), NEW r \in Record, log' = Append(log, r)
  PROVE  /\ log' \in Seq(Record)
         /\ Logged(r)'
         /\ \A x \in Record : Logged(x) => Logged(x)'
  <1>1. /\ Len(log') = Len(log) + 1
        /\ log'[Len(log) + 1] = r
        /\ \A i \in 1..Len(log) : log'[i] = log[i]
        /\ Len(log) \in Nat
    OBVIOUS
  <1>2. log' \in Seq(Record)
    OBVIOUS
  <1>3. Logged(r)'
    BY <1>1 DEF Logged
  <1>4. ASSUME NEW x \in Record, Logged(x)
        PROVE  Logged(x)'
    <2>1. PICK i \in 1..Len(log) : log[i] = x
      BY <1>4 DEF Logged
    <2>2. i \in 1..Len(log') /\ log'[i] = x
      BY <1>1, <2>1
    <2>3. QED
      BY <2>2 DEF Logged
  <1>5. QED
    BY <1>2, <1>3, <1>4

LEMMA RecordsTyped ==
  \A a \in Actor : Intent(a) \in Record /\ Outcome(a) \in Record
  BY DEF Intent, Outcome, Record

\* Whatever its result, an append gives a log that keeps every record; only a
\* committed one is known to hold the new record.
LEMMA AppendResultKeeps ==
  ASSUME log \in Seq(Record), NEW r \in Record, NEW result, AppendResult(r, result)
  PROVE  /\ log' \in Seq(Record)
         /\ \A x \in Record : Logged(x) => Logged(x)'
         /\ result \in {"committed", "committedWithError"} => Logged(r)'
         /\ log' = log \/ log' = Append(log, r)
  <1>1. CASE log' = Append(log, r)
    BY <1>1, AppendKeeps
  <1>2. CASE log' = log /\ result \in {"notCommitted", "indeterminate"}
    BY <1>2 DEF Logged
  <1>3. QED
    BY <1>1, <1>2 DEF AppendResult

LEMMA TypeInitially == Init => TypeOK
  <1> SUFFICES ASSUME Init PROVE TypeOK
    OBVIOUS
  <1>1. log \in Seq(Record)
    BY DEF Init
  <1>2. pc \in [Actor -> Unlocked]
    BY DEF Init, Unlocked
  <1>3. QED
    BY <1>1, <1>2 DEF Init, TypeOK

LEMMA TypeStep == TypeOK /\ [Next]_vars => TypeOK'
  <1> SUFFICES ASSUME TypeOK, [Next]_vars PROVE TypeOK'
    OBVIOUS
  <1> USE SpoolAssumption DEF TypeOK, Unlocked, Locked, Final
  <1>1. ASSUME NEW a \in Actor, Acquire(a) PROVE TypeOK'
    BY <1>1 DEF Acquire, Goto
  <1>2. ASSUME NEW a \in Actor, AcquireFails(a) PROVE TypeOK'
    BY <1>2 DEF AcquireFails, Goto, FailedCall
  <1>3. ASSUME NEW a \in Actor, Scan(a) PROVE TypeOK'
    BY <1>3 DEF Scan, ReplayError, Return, Goto, FailedCall
  <1>4. ASSUME NEW a \in Actor, Replay(a) PROVE TypeOK'
    <2>1. PICK f \in spool :
            /\ Oldest(f)
            /\ \/ ~Readable(f) /\ ReplayError(a) /\ UNCHANGED log
               \/ /\ Readable(f)
                  /\ \/ /\ \/ AppendResult(Outcome(f.id), "committed")
                           \/ AppendResult(Outcome(f.id), "committedWithError")
                        /\ Goto(a, "remove")
                        /\ UNCHANGED lock
                     \/ /\ AppendResult(Outcome(f.id), "notCommitted")
                        /\ ReplayError(a)
                     \/ /\ AppendResult(Outcome(f.id), "indeterminate")
                        /\ Goto(a, "quarantine")
                        /\ UNCHANGED lock
      BY <1>4 DEF Replay
    <2>2. Outcome(f.id) \in Record
      BY RecordsTyped DEF File, Actor
    <2>3. log' \in Seq(Record)
      BY <2>1, <2>2, AppendResultKeeps
    <2>4. QED
      BY <1>4, <2>1, <2>3 DEF Replay, ReplayError, Return, Goto, FailedCall
  <1>5. ASSUME NEW a \in Actor, RemoveReplayed(a) PROVE TypeOK'
    BY <1>5 DEF RemoveReplayed, ReplayError, Return, Goto, FailedCall, File
  <1>6. ASSUME NEW a \in Actor, Quarantine(a) PROVE TypeOK'
    BY <1>6 DEF Quarantine, ReplayError, Return, Goto, FailedCall, File
  <1>7. ASSUME NEW a \in Actor, Drained(a) PROVE TypeOK'
    BY <1>7 DEF Drained, Goto
  <1>8. ASSUME NEW a \in Actor, AppendIntent(a) PROVE TypeOK'
    <2>1. log' \in Seq(Record)
      BY <1>8, RecordsTyped, AppendResultKeeps DEF AppendIntent
    <2>2. QED
      BY <1>8, <2>1 DEF AppendIntent, Return, Goto, FailedCall
  <1>9. ASSUME NEW a \in Actor, AppendOutcome(a) PROVE TypeOK'
    <2>1. log' \in Seq(Record)
      BY <1>9, RecordsTyped, AppendResultKeeps DEF AppendOutcome
    <2>2. QED
      BY <1>9, <2>1 DEF AppendOutcome, Return, Goto, FailedCall
  <1>10. ASSUME NEW a \in Actor, AppendReadOutcome(a) PROVE TypeOK'
    <2>1. log' \in Seq(Record)
      BY <1>10, RecordsTyped, AppendResultKeeps DEF AppendReadOutcome
    <2>2. QED
      BY <1>10, <2>1 DEF AppendReadOutcome, Return, Goto, FailedCall
  <1>11. ASSUME NEW a \in Actor, WriteTemp(a) PROVE TypeOK'
    <2>1. a \in Mutation
      BY <1>11 DEF WriteTemp
    <2>2. PICK n \in 1..MaxSeq, kind \in {"ready", "indeterminate"} :
            spool' = spool \cup {[seq |-> n, id |-> a, temp |-> TRUE, kind |-> kind]}
      BY <1>11 DEF WriteTemp
    <2>3. TRUE \in BOOLEAN
      OBVIOUS
    <2>4. [seq |-> n, id |-> a, temp |-> TRUE, kind |-> kind] \in File
      BY <2>1, <2>2, <2>3 DEF File
    <2>5. spool' \subseteq File
      BY <2>2, <2>4
    <2>6. QED
      BY <1>11, <2>5 DEF WriteTemp, Goto
  <1>12. ASSUME NEW a \in Actor, WriteFails(a) PROVE TypeOK'
    BY <1>12 DEF WriteFails, Return, Goto, FailedCall
  <1>13. ASSUME NEW a \in Actor, CommitFile(a) PROVE TypeOK'
    <2>1. ASSUME NEW f \in spool PROVE [f EXCEPT !.temp = FALSE] \in File
      BY <2>1 DEF File
    <2>2. spool' \subseteq File
      BY <1>13, <2>1 DEF CommitFile
    <2>3. PICK f \in spool :
            \/ Return(a, IF f.kind = "ready" THEN "queued" ELSE "marked")
            \/ Return(a, "unspooled")
      BY <1>13 DEF CommitFile
    <2>4. QED
      BY <1>13, <2>2, <2>3 DEF CommitFile, Return, Goto, FailedCall
  <1>14. ASSUME NEW a \in Actor, Execute(a) PROVE TypeOK'
    BY <1>14 DEF Execute, Goto
  <1>15. ASSUME NEW a \in Actor, Crash(a) PROVE TypeOK'
    BY <1>15 DEF Crash, Goto, File
  <1>16. ASSUME Reconcile PROVE TypeOK'
    BY <1>16 DEF Reconcile, File
  <1>17. ASSUME Heal PROVE TypeOK'
    BY <1>17 DEF Heal
  <1>18. CASE UNCHANGED vars
    BY <1>18 DEF vars
  <1>19. QED
    BY <1>1, <1>2, <1>3, <1>4, <1>5, <1>6, <1>7, <1>8, <1>9, <1>10, <1>11,
       <1>12, <1>13, <1>14, <1>15, <1>16, <1>17, <1>18 DEF Next, Proceed

\* Every variable always has its type.
THEOREM TypeCorrect == Spec => []TypeOK
  BY TypeInitially, TypeStep, PTL DEF Spec
-----------------------------------------------------------------------------
\* No step removes a record from the log.
LEMMA LogStep ==
  ASSUME TypeOK, [Next]_vars
  PROVE  \A x \in Record : Logged(x) => Logged(x)'
  <1>1. ASSUME NEW a \in Actor, Acquire(a) PROVE \A x \in Record : Logged(x) => Logged(x)'
    BY <1>1 DEF Acquire, Logged
  <1>2. ASSUME NEW a \in Actor, AcquireFails(a) PROVE \A x \in Record : Logged(x) => Logged(x)'
    BY <1>2 DEF AcquireFails, Logged
  <1>3. ASSUME NEW a \in Actor, Scan(a) PROVE \A x \in Record : Logged(x) => Logged(x)'
    BY <1>3 DEF Scan, Logged
  <1>4. ASSUME NEW a \in Actor, Replay(a) PROVE \A x \in Record : Logged(x) => Logged(x)'
    <2>1. PICK f \in spool :
            \/ UNCHANGED log
            \/ \E result : AppendResult(Outcome(f.id), result)
      BY <1>4 DEF Replay
    <2>2. Outcome(f.id) \in Record
      BY RecordsTyped DEF TypeOK, File, Actor
    <2>3. QED
      BY <2>1, <2>2, AppendResultKeeps DEF TypeOK, Logged
  <1>5. ASSUME NEW a \in Actor, RemoveReplayed(a) PROVE \A x \in Record : Logged(x) => Logged(x)'
    BY <1>5 DEF RemoveReplayed, Logged
  <1>6. ASSUME NEW a \in Actor, Quarantine(a) PROVE \A x \in Record : Logged(x) => Logged(x)'
    BY <1>6 DEF Quarantine, Logged
  <1>7. ASSUME NEW a \in Actor, Drained(a) PROVE \A x \in Record : Logged(x) => Logged(x)'
    BY <1>7 DEF Drained, Logged
  <1>8. ASSUME NEW a \in Actor, AppendIntent(a) PROVE \A x \in Record : Logged(x) => Logged(x)'
    BY <1>8, RecordsTyped, AppendResultKeeps DEF AppendIntent, TypeOK
  <1>9. ASSUME NEW a \in Actor, AppendOutcome(a) PROVE \A x \in Record : Logged(x) => Logged(x)'
    BY <1>9, RecordsTyped, AppendResultKeeps DEF AppendOutcome, TypeOK
  <1>10. ASSUME NEW a \in Actor, AppendReadOutcome(a) PROVE \A x \in Record : Logged(x) => Logged(x)'
    BY <1>10, RecordsTyped, AppendResultKeeps DEF AppendReadOutcome, TypeOK
  <1>11. ASSUME NEW a \in Actor, WriteTemp(a) PROVE \A x \in Record : Logged(x) => Logged(x)'
    BY <1>11 DEF WriteTemp, Logged
  <1>12. ASSUME NEW a \in Actor, WriteFails(a) PROVE \A x \in Record : Logged(x) => Logged(x)'
    BY <1>12 DEF WriteFails, Logged
  <1>13. ASSUME NEW a \in Actor, CommitFile(a) PROVE \A x \in Record : Logged(x) => Logged(x)'
    BY <1>13 DEF CommitFile, Logged
  <1>14. ASSUME NEW a \in Actor, Execute(a) PROVE \A x \in Record : Logged(x) => Logged(x)'
    BY <1>14 DEF Execute, Logged
  <1>15. ASSUME NEW a \in Actor, Crash(a) PROVE \A x \in Record : Logged(x) => Logged(x)'
    BY <1>15 DEF Crash, Logged
  <1>16. ASSUME Reconcile PROVE \A x \in Record : Logged(x) => Logged(x)'
    BY <1>16 DEF Reconcile, Logged
  <1>17. ASSUME Heal PROVE \A x \in Record : Logged(x) => Logged(x)'
    BY <1>17 DEF Heal, Logged
  <1>18. CASE UNCHANGED vars
    BY <1>18 DEF vars, Logged
  <1>19. QED
    BY <1>1, <1>2, <1>3, <1>4, <1>5, <1>6, <1>7, <1>8, <1>9, <1>10, <1>11,
       <1>12, <1>13, <1>14, <1>15, <1>16, <1>17, <1>18 DEF Next, Proceed

-----------------------------------------------------------------------------
\* The lock is held by the one actor inside a queued call.
LEMMA LockedInsideStep ==
  ASSUME TypeOK, LockedInside, SpoolerHasRun, [Next]_vars
  PROVE  LockedInside' /\ SpoolerHasRun'
  <1> USE SpoolAssumption DEF TypeOK, LockedInside, SpoolerHasRun,
                              Unlocked, Locked, Final, Goto, Return, FailedCall,
                              Finishing
  <1>1. ASSUME NEW a \in Actor, Acquire(a) PROVE LockedInside' /\ SpoolerHasRun'
    BY <1>1 DEF Acquire
  <1>2. ASSUME NEW a \in Actor, AcquireFails(a) PROVE LockedInside' /\ SpoolerHasRun'
    BY <1>2 DEF AcquireFails
  <1>3. ASSUME NEW a \in Actor, Scan(a) PROVE LockedInside' /\ SpoolerHasRun'
    BY <1>3 DEF Scan, ReplayError
  <1>4. ASSUME NEW a \in Actor, Replay(a) PROVE LockedInside' /\ SpoolerHasRun'
    BY <1>4 DEF Replay, ReplayError
  <1>5. ASSUME NEW a \in Actor, RemoveReplayed(a) PROVE LockedInside' /\ SpoolerHasRun'
    BY <1>5 DEF RemoveReplayed, ReplayError
  <1>6. ASSUME NEW a \in Actor, Quarantine(a) PROVE LockedInside' /\ SpoolerHasRun'
    BY <1>6 DEF Quarantine, ReplayError
  <1>7. ASSUME NEW a \in Actor, Drained(a) PROVE LockedInside' /\ SpoolerHasRun'
    BY <1>7 DEF Drained
  <1>8. ASSUME NEW a \in Actor, AppendIntent(a) PROVE LockedInside' /\ SpoolerHasRun'
    BY <1>8 DEF AppendIntent
  <1>9. ASSUME NEW a \in Actor, AppendOutcome(a) PROVE LockedInside' /\ SpoolerHasRun'
    BY <1>9 DEF AppendOutcome
  <1>10. ASSUME NEW a \in Actor, AppendReadOutcome(a) PROVE LockedInside' /\ SpoolerHasRun'
    BY <1>10 DEF AppendReadOutcome
  <1>11. ASSUME NEW a \in Actor, WriteTemp(a) PROVE LockedInside' /\ SpoolerHasRun'
    BY <1>11 DEF WriteTemp
  <1>12. ASSUME NEW a \in Actor, WriteFails(a) PROVE LockedInside' /\ SpoolerHasRun'
    BY <1>12 DEF WriteFails
  <1>13. ASSUME NEW a \in Actor, CommitFile(a) PROVE LockedInside' /\ SpoolerHasRun'
    BY <1>13 DEF CommitFile
  <1>14. ASSUME NEW a \in Actor, Execute(a) PROVE LockedInside' /\ SpoolerHasRun'
    BY <1>14 DEF Execute
  <1>15. ASSUME NEW a \in Actor, Crash(a) PROVE LockedInside' /\ SpoolerHasRun'
    BY <1>15 DEF Crash
  <1>16. ASSUME Reconcile PROVE LockedInside' /\ SpoolerHasRun'
    BY <1>16 DEF Reconcile
  <1>17. ASSUME Heal PROVE LockedInside' /\ SpoolerHasRun'
    BY <1>17 DEF Heal
  <1>18. CASE UNCHANGED vars
    BY <1>18 DEF vars
  <1>19. QED
    BY <1>1, <1>2, <1>3, <1>4, <1>5, <1>6, <1>7, <1>8, <1>9, <1>10, <1>11,
       <1>12, <1>13, <1>14, <1>15, <1>16, <1>17, <1>18 DEF Next, Proceed

-----------------------------------------------------------------------------
\* An operation runs only after its intent was recorded, and the record stays.
LEMMA RunningIsAnnouncedStep ==
  ASSUME TypeOK, RunningIsAnnounced, [Next]_vars
  PROVE  RunningIsAnnounced'
  <1> USE LogStep, RecordsTyped
      DEF TypeOK, RunningIsAnnounced, Goto, Return, FailedCall
  <1>1. ASSUME NEW a \in Actor, Acquire(a) PROVE RunningIsAnnounced'
    BY <1>1 DEF Acquire
  <1>2. ASSUME NEW a \in Actor, AcquireFails(a) PROVE RunningIsAnnounced'
    BY <1>2 DEF AcquireFails
  <1>3. ASSUME NEW a \in Actor, Scan(a) PROVE RunningIsAnnounced'
    BY <1>3 DEF Scan, ReplayError
  <1>4. ASSUME NEW a \in Actor, Replay(a) PROVE RunningIsAnnounced'
    BY <1>4 DEF Replay, ReplayError
  <1>5. ASSUME NEW a \in Actor, RemoveReplayed(a) PROVE RunningIsAnnounced'
    BY <1>5 DEF RemoveReplayed, ReplayError
  <1>6. ASSUME NEW a \in Actor, Quarantine(a) PROVE RunningIsAnnounced'
    BY <1>6 DEF Quarantine, ReplayError
  <1>7. ASSUME NEW a \in Actor, Drained(a) PROVE RunningIsAnnounced'
    BY <1>7 DEF Drained
  <1>8. ASSUME NEW a \in Actor, AppendIntent(a) PROVE RunningIsAnnounced'
    <2>1. CASE AppendResult(Intent(a), "committed") /\ Return(a, "running")
      <3>1. Logged(Intent(a))'
        BY <2>1, AppendResultKeeps
      <3>2. QED
        BY <2>1, <3>1
    <2>2. CASE Return(a, "refused")
      BY <2>2
    <2>3. QED
      BY <1>8, <2>1, <2>2 DEF AppendIntent
  <1>9. ASSUME NEW a \in Actor, AppendOutcome(a) PROVE RunningIsAnnounced'
    BY <1>9 DEF AppendOutcome
  <1>10. ASSUME NEW a \in Actor, AppendReadOutcome(a) PROVE RunningIsAnnounced'
    BY <1>10 DEF AppendReadOutcome
  <1>11. ASSUME NEW a \in Actor, WriteTemp(a) PROVE RunningIsAnnounced'
    BY <1>11 DEF WriteTemp
  <1>12. ASSUME NEW a \in Actor, WriteFails(a) PROVE RunningIsAnnounced'
    BY <1>12 DEF WriteFails
  <1>13. ASSUME NEW a \in Actor, CommitFile(a) PROVE RunningIsAnnounced'
    BY <1>13 DEF CommitFile
  <1>14. ASSUME NEW a \in Actor, Execute(a) PROVE RunningIsAnnounced'
    BY <1>14 DEF Execute
  <1>15. ASSUME NEW a \in Actor, Crash(a) PROVE RunningIsAnnounced'
    BY <1>15 DEF Crash
  <1>16. ASSUME Reconcile PROVE RunningIsAnnounced'
    BY <1>16 DEF Reconcile
  <1>17. ASSUME Heal PROVE RunningIsAnnounced'
    BY <1>17 DEF Heal
  <1>18. CASE UNCHANGED vars
    BY <1>18 DEF vars
  <1>19. QED
    BY <1>1, <1>2, <1>3, <1>4, <1>5, <1>6, <1>7, <1>8, <1>9, <1>10, <1>11,
       <1>12, <1>13, <1>14, <1>15, <1>16, <1>17, <1>18 DEF Next, Proceed

-----------------------------------------------------------------------------
\* Between its scan and its own append a call sees no marker and no unfinished
\* file: only the lock holder makes one.
LEMMA ReplaySeesCleanSpoolStep ==
  ASSUME TypeOK, LockedInside, ReplaySeesCleanSpool, [Next]_vars
  PROVE  ReplaySeesCleanSpool'
  <1> USE SpoolAssumption DEF TypeOK, LockedInside, ReplaySeesCleanSpool, Locked,
          Blocked, Unexpected, Marker, Goto, Return, FailedCall
  <1>1. ASSUME NEW a \in Actor, Acquire(a) PROVE ReplaySeesCleanSpool'
    BY <1>1 DEF Acquire
  <1>2. ASSUME NEW a \in Actor, AcquireFails(a) PROVE ReplaySeesCleanSpool'
    BY <1>2 DEF AcquireFails
  <1>3. ASSUME NEW a \in Actor, Scan(a) PROVE ReplaySeesCleanSpool'
    BY <1>3 DEF Scan, ReplayError
  <1>4. ASSUME NEW a \in Actor, Replay(a) PROVE ReplaySeesCleanSpool'
    BY <1>4 DEF Replay, ReplayError
  <1>5. ASSUME NEW a \in Actor, RemoveReplayed(a) PROVE ReplaySeesCleanSpool'
    BY <1>5 DEF RemoveReplayed, ReplayError
  <1>6. ASSUME NEW a \in Actor, Quarantine(a) PROVE ReplaySeesCleanSpool'
    BY <1>6 DEF Quarantine, ReplayError
  <1>7. ASSUME NEW a \in Actor, Drained(a) PROVE ReplaySeesCleanSpool'
    BY <1>7 DEF Drained
  <1>8. ASSUME NEW a \in Actor, AppendIntent(a) PROVE ReplaySeesCleanSpool'
    BY <1>8 DEF AppendIntent
  <1>9. ASSUME NEW a \in Actor, AppendOutcome(a) PROVE ReplaySeesCleanSpool'
    BY <1>9 DEF AppendOutcome
  <1>10. ASSUME NEW a \in Actor, AppendReadOutcome(a) PROVE ReplaySeesCleanSpool'
    BY <1>10 DEF AppendReadOutcome
  <1>11. ASSUME NEW a \in Actor, WriteTemp(a) PROVE ReplaySeesCleanSpool'
    BY <1>11 DEF WriteTemp
  <1>12. ASSUME NEW a \in Actor, WriteFails(a) PROVE ReplaySeesCleanSpool'
    BY <1>12 DEF WriteFails
  <1>13. ASSUME NEW a \in Actor, CommitFile(a) PROVE ReplaySeesCleanSpool'
    BY <1>13 DEF CommitFile
  <1>14. ASSUME NEW a \in Actor, Execute(a) PROVE ReplaySeesCleanSpool'
    BY <1>14 DEF Execute
  <1>15. ASSUME NEW a \in Actor, Crash(a) PROVE ReplaySeesCleanSpool'
    BY <1>15 DEF Crash
  <1>16. ASSUME Reconcile PROVE ReplaySeesCleanSpool'
    BY <1>16 DEF Reconcile
  <1>17. ASSUME Heal PROVE ReplaySeesCleanSpool'
    BY <1>17 DEF Heal
  <1>18. CASE UNCHANGED vars
    BY <1>18 DEF vars
  <1>19. QED
    BY <1>1, <1>2, <1>3, <1>4, <1>5, <1>6, <1>7, <1>8, <1>9, <1>10, <1>11,
       <1>12, <1>13, <1>14, <1>15, <1>16, <1>17, <1>18 DEF Next, Proceed

\* A call appends its own record with the spool empty.
LEMMA AppendSeesEmptySpoolStep ==
  ASSUME TypeOK, LockedInside, AppendSeesEmptySpool, [Next]_vars
  PROVE  AppendSeesEmptySpool'
  <1> USE SpoolAssumption DEF TypeOK, LockedInside, AppendSeesEmptySpool, Locked,
          Goto, Return, FailedCall
  <1>1. ASSUME NEW a \in Actor, Acquire(a) PROVE AppendSeesEmptySpool'
    BY <1>1 DEF Acquire
  <1>2. ASSUME NEW a \in Actor, AcquireFails(a) PROVE AppendSeesEmptySpool'
    BY <1>2 DEF AcquireFails
  <1>3. ASSUME NEW a \in Actor, Scan(a) PROVE AppendSeesEmptySpool'
    BY <1>3 DEF Scan, ReplayError
  <1>4. ASSUME NEW a \in Actor, Replay(a) PROVE AppendSeesEmptySpool'
    BY <1>4 DEF Replay, ReplayError
  <1>5. ASSUME NEW a \in Actor, RemoveReplayed(a) PROVE AppendSeesEmptySpool'
    BY <1>5 DEF RemoveReplayed, ReplayError
  <1>6. ASSUME NEW a \in Actor, Quarantine(a) PROVE AppendSeesEmptySpool'
    BY <1>6 DEF Quarantine, ReplayError
  <1>7. ASSUME NEW a \in Actor, Drained(a) PROVE AppendSeesEmptySpool'
    BY <1>7 DEF Drained
  <1>8. ASSUME NEW a \in Actor, AppendIntent(a) PROVE AppendSeesEmptySpool'
    BY <1>8 DEF AppendIntent
  <1>9. ASSUME NEW a \in Actor, AppendOutcome(a) PROVE AppendSeesEmptySpool'
    BY <1>9 DEF AppendOutcome
  <1>10. ASSUME NEW a \in Actor, AppendReadOutcome(a) PROVE AppendSeesEmptySpool'
    BY <1>10 DEF AppendReadOutcome
  <1>11. ASSUME NEW a \in Actor, WriteTemp(a) PROVE AppendSeesEmptySpool'
    BY <1>11 DEF WriteTemp
  <1>12. ASSUME NEW a \in Actor, WriteFails(a) PROVE AppendSeesEmptySpool'
    BY <1>12 DEF WriteFails
  <1>13. ASSUME NEW a \in Actor, CommitFile(a) PROVE AppendSeesEmptySpool'
    BY <1>13 DEF CommitFile
  <1>14. ASSUME NEW a \in Actor, Execute(a) PROVE AppendSeesEmptySpool'
    BY <1>14 DEF Execute
  <1>15. ASSUME NEW a \in Actor, Crash(a) PROVE AppendSeesEmptySpool'
    BY <1>15 DEF Crash
  <1>16. ASSUME Reconcile PROVE AppendSeesEmptySpool'
    BY <1>16 DEF Reconcile
  <1>17. ASSUME Heal PROVE AppendSeesEmptySpool'
    BY <1>17 DEF Heal
  <1>18. CASE UNCHANGED vars
    BY <1>18 DEF vars
  <1>19. QED
    BY <1>1, <1>2, <1>3, <1>4, <1>5, <1>6, <1>7, <1>8, <1>9, <1>10, <1>11,
       <1>12, <1>13, <1>14, <1>15, <1>16, <1>17, <1>18 DEF Next, Proceed

-----------------------------------------------------------------------------
\* A mutation writes at most one spool file, under a number no file has.
LEMMA SpoolNamesStep ==
  ASSUME TypeOK, LockedInside, SpoolerHasRun, NotYetSpooled, SpoolNamesUnique,
         [Next]_vars
  PROVE  NotYetSpooled' /\ SpoolNamesUnique'
  <1> DEFINE Spooled == {"commit", "queued", "marked", "unspooled", "crashed"}
  <1> USE SpoolAssumption
  <1>21. ASSUME NEW a \in Actor, NEW l, Goto(a, l), spool' = spool,
               pc[a] \notin Spooled \/ l \in Spooled
        PROVE  NotYetSpooled' /\ SpoolNamesUnique'
    BY <1>21 DEF TypeOK, Goto, NotYetSpooled, SpoolNamesUnique, Actor
  <1>22. ASSUME NEW a \in Actor, NEW l, Goto(a, l), pc[a] \notin Spooled,
               NEW f \in spool, spool' = spool \ {f}
        PROVE  NotYetSpooled' /\ SpoolNamesUnique'
    BY <1>22 DEF TypeOK, Goto, NotYetSpooled, SpoolNamesUnique, Actor
  <1>23. ASSUME NEW a \in Actor, NEW l, Goto(a, l), pc[a] \notin Spooled \/ l \in Spooled,
               NEW f \in spool, NEW g \in File, g.seq = f.seq, g.id = f.id,
               spool' = (spool \ {f}) \cup {g}
        PROVE  NotYetSpooled' /\ SpoolNamesUnique'
    <2>1. SpoolNamesUnique'
      BY <1>23 DEF SpoolNamesUnique
    <2>2. NotYetSpooled'
      BY <1>23 DEF TypeOK, Goto, NotYetSpooled, Actor
    <2>3. QED
      BY <2>1, <2>2
  <1>1. ASSUME NEW a \in Actor, Acquire(a) PROVE NotYetSpooled' /\ SpoolNamesUnique'
    BY <1>1, <1>21 DEF Acquire, Return, FailedCall
  <1>2. ASSUME NEW a \in Actor, AcquireFails(a) PROVE NotYetSpooled' /\ SpoolNamesUnique'
    BY <1>2, <1>21 DEF AcquireFails, Return, FailedCall
  <1>3. ASSUME NEW a \in Actor, Scan(a) PROVE NotYetSpooled' /\ SpoolNamesUnique'
    BY <1>3, <1>21 DEF Scan, Return, FailedCall, ReplayError
  <1>4. ASSUME NEW a \in Actor, Replay(a) PROVE NotYetSpooled' /\ SpoolNamesUnique'
    BY <1>4, <1>21 DEF Replay, Return, FailedCall, ReplayError
  <1>5. ASSUME NEW a \in Actor, RemoveReplayed(a) PROVE NotYetSpooled' /\ SpoolNamesUnique'
    BY <1>5, <1>21, <1>22 DEF RemoveReplayed, ReplayError, Return
  <1>6. ASSUME NEW a \in Actor, Quarantine(a) PROVE NotYetSpooled' /\ SpoolNamesUnique'
    <2>1. PICK f \in spool :
            \/ spool' = (spool \ {f}) \cup {[f EXCEPT !.kind = "indeterminate"]}
            \/ UNCHANGED spool
      BY <1>6 DEF Quarantine
    <2>2. PICK l : Goto(a, l)
      BY <1>6 DEF Quarantine, ReplayError, Return
    <2>3. f \in File /\ pc[a] \notin Spooled
      BY <1>6 DEF TypeOK, Quarantine
    <2>4. [f EXCEPT !.kind = "indeterminate"] \in File
      BY <2>3 DEF File
    <2>5. QED
      BY <1>21, <1>23, <2>1, <2>2, <2>3, <2>4 DEF File
  <1>7. ASSUME NEW a \in Actor, Drained(a) PROVE NotYetSpooled' /\ SpoolNamesUnique'
    BY <1>7, <1>21 DEF Drained, Return, FailedCall
  <1>8. ASSUME NEW a \in Actor, AppendIntent(a) PROVE NotYetSpooled' /\ SpoolNamesUnique'
    BY <1>8, <1>21 DEF AppendIntent, Return, FailedCall
  <1>9. ASSUME NEW a \in Actor, AppendOutcome(a) PROVE NotYetSpooled' /\ SpoolNamesUnique'
    BY <1>9, <1>21 DEF AppendOutcome, Return, FailedCall
  <1>10. ASSUME NEW a \in Actor, AppendReadOutcome(a) PROVE NotYetSpooled' /\ SpoolNamesUnique'
    BY <1>10, <1>21 DEF AppendReadOutcome, Return, FailedCall
  <1>11. ASSUME NEW a \in Actor, WriteTemp(a) PROVE NotYetSpooled' /\ SpoolNamesUnique'
    <2>1. PICK n \in 1..MaxSeq, kind \in {"ready", "indeterminate"} :
            /\ NextSequence(n)
            /\ spool' = spool \cup {[seq |-> n, id |-> a, temp |-> TRUE, kind |-> kind]}
      BY <1>11 DEF WriteTemp
    <2>2. a \in Mutation /\ pc[a] \notin Spooled /\ Goto(a, "commit")
      BY <1>11 DEF WriteTemp
    <2>3. \A f \in spool : f.id # a /\ f.seq # n
      BY <2>1, <2>2 DEF NotYetSpooled, NextSequence, TypeOK, File
    <2>4. SpoolNamesUnique'
      <3>1. SUFFICES ASSUME NEW f \in spool', NEW g \in spool',
                            f.seq = g.seq \/ f.id = g.id
                     PROVE  f = g
        BY DEF SpoolNamesUnique
      <3>2. CASE f \in spool /\ g \in spool
        BY <3>1, <3>2 DEF SpoolNamesUnique
      <3>3. CASE f \notin spool /\ g \notin spool
        BY <2>1, <3>3
      <3>4. CASE f \in spool /\ g \notin spool
        BY <2>1, <2>3, <3>1, <3>4
      <3>5. CASE f \notin spool /\ g \in spool
        BY <2>1, <2>3, <3>1, <3>5
      <3>6. QED
        BY <3>2, <3>3, <3>4, <3>5
    <2>5. NotYetSpooled'
      BY <2>1, <2>2 DEF TypeOK, Goto, NotYetSpooled, Actor
    <2>6. QED
      BY <2>4, <2>5
  <1>12. ASSUME NEW a \in Actor, WriteFails(a) PROVE NotYetSpooled' /\ SpoolNamesUnique'
    BY <1>12, <1>21 DEF WriteFails, Return, FailedCall
  <1>13. ASSUME NEW a \in Actor, CommitFile(a) PROVE NotYetSpooled' /\ SpoolNamesUnique'
    <2>1. PICK f \in spool :
            /\ f.id = a
            /\ \/ spool' = (spool \ {f}) \cup {[f EXCEPT !.temp = FALSE]}
               \/ spool' = spool \ {f}
               \/ spool' = spool
      BY <1>13 DEF CommitFile
    <2>2. FailedCall(a) = "unspooled"
      BY <1>13 DEF CommitFile, FailedCall, SpoolerHasRun
    <2>3. PICK l \in Spooled : Goto(a, l)
      BY <1>13, <2>2 DEF CommitFile, Return
    <2>4. CASE spool' = (spool \ {f}) \cup {[f EXCEPT !.temp = FALSE]}
      <3>1. f \in File
        BY DEF TypeOK
      <3>2. [f EXCEPT !.temp = FALSE] \in File
        BY <3>1 DEF File
      <3>3. QED
        BY <1>23, <2>3, <2>4, <3>1, <3>2 DEF File
    <2>5. CASE spool' = spool \ {f} \/ spool' = spool
      BY <2>3, <2>5 DEF TypeOK, Goto, NotYetSpooled, SpoolNamesUnique, Actor
    <2>6. QED
      BY <2>1, <2>4, <2>5
  <1>14. ASSUME NEW a \in Actor, Execute(a) PROVE NotYetSpooled' /\ SpoolNamesUnique'
    BY <1>14, <1>21 DEF Execute
  <1>15. ASSUME NEW a \in Actor, Crash(a) PROVE NotYetSpooled' /\ SpoolNamesUnique'
    BY <1>15, <1>21 DEF Crash
  <1>16. ASSUME Reconcile PROVE NotYetSpooled' /\ SpoolNamesUnique'
    BY <1>16 DEF Reconcile, NotYetSpooled, SpoolNamesUnique
  <1>17. ASSUME Heal PROVE NotYetSpooled' /\ SpoolNamesUnique'
    BY <1>17 DEF Heal, NotYetSpooled, SpoolNamesUnique
  <1>18. CASE UNCHANGED vars
    BY <1>18 DEF vars, NotYetSpooled, SpoolNamesUnique
  <1>19. QED
    BY <1>1, <1>2, <1>3, <1>4, <1>5, <1>6, <1>7, <1>8, <1>9, <1>10, <1>11,
       <1>12, <1>13, <1>14, <1>15, <1>16, <1>17, <1>18 DEF Next, Proceed

-----------------------------------------------------------------------------
\* The oldest waiting outcome is one file.
LEMMA OldestUnique ==
  ASSUME TypeOK, SpoolNamesUnique,
         NEW f \in spool, NEW g \in spool, Oldest(f), Oldest(g)
  PROVE  f = g
  <1>1. f.seq \in Nat /\ g.seq \in Nat
    BY SpoolAssumption DEF TypeOK, File
  <1>2. f.seq <= g.seq /\ g.seq <= f.seq
    BY DEF Oldest
  <1>3. QED
    BY <1>1, <1>2 DEF SpoolNamesUnique

\* The file a replay removes holds an outcome the log already has.
LEMMA RemovedIsLoggedStep ==
  ASSUME TypeOK, LockedInside, SpoolNamesUnique, RemovedIsLogged, [Next]_vars
  PROVE  RemovedIsLogged'
  <1>21. ASSUME spool' = spool, \A b \in Actor : pc'[b] = "remove" => pc[b] = "remove"
         PROVE  RemovedIsLogged'
    <2>1. \A f \in spool : Outcome(f.id) \in Record
      BY RecordsTyped DEF TypeOK, File, Actor
    <2>2. \A f \in spool : Oldest(f)' => Oldest(f)
      BY <1>21 DEF Oldest
    <2>3. \A f \in spool : Logged(Outcome(f.id)) => Logged(Outcome(f.id))'
      BY <2>1, LogStep
    <2>4. QED
      BY <1>21, <2>2, <2>3 DEF RemovedIsLogged, Oldest
  <1>22. ASSUME NEW a \in Actor, lock = a, NEW l, Goto(a, l), l # "remove"
         PROVE  RemovedIsLogged'
    <2>1. \A b \in Actor : pc'[b] # "remove"
      BY <1>22 DEF TypeOK, LockedInside, Locked, Goto
    <2>2. QED
      BY <2>1 DEF RemovedIsLogged
  <1>23. ASSUME NEW a \in Actor, pc[a] \in Locked PROVE lock = a
    BY <1>23 DEF LockedInside
  <1>1. ASSUME NEW a \in Actor, Acquire(a) PROVE RemovedIsLogged'
    BY <1>1, <1>21 DEF Acquire, TypeOK, Goto, FailedCall
  <1>2. ASSUME NEW a \in Actor, AcquireFails(a) PROVE RemovedIsLogged'
    BY <1>2, <1>21 DEF AcquireFails, TypeOK, Goto, FailedCall
  <1>3. ASSUME NEW a \in Actor, Scan(a) PROVE RemovedIsLogged'
    BY <1>3, <1>22, <1>23 DEF Scan, Locked, Return, FailedCall, ReplayError
  <1>4. ASSUME NEW a \in Actor, Replay(a) PROVE RemovedIsLogged'
    <2>1. PICK f \in spool :
            /\ Oldest(f)
            /\ \/ ReplayError(a)
               \/ Goto(a, "quarantine")
               \/ /\ \/ AppendResult(Outcome(f.id), "committed")
                     \/ AppendResult(Outcome(f.id), "committedWithError")
                  /\ Goto(a, "remove")
      BY <1>4 DEF Replay
    <2>2. CASE ReplayError(a) \/ Goto(a, "quarantine")
      BY <1>4, <1>22, <1>23, <2>2 DEF Replay, Locked, ReplayError, Return, FailedCall
    <2>3. CASE \/ AppendResult(Outcome(f.id), "committed")
               \/ AppendResult(Outcome(f.id), "committedWithError")
      <3>1. Outcome(f.id) \in Record
        BY RecordsTyped DEF TypeOK, File, Actor
      <3>2. Logged(Outcome(f.id))'
        BY <2>3, <3>1, AppendResultKeeps DEF TypeOK
      <3>3. \A g \in spool : Oldest(g) => g = f
        BY <2>1, OldestUnique
      <3>4. spool' = spool
        BY <1>4 DEF Replay
      <3>5. \A g \in spool' : Oldest(g)' => g = f
        BY <3>3, <3>4 DEF Oldest
      <3>6. QED
        BY <3>2, <3>5 DEF RemovedIsLogged, Outcome
    <2>4. QED
      BY <2>1, <2>2, <2>3
  <1>5. ASSUME NEW a \in Actor, RemoveReplayed(a) PROVE RemovedIsLogged'
    BY <1>5, <1>22, <1>23 DEF RemoveReplayed, Locked, Return, FailedCall, ReplayError
  <1>6. ASSUME NEW a \in Actor, Quarantine(a) PROVE RemovedIsLogged'
    BY <1>6, <1>22, <1>23 DEF Quarantine, Locked, Return, FailedCall, ReplayError
  <1>7. ASSUME NEW a \in Actor, Drained(a) PROVE RemovedIsLogged'
    BY <1>7, <1>22, <1>23 DEF Drained, Locked, Return, FailedCall
  <1>8. ASSUME NEW a \in Actor, AppendIntent(a) PROVE RemovedIsLogged'
    BY <1>8, <1>22, <1>23 DEF AppendIntent, Locked, Return, FailedCall
  <1>9. ASSUME NEW a \in Actor, AppendOutcome(a) PROVE RemovedIsLogged'
    BY <1>9, <1>22, <1>23 DEF AppendOutcome, Locked, Return, FailedCall
  <1>10. ASSUME NEW a \in Actor, AppendReadOutcome(a) PROVE RemovedIsLogged'
    BY <1>10, <1>22, <1>23 DEF AppendReadOutcome, Locked, Return, FailedCall
  <1>11. ASSUME NEW a \in Actor, WriteTemp(a) PROVE RemovedIsLogged'
    BY <1>11, <1>22, <1>23 DEF WriteTemp, Locked, Return, FailedCall
  <1>12. ASSUME NEW a \in Actor, WriteFails(a) PROVE RemovedIsLogged'
    BY <1>12, <1>22, <1>23 DEF WriteFails, Locked, Return, FailedCall
  <1>13. ASSUME NEW a \in Actor, CommitFile(a) PROVE RemovedIsLogged'
    BY <1>13, <1>22, <1>23 DEF CommitFile, Locked, Return, FailedCall
  <1>14. ASSUME NEW a \in Actor, Execute(a) PROVE RemovedIsLogged'
    BY <1>14, <1>21 DEF Execute, TypeOK, Goto, FailedCall
  <1>15. ASSUME NEW a \in Actor, Crash(a) PROVE RemovedIsLogged'
    BY <1>15, <1>21 DEF Crash, TypeOK, Goto, FailedCall
  <1>16. ASSUME Reconcile PROVE RemovedIsLogged'
    <2>1. PICK m \in spool : Marker(m) /\ spool' = spool \ {m}
      BY <1>16 DEF Reconcile
    <2>2. \A f \in spool' : Oldest(f)' => Oldest(f)
      BY <2>1 DEF Oldest, Ready, Marker
    <2>3. log' = log /\ pc' = pc
      BY <1>16 DEF Reconcile
    <2>4. QED
      BY <2>1, <2>2, <2>3 DEF RemovedIsLogged, Logged, Outcome
  <1>17. ASSUME Heal PROVE RemovedIsLogged'
    BY <1>17, <1>21 DEF Heal
  <1>18. CASE UNCHANGED vars
    BY <1>18, <1>21 DEF vars
  <1>19. QED
    BY <1>1, <1>2, <1>3, <1>4, <1>5, <1>6, <1>7, <1>8, <1>9, <1>10, <1>11,
       <1>12, <1>13, <1>14, <1>15, <1>16, <1>17, <1>18 DEF Next, Proceed

-----------------------------------------------------------------------------
\* An operation that has run was announced before.
LEMMA IntentPrecedesExecutionStep ==
  ASSUME TypeOK, RunningIsAnnounced, IntentPrecedesExecution, [Next]_vars
  PROVE  IntentPrecedesExecution'
  <1>1. \A a \in Actor : Logged(Intent(a)) => Logged(Intent(a))'
    BY LogStep, RecordsTyped
  <1>2. \A a \in executed' : a \in executed \/ (a \in Actor /\ pc[a] = "running")
    BY DEF Next, Proceed, Acquire, AcquireFails, Scan, Replay, RemoveReplayed,
           Quarantine, Drained, AppendIntent, AppendOutcome, AppendReadOutcome,
           WriteTemp, WriteFails, CommitFile, Execute, Crash, Reconcile, Heal, vars
  <1>3. QED
    BY <1>1, <1>2 DEF IntentPrecedesExecution, RunningIsAnnounced, TypeOK, Intent

-----------------------------------------------------------------------------
\* What the caller was told about its outcome stays true.
LEMMA VerdictIsTrueStep ==
  ASSUME TypeOK, LockedInside, SpoolerHasRun, RemovedIsLogged, SpoolNamesUnique,
         VerdictIsTrue, [Next]_vars
  PROVE  VerdictIsTrue'
  <1> DEFINE Told == {"settled", "queued", "marked"}
             Has(m) == \E f \in spool : f.id = m /\ ~f.temp
             Mark(m) == \E f \in spool : f.id = m /\ Marker(f)
  <1>20. \A m \in Mutation : Logged(Outcome(m)) => Logged(Outcome(m))'
    BY LogStep, RecordsTyped DEF Actor
  <1>21. ASSUME \A m \in Mutation : pc'[m] \in Told => pc'[m] = pc[m],
                \A m \in Mutation : Has(m) => Has(m)' \/ Logged(Outcome(m)) \/ m \in reconciled',
                \A m \in Mutation : Mark(m) => Mark(m)' \/ m \in reconciled',
                reconciled \subseteq reconciled'
         PROVE  VerdictIsTrue'
    BY <1>20, <1>21 DEF VerdictIsTrue, Kept, Outcome
  <1>22. ASSUME spool' = spool, reconciled' = reconciled,
                \A m \in Mutation : pc'[m] \in Told => pc'[m] = pc[m]
         PROVE  VerdictIsTrue'
    BY <1>21, <1>22 DEF Marker
  <1>1. ASSUME NEW a \in Actor, Acquire(a) PROVE VerdictIsTrue'
    BY <1>1, <1>22 DEF Acquire, TypeOK, Actor, Goto, Return, FailedCall
  <1>2. ASSUME NEW a \in Actor, AcquireFails(a) PROVE VerdictIsTrue'
    BY <1>2, <1>22 DEF AcquireFails, TypeOK, Actor, Goto, Return, FailedCall
  <1>3. ASSUME NEW a \in Actor, Scan(a) PROVE VerdictIsTrue'
    BY <1>3, <1>22 DEF Scan, TypeOK, Actor, Goto, Return, FailedCall, ReplayError
  <1>4. ASSUME NEW a \in Actor, Replay(a) PROVE VerdictIsTrue'
    BY <1>4, <1>22 DEF Replay, TypeOK, Actor, Goto, Return, FailedCall, ReplayError
  <1>5. ASSUME NEW a \in Actor, RemoveReplayed(a) PROVE VerdictIsTrue'
    <2>1. PICK f \in spool : Oldest(f) /\ (spool' = spool \ {f} \/ spool' = spool)
      BY <1>5 DEF RemoveReplayed
    <2>2. \A m \in Mutation : pc'[m] \in Told => pc'[m] = pc[m]
      BY <1>5 DEF RemoveReplayed, TypeOK, Actor, Goto, Return, FailedCall, ReplayError
    <2>3. Logged(Outcome(f.id))
      BY <1>5, <2>1 DEF RemoveReplayed, RemovedIsLogged
    <2>4. \A m \in Mutation : Has(m) => Has(m)' \/ Logged(Outcome(m))
      BY <2>1, <2>3
    <2>5. \A m \in Mutation : Mark(m) => Mark(m)'
      BY <2>1 DEF Oldest, Ready, Marker
    <2>6. QED
      BY <1>5, <1>21, <2>2, <2>4, <2>5 DEF RemoveReplayed
  <1>6. ASSUME NEW a \in Actor, Quarantine(a) PROVE VerdictIsTrue'
    <2>1. PICK f \in spool :
            /\ Oldest(f)
            /\ \/ spool' = (spool \ {f}) \cup {[f EXCEPT !.kind = "indeterminate"]}
               \/ spool' = spool
      BY <1>6 DEF Quarantine
    <2>2. \A m \in Mutation : pc'[m] \in Told => pc'[m] = pc[m]
      BY <1>6 DEF Quarantine, TypeOK, Actor, Goto, Return, FailedCall, ReplayError
    <2>3. /\ [f EXCEPT !.kind = "indeterminate"].id = f.id
          /\ [f EXCEPT !.kind = "indeterminate"].temp = f.temp
      BY DEF TypeOK, File
    <2>4. \A m \in Mutation : Has(m) => Has(m)'
      BY <2>1, <2>3
    <2>5. \A m \in Mutation : Mark(m) => Mark(m)'
      BY <2>1 DEF Oldest, Ready, Marker
    <2>6. QED
      BY <1>6, <1>21, <2>2, <2>4, <2>5 DEF Quarantine
  <1>7. ASSUME NEW a \in Actor, Drained(a) PROVE VerdictIsTrue'
    BY <1>7, <1>22 DEF Drained, TypeOK, Actor, Goto, Return, FailedCall
  <1>8. ASSUME NEW a \in Actor, AppendIntent(a) PROVE VerdictIsTrue'
    BY <1>8, <1>22 DEF AppendIntent, TypeOK, Actor, Goto, Return, FailedCall
  <1>9. ASSUME NEW a \in Actor, AppendOutcome(a) PROVE VerdictIsTrue'
    <2>1. Outcome(a) \in Record
      BY RecordsTyped
    <2>2. CASE /\ \/ AppendResult(Outcome(a), "committed")
                  \/ AppendResult(Outcome(a), "committedWithError")
               /\ Return(a, "settled")
      <3>1. Logged(Outcome(a))'
        BY <2>1, <2>2, AppendResultKeeps DEF TypeOK
      <3>2. \A m \in Mutation : m # a => pc'[m] = pc[m]
        BY <2>2 DEF TypeOK, Actor, Return, Goto
      <3>3. pc'[a] \notin {"queued", "marked"}
        BY <2>2 DEF TypeOK, Actor, Return, Goto, FailedCall
      <3>4. spool' = spool /\ reconciled' = reconciled
        BY <1>9 DEF AppendOutcome
      <3>5. QED
        BY <1>20, <3>1, <3>2, <3>3, <3>4 DEF VerdictIsTrue, Kept, Marker, Outcome
    <2>3. CASE Goto(a, "write") \/ Goto(a, "mark")
      BY <1>9, <1>22, <2>3 DEF AppendOutcome, TypeOK, Actor, Goto
    <2>4. QED
      BY <1>9, <2>2, <2>3 DEF AppendOutcome
  <1>10. ASSUME NEW a \in Actor, AppendReadOutcome(a) PROVE VerdictIsTrue'
    BY <1>10, <1>22 DEF AppendReadOutcome, TypeOK, Actor, Goto, Return, FailedCall
  <1>11. ASSUME NEW a \in Actor, WriteTemp(a) PROVE VerdictIsTrue'
    <2>1. \A m \in Mutation : pc'[m] \in Told => pc'[m] = pc[m]
      BY <1>11 DEF WriteTemp, TypeOK, Actor, Goto
    <2>2. spool \subseteq spool' /\ reconciled' = reconciled
      BY <1>11 DEF WriteTemp
    <2>3. QED
      BY <1>21, <2>1, <2>2 DEF Marker
  <1>12. ASSUME NEW a \in Actor, WriteFails(a) PROVE VerdictIsTrue'
    BY <1>12, <1>22 DEF WriteFails, TypeOK, Actor, Goto, Return, FailedCall
  <1>13. ASSUME NEW a \in Actor, CommitFile(a) PROVE VerdictIsTrue'
    <2>1. PICK f \in spool :
            /\ f.temp
            /\ f.id = a
            /\ \/ /\ spool' = (spool \ {f}) \cup {[f EXCEPT !.temp = FALSE]}
                  /\ \/ Return(a, IF f.kind = "ready" THEN "queued" ELSE "marked")
                     \/ ~healthy /\ Return(a, "unspooled")
               \/ /\ spool' = spool \ {f} \/ spool' = spool
                  /\ Return(a, "unspooled")
      BY <1>13 DEF CommitFile
    <2>2. log' = log /\ reconciled' = reconciled /\ a \in Actor
      BY <1>13 DEF CommitFile
    <2>3. \A m \in Mutation : Has(m) => Has(m)'
      BY <2>1
    <2>4. \A m \in Mutation : Mark(m) => Mark(m)'
      BY <2>1 DEF Marker
    <2>5. \A m \in Mutation : m # a => pc'[m] = pc[m]
      BY <2>1 DEF TypeOK, Actor, Return, Goto
    <2>6. FailedCall(a) = "unspooled"
      BY <1>13 DEF CommitFile, FailedCall, SpoolerHasRun
    <2>7. CASE pc'[a] = "unspooled"
      <3>1. \A m \in Mutation : pc'[m] \in Told => pc'[m] = pc[m]
        BY <2>5, <2>7
      <3>2. QED
        BY <1>21, <2>2, <2>3, <2>4, <3>1
    <2>8. CASE /\ spool' = (spool \ {f}) \cup {[f EXCEPT !.temp = FALSE]}
               /\ pc'[a] = (IF f.kind = "ready" THEN "queued" ELSE "marked")
      <3> DEFINE g == [f EXCEPT !.temp = FALSE]
      <3>1. g \in spool' /\ g.id = a /\ g.kind = f.kind /\ ~g.temp
        BY <2>1, <2>8 DEF TypeOK, File
      <3>2. f.kind \in {"ready", "indeterminate"}
        BY DEF TypeOK, File
      <3>3. Has(a)' /\ (pc'[a] = "marked" => Mark(a)')
        <4> HIDE DEF g
        <4>1. QED
          BY <2>8, <3>1, <3>2 DEF Marker
      <3>4. pc'[a] # "settled"
        BY <2>8
      <3>5. QED
        BY <1>20, <2>2, <2>3, <2>4, <2>5, <3>3, <3>4 DEF VerdictIsTrue, Kept, Outcome
    <2>9. QED
      BY <2>1, <2>6, <2>7, <2>8 DEF TypeOK, Actor, Return, Goto
  <1>14. ASSUME NEW a \in Actor, Execute(a) PROVE VerdictIsTrue'
    BY <1>14, <1>22 DEF Execute, TypeOK, Actor, Goto, Return, FailedCall
  <1>15. ASSUME NEW a \in Actor, Crash(a) PROVE VerdictIsTrue'
    BY <1>15, <1>22 DEF Crash, TypeOK, Actor, Goto, Return, FailedCall
  <1>16. ASSUME Reconcile PROVE VerdictIsTrue'
    <2>1. PICK f \in spool : spool' = spool \ {f} /\ reconciled' = reconciled \cup {f.id}
      BY <1>16 DEF Reconcile
    <2>2. pc' = pc
      BY <1>16 DEF Reconcile
    <2>3. QED
      BY <1>21, <2>1, <2>2 DEF Marker
  <1>17. ASSUME Heal PROVE VerdictIsTrue'
    BY <1>17, <1>22 DEF Heal
  <1>18. CASE UNCHANGED vars
    BY <1>18, <1>22 DEF vars
  <1>19. QED
    BY <1>1, <1>2, <1>3, <1>4, <1>5, <1>6, <1>7, <1>8, <1>9, <1>10, <1>11,
       <1>12, <1>13, <1>14, <1>15, <1>16, <1>17, <1>18 DEF Next, Proceed

-----------------------------------------------------------------------------
SafetyInv ==
  /\ TypeOK
  /\ QueueOwnership
  /\ SpoolNamesUnique
  /\ IntentPrecedesExecution
  /\ VerdictIsTrue

LEMMA SafetyInitially == Init => SafetyInv
  <1> SUFFICES ASSUME Init PROVE SafetyInv
    OBVIOUS
  <1>1. TypeOK
    BY TypeInitially
  <1>2. QueueOwnership
    BY SpoolAssumption DEF Init, QueueOwnership, LockedInside, SpoolerHasRun,
       RunningIsAnnounced, ReplaySeesCleanSpool, AppendSeesEmptySpool,
       RemovedIsLogged, NotYetSpooled, Locked, Actor
  <1>3. SpoolNamesUnique /\ IntentPrecedesExecution
    BY DEF Init, SpoolNamesUnique, IntentPrecedesExecution
  <1>4. VerdictIsTrue
    BY DEF Init, VerdictIsTrue, Actor
  <1>5. QED
    BY <1>1, <1>2, <1>3, <1>4 DEF SafetyInv

LEMMA SafetyStep == SafetyInv /\ [Next]_vars => SafetyInv'
  <1> SUFFICES ASSUME SafetyInv, [Next]_vars PROVE SafetyInv'
    OBVIOUS
  <1> USE DEF SafetyInv, QueueOwnership
  <1>1. TypeOK'
    BY TypeStep
  <1>2. LockedInside' /\ SpoolerHasRun'
    BY LockedInsideStep
  <1>3. RunningIsAnnounced' /\ IntentPrecedesExecution'
    BY RunningIsAnnouncedStep, IntentPrecedesExecutionStep
  <1>4. ReplaySeesCleanSpool' /\ AppendSeesEmptySpool'
    BY ReplaySeesCleanSpoolStep, AppendSeesEmptySpoolStep
  <1>5. RemovedIsLogged'
    BY RemovedIsLoggedStep
  <1>6. NotYetSpooled' /\ SpoolNamesUnique'
    BY SpoolNamesStep
  <1>7. VerdictIsTrue'
    BY VerdictIsTrueStep
  <1>8. QED
    BY <1>1, <1>2, <1>3, <1>4, <1>5, <1>6, <1>7

LEMMA SafetyAlways == Spec => []SafetyInv
  BY SafetyInitially, SafetyStep, PTL DEF Spec

\* Nothing runs on a server, and no read reaches one, before its intent is in
\* the audit log, whatever fails or crashes.
THEOREM IntentFirst == Spec => []IntentPrecedesExecution
  <1>1. SafetyInv => IntentPrecedesExecution
    BY DEF SafetyInv
  <1>2. QED
    BY <1>1, SafetyAlways, PTL

\* A mutation told that its outcome is durable, queued or quarantined was told
\* the truth, and it stays true for ever after.
THEOREM VerdictsHold == Spec => []VerdictIsTrue
  <1>1. SafetyInv => VerdictIsTrue
    BY DEF SafetyInv
  <1>2. QED
    BY <1>1, SafetyAlways, PTL

\* No two spool files have one sequence number or one mutation.
THEOREM NamesUnique == Spec => []SpoolNamesUnique
  <1>1. SafetyInv => SpoolNamesUnique
    BY DEF SafetyInv
  <1>2. QED
    BY <1>1, SafetyAlways, PTL

\* The queue belongs to the holder of the lock.
THEOREM Ownership == Spec => []QueueOwnership
  <1>1. SafetyInv => QueueOwnership
    BY DEF SafetyInv
  <1>2. QED
    BY <1>1, SafetyAlways, PTL

-----------------------------------------------------------------------------
LEMMA AppendDetermines ==
  ASSUME log \in Seq(Record), NEW r \in Record, NEW x \in Record, log' = Append(log, r)
  PROVE  log' # log /\ (log' = Append(log, x) => x = r)
  <1>1. Len(log') = Len(log) + 1 /\ Len(log) \in Nat /\ log'[Len(log) + 1] = r
    OBVIOUS
  <1>2. log' = Append(log, x) => log'[Len(log) + 1] = x
    OBVIOUS
  <1>3. QED
    BY <1>1, <1>2

InQueueOrder(r) ==
  log' = Append(log, r) =>
    \/ spool = {}
    \/ ~Blocked /\ ~Unexpected /\ \E f \in spool : Oldest(f) /\ r = Outcome(f.id)

LEMMA QueueDisciplineStep ==
  ASSUME SafetyInv, Next, NEW r \in Record
  PROVE  InQueueOrder(r)
  <1> USE DEF SafetyInv, QueueOwnership
  <1>1. CASE log' = log
    <2>1. log' # Append(log, r)
      BY <1>1, AppendDetermines DEF TypeOK
    <2>2. QED
      BY <2>1 DEF InQueueOrder
  <1>2. CASE spool = {}
    BY <1>2 DEF InQueueOrder
  <1>3. ASSUME NEW a \in Actor, Replay(a), log' # log PROVE InQueueOrder(r)
    <2>1. PICK f \in spool :
            /\ Oldest(f)
            /\ UNCHANGED log \/ \E result : AppendResult(Outcome(f.id), result)
      BY <1>3 DEF Replay
    <2>2. log' = Append(log, Outcome(f.id))
      BY <1>3, <2>1 DEF AppendResult
    <2>3. Outcome(f.id) \in Record
      BY RecordsTyped DEF TypeOK, File, Actor
    <2>4. log' = Append(log, r) => r = Outcome(f.id)
      BY <2>2, <2>3, AppendDetermines DEF TypeOK
    <2>5. ~Blocked /\ ~Unexpected
      BY <1>3 DEF Replay, ReplaySeesCleanSpool
    <2>6. QED
      BY <2>1, <2>4, <2>5 DEF InQueueOrder
  <1>4. \/ log' = log
        \/ spool = {}
        \/ \E a \in Actor : Replay(a)
    BY DEF Next, Proceed, Acquire, AcquireFails, Scan, RemoveReplayed, Quarantine,
           Drained, AppendIntent, AppendOutcome, AppendReadOutcome, WriteTemp,
           WriteFails, CommitFile, Execute, Crash, Reconcile, Heal, AppendSeesEmptySpool
  <1>5. QED
    BY <1>1, <1>2, <1>3, <1>4

\* Records enter the log in queue order: a new record only with the spool empty,
\* a spooled one only when it is the oldest and none is quarantined.
THEOREM QueueOrderKept == Spec => QueueDiscipline
  <1>1. SafetyInv /\ [Next]_vars =>
          [\A r \in Record : InQueueOrder(r)]_vars
    BY QueueDisciplineStep
  <1>2. (\A r \in Record : InQueueOrder(r)) <=>
        (\A r \in Record :
           log' = Append(log, r) =>
             \/ spool = {}
             \/ /\ ~Blocked
                /\ ~Unexpected
                /\ \E f \in spool : Oldest(f) /\ r = Outcome(f.id))
    BY DEF InQueueOrder
  <1>3. QED
    BY <1>1, <1>2, SafetyAlways, PTL DEF Spec, QueueDiscipline
-----------------------------------------------------------------------------
(* Records are appended once, but for outcomes that were reopened, and no   *)
(* outcome comes before its intent.                                         *)

\* A call that has not run its operation has not recorded its intent.
BeginnersAreNew ==
  \A a \in Actor :
    pc[a] = "idle" \/ (pc[a] \in Locked /\ a \notin executed) => ~Logged(Intent(a))

ReturnedHasRun == \A a \in Actor : pc[a] = "returned" => a \in executed

\* Nobody has recorded the outcome of a call that is not past its own append.
OutcomesAreNew ==
  \A a \in Actor :
    pc[a] \in {"idle", "running", "returned", "scan", "replay", "remove", "quarantine",
               "append", "write"} => ~Logged(Outcome(a))

\* A file that waits for its replay is not in the log yet, but for the one that
\* was appended and is about to leave the queue, and those that did not leave it.
FilesAreNew ==
  \A f \in spool :
    f.kind = "ready" /\ Logged(Outcome(f.id)) =>
      \/ f.id \in reopened
      \/ Oldest(f) /\ \E b \in Actor : pc[b] \in {"remove", "quarantine"}

FilesHaveRun == \A f \in spool : f.id \in executed

OnceInv ==
  /\ BeginnersAreNew
  /\ ReturnedHasRun
  /\ OutcomesAreNew
  /\ FilesAreNew
  /\ FilesHaveRun
  /\ DuplicatesAreReopened
  /\ OutcomeFollowsIntent
  /\ ReleasedReadIsAudited

\* Where a call is that has not offered its own outcome to the log.
Before == {"idle", "running", "returned", "scan", "replay", "remove", "quarantine",
           "append", "write"}

LEMMA LogSame ==
  ASSUME log' = log
  PROVE  \A x : (Logged(x)' <=> Logged(x)) /\ (Twice(x)' <=> Twice(x))
  BY DEF Logged, Twice

LEMMA LogLonger ==
  ASSUME log \in Seq(Record), NEW r \in Record, log' = Append(log, r)
  PROVE  \A x \in Record : /\ Logged(x)' <=> Logged(x) \/ x = r
                           /\ Twice(x)' => Twice(x) \/ (x = r /\ Logged(r))
  <1>1. /\ Len(log') = Len(log) + 1
        /\ log'[Len(log) + 1] = r
        /\ \A i \in 1..Len(log) : log'[i] = log[i]
        /\ Len(log) \in Nat
    OBVIOUS
  <1>2. \A i \in 1..Len(log') : i \in 1..Len(log) \/ i = Len(log) + 1
    BY <1>1
  <1> SUFFICES ASSUME NEW x \in Record
               PROVE  /\ Logged(x)' <=> Logged(x) \/ x = r
                      /\ Twice(x)' => Twice(x) \/ (x = r /\ Logged(r))
    OBVIOUS
  <1>3. Logged(x)' <=> Logged(x) \/ x = r
    BY <1>1, <1>2 DEF Logged
  <1>4. ASSUME Twice(x)' PROVE Twice(x) \/ (x = r /\ Logged(r))
    <2>1. PICK i \in 1..Len(log'), j \in 1..Len(log') :
            i < j /\ log'[i] = x /\ log'[j] = x
      BY <1>4 DEF Twice
    <2>2. i \in 1..Len(log)
      BY <1>1, <2>1
    <2>3. CASE j \in 1..Len(log)
      BY <1>1, <2>1, <2>2, <2>3 DEF Twice
    <2>4. CASE j = Len(log) + 1
      BY <1>1, <2>1, <2>2, <2>4 DEF Logged
    <2>5. QED
      BY <1>2, <2>3, <2>4
  <1>5. QED
    BY <1>3, <1>4

\* An outcome that is appended comes after every record the log had.
LEMMA OrderHolds ==
  ASSUME TypeOK, OutcomeFollowsIntent, IntentPrecedesExecution, NEW r \in Record,
         log' = Append(log, r), executed' = executed,
         r.phase = "outcome" => r.id \in executed
  PROVE  OutcomeFollowsIntent'
  <1>1. /\ Len(log') = Len(log) + 1
        /\ log'[Len(log) + 1] = r
        /\ \A i \in 1..Len(log) : log'[i] = log[i]
        /\ Len(log) \in Nat
    BY DEF TypeOK
  <1> SUFFICES ASSUME NEW i \in 1..Len(log'), log'[i].phase = "outcome"
               PROVE  /\ log'[i].id \in executed
                      /\ \E j \in 1..(i - 1) : log'[j] = Intent(log'[i].id)
    BY DEF OutcomeFollowsIntent, Intent
  <1>2. CASE i \in 1..Len(log)
    <2>1. log[i].id \in executed /\ \E j \in 1..(i - 1) : log[j] = Intent(log[i].id)
      BY <1>1, <1>2 DEF OutcomeFollowsIntent
    <2>2. \A j \in 1..(i - 1) : j \in 1..Len(log)
      BY <1>1, <1>2
    <2>3. QED
      BY <1>1, <1>2, <2>1, <2>2
  <1>3. CASE i = Len(log) + 1
    <2>1. r.id \in executed
      BY <1>1, <1>3
    <2>2. PICK j \in 1..Len(log) : log[j] = Intent(r.id)
      BY <2>1 DEF IntentPrecedesExecution, Logged
    <2>3. QED
      BY <1>1, <1>3, <2>1, <2>2
  <1>4. QED
    BY <1>1, <1>2, <1>3

LEMMA OnceInitially == Init => OnceInv
  <1> SUFFICES ASSUME Init PROVE OnceInv
    OBVIOUS
  <1>1. \A x : ~Logged(x) /\ ~Twice(x)
    BY DEF Init, Logged, Twice
  <1>2. ReturnedHasRun /\ FilesAreNew /\ FilesHaveRun /\ ReleasedReadIsAudited
    BY DEF Init, ReturnedHasRun, FilesAreNew, FilesHaveRun, ReleasedReadIsAudited, Actor
  <1>3. OutcomeFollowsIntent
    BY DEF Init, OutcomeFollowsIntent
  <1>4. QED
    BY <1>1, <1>2, <1>3 DEF OnceInv, BeginnersAreNew, OutcomesAreNew, DuplicatesAreReopened

\* A call goes on or ends without touching the log or a file.
LEMMA MoveHolds ==
  ASSUME TypeOK, OnceInv, NEW a \in Actor, NEW l, Goto(a, l),
         log' = log, spool' = spool, executed' = executed, reopened \subseteq reopened',
         l \notin {"idle", "returned", "released"},
         l \in Locked => pc[a] \in Locked \cup {"idle", "returned"},
         l \in Before => pc[a] \in Before,
         pc[a] \in {"remove", "quarantine"} => \A f \in spool : Oldest(f) => f.id \in reopened'
  PROVE  OnceInv'
  <1>1. \A x : (Logged(x)' <=> Logged(x)) /\ (Twice(x)' <=> Twice(x))
    BY LogSame
  <1>2. pc' = [pc EXCEPT ![a] = l]
    BY DEF Goto
  <1>3. \A f \in spool : Oldest(f)' <=> Oldest(f)
    BY DEF Oldest
  <1> USE DEF OnceInv, TypeOK
  <1>4. BeginnersAreNew' /\ ReturnedHasRun'
    BY <1>1, <1>2 DEF BeginnersAreNew, ReturnedHasRun, Intent, Locked
  <1>5. OutcomesAreNew'
    BY <1>1, <1>2 DEF OutcomesAreNew, Outcome, Before
  <1>6. FilesAreNew' /\ FilesHaveRun'
    BY <1>1, <1>2, <1>3 DEF FilesAreNew, FilesHaveRun, Outcome
  <1>7. DuplicatesAreReopened'
    BY <1>1 DEF DuplicatesAreReopened, Intent, Outcome
  <1>8. OutcomeFollowsIntent'
    BY DEF OutcomeFollowsIntent, Intent
  <1>9. ReleasedReadIsAudited'
    BY <1>1, <1>2 DEF ReleasedReadIsAudited, Intent, Outcome, Actor
  <1>10. QED
    BY <1>4, <1>5, <1>6, <1>7, <1>8, <1>9

\* A call appends its own intent or outcome, with nothing spooled.
LEMMA AppendOwnHolds ==
  ASSUME SafetyInv, OnceInv, NEW a \in Actor, pc[a] = "append", NEW l, Goto(a, l),
         NEW r \in {Intent(a), Outcome(a)}, log' = Append(log, r),
         spool' = spool, executed' = executed, reopened' = reopened,
         r = Intent(a) => a \notin executed /\ l \in {"running", "refused"},
         r = Outcome(a) => a \in executed /\ l \notin Before \cup (Locked \ {"mark"})
  PROVE  OnceInv'
  <1>1. r \in Record /\ log \in Seq(Record) /\ \A b \in Actor : Intent(b) \in Record /\ Outcome(b) \in Record
    BY RecordsTyped DEF SafetyInv, TypeOK
  <1>2. \A x \in Record : /\ Logged(x)' <=> Logged(x) \/ x = r
                          /\ Twice(x)' => Twice(x) \/ (x = r /\ Logged(r))
    BY <1>1, LogLonger
  <1>3. pc' = [pc EXCEPT ![a] = l]
    BY DEF Goto
  <1>4. spool = {}
    BY DEF SafetyInv, QueueOwnership, AppendSeesEmptySpool
  <1>5. /\ \A b, c \in Actor : Intent(b) # Outcome(c)
        /\ \A b, c \in Actor : Intent(b) = Intent(c) \/ Outcome(b) = Outcome(c) => b = c
    BY DEF Intent, Outcome
  <1>6. ~Logged(r)
    BY DEF OnceInv, BeginnersAreNew, OutcomesAreNew, Locked
  <1> USE DEF OnceInv
  <1>7. BeginnersAreNew' /\ ReturnedHasRun'
    <2>1. ASSUME NEW b \in Actor, pc'[b] = "idle" \/ (pc'[b] \in Locked /\ b \notin executed)
          PROVE  ~Logged(Intent(b))'
      <3>1. b # a
        BY <1>3, <2>1 DEF SafetyInv, TypeOK, Before, Locked
      <3>2. ~Logged(Intent(b))
        BY <1>3, <2>1, <3>1 DEF SafetyInv, TypeOK, BeginnersAreNew
      <3>3. QED
        BY <1>1, <1>2, <1>5, <3>1, <3>2 DEF Intent
    <2>2. QED
      BY <1>3, <2>1 DEF SafetyInv, TypeOK, BeginnersAreNew, ReturnedHasRun, Intent, Before
  <1>8. OutcomesAreNew'
    <2>1. ASSUME NEW b \in Actor, pc'[b] \in Before
          PROVE  ~Logged(Outcome(b))'
      <3>1. b = a => r = Intent(a)
        BY <1>3, <2>1 DEF SafetyInv, TypeOK, Before
      <3>2. pc[b] \in Before
        BY <1>3, <2>1 DEF SafetyInv, TypeOK, Before
      <3>3. ~Logged(Outcome(b))
        BY <3>2 DEF OutcomesAreNew, Before
      <3>4. QED
        BY <1>1, <1>2, <1>5, <3>1, <3>3 DEF Outcome
    <2>2. QED
      BY <2>1 DEF OutcomesAreNew, Before, Outcome
  <1>9. FilesAreNew' /\ FilesHaveRun'
    BY <1>4 DEF FilesAreNew, FilesHaveRun
  <1>10. DuplicatesAreReopened'
    BY <1>1, <1>2, <1>6 DEF DuplicatesAreReopened, Intent, Outcome
  <1>11. OutcomeFollowsIntent'
    <2>1. r.phase = "outcome" => r.id \in executed
      BY DEF Intent, Outcome
    <2>2. QED
      BY <1>1, <2>1, OrderHolds DEF SafetyInv
  <1>12. ReleasedReadIsAudited'
    <2>1. ASSUME NEW b \in Reader, pc'[b] = "released"
          PROVE  Logged(Intent(b))' /\ Logged(Outcome(b))'
      <3>1. CASE b = a
        <4>1. r = Outcome(a) /\ a \in executed
          BY <1>3, <2>1, <3>1 DEF SafetyInv, TypeOK
        <4>2. Logged(Intent(a))
          BY <4>1 DEF SafetyInv, IntentPrecedesExecution
        <4>3. QED
          BY <1>1, <1>2, <3>1, <4>1, <4>2 DEF Intent, Outcome
      <3>2. CASE b # a
        <4>1. Logged(Intent(b)) /\ Logged(Outcome(b))
          BY <1>3, <2>1, <3>2 DEF SafetyInv, TypeOK, ReleasedReadIsAudited, Actor
        <4>2. QED
          BY <1>1, <1>2, <4>1 DEF Intent, Outcome, Actor
      <3>3. QED
        BY <3>1, <3>2
    <2>2. QED
      BY <2>1 DEF ReleasedReadIsAudited, Intent, Outcome
  <1>13. QED
    BY <1>7, <1>8, <1>9, <1>10, <1>11, <1>12

\* The oldest file is appended and about to leave the queue.
LEMMA AppendOldestHolds ==
  ASSUME SafetyInv, OnceInv, NEW a \in Actor, pc[a] = "replay",
         NEW f \in spool, Oldest(f), log' = Append(log, Outcome(f.id)),
         NEW l \in {"remove", "quarantine"}, Goto(a, l),
         spool' = spool, executed' = executed, reopened' = reopened
  PROVE  OnceInv'
  <1> DEFINE r == Outcome(f.id)
  <1>1. /\ f.id \in Mutation /\ f.id \in Actor /\ log \in Seq(Record)
        /\ \A b \in Actor : Intent(b) \in Record /\ Outcome(b) \in Record
    BY RecordsTyped DEF SafetyInv, TypeOK, File, Actor
  <1>2. \A x \in Record : /\ Logged(x)' <=> Logged(x) \/ x = r
                          /\ Twice(x)' => Twice(x) \/ (x = r /\ Logged(r))
    BY <1>1, LogLonger
  <1>3. pc' = [pc EXCEPT ![a] = l] /\ pc \in [Actor -> Unlocked \cup Locked \cup Final]
    BY DEF Goto, SafetyInv, TypeOK
  <1>4. \A b \in Actor : pc[b] \notin {"remove", "quarantine"}
    BY DEF SafetyInv, QueueOwnership, LockedInside, Locked
  <1>5. /\ \A b, c \in Actor : Intent(b) # Outcome(c)
        /\ \A b, c \in Actor : Outcome(b) = Outcome(c) => b = c
    BY DEF Intent, Outcome
  <1>6. f.kind = "ready"
    BY DEF Oldest, Ready
  <1>7. Logged(r) => f.id \in reopened
    BY <1>4, <1>6 DEF OnceInv, FilesAreNew
  <1>8. pc[f.id] \in {"commit", "queued", "marked", "unspooled", "crashed"}
    BY <1>1 DEF SafetyInv, QueueOwnership, NotYetSpooled
  <1> HIDE DEF r
  <1> USE DEF OnceInv
  <1>9. BeginnersAreNew' /\ ReturnedHasRun'
    <2>1. \A b \in Actor : Logged(Intent(b))' <=> Logged(Intent(b))
      BY <1>1, <1>2, <1>5 DEF r, Intent
    <2>2. QED
      BY <1>3, <2>1 DEF BeginnersAreNew, ReturnedHasRun, Intent, Locked
  <1>10. OutcomesAreNew'
    <2>1. ASSUME NEW b \in Actor, pc'[b] \in Before
          PROVE  ~Logged(Outcome(b))'
      <3>1. pc[b] \in Before
        BY <1>3, <2>1 DEF Before
      <3>2. b # f.id
        BY <1>8, <3>1 DEF Before
      <3>3. ~Logged(Outcome(b))
        BY <3>1 DEF OutcomesAreNew, Before
      <3>4. QED
        BY <1>1, <1>2, <1>5, <3>2, <3>3 DEF r, Outcome
    <2>2. QED
      BY <2>1 DEF OutcomesAreNew, Before, Outcome
  <1>11. FilesAreNew'
    <2>1. ASSUME NEW g \in spool, g.kind = "ready", Logged(Outcome(g.id))'
          PROVE  \/ g.id \in reopened
                 \/ Oldest(g)' /\ pc'[a] \in {"remove", "quarantine"}
      <3>1. CASE g = f
        <4>1. Oldest(f)'
          BY DEF Oldest
        <4>2. QED
          BY <1>3, <3>1, <4>1
      <3>2. CASE g # f
        <4>1. g.id # f.id /\ g.id \in Actor
          BY <3>2 DEF SafetyInv, SpoolNamesUnique, TypeOK, File, Actor
        <4>2. Logged(Outcome(g.id))
          BY <1>1, <1>2, <1>5, <2>1, <4>1 DEF r, Outcome
        <4>3. QED
          BY <1>4, <2>1, <4>2 DEF FilesAreNew
      <3>3. QED
        BY <3>1, <3>2
    <2>2. QED
      BY <2>1 DEF FilesAreNew, Outcome
  <1>12. FilesHaveRun'
    BY DEF FilesHaveRun
  <1>13. DuplicatesAreReopened'
    <2>1. ASSUME NEW b \in Actor PROVE ~Twice(Intent(b))'
      BY <1>1, <1>2, <1>5 DEF r, Intent, DuplicatesAreReopened
    <2>2. ASSUME NEW b \in Actor, Twice(Outcome(b))' PROVE b \in reopened
      <3>1. Twice(Outcome(b)) \/ (Outcome(b) = r /\ Logged(r))
        BY <1>1, <1>2, <2>2 DEF Outcome
      <3>2. QED
        BY <1>1, <1>5, <1>7, <3>1 DEF r, DuplicatesAreReopened
    <2>3. QED
      BY <2>1, <2>2 DEF DuplicatesAreReopened, Intent, Outcome
  <1>14. OutcomeFollowsIntent'
    <2>1. r.phase = "outcome" => r.id \in executed
      BY DEF r, Outcome, FilesHaveRun
    <2>2. QED
      BY <1>1, <2>1, OrderHolds DEF SafetyInv, r
  <1>15. ReleasedReadIsAudited'
    BY <1>1, <1>2, <1>3 DEF ReleasedReadIsAudited, Intent, Outcome, Actor
  <1>16. QED
    BY <1>9, <1>10, <1>11, <1>12, <1>13, <1>14, <1>15

\* Nothing of the log and the calls changes, and no file waits that did not.
LEMMA FilesHold ==
  ASSUME TypeOK, OnceInv, pc' = pc, log' = log, executed' = executed, reopened' = reopened,
         spool' \subseteq spool, \A f \in spool \ spool' : ~Ready(f)
  PROVE  OnceInv'
  <1>1. \A x : (Logged(x)' <=> Logged(x)) /\ (Twice(x)' <=> Twice(x))
    BY LogSame
  <1>2. \A f \in spool' : Oldest(f) => Oldest(f)'
    BY DEF Oldest, Ready
  <1> USE DEF OnceInv
  <1>3. BeginnersAreNew' /\ ReturnedHasRun' /\ OutcomesAreNew'
    BY <1>1 DEF BeginnersAreNew, ReturnedHasRun, OutcomesAreNew, Intent, Outcome
  <1>4. FilesAreNew' /\ FilesHaveRun'
    BY <1>1, <1>2 DEF FilesAreNew, FilesHaveRun, Outcome
  <1>5. DuplicatesAreReopened' /\ OutcomeFollowsIntent' /\ ReleasedReadIsAudited'
    BY <1>1 DEF DuplicatesAreReopened, OutcomeFollowsIntent, ReleasedReadIsAudited,
                Intent, Outcome
  <1>6. QED
    BY <1>3, <1>4, <1>5

\* The holder of the lock changes the files; those it adds are new.
LEMMA SpoolHolds ==
  ASSUME SafetyInv, OnceInv, NEW a \in Actor, pc[a] \in Locked,
         NEW l, Goto(a, l), l \notin {"idle", "returned", "released"},
         l \in Before => pc[a] \in Before,
         log' = log, executed' = executed, reopened' = reopened,
         \A f \in spool' : f.id \in executed,
         \A f \in spool' : f.kind = "ready" /\ Logged(Outcome(f.id)) => f.id \in reopened
  PROVE  OnceInv'
  <1>1. \A x : (Logged(x)' <=> Logged(x)) /\ (Twice(x)' <=> Twice(x))
    BY LogSame
  <1>2. pc' = [pc EXCEPT ![a] = l]
    BY DEF Goto
  <1> USE DEF OnceInv, SafetyInv, TypeOK
  <1>3. BeginnersAreNew' /\ ReturnedHasRun'
    BY <1>1, <1>2 DEF BeginnersAreNew, ReturnedHasRun, Intent, Locked
  <1>4. OutcomesAreNew'
    BY <1>1, <1>2 DEF OutcomesAreNew, Outcome, Before
  <1>5. FilesAreNew' /\ FilesHaveRun'
    BY <1>1 DEF FilesAreNew, FilesHaveRun, Outcome
  <1>6. DuplicatesAreReopened' /\ OutcomeFollowsIntent'
    BY <1>1 DEF DuplicatesAreReopened, OutcomeFollowsIntent, Intent, Outcome
  <1>7. ReleasedReadIsAudited'
    BY <1>1, <1>2 DEF ReleasedReadIsAudited, Intent, Outcome, Actor
  <1>8. QED
    BY <1>3, <1>4, <1>5, <1>6, <1>7

LEMMA OnceStep == SafetyInv /\ OnceInv /\ [Next]_vars => OnceInv'
  <1> SUFFICES ASSUME SafetyInv, OnceInv, [Next]_vars PROVE OnceInv'
    OBVIOUS
  <1> USE DEF SafetyInv
  \* A call that is told of an error, or whose process dies, is over.
  <1>20. ASSUME NEW a \in Actor, ReplayError(a), pc[a] \in Before \cap Locked, pc[a] # "idle",
               log' = log, spool' = spool, executed' = executed, reopened \subseteq reopened',
               pc[a] \in {"remove", "quarantine"} => \A f \in spool : Oldest(f) => f.id \in reopened'
         PROVE  OnceInv'
    <2>1. PICK l \in {"write", "refused", "unspooled", "withheld"} : Goto(a, l)
      BY <1>20 DEF ReplayError, Return, FailedCall
    <2>2. QED
      BY <1>20, <2>1, MoveHolds DEF Before, Locked
  <1>21. ASSUME NEW f \in spool, NEW g \in spool, Oldest(f), Oldest(g) PROVE f = g
    BY <1>21, OldestUnique
  <1>22. ASSUME NEW a \in Actor, pc[a] \in Locked, NEW b \in Actor, pc[b] \in Locked PROVE a = b
    BY <1>22 DEF QueueOwnership, LockedInside
  <1>1. ASSUME NEW a \in Actor, Acquire(a) PROVE OnceInv'
    BY <1>1, MoveHolds DEF Acquire, Before
  <1>2. ASSUME NEW a \in Actor, AcquireFails(a) PROVE OnceInv'
    BY <1>2, MoveHolds DEF AcquireFails, FailedCall, Before, Locked
  <1>3. ASSUME NEW a \in Actor, Scan(a) PROVE OnceInv'
    <2>1. CASE Goto(a, "replay")
      BY <1>3, <2>1, MoveHolds DEF Scan, Before, Locked
    <2>2. CASE ReplayError(a)
      BY <1>3, <1>20, <2>2 DEF Scan, Before, Locked
    <2>3. QED
      BY <1>3, <2>1, <2>2 DEF Scan
  <1>4. ASSUME NEW a \in Actor, Replay(a) PROVE OnceInv'
    <2>1. PICK f \in spool :
            /\ Oldest(f)
            /\ \/ ReplayError(a) /\ log' = log
               \/ /\ Goto(a, "remove") \/ Goto(a, "quarantine")
                  /\ log' = Append(log, Outcome(f.id))
               \/ Goto(a, "quarantine") /\ log' = log
      BY <1>4 DEF Replay, AppendResult
    <2>2. CASE ReplayError(a) /\ log' = log
      BY <1>4, <1>20, <2>2 DEF Replay, Before, Locked
    <2>3. CASE /\ Goto(a, "remove") \/ Goto(a, "quarantine")
               /\ log' = Append(log, Outcome(f.id))
      BY <1>4, <2>1, <2>3, AppendOldestHolds DEF Replay
    <2>4. CASE Goto(a, "quarantine") /\ log' = log
      BY <1>4, <2>4, MoveHolds DEF Replay, Before, Locked
    <2>5. QED
      BY <2>1, <2>2, <2>3, <2>4
  <1>5. ASSUME NEW a \in Actor, RemoveReplayed(a) PROVE OnceInv'
    <2>1. PICK f \in spool :
            /\ Oldest(f)
            /\ \/ /\ spool' = spool \ {f} /\ reopened' = reopened
                  /\ Goto(a, "replay") \/ ReplayError(a)
               \/ reopened' = reopened \cup {f.id} /\ ReplayError(a) /\ spool' = spool
      BY <1>5 DEF RemoveReplayed
    <2>2. CASE reopened' = reopened \cup {f.id} /\ ReplayError(a) /\ spool' = spool
      BY <1>5, <1>20, <1>21, <2>1, <2>2 DEF RemoveReplayed, Before, Locked
    <2>3. CASE /\ spool' = spool \ {f} /\ reopened' = reopened
               /\ Goto(a, "replay") \/ ReplayError(a)
      <3>1. PICK l \in {"replay", "write", "refused", "unspooled", "withheld"} : Goto(a, l)
        BY <2>3 DEF ReplayError, Return, FailedCall
      <3>2. \A g \in spool' : g \in spool /\ g # f
        BY <2>3
      <3>3. \A g \in spool' : g.kind = "ready" /\ Logged(Outcome(g.id)) => g.id \in reopened
        BY <1>21, <2>1, <3>2 DEF OnceInv, FilesAreNew
      <3>4. \A g \in spool' : g.id \in executed
        BY <3>2 DEF OnceInv, FilesHaveRun
      <3>5. QED
        BY <1>5, <2>3, <3>1, <3>3, <3>4, SpoolHolds DEF RemoveReplayed, Before, Locked
    <2>4. QED
      BY <2>1, <2>2, <2>3
  <1>6. ASSUME NEW a \in Actor, Quarantine(a) PROVE OnceInv'
    <2>1. PICK f \in spool :
            /\ Oldest(f)
            /\ \/ /\ spool' = (spool \ {f}) \cup {[f EXCEPT !.kind = "indeterminate"]}
                  /\ reopened' = reopened
               \/ reopened' = reopened \cup {f.id} /\ spool' = spool
      BY <1>6 DEF Quarantine
    <2>2. CASE reopened' = reopened \cup {f.id} /\ spool' = spool
      BY <1>6, <1>20, <1>21, <2>1, <2>2 DEF Quarantine, Before, Locked
    <2>3. CASE /\ spool' = (spool \ {f}) \cup {[f EXCEPT !.kind = "indeterminate"]}
               /\ reopened' = reopened
      <3>1. PICK l \in {"write", "refused", "unspooled", "withheld"} : Goto(a, l)
        BY <1>6 DEF Quarantine, ReplayError, Return, FailedCall
      <3>2. /\ [f EXCEPT !.kind = "indeterminate"].id = f.id
            /\ [f EXCEPT !.kind = "indeterminate"].kind = "indeterminate"
        BY DEF TypeOK, File
      <3>3. \A g \in spool' : \/ g \in spool /\ g # f
                              \/ g.id = f.id /\ g.kind = "indeterminate"
        BY <2>3, <3>2
      <3>4. \A g \in spool' : g.kind = "ready" /\ Logged(Outcome(g.id)) => g.id \in reopened
        BY <1>21, <2>1, <3>3 DEF OnceInv, FilesAreNew
      <3>5. \A g \in spool' : g.id \in executed
        BY <3>3 DEF OnceInv, FilesHaveRun
      <3>6. QED
        BY <1>6, <2>3, <3>1, <3>4, <3>5, SpoolHolds DEF Quarantine, Before, Locked
    <2>4. QED
      BY <2>1, <2>2, <2>3
  <1>7. ASSUME NEW a \in Actor, Drained(a) PROVE OnceInv'
    BY <1>7, MoveHolds DEF Drained, Before, Locked
  <1>8. ASSUME NEW a \in Actor, AppendIntent(a) PROVE OnceInv'
    <2>1. PICK l \in {"running", "refused"} : Goto(a, l)
      BY <1>8 DEF AppendIntent, Return, FailedCall
    <2>2. a \notin executed
      BY <1>8 DEF AppendIntent, Finishing
    <2>3. Intent(a) # Outcome(a)
      BY DEF Intent, Outcome
    <2>4. CASE log' = Append(log, Intent(a))
      BY <1>8, <2>1, <2>2, <2>3, <2>4, AppendOwnHolds DEF AppendIntent
    <2>5. CASE log' = log
      BY <1>8, <2>1, <2>5, MoveHolds DEF AppendIntent, Before, Locked
    <2>6. QED
      BY <1>8, <2>4, <2>5 DEF AppendIntent, AppendResult
  <1>9. ASSUME NEW a \in Actor, AppendOutcome(a) PROVE OnceInv'
    <2>1. a \in executed /\ pc[a] = "append"
      BY <1>9 DEF AppendOutcome, Finishing
    <2>2. Intent(a) # Outcome(a)
      BY DEF Intent, Outcome
    <2>3. CASE /\ Goto(a, "settled") \/ Goto(a, "unspooled") \/ Goto(a, "mark")
               /\ log' = Append(log, Outcome(a))
      BY <1>9, <2>1, <2>2, <2>3, AppendOwnHolds DEF AppendOutcome, Before, Locked
    <2>4. CASE (Goto(a, "write") \/ Goto(a, "mark")) /\ log' = log
      BY <1>9, <2>1, <2>4, MoveHolds DEF AppendOutcome, Before, Locked
    <2>5. QED
      BY <1>9, <2>3, <2>4 DEF AppendOutcome, AppendResult, Return, FailedCall
  <1>10. ASSUME NEW a \in Actor, AppendReadOutcome(a) PROVE OnceInv'
    <2>1. a \in executed /\ pc[a] = "append"
      BY <1>10 DEF AppendReadOutcome, Finishing
    <2>2. Intent(a) # Outcome(a)
      BY DEF Intent, Outcome
    <2>3. CASE /\ Goto(a, "released") \/ Goto(a, "withheld") \/ Goto(a, "unspooled")
               /\ log' = Append(log, Outcome(a))
      BY <1>10, <2>1, <2>2, <2>3, AppendOwnHolds DEF AppendReadOutcome, Before, Locked
    <2>4. CASE (Goto(a, "withheld") \/ Goto(a, "unspooled")) /\ log' = log
      BY <1>10, <2>1, <2>4, MoveHolds DEF AppendReadOutcome, Before, Locked
    <2>5. QED
      BY <1>10, <2>1, <2>3, <2>4 DEF AppendReadOutcome, AppendResult, Return, FailedCall, Finishing
  <1>11. ASSUME NEW a \in Actor, WriteTemp(a) PROVE OnceInv'
    <2>1. PICK g : spool' = spool \cup {g} /\ g.id = a /\ (g.kind = "ready" => pc[a] = "write")
      <3>1. PICK n \in 1..MaxSeq, kind \in {"ready", "indeterminate"} :
              /\ spool' = spool \cup {[seq |-> n, id |-> a, temp |-> TRUE, kind |-> kind]}
              /\ kind = "ready" => pc[a] = "write"
        BY <1>11 DEF WriteTemp
      <3> DEFINE new == [seq |-> n, id |-> a, temp |-> TRUE, kind |-> kind]
      <3>2. new.id = a /\ new.kind = kind
        OBVIOUS
      <3>3. spool' = spool \cup {new}
        BY <3>1
      <3> HIDE DEF new
      <3>4. QED
        BY <3>1, <3>2, <3>3
    <2>2. pc[a] \in Locked /\ Goto(a, "commit")
      BY <1>11 DEF WriteTemp, Locked
    <2>3. a \in executed
      BY <1>11 DEF WriteTemp, QueueOwnership, SpoolerHasRun, Finishing
    <2>4. g.kind = "ready" => ~Logged(Outcome(g.id))
      BY <2>1 DEF OnceInv, OutcomesAreNew
    <2>5. \A b \in Actor : pc[b] \notin {"remove", "quarantine"}
      BY <1>11, <1>22, <2>2 DEF WriteTemp, Locked
    <2>6. \A f \in spool' : f.kind = "ready" /\ Logged(Outcome(f.id)) => f.id \in reopened
      BY <2>1, <2>4, <2>5 DEF OnceInv, FilesAreNew
    <2>7. \A f \in spool' : f.id \in executed
      BY <2>1, <2>3 DEF OnceInv, FilesHaveRun
    <2>8. QED
      BY <1>11, <2>2, <2>6, <2>7, SpoolHolds DEF WriteTemp, Before
  <1>12. ASSUME NEW a \in Actor, WriteFails(a) PROVE OnceInv'
    BY <1>12, MoveHolds DEF WriteFails, Return, FailedCall, Before, Locked
  <1>13. ASSUME NEW a \in Actor, CommitFile(a) PROVE OnceInv'
    <2>1. PICK f \in spool :
            \/ spool' = (spool \ {f}) \cup {[f EXCEPT !.temp = FALSE]}
            \/ spool' = spool \ {f}
            \/ spool' = spool
      BY <1>13 DEF CommitFile
    <2>2. pc[a] = "commit" /\ pc[a] \in Locked
      BY <1>13 DEF CommitFile, Locked
    <2>3. PICK l \in {"queued", "marked", "refused", "unspooled", "withheld"} : Goto(a, l)
      BY <1>13 DEF CommitFile, Return, FailedCall
    <2>4. \A b \in Actor : pc[b] \notin {"remove", "quarantine"}
      BY <1>22, <2>2 DEF Locked
    <2>5. \A g \in spool' : \E h \in spool : g.id = h.id /\ g.kind = h.kind
      <3>1. /\ [f EXCEPT !.temp = FALSE].id = f.id
            /\ [f EXCEPT !.temp = FALSE].kind = f.kind
        BY DEF TypeOK, File
      <3>2. QED
        BY <2>1, <3>1
    <2>6. \A g \in spool' : g.kind = "ready" /\ Logged(Outcome(g.id)) => g.id \in reopened
      BY <2>4, <2>5 DEF OnceInv, FilesAreNew
    <2>7. \A g \in spool' : g.id \in executed
      BY <2>5 DEF OnceInv, FilesHaveRun
    <2>8. QED
      BY <1>13, <2>2, <2>3, <2>6, <2>7, SpoolHolds DEF CommitFile, Before
  <1>14. ASSUME NEW a \in Actor, Execute(a) PROVE OnceInv'
    <2>1. /\ pc[a] = "running" /\ pc' = [pc EXCEPT ![a] = "returned"]
          /\ executed' = executed \cup {a}
          /\ log' = log /\ spool' = spool /\ reopened' = reopened
      BY <1>14 DEF Execute, Goto
    <2>2. \A x : (Logged(x)' <=> Logged(x)) /\ (Twice(x)' <=> Twice(x))
      BY <2>1, LogSame
    <2>3. \A f \in spool : Oldest(f)' <=> Oldest(f)
      BY <2>1 DEF Oldest
    <2> USE DEF OnceInv, TypeOK
    <2>4. BeginnersAreNew' /\ ReturnedHasRun' /\ OutcomesAreNew'
      BY <2>1, <2>2 DEF BeginnersAreNew, ReturnedHasRun, OutcomesAreNew, Intent, Outcome, Locked
    <2>5. FilesAreNew' /\ FilesHaveRun'
      BY <2>1, <2>2, <2>3 DEF FilesAreNew, FilesHaveRun, Outcome
    <2>6. DuplicatesAreReopened'
      BY <2>1, <2>2 DEF DuplicatesAreReopened, Intent, Outcome
    <2>7. OutcomeFollowsIntent'
      BY <2>1 DEF OutcomeFollowsIntent, Intent
    <2>8. ReleasedReadIsAudited'
      BY <2>1, <2>2 DEF ReleasedReadIsAudited, Intent, Outcome, Actor
    <2>9. QED
      BY <2>4, <2>5, <2>6, <2>7, <2>8
  <1>15. ASSUME NEW a \in Actor, Crash(a) PROVE OnceInv'
    <2>1. pc[a] \in {"remove", "quarantine"} => \A f \in spool : Oldest(f) => f.id \in reopened'
      BY <1>15 DEF Crash
    <2>2. reopened \subseteq reopened'
      BY <1>15 DEF Crash
    <2>3. QED
      BY <1>15, <2>1, <2>2, MoveHolds DEF Crash, Before, Locked
  <1>16. ASSUME Reconcile PROVE OnceInv'
    BY <1>16, FilesHold DEF Reconcile, Marker, Ready
  <1>17. ASSUME Heal PROVE OnceInv'
    BY <1>17, FilesHold DEF Heal
  <1>18. CASE UNCHANGED vars
    BY <1>18, FilesHold DEF vars
  <1>19. QED
    BY <1>1, <1>2, <1>3, <1>4, <1>5, <1>6, <1>7, <1>8, <1>9, <1>10, <1>11,
       <1>12, <1>13, <1>14, <1>15, <1>16, <1>17, <1>18 DEF Next, Proceed

LEMMA OnceAlways == Spec => []OnceInv
  BY OnceInitially, OnceStep, SafetyAlways, PTL DEF Spec

\* No intent is recorded twice, and an outcome only when its file could not be
\* taken from the queue after an append that may have recorded it.
THEOREM DuplicatesExplained == Spec => []DuplicatesAreReopened
  <1>1. OnceInv => DuplicatesAreReopened
    BY DEF OnceInv
  <1>2. QED
    BY <1>1, OnceAlways, PTL

\* No outcome is recorded but after the intent of the same operation, and after
\* the operation has run.
THEOREM OutcomesFollow == Spec => []OutcomeFollowsIntent
  <1>1. OnceInv => OutcomeFollowsIntent
    BY DEF OnceInv
  <1>2. QED
    BY <1>1, OnceAlways, PTL

\* A read whose result is released has both its records in the log.
THEOREM ReleasedReadsAudited == Spec => []ReleasedReadIsAudited
  <1>1. OnceInv => ReleasedReadIsAudited
    BY DEF OnceInv
  <1>2. QED
    BY <1>1, OnceAlways, PTL

-----------------------------------------------------------------------------
(* With storage recovered: what is lost or refused, and why.                *)

\* Who may have a file, or has had one.
Spooled == {m \in Mutation : pc[m] \in {"commit", "queued", "marked", "unspooled", "crashed"}}

\* A temporary file is being written, or was left behind.
TempExplained == \A f \in spool : f.temp => pc[f.id] = "commit" \/ f \in Leftover

\* Numbers are given out once for each mutation at most, and start again.
NumbersFit == \A f \in spool : f.seq <= Cardinality(Spooled)

LEMMA LargestExists ==
  ASSUME NEW S \in SUBSET Nat, S # {}, NEW n \in Nat, \A s \in S : s <= n
  PROVE  \E k \in S : \A s \in S : s <= k
  <1> DEFINE Less == OpToRel(<, Nat)
             T == {n - s : s \in S}
  <1>1. IsWellFoundedOn(Less, Nat)
    BY NatLessThanWellFounded
  <1>2. \A x, y \in Nat : x < y => <<x, y>> \in Less
    BY DEF OpToRel
  <1>3. \A s \in S : n - s \in Nat
    OBVIOUS
  <1>4. T \subseteq Nat /\ T # {}
    BY <1>3
  <1> HIDE DEF Less
  <1>5. \E x \in T : \A y \in T : ~ (<<y, x>> \in Less)
    BY <1>1, <1>4, WFMin
  <1>6. PICK k \in S : \A y \in T : ~ (<<y, n - k>> \in Less)
    BY <1>5
  <1>7. \A s \in S : ~ (n - s < n - k)
    BY <1>2, <1>3, <1>6
  <1>8. QED
    BY <1>7

\* A number is free for the next file as long as one is left for each mutation.
LEMMA NumberIsFree ==
  ASSUME TypeOK, NumbersFit, IsFiniteSet(Mutation), Cardinality(Mutation) <= MaxSeq,
         NEW m \in Mutation, m \notin Spooled
  PROVE  /\ \E n \in 1..MaxSeq : NextSequence(n)
         /\ \A n \in 1..MaxSeq : NextSequence(n) => n <= Cardinality(Spooled) + 1
  <1> DEFINE c == Cardinality(Spooled)
  <1>1. IsFiniteSet(Spooled) /\ c \in Nat
    BY FS_Subset, FS_CardinalityType DEF Spooled
  <1>2. Cardinality(Spooled \cup {m}) = c + 1
    BY <1>1, FS_AddElement
  <1>3. Cardinality(Spooled \cup {m}) <= Cardinality(Mutation) /\ Cardinality(Mutation) \in Nat
    BY FS_Subset, FS_CardinalityType DEF Spooled
  <1>4. c + 1 <= MaxSeq /\ MaxSeq \in Nat
    BY <1>1, <1>2, <1>3, SpoolAssumption
  <1>5. \A f \in spool : f.seq \in Nat /\ f.seq >= 1 /\ f.seq <= c
    BY SpoolAssumption DEF TypeOK, File, NumbersFit
  <1> HIDE DEF c
  <1>6. \E n \in 1..MaxSeq : NextSequence(n)
    <2>1. CASE spool = {}
      BY <1>1, <1>4, <2>1 DEF NextSequence
    <2>2. CASE spool # {}
      <3>1. PICK k \in {f.seq : f \in spool} : \A s \in {f.seq : f \in spool} : s <= k
        <4>1. {f.seq : f \in spool} \in SUBSET Nat
          BY <1>5
        <4>2. {f.seq : f \in spool} # {}
          BY <2>2
        <4>3. \A s \in {f.seq : f \in spool} : s <= c
          BY <1>5
        <4>4. QED
          BY <1>1, <4>1, <4>2, <4>3, LargestExists
      <3>2. PICK f \in spool : f.seq = k
        BY <3>1
      <3>3. k \in Nat /\ k <= c /\ k + 1 \in 1..MaxSeq
        BY <1>1, <1>4, <1>5, <3>2
      <3>4. \A g \in spool : g.seq < k + 1
        BY <1>5, <3>1, <3>3
      <3>5. NextSequence(k + 1)
        BY <3>2, <3>3, <3>4 DEF NextSequence
      <3>6. QED
        BY <3>3, <3>5
    <2>3. QED
      BY <2>1, <2>2
  <1>7. ASSUME NEW n \in 1..MaxSeq, NextSequence(n) PROVE n <= c + 1
    <2>1. n = 1 \/ \E f \in spool : f.seq = n - 1
      BY <1>7 DEF NextSequence
    <2>2. QED
      BY <1>1, <1>4, <1>5, <2>1
  <1>8. QED
    BY <1>6, <1>7 DEF c

\* A temporary file is left behind by whoever wrote it, and by nobody else.
LEMMA TempExplainedStep ==
  ASSUME SafetyInv, TempExplained, [Next]_vars
  PROVE  TempExplained'
  <1> USE DEF SafetyInv, TypeOK, Leftover
  <1>1. ASSUME NEW a \in Actor, NEW l, Goto(a, l),
               pc[a] \notin {"commit", "unspooled", "crashed"},
               \A f \in spool' : f.temp => f \in spool
        PROVE  TempExplained'
    BY <1>1 DEF TempExplained, Goto
  <1>2. ASSUME NEW a \in Actor, WriteTemp(a) PROVE TempExplained'
    <2>1. PICK g : spool' = spool \cup {g} /\ g.id = a
      <3>1. PICK n \in 1..MaxSeq, kind \in {"ready", "indeterminate"} :
              spool' = spool \cup {[seq |-> n, id |-> a, temp |-> TRUE, kind |-> kind]}
        BY <1>2 DEF WriteTemp
      <3> DEFINE new == [seq |-> n, id |-> a, temp |-> TRUE, kind |-> kind]
      <3>2. new.id = a
        OBVIOUS
      <3>3. spool' = spool \cup {new}
        BY <3>1
      <3> HIDE DEF new
      <3>4. QED
        BY <3>2, <3>3
    <2>2. /\ pc' = [pc EXCEPT ![a] = "commit"]
          /\ pc[a] \notin {"commit", "unspooled", "crashed"}
      BY <1>2 DEF WriteTemp, Goto
    <2>3. QED
      BY <2>1, <2>2 DEF TempExplained
  <1>3. ASSUME NEW a \in Actor, CommitFile(a) PROVE TempExplained'
    <2>1. PICK f \in spool :
            /\ f.temp /\ f.id = a
            /\ \/ spool' = (spool \ {f}) \cup {[f EXCEPT !.temp = FALSE]}
               \/ spool' = spool \ {f}
               \/ spool' = spool /\ Return(a, "unspooled")
      BY <1>3 DEF CommitFile
    <2>2. \A b \in Actor \ {a} : pc'[b] = pc[b]
      BY <1>3 DEF CommitFile, Return, Goto
    <2>3. CASE spool' = spool /\ Return(a, "unspooled")
      <3>1. FailedCall(a) = "unspooled"
        BY <1>3 DEF CommitFile, FailedCall, QueueOwnership, SpoolerHasRun
      <3>2. pc'[a] = "unspooled"
        BY <2>3, <3>1 DEF Return, Goto
      <3>3. QED
        BY <2>2, <2>3, <3>2 DEF TempExplained, File, Actor
    <2>4. CASE \/ spool' = (spool \ {f}) \cup {[f EXCEPT !.temp = FALSE]}
               \/ spool' = spool \ {f}
      <3>1. [f EXCEPT !.temp = FALSE].temp = FALSE
        BY DEF File
      <3>2. \A g \in spool' : g.temp => g \in spool /\ g # f
        BY <2>4, <3>1
      <3>3. \A g \in spool' : g.temp => g.id # a
        BY <2>1, <3>2 DEF SpoolNamesUnique
      <3>4. QED
        BY <2>2, <3>2, <3>3 DEF TempExplained, File, Actor
    <2>5. QED
      BY <2>1, <2>3, <2>4
  <1>4. ASSUME NEW a \in Actor, Quarantine(a) PROVE TempExplained'
    <2>1. PICK f \in spool :
            /\ Oldest(f)
            /\ \/ spool' = (spool \ {f}) \cup {[f EXCEPT !.kind = "indeterminate"]}
               \/ spool' = spool
      BY <1>4 DEF Quarantine
    <2>2. ~[f EXCEPT !.kind = "indeterminate"].temp
      BY <2>1 DEF File, Oldest, Ready
    <2>3. \A g \in spool' : g.temp => g \in spool
      BY <2>1, <2>2
    <2>4. PICK l : Goto(a, l)
      BY <1>4 DEF Quarantine, ReplayError, Return
    <2>5. QED
      BY <1>1, <1>4, <2>3, <2>4 DEF Quarantine
  <1>5. ASSUME NEW a \in Actor,
               \/ Acquire(a) \/ AcquireFails(a) \/ Scan(a) \/ Replay(a) \/ RemoveReplayed(a)
               \/ Drained(a) \/ AppendIntent(a) \/ AppendOutcome(a) \/ AppendReadOutcome(a)
               \/ WriteFails(a) \/ Execute(a)
        PROVE  TempExplained'
    <2>1. /\ spool' \subseteq spool
          /\ pc[a] \notin {"commit", "unspooled", "crashed"}
          /\ \E l : Goto(a, l)
      BY <1>5 DEF Acquire, AcquireFails, Scan, Replay, RemoveReplayed, Drained, AppendIntent,
                  AppendOutcome, AppendReadOutcome, WriteFails, Execute, ReplayError, Return
    <2>2. QED
      BY <1>1, <2>1
  <1>6. ASSUME NEW a \in Actor, Crash(a) PROVE TempExplained'
    <2>1. spool' = spool /\ pc' = [pc EXCEPT ![a] = "crashed"]
      BY <1>6 DEF Crash, Goto
    <2>2. QED
      BY <2>1 DEF TempExplained
  <1>7. CASE Reconcile \/ Heal \/ UNCHANGED vars
    BY <1>7 DEF Reconcile, Heal, vars, TempExplained
  <1>8. QED
    BY <1>2, <1>3, <1>4, <1>5, <1>6, <1>7 DEF Next, Proceed

\* Whoever may have had a file never writes another one.
LEMMA SpooledStep ==
  ASSUME TypeOK, SpoolerHasRun, [Next]_vars
  PROVE  Spooled \subseteq Spooled'
  <1> USE DEF TypeOK, Spooled, Goto, Return, FailedCall, Actor
  <1>1. ASSUME NEW a \in Actor, CommitFile(a) PROVE Spooled \subseteq Spooled'
    <2>1. FailedCall(a) = "unspooled"
      BY <1>1 DEF CommitFile, SpoolerHasRun
    <2>2. \E l \in {"queued", "marked", "unspooled"} : Goto(a, l)
      BY <1>1, <2>1 DEF CommitFile
    <2>3. QED
      BY <2>2
  <1>2. ASSUME NEW a \in Actor,
               \/ Acquire(a) \/ AcquireFails(a) \/ Scan(a) \/ Replay(a) \/ RemoveReplayed(a)
               \/ Quarantine(a) \/ Drained(a) \/ AppendIntent(a) \/ AppendOutcome(a)
               \/ AppendReadOutcome(a) \/ WriteTemp(a) \/ WriteFails(a) \/ Execute(a)
        PROVE  Spooled \subseteq Spooled'
    <2>1. /\ pc[a] \notin {"commit", "queued", "marked", "unspooled", "crashed"}
          /\ \E l : Goto(a, l)
      BY <1>2 DEF Acquire, AcquireFails, Scan, Replay, RemoveReplayed, Quarantine, Drained,
                  AppendIntent, AppendOutcome, AppendReadOutcome, WriteTemp, WriteFails,
                  Execute, ReplayError
    <2>2. QED
      BY <2>1
  <1>3. ASSUME NEW a \in Actor, Crash(a) PROVE Spooled \subseteq Spooled'
    BY <1>3 DEF Crash
  <1>4. CASE Reconcile \/ Heal \/ UNCHANGED vars
    BY <1>4 DEF Reconcile, Heal, vars
  <1>5. QED
    BY <1>1, <1>2, <1>3, <1>4 DEF Next, Proceed

LEMMA NumbersFitStep ==
  ASSUME IsFiniteSet(Mutation), Cardinality(Mutation) <= MaxSeq,
         SafetyInv, NumbersFit, [Next]_vars
  PROVE  NumbersFit'
  <1> USE DEF SafetyInv, QueueOwnership, TypeOK
  <1>1. Spooled \subseteq Spooled'
    BY SpooledStep
  <1>2. /\ Cardinality(Spooled) \in Nat /\ Cardinality(Spooled)' \in Nat
        /\ Cardinality(Spooled) <= Cardinality(Spooled)'
    <2>1. IsFiniteSet(Spooled) /\ IsFiniteSet(Spooled')
      BY FS_Subset DEF Spooled
    <2>2. QED
      BY <1>1, <2>1, FS_Subset, FS_CardinalityType
  <1>3. ASSUME \A g \in spool' : \E f \in spool : g.seq = f.seq
        PROVE  NumbersFit'
    BY <1>2, <1>3, SpoolAssumption DEF NumbersFit, File
  <1>4. ASSUME NEW a \in Actor, WriteTemp(a) PROVE NumbersFit'
    <2>1. a \in Mutation /\ a \notin Spooled /\ pc' = [pc EXCEPT ![a] = "commit"]
      BY <1>4 DEF WriteTemp, Goto, Spooled
    <2>2. PICK n \in 1..MaxSeq :
            NextSequence(n) /\ \E g : spool' = spool \cup {g} /\ g.seq = n
      <3>1. PICK n \in 1..MaxSeq, kind \in {"ready", "indeterminate"} :
              /\ NextSequence(n)
              /\ spool' = spool \cup {[seq |-> n, id |-> a, temp |-> TRUE, kind |-> kind]}
        BY <1>4 DEF WriteTemp
      <3> DEFINE new == [seq |-> n, id |-> a, temp |-> TRUE, kind |-> kind]
      <3>2. new.seq = n
        OBVIOUS
      <3>3. spool' = spool \cup {new}
        BY <3>1
      <3> HIDE DEF new
      <3>4. QED
        BY <3>1, <3>2, <3>3
    <2>3. n <= Cardinality(Spooled) + 1
      BY <2>1, <2>2, NumberIsFree
    <2>4. Spooled' = Spooled \cup {a}
      BY <2>1 DEF Spooled, Actor
    <2>5. Cardinality(Spooled') = Cardinality(Spooled) + 1
      BY <2>1, <2>4, FS_Subset, FS_AddElement DEF Spooled
    <2>6. QED
      BY <1>2, <2>2, <2>3, <2>5, SpoolAssumption DEF NumbersFit, File
  <1>5. ASSUME NEW a \in Actor, CommitFile(a) PROVE NumbersFit'
    <2>1. PICK f \in spool :
            \/ spool' = (spool \ {f}) \cup {[f EXCEPT !.temp = FALSE]}
            \/ spool' = spool \ {f}
            \/ spool' = spool
      BY <1>5 DEF CommitFile
    <2>2. [f EXCEPT !.temp = FALSE].seq = f.seq
      BY DEF File
    <2>3. QED
      BY <1>3, <2>1, <2>2
  <1>6. ASSUME NEW a \in Actor, Quarantine(a) PROVE NumbersFit'
    <2>1. PICK f \in spool :
            \/ spool' = (spool \ {f}) \cup {[f EXCEPT !.kind = "indeterminate"]}
            \/ spool' = spool
      BY <1>6 DEF Quarantine
    <2>2. [f EXCEPT !.kind = "indeterminate"].seq = f.seq
      BY DEF File
    <2>3. QED
      BY <1>3, <2>1, <2>2
  <1>7. \/ spool' \subseteq spool
        \/ \E a \in Actor : WriteTemp(a) \/ CommitFile(a) \/ Quarantine(a)
    BY DEF Next, Proceed, Acquire, AcquireFails, Scan, Replay, RemoveReplayed, Drained,
           AppendIntent, AppendOutcome, AppendReadOutcome, WriteFails, Execute, Crash,
           Reconcile, Heal, vars
  <1>8. QED
    BY <1>3, <1>4, <1>5, <1>6, <1>7

\* Whoever is inside meets no temporary file but those left behind, and its own.
LEMMA TempWhileLocked ==
  ASSUME SafetyInv, TempExplained, NEW a \in Actor, pc[a] \in Locked, pc[a] # "commit"
  PROVE  Unexpected => Leftover # {}
  <1> SUFFICES ASSUME NEW f \in spool, f.temp PROVE f \in Leftover
    BY DEF Unexpected
  <1>1. CASE pc[f.id] = "commit"
    <2>1. f.id \in Actor
      BY DEF SafetyInv, TypeOK, File, Actor
    <2>2. lock = a /\ lock = f.id
      BY <1>1, <2>1 DEF SafetyInv, QueueOwnership, LockedInside, Locked
    <2>3. QED
      BY <1>1, <2>2
  <1>2. QED
    BY <1>1 DEF TempExplained

LEMMA HealthyInitially == Init => TempExplained /\ NumbersFit
  BY DEF Init, TempExplained, NumbersFit

LostOne(m) == pc[m] # "unspooled" /\ pc'[m] = "unspooled"

LEMMA KeepsOutcomeStep ==
  ASSUME IsFiniteSet(Mutation), Cardinality(Mutation) <= MaxSeq,
         SafetyInv, TempExplained, NumbersFit, Next, NEW m \in Mutation, LostOne(m)
  PROVE  ~healthy \/ \E f \in Leftover : f.id # m
  <1> USE DEF SafetyInv, QueueOwnership, TypeOK, LostOne, Actor
  <1>1. ASSUME NEW a \in Actor, WriteFails(a), healthy
        PROVE  \E f \in Leftover : f.id # m
    <2>1. pc[a] \in {"write", "mark"} /\ a \in Mutation
      BY <1>1 DEF WriteFails, SpoolerHasRun
    <2>2. \E n \in 1..MaxSeq : NextSequence(n)
      BY <2>1, NumberIsFree DEF Spooled
    <2>3. Unexpected
      BY <1>1, <2>2 DEF WriteFails
    <2>4. PICK f : f \in Leftover
      BY <2>1, <2>3, TempWhileLocked DEF Locked
    <2>5. a = m
      BY <1>1 DEF WriteFails, Return, Goto
    <2>6. f.id # a
      BY <2>1, <2>4 DEF Leftover
    <2>7. QED
      BY <2>4, <2>5, <2>6
  <1>2. ASSUME NEW a \in Actor, healthy,
               \/ Acquire(a) \/ AcquireFails(a) \/ Scan(a) \/ Replay(a) \/ RemoveReplayed(a)
               \/ Quarantine(a) \/ Drained(a) \/ AppendIntent(a) \/ AppendOutcome(a)
               \/ AppendReadOutcome(a) \/ WriteTemp(a) \/ Execute(a)
        PROVE  FALSE
    <2>1. ASSUME NEW l, Goto(a, l), a \in Mutation => l # "unspooled" PROVE FALSE
      BY <2>1 DEF Goto
    <2>2. ReplayError(a) => FALSE
      <3>1. CASE a \in Mutation /\ Finishing(a)
        BY <2>1, <3>1 DEF ReplayError
      <3>2. CASE ~(a \in Mutation /\ Finishing(a))
        BY <2>1, <3>2 DEF ReplayError, Return, FailedCall
      <3>3. QED
        BY <3>1, <3>2
    <2>3. CASE Scan(a) \/ Replay(a) \/ RemoveReplayed(a) \/ Quarantine(a) \/ Drained(a)
      BY <2>1, <2>2, <2>3 DEF Scan, Replay, RemoveReplayed, Quarantine, Drained
    <2>4. CASE AppendIntent(a)
      BY <1>2, <2>1, <2>4 DEF AppendIntent, Return, FailedCall
    <2>5. CASE AppendOutcome(a)
      BY <1>2, <2>1, <2>5 DEF AppendOutcome, Return
    <2>6. CASE AppendReadOutcome(a)
      BY <1>2, <2>1, <2>6 DEF AppendReadOutcome, Return
    <2>7. CASE Acquire(a) \/ AcquireFails(a) \/ WriteTemp(a) \/ Execute(a)
      BY <1>2, <2>1, <2>7 DEF Acquire, AcquireFails, WriteTemp, Execute
    <2>8. QED
      BY <1>2, <2>3, <2>4, <2>5, <2>6, <2>7
  <1>3. ASSUME NEW a \in Actor, healthy, CommitFile(a)
        PROVE  \E l : Goto(a, l) /\ l # "unspooled"
    BY <1>3 DEF CommitFile, Return
  <1>4. ASSUME NEW a \in Actor, Crash(a) PROVE ~healthy
    BY <1>4 DEF Crash
  <1>5. ASSUME NEW a \in Actor, NEW l, Goto(a, l), a \in Mutation => l # "unspooled" PROVE FALSE
    BY <1>5 DEF Goto
  <1>6. CASE Reconcile \/ Heal
    BY <1>6 DEF Reconcile, Heal
  <1>7. QED
    BY <1>1, <1>2, <1>3, <1>4, <1>5, <1>6 DEF Next, Proceed

\* Once storage has recovered, every mutation that has run keeps its outcome in
\* the log, in the queue or in quarantine, whatever failed or died before, unless
\* an earlier write has left its temporary file behind, if there are as many
\* sequence numbers as mutations.
THEOREM FinishKeepsOutcome ==
  ASSUME IsFiniteSet(Mutation), Cardinality(Mutation) <= MaxSeq
  PROVE  Spec => LossNeedsLeftover
  <1> DEFINE Explained(m) == ~healthy \/ \E f \in Leftover : f.id # m
  <1>1. /\ SafetyInv /\ TempExplained /\ NumbersFit
        /\ [Next]_vars
        => TempExplained' /\ NumbersFit'
    BY TempExplainedStep, NumbersFitStep
  <1>2. SafetyInv /\ TempExplained /\ NumbersFit /\ [Next]_vars
        => [\A m \in Mutation : LostOne(m) => Explained(m)]_vars
    BY KeepsOutcomeStep
  <1>3. (\A m \in Mutation : LostOne(m) => Explained(m)) <=>
        (\A m \in Mutation : pc[m] # "unspooled" /\ pc'[m] = "unspooled" => Explained(m))
    BY DEF LostOne
  <1>4. QED
    BY <1>1, <1>2, <1>3, SafetyAlways, HealthyInitially, PTL
       DEF Spec, LossNeedsLeftover

Refused(a) == pc[a] # "refused" /\ pc'[a] = "refused"

LEMMA RefusalStep ==
  ASSUME Poison = {}, SafetyInv, TempExplained, Next, healthy,
         NEW a \in Actor, Refused(a)
  PROVE  Blocked' \/ Leftover # {}
  <1> USE DEF SafetyInv, QueueOwnership, TypeOK, Refused
  <1>1. ASSUME NEW b \in Actor, Scan(b) PROVE Blocked' \/ Leftover # {}
    <2>1. Unexpected => Leftover # {}
      BY <1>1, TempWhileLocked DEF Scan, Locked
    <2>2. a = b
      BY <1>1 DEF Scan, ReplayError, Return, Goto
    <2>3. Blocked \/ Unexpected
      BY <1>1, <2>2 DEF Scan, Goto
    <2>4. QED
      BY <1>1, <2>1, <2>3 DEF Scan, Blocked
  <1>2. ASSUME NEW b \in Actor, Quarantine(b) PROVE Blocked'
    <2>1. PICK f \in spool :
            Oldest(f) /\ spool' = (spool \ {f}) \cup {[f EXCEPT !.kind = "indeterminate"]}
      BY <1>2 DEF Quarantine
    <2>2. /\ ~[f EXCEPT !.kind = "indeterminate"].temp
          /\ [f EXCEPT !.kind = "indeterminate"].kind = "indeterminate"
      BY <2>1 DEF File, Oldest, Ready
    <2>3. QED
      BY <2>1, <2>2 DEF Blocked, Marker
  <1>3. ASSUME NEW b \in Actor, Replay(b) PROVE FALSE
    <2>1. Goto(b, "remove") \/ Goto(b, "quarantine")
      BY <1>3 DEF Replay, Readable, AppendResult
    <2>2. QED
      BY <2>1 DEF Goto
  <1>4. ASSUME NEW b \in Actor,
               \/ Acquire(b) \/ AcquireFails(b) \/ RemoveReplayed(b) \/ Drained(b)
               \/ AppendIntent(b) \/ AppendOutcome(b) \/ AppendReadOutcome(b)
               \/ WriteTemp(b) \/ WriteFails(b) \/ Execute(b)
        PROVE  FALSE
    <2>1. ASSUME NEW l, Goto(b, l), l # "refused" PROVE FALSE
      BY <2>1 DEF Goto
    <2>2. CASE RemoveReplayed(b) \/ Drained(b)
      BY <2>1, <2>2 DEF RemoveReplayed, Drained
    <2>3. CASE AppendIntent(b)
      BY <2>1, <2>3 DEF AppendIntent, AppendResult, Return
    <2>4. CASE AppendOutcome(b) \/ AppendReadOutcome(b)
      BY <2>1, <2>4 DEF AppendOutcome, AppendReadOutcome, AppendResult, Return
    <2>5. CASE Acquire(b) \/ AcquireFails(b) \/ WriteTemp(b) \/ WriteFails(b) \/ Execute(b)
      BY <2>1, <2>5 DEF Acquire, AcquireFails, WriteTemp, WriteFails, Execute, Return
    <2>6. QED
      BY <1>4, <2>2, <2>3, <2>4, <2>5
  <1>5. ASSUME NEW b \in Actor, CommitFile(b)
        PROVE  \E l : Goto(b, l) /\ l # "refused"
    BY <1>5 DEF CommitFile, Return
  <1>6. ASSUME NEW b \in Actor, NEW l, Goto(b, l), l # "refused" PROVE FALSE
    BY <1>6 DEF Goto
  <1>7. CASE Reconcile \/ Heal
    BY <1>7 DEF Reconcile, Heal
  <1>8. QED
    BY <1>1, <1>2, <1>3, <1>4, <1>5, <1>6, <1>7 DEF Next, Proceed, Crash

\* Once storage has recovered, a call is refused only while an outcome is in
\* quarantine or a temporary file is left behind, whatever failed or died before,
\* if no outcome carries the fingerprint of zero bytes (finding 1).
THEOREM RefusalHasCause ==
  ASSUME Poison = {}
  PROVE  Spec => RefusalNeedsCause
  <1> DEFINE Explained == ~healthy \/ Blocked' \/ Leftover # {}
  <1>1. SafetyInv /\ TempExplained /\ [Next]_vars => TempExplained'
    BY TempExplainedStep
  <1>2. SafetyInv /\ TempExplained /\ [Next]_vars
        => [\A a \in Actor : Refused(a) => Explained]_vars
    BY RefusalStep
  <1>3. (\A a \in Actor : Refused(a) => Explained) <=>
        (\A a \in Actor : pc[a] # "refused" /\ pc'[a] = "refused" => Explained)
    BY DEF Refused
  <1>4. QED
    BY <1>1, <1>2, <1>3, SafetyAlways, HealthyInitially, PTL
       DEF Spec, RefusalNeedsCause
=============================================================================
