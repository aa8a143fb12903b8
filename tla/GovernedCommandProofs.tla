------------------------ MODULE GovernedCommandProofs ------------------------
(***************************************************************************)
(* Proofs about governed commands, for any set of commands that share the  *)
(* audit journal.                                                          *)
(***************************************************************************)
EXTENDS GovernedCommand, TLAPS

\* The parts of the inductive invariant.

\* A command that has not been dispatched has done nothing.
NothingYet ==
  \A c \in Command :
    step[c] \in {"start", "begin", "ready"} =>
      /\ reply[c] = "none"
      /\ c \notin executed
      /\ c \notin changed
      /\ c \notin shown

\* How far a command may get before it is permitted and announced.
Announced ==
  \A c \in Command :
    /\ step[c] \in {"begin", "ready", "ran", "doubt"} => c \in permitted
    /\ step[c] \in {"ready", "ran", "doubt"} => IntentOf(c) \in recorded

\* A command that runs or has run and has not been answered.
Unanswered ==
  \A c \in Command :
    step[c] \in {"ran", "doubt"} =>
      /\ reply[c] = "none"
      /\ c \notin shown
      /\ c \in executed
      /\ seen[c] \in Reports(c)
      /\ c \in Mutation /\ seen[c] \in {"exit0", "cut"} => c \in changed
      /\ step[c] = "doubt" => c \in Mutation

\* The report and the effect were chosen together.
EffectFitsReport ==
  \A c \in Write : seen[c] \in {"short", "nonzero"} => c \notin changed

\* An answer given without running.
RefusedHasNotRun ==
  \A c \in Command :
    reply[c] \in {"denied", "unread", "refused", "unsettled"} => c \notin executed /\ c \notin changed

\* An answered read says "ok" only with both records durable.
ReadAnswerIsTrue ==
  \A c \in Command \cap Reader :
    reply[c] \in {"ok", "cut", "failed"} => {IntentOf(c), OutcomeOf(c)} \subseteq recorded

\* "ok" means exit status 0 with all of the output.
OkIsExitZero == \A c \in Command : reply[c] = "ok" => seen[c] = "exit0"

CommandInv ==
  /\ CommandTypeOK
  /\ NothingYet
  /\ Announced
  /\ Unanswered
  /\ EffectFitsReport
  /\ RefusedHasNotRun
  /\ ReadAnswerIsTrue
  /\ OkIsExitZero
  /\ ChangeIsAnnounced
  /\ PlainFailureIsSafeToRetry
  /\ SuccessIsTrue
  /\ UnrecordedOutcomeIsTold
  /\ ShownReadIsRecorded

-----------------------------------------------------------------------------
\* What the reports and replies say.
LEMMA DefiniteReports ==
  \A c \in Write : \A r \in {"short", "nonzero"} : Effects(c, r) = {FALSE}
  BY DEF Effects, WriteEffects

LEMMA CompleteEffects ==
  \A c \in Command : \A r \in {"exit0", "cut"} : Effects(c, r) = {TRUE}
  BY DEF Effects, WriteEffects

LEMMA ReportsTyped ==
  \A c \in Command :
    Reports(c) \subseteq {"exit0", "cut", "nonzero", "transport", "odd", "short"}
  BY DEF Reports, WriteReports

LEMMA ReplyTyped ==
  \A c \in Command :
    /\ OperationReply(c) \in {"ok", "truncated", "cut", "uncertain", "failed"}
    /\ OperationReply(c) = "ok" => seen[c] = "exit0"
    /\ OperationReply(c) = "truncated" => seen[c] = "cut"
    /\ OperationReply(c) = "failed" /\ c \in Mutation =>
         seen[c] \notin {"exit0", "cut", "transport", "odd"}
  BY DEF OperationReply, Definite

LEMMA PlainWriteReports ==
  \A c \in Write :
    \A r \in Reports(c) : r \notin {"exit0", "cut", "transport", "odd"} => r \in {"short", "nonzero"}
  BY DEF Reports, WriteReports

\* The journal never forgets, and runs nothing twice.
LEMMA JournalGrows ==
  ASSUME NEW a, \/ Announce(a) \/ Conclude(a) \/ Enqueue(a) \/ Suspect(a)
                \/ UNCHANGED journalVars \/ Settle(a)
  PROVE  recorded \subseteq recorded' /\ executed' = executed
  BY DEF Announce, Conclude, Enqueue, Suspect, Settle, journalVars

LEMMA UpkeepGrows ==
  Upkeep => recorded \subseteq recorded' /\ executed' = executed /\ UNCHANGED commandVars
  BY DEF Upkeep, Deliver, Retire, SuspectOldest, Settle

-----------------------------------------------------------------------------
LEMMA CommandInitially == JournalInit /\ CommandInit => CommandInv
<1> SUFFICES ASSUME JournalInit, CommandInit
             PROVE  CommandInv
  OBVIOUS
<1> USE CommandAssumption DEF JournalInit, CommandInit
<1>1. CommandTypeOK
  BY DEF CommandTypeOK
<1>2. NothingYet /\ Announced /\ Unanswered
  BY DEF NothingYet, Announced, Unanswered
<1>3. EffectFitsReport /\ RefusedHasNotRun /\ ReadAnswerIsTrue /\ OkIsExitZero
  BY DEF EffectFitsReport, RefusedHasNotRun, ReadAnswerIsTrue, OkIsExitZero
<1>4. ChangeIsAnnounced /\ ShownReadIsRecorded
  BY DEF ChangeIsAnnounced, ShownReadIsRecorded
<1>5. PlainFailureIsSafeToRetry /\ SuccessIsTrue /\ UnrecordedOutcomeIsTold
  BY DEF PlainFailureIsSafeToRetry, SuccessIsTrue, UnrecordedOutcomeIsTold
<1> QED
  BY <1>1, <1>2, <1>3, <1>4, <1>5 DEF CommandInv

\* Steps of others: the journal grows, the commands stay where they are.
LEMMA CommandForeign ==
  ASSUME CommandInv, recorded \subseteq recorded', UNCHANGED commandVars,
         \A c \in Command : c \in executed' <=> c \in executed
  PROVE  CommandInv'
<1> USE CommandAssumption DEF commandVars
<1>1. CommandTypeOK'
  BY DEF CommandInv, CommandTypeOK
<1>2. NothingYet' /\ Announced' /\ Unanswered'
  BY DEF CommandInv, NothingYet, Announced, Unanswered, Reports, WriteReports, IntentOf
<1>3. EffectFitsReport' /\ RefusedHasNotRun' /\ ReadAnswerIsTrue' /\ OkIsExitZero'
  BY DEF CommandInv, EffectFitsReport, RefusedHasNotRun, ReadAnswerIsTrue, OkIsExitZero,
         IntentOf, OutcomeOf
<1>4. ChangeIsAnnounced' /\ ShownReadIsRecorded'
  BY DEF CommandInv, ChangeIsAnnounced, ShownReadIsRecorded, IntentOf, OutcomeOf
<1>5. PlainFailureIsSafeToRetry' /\ SuccessIsTrue' /\ UnrecordedOutcomeIsTold'
  BY DEF CommandInv, PlainFailureIsSafeToRetry, SuccessIsTrue, UnrecordedOutcomeIsTold,
         IntentOf, OutcomeOf
<1> QED
  BY <1>1, <1>2, <1>3, <1>4, <1>5 DEF CommandInv

-----------------------------------------------------------------------------

\* Denying a command runs nothing.
LEMMA AuthorizeKeeps ==
  ASSUME CommandInv, NEW c \in Command, Authorize(c)
  PROVE  CommandInv'
<1> USE CommandAssumption
<1>1. /\ step[c] = "start"
     /\ \/ /\ c \in permitted
           /\ step' = [step EXCEPT ![c] = "begin"]
           /\ reply' = reply
        \/ \E a \in {"denied", "unread"} :
             /\ step' = [step EXCEPT ![c] = "done"]
             /\ reply' = [reply EXCEPT ![c] = a]
     /\ UNCHANGED <<recorded, executed, permitted, seen, changed, shown, notice>>
  BY DEF Authorize, Answer, Advance, journalVars
<1>2. CommandTypeOK'
  BY <1>1 DEF CommandInv, CommandTypeOK
<1>3. NothingYet'
  BY <1>1 DEF CommandInv, CommandTypeOK, NothingYet
<1>4. Announced'
  BY <1>1 DEF CommandInv, CommandTypeOK, Announced
<1>5. Unanswered'
  BY <1>1 DEF CommandInv, CommandTypeOK, Unanswered, Reports, WriteReports
<1>6. EffectFitsReport'
  BY <1>1 DEF CommandInv, CommandTypeOK, EffectFitsReport
<1>7. RefusedHasNotRun'
  BY <1>1 DEF CommandInv, CommandTypeOK, RefusedHasNotRun, NothingYet
<1>8. ReadAnswerIsTrue'
  BY <1>1 DEF CommandInv, CommandTypeOK, ReadAnswerIsTrue
<1>9. OkIsExitZero'
  BY <1>1 DEF CommandInv, CommandTypeOK, OkIsExitZero
<1>10. ChangeIsAnnounced'
  BY <1>1 DEF CommandInv, CommandTypeOK, ChangeIsAnnounced
<1>11. PlainFailureIsSafeToRetry'
  BY <1>1 DEF CommandInv, CommandTypeOK, PlainFailureIsSafeToRetry, NothingYet
<1>12. SuccessIsTrue'
  BY <1>1 DEF CommandInv, CommandTypeOK, SuccessIsTrue
<1>13. UnrecordedOutcomeIsTold'
  BY <1>1 DEF CommandInv, CommandTypeOK, UnrecordedOutcomeIsTold, NothingYet
<1>14. ShownReadIsRecorded'
  BY <1>1 DEF CommandInv, CommandTypeOK, ShownReadIsRecorded
<1> QED
  BY <1>2, <1>3, <1>4, <1>5, <1>6, <1>7, <1>8, <1>9, <1>10, <1>11, <1>12, <1>13, <1>14 DEF CommandInv

\* A command gets ready only with its intent in the journal.
LEMMA BeginKeeps ==
  ASSUME CommandInv, NEW c \in Command, Begin(c)
  PROVE  CommandInv'
<1> USE CommandAssumption
<1>1. /\ step[c] = "begin"
     /\ \/ /\ step' = [step EXCEPT ![c] = "ready"]
           /\ reply' = reply
           /\ IntentOf(c) \in recorded'
        \/ \E a \in {"refused", "unsettled"} :
             /\ step' = [step EXCEPT ![c] = "done"]
             /\ reply' = [reply EXCEPT ![c] = a]
     /\ recorded \subseteq recorded'
     /\ UNCHANGED <<executed, permitted, seen, changed, shown, notice>>
  BY DEF Begin, Answer, Advance, Announce, journalVars
<1>2. CommandTypeOK'
  BY <1>1 DEF CommandInv, CommandTypeOK
<1>3. NothingYet'
  BY <1>1 DEF CommandInv, CommandTypeOK, NothingYet
<1>4. Announced'
  BY <1>1 DEF CommandInv, CommandTypeOK, Announced
<1>5. Unanswered'
  BY <1>1 DEF CommandInv, CommandTypeOK, Unanswered, Reports, WriteReports
<1>6. EffectFitsReport'
  BY <1>1 DEF CommandInv, CommandTypeOK, EffectFitsReport
<1>7. RefusedHasNotRun'
  BY <1>1 DEF CommandInv, CommandTypeOK, RefusedHasNotRun, NothingYet
<1>8. ReadAnswerIsTrue'
  BY <1>1 DEF CommandInv, CommandTypeOK, ReadAnswerIsTrue
<1>9. OkIsExitZero'
  BY <1>1 DEF CommandInv, CommandTypeOK, OkIsExitZero
<1>10. ChangeIsAnnounced'
  BY <1>1 DEF CommandInv, CommandTypeOK, ChangeIsAnnounced
<1>11. PlainFailureIsSafeToRetry'
  BY <1>1 DEF CommandInv, CommandTypeOK, PlainFailureIsSafeToRetry, NothingYet
<1>12. SuccessIsTrue'
  BY <1>1 DEF CommandInv, CommandTypeOK, SuccessIsTrue
<1>13. UnrecordedOutcomeIsTold'
  BY <1>1 DEF CommandInv, CommandTypeOK, UnrecordedOutcomeIsTold, NothingYet
<1>14. ShownReadIsRecorded'
  BY <1>1 DEF CommandInv, CommandTypeOK, ShownReadIsRecorded
<1> QED
  BY <1>2, <1>3, <1>4, <1>5, <1>6, <1>7, <1>8, <1>9, <1>10, <1>11, <1>12, <1>13, <1>14 DEF CommandInv

\* The report and the effect of a command fit each other.
LEMMA RunKeeps ==
  ASSUME CommandInv, NEW c \in Command, Run(c)
  PROVE  CommandInv'
<1> USE CommandAssumption
<1>1. /\ step[c] = "ready"
     /\ step' = [step EXCEPT ![c] = "ran"]
     /\ recorded' = recorded
     /\ executed' = executed \cup {c}
     /\ \E r \in Reports(c) :
          /\ seen' = [seen EXCEPT ![c] = r]
          /\ \/ changed' = changed
             \/ c \in Mutation /\ changed' = changed \cup {c}
          /\ c \in Mutation /\ r \in {"exit0", "cut"} => c \in changed'
          /\ c \in Write /\ r \in {"short", "nonzero"} => changed' = changed
     /\ \/ notice' = notice
        \/ \E n \in {"told", "held"} : notice' = [notice EXCEPT ![c] = n]
     /\ UNCHANGED <<permitted, reply, shown>>
  <2>1. PICK r \in Reports(c) :
          /\ seen' = [seen EXCEPT ![c] = r]
          /\ \E e \in Effects(c, r) :
               changed' = IF e /\ c \in Mutation THEN changed \cup {c} ELSE changed
    BY DEF Run
  <2>2. PICK e \in Effects(c, r) :
          changed' = IF e /\ c \in Mutation THEN changed \cup {c} ELSE changed
    BY <2>1
  <2>3. r \in {"exit0", "cut"} => e = TRUE
    BY CompleteEffects
  <2>4. c \in Write /\ r \in {"short", "nonzero"} => e = FALSE
    BY DefiniteReports
  <2>5. /\ step[c] = "ready"
        /\ step' = [step EXCEPT ![c] = "ran"]
        /\ recorded' = recorded
        /\ executed' = executed \cup {c}
        /\ \/ notice' = notice
           \/ \E n \in {"told", "held"} : notice' = [notice EXCEPT ![c] = n]
        /\ UNCHANGED <<permitted, reply, shown>>
    BY DEF Run, Dispatch, Advance
  <2> QED
    BY <2>1, <2>2, <2>3, <2>4, <2>5
<1>2. CommandTypeOK'
  BY <1>1, ReportsTyped DEF CommandInv, CommandTypeOK
<1>3. NothingYet'
  BY <1>1, ReportsTyped DEF CommandInv, CommandTypeOK, NothingYet
<1>4. Announced'
  BY <1>1, ReportsTyped DEF CommandInv, CommandTypeOK, Announced
<1>5. Unanswered'
  BY <1>1, ReportsTyped DEF CommandInv, CommandTypeOK, Unanswered, NothingYet, Announced
<1>6. EffectFitsReport'
  BY <1>1, ReportsTyped DEF CommandInv, CommandTypeOK, EffectFitsReport, NothingYet
<1>7. RefusedHasNotRun'
  BY <1>1, ReportsTyped DEF CommandInv, CommandTypeOK, RefusedHasNotRun, NothingYet
<1>8. ReadAnswerIsTrue'
  BY <1>1, ReportsTyped DEF CommandInv, CommandTypeOK, ReadAnswerIsTrue, NothingYet
<1>9. OkIsExitZero'
  BY <1>1, ReportsTyped DEF CommandInv, CommandTypeOK, OkIsExitZero, NothingYet
<1>10. ChangeIsAnnounced'
  BY <1>1, ReportsTyped DEF CommandInv, CommandTypeOK, ChangeIsAnnounced, Announced
<1>11. PlainFailureIsSafeToRetry'
  BY <1>1, ReportsTyped DEF CommandInv, CommandTypeOK, PlainFailureIsSafeToRetry, NothingYet
<1>12. SuccessIsTrue'
  BY <1>1, ReportsTyped DEF CommandInv, CommandTypeOK, SuccessIsTrue, NothingYet
<1>13. UnrecordedOutcomeIsTold'
  BY <1>1, ReportsTyped DEF CommandInv, CommandTypeOK, UnrecordedOutcomeIsTold, NothingYet
<1>14. ShownReadIsRecorded'
  BY <1>1, ReportsTyped DEF CommandInv, CommandTypeOK, ShownReadIsRecorded
<1> QED
  BY <1>2, <1>3, <1>4, <1>5, <1>6, <1>7, <1>8, <1>9, <1>10, <1>11, <1>12, <1>13, <1>14 DEF CommandInv

\* A mutation is told the plain result only with its outcome in the journal.
LEMMA FinishKeeps ==
  ASSUME CommandInv, NEW c \in Command, Finish(c)
  PROVE  CommandInv'
<1> USE CommandAssumption
<1>1. /\ step[c] = "ran"
     /\ c \in Mutation
     /\ \/ \E a \in {"ok", "truncated", "uncertain", "failed", "auditError"} :
             /\ step' = [step EXCEPT ![c] = "done"]
             /\ reply' = [reply EXCEPT ![c] = a]
             /\ OutcomeOf(c) \in recorded'
             /\ a = "ok" => seen[c] = "exit0"
             /\ a = "truncated" => seen[c] = "cut"
             /\ a = "failed" => seen[c] \notin {"exit0", "cut", "transport", "odd"}
        \/ /\ step' = [step EXCEPT ![c] = "done"]
           /\ reply' = [reply EXCEPT ![c] = "auditIncomplete"]
        \/ /\ step' = [step EXCEPT ![c] = "doubt"]
           /\ reply' = reply
     /\ recorded \subseteq recorded'
     /\ UNCHANGED <<executed, permitted, seen, changed, shown, notice>>
  <2>1. ASSUME Conclude(c)
        PROVE  OutcomeOf(c) \in recorded'
    BY <2>1 DEF Conclude
  <2>2. OperationReply(c) # "cut"
    BY DEF OperationReply, Finish
  <2>3. recorded \subseteq recorded' /\ executed' = executed
    BY JournalGrows DEF Finish
  <2> QED
    BY <2>1, <2>2, <2>3, ReplyTyped DEF Finish, Answer, Advance
<1>2. CommandTypeOK'
  BY <1>1 DEF CommandInv, CommandTypeOK
<1>3. NothingYet'
  BY <1>1 DEF CommandInv, CommandTypeOK, NothingYet
<1>4. Announced'
  BY <1>1 DEF CommandInv, CommandTypeOK, Announced
<1>5. Unanswered'
  BY <1>1 DEF CommandInv, CommandTypeOK, Unanswered
<1>6. EffectFitsReport'
  BY <1>1 DEF CommandInv, CommandTypeOK, EffectFitsReport
<1>7. RefusedHasNotRun'
  BY <1>1 DEF CommandInv, CommandTypeOK, RefusedHasNotRun, NothingYet
<1>8. ReadAnswerIsTrue'
  BY <1>1 DEF CommandInv, CommandTypeOK, ReadAnswerIsTrue
<1>9. OkIsExitZero'
  BY <1>1 DEF CommandInv, CommandTypeOK, OkIsExitZero
<1>10. ChangeIsAnnounced'
  BY <1>1 DEF CommandInv, CommandTypeOK, ChangeIsAnnounced
<1>11. PlainFailureIsSafeToRetry'
  BY <1>1, PlainWriteReports DEF CommandInv, CommandTypeOK, PlainFailureIsSafeToRetry, NothingYet, Unanswered, EffectFitsReport
<1>12. SuccessIsTrue'
  BY <1>1 DEF CommandInv, CommandTypeOK, SuccessIsTrue, Unanswered, Announced
<1>13. UnrecordedOutcomeIsTold'
  BY <1>1 DEF CommandInv, CommandTypeOK, UnrecordedOutcomeIsTold, NothingYet
<1>14. ShownReadIsRecorded'
  BY <1>1 DEF CommandInv, CommandTypeOK, ShownReadIsRecorded
<1> QED
  BY <1>2, <1>3, <1>4, <1>5, <1>6, <1>7, <1>8, <1>9, <1>10, <1>11, <1>12, <1>13, <1>14 DEF CommandInv

\* After an append of unknown fate the mutation is told AUDIT_INCOMPLETE.
LEMMA MarkKeeps ==
  ASSUME CommandInv, NEW c \in Command, Mark(c)
  PROVE  CommandInv'
<1> USE CommandAssumption
<1>1. /\ step[c] = "doubt"
     /\ step' = [step EXCEPT ![c] = "done"]
     /\ reply' = [reply EXCEPT ![c] = "auditIncomplete"]
     /\ recorded \subseteq recorded'
     /\ UNCHANGED <<executed, permitted, seen, changed, shown, notice>>
  BY DEF Mark, Answer, Suspect, journalVars
<1>2. CommandTypeOK'
  BY <1>1 DEF CommandInv, CommandTypeOK
<1>3. NothingYet'
  BY <1>1 DEF CommandInv, CommandTypeOK, NothingYet
<1>4. Announced'
  BY <1>1 DEF CommandInv, CommandTypeOK, Announced
<1>5. Unanswered'
  BY <1>1 DEF CommandInv, CommandTypeOK, Unanswered
<1>6. EffectFitsReport'
  BY <1>1 DEF CommandInv, CommandTypeOK, EffectFitsReport
<1>7. RefusedHasNotRun'
  BY <1>1 DEF CommandInv, CommandTypeOK, RefusedHasNotRun, NothingYet
<1>8. ReadAnswerIsTrue'
  BY <1>1 DEF CommandInv, CommandTypeOK, ReadAnswerIsTrue
<1>9. OkIsExitZero'
  BY <1>1 DEF CommandInv, CommandTypeOK, OkIsExitZero
<1>10. ChangeIsAnnounced'
  BY <1>1 DEF CommandInv, CommandTypeOK, ChangeIsAnnounced
<1>11. PlainFailureIsSafeToRetry'
  BY <1>1 DEF CommandInv, CommandTypeOK, PlainFailureIsSafeToRetry, NothingYet
<1>12. SuccessIsTrue'
  BY <1>1 DEF CommandInv, CommandTypeOK, SuccessIsTrue
<1>13. UnrecordedOutcomeIsTold'
  BY <1>1 DEF CommandInv, CommandTypeOK, UnrecordedOutcomeIsTold, NothingYet
<1>14. ShownReadIsRecorded'
  BY <1>1 DEF CommandInv, CommandTypeOK, ShownReadIsRecorded
<1> QED
  BY <1>2, <1>3, <1>4, <1>5, <1>6, <1>7, <1>8, <1>9, <1>10, <1>11, <1>12, <1>13, <1>14 DEF CommandInv

\* A read is answered and shown only with its outcome in the journal.
LEMMA FinishReadKeeps ==
  ASSUME CommandInv, NEW c \in Command, FinishRead(c)
  PROVE  CommandInv'
<1> USE CommandAssumption
<1>1. /\ step[c] = "ran"
     /\ c \in Reader
     /\ step' = [step EXCEPT ![c] = "done"]
     /\ \/ \E a \in {"ok", "truncated", "cut", "uncertain", "failed"} :
             /\ reply' = [reply EXCEPT ![c] = a]
             /\ OutcomeOf(c) \in recorded'
             /\ a = "ok" => seen[c] = "exit0"
             /\ shown' \in {shown, shown \cup {c}}
        \/ /\ reply' = [reply EXCEPT ![c] = "withheld"]
           /\ shown' = shown
     /\ \/ notice' = notice
        \/ notice' = [notice EXCEPT ![c] = "told"]
     /\ recorded \subseteq recorded'
     /\ UNCHANGED <<executed, permitted, seen, changed>>
  <2>1. ASSUME Conclude(c)
        PROVE  OutcomeOf(c) \in recorded'
    BY <2>1 DEF Conclude
  <2>2. recorded \subseteq recorded' /\ executed' = executed
    BY JournalGrows DEF FinishRead
  <2>3. \/ notice' = notice
        \/ notice' = [notice EXCEPT ![c] = "told"]
    BY DEF FinishRead, Tell, CommandInv, CommandTypeOK
  <2> QED
    BY <2>1, <2>2, <2>3, ReplyTyped DEF FinishRead, Answer
<1>2. CommandTypeOK'
  BY <1>1 DEF CommandInv, CommandTypeOK
<1>3. NothingYet'
  BY <1>1 DEF CommandInv, CommandTypeOK, NothingYet
<1>4. Announced'
  BY <1>1 DEF CommandInv, CommandTypeOK, Announced
<1>5. Unanswered'
  BY <1>1 DEF CommandInv, CommandTypeOK, Unanswered
<1>6. EffectFitsReport'
  BY <1>1 DEF CommandInv, CommandTypeOK, EffectFitsReport
<1>7. RefusedHasNotRun'
  BY <1>1 DEF CommandInv, CommandTypeOK, RefusedHasNotRun, NothingYet
<1>8. ReadAnswerIsTrue'
  BY <1>1 DEF CommandInv, CommandTypeOK, ReadAnswerIsTrue, Announced
<1>9. OkIsExitZero'
  BY <1>1 DEF CommandInv, CommandTypeOK, OkIsExitZero
<1>10. ChangeIsAnnounced'
  BY <1>1 DEF CommandInv, CommandTypeOK, ChangeIsAnnounced
<1>11. PlainFailureIsSafeToRetry'
  BY <1>1 DEF CommandInv, CommandTypeOK, PlainFailureIsSafeToRetry, NothingYet
<1>12. SuccessIsTrue'
  BY <1>1 DEF CommandInv, CommandTypeOK, SuccessIsTrue
<1>13. UnrecordedOutcomeIsTold'
  BY <1>1 DEF CommandInv, CommandTypeOK, UnrecordedOutcomeIsTold, NothingYet
<1>14. ShownReadIsRecorded'
  BY <1>1 DEF CommandInv, CommandTypeOK, ShownReadIsRecorded, Announced
<1> QED
  BY <1>2, <1>3, <1>4, <1>5, <1>6, <1>7, <1>8, <1>9, <1>10, <1>11, <1>12, <1>13, <1>14 DEF CommandInv

-----------------------------------------------------------------------------
LEMMA GovernKeeps ==
  ASSUME CommandInv, NEW c \in Command, Govern(c)
  PROVE  CommandInv'
  BY AuthorizeKeeps, BeginKeeps, RunKeeps, FinishKeeps, MarkKeeps, FinishReadKeeps
     DEF Govern

LEMMA CommandStep == CommandInv /\ [CommandNext]_<<journalVars, commandVars>> => CommandInv'
<1> SUFFICES ASSUME CommandInv, [CommandNext]_<<journalVars, commandVars>>
             PROVE  CommandInv'
  OBVIOUS
<1>1. ASSUME NEW c \in Command, Govern(c)
      PROVE  CommandInv'
  BY <1>1, GovernKeeps
<1>2. CASE Upkeep
  BY <1>2, UpkeepGrows, CommandForeign
<1>3. CASE UNCHANGED <<journalVars, commandVars>>
  BY <1>3, CommandForeign DEF journalVars
<1> QED
  BY <1>1, <1>2, <1>3 DEF CommandNext

LEMMA CommandAlways == CommandSpec => []CommandInv
  BY CommandInitially, CommandStep, PTL DEF CommandSpec, CommandStart

\* No target changes before the intent of the change is in the journal.
THEOREM ChangesAnnounced == CommandSpec => []ChangeIsAnnounced
<1>1. CommandInv => ChangeIsAnnounced
  BY DEF CommandInv
<1> QED
  BY <1>1, CommandAlways, PTL

\* A write that is told a plain failure has left the file as it was.
THEOREM PlainFailuresSafe == CommandSpec => []PlainFailureIsSafeToRetry
<1>1. CommandInv => PlainFailureIsSafeToRetry
  BY DEF CommandInv
<1> QED
  BY <1>1, CommandAlways, PTL

\* A mutation that is told success has changed its target and is recorded.
THEOREM SuccessesTrue == CommandSpec => []SuccessIsTrue
<1>1. CommandInv => SuccessIsTrue
  BY DEF CommandInv
<1> QED
  BY <1>1, CommandAlways, PTL

\* Only AUDIT_INCOMPLETE may stand for an outcome that is not in the journal.
THEOREM OutcomesTold == CommandSpec => []UnrecordedOutcomeIsTold
<1>1. CommandInv => UnrecordedOutcomeIsTold
  BY DEF CommandInv
<1> QED
  BY <1>1, CommandAlways, PTL

\* A read is shown only with both of its records in the journal.
THEOREM ShownReadsRecorded == CommandSpec => []ShownReadIsRecorded
<1>1. CommandInv => ShownReadIsRecorded
  BY DEF CommandInv
<1> QED
  BY <1>1, CommandAlways, PTL

-----------------------------------------------------------------------------
(* The notices of new host keys.                                            *)

\* There is no notice before the round trip, and that of a mutation is printed
\* at once.  So a held one is that of a read that has run, and a read answers
\* together with its notice.
NoticeInv ==
  /\ \A c \in Command :
       /\ step[c] \in {"start", "begin", "ready"} => notice[c] = "none"
       /\ c \in Mutation => notice[c] # "held"
  /\ NoticeIsKept

LEMMA NoticeStep ==
  CommandInv /\ NoticeInv /\ [CommandNext]_<<journalVars, commandVars>> => NoticeInv'
<1> SUFFICES ASSUME CommandInv, NoticeInv, [CommandNext]_<<journalVars, commandVars>>
             PROVE  NoticeInv'
  OBVIOUS
<1> USE CommandAssumption DEF NoticeInv, NoticeIsKept
<1>0. /\ CommandTypeOK
      /\ \A c \in Command : step[c] = "doubt" => c \in Mutation
  BY DEF CommandInv, Unanswered
<1>1. ASSUME NEW c \in Command, Authorize(c) PROVE NoticeInv'
  BY <1>0, <1>1 DEF CommandTypeOK, Authorize, Advance, Answer
<1>2. ASSUME NEW c \in Command, Begin(c) PROVE NoticeInv'
  BY <1>0, <1>2 DEF CommandTypeOK, Begin, Advance, Answer
<1>3. ASSUME NEW c \in Command, Run(c) PROVE NoticeInv'
  <2>1. step' = [step EXCEPT ![c] = "ran"] /\ step[c] = "ready"
    BY <1>3 DEF Run, Advance
  <2>2. \/ notice' = notice
        \/ notice' = [notice EXCEPT ![c] = IF c \in Mutation THEN "told" ELSE "held"]
    BY <1>3 DEF Run
  <2> QED
    BY <1>0, <2>1, <2>2 DEF CommandTypeOK
<1>4. ASSUME NEW c \in Command, Finish(c) PROVE NoticeInv'
  <2>1. /\ step' \in {[step EXCEPT ![c] = "done"], [step EXCEPT ![c] = "doubt"]}
        /\ notice' = notice /\ c \in Mutation
    BY <1>4 DEF Finish, Advance, Answer
  <2> QED
    BY <1>0, <2>1 DEF CommandTypeOK
<1>5. ASSUME NEW c \in Command, Mark(c) PROVE NoticeInv'
  BY <1>0, <1>5 DEF CommandTypeOK, Mark, Answer
<1>6. ASSUME NEW c \in Command, FinishRead(c) PROVE NoticeInv'
  <2>1. /\ step' = [step EXCEPT ![c] = "done"] /\ c \in Reader
        /\ notice' = [notice EXCEPT ![c] = IF @ = "held" THEN "told" ELSE @]
    BY <1>6 DEF FinishRead, Tell, Answer
  <2> QED
    BY <1>0, <2>1 DEF CommandTypeOK
<1>7. CASE UNCHANGED <<step, notice>>
  BY <1>7
<1>8. \/ \E c \in Command : Govern(c)
      \/ UNCHANGED <<step, notice>>
  BY UpkeepGrows DEF CommandNext, commandVars
<1> QED
  BY <1>1, <1>2, <1>3, <1>4, <1>5, <1>6, <1>7, <1>8 DEF Govern

\* The notice of a new host key is never lost, and that of a read is printed only
\* when the outcome of the read has been offered to the journal.
THEOREM NoticesKept == CommandSpec => []NoticeIsKept
<1>1. CommandStart => NoticeInv
  BY DEF CommandStart, CommandInit, NoticeInv, NoticeIsKept
<1>2. NoticeInv => NoticeIsKept
  BY DEF NoticeInv
<1> QED
  BY <1>1, <1>2, CommandAlways, NoticeStep, PTL DEF CommandSpec

-----------------------------------------------------------------------------
(* Governed commands use the journal as it asks to be used.                 *)

LEMMA GovernIsJournal ==
  ASSUME CommandInv, NEW c \in Command, Govern(c)
  PROVE  [JournalNext]_journalVars
<1> USE CommandAssumption
<1>1. CASE Authorize(c)
  BY <1>1 DEF Authorize
<1>2. CASE Begin(c)
  BY <1>2 DEF Begin, JournalNext
<1>3. CASE Run(c)
  <2>1. IntentOf(c) \in recorded
    BY <1>3 DEF Run, CommandInv, Announced
  <2>2. Perform(c)
    BY <1>3, <2>1 DEF Run, Dispatch, Perform
  <2> QED
    BY <2>2 DEF JournalNext
<1>4. CASE Finish(c)
  BY <1>4 DEF Finish, JournalNext
<1>5. CASE Mark(c)
  <2>1. c \in Mutation
    BY <1>5 DEF Mark, CommandInv, Unanswered
  <2> QED
    BY <1>5, <2>1 DEF Mark, JournalNext
<1>6. CASE FinishRead(c)
  BY <1>6 DEF FinishRead, JournalNext
<1> QED
  BY <1>1, <1>2, <1>3, <1>4, <1>5, <1>6 DEF Govern

\* Every command announces before it performs: what the commands do to the
\* journal is a behaviour of the journal.
THEOREM CommandsUseJournal == CommandSpec => JournalSpec
<1>1. CommandStart => JournalInit
  BY DEF CommandStart
<1>2. CommandInv /\ [CommandNext]_<<journalVars, commandVars>> => [JournalNext]_journalVars
  <2> SUFFICES ASSUME CommandInv, [CommandNext]_<<journalVars, commandVars>>
               PROVE  [JournalNext]_journalVars
    OBVIOUS
  <2>1. ASSUME NEW c \in Command, Govern(c)
        PROVE  [JournalNext]_journalVars
    BY <2>1, GovernIsJournal
  <2>2. CASE Upkeep
    BY <2>2 DEF Upkeep, JournalNext
  <2>3. CASE UNCHANGED <<journalVars, commandVars>>
    BY <2>3
  <2> QED
    BY <2>1, <2>2, <2>3 DEF CommandNext
<1> QED
  BY <1>1, <1>2, CommandAlways, PTL DEF CommandSpec, JournalSpec
=============================================================================
