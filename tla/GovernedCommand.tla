--------------------------- MODULE GovernedCommand --------------------------
(***************************************************************************)
(* One governed remote command (cmd/governed_remote.go): authorize, record *)
(* the intent, run over SSH, record the outcome, answer the caller.        *)
(*                                                                         *)
(* Several commands run at once, in several processes or in the workers of *)
(* one fleet command, and share the audit journal.  AuditJournal is what   *)
(* the audit log and its spool promise; AuditSpool implements it.          *)
(***************************************************************************)
EXTENDS AuditJournal, WriteReport, FiniteSets

CONSTANTS
  Command,    \* the governed commands
  Write,      \* those of them that send a file over stdin
  FirstUse    \* those of them that meet a host for the first time

ASSUME CommandAssumption ==
  /\ Mutation \cap Reader = {}
  /\ Command \subseteq Mutation \cup Reader
  /\ Write \subseteq Command \cap Mutation
  /\ FirstUse \subseteq Command

VARIABLES
  permitted,   \* commands that policy, reason and flags allow
  step,        \* where each command is
  seen,        \* what the SSH client reported of each command
  changed,     \* commands whose effect took place on the target
  reply,       \* what the caller was told
  shown,       \* reads whose backend result was handed to the caller
  notice       \* the host-key notice of each command

commandVars == <<permitted, step, seen, changed, reply, shown, notice>>

-----------------------------------------------------------------------------
Reports(c) ==
  IF c \in Write THEN WriteReports ELSE {"exit0", "cut", "nonzero", "transport"}

\* What can have happened on the target of a mutation.
Effects(c, r) ==
  IF c \in Write THEN WriteEffects(r)
  ELSE IF r \in {"exit0", "cut"} THEN {TRUE} ELSE BOOLEAN

\* Mutant: only a transport error leaves a file write uncertain.
DefiniteAnyExit(r) == r # "transport"

\* Whether the report settles what happened: atomicFileWriteExitIsDefiniteFailure
\* and the uncertain flag of finishRemoteMutationAudit.
Definite(r) == r \notin {"transport", "odd"}

\* The error of the operation itself.
OperationReply(c) ==
  CASE seen[c] = "exit0" -> "ok"
    [] seen[c] = "cut" -> IF c \in Mutation THEN "truncated" ELSE "cut"
    [] c \in Mutation /\ ~Definite(seen[c]) -> "uncertain"
    [] OTHER -> "failed"

Answer(c, answer) ==
  /\ step' = [step EXCEPT ![c] = "done"]
  /\ reply' = [reply EXCEPT ![c] = answer]

Advance(c, s) == step' = [step EXCEPT ![c] = s] /\ UNCHANGED reply

CommandInit ==
  /\ permitted \in SUBSET Command
  /\ step = [c \in Command |-> "start"]
  /\ seen = [c \in Command |-> "nothing"]
  /\ changed = {}
  /\ reply = [c \in Command |-> "none"]
  /\ shown = {}
  /\ notice = [c \in Command |-> "none"]

-----------------------------------------------------------------------------
\* A missing reason or a refused authorization denies the command; the denied
\* event is recorded if it can be.  Stdin is read only after authorization.
Authorize(c) ==
  /\ step[c] = "start"
  /\ \/ c \in permitted /\ Advance(c, "begin")
     \/ c \notin permitted /\ Answer(c, "denied")
     \/ c \in permitted \cap Write /\ Answer(c, "unread")
  /\ UNCHANGED <<permitted, seen, changed, shown, notice, journalVars>>

\* Mutant: the error of the begin call is not looked at.
BeginUnchecked(c) ==
  /\ step[c] = "begin"
  /\ Announce(c) \/ UNCHANGED journalVars
  /\ Advance(c, "ready")
  /\ UNCHANGED <<permitted, seen, changed, shown, notice>>

\* The intent must be durable.  A refused intent may still be in the journal.
\* "unsettled" is AUDIT_INCOMPLETE, "refused" another local error.
Begin(c) ==
  /\ step[c] = "begin"
  /\ \/ Announce(c) /\ Advance(c, "ready")
     \/ /\ Announce(c) \/ UNCHANGED journalVars
        /\ \/ Answer(c, "refused")
           \/ c \in Mutation /\ Answer(c, "unsettled")
  /\ UNCHANGED <<permitted, seen, changed, shown, notice>>

\* The command goes out.  Unlike Perform of the journal this asks for no intent:
\* that there is one is for Begin to see to.
Dispatch(a) ==
  /\ executed' = executed \cup {a}
  /\ UNCHANGED <<recorded, queue, quarantined>>

\* The SSH round trip.  The notice of a newly pinned host key is held back for
\* a read, printed at once for a mutation.
Run(c) ==
  /\ step[c] = "ready"
  /\ Dispatch(c)
  /\ Advance(c, "ran")
  /\ \E r \in Reports(c) :
       /\ seen' = [seen EXCEPT ![c] = r]
       /\ \E e \in Effects(c, r) :
            changed' = IF e /\ c \in Mutation THEN changed \cup {c} ELSE changed
  /\ \/ UNCHANGED notice
     \/ c \in FirstUse /\
        notice' = [notice EXCEPT ![c] = IF c \in Mutation THEN "told" ELSE "held"]
  /\ UNCHANGED <<permitted, shown>>

\* Mutant: the outcome is queued and the caller told the plain result.
FinishQuietly(c) ==
  /\ step[c] = "ran"
  /\ c \in Mutation
  /\ \/ Conclude(c) /\ Answer(c, OperationReply(c))
     \/ Enqueue(c) /\ Answer(c, OperationReply(c))
  /\ UNCHANGED <<permitted, seen, changed, shown, notice>>

\* Mutant: an append of unknown fate is taken for a success.
FinishAssumesCommitted(c) ==
  /\ step[c] = "ran"
  /\ c \in Mutation
  /\ \/ (Conclude(c) \/ UNCHANGED journalVars) /\ Answer(c, OperationReply(c))
     \/ Enqueue(c) /\ Answer(c, "auditIncomplete")
  /\ UNCHANGED <<permitted, seen, changed, shown, notice>>

\* finishRemoteMutationAudit.  The outcome is appended; appended with a later
\* error, which replaces the operation's own; queued; or lost.  "doubt" follows
\* an append of unknown fate.
Finish(c) ==
  /\ step[c] = "ran"
  /\ c \in Mutation
  /\ \/ Conclude(c) /\ Answer(c, OperationReply(c))
     \/ Conclude(c) /\ Answer(c, "auditError")
     \/ (Enqueue(c) \/ UNCHANGED journalVars) /\ Answer(c, "auditIncomplete")
     \/ (Conclude(c) \/ UNCHANGED journalVars) /\ Advance(c, "doubt")
  /\ UNCHANGED <<permitted, seen, changed, shown, notice>>

\* The marker of an outcome of unknown fate is written, or cannot be.
Mark(c) ==
  /\ step[c] = "doubt"
  /\ Suspect(c) \/ UNCHANGED journalVars
  /\ Answer(c, "auditIncomplete")
  /\ UNCHANGED <<permitted, seen, changed, shown, notice>>

Tell(c) == notice' = [notice EXCEPT ![c] = IF @ = "held" THEN "told" ELSE @]

\* Mutant: the result goes out although its outcome is not durable.
FinishReadLeaks(c) ==
  /\ step[c] = "ran"
  /\ c \in Reader
  /\ Conclude(c) \/ UNCHANGED journalVars
  /\ Answer(c, OperationReply(c))
  /\ shown' = IF seen[c] = "transport" THEN shown ELSE shown \cup {c}
  /\ Tell(c)
  /\ UNCHANGED <<permitted, seen, changed>>

\* Mutant: the notice is printed only when the read succeeds.
FinishReadDropsNotice(c) ==
  /\ step[c] = "ran"
  /\ c \in Reader
  /\ \/ /\ Conclude(c)
        /\ Answer(c, OperationReply(c))
        /\ shown' = IF seen[c] = "transport" THEN shown ELSE shown \cup {c}
     \/ /\ Conclude(c) \/ UNCHANGED journalVars
        /\ Answer(c, "withheld")
        /\ UNCHANGED shown
  /\ IF seen[c] \in {"exit0", "cut"} THEN Tell(c) ELSE UNCHANGED notice
  /\ UNCHANGED <<permitted, seen, changed>>

\* finishRequiredReadAudit and governedReadResult.  Whatever the audit says of
\* the result, the held notice is printed.
FinishRead(c) ==
  /\ step[c] = "ran"
  /\ c \in Reader
  /\ \/ /\ Conclude(c)
        /\ Answer(c, OperationReply(c))
        /\ shown' = IF seen[c] = "transport" THEN shown ELSE shown \cup {c}
     \/ /\ Conclude(c) \/ UNCHANGED journalVars
        /\ Answer(c, "withheld")
        /\ UNCHANGED shown
  /\ Tell(c)
  /\ UNCHANGED <<permitted, seen, changed>>

\* The steps of runGovernedCommand.
Govern(c) ==
  \/ Authorize(c)
  \/ Begin(c)
  \/ Run(c)
  \/ Finish(c)
  \/ Mark(c)
  \/ FinishRead(c)

\* Any process replays queued outcomes; the operator settles quarantined ones.
Upkeep ==
  /\ \/ Deliver
     \/ Retire
     \/ SuspectOldest
     \/ \E m \in Mutation : Settle(m)
  /\ UNCHANGED commandVars

CommandStart == JournalInit /\ CommandInit

CommandNext == (\E c \in Command : Govern(c)) \/ Upkeep

CommandSpec == CommandStart /\ [][CommandNext]_<<journalVars, commandVars>>

-----------------------------------------------------------------------------
(* Properties.                                                              *)

CommandTypeOK ==
  /\ permitted \subseteq Command
  /\ step \in [Command -> {"start", "begin", "ready", "ran", "doubt", "done"}]
  /\ seen \in [Command -> {"nothing", "exit0", "cut", "nonzero", "transport",
                           "odd", "short"}]
  /\ changed \subseteq Command \cap Mutation
  /\ reply \in [Command -> {"none", "denied", "unread", "refused", "unsettled",
                            "ok", "truncated", "cut", "uncertain",
                            "failed", "auditError", "auditIncomplete", "withheld"}]
  /\ shown \subseteq Command \cap Reader
  /\ notice \in [Command -> {"none", "held", "told"}]

\* No target changes before the intent of the change is durable.
ChangeIsAnnounced == \A c \in changed : IntentOf(c) \in recorded /\ c \in permitted

\* An error that is not AUDIT_INCOMPLETE, not an audit error and not marked
\* uncertain promises that the file write did nothing: it may be retried.
PlainFailureIsSafeToRetry ==
  \A c \in Write :
    reply[c] \in {"denied", "unread", "refused", "unsettled", "failed"} => c \notin changed

\* Success means that the change happened and both its records are durable.
SuccessIsTrue ==
  \A c \in Command \cap Mutation :
    reply[c] \in {"ok", "truncated"} =>
      c \in changed /\ {IntentOf(c), OutcomeOf(c)} \subseteq recorded

\* A mutation that ran has its outcome in the journal unless its caller was told
\* AUDIT_INCOMPLETE.
UnrecordedOutcomeIsTold ==
  \A c \in Command \cap Mutation :
    step[c] = "done" /\ c \in executed =>
      OutcomeOf(c) \in recorded \/ reply[c] = "auditIncomplete"

\* A transport failure after dispatch is an uncertain outcome, and its caller is
\* told so, or at least told not to retry (README, "Mutation results are
\* explicit").
TransportFailureIsUncertain ==
  \A c \in Command \cap Mutation :
    step[c] = "done" /\ seen[c] = "transport" =>
      reply[c] \in {"uncertain", "auditIncomplete"}

\* The result of a read is handed out only with both its records durable.
ShownReadIsRecorded == \A c \in shown : {IntentOf(c), OutcomeOf(c)} \subseteq recorded

\* The notice of a new host key is never lost, and for a read it is never
\* printed before the outcome of the read has been offered to the journal.
NoticeIsKept ==
  \A c \in Command :
    /\ step[c] = "done" => notice[c] # "held"
    /\ c \in Reader /\ notice[c] = "told" => step[c] = "done"
=============================================================================
