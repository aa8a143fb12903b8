--------------------------- MODULE GovernedFanout ---------------------------
(***************************************************************************)
(* A fleet command: exec, svc, docker or file on several targets           *)
(* (cmd/exec.go, cmd/fanout.go).  It composes the audit journal, the       *)
(* governed command of every target and the worker pool that runs them,    *)
(* and records a pair of its own, the batch, around them.                  *)
(*                                                                         *)
(* Every target runs the same command, so all of them are mutations or all *)
(* are reads; risk, roles and ticket pattern differ.                       *)
(***************************************************************************)
EXTENDS GovernedCommand, FanoutPool

CONSTANT Batch   \* the pair around the pairs of the targets

ASSUME FanoutAssumption ==
  /\ Command = Target
  /\ Batch \in Mutation \ Command
  /\ Command \subseteq Mutation \/ Command \subseteq Reader

VARIABLES
  phase,   \* how far the fleet command is
  tally,   \* the counts of the batch outcome
  exit     \* what the process reports

fleetVars == <<phase, tally, exit>>
vars == <<journalVars, commandVars, poolVars, fleetVars>>

Mutating == Command # {} /\ Command \subseteq Mutation

NoTally == [succeeded |-> 0, uncertain |-> 0, failed |-> 0]

\* The results that fanout.Run returned, by what they say.
Replies(set) == {t \in out : reply[t] \in set}

Init ==
  /\ JournalInit
  /\ CommandInit
  /\ PoolInit
  /\ phase = "authorize"
  /\ tally = NoTally
  /\ exit = "none"

Leave(code) == phase' = "exited" /\ exit' = code

-----------------------------------------------------------------------------
\* Mutant: the fleet runs on as long as some target may be reached.
AuthorizeSome ==
  /\ phase = "authorize"
  /\ permitted # {}
  /\ phase' = IF Mutating THEN "announce" ELSE "run"
  /\ UNCHANGED <<exit, tally, journalVars, commandVars, poolVars>>

\* authorizeGovernedFanout: every target is authorized before any is reached.
\* A fleet write then reads its content.
AuthorizeAll ==
  /\ phase = "authorize"
  /\ \/ /\ permitted = Command
        /\ phase' = IF Mutating THEN "announce" ELSE "run"
        /\ UNCHANGED exit
     \/ permitted # Command /\ Leave("denied")
     \/ permitted = Command /\ Write # {} /\ Leave("unread")
  /\ UNCHANGED <<tally, journalVars, commandVars, poolVars>>

\* beginFanoutMutationAudit.
AnnounceBatch ==
  /\ phase = "announce"
  /\ \/ Announce(Batch) /\ phase' = "run" /\ UNCHANGED exit
     \/ (Announce(Batch) \/ UNCHANGED journalVars) /\ Leave("refused")
  /\ UNCHANGED <<tally, commandVars, poolVars>>

\* The goroutines of fanout.Run.  A worker completes its target when the
\* governed command has answered.
Schedule(w) ==
  /\ phase = "run"
  /\ \/ Hand(w)
     \/ Complete(w) /\ step[worker[w]] = "done"
     \/ Exit(w)
  /\ UNCHANGED <<journalVars, commandVars, fleetVars>>

Feed ==
  /\ phase = "run"
  /\ PoolStep
  /\ UNCHANGED <<journalVars, commandVars, fleetVars>>

\* A worker runs the governed command of its target.  The content of a write is
\* in memory by now.
Work(w) ==
  /\ phase = "run"
  /\ worker[w] \in Command
  /\ Govern(worker[w])
  /\ reply'[worker[w]] # "unread"
  /\ UNCHANGED <<poolVars, fleetVars>>

\* fanout.Run has returned.
Gather ==
  /\ phase = "run"
  /\ answer # NoAnswer
  /\ IF Mutating THEN Dispatch(Batch) ELSE UNCHANGED journalVars
  /\ phase' = IF Mutating THEN "conclude" ELSE "print"
  /\ UNCHANGED <<tally, exit, commandVars, poolVars>>

-----------------------------------------------------------------------------
\* Mutant: a target whose mutation ran counts as succeeded although its audit
\* failed.
CountsOptimistic ==
  [succeeded |-> Cardinality(Replies({"ok", "truncated", "auditError", "auditIncomplete"})),
   uncertain |-> Cardinality(Replies({"uncertain"})),
   failed    |-> Cardinality({t \in out : reply[t] \notin
                   {"ok", "truncated", "auditError", "auditIncomplete", "uncertain"}})]

\* The switch of finishFanoutMutationAudit and of buildFanoutView; failed is its
\* default.
Counts ==
  [succeeded |-> Cardinality(Replies({"ok", "truncated"})),
   uncertain |-> Cardinality(Replies({"uncertain"})),
   failed    |-> Cardinality({t \in out : reply[t] \notin {"ok", "truncated", "uncertain"}})]

\* A target whose outcome is not durable, or that could not begin for that
\* reason, said AUDIT_INCOMPLETE.
SomeIncomplete == Replies({"auditIncomplete", "unsettled"}) # {}

\* Mutant: the results are printed whatever became of the batch outcome.
ConcludeBatchQuietly ==
  /\ phase = "conclude"
  /\ tally' = Counts
  /\ Conclude(Batch) \/ Enqueue(Batch) \/ UNCHANGED journalVars
  /\ phase' = "print"
  /\ UNCHANGED <<exit, commandVars, poolVars>>

\* finishFanoutMutationAudit.  An audit error of the batch comes first, then an
\* incomplete target; without either the results are printed.
ConcludeBatch ==
  /\ phase = "conclude"
  /\ tally' = Counts
  /\ \/ /\ Conclude(Batch)
        /\ IF SomeIncomplete
             THEN Leave("auditIncomplete")
             ELSE phase' = "print" /\ UNCHANGED exit
     \/ Conclude(Batch) /\ Leave("auditError")
     \/ (Enqueue(Batch) \/ UNCHANGED journalVars) /\ Leave("auditIncomplete")
     \/ (Conclude(Batch) \/ UNCHANGED journalVars) /\ phase' = "doubt" /\ UNCHANGED exit
  /\ UNCHANGED <<commandVars, poolVars>>

MarkBatch ==
  /\ phase = "doubt"
  /\ Suspect(Batch) \/ UNCHANGED journalVars
  /\ Leave("auditIncomplete")
  /\ UNCHANGED <<tally, commandVars, poolVars>>

\* printFanout: the exit code after the report.
PrintFleet ==
  /\ phase = "print"
  /\ Leave(IF Replies({"uncertain", "truncated"}) # {} THEN "partialFailure"
           ELSE IF Counts.failed > 0 THEN "backendError"
           ELSE "ok")
  /\ UNCHANGED <<tally, journalVars, commandVars, poolVars>>

\* The goroutine of the command line.
Front == AuthorizeAll \/ AnnounceBatch \/ Gather \/ ConcludeBatch \/ MarkBatch \/ PrintFleet

\* Other processes replay what is queued here.  That their own outcomes may be
\* queued or quarantined adds nothing: any Begin may be refused as it is.
Elsewhere == Upkeep /\ UNCHANGED <<poolVars, fleetVars>>

Next ==
  \/ Front
  \/ Feed
  \/ \E w \in Worker : Schedule(w) \/ Work(w)
  \/ Elsewhere

Spec == Init /\ [][Next]_vars

\* Goroutines that can move do: the audit lock is given up on after a while and
\* an SSH session ends.  Nothing is asked of other processes.
Fairness ==
  /\ WF_vars(Front)
  /\ WF_vars(Feed)
  /\ \A w \in Worker : WF_vars(Schedule(w)) /\ WF_vars(Work(w))

FairSpec == Spec /\ Fairness

-----------------------------------------------------------------------------
(* Properties.                                                              *)

TypeOK ==
  /\ CommandTypeOK
  /\ PoolTypeOK
  /\ phase \in {"authorize", "announce", "run", "conclude", "doubt", "print", "exited"}
  /\ tally \in [succeeded : 0..Targets, uncertain : 0..Targets, failed : 0..Targets]
  /\ exit \in {"none", "denied", "unread", "refused", "auditIncomplete", "auditError",
               "partialFailure", "backendError", "ok"}

\* No target of the fleet runs unless every target is authorized, and no mutation
\* runs outside the batch pair.
AllOrNothing ==
  Command \cap executed # {} =>
    /\ permitted = Command
    /\ Mutating => IntentOf(Batch) \in recorded

\* The batch outcome follows every target and accounts for each of them once.
BatchAccountsForAll ==
  tally # NoTally =>
    /\ \A t \in Command : step[t] = "done"
    /\ tally.succeeded + tally.uncertain + tally.failed = Targets

\* The batch outcome never claims a success that did not happen or is not
\* recorded.
TallyNeverOverclaims ==
  tally.succeeded <=
    Cardinality({t \in changed : {IntentOf(t), OutcomeOf(t)} \subseteq recorded})

\* A fleet command that exits with success has run everywhere, with all of its
\* output, and all of its records are durable.
SuccessfulExitIsTrue ==
  exit = "ok" =>
    /\ \A t \in Command : seen[t] = "exit0" /\ {IntentOf(t), OutcomeOf(t)} \subseteq recorded
    /\ Mutating => changed = Command /\ {IntentOf(Batch), OutcomeOf(Batch)} \subseteq recorded

\* A fleet command ends, whatever happens to its targets and to the audit log.
FleetReturns == <>(exit # "none")
=============================================================================
