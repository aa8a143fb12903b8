----------------------------- MODULE AuditSpool -----------------------------
(***************************************************************************)
(* The two-phase audit of srvgov-cli and its outcome spool                 *)
(* (cmd/mutation_audit.go, cmd/read_audit.go).                             *)
(*                                                                         *)
(* An actor is one audited operation: a mutation (file write, service or   *)
(* docker action, mutating exec, control change) or a governed read.  Both *)
(* append an intent record, run, and append an outcome record.  Every call *)
(* first replays the outcomes an earlier mutation could not append.  Those *)
(* wait in a private directory, one file each, in sequence order.          *)
(* Calls of all processes exclude each other by a lock.                    *)
(*                                                                         *)
(* The audit log itself and the lock file belong to opskit-core: they are  *)
(* modelled by the results the code in src/ handles.                       *)
(***************************************************************************)
EXTENDS Naturals, Sequences, FiniteSets

CONSTANTS
  Mutation,   \* operations whose outcome may be spooled
  Reader,     \* governed reads: withheld, never spooled
  Poison,     \* mutations whose outcome carries a fingerprint of zero bytes
  MaxSeq,     \* largest spool sequence number (2^64 - 1 in the code)
  CanCrash,   \* whether a process may die at any step
  NoActor

Actor == Mutation \cup Reader

ASSUME SpoolAssumption ==
  /\ Mutation \cap Reader = {}
  /\ Poison \subseteq Mutation
  /\ MaxSeq \in Nat \ {0}
  /\ CanCrash \in BOOLEAN
  /\ NoActor \notin Actor

VARIABLES
  pc,          \* where each actor is
  log,         \* the audit log, oldest record first
  spool,       \* the files of the spool directory
  lock,        \* the holder of the queue lock
  healthy,     \* storage has recovered: no more faults, no more crashes
  executed,    \* actors whose backend operation has run
  reopened,    \* mutations left queued after an append that may have committed
  reconciled   \* mutations whose quarantine marker the operator removed

vars == <<pc, log, spool, lock, healthy, executed, reopened, reconciled>>

-----------------------------------------------------------------------------
Record == [phase : {"intent", "outcome"}, id : Actor]

\* kind is the final suffix of the file name; temp is TRUE before the rename.
File == [seq : 1..MaxSeq, id : Mutation,
         kind : {"ready", "indeterminate"}, temp : BOOLEAN]

Unlocked == {"idle", "running", "returned"}
Locked   == {"scan", "replay", "remove", "quarantine", "append",
             "write", "mark", "commit"}
Final    == {"refused", "settled", "queued", "marked", "unspooled",
             "released", "withheld", "crashed"}

Intent(a)  == [phase |-> "intent", id |-> a]
Outcome(a) == [phase |-> "outcome", id |-> a]
Logged(r)  == \E i \in 1..Len(log) : log[i] = r

\* A finish call follows the operation; every earlier call is a begin call.
Finishing(a) == a \in executed

Marker(f) == f.kind = "indeterminate" /\ ~f.temp
Ready(f)  == f.kind = "ready" /\ ~f.temp

\* Mutant: the newest outcome is replayed first.
OldestIsNewest(f) == f \in spool /\ Ready(f) /\ \A g \in spool : Ready(g) => g.seq <= f.seq

\* The oldest outcome waiting for replay.
Oldest(f) == f \in spool /\ Ready(f) /\ \A g \in spool : Ready(g) => f.seq <= g.seq

\* The directory listing is refused, by the replay and by the numbering of a
\* new file, when it holds a file that is not a finished spool entry.
Unexpected == \E f \in spool : f.temp
Blocked    == \E f \in spool : Marker(f)

\* readMutationSpoolRecord refuses a payload fingerprint without a size.  The
\* direct append clears such a fingerprint, the spool file keeps it.
Readable(f) == f.id \notin Poison

\* Mutant: quarantined files are left out of the numbering.
NextSequenceOfReady(n) ==
  /\ n \in 1..MaxSeq
  /\ \A f \in spool : Ready(f) => f.seq < n
  /\ n = 1 \/ \E f \in spool : Ready(f) /\ f.seq = n - 1

NextSequence(n) ==
  /\ n \in 1..MaxSeq
  /\ \A f \in spool : f.seq < n
  /\ n = 1 \/ \E f \in spool : f.seq = n - 1

-----------------------------------------------------------------------------
Init ==
  /\ pc = [a \in Actor |-> "idle"]
  /\ log = << >>
  /\ spool = {}
  /\ lock = NoActor
  /\ healthy = FALSE
  /\ executed = {}
  /\ reopened = {}
  /\ reconciled = {}

Goto(a, l) == pc' = [pc EXCEPT ![a] = l]

\* What the caller is told when its call fails without keeping the outcome.
FailedCall(a) ==
  IF ~Finishing(a) THEN "refused"
  ELSE IF a \in Mutation THEN "unspooled" ELSE "withheld"

\* Mutant: the lock is not released on the error path.
ReturnKeepsLock(a, l) ==
  \/ lock' = NoActor /\ Goto(a, l)
  \/ ~healthy /\ Goto(a, FailedCall(a)) /\ UNCHANGED lock

\* The deferred release.  A failing release turns a success into an error.
Return(a, l) ==
  /\ lock' = NoActor
  /\ \/ Goto(a, l)
     \/ ~healthy /\ Goto(a, FailedCall(a))

\* An append is committed, committed with a later error, refused, or leaves the
\* caller not knowing whether the record is in the log.
AppendResult(r, result) ==
  /\ result = "committed" \/ ~healthy
  /\ \/ /\ result \in {"committed", "committedWithError", "indeterminate"}
        /\ log' = Append(log, r)
     \/ /\ result \in {"notCommitted", "indeterminate"}
        /\ log' = log

\* Mutant: a finish call gives up when the replay before it fails.
ReplayErrorGivesUp(a) == Return(a, FailedCall(a))

\* A replay error refuses a begin call and withholds a read.  A finishing
\* mutation still spools its own outcome.
ReplayError(a) ==
  IF Finishing(a) /\ a \in Mutation
    THEN Goto(a, "write") /\ UNCHANGED lock
    ELSE Return(a, FailedCall(a))

-----------------------------------------------------------------------------
(* Entering the queue: beginMutationAudit, finishMutationAudit and          *)
(* appendQueuedAuditEvent through withMutationAuditQueue.                   *)

Acquire(a) ==
  /\ pc[a] \in {"idle", "returned"}
  /\ lock = NoActor
  /\ lock' = a
  /\ Goto(a, "scan")
  /\ UNCHANGED <<log, spool, healthy, executed, reopened, reconciled>>

\* The directories or the lock cannot be had.
AcquireFails(a) ==
  /\ pc[a] \in {"idle", "returned"}
  /\ ~healthy
  /\ Goto(a, FailedCall(a))
  /\ UNCHANGED <<log, spool, lock, healthy, executed, reopened, reconciled>>

-----------------------------------------------------------------------------
(* Replaying the spool: replayMutationAuditSpoolLocked.                     *)

\* Mutant: a finish call appends without replaying first.
ScanSkipsReplay(a) ==
  /\ pc[a] = "scan"
  /\ IF Unexpected \/ Blocked
       THEN ReplayError(a)
       ELSE /\ Goto(a, IF Finishing(a) THEN "append" ELSE "replay")
            /\ UNCHANGED lock
  /\ UNCHANGED <<log, spool, healthy, executed, reopened, reconciled>>

Scan(a) ==
  /\ pc[a] = "scan"
  /\ IF Unexpected \/ Blocked
       THEN ReplayError(a)
       ELSE \/ Goto(a, "replay") /\ UNCHANGED lock
            \/ ~healthy /\ ReplayError(a)
  /\ UNCHANGED <<log, spool, healthy, executed, reopened, reconciled>>

\* Mutant: the file is dropped although its append was refused.
ReplayDropsRefused(a) ==
  /\ pc[a] = "replay"
  /\ \E f \in spool :
       /\ Oldest(f)
       /\ Readable(f)
       /\ \/ /\ AppendResult(Outcome(f.id), "committed")
             /\ Goto(a, "remove")
             /\ UNCHANGED <<lock, spool>>
          \/ /\ AppendResult(Outcome(f.id), "notCommitted")
             /\ spool' = spool \ {f}
             /\ ReplayError(a)
  /\ UNCHANGED <<healthy, executed, reopened, reconciled>>

\* Mutant: an error after the commit is taken for a refused append.
ReplayRetriesCommitted(a) ==
  /\ pc[a] = "replay"
  /\ \E f \in spool :
       /\ Oldest(f)
       /\ Readable(f)
       /\ \/ /\ AppendResult(Outcome(f.id), "committed")
             /\ Goto(a, "remove")
             /\ UNCHANGED lock
          \/ /\ AppendResult(Outcome(f.id), "committedWithError")
             /\ ReplayError(a)
  /\ UNCHANGED <<spool, healthy, executed, reopened, reconciled>>

Replay(a) ==
  /\ pc[a] = "replay"
  /\ \E f \in spool :
       /\ Oldest(f)
       /\ \/ /\ ~Readable(f)
             /\ ReplayError(a)
             /\ UNCHANGED log
          \/ /\ Readable(f)
             /\ \/ /\ \/ AppendResult(Outcome(f.id), "committed")
                      \/ AppendResult(Outcome(f.id), "committedWithError")
                   /\ Goto(a, "remove")
                   /\ UNCHANGED lock
                \/ /\ AppendResult(Outcome(f.id), "notCommitted")
                   /\ ReplayError(a)
                \/ /\ AppendResult(Outcome(f.id), "indeterminate")
                   /\ Goto(a, "quarantine")
                   /\ UNCHANGED lock
  /\ UNCHANGED <<spool, healthy, executed, reopened, reconciled>>

\* Mutant: the replay stops after one outcome.
RemoveReplayedOnce(a) ==
  /\ pc[a] = "remove"
  /\ \E f \in spool : Oldest(f) /\ spool' = spool \ {f}
  /\ Goto(a, "append")
  /\ UNCHANGED <<log, lock, healthy, executed, reopened, reconciled>>

\* The file of a committed outcome is removed and the directory synced.
RemoveReplayed(a) ==
  /\ pc[a] = "remove"
  /\ \E f \in spool :
       /\ Oldest(f)
       /\ \/ /\ spool' = spool \ {f}
             /\ UNCHANGED reopened
             /\ \/ Goto(a, "replay") /\ UNCHANGED lock
                \/ ~healthy /\ ReplayError(a)
          \/ /\ ~healthy
             /\ reopened' = reopened \cup {f.id}
             /\ ReplayError(a)
             /\ UNCHANGED spool
  /\ UNCHANGED <<log, healthy, executed, reconciled>>

\* quarantineIndeterminateMutationSpool: rename the file to a marker.
Quarantine(a) ==
  /\ pc[a] = "quarantine"
  /\ \E f \in spool :
       /\ Oldest(f)
       /\ \/ /\ spool' = (spool \ {f}) \cup {[f EXCEPT !.kind = "indeterminate"]}
             /\ UNCHANGED reopened
          \/ /\ ~healthy
             /\ reopened' = reopened \cup {f.id}
             /\ UNCHANGED spool
  /\ ReplayError(a)
  /\ UNCHANGED <<log, healthy, executed, reconciled>>

Drained(a) ==
  /\ pc[a] = "replay"
  /\ spool = {}
  /\ Goto(a, "append")
  /\ UNCHANGED <<log, spool, lock, healthy, executed, reopened, reconciled>>

-----------------------------------------------------------------------------
(* Appending the call's own record, with the spool empty.                   *)

\* beginMutationAudit and beginRequiredReadAudit.  An intent that is not known
\* to be committed without error stops the operation.
AppendIntent(a) ==
  /\ pc[a] = "append"
  /\ ~Finishing(a)
  /\ \/ AppendResult(Intent(a), "committed") /\ Return(a, "running")
     \/ \E result \in {"committedWithError", "notCommitted", "indeterminate"} :
          AppendResult(Intent(a), result) /\ Return(a, "refused")
  /\ UNCHANGED <<spool, healthy, executed, reopened, reconciled>>

\* finishMutationAudit.
AppendOutcome(m) ==
  /\ pc[m] = "append"
  /\ m \in Mutation
  /\ Finishing(m)
  /\ \/ /\ \/ AppendResult(Outcome(m), "committed")
           \/ AppendResult(Outcome(m), "committedWithError")
        /\ Return(m, "settled")
     \/ /\ AppendResult(Outcome(m), "notCommitted")
        /\ Goto(m, "write")
        /\ UNCHANGED lock
     \/ /\ AppendResult(Outcome(m), "indeterminate")
        /\ Goto(m, "mark")
        /\ UNCHANGED lock
  /\ UNCHANGED <<spool, healthy, executed, reopened, reconciled>>

\* Mutant: the result of a read is released before its outcome is durable.
AppendReadOutcomeLenient(r) ==
  /\ pc[r] = "append"
  /\ r \in Reader
  /\ Finishing(r)
  /\ \E result \in {"committed", "committedWithError", "notCommitted", "indeterminate"} :
       AppendResult(Outcome(r), result)
  /\ Return(r, "released")
  /\ UNCHANGED <<spool, healthy, executed, reopened, reconciled>>

\* finishRequiredReadAudit: any append error withholds the result.
AppendReadOutcome(r) ==
  /\ pc[r] = "append"
  /\ r \in Reader
  /\ Finishing(r)
  /\ \/ AppendResult(Outcome(r), "committed") /\ Return(r, "released")
     \/ \E result \in {"committedWithError", "notCommitted", "indeterminate"} :
          AppendResult(Outcome(r), result) /\ Return(r, "withheld")
  /\ UNCHANGED <<spool, healthy, executed, reopened, reconciled>>

-----------------------------------------------------------------------------
(* Writing a spool file: writeMutationSpoolRecordWithSuffix.                *)

WriteTemp(m) ==
  /\ m \in Mutation
  /\ pc[m] \in {"write", "mark"}
  /\ ~Unexpected
  /\ \E n \in 1..MaxSeq :
       /\ NextSequence(n)
       /\ spool' = spool \cup
            {[seq |-> n, id |-> m, temp |-> TRUE,
              kind |-> IF pc[m] = "mark" THEN "indeterminate" ELSE "ready"]}
  /\ Goto(m, "commit")
  /\ UNCHANGED <<log, lock, healthy, executed, reopened, reconciled>>

\* No name can be chosen, or the temporary file cannot be created.
WriteFails(m) ==
  /\ pc[m] \in {"write", "mark"}
  /\ ~healthy \/ Unexpected \/ ~ \E n \in 1..MaxSeq : NextSequence(n)
  /\ Return(m, "unspooled")
  /\ UNCHANGED <<log, spool, healthy, executed, reopened, reconciled>>

\* Mutant: a failed write or rename is not noticed.
CommitFileUnnoticed(m) ==
  /\ pc[m] = "commit"
  /\ \E f \in spool :
       /\ f.temp
       /\ f.id = m
       /\ \/ spool' = (spool \ {f}) \cup {[f EXCEPT !.temp = FALSE]}
          \/ ~healthy /\ (spool' = spool \ {f} \/ spool' = spool)
       /\ Return(m, IF f.kind = "ready" THEN "queued" ELSE "marked")
  /\ UNCHANGED <<log, healthy, executed, reopened, reconciled>>

\* Fill and close the temporary file, rename it and sync the directory.  When the
\* sync fails the entry stays, but the caller is told that spooling failed.  When
\* an earlier step fails the temporary file is removed, and nobody asks whether it
\* was.
CommitFile(m) ==
  /\ pc[m] = "commit"
  /\ \E f \in spool :
       /\ f.temp
       /\ f.id = m
       /\ \/ /\ spool' = (spool \ {f}) \cup {[f EXCEPT !.temp = FALSE]}
             /\ \/ Return(m, IF f.kind = "ready" THEN "queued" ELSE "marked")
                \/ ~healthy /\ Return(m, "unspooled")
          \/ /\ ~healthy
             /\ spool' = spool \ {f} \/ spool' = spool
             /\ Return(m, "unspooled")
  /\ UNCHANGED <<log, healthy, executed, reopened, reconciled>>

-----------------------------------------------------------------------------
(* The audited operation, and the environment.                              *)

\* runGovernedCommand between its begin and its finish call.
Execute(a) ==
  /\ pc[a] = "running"
  /\ executed' = executed \cup {a}
  /\ Goto(a, "returned")
  /\ UNCHANGED <<log, spool, lock, healthy, reopened, reconciled>>

\* The process dies.  Its files stay, the system frees its lock.
Crash(a) ==
  /\ CanCrash
  /\ ~healthy
  /\ pc[a] \notin Final \cup {"idle"}
  /\ Goto(a, "crashed")
  /\ lock' = IF lock = a THEN NoActor ELSE lock
  /\ reopened' = IF pc[a] \in {"remove", "quarantine"}
                   THEN reopened \cup {f.id : f \in {g \in spool : Oldest(g)}}
                   ELSE reopened
  /\ UNCHANGED <<log, spool, healthy, executed, reconciled>>

\* The operator compares a marker with the log and removes it.
Reconcile ==
  /\ \E f \in spool :
       /\ Marker(f)
       /\ spool' = spool \ {f}
       /\ reconciled' = reconciled \cup {f.id}
  /\ UNCHANGED <<pc, log, lock, healthy, executed, reopened>>

\* Storage recovers for good.
Heal ==
  /\ ~healthy
  /\ healthy' = TRUE
  /\ UNCHANGED <<pc, log, spool, lock, executed, reopened, reconciled>>

-----------------------------------------------------------------------------
\* What an actor does once it has entered the queue.
Proceed(a) ==
  \/ Scan(a)
  \/ Replay(a)
  \/ RemoveReplayed(a)
  \/ Quarantine(a)
  \/ Drained(a)
  \/ AppendIntent(a)
  \/ AppendOutcome(a)
  \/ AppendReadOutcome(a)
  \/ WriteTemp(a)
  \/ WriteFails(a)
  \/ CommitFile(a)

Next ==
  \/ \E a \in Actor :
       \/ Acquire(a)
       \/ AcquireFails(a)
       \/ Proceed(a)
       \/ Execute(a)
       \/ Crash(a)
  \/ Reconcile
  \/ Heal

Spec == Init /\ [][Next]_vars

\* A running process takes its next step, and a call that waits for the lock
\* gets it once it is free; no fairness is asked of starting an operation, of
\* faults, of crashes or of the operator.
Fairness ==
  \A a \in Actor :
    /\ WF_vars(Proceed(a))
    /\ WF_vars(Execute(a))
    /\ WF_vars(pc[a] = "returned" /\ Acquire(a))

FairSpec == Spec /\ Fairness

-----------------------------------------------------------------------------
(* Properties.                                                              *)

TypeOK ==
  /\ pc \in [Actor -> Unlocked \cup Locked \cup Final]
  /\ log \in Seq(Record)
  /\ spool \subseteq File
  /\ lock \in Actor \cup {NoActor}
  /\ healthy \in BOOLEAN
  /\ executed \subseteq Actor
  /\ reopened \subseteq Mutation
  /\ reconciled \subseteq Mutation

\* Two-phase audit: nothing runs whose intent is not in the log, and no outcome
\* is in the log before the intent and the operation it reports.
IntentPrecedesExecution == \A a \in executed : Logged(Intent(a))

OutcomeFollowsIntent ==
  \A i \in 1..Len(log) :
    log[i].phase = "outcome" =>
      /\ log[i].id \in executed
      /\ \E j \in 1..(i - 1) : log[j] = Intent(log[i].id)

\* What finishMutationAudit told its caller is true: an outcome reported durable
\* is in the log, one reported spooled is still queued, quarantined, reconciled
\* by the operator, or in the log by now.
Kept(m) ==
  \/ Logged(Outcome(m))
  \/ m \in reconciled
  \/ \E f \in spool : f.id = m /\ ~f.temp

VerdictIsTrue ==
  \A m \in Mutation :
    /\ pc[m] = "settled" => Logged(Outcome(m))
    /\ pc[m] = "queued" => Kept(m)
    /\ pc[m] = "marked" => m \in reconciled \/ \E f \in spool : f.id = m /\ Marker(f)

\* A read result is released only when both of its records are durable.
ReleasedReadIsAudited ==
  \A r \in Reader :
    pc[r] = "released" => Logged(Intent(r)) /\ Logged(Outcome(r))

\* Outcomes are appended at least once, and twice only when the queue could not
\* be updated after an append: a crash there, or a failing remove or quarantine.
Twice(r) == \E i, j \in 1..Len(log) : i < j /\ log[i] = r /\ log[j] = r

DuplicatesAreReopened ==
  \A a \in Actor :
    /\ ~Twice(Intent(a))
    /\ Twice(Outcome(a)) => a \in reopened

\* Spool files never share a sequence number, nor does one mutation have two.
SpoolNamesUnique ==
  \A f, g \in spool : f.seq = g.seq \/ f.id = g.id => f = g

\* The parts of QueueOwnership.
LockedInside == \A a \in Actor : pc[a] \in Locked <=> lock = a

SpoolerHasRun ==
  \A a \in Actor :
    pc[a] \in {"write", "mark", "commit"} => a \in Mutation /\ Finishing(a)

RunningIsAnnounced == \A a \in Actor : pc[a] = "running" => Logged(Intent(a))

ReplaySeesCleanSpool ==
  \A a \in Actor :
    pc[a] \in {"replay", "remove", "quarantine", "append"} => ~Blocked /\ ~Unexpected

AppendSeesEmptySpool == \A a \in Actor : pc[a] = "append" => spool = {}

RemovedIsLogged ==
  \A a \in Actor :
    pc[a] = "remove" => \A f \in spool : Oldest(f) => Logged(Outcome(f.id))

NotYetSpooled ==
  \A m \in Mutation :
    pc[m] \notin {"commit", "queued", "marked", "unspooled", "crashed"} =>
      \A f \in spool : f.id # m

\* Who holds the lock alone changes the queue: the facts a step relies on,
\* established by an earlier step of the same call, still hold.
QueueOwnership ==
  /\ LockedInside
  /\ SpoolerHasRun
  /\ RunningIsAnnounced
  /\ ReplaySeesCleanSpool
  /\ AppendSeesEmptySpool
  /\ RemovedIsLogged
  /\ NotYetSpooled

\* Every record enters the log in queue order: either nothing is spooled, or it
\* is the oldest spooled outcome and nothing is quarantined.
QueueDiscipline ==
  [][\A r \in Record :
       log' = Append(log, r) =>
         \/ spool = {}
         \/ /\ ~Blocked
            /\ ~Unexpected
            /\ \E f \in spool : Oldest(f) /\ r = Outcome(f.id)]_vars

\* With storage recovered, a mutation that has run loses its outcome to no one.
HealthyFinishKeepsOutcome ==
  [][\A m \in Mutation :
       pc[m] # "unspooled" /\ pc'[m] = "unspooled" => ~healthy]_vars

\* The temporary files that nobody writes any more: their writer died, or failed
\* and could not remove what it had created.
Leftover == {f \in spool : f.temp /\ pc[f.id] \in {"unspooled", "crashed"}}

\* With storage recovered, a mutation that has run loses its outcome only to a
\* temporary file that an earlier write of another mutation has left behind.
LossNeedsLeftover ==
  [][\A m \in Mutation :
       pc[m] # "unspooled" /\ pc'[m] = "unspooled" =>
         ~healthy \/ \E f \in Leftover : f.id # m]_vars

\* With storage recovered, a call is refused only while an outcome is quarantined
\* or a temporary file is left behind.
RefusalNeedsCause ==
  [][\A a \in Actor :
       pc[a] # "refused" /\ pc'[a] = "refused" =>
         ~healthy \/ Blocked' \/ Leftover # {}]_vars

\* Every call that waits for the queue after its operation, or is inside the
\* queue, returns to its caller: no call waits for ever, whatever the others do.
EveryCallReturns ==
  \A a \in Actor :
    pc[a] \in Locked \cup {"returned"} ~> pc[a] \in Final \cup {"running"}

\* Once storage has recovered, any further call drains the queue unless an
\* outcome is quarantined or a temporary file is left behind.
NextCallDrains ==
  \A a \in Actor :
    healthy /\ pc[a] = "scan" ~>
      Blocked \/ Leftover # {} \/ ~ \E f \in spool : Ready(f)
=============================================================================
