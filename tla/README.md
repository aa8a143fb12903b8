# Verification of srvgov-cli

srvgov-cli runs commands on servers over SSH and governs them: every command
is classified, authorized, and recorded in an audit log before and after it
runs. This directory holds TLA+ models of the parts that make those promises,
the TLC configurations that check them, and proofs that TLAPS checks.

## 1. The system

| Part | State it keeps | Operations | What makes it correct |
|---|---|---|---|
| Mutation audit and spool (`cmd/mutation_audit.go`) | audit log, spool directory, queue lock | begin, finish, replay, quarantine, write a spool file | intent before effect; no outcome lost, overtaken or silently repeated; the caller is told the truth |
| Read audit (`cmd/read_audit.go`) | the same log and queue | begin, finish | nothing is released whose outcome is not durable |
| Governed command (`cmd/governed_remote.go`) | none beyond the call | authorize, begin, SSH, classify the exit, finish | a plain failure is safe to retry; success is real; notices are kept |
| Worker pool (`internal/fanout`) | jobs and results channels | feed, run, collect, sort | each target once, no send after close, no deadlock |
| Fleet commands (`cmd/fanout.go`, `exec.go`, `svc.go`, `docker.go`, `file.go`) | the batch audit pair, the tallies | authorize all, batch begin, run, batch finish, print | all or nothing before the first effect; tallies and exit code never claim too much |
| Remote file write (`cmd/file.go`) | the target file and a temporary file on the server | bind the directory, check, write, rename | the file is old or new, never half; what is replaced looks like what was inspected; exits 64..68 mean untouched |
| Context store (`internal/srvgovctx`) | the configuration file and its lock | load, update, upgrade a legacy file | no lost update; upgrade happens once |
| Control changes (`cmd/ctx*.go`, `control.go`) | contexts, roles | authorize against the policy before the change, audit, save | an outcome that agrees with the saved file |
| Credential migration (`cmd/ctx_migrate.go`) | contexts and a credential backend | snapshot, store, compensate, refer | no context refers to a credential that is not there; a secret changes only where its owner replaced it |
| Audit prune (`cmd/audit_prune.go`) | rotated log files | list, choose, authorize, delete, report | what goes is what the rule selects now and the policy it read allows, that of now where its lock is the context file's; the outcome counts every file |
| SSH execution and pins (`internal/sshexec`) | a session, the pin file | dial, run, cancel | a reported exit is the command's own; a call that ended holds nothing; a cancelled one ends unless the server takes no bytes for ever |
| Classifier (`internal/cmdclass`) | none | scan, classify | it reads the words that were meant; never below the risk of any part |
| Observations, audit query, install, doctor, flags | none that is shared | | |

How they interact. A command line is one process. A fleet command has several
goroutines in it, one governed command per worker. Governed commands, reads,
control changes and batch pairs of all processes share one audit log and one
spool directory; a lock file (and, inside a process, a mutex) lets one at a time
into the queue. Control changes hold the lock of the context file around their audit
calls, audit prune that of the configuration directory, which is the same unless
`--config` names a file elsewhere. The audit log's own files, the lock file, the pin
file and the authorization decision are libraries (opskit-core); the modules
model them by the results that the code in `src/` handles.

What is hard about it: several processes and goroutines between the two halves
of an audit pair; an append whose fate is unknown; faults of each single file
operation; a process that dies anywhere; a connection that breaks after the
command went out. `PROJECT.json` lists each hazard with its line and the
properties that would catch it.

## 2. Modules

```
AuditJournal            what the audit promises: journal, queue, quarantine
   ^ implements              ^ used by
AuditSpool              GovernedCommand          FanoutPool
   ^                         ^________   _________^
AuditSpoolRefinement               GovernedFanout
                                        ^
                                 MCGovernedFanout

AuditSpoolProofs    AuditSpoolRefinement     GovernedCommandProofs
        ^_________________^                            ^
    AuditSpoolRefinementProofs                GovernedFanoutProofs

ContextStore   AuditJournal
     ^______________^
  ControlChange    AuditPrune        ControlChangeProofs     AuditPruneProofs
        ^              ^
 MCControlChange  MCAuditPrune

SSHSession    WriteReport            CommandClass
     ^____________^  ^ used by             ^
       FileWrite   GovernedCommand   MCCommandClass
           ^                               ^
    FileWriteProofs                CommandClassProofs
```

### AuditSpool

One actor is one audited operation: a mutation or a governed read. Its `pc`
follows the code: `Acquire` (withMutationAuditQueue), `Scan`, `Replay`,
`RemoveReplayed`, `Quarantine`, `Drained` (replayMutationAuditSpoolLocked),
`AppendIntent` (beginMutationAudit, beginRequiredReadAudit), `AppendOutcome`
(finishMutationAudit), `AppendReadOutcome` (finishRequiredReadAudit),
`WriteTemp`, `WriteFails`, `CommitFile` (writeMutationSpoolRecordWithSuffix) and
`Execute`, the operation between begin and finish. An actor goes through the
queue twice; `executed` says which time it is.

`log` is the sequence of records, `spool` the set of files with sequence number,
mutation, suffix and whether it is still the `.tmp` file. `lock` is the holder.
`healthy` turns TRUE when storage recovers for good; until then every file
operation may fail and, if `CanCrash`, every process may die. `reopened` and
`reconciled` remember, for the properties, which outcomes were left queued
after an append and which markers the operator removed.

What stands outside `src/`: an append has the four results of
`coreaudit.AppendResult`; the lock is freed when its holder dies. A lock that
times out is `AcquireFails`. A write or rename that fails is followed by an
`os.Remove` whose error nobody reads (`mutation_audit.go:454-459`), so `CommitFile` may
leave the temporary file behind without any crash; `Leftover` are the temporary files
of operations that have ended in that way or died. Each mutation is a process
of its own: a process crash that takes several goroutines with it is several
crashes. A denied event, which enters the queue and appends one record, is not
an actor.

### AuditJournal and AuditSpoolRefinement

The promise without locks, files and process steps: a set of records, a first-in
first-out queue, and a set of outcomes of unknown fate. AuditSpoolRefinement
maps the directory to the queue and states that every behaviour of AuditSpool is
one of AuditJournal: the queue holds the outcomes of the files that are neither
temporary nor marked (`ReadyFiles`), each at its place by number (`InOrder`, `Place`);
what is recorded is what is in the log; the marked files are the outcomes of
unknown fate.

### GovernedCommand

Extends AuditJournal: each audit call is a journal action together with what the
caller learns. `seen` is what the SSH client reported, `changed` what really
happened on the target, `reply` the error the caller sees. The report and the
effect are chosen together (`Effects`): a transport failure goes with either
effect, exits 64..68 of the write script with none. For a file write the table is
WriteReport's, which FileWrite shows to be right. The replies keep apart what
a caller can tell apart: `auditIncomplete` is AUDIT_INCOMPLETE, `auditError` an
error of an append that nevertheless committed, `uncertain` the marked error.
`Dispatch` asks for no intent: that nothing runs without one is a property.

### FanoutPool

`fanout.Run`: a feeder, `Concurrency` workers, an unbuffered jobs channel (`Hand`
is the rendezvous), a results channel with room for all targets, and the caller
that collects and sorts.

### GovernedFanout, MCGovernedFanout

The composition: `Front` is the goroutine of the command line (authorize all
targets, announce the batch, wait for the pool, conclude the batch, print),
`Schedule` the steps of the pool's workers, `Work` the governed command inside a
worker. A worker completes its target when the command has answered. `Elsewhere`
are other processes that replay what is queued here; that *their* outcomes may be
outstanding adds nothing, because any begin may be refused anyway.

Left out of the composition: several targets with a mixture of reads and
mutations cannot occur (the classification before context is a function of the
command, the same for all); the R0 ceiling of `status`, `ports` and `logs` is the
same gate with another error; an observation that probes several times is one
read; the error code inside the batch outcome; the content of a fleet write is
read once, before the batch, so no single target can fail to read it.

### ContextStore

`Load` and `Update` of the context file by separate processes. `Peek` is the look at
the version without the lock; `EnterLegacy` and `EnterCore` take the lock on the two
paths, and a process that finds a legacy file upgraded meanwhile goes over to the
other path; `Reject` is a callback that returns an error and `Replace` the rename,
after which the code may still report one (its chmod, its last check). The mutex
inside a process is not modelled, as each command updates once.

### ControlChange, MCControlChange

Each process runs one command: `ctx set`, `import`, `use`, `delete`, a role change or
a credential migration. All have the shape of the code: inside one `Update`, the policy
that governs (`Governing`), the authorization (`Permit`), the intent (`Begin`), for the
commands that store secrets the backup (`BackupSet`), the writes (`Put`) and their
compensation (`Rollback`), and then the new contents (`Save`); after the lock is free,
the outcome (`Finish`). A migration begins before that: `Snapshot`, `Resolve` and
`BackupMigration` happen without the lock and `SameAsSeen` is its check under it. The
audit is AuditJournal. Secrets are model values; a credential of a context is a secret,
a backend (the reference to it) or `Nothing`. `Save` and `Finish` may report errors
after they have done their work, as the code may.

`Overtaken` compares what a migration carries of a credential with the backend: it is
TRUE where the migration saw a reference and the secret behind it is, or was when the
migration took its backup, another than the one it read.

Left out: `ctx export` and the listings, which change nothing; tickets, flags and
`--force`, which are refusals that may come at any `Permit`; the other context
fields, which are one `detail`; that an import may name references that are not there.

### SSHSession

One call of `Client.run`, from the key agent to the result. `at` is where its
goroutine is; `hook` is the goroutine that `context.AfterFunc` starts for `dial`,
`openSession` or `run` (only one at a time), `agentHook` that of the key agent. A
hook takes its steps at any moment after its context ends, also while the call is on
its way to `stop()`; the call then sees `hook # "armed"`, as the code sees that `stop()`
returned FALSE. `Cancel`, `Break`, `Stall` and `Resume` are the user and the network. The
hook of `run` sends a signal and closes the session, which is a message too, before it
closes the connection. By then the deadline is cleared (`sshexec.go:435`), so neither
has a limit while the server takes no bytes but stays connected (`Writable`). Nothing
says that such a server ever goes on or goes away: `CallsEnd` is what the code
guarantees, that setting up ends and that a cancelled call returns unless from some time
on the server takes nothing.

The agent's hook is followed until the call has dialled, as nobody asks for its
channel after that. A host-key pin is the outcome "hostkey" only.

### FileWrite, WriteReport

The write script at the other end of an SSHSession, one action for each command of the
script that reads or changes something others can change. It starts after the two
reads that resolve the directory and read its identity. `place` is what stands at the
directory's path, `cwd` what the script entered; `file` is the target, `found` what
the script saw of it. Others put another file, another mode, nothing or a special file
in the target's place, and other directories at the path. `TakeSignal` is a signal
from the call or from the server, `Kill` one without traps. `Rename` may fail; so
may everything that writes.

The script compares device, inode, owner, group and mode (`file.go:773-780`), the first four
with one command and the mode with another, both times. `Identity` stands for the first
four, of which a new file may be given one that a deleted file had, as file systems do. The
script takes such a file for the one it inspected and replaces it, so what
`ReplacesWhatLooksInspected` promises is an equal identity and equal attributes, and not,
as `src/CHANGELOG.md:78` can be read, that every replacement of the target is detected.
The directory is different: the script stands in it, so its inode cannot be given to
another. A change of the target's content in place is neither detected by the script nor
modelled, and what mode the new file gets when the old one changes while it is copied is
left out.

`WriteReports` and `WriteEffects` say what an exit of the script tells about the file.
`ReportSettlesEffect` checks the table against the script, GovernedCommand and its
proofs use it.

### AuditPrune, MCAuditPrune

Each prune goes through runAuditPrune: `Survey` (outside the lock), `TakeLock`,
`LoadPolicy`, `Authorize`, `Begin`, `DeleteFiles`, `Finish` and `Mark` under it. `rotated` are
the rotated files by number, oldest first; `Rotate` adds one at any time. `DeleteFiles`
is the library's answer: nothing goes unless the directory is as listed, and then all
of the chosen files, or the first of them with an error, or an unknown number. The
context file is ContextStore's, the audit is AuditJournal, in the log of its own that a
prune uses. Other processes change the policy through ContextStore's actions (`Reform`).

`withAuditPrunePolicyLock` (`audit_prune.go:197-205`) locks `ConfigDir()/config`, while the
policy is read from, and replaced in, the file that `--config` names. `elsewhere` says
whether that file is outside of the configuration directory. If not, `TakeLock` takes
ContextStore's lock. If so, it takes `dirLock`, which keeps prunes apart but not the
commands that change the policy: the policy a prune has read may be out of date when
it deletes, and `PruneIsCurrent` claims that it is in force only `~elsewhere`.

With the context file in the configuration directory `LoadPolicy` cannot read a legacy
file, since reading one takes the lock that the prune itself holds, which is not
re-entrant (elsewhere it can, if the file's own lock is free): the model shows that the prune comes back refused
and frees the lock (`PruneReturns`). `src/README.md:261-263` says that legacy files
"remain readable"; for a prune they are not until another command has upgraded them.

### CommandClass, MCCommandClass

The scanner of `internal/cmdclass`, one step for each piece of a command line, and the
verdict. A piece is a character that the scanner treats specially, or a run of
ordinary ones that matters whole ("rm", "-r", "/etc/"). The other half of the module is
the writer of the line, by the rules of a POSIX shell: each action adds pieces and
says what they mean (`meant`). That is the reference: what the scanner finds and the
verdict it gives are compared with what was meant, at every prefix of every line.
`ShellQuote` is the quoting of srvgov's own commands. The tables of command names are
represented by one name for each rule. What the code does in a loop over a string or
a slice (`scan`, `Classify`, `classifyRM`, `ShellQuote`) is a recursive function over the
positions of a sequence, with the body of the loop as an operator of its own (`Read`, `Judge`,
`Argue`).

## 3. Runs

| Run | Instance | What it shows |
|---|---|---|
| `spool_safety` | 3 mutations, one of them with a record the replay refuses; crashes; numbers up to 3 | true verdicts, duplicates only where the queue could not be updated, unique names, queue order, and the implementation of AuditJournal (with it: no effect without an intent, no outcome without an effect) |
| `spool_recovery` | 2 mutations, 1 read; faults, failed cleanups and crashes until storage recovers; fair | after recovery nothing is refused but for a quarantined outcome or a temporary file left behind, and no outcome is lost but to such a file; every call returns; the queue drains; released reads are recorded |
| `spool_poison` | expected violation | see finding 1 |
| `spool_leftover_temp` | expected violation | see finding 2 |
| `command` | a file write, a mutation, a read | what the caller is told, against target and journal |
| `command_transport` | expected violation | see finding 3 |
| `fleet` | a write on 2 targets, 2 workers, fair | all or nothing, batch pair, tallies, exit code, termination |
| `control` | `ctx set`, a migration, and a role change, delete, import or use, on a legacy file; the first two may die | no lost update, every change authorized by the file it changes and announced, what is stored undone or referred to, the migrated secret stays what it is |
| `control_rotation` | expected violation | see finding 4 |
| `remote_write` | one call and one script, 2 changes by others, 2 identities | answer and file agree, a file that looks as inspected is replaced in the right directory, nothing is left behind, an agent that was cut off is not blamed on credentials; under fairness, setting up ends, and a cancelled call returns unless the server takes no bytes for ever |
| `prune` | 2 prunes, 1 policy change, up to 2 rotated files, 2 rules, 3 policies, either place of the context file, fair | what is deleted is current and allowed, the outcome adds up, prunes return, also from a legacy file under their own lock |
| `classify` | lines of up to 5 pieces out of 21, and quoted words of up to 2 | the words found are those meant, the verdict covers the worst command |

Bounds. Three mutations are enough for a queue of two with a third that finds
it, for a marker in front of queued outcomes, and for numbers that are reused
after a replay; `MaxSeq` stands for 2^64-1 and three mutations can never
exhaust three numbers. Reads never enter the spool, so one read next to two
mutations shows every meeting of the two kinds. Two targets already differ in
every reply; with two workers a worker may take none, one or both. A fleet of reads and
one with more targets than that are covered by the proofs, which are for any number
of targets and workers, and not by a run. The mutations that are not special are
interchangeable, so `spool_safety` uses symmetry; the runs with liveness do not. Deadlock is not checked in runs where
all operations end: stopping then is right.

In `control` bob may change n1, alice n2, and n1 is current, so each way to find the
governing policy decides differently; the legacy start exercises both paths of
`Update`, because only its first update finds a legacy file; n1 has one plain secret and
`ctx set` stores two, so a migration finds one or two and both halves of a
compensation occur. Every command updates the file once, so three of them give
every order of two around a third.

That a migration keeps secrets is checked here for a secret that it finds in the file, with a
`ctx set` of the same context before, during and after it. Secrets behind references are
where finding 4 is: `control_rotation` has one, and the proof is for any of them, in any
number of backends.

In `remote_write` two changes are what it takes to change something and put it back, of
the file or of the directory. Two identities let a replacement have the old one's or
another. The target has one of them at the start, the same in all behaviours, or is not
there. In `prune` there are none, one or two files at the start
and the others rotate during the run, so that the rules select nothing, some or all
of them, and a list can be out of date; two prunes may choose the same files; the policy
lets nobody, one or both of them through. Five
pieces in `classify` hold a command with a quoted or escaped argument, two commands
with an operator and blanks around it, a redirection with its target, or a joined line
in the middle of a word; an option, a "--" and a sensitive target together with quotes
would take more, and are covered by the proofs, which are for lines of any length.

Fairness. In AuditSpool a process inside the queue goes on, an operation
returns, and a call that waits after its operation gets the lock when it is
free. The code polls the lock file and takes a mutex in the process; strong
fairness is not needed because each actor visits the queue at most twice.
Nothing is assumed of operators, faults or crashes. In GovernedFanout the
goroutines that can move do; an SSH session is assumed to end (the remote
command returns or the connection breaks; that the user cancels is enough only while
the server takes bytes, as `CallsEnd` says). In SSHSession goroutines run and times pass;
nothing is assumed of the server, the network, the remote command, the agent or the
user, in particular not that a server that takes no bytes goes on or is
disconnected. Strong fairness of `TermHook` is for the messages it sends between two
stalls. In
AuditPrune a running prune goes on; the wait for the lock has an end of its own.

Findings, each an expected violation:

1. A file write that transferred no bytes records the SHA-256 of nothing with
   size 0. The direct append clears such a fingerprint, the spool file keeps it
   and `validOptionalMutationFingerprint64` refuses it at every replay. From then on
   every operation is refused although storage is healthy, nothing is quarantined and no
   temporary file is left behind.
2. A process that dies between creating and renaming a spool file, or whose write or
   rename fails and whose `os.Remove` of the file fails as well, leaves a `.tmp`
   entry that the numbering and the replay both refuse. A mutation that is
   already running then loses its outcome.
3. When an outcome append commits but reports a later error, that error replaces
   the operation's own, and a transport failure loses its uncertain mark.
4. A migration resolves secrets before it has the lock and then compares only
   context records. `ctx set` may store another secret behind the same reference, or
   undo one it stored, and the migration goes on with the outdated one. The same
   window makes the backup of a migration stale, so that its compensation can
   bring back a secret that a failed `ctx set` had removed; `FailedSetLeavesNothing`
   therefore speaks of the moment at which `ctx set` fails.
   `MigrationKeepsUnlessOvertaken` says that this is all: a secret that the migration saw
   in the file, or whose backend nobody wrote meanwhile, keeps its value.

## 4. Proofs

AuditSpoolProofs, for any sets of operations, any `MaxSeq`, with and without
crashes and poisoned records, from `SpoolAssumption` alone:

- `TypeCorrect`, from the type invariant of each action.
- `IntentFirst` (no operation runs without its intent in the log), `VerdictsHold`, `NamesUnique`, `Ownership`, `QueueOrderKept`. None of
  these is inductive alone. That a replayed file may be removed rests on its
  record being in the log, established one step earlier; that nobody touched the
  directory in between rests on the lock; that the file removed is the one that
  was appended rests on unique numbers. `SafetyInv` is the conjunction that carries
  itself: types, who is inside the lock (`LockedInside`), what a call has
  established by the time it is at each place (`QueueOwnership`'s parts), unique
  names, and the verdicts. Each part has a lemma with one step per action;
  `QueueOrderKept` is an action property from the same invariant.
- `DuplicatesExplained` (`DuplicatesAreReopened`), `OutcomesFollow` and `ReleasedReadsAudited`
  (`ReleasedReadIsAudited`). They rest on `OnceInv`: an actor has no record in the log
  before it comes to append it, an outcome that is both in the log and in a file was
  reopened or is just being replayed, and the files are of operations that have run. The file a replay appends
  may hold an outcome that is in the log already only if it was reopened, so a second
  copy always has an explanation.
- `FinishKeepsOutcome` (`LossNeedsLeftover`), from the assumption that there are as many
  numbers as mutations, and `RefusalHasCause` (`RefusalNeedsCause`), from the assumption that
  the replay accepts every record. Both hold with and without crashes, after any faults and
  failed cleanups; findings 1 and 2 are what happens without the second assumption and
  with a temporary file left behind. The argument: a temporary file is that of the process
  that is writing it or was left behind (`TempExplained`), so a scan on healthy
  storage meets only what it expects or a leftover; and the number after the highest is free
  as long as there are fewer files than numbers, which unique names and owners give.

AuditSpoolRefinementProofs: `SpoolIsAJournal`, the implementation of AuditJournal by
AuditSpool, for any sets of operations and any number of files. The mapping reads the
directory in order of numbers, so the proof first develops that order: the places
of a finite set of files with different numbers are the positions of a sequence without
gaps or repetitions (`PlaceInRange`, `PlaceMonotone`, `PlaceInjective`, `PlaceOnto`,
`InOrderIsSeq`), a file with the highest number is appended to it (`NewestIsAppended`), and
the file with the lowest is its head (`OldestIsHead`). That there are finitely many files
needs no assumption: their numbers are different and bounded. Then each operation has a
lemma that says which action of the journal it is, or that it is none.
`RefinedInv` adds to the invariants above that a temporary file has the highest number
(`TempIsNewest`), which is what makes the rename an append to the queue and not an
insertion.

GovernedCommandProofs, for any set of commands next to any other users of the
journal: `ChangesAnnounced`, `PlainFailuresSafe`, `SuccessesTrue`, `OutcomesTold`,
`ShownReadsRecorded`, `NoticesKept`. The invariant `CommandInv` adds what each place in a command
has behind it: before the dispatch nothing has happened; from the dispatch on the
command is permitted and its intent recorded, which only `Begin` can have seen to;
the report and the effect were chosen together; a refused command has not run; "ok"
means exit status 0. That others use the journal in between does not matter
because the journal only grows (`CommandForeign`). `NoticesKept` (`NoticeIsKept`) has an invariant of its
own, `NoticeInv`: there is none before the dispatch, that of a mutation is
printed at once, and a read prints its own together with its answer. `CommandsUseJournal`: governed
commands implement AuditJournal, although `Dispatch` has no guard of its own.

GovernedFanoutProofs begins with the worker pool alone, for any number of targets and any
requested concurrency: the inductive invariant `PoolInv`, and from it that each target runs once
(`RunsOnce`), that a result always finds room (`RoomForResults`), that nothing is
sent after the close (`CloseIsSafe`) and that the answer is every target in order
(`CompleteAnswer`, with the lemma that sorting a full set of targets gives the
identity).

Of the fleet command it proves, for any number of targets and workers: `NoneOrAll`,
`EveryTargetCounted`, `NoOverclaim`, `ExitZeroIsTrue`. `FleetInv` joins `CommandInv` and
`PoolInv` with what each phase has behind it and with the fact that a result in the
channel or with the caller is of a command that has answered. The counts add up
because the pool returned everyone (`EveryoneIsOut`) and the three classes of answers
are disjoint. `FleetUsesPool` and `FleetUsesJournal`: the composition implements
FanoutPool and AuditJournal.

ControlChangeProofs begins with the context store alone, for any processes and
contents: `NoUpdateLost`. It needs the lock: that the copies of the others stay good
under a replacement is because nobody else is inside. Each kind of step has its lemma,
and the commands reuse them.

Of the commands it proves, for any contexts, backends, requests and processes:
`ControlTypes`, `CommandsLoseNothing`, `ChangesIntended`, `ChangesAuthorized`,
`ChangesUseJournal` (the implementation of AuditJournal) and `ChangesUseStore` (the
implementation of ContextStore, if the store's contents are the configurations).
`ChangeInv` carries what a command has established until it uses it: from its
authorization to its update it is inside (`DecidedInside`), the policies of the contents
it edits allow it (`DecidedAllowed`), and from `Begin` on its intent is recorded
(`AnnouncedInside`).
`ChangesAuthorized` then follows from `NothingLost` (what it edits is the file) and a
lemma on the operators alone: what an allowed command edits is what the policies
allow (`EditAuthorized`). The proofs assume of requests only that all but migrations
have one target.

`MigrationsKeepSecrets` (`MigrationKeepsUnlessOvertaken`) has no hypothesis at all: any
requests, backends and initial file, any failures and deaths. What a migration holds of a
credential that it saw in the file is what it saw (`PlainIsHeld`), and once it has written
a credential the target backend has what it holds (`StoredIsHeld`), because whoever writes is
inside the lock. From the authorization on the file is as the migration saw it
(`SeenIsThere`, by `SameAsSeen`). So a write, a compensation or the new references can
change what a credential resolves to only where the backend it was read from differs
from what is held, which is `Overtaken`.

The other two theorems about secrets have hypotheses on the requests, defined by name:

- `ReferencesStand` (`ReferencesResolve`), if all commands store in one backend
  (`OneBackend`) and none brings a reference of its own (`NoReferences`), which might be
  to nothing from the start. A secret is deleted only by a compensation that found
  nothing to replace, so the invariant `ReferenceInv` says when it may: `ctx set` looked
  under the lock, and what it found missing nobody can refer to (`SetMayDelete`); a
  migration looked before it had the lock, and what it found missing it had not seen
  referred to (`MigrationMayDelete`), which by `SameAsSeen` is what the file says when it
  compensates. One backend excludes histories in which a context leaves a
  backend and comes back to it while a migration still holds an old backup.
- `FailedSetsLeaveNothing` (`FailedSetLeavesNothing`), if the secrets of `ctx set` are new
  (`NewSecrets`); of backends, references and migrations next to it nothing is
  assumed. What is not stored yet is nowhere else (`NotYetKnown`), so the
  backup it takes is not what it stores, and what it has undone is gone (`Undone`).

The instance of `control` satisfies `OneBackend`, `NoReferences` and `NewSecrets`. All three
proofs go through `StepEffect`: what each step of a command does to its local variables,
the file and the backends, so that an invariant has a case for each of nine effects and
not for each of fourteen actions.

AuditPruneProofs, for any processes, policies, rules and number of files:
`PruneReportsTrue`, `PrunesAreCurrent` and `PrunesUseJournal` (the implementation of
AuditJournal). `PruneInv` carries through a prune what it has
established: it has read a policy, and if the lock of `TakeLock` is that of the context
file, it holds it (`HoldsLock`), so nobody has replaced that policy since (`KnowsRules`, with
`InsideHoldsLock` for the others); from `Authorize`
to the deletion it may (`MayPrune`); from `Begin` on its intent is recorded
(`HasIntent`); until it deletes, it has deleted nothing (`Untouched`) and its choice is
that of its rule from the files it saw (`Selected`). That these are the files still
there is what the library checks in the same step, and no other step changes `gone`
(`StepIsCurrent`). That the counts add up is a lemma on `OutcomeOfPrune` alone
(`OutcomeAccounts`). The lemmas `MoveHolds`, `LeaveHolds` and `GoHolds` treat all steps that
delete nothing.

FileWriteProofs, for any number of changes by others on the server:
`LandsWhereAuthorized` (`BoundDirectoryOnly`), `ReportsTrue` (`ReportSettlesEffect`) and
`LooksInspectedIsReplaced` (`ReplacesWhatLooksInspected`), for any identities and however they are
used again. `WriteInv` has three parts. `ScriptInv`:
the line the script is at tells what it has established, that it is in its directory,
has the whole content, has seen the file still there, and nothing else has landed.
`CommandInv`: the command runs once and its status, if it got one, tells whether the
content landed. `CallInv`: an exit the caller is told of is that of the command, which
the call has not signalled. The classification of exits in WriteReport gives the rest.
`TargetInv` is about the two looks at the target: where there is no file there is no identity,
and the two halves of the last look are at the same file unless there was a change
in between.
`NothingIsLeft` (`NothingLeftBehind`) and `AgentLossTold` (`AgentLossIsNetworkError`) have
invariants of their own: `CallClean` says which of its connections a call may still hold at
each place and that the reason for a lost agent is known before the failure it causes,
`ScriptClean` at which lines of the script there can be a temporary file.

CommandClassProofs, for any pieces, any words that are quoted and lines of any length:
`ReadsMeant` (`ReadsWhatIsMeant`) and `RiskCoversMeant` (`RiskCoversWhatIsMeant`). Both speak
of what the scanner and the verdict will be once the line is ended and judged from its
start, and neither is inductive: they say nothing of a scanner in the middle of a word, of
quotes, or of an operator that may still be doubled. The invariant `Related` says what the
scanner and the judgement are at every prefix:

- `Reading`: the scanner is in the quotes that are meant, holds the word that is meant as
  far as it is written, and the words it has finished are those that were meant.
- `Judging`: the items judged so far cover what is meant. What the classifier does not
  judge is refused, or waits in the command or word that will be refused for it
  (`Expanding`); of anything else the words of the current command are known (`Texts`), the
  redirection that waits for a target is the one meant, and the risk is at least the danger.
- `MayDouble`: while an operator may be doubled, it is the last item, the scanner is between
  words, and what it would become means the same to the judgement: nothing waits after a
  bar, and after ">" a redirection does.

A scanner that has refused says only that the line is beyond the classifier. The invariant
itself was checked by TLC for lines of four pieces before it was proved. Each way to write
a piece has a lemma about what the scanner reads (`LiteralRelated`, `EscapedRelated`,
`InWordRelated` for quotes and for what ShellQuote writes, `AfterChainRelated`,
`NewlineRelated`, `PipeRelated`, `RedirectingRelated`, `CommentRelated` and others), and these
rest on two about the judgement: `FlushRelated`, where a word ends, and `ChainRelated`,
where a command does. `ClassifyWordsCovers` is the verdict on one command against what it
does to the server, and `ClassifyRMCovers` the loop of `classifyRM` for any number of
arguments. The only assumption on the constants, `"none" \notin Piece`, is about the
model's name for the absence of a quote and an operator.

The recursive functions of CommandClass are reasoned about without an induction rule that
takes a predicate: `Counting` is induction in the form of sets, from the fact that < is well
founded on the natural numbers. With it a lemma for each function shows that the function
exists and unfolds (`ReadAllUnfolds` and so on), and another what one more element adds
(`ReadAllAppend` and so on). There is one pair of lemmas for each function because a lemma
cannot have the body of the loop as its parameter.

`IntentPrecedesExecution`, `QueueOwnership` and the type invariants of the modules with
proofs are theorems; no run repeats them, nor `OutcomeFollowsIntent`, which is
`OutcomesFollow`.

Only model-checked: liveness (`EveryCallReturns`, `NextCallDrains`, `FleetReturns`,
`CallsEnd`, `PruneReturns`), which is out of reach of the prover. Every safety property that a
passing run checks is a theorem, under the hypotheses named above where there are any.

## 5. Not modelled, and what is left

- The option parsers of the classifier for curl, wget, journalctl, ip, date, hostname,
  docker, systemctl, ss and find: each is a table of options, where a model would repeat
  the table. Of the scanner: a blank is a space or a tab (the code takes any Unicode
  space for a blank, a shell does not; the agreement of the two is stated for space
  and tab only), and a number before a redirection, NUL and invalid UTF-8 are left out.
- Flag parsing, output formats, parsers of probe output, the installation of files, the
  query and verification of the log, the construction of event records, and ACL calls
  on Windows. They keep no shared state.
- The pin file, the audit log's own files, its checkpoint and its HMAC chain, and the
  authorization decision: these are opskit-core, outside `src/`. The modules use the
  results that the code handles.
- A power failure between a rename and the sync of its directory; several crashes of
  goroutines of one process are crashes of several processes.
- Target selection of fleet commands, and that targets and policies are read once and
  used for the length of the fleet command: AuditPrune and ControlChange model policy
  changes for control commands and prunes only.

Left of the plan: several file writes at once on one server; `ReferencesStand`
with more than one backend.
