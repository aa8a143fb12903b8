----------------------------- MODULE AuditPrune -----------------------------
(***************************************************************************)
(* `srvgov audit prune --confirm` (cmd/audit_prune.go): rotated log files  *)
(* are listed and chosen, then, under the configuration lock, the policy   *)
(* is read, the prune authorized and announced in an audit log of its own, *)
(* the files deleted and the outcome recorded.  The lock is that of the    *)
(* configuration directory; the context file has the lock of the directory *)
(* it is in, which --config may make another one.                          *)
(*                                                                         *)
(* Meanwhile logs rotate, other prunes run, and control changes replace    *)
(* the policy.  Of the contents of the context file, what counts is whether *)
(* the current context exists and which prunes it lets through.            *)
(***************************************************************************)
EXTENDS ContextStore, AuditJournal, FiniteSets

CONSTANTS
  Prune,       \* the processes that prune; the others change the policy
  MaxRotated,  \* the number of the last log file that is rotated
  Rule         \* what a prune may be asked: --keep-last N, --before file N's time

ASSUME PruneAssumption ==
  /\ Prune \subseteq Process
  /\ Prune = Mutation /\ Reader = {}
  /\ Contents \subseteq [exists : BOOLEAN, may : SUBSET Prune]
  /\ MaxRotated \in Nat
  /\ Rule \subseteq [keep : 0..MaxRotated] \cup [before : 1..(MaxRotated + 1)]

VARIABLES
  rotated,   \* the rotated files, oldest first; a file is its number
  newest,    \* the number of the file rotated last
  rule,      \* what each prune is to keep
  elsewhere, \* whether --config names a file outside of the configuration directory
  dirLock,   \* if so, who holds the lock of that directory; else it is the file's lock
  at,        \* where each prune is
  listed,    \* the files that it saw
  chosen,    \* those of them that it is to delete
  gone,      \* how many it did delete
  tally,     \* its outcome
  reply

pruneVars == <<rotated, newest, rule, elsewhere, dirLock, at, listed, chosen, gone, tally, reply>>

\* What no step changes, and what changes only where a lock does.
asked == <<rule, elsewhere>>
lockVars == <<storeVars, dirLock>>

vars == <<storeVars, journalVars, pruneVars>>

\* selectAuditPruneCandidates.
Select(r, files) ==
  IF "keep" \in DOMAIN r
  THEN IF r.keep >= Len(files) THEN << >> ELSE SubSeq(files, 1, Len(files) - r.keep)
  ELSE SelectSeq(files, LAMBDA f : f < r.before)

NoTally == [ok |-> FALSE, succeeded |-> 0, failed |-> 0, skipped |-> 0, uncertain |-> 0]

TypeOK ==
  /\ rotated \in Seq(1..MaxRotated) /\ newest \in 0..MaxRotated
  /\ rule \in [Prune -> Rule]
  /\ elsewhere \in BOOLEAN /\ dirLock \in Prune \cup {Nobody}
  /\ at \in [Prune -> {"start", "listed", "locked", "loaded", "allowed", "begun",
                       "pruned", "doubt", "done"}]
  /\ listed \in [Prune -> Seq(1..MaxRotated)]
  /\ chosen \in [Prune -> Seq(1..MaxRotated)]
  /\ gone \in [Prune -> 0..MaxRotated]
  /\ tally \in [Prune -> [ok : BOOLEAN, succeeded : Nat, failed : Nat, skipped : Nat,
                          uncertain : Nat]]
  /\ reply \in [Prune -> {"none", "preview", "refused", "denied", "ok", "failed",
                          "auditError", "auditIncomplete", "dead"}]

Init ==
  /\ StoreInit
  /\ JournalInit
  /\ newest \in 0..MaxRotated
  /\ rotated = [i \in 1..newest |-> i]
  /\ rule \in [Prune -> Rule]
  /\ elsewhere \in BOOLEAN /\ dirLock = Nobody
  /\ at = [p \in Prune |-> "start"]
  /\ listed = [p \in Prune |-> << >>]
  /\ chosen = [p \in Prune |-> << >>]
  /\ gone = [p \in Prune |-> 0]
  /\ tally = [p \in Prune |-> NoTally]
  /\ reply = [p \in Prune |-> "none"]

-----------------------------------------------------------------------------
Go(p, place) == at' = [at EXCEPT ![p] = place] /\ UNCHANGED reply

Answer(p, r) ==
  /\ at' = [at EXCEPT ![p] = "done"]
  /\ reply' = [reply EXCEPT ![p] = r]

\* The process returns from withAuditPrunePolicyLock.
Leave(p, r) ==
  /\ Answer(p, r)
  /\ Release(p) /\ UNCHANGED file
  /\ dirLock' = IF dirLock = p THEN Nobody ELSE dirLock

\* normalizeAuditPruneTarget: a target that is or aliases governed state; or a stray
\* file name or a symbolic link among the rotated files, or unusable flags.
Refuse(p) == Answer(p, "refused") /\ UNCHANGED <<listed, chosen>>

\* Without --confirm.
Preview(p) == Answer(p, "preview") /\ UNCHANGED <<listed, chosen>>

\* strictAuditRotatedFiles and the choice from them.
List(p) ==
  /\ Go(p, "listed")
  /\ listed' = [listed EXCEPT ![p] = rotated]
  /\ chosen' = [chosen EXCEPT ![p] = Select(rule[p], rotated)]

Survey(p) ==
  /\ at[p] = "start"
  /\ Refuse(p) \/ Preview(p) \/ List(p)
  /\ UNCHANGED <<lockVars, journalVars, rotated, newest, asked, gone, tally>>

\* withAuditPrunePolicyLock: the lock of the configuration directory, which is also
\* that of the context file if the file is there.
TakeLock(p) ==
  /\ at[p] = "listed"
  /\ \/ /\ ~elsewhere
        /\ lock = Nobody /\ lock' = p
        /\ stage' = [stage EXCEPT ![p] = "inside"]
        /\ Go(p, "locked")
        /\ UNCHANGED <<file, loaded, dirLock>>
     \/ /\ elsewhere
        /\ dirLock = Nobody /\ dirLock' = p
        /\ Go(p, "locked")
        /\ UNCHANGED storeVars
     \/ Answer(p, "refused") /\ UNCHANGED lockVars
  /\ UNCHANGED <<journalVars, rotated, newest, asked, listed, chosen, gone, tally>>

ReadPolicy(p) ==
  /\ Readable /\ file.contents.exists
  /\ loaded' = [loaded EXCEPT ![p] = file.contents]
  /\ Go(p, "loaded")
  /\ UNCHANGED <<file, lock, stage, dirLock>>

\* Mutant: the load waits for the lock of a legacy file without limit.
LoadPolicyWaits(p) ==
  /\ at[p] = "locked"
  /\ Readable
  /\ ReadPolicy(p) \/ Leave(p, "refused")
  /\ UNCHANGED <<journalVars, rotated, newest, asked, listed, chosen, gone, tally>>

\* currentAuditPrunePolicy.  Loading a legacy file needs the file's lock: if the
\* prune holds that very lock itself, or somebody else does, the wait for it times
\* out.
LoadPolicy(p) ==
  /\ at[p] = "locked"
  /\ ReadPolicy(p) \/ Leave(p, "refused")
  /\ UNCHANGED <<journalVars, rotated, newest, asked, listed, chosen, gone, tally>>

\* Mutant: the lock is only held while the policy is read.
AuthorizeReleases(p) ==
  /\ at[p] = "loaded"
  /\ IF p \in loaded[p].may THEN Go(p, "allowed") ELSE Answer(p, "denied")
  /\ lock' = IF lock = p THEN Nobody ELSE lock
  /\ stage' = [stage EXCEPT ![p] = "left"]
  /\ UNCHANGED <<file, loaded, dirLock>>
  /\ UNCHANGED <<journalVars, rotated, newest, asked, listed, chosen, gone, tally>>

\* authorizeControlChange; a ticket or a flag may be missing too.
Authorize(p) ==
  /\ at[p] = "loaded"
  /\ \/ p \in loaded[p].may /\ Go(p, "allowed") /\ UNCHANGED lockVars
     \/ Leave(p, "denied")
  /\ UNCHANGED <<journalVars, rotated, newest, asked, listed, chosen, gone, tally>>

Begin(p) ==
  /\ at[p] = "allowed"
  /\ \/ Announce(p) /\ Go(p, "begun") /\ UNCHANGED lockVars
     \/ (Announce(p) \/ UNCHANGED journalVars) /\ Leave(p, "refused")
  /\ UNCHANGED <<rotated, newest, asked, listed, chosen, gone, tally>>

-----------------------------------------------------------------------------
\* Mutant: an uncertain checkpoint is counted like any failure.
OutcomeOfPruneSimple(total, deleted, failed, unsure) ==
  [ok |-> ~failed, succeeded |-> deleted, uncertain |-> 0,
   failed |-> IF failed /\ deleted < total THEN 1 ELSE 0,
   skipped |-> total - deleted - IF failed /\ deleted < total THEN 1 ELSE 0]

\* auditPruneMutationOutcome.
OutcomeOfPrune(total, deleted, failed, unsure) ==
  LET one == IF failed /\ ~unsure /\ deleted < total THEN 1 ELSE 0 IN
  [ok |-> ~failed, succeeded |-> deleted, failed |-> one,
   uncertain |-> IF failed /\ unsure THEN total - deleted ELSE 0,
   skipped |-> IF failed /\ unsure THEN 0 ELSE total - deleted - one]

\* The library deletes the oldest n of the chosen files.  It reports them all
\* unless the fate of its checkpoint is unknown.
Delete(p, n, failed, unsure) ==
  /\ rotated' = SubSeq(rotated, n + 1, Len(rotated))
  /\ gone' = [gone EXCEPT ![p] = n]
  /\ \E reported \in 0..n :
       /\ reported = n \/ unsure
       /\ tally' = [tally EXCEPT ![p] =
                      OutcomeOfPrune(Len(chosen[p]), reported, failed, unsure)]

\* coreaudit.PruneRotatedFiles: nothing goes if the files are not those that
\* were listed, or the log cannot be locked or verified; else all the chosen
\* files, or some of them with an error, or some and nobody knows how many.
DeleteFiles(p) ==
  /\ at[p] = "begun"
  /\ executed' = executed \cup {p}
  /\ UNCHANGED <<recorded, queue, quarantined>>
  /\ \/ Delete(p, 0, TRUE, FALSE)
     \/ /\ rotated = listed[p]
        /\ \/ Delete(p, Len(chosen[p]), FALSE, FALSE)
           \/ \E n \in 0..Len(chosen[p]), unsure \in BOOLEAN : Delete(p, n, TRUE, unsure)
  /\ Go(p, "pruned")
  /\ UNCHANGED <<lockVars, newest, asked, listed, chosen>>

\* finishMutationAudit, still under the lock.
Finish(p) ==
  /\ at[p] = "pruned"
  /\ \/ Conclude(p) /\ Leave(p, IF tally[p].ok THEN "ok" ELSE "failed")
     \/ Conclude(p) /\ Leave(p, "auditError")
     \/ (Enqueue(p) \/ UNCHANGED journalVars) /\ Leave(p, "auditIncomplete")
     \/ (Conclude(p) \/ UNCHANGED journalVars) /\ Go(p, "doubt") /\ UNCHANGED lockVars
  /\ UNCHANGED <<rotated, newest, asked, listed, chosen, gone, tally>>

Mark(p) ==
  /\ at[p] = "doubt"
  /\ Suspect(p) \/ UNCHANGED journalVars
  /\ Leave(p, "auditIncomplete")
  /\ UNCHANGED <<rotated, newest, asked, listed, chosen, gone, tally>>

\* The process dies; its locks go with it.
Crash(p) ==
  /\ at[p] # "done"
  /\ Leave(p, "dead")
  /\ UNCHANGED <<journalVars, rotated, newest, asked, listed, chosen, gone, tally>>

-----------------------------------------------------------------------------
\* The active log is rotated.
Rotate ==
  /\ newest < MaxRotated
  /\ newest' = newest + 1
  /\ rotated' = Append(rotated, newest + 1)
  /\ UNCHANGED <<lockVars, journalVars, asked, at, listed, chosen, gone, tally, reply>>

\* A control command replaces the policy.
Reform(c) ==
  /\ \/ Peek(c) \/ EnterLegacy(c) \/ EnterCore(c) \/ GiveUp(c) \/ Reject(c)
     \/ \E contents \in Contents : Replace(c, contents)
  /\ UNCHANGED <<journalVars, pruneVars>>

\* Later prunes replay the outcomes queued here.
Upkeep ==
  /\ Deliver \/ Retire \/ SuspectOldest \/ \E m \in Mutation : Settle(m)
  /\ UNCHANGED <<storeVars, pruneVars>>

Step(p) ==
  \/ Survey(p) \/ TakeLock(p) \/ LoadPolicy(p) \/ Authorize(p) \/ Begin(p)
  \/ DeleteFiles(p) \/ Finish(p) \/ Mark(p)

Next ==
  \/ \E p \in Prune : Step(p) \/ Crash(p)
  \/ \E c \in Process \ Prune : Reform(c)
  \/ Rotate
  \/ Upkeep

\* A running prune goes on, and a lock that is not free is given up in time.
Spec == Init /\ [][Next]_vars /\ \A p \in Prune : WF_vars(Step(p))

-----------------------------------------------------------------------------
(* Properties.                                                              *)

\* When files go, they are what the rule of a prune selects from the files that
\* are there at that moment, from the oldest on, the policy that the prune has read
\* lets it through, and its intent is recorded.  Where the context file is in the
\* configuration directory, that policy is still the one in the file, whatever
\* control commands have done meanwhile; elsewhere it may have been replaced.
PruneIsCurrent ==
  [][\A p \in Prune :
       gone'[p] # gone[p] =>
         /\ loaded[p].exists /\ p \in loaded[p].may
         /\ ~elsewhere => loaded[p] = file.contents
         /\ IntentOf(p) \in recorded
         /\ rotated' = SubSeq(rotated, gone'[p] + 1, Len(rotated))
         /\ gone'[p] <= Len(Select(rule[p], rotated))
         /\ chosen[p] = Select(rule[p], rotated)]_vars

\* The outcome accounts for each chosen file once, claims no deletion that did not
\* happen and leaves none out that may have; "ok" means that all of them are gone
\* and both records durable.
PruneReportIsTrue ==
  \A p \in Prune :
    LET t == tally[p] IN
    /\ p \in executed =>
         /\ t.succeeded + t.failed + t.skipped + t.uncertain = Len(chosen[p])
         /\ t.succeeded <= gone[p] /\ gone[p] <= t.succeeded + t.uncertain
    /\ reply[p] = "ok" =>
         gone[p] = Len(chosen[p]) /\ {IntentOf(p), OutcomeOf(p)} \subseteq recorded

\* Every prune returns, also one that finds a legacy context file.
PruneReturns == \A p \in Prune : <>(at[p] = "done")
=============================================================================
