-------------------------- MODULE AuditPruneProofs --------------------------
(* For any processes, policies, numbers of log files and rules: a prune       *)
(* deletes only what its rule selects now, as the policy that it read allows  *)
(* (the one in force, if the context file is in the configuration directory), *)
(* and its outcome accounts for every file.                                   *)
EXTENDS AuditPrune, TLAPS

Place == {"start", "listed", "locked", "loaded", "allowed", "begun", "pruned", "doubt", "done"}

\* Where a prune has the lock, has read the policy, has been let through, has
\* recorded its intent.
Locked    == {"locked", "loaded", "allowed", "begun", "pruned", "doubt"}
Informed  == {"loaded", "allowed", "begun", "pruned", "doubt"}
Permitted == {"allowed", "begun"}
Announced == {"begun", "pruned", "doubt"}
Ahead     == {"start", "listed", "locked", "loaded", "allowed", "begun"}

LockTypes ==
  /\ lock \in Process \cup {Nobody}
  /\ stage \in [Process -> {"outside", "legacy", "core", "inside", "left"}]
  /\ loaded = [p \in Process |-> loaded[p]]

Types ==
  /\ LockTypes
  /\ at \in [Prune -> Place]
  /\ listed = [p \in Prune |-> listed[p]]
  /\ chosen = [p \in Prune |-> chosen[p]]
  /\ reply = [p \in Prune |-> reply[p]]
  /\ gone \in [Prune -> Nat]
  /\ tally \in [Prune -> [ok : BOOLEAN, succeeded : Nat, failed : Nat, skipped : Nat,
                          uncertain : Nat]]

\* If it is that of the context file, the lock keeps the policy: whoever replaces it
\* is not a prune that holds it.
HoldsLock  == \A p \in Prune : at[p] \in Locked /\ ~elsewhere => stage[p] = "inside"
KnowsRules == \A p \in Prune : at[p] \in Informed =>
                 /\ loaded[p].exists
                 /\ ~elsewhere => loaded[p] = file.contents
MayPrune   == \A p \in Prune : at[p] \in Permitted => p \in loaded[p].may
HasIntent  == \A p \in Prune : at[p] \in Announced => IntentOf(p) \in recorded

\* Until it deletes, a prune has done nothing; what it is to delete is what its
\* rule selects from the files it saw.
Untouched  == \A p \in Prune : at[p] \in Ahead => gone[p] = 0 /\ p \notin executed
Selected   == \A p \in Prune : at[p] \in Ahead \ {"start"} => chosen[p] = Select(rule[p], listed[p])
Finished   == \A p \in Prune :
                /\ at[p] = "pruned" => p \in executed
                /\ at[p] = "pruned" /\ tally[p].ok => gone[p] = Len(chosen[p])
Unanswered == \A p \in Prune : at[p] # "done" => reply[p] = "none"

PruneInv ==
  /\ Types
  /\ InsideHoldsLock
  /\ HoldsLock /\ KnowsRules /\ MayPrune /\ HasIntent
  /\ Untouched /\ Selected /\ Finished /\ Unanswered
  /\ PruneReportIsTrue

-----------------------------------------------------------------------------
\* The outcome t of a prune adds up, whatever part of its work was done.
Accounts(t, total, deleted, failed, unsure) ==
  /\ t \in [ok : BOOLEAN, succeeded : Nat, failed : Nat, skipped : Nat, uncertain : Nat]
  /\ t.ok = ~failed
  /\ t.succeeded = deleted
  /\ t.succeeded + t.failed + t.skipped + t.uncertain = total
  /\ t.uncertain = IF failed /\ unsure THEN total - deleted ELSE 0

LEMMA OutcomeAccounts ==
  ASSUME NEW total \in Nat, NEW deleted \in 0..total, NEW failed \in BOOLEAN, NEW unsure \in BOOLEAN
  PROVE  Accounts(OutcomeOfPrune(total, deleted, failed, unsure), total, deleted, failed, unsure)
<1> DEFINE t == OutcomeOfPrune(total, deleted, failed, unsure)
<1> DEFINE one == IF failed /\ ~unsure /\ deleted < total THEN 1 ELSE 0
           un == IF failed /\ unsure THEN total - deleted ELSE 0
           sk == IF failed /\ unsure THEN 0 ELSE total - deleted - one

<1>1. t = [ok |-> ~failed, succeeded |-> deleted, failed |-> one, uncertain |-> un, skipped |-> sk]
  BY DEF OutcomeOfPrune
<1>2. one \in Nat /\ un \in Nat /\ sk \in Nat /\ deleted \in Nat OBVIOUS
<1>3. deleted + one + sk + un = total BY <1>2
<1> HIDE DEF one, un, sk
<1>5. t \in [ok : BOOLEAN, succeeded : Nat, failed : Nat, skipped : Nat, uncertain : Nat]
  BY <1>1, <1>2
<1>6. t.succeeded = deleted /\ t.failed = one /\ t.skipped = sk /\ t.uncertain = un
      /\ t.ok = ~failed
  BY <1>1
<1>7. un = IF failed /\ unsure THEN total - deleted ELSE 0 BY DEF un
<1> HIDE DEF t
<1>8. Accounts(t, total, deleted, failed, unsure) BY <1>3, <1>5, <1>6, <1>7 DEF Accounts
<1>9. QED BY <1>8 DEF t

LEMMA InitHolds == Init => PruneInv
BY StoreAssumption DEF Init, StoreInit, StoreIdle, JournalInit, PruneInv, Types, LockTypes, Place,
   InsideHoldsLock, HoldsLock, KnowsRules, MayPrune, HasIntent, Untouched, Selected,
   Finished, Unanswered, PruneReportIsTrue, NoTally, Locked, Informed, Permitted,
   Announced, Ahead

-----------------------------------------------------------------------------
(* The steps of a prune.                                                    *)

LEMMA SurveyHolds == ASSUME PruneInv, NEW p \in Prune, Survey(p) PROVE PruneInv'
<1> USE DEF PruneInv, Types, LockTypes, Place, Survey, Refuse, Preview, List, Go, Answer,
        lockVars, storeVars, journalVars, asked
<1>1. Types' BY PruneAssumption
<1>2. InsideHoldsLock' BY DEF InsideHoldsLock
<1>3. HoldsLock' BY DEF HoldsLock, Locked
<1>3a. KnowsRules' BY DEF KnowsRules, HoldsLock, InsideHoldsLock, Informed, Locked
<1>3b. MayPrune' BY DEF MayPrune, KnowsRules, Permitted, Informed
<1>3c. HasIntent' BY DEF HasIntent, Announced
<1>4. Untouched' /\ Selected' BY DEF Untouched, Selected, Ahead
<1>5. Finished' /\ Unanswered' BY DEF Finished, Unanswered
<1>6. PruneReportIsTrue' BY DEF PruneReportIsTrue, Untouched, Unanswered, Ahead
<1>7. QED BY <1>1, <1>2, <1>3, <1>3a, <1>3b, <1>3c, <1>4, <1>5, <1>6

\* A prune that goes on to another place, or returns, having changed no file.
LEMMA MoveHolds ==
  ASSUME PruneInv, NEW p \in Prune, NEW place \in Place \ {"pruned"}, NEW r,
         at' = [at EXCEPT ![p] = place],
         reply' = [reply EXCEPT ![p] = r],
         UNCHANGED <<file, asked, listed, chosen, gone, tally, executed>>,
         recorded \subseteq recorded',
         LockTypes', InsideHoldsLock',
         \A q \in Prune \ {p} : stage'[q] = stage[q] /\ loaded'[q] = loaded[q],
         place \in Locked /\ ~elsewhere => stage'[p] = "inside",
         place \in Informed => loaded'[p].exists /\ (~elsewhere => loaded'[p] = file.contents),
         place \in Permitted => p \in loaded'[p].may,
         place \in Announced => IntentOf(p) \in recorded',
         place \in Ahead => at[p] \in Ahead \ {"start"},
         place # "done" => r = "none",
         r = "ok" => gone[p] = Len(chosen[p]) /\ {IntentOf(p), OutcomeOf(p)} \subseteq recorded'
  PROVE  PruneInv'
<1> USE DEF PruneInv, Types, asked
<1>1. \A q \in Prune : at'[q] = (IF q = p THEN place ELSE at[q])
                      /\ reply'[q] = (IF q = p THEN r ELSE reply[q])
  OBVIOUS
<1>2. Types' BY DEF Place
<1>3. HoldsLock' BY <1>1 DEF HoldsLock
<1>4. KnowsRules' BY <1>1 DEF KnowsRules
<1>5. MayPrune'
  <2>1. \A q \in Prune \ {p} : at'[q] \in Permitted => q \in loaded'[q].may
    BY <1>1 DEF MayPrune
  <2>2. QED BY <1>1, <2>1 DEF MayPrune
<1>6. HasIntent' BY <1>1 DEF HasIntent, IntentOf
<1>7. Untouched' /\ Selected' BY <1>1 DEF Untouched, Selected
<1>8. Finished' /\ Unanswered' BY <1>1 DEF Finished, Unanswered
<1>9. PruneReportIsTrue'
  <2>1. \A q \in Prune : IntentOf(q)' = IntentOf(q) /\ OutcomeOf(q)' = OutcomeOf(q)
    BY DEF IntentOf, OutcomeOf
  <2>2. \A q \in Prune \ {p} : reply'[q] = reply[q] BY <1>1
  <2>3. reply'[p] = r BY <1>1
  <2>4. QED BY <2>1, <2>2, <2>3 DEF PruneReportIsTrue
<1>10. QED BY <1>2, <1>3, <1>4, <1>5, <1>6, <1>7, <1>8, <1>9

\* Giving up the lock, or a claim to it.
LEMMA ReleaseKeeps ==
  ASSUME LockTypes, InsideHoldsLock, NEW p \in Process, Release(p)
  PROVE  /\ LockTypes' /\ InsideHoldsLock'
         /\ \A q \in Process \ {p} : stage'[q] = stage[q] /\ loaded'[q] = loaded[q]
BY StoreAssumption DEF LockTypes, InsideHoldsLock, Release

LEMMA AnswerHolds ==
  ASSUME PruneInv, NEW p \in Prune, NEW r, Answer(p, r),
         Release(p) \/ UNCHANGED <<lock, stage, loaded>>,
         UNCHANGED <<file, asked, listed, chosen, gone, tally, executed>>,
         recorded \subseteq recorded',
         r = "ok" => gone[p] = Len(chosen[p]) /\ {IntentOf(p), OutcomeOf(p)} \subseteq recorded'
  PROVE  PruneInv'
<1>1. p \in Process BY PruneAssumption
<1>2. /\ LockTypes' /\ InsideHoldsLock'
      /\ \A q \in Prune \ {p} : stage'[q] = stage[q] /\ loaded'[q] = loaded[q]
  <2> USE DEF PruneInv, Types
  <2>1. CASE Release(p) BY <1>1, <2>1, ReleaseKeeps, PruneAssumption
  <2>2. CASE UNCHANGED <<lock, stage, loaded>> BY <2>2 DEF LockTypes, InsideHoldsLock
  <2>3. QED BY <2>1, <2>2
<1>3. at' = [at EXCEPT ![p] = "done"] /\ reply' = [reply EXCEPT ![p] = r] BY DEF Answer
<1>4. "done" \in Place \ {"pruned"}
      /\ "done" \notin Locked \cup Informed \cup Permitted \cup Announced \cup Ahead
  BY DEF Place, Locked, Informed, Permitted, Announced, Ahead
<1>5. QED BY <1>2, <1>3, <1>4, MoveHolds

LEMMA LeaveHolds ==
  ASSUME PruneInv, NEW p \in Prune, NEW r, Leave(p, r),
         UNCHANGED <<asked, listed, chosen, gone, tally, executed>>,
         recorded \subseteq recorded',
         r = "ok" => gone[p] = Len(chosen[p]) /\ {IntentOf(p), OutcomeOf(p)} \subseteq recorded'
  PROVE  PruneInv'
BY AnswerHolds DEF Leave

\* The prune goes on with what it holds.
LEMMA GoHolds ==
  ASSUME PruneInv, NEW p \in Prune, NEW place \in {"allowed", "begun", "doubt"}, Go(p, place),
         UNCHANGED <<storeVars, asked, listed, chosen, gone, tally, executed>>,
         recorded \subseteq recorded',
         at[p] \in Informed,
         place \in Permitted => p \in loaded[p].may /\ at[p] \in Ahead \ {"start"},
         place \in Announced => IntentOf(p) \in recorded'
  PROVE  PruneInv'
<1> USE DEF PruneInv, Types
<1>1. /\ place \in Place \ {"pruned"} /\ place # "done" /\ at[p] \in Locked /\ at[p] # "done"
      /\ place \in Ahead => place \in Permitted
  BY DEF Place, Informed, Locked, Ahead, Permitted
<1>2. at' = [at EXCEPT ![p] = place] BY DEF Go
<1>3. reply' = [reply EXCEPT ![p] = "none"] BY <1>1 DEF Go, Unanswered
<1>4. UNCHANGED <<file, lock, stage, loaded>> BY DEF storeVars
<1>5. LockTypes' /\ InsideHoldsLock' BY <1>4 DEF LockTypes, InsideHoldsLock
<1>6. ~elsewhere => stage'[p] = "inside" BY <1>1, <1>4 DEF HoldsLock
<1>7. loaded'[p].exists /\ (~elsewhere => loaded'[p] = file.contents) BY <1>4 DEF KnowsRules
<1>8. QED BY <1>1, <1>2, <1>3, <1>4, <1>5, <1>6, <1>7, MoveHolds

-----------------------------------------------------------------------------
(* Up to the deletion.                                                      *)

LEMMA TakeLockHolds == ASSUME PruneInv, NEW p \in Prune, TakeLock(p) PROVE PruneInv'
<1>1. /\ UNCHANGED <<asked, listed, chosen, gone, tally, executed, recorded>>
      /\ p \in Process /\ at[p] = "listed"
  BY PruneAssumption DEF TakeLock, journalVars
<1>2. ASSUME Go(p, "locked"), UNCHANGED <<file, loaded>>, LockTypes', InsideHoldsLock',
             \A q \in Prune \ {p} : stage'[q] = stage[q],
             ~elsewhere => stage'[p] = "inside"
      PROVE  PruneInv'
  <2> USE DEF PruneInv, Types
  <2>1. at' = [at EXCEPT ![p] = "locked"] BY <1>2 DEF Go
  <2>2. reply' = [reply EXCEPT ![p] = "none"] BY <1>1, <1>2 DEF Go, Unanswered
  <2>3. /\ "locked" \in Place \ {"pruned"} /\ at[p] \in Ahead \ {"start"}
        /\ "locked" \notin Informed \cup Permitted \cup Announced
    BY <1>1 DEF Place, Ahead, Informed, Permitted, Announced
  <2>4. QED BY <1>1, <1>2, <2>1, <2>2, <2>3, MoveHolds
<1>3. CASE /\ lock = Nobody /\ lock' = p /\ stage' = [stage EXCEPT ![p] = "inside"]
           /\ Go(p, "locked") /\ UNCHANGED <<file, loaded>>
  <2> USE DEF PruneInv, Types
  <2>1. LockTypes' /\ InsideHoldsLock'
    BY <1>1, <1>3, StoreAssumption DEF LockTypes, InsideHoldsLock
  <2>2. \A q \in Prune : stage'[q] = (IF q = p THEN "inside" ELSE stage[q])
    BY <1>3, PruneAssumption DEF LockTypes
  <2>3. QED BY <1>2, <1>3, <2>1, <2>2
<1>4. CASE elsewhere /\ Go(p, "locked") /\ UNCHANGED storeVars
  <2>1. LockTypes' /\ InsideHoldsLock' /\ UNCHANGED <<file, stage, loaded>>
    BY <1>4 DEF storeVars, PruneInv, Types, LockTypes, InsideHoldsLock
  <2>2. QED BY <1>2, <1>4, <2>1
<1>5. CASE Answer(p, "refused") /\ UNCHANGED lockVars
  BY <1>1, <1>5, AnswerHolds DEF lockVars, storeVars
<1>6. QED BY <1>3, <1>4, <1>5 DEF TakeLock

LEMMA LoadPolicyHolds == ASSUME PruneInv, NEW p \in Prune, LoadPolicy(p) PROVE PruneInv'
<1>1. /\ UNCHANGED <<asked, listed, chosen, gone, tally, executed, recorded>>
      /\ p \in Process /\ at[p] = "locked"
  BY PruneAssumption DEF LoadPolicy, journalVars
<1>2. CASE Leave(p, "refused") BY <1>1, <1>2, LeaveHolds
<1>3. CASE ReadPolicy(p)
  <2> USE DEF PruneInv, Types, ReadPolicy
  <2>1. LockTypes' /\ InsideHoldsLock' BY <1>3 DEF LockTypes, InsideHoldsLock
  <2>2. \A q \in Prune : loaded'[q] = (IF q = p THEN file.contents ELSE loaded[q])
    BY <1>3, PruneAssumption DEF LockTypes
  <2>3. ~elsewhere => stage'[p] = "inside" BY <1>1, <1>3 DEF HoldsLock, Locked
  <2>4. at' = [at EXCEPT ![p] = "loaded"] BY <1>3 DEF Go
  <2>5. reply' = [reply EXCEPT ![p] = "none"] BY <1>1, <1>3 DEF Go, Unanswered
  <2>6. /\ "loaded" \in Place \ {"pruned"} /\ at[p] \in Ahead \ {"start"}
        /\ "loaded" \notin Permitted \cup Announced
    BY <1>1 DEF Place, Ahead, Permitted, Announced
  <2>7. /\ \A q \in Prune \ {p} : stage'[q] = stage[q] /\ loaded'[q] = loaded[q]
        /\ loaded'[p] = file.contents /\ loaded'[p].exists /\ UNCHANGED file
    BY <1>3, <2>2
  <2>8. QED BY <1>1, <2>1, <2>3, <2>4, <2>5, <2>6, <2>7, MoveHolds
<1>4. QED BY <1>2, <1>3 DEF LoadPolicy

LEMMA AuthorizeHolds == ASSUME PruneInv, NEW p \in Prune, Authorize(p) PROVE PruneInv'
<1>1. UNCHANGED <<asked, listed, chosen, gone, tally, executed, recorded>> /\ at[p] = "loaded"
  BY DEF Authorize, journalVars
<1>2. CASE p \in loaded[p].may /\ Go(p, "allowed") /\ UNCHANGED lockVars
  BY <1>1, <1>2, GoHolds DEF lockVars, Informed, Ahead, Announced
<1>3. CASE Leave(p, "denied") BY <1>1, <1>3, LeaveHolds
<1>4. QED BY <1>2, <1>3 DEF Authorize

LEMMA BeginHolds == ASSUME PruneInv, NEW p \in Prune, Begin(p) PROVE PruneInv'
<1>1. /\ UNCHANGED <<asked, listed, chosen, gone, tally, executed>> /\ at[p] = "allowed"
      /\ recorded \subseteq recorded'
  BY DEF Begin, Announce, journalVars
<1>2. CASE Announce(p) /\ Go(p, "begun") /\ UNCHANGED lockVars
  <2>1. p \in loaded[p].may BY <1>1 DEF PruneInv, MayPrune, Permitted
  <2>2. IntentOf(p) \in recorded' BY <1>2 DEF Announce
  <2>3. QED BY <1>1, <1>2, <2>1, <2>2, GoHolds DEF lockVars, Informed, Ahead
<1>3. CASE Leave(p, "refused") BY <1>1, <1>3, LeaveHolds
<1>4. QED BY <1>2, <1>3 DEF Begin

-----------------------------------------------------------------------------
(* The deletion.                                                            *)

\* Every way in which the library answers is a Delete of some of the files.
LEMMA DeletesSome ==
  ASSUME NEW p \in Prune, DeleteFiles(p)
  PROVE  \E n \in 0..Len(chosen[p]), failed \in BOOLEAN, unsure \in BOOLEAN :
           /\ Delete(p, n, failed, unsure)
           /\ n # 0 => rotated = listed[p]
           /\ ~failed => n = Len(chosen[p]) /\ ~unsure
<1>0. Len(chosen[p]) \in Nat OBVIOUS
<1>1. CASE Delete(p, 0, TRUE, FALSE)
  <2>1. 0 \in 0..Len(chosen[p]) BY <1>0
  <2> WITNESS 0 \in 0..Len(chosen[p]), TRUE \in BOOLEAN, FALSE \in BOOLEAN
  <2>2. QED BY <1>1
<1>2. CASE rotated = listed[p] /\ Delete(p, Len(chosen[p]), FALSE, FALSE)
  <2>1. Len(chosen[p]) \in 0..Len(chosen[p]) BY <1>0
  <2> WITNESS Len(chosen[p]) \in 0..Len(chosen[p]), FALSE \in BOOLEAN, FALSE \in BOOLEAN
  <2>2. QED BY <1>2
<1>3. CASE rotated = listed[p]
           /\ \E n \in 0..Len(chosen[p]), unsure \in BOOLEAN : Delete(p, n, TRUE, unsure)
  BY <1>3
<1>4. QED BY <1>1, <1>2, <1>3 DEF DeleteFiles

LEMMA DeleteFilesHolds == ASSUME PruneInv, NEW p \in Prune, DeleteFiles(p) PROVE PruneInv'
<1>1. PICK n \in 0..Len(chosen[p]), failed \in BOOLEAN, unsure \in BOOLEAN :
        /\ Delete(p, n, failed, unsure)
        /\ n # 0 => rotated = listed[p]
        /\ ~failed => n = Len(chosen[p]) /\ ~unsure
  BY DeletesSome
<1>2. Len(chosen[p]) \in Nat OBVIOUS
<1>3. PICK reported \in 0..n :
        /\ reported = n \/ unsure
        /\ tally' = [tally EXCEPT ![p] = OutcomeOfPrune(Len(chosen[p]), reported, failed, unsure)]
  BY <1>1 DEF Delete
<1> DEFINE t == OutcomeOfPrune(Len(chosen[p]), reported, failed, unsure)
<1>4. reported \in 0..Len(chosen[p]) BY <1>2
<1>4a. tally' = [tally EXCEPT ![p] = t] BY <1>3
<1>4b. Accounts(t, Len(chosen[p]), reported, failed, unsure) BY <1>2, <1>4, OutcomeAccounts
<1> HIDE DEF t
<1>5. /\ t \in [ok : BOOLEAN, succeeded : Nat, failed : Nat, skipped : Nat, uncertain : Nat]
      /\ t.ok = ~failed
      /\ t.succeeded = reported
      /\ t.succeeded + t.failed + t.skipped + t.uncertain = Len(chosen[p])
      /\ t.uncertain = IF failed /\ unsure THEN Len(chosen[p]) - reported ELSE 0
  BY <1>4b DEF Accounts
<1>6. /\ tally' = [tally EXCEPT ![p] = t]
      /\ gone' = [gone EXCEPT ![p] = n]
      /\ at' = [at EXCEPT ![p] = "pruned"] /\ at[p] = "begun"
      /\ executed' = executed \cup {p}
      /\ UNCHANGED <<file, lock, stage, loaded, recorded, asked, listed, chosen, reply>>
  BY <1>1, <1>4a DEF DeleteFiles, Delete, Go, lockVars, storeVars
<1> USE DEF PruneInv, Types, LockTypes, Place, asked
<1>7. Types' BY <1>2, <1>5, <1>6
<1>8. InsideHoldsLock' BY <1>6 DEF InsideHoldsLock
<1>9. HoldsLock' /\ KnowsRules' /\ MayPrune' /\ HasIntent'
  BY <1>6 DEF HoldsLock, KnowsRules, MayPrune, HasIntent, Locked, Informed, Permitted,
              Announced, IntentOf
<1>10. Untouched' /\ Selected' BY <1>6 DEF Untouched, Selected, Ahead
<1>11. Finished' BY <1>1, <1>5, <1>6 DEF Finished
<1>12. Unanswered' BY <1>6 DEF Unanswered
<1>13. t.succeeded <= n /\ n <= t.succeeded + t.uncertain BY <1>1, <1>2, <1>3, <1>5
<1>14. PruneReportIsTrue'
  BY <1>5, <1>6, <1>13 DEF PruneReportIsTrue, Unanswered, OutcomeOf, IntentOf
<1>15. QED BY <1>7, <1>8, <1>9, <1>10, <1>11, <1>12, <1>14
-----------------------------------------------------------------------------
(* After the deletion, and the steps of the others.                         *)

LEMMA FinishHolds == ASSUME PruneInv, NEW p \in Prune, Finish(p) PROVE PruneInv'
<1>1. UNCHANGED <<asked, listed, chosen, gone, tally>> /\ at[p] = "pruned" BY DEF Finish
<1>2. IntentOf(p) \in recorded /\ (tally[p].ok => gone[p] = Len(chosen[p]))
  BY <1>1 DEF PruneInv, HasIntent, Announced, Finished
<1>3. CASE Conclude(p)
  <2>1. executed' = executed /\ recorded \subseteq recorded' /\ OutcomeOf(p) \in recorded'
    BY <1>3 DEF Conclude
  <2>2. CASE Leave(p, IF tally[p].ok THEN "ok" ELSE "failed")
    <3>1. CASE tally[p].ok BY <1>1, <1>2, <2>1, <2>2, <3>1, LeaveHolds
    <3>2. CASE ~tally[p].ok BY <1>1, <2>1, <2>2, <3>2, LeaveHolds
    <3>3. QED BY <3>1, <3>2
  <2>3. CASE Leave(p, "auditError") BY <1>1, <2>1, <2>3, LeaveHolds
  <2>4. CASE Leave(p, "auditIncomplete") BY <1>1, <2>1, <2>4, LeaveHolds
  <2>5. CASE Go(p, "doubt") /\ UNCHANGED lockVars
    BY <1>1, <1>2, <2>1, <2>5, GoHolds DEF lockVars, Informed, Permitted
  <2>6. QED BY <1>3, <2>2, <2>3, <2>4, <2>5 DEF Finish
<1>4. CASE Enqueue(p) \/ UNCHANGED journalVars
  <2>1. executed' = executed /\ recorded' = recorded BY <1>4 DEF Enqueue, journalVars
  <2>2. CASE Leave(p, "auditIncomplete") BY <1>1, <2>1, <2>2, LeaveHolds
  <2>3. CASE Go(p, "doubt") /\ UNCHANGED lockVars
    BY <1>1, <1>2, <2>1, <2>3, GoHolds DEF lockVars, Informed, Permitted
  <2>4. CASE Conclude(p) BY <1>3, <2>4
  <2>5. QED BY <1>4, <2>2, <2>3, <2>4 DEF Finish
<1>5. QED BY <1>3, <1>4 DEF Finish

LEMMA MarkHolds == ASSUME PruneInv, NEW p \in Prune, Mark(p) PROVE PruneInv'
<1>1. UNCHANGED <<asked, listed, chosen, gone, tally, executed, recorded>>
      /\ Leave(p, "auditIncomplete")
  BY DEF Mark, Suspect, journalVars
<1>2. QED BY <1>1, LeaveHolds

LEMMA CrashHolds == ASSUME PruneInv, NEW p \in Prune, Crash(p) PROVE PruneInv'
BY LeaveHolds DEF Crash, journalVars

\* What a prune is and knows depends on no new file and no outcome of another.
LEMMA OthersHold ==
  ASSUME PruneInv, recorded \subseteq recorded',
         UNCHANGED <<storeVars, executed, asked, at, listed, chosen, gone, tally, reply>>
  PROVE  PruneInv'
<1> USE DEF PruneInv, Types, LockTypes, storeVars, asked
<1>1. Types' /\ InsideHoldsLock' BY DEF InsideHoldsLock
<1>2. HoldsLock' /\ KnowsRules' /\ MayPrune' BY DEF HoldsLock, KnowsRules, MayPrune
<1>3. HasIntent' BY DEF HasIntent, IntentOf
<1>4. Untouched' /\ Selected' /\ Finished' /\ Unanswered'
  BY DEF Untouched, Selected, Finished, Unanswered
<1>5. PruneReportIsTrue' BY DEF PruneReportIsTrue, IntentOf, OutcomeOf
<1>6. QED BY <1>1, <1>2, <1>3, <1>4, <1>5

LEMMA UpkeepHolds == ASSUME PruneInv, Upkeep PROVE PruneInv'
<1>1. recorded \subseteq recorded' /\ executed' = executed
  BY DEF Upkeep, Deliver, Retire, SuspectOldest, Settle
<1>2. QED BY <1>1, OthersHold DEF Upkeep, pruneVars, asked

\* Whoever replaces the policy holds its lock, so no prune that holds it has read it.
LEMMA ReformHolds == ASSUME PruneInv, NEW c \in Process \ Prune, Reform(c) PROVE PruneInv'
<1> USE DEF PruneInv, Types, asked
<1>1. UNCHANGED <<journalVars, asked, at, listed, chosen, gone, tally, reply>>
  BY DEF Reform, pruneVars
<1>2. LockTypes' /\ InsideHoldsLock'
  <2>1. CASE Peek(c) \/ EnterLegacy(c) \/ EnterCore(c)
    BY <2>1, StoreAssumption DEF LockTypes, InsideHoldsLock, Peek, EnterLegacy, EnterCore, Enter
  <2>2. CASE Release(c) BY <2>2, ReleaseKeeps
  <2>3. QED BY <2>1, <2>2 DEF Reform, GiveUp, Reject, Replace
<1>3. \A q \in Prune : stage'[q] = stage[q] /\ loaded'[q] = loaded[q]
  BY PruneAssumption DEF LockTypes, Reform, Peek, EnterLegacy, EnterCore, Enter, GiveUp,
                         Reject, Replace, Release
<1>4. file' = file \/ elsewhere \/ \A q \in Prune : at[q] \notin Informed
  <2>1. CASE \E contents \in Contents : Replace(c, contents)
    <3>1. lock = c BY <2>1 DEF Replace, InsideHoldsLock
    <3>2. ~elsewhere => \A q \in Prune : at[q] \notin Locked
      BY <3>1, PruneAssumption DEF HoldsLock, InsideHoldsLock
    <3>3. QED BY <3>2 DEF Informed, Locked
  <2>2. QED BY <2>1 DEF Reform, Peek, EnterLegacy, EnterCore, Enter, GiveUp, Reject
<1>5. Types' BY <1>1, <1>2
<1>6. HoldsLock' BY <1>1, <1>3 DEF HoldsLock
<1>7. KnowsRules' BY <1>1, <1>3, <1>4 DEF KnowsRules
<1>8. MayPrune' BY <1>1, <1>3 DEF MayPrune
<1>9. HasIntent' BY <1>1 DEF HasIntent, journalVars
<1>10. Untouched' /\ Selected' /\ Finished' /\ Unanswered'
  BY <1>1 DEF Untouched, Selected, Finished, Unanswered, journalVars
<1>11. PruneReportIsTrue' BY <1>1 DEF PruneReportIsTrue, journalVars
<1>12. QED BY <1>2, <1>5, <1>6, <1>7, <1>8, <1>9, <1>10, <1>11

-----------------------------------------------------------------------------
LEMMA StepHolds == ASSUME PruneInv, [Next]_vars PROVE PruneInv'
<1>1. CASE UNCHANGED vars
  BY <1>1, OthersHold DEF vars, journalVars, pruneVars, asked
<1>2. ASSUME NEW p \in Prune, Step(p) PROVE PruneInv'
  BY <1>2, SurveyHolds, TakeLockHolds, LoadPolicyHolds, AuthorizeHolds, BeginHolds,
     DeleteFilesHolds, FinishHolds, MarkHolds DEF Step
<1>3. ASSUME NEW p \in Prune, Crash(p) PROVE PruneInv' BY <1>3, CrashHolds
<1>4. ASSUME NEW c \in Process \ Prune, Reform(c) PROVE PruneInv' BY <1>4, ReformHolds
<1>5. CASE Rotate BY <1>5, OthersHold DEF Rotate, lockVars, journalVars
<1>6. CASE Upkeep BY <1>6, UpkeepHolds
<1>7. QED BY <1>1, <1>2, <1>3, <1>4, <1>5, <1>6 DEF Next

\* The strengthening is an invariant.
THEOREM PruneSafe == Spec => []PruneInv
<1>1. Init => PruneInv BY InitHolds
<1>2. PruneInv /\ [Next]_vars => PruneInv' BY StepHolds
<1>3. QED BY <1>1, <1>2, PTL DEF Spec

\* For any policies, rules and number of log files, the outcome of a prune
\* accounts for each chosen file and "ok" is never said of an unfinished one.
THEOREM PruneReportsTrue == Spec => []PruneReportIsTrue
<1>1. PruneInv => PruneReportIsTrue BY DEF PruneInv
<1>2. QED BY <1>1, PruneSafe, PTL

\* Only the deletion changes what is gone, and it finds the files it listed.
LEMMA StepIsCurrent ==
  ASSUME PruneInv, [Next]_vars, NEW p \in Prune, gone'[p] # gone[p]
  PROVE  /\ loaded[p].exists /\ p \in loaded[p].may
         /\ ~elsewhere => loaded[p] = file.contents
         /\ IntentOf(p) \in recorded
         /\ rotated' = SubSeq(rotated, gone'[p] + 1, Len(rotated))
         /\ gone'[p] <= Len(Select(rule[p], rotated))
         /\ chosen[p] = Select(rule[p], rotated)
<1>1. PICK q \in Prune : DeleteFiles(q)
  BY DEF Next, vars, pruneVars, Step, Survey, Refuse, Preview, List, TakeLock, LoadPolicy,
         Authorize, Begin, Finish,
         Mark, Crash, Reform, Rotate, Upkeep
<1>2. PICK n \in 0..Len(chosen[q]), failed \in BOOLEAN, unsure \in BOOLEAN :
        /\ Delete(q, n, failed, unsure)
        /\ n # 0 => rotated = listed[q]
  BY <1>1, DeletesSome
<1>3. gone' = [gone EXCEPT ![q] = n] /\ rotated' = SubSeq(rotated, n + 1, Len(rotated))
  BY <1>2 DEF Delete
<1>4. gone \in [Prune -> Nat] BY DEF PruneInv, Types
<1>5. q = p /\ gone'[p] = n BY <1>3, <1>4
<1>6. at[p] = "begun" BY <1>1, <1>5 DEF DeleteFiles
<1>7. gone[p] = 0 BY <1>6 DEF PruneInv, Untouched, Ahead
<1>8. listed[p] = rotated BY <1>2, <1>5, <1>7
<1>9. chosen[p] = Select(rule[p], rotated) BY <1>6, <1>8 DEF PruneInv, Selected, Ahead
<1>10. /\ loaded[p].exists /\ p \in loaded[p].may /\ (~elsewhere => loaded[p] = file.contents)
       /\ IntentOf(p) \in recorded
  BY <1>6 DEF PruneInv, KnowsRules, MayPrune, HasIntent, Informed, Permitted, Announced
<1>11. n <= Len(chosen[p])
  <2>1. Len(chosen[p]) \in Nat OBVIOUS
  <2>2. QED BY <2>1, <1>5
<1>12. QED BY <1>3, <1>5, <1>9, <1>10, <1>11

\* For any policies, rules and number of log files, a prune deletes what its rule
\* selects now and the policy that it read allows, which is that of now if the context
\* file is in the configuration directory; and it has announced it.
THEOREM PrunesAreCurrent == Spec => PruneIsCurrent
<1> DEFINE Current == \A p \in Prune :
       gone'[p] # gone[p] =>
         /\ loaded[p].exists /\ p \in loaded[p].may
         /\ ~elsewhere => loaded[p] = file.contents
         /\ IntentOf(p) \in recorded
         /\ rotated' = SubSeq(rotated, gone'[p] + 1, Len(rotated))
         /\ gone'[p] <= Len(Select(rule[p], rotated))
         /\ chosen[p] = Select(rule[p], rotated)
<1>1. PruneInv /\ [Next]_vars => [Current]_vars
  <2> SUFFICES ASSUME PruneInv, [Next]_vars PROVE Current OBVIOUS
  <2>1. QED BY StepIsCurrent
<1>2. Spec => [][Next]_vars BY PTL DEF Spec
<1> HIDE DEF Current
<1>3. Spec => [][Current]_vars BY <1>1, <1>2, PruneSafe, PTL
<1>4. QED BY <1>3 DEF PruneIsCurrent, Current

-----------------------------------------------------------------------------
(* The journal is used as it promises.                                      *)

LEMMA PruneIsJournal ==
  ASSUME PruneInv, NEW p \in Prune, Step(p) \/ Crash(p) PROVE [JournalNext]_journalVars
<1>1. p \in Mutation BY PruneAssumption
<1>2. Announce(p) \/ Perform(p) \/ Conclude(p) \/ Enqueue(p) \/ Suspect(p) => JournalNext
  BY <1>1 DEF JournalNext
<1>3. CASE Survey(p) \/ TakeLock(p) \/ LoadPolicy(p) \/ Authorize(p) \/ Crash(p)
  BY <1>3 DEF Survey, TakeLock, LoadPolicy, Authorize, Crash
<1>4. CASE Begin(p) BY <1>2, <1>4 DEF Begin
<1>5. CASE DeleteFiles(p)
  <2>1. IntentOf(p) \in recorded BY <1>5 DEF DeleteFiles, PruneInv, HasIntent, Announced
  <2>2. Perform(p) BY <1>5, <2>1 DEF DeleteFiles, Perform
  <2>3. QED BY <1>2, <2>2
<1>6. CASE Finish(p) \/ Mark(p) BY <1>2, <1>6 DEF Finish, Mark
<1>7. QED BY <1>3, <1>4, <1>5, <1>6 DEF Step

\* A prune announces before it deletes, and queues or quarantines its outcome only
\* when it has deleted: what prunes do to the journal is a behaviour of the journal.
THEOREM PrunesUseJournal == Spec => JournalSpec
<1>1. Init => JournalInit BY DEF Init
<1>2. PruneInv /\ [Next]_vars => [JournalNext]_journalVars
  <2> SUFFICES ASSUME PruneInv, [Next]_vars PROVE [JournalNext]_journalVars OBVIOUS
  <2>1. CASE UNCHANGED vars BY <2>1 DEF vars
  <2>2. ASSUME NEW p \in Prune, Step(p) \/ Crash(p) PROVE [JournalNext]_journalVars
    BY <2>2, PruneIsJournal
  <2>3. CASE (\E c \in Process \ Prune : Reform(c)) \/ Rotate BY <2>3 DEF Reform, Rotate
  <2>4. CASE Upkeep BY <2>4 DEF Upkeep, JournalNext
  <2>5. QED BY <2>1, <2>2, <2>3, <2>4 DEF Next
<1>3. Spec => [][Next]_vars BY PTL DEF Spec
<1>4. Spec => Init BY PTL DEF Spec
<1>5. QED BY <1>1, <1>2, <1>3, <1>4, PruneSafe, PTL DEF JournalSpec
=============================================================================
