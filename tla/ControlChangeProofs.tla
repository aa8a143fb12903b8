------------------------- MODULE ControlChangeProofs ------------------------
(* What holds of the context store and of the control commands that update   *)
(* it, for any processes, contexts, backends and requests: that no update is *)
(* lost, that nothing changes unannounced, and that every change is          *)
(* authorized by the file it changes.  Then, with hypotheses on the requests,*)
(* what becomes of the secrets.                                              *)
EXTENDS ControlChange, TLAPS

-----------------------------------------------------------------------------
(* The context store, with any contents.  The lemmas on its single actions   *)
(* also serve the commands built from them.                                  *)

Stage == {"outside", "legacy", "core", "inside", "left"}

LockType ==
  /\ lock \in Process \cup {Nobody}
  /\ stage \in [Process -> Stage]
  /\ DOMAIN loaded = Process
  /\ loaded = [p \in Process |-> loaded[p]]

\* NothingLost alone is not inductive: a replacement by one process leaves the
\* copies of the others current only because nobody else is inside.
StoreInv == LockType /\ InsideHoldsLock /\ NothingLost

LEMMA IdleHolds == ASSUME StoreIdle PROVE StoreInv
BY StoreAssumption DEF StoreIdle, StoreInv, LockType, Stage, InsideHoldsLock, NothingLost

\* The steps that leave the file alone.
LEMMA EntryHolds ==
  ASSUME StoreInv, NEW p \in Process, Peek(p) \/ EnterLegacy(p) \/ EnterCore(p)
  PROVE  StoreInv'
<1> USE StoreAssumption DEF StoreInv, LockType, Stage, InsideHoldsLock, NothingLost
<1>1. CASE Peek(p) BY <1>1 DEF Peek
<1>2. CASE EnterLegacy(p) BY <1>2 DEF EnterLegacy, Enter
<1>3. CASE EnterCore(p) BY <1>3 DEF EnterCore, Enter
<1>4. QED BY <1>1, <1>2, <1>3

LEMMA RefusalHolds ==
  ASSUME StoreInv, NEW p \in Process, GiveUp(p) \/ Reject(p) \/ Abandon(p)
  PROVE  StoreInv'
BY StoreAssumption DEF StoreInv, LockType, Stage, InsideHoldsLock, NothingLost,
                       GiveUp, Reject, Abandon, Release

LEMMA ReplaceHolds ==
  ASSUME StoreInv, NEW p \in Process, NEW contents, Replace(p, contents)
  PROVE  StoreInv'
BY StoreAssumption DEF StoreInv, LockType, Stage, InsideHoldsLock, NothingLost, Replace, Release

LEMMA StutterHolds == ASSUME StoreInv, UNCHANGED storeVars PROVE StoreInv'
BY DEF StoreInv, LockType, InsideHoldsLock, NothingLost, storeVars

\* The strengthening is an invariant of the file with any contents.
THEOREM StoreSafe == StoreSpec => []StoreInv
<1>1. StoreInit => StoreInv BY IdleHolds DEF StoreInit
<1>2. StoreInv /\ [StoreNext]_storeVars => StoreInv'
  <2> SUFFICES ASSUME StoreInv, [StoreNext]_storeVars PROVE StoreInv' OBVIOUS
  <2>1. CASE UNCHANGED storeVars BY <2>1, StutterHolds
  <2>2. CASE StoreNext
    <3> PICK p \in Process :
          \/ Peek(p) \/ EnterLegacy(p) \/ EnterCore(p)
          \/ GiveUp(p) \/ Reject(p) \/ Abandon(p)
          \/ \E contents \in Contents : Replace(p, contents)
      BY <2>2 DEF StoreNext
    <3>1. CASE Peek(p) \/ EnterLegacy(p) \/ EnterCore(p) BY <3>1, EntryHolds
    <3>2. CASE GiveUp(p) \/ Reject(p) \/ Abandon(p) BY <3>2, RefusalHolds
    <3>3. CASE \E contents \in Contents : Replace(p, contents) BY <3>3, ReplaceHolds
    <3>4. QED BY <3>1, <3>2, <3>3
  <2>3. QED BY <2>1, <2>2
<1>3. QED BY <1>1, <1>2, PTL DEF StoreSpec

\* Whoever decides in a callback decides on the file as it is.
THEOREM NoUpdateLost == StoreSpec => []NothingLost
<1>1. StoreInv => NothingLost BY DEF StoreInv
<1>2. QED BY <1>1, StoreSafe, PTL

-----------------------------------------------------------------------------
(* The control commands.                                                     *)

Step == {"start", "resolve", "backup", "update", "begin", "backupSet", "put",
         "rollback", "save", "finish", "doubt", "done"}

\* The steps of a callback behind its authorization, and behind its intent.
Decided   == {"begin", "backupSet", "put", "rollback", "save"}
Announced == {"backupSet", "put", "rollback", "save"}

Secrets == [Key -> Secret \cup {Nothing}]

Job == [keys : SUBSET Key, todo : SUBSET Key,
        snapshot : UNION {[N -> Item] : N \in SUBSET Name},
        held : Secrets, previous : Secrets]

\* One target, but for migrations.
RequestsOK ==
  /\ request \in [Process -> Request]
  /\ \A o \in Process : Kind(o) # "migrate" => \E n \in Name : request[o].names = {n}

Progress ==
  /\ RequestsOK
  /\ at \in [Process -> Step]
  /\ job \in [Process -> Job]
  /\ store \in [Backend -> Secrets]
  /\ status \in [Process -> {"none", "succeeded", "failed", "uncertain"}]
  /\ reply \in [Process -> {"none", "ok", "failed", "uncertain", "refused", "auditError",
                            "auditIncomplete", "dead"}]
  /\ file \in [legacy : BOOLEAN, contents : Config]

\* A migration resolves only what it saw.
KeysSeen ==
  \A o \in Process : at[o] = "resolve" =>
    \A k \in job[o].keys \cup job[o].todo : k[1] \in DOMAIN job[o].snapshot

\* What a command has established stays true until it uses it: it is alone
\* inside, its intent is in the journal, and the policies it was measured by are
\* those of the contents it edits.
DecidedInside   == \A o \in Process : at[o] \in Decided => stage[o] = "inside"
AnnouncedInside == \A o \in Process : at[o] \in Announced => IntentOf(o) \in recorded
DecidedAllowed  == \A o \in Process : at[o] \in Decided => Allowed(o, loaded[o])

ChangeInv ==
  /\ StoreInv
  /\ Progress
  /\ KeysSeen
  /\ DecidedInside
  /\ AnnouncedInside
  /\ DecidedAllowed

-----------------------------------------------------------------------------
(* The operators.                                                           *)

LEMMA TargetInName ==
  ASSUME RequestsOK, NEW o \in Process, Kind(o) # "migrate" PROVE Target(o) \in Name
<1>1. PICK n \in Name : request[o].names = {n} BY DEF RequestsOK
<1>2. Target(o) \in request[o].names BY <1>1 DEF Target
<1>3. QED BY <1>1, <1>2

LEMMA PermittedExists ==
  ASSUME NEW item, NEW operator, Permits(item, operator) PROVE item # Nothing
BY DEF Permits

\* What is edited into a well-formed configuration is well-formed.
LEMMA EditedType ==
  ASSUME RequestsOK, job \in [Process -> Job], NEW o \in Process, NEW c \in Config,
         Allowed(o, c)
  PROVE  Edited(o, c) \in Config
<1> USE ControlAssumption DEF RequestsOK
<1>1. CASE Kind(o) \in {"set", "import"}
  <2>1. Target(o) \in Name BY <1>1, TargetInName
  <2> DEFINE item == request[o].item
             kept == [item EXCEPT !.credential =
                        [s \in Slot |-> IF @[s] \in Secret THEN request[o].backend ELSE @[s]]]
  <2>2. item \in Item /\ request[o].backend \in Backend BY DEF Request
  <2>3. kept \in Item BY <2>2 DEF Item
  <2>4. Edited(o, c) = [c EXCEPT !.contexts[Target(o)] = kept] BY <1>1 DEF Edited
  <2> HIDE DEF kept
  <2>5. QED BY <2>1, <2>3, <2>4 DEF Config
<1>2. CASE Kind(o) = "use"
  <2>1. Target(o) \in Name BY <1>2, TargetInName
  <2>2. QED BY <1>2, <2>1 DEF Edited, Config
<1>3. CASE Kind(o) = "delete"
  <2>1. Target(o) \in Name BY <1>3, TargetInName
  <2>2. QED BY <1>3, <2>1 DEF Edited, Config
<1>4. CASE Kind(o) = "role"
  <2>1. Target(o) \in Name BY <1>4, TargetInName
  <2>2. c.contexts[Target(o)] \in Item
    <3>1. Governing(o, c) = {c.contexts[Target(o)]} BY <1>4 DEF Governing
    <3>2. Permits(c.contexts[Target(o)], request[o].operator) BY <3>1 DEF Allowed
    <3>3. QED BY <2>1, <3>2, PermittedExists DEF Config
  <2>3. request[o].grantee \in Operator /\ request[o].role \in Role BY DEF Request
  <2>4. Edited(o, c) = [c EXCEPT !.contexts[Target(o)].roles[request[o].grantee] =
                                   request[o].role]
    BY <1>4 DEF Edited
  <2> DEFINE changed == [c.contexts[Target(o)] EXCEPT !.roles[request[o].grantee] =
                                   request[o].role]
  <2>5. changed \in Item BY <2>2, <2>3 DEF Item
  <2>6. Edited(o, c) = [c EXCEPT !.contexts[Target(o)] = changed] BY <2>4
  <2> HIDE DEF changed
  <2>7. QED BY <2>1, <2>5, <2>6 DEF Config
<1>5. CASE Kind(o) = "migrate"
  <2> DEFINE seen == job[o].snapshot
             moved(m) == [seen[m] EXCEPT !.credential =
                            [s \in Slot |-> IF @[s] = Nothing THEN Nothing
                                                             ELSE request[o].backend]]
  <2>1. \A m \in DOMAIN seen : seen[m] \in Item BY DEF Job
  <2>2. request[o].backend \in Backend BY DEF Request
  <2>3. \A m \in DOMAIN seen : moved(m) \in Item BY <2>1, <2>2 DEF Item
  <2>4. Edited(o, c) = [c EXCEPT !.contexts = [m \in Name |->
                          IF m \in DOMAIN seen THEN moved(m) ELSE c.contexts[m]]]
    BY <1>5 DEF Edited, Config
  <2> HIDE DEF moved, seen
  <2>5. QED BY <2>3, <2>4 DEF Config
<1>6. Kind(o) \in {"set", "import", "use", "delete", "role", "migrate"} BY DEF Kind, Request
<1>7. QED BY <1>1, <1>2, <1>3, <1>4, <1>5, <1>6

-----------------------------------------------------------------------------
(* The journal.                                                             *)

\* No step takes a record out of the journal.
LEMMA RecordedGrows ==
  ASSUME NEW o \in Process, Change(o) \/ Upkeep PROVE recorded \subseteq recorded'
<1> USE DEF journalVars
<1>1. CASE Upkeep BY <1>1 DEF Upkeep, Deliver, Retire, SuspectOldest, Settle
<1>2. CASE Change(o)
  <2>1. CASE Snapshot(o) \/ Resolve(o) \/ BackupMigration(o) \/ Open(o) \/ CannotOpen(o)
             \/ Permit(o) \/ Rollback(o) \/ Die(o)
    BY <2>1 DEF Snapshot, Resolve, BackupMigration, Open, CannotOpen, Permit, Rollback, Die
  <2>2. CASE BackupSet(o) \/ Put(o) \/ Save(o) BY <2>2 DEF BackupSet, Put, Save, Effect
  <2>3. CASE Begin(o) BY <2>3 DEF Begin, Announce
  <2>4. CASE Finish(o) BY <2>4 DEF Finish, Conclude, Enqueue
  <2>5. CASE Mark(o) BY <2>5 DEF Mark, Suspect
  <2>6. QED BY <1>2, <2>1, <2>2, <2>3, <2>4, <2>5 DEF Change
<1>3. QED BY <1>1, <1>2

-----------------------------------------------------------------------------
(* The store.                                                               *)

\* A command does to the context file what an update does, or nothing.
LEMMA StoreStep ==
  ASSUME NEW o \in Process, Change(o)
  PROVE  \/ UNCHANGED storeVars
         \/ Peek(o) \/ EnterLegacy(o) \/ EnterCore(o)
         \/ GiveUp(o) \/ Reject(o) \/ Abandon(o)
         \/ at[o] = "save" /\ Replace(o, Edited(o, loaded[o]))
<1>1. CASE Snapshot(o) \/ Resolve(o) \/ BackupMigration(o) \/ Put(o) \/ Finish(o) \/ Mark(o)
  BY <1>1 DEF Snapshot, Resolve, BackupMigration, Put, Finish, Mark
<1>2. CASE Open(o) \/ CannotOpen(o) \/ Permit(o) \/ Begin(o) \/ Save(o) \/ Die(o)
  BY <1>2 DEF Open, CannotOpen, Permit, Begin, Save, Die
<1>3. CASE BackupSet(o) \/ Rollback(o) BY <1>3 DEF BackupSet, Rollback, Fail
<1>4. QED BY <1>1, <1>2, <1>3 DEF Change

LEMMA StoreKept ==
  ASSUME StoreInv, NEW o \in Process, Change(o) \/ Upkeep PROVE StoreInv'
<1>1. CASE Upkeep BY <1>1, StutterHolds DEF Upkeep
<1>2. CASE Change(o)
  BY <1>2, StoreStep, StutterHolds, EntryHolds, RefusalHolds, ReplaceHolds
<1>3. QED BY <1>1, <1>2

-----------------------------------------------------------------------------
(* The steps of one command.                                                *)

\* A command moves nobody else.
LEMMA Frame ==
  ASSUME StoreInv, Progress, NEW o \in Process, Change(o), NEW q \in Process, q # o
  PROVE  /\ at'[q] = at[q] /\ stage'[q] = stage[q]
         /\ loaded'[q] = loaded[q] /\ job'[q] = job[q]
<1>1. stage'[q] = stage[q] /\ loaded'[q] = loaded[q]
  BY StoreStep DEF StoreInv, LockType, storeVars, Peek, EnterLegacy, EnterCore, Enter, GiveUp,
                   Reject, Abandon, Replace, Release
<1>2. at'[q] = at[q] /\ job'[q] = job[q]
  <2> USE DEF Progress, Go, Answer
  <2>1. CASE Snapshot(o) BY <2>1 DEF Snapshot
  <2>2. CASE Resolve(o) BY <2>2 DEF Resolve, Visit
  <2>3. CASE BackupMigration(o) BY <2>3 DEF BackupMigration, Visit
  <2>4. CASE Open(o) \/ CannotOpen(o) \/ Permit(o) \/ Begin(o)
    BY <2>4 DEF Open, CannotOpen, Permit, Begin, changeVars
  <2>5. CASE BackupSet(o) BY <2>5 DEF BackupSet, Visit, Fail
  <2>6. CASE Put(o) BY <2>6 DEF Put, Visit
  <2>7. CASE Rollback(o) BY <2>7 DEF Rollback, Fail
  <2>8. CASE Save(o) \/ Finish(o) \/ Mark(o) \/ Die(o) BY <2>8 DEF Save, Finish, Mark, Die
  <2>9. QED BY <2>1, <2>2, <2>3, <2>4, <2>5, <2>6, <2>7, <2>8 DEF Change
<1>3. QED BY <1>1, <1>2

\* Where a command comes from when it is behind its authorization, or its intent.
LEMMA Advance ==
  ASSUME StoreInv, Progress, DecidedInside, NEW o \in Process, Change(o)
  PROVE  /\ at'[o] \in Decided =>
              /\ stage[o] = "inside" /\ stage'[o] = "inside"
              /\ loaded'[o] = loaded[o] /\ job'[o].snapshot = job[o].snapshot
              /\ at[o] \in Decided \/ Allowed(o, loaded[o])
         /\ at'[o] \in Announced => at[o] \in Announced \/ IntentOf(o) \in recorded'
<1> USE DEF Progress, DecidedInside, Go, Answer, Step, Decided, Announced, storeVars
<1>1. CASE Snapshot(o) BY <1>1 DEF Snapshot
<1>2. CASE Resolve(o) BY <1>2 DEF Resolve, Visit
<1>3. CASE BackupMigration(o) BY <1>3 DEF BackupMigration, Visit
<1>4. CASE Open(o) \/ CannotOpen(o) BY <1>4 DEF Open, CannotOpen, changeVars
<1>5. CASE Permit(o) BY <1>5 DEF Permit
<1>6. CASE Begin(o) BY <1>6 DEF Begin, Announce, AfterIntent
<1>7. CASE BackupSet(o)
  <2>1. CASE at'[o] = "finish" BY <2>1
  <2>2. CASE UNCHANGED storeVars /\ job'[o].snapshot = job[o].snapshot
    BY <1>7, <2>2 DEF BackupSet
  <2>3. at'[o] = "finish" \/ (UNCHANGED storeVars /\ job'[o].snapshot = job[o].snapshot)
    <3>1. CASE Fail(o, "failed") BY <3>1 DEF Fail
    <3>2. ASSUME NEW k, UNCHANGED storeVars,
                 Visit(o, k, [job[o] EXCEPT !.previous[k] = store[request[o].backend][k]], "put")
          PROVE  job'[o].snapshot = job[o].snapshot
      BY <3>2 DEF Visit, Job
    <3>3. QED BY <1>7, <3>1, <3>2 DEF BackupSet
  <2>4. QED BY <2>1, <2>2, <2>3
<1>8. CASE Put(o)
  <2>1. UNCHANGED storeVars /\ job'[o].snapshot = job[o].snapshot
    BY <1>8 DEF Put, Visit, Job
  <2>2. QED BY <1>8, <2>1 DEF Put
<1>9. CASE Rollback(o)
  <2>1. at'[o] = "finish" \/ (UNCHANGED <<at, storeVars>> /\ job'[o].snapshot = job[o].snapshot)
    BY <1>9 DEF Rollback, Fail, Job
  <2>2. QED BY <1>9, <2>1 DEF Rollback
<1>10. CASE Save(o) \/ Finish(o) \/ Mark(o) \/ Die(o) BY <1>10 DEF Save, Finish, Mark, Die
<1>11. QED
  BY <1>1, <1>2, <1>3, <1>4, <1>5, <1>6, <1>7, <1>8, <1>9, <1>10 DEF Change

-----------------------------------------------------------------------------
(* Types.                                                                   *)

LEMMA NoJobType == NoJob \in Job
<1> DEFINE none == [n \in {} |-> Nothing]
<1>1. none \in [{} -> Item] OBVIOUS
<1>2. none \in UNION {[N -> Item] : N \in SUBSET Name} BY <1>1, {} \in SUBSET Name
<1> HIDE DEF none
<1>3. NoJob = [keys |-> {}, todo |-> {}, snapshot |-> none,
               held |-> [k \in Key |-> Nothing], previous |-> [k \in Key |-> Nothing]]
  BY DEF NoJob, none
<1>4. QED BY <1>2, <1>3 DEF Job, Secrets

LEMMA VisitType ==
  ASSUME Progress, NEW o \in Process, NEW k, NEW found \in Job, NEW step \in Step,
         Visit(o, k, found, step)
  PROVE  job' \in [Process -> Job] /\ at' \in [Process -> Step] /\ reply' = reply
<1> DEFINE rest == found.todo \ {k}
           next == [found EXCEPT !.todo = IF rest = {} THEN found.keys ELSE rest]
<1>1. next \in Job BY DEF Job
<1>2. job' = [job EXCEPT ![o] = next] BY DEF Visit
<1> HIDE DEF next
<1>3. job' \in [Process -> Job] BY <1>1, <1>2 DEF Progress
<1>4. at' \in [Process -> Step] /\ reply' = reply BY DEF Visit, Go, Progress
<1>5. QED BY <1>3, <1>4

\* The local variables of a command.
LEMMA JobTypeKept ==
  ASSUME Progress, StoreInv, KeysSeen, NEW o \in Process, Change(o)
  PROVE  job' \in [Process -> Job]
<1> USE NoJobType DEF Answer, changeVars
<1>1. CASE Snapshot(o)
  <2> DEFINE contexts == file.contents.contexts
             found == {n \in request[o].names :
                         contexts[n] # Nothing /\ Credentials(contexts[n]) # {}}
             keys == {k \in found \X Slot : k[2] \in Credentials(contexts[k[1]])}
             seen == [n \in found |-> contexts[n]]
             new == [NoJob EXCEPT !.keys = keys, !.todo = keys, !.snapshot = seen]
  <2>1. found \subseteq Name BY DEF Progress, RequestsOK, Request
  <2>2. keys \subseteq Key BY <2>1 DEF Key
  <2>3. \A n \in found : contexts[n] \in Item BY <2>1 DEF Progress, Config
  <2>4. seen \in [found -> Item] BY <2>3
  <2>5. seen \in UNION {[N -> Item] : N \in SUBSET Name} BY <2>1, <2>4
  <2>6. new \in Job
    <3> HIDE DEF keys, seen
    <3>1. QED BY <2>2, <2>5 DEF Job
  <2>7. job' = [job EXCEPT ![o] = new] \/ job' = [job EXCEPT ![o] = NoJob]
    BY <1>1 DEF Snapshot
  <2> HIDE DEF new
  <2>8. QED BY <2>6, <2>7 DEF Progress
<1>2. CASE Resolve(o)
  <2>1. CASE Answer(o, "refused") BY <2>1 DEF Progress
  <2>2. ASSUME NEW k \in job[o].todo, NEW found, NEW secret, at[o] = "resolve",
               found = job[o].snapshot[k[1]].credential[k[2]],
               secret = IF found \in Backend THEN store[found][k] ELSE found,
               Visit(o, k, [job[o] EXCEPT !.held[k] = secret], "backup")
        PROVE  job' \in [Process -> Job]
    <3>1. k \in Key /\ k[2] \in Slot BY DEF Progress, Job, Key
    <3>2. k[1] \in DOMAIN job[o].snapshot BY <2>2 DEF KeysSeen
    <3>3. job[o].snapshot[k[1]] \in Item BY <3>2 DEF Progress, Job
    <3>4. found \in Secret \cup Backend \cup {Nothing} BY <2>2, <3>1, <3>3 DEF Item
    <3>5. secret \in Secret \cup {Nothing}
      <4>1. CASE found \in Backend
        <5>1. store[found] \in Secrets BY <4>1 DEF Progress
        <5>2. secret = store[found][k] BY <2>2, <4>1
        <5>3. QED BY <3>1, <5>1, <5>2 DEF Secrets
      <4>2. CASE found \notin Backend BY <2>2, <3>4, <4>2
      <4>3. QED BY <4>1, <4>2
    <3>6. [job[o] EXCEPT !.held[k] = secret] \in Job
      BY <3>1, <3>5 DEF Progress, Job, Secrets
    <3>7. QED BY <2>2, <3>6, VisitType DEF Step
  <2>3. QED BY <1>2, <2>1, <2>2 DEF Resolve
<1>3. ASSUME NEW k \in job[o].todo, NEW step \in Step,
             Visit(o, k, [job[o] EXCEPT !.previous[k] = store[request[o].backend][k]], step)
      PROVE  job' \in [Process -> Job]
  <2>1. k \in Key /\ store[request[o].backend][k] \in Secret \cup {Nothing}
    BY DEF Progress, RequestsOK, Request, Job, Secrets
  <2>2. [job[o] EXCEPT !.previous[k] = store[request[o].backend][k]] \in Job
    BY <2>1 DEF Progress, Job, Secrets
  <2>3. QED BY <1>3, <2>2, VisitType
<1>4. CASE BackupMigration(o) BY <1>3, <1>4 DEF BackupMigration, Progress, Step
<1>5. CASE BackupSet(o) BY <1>3, <1>5 DEF BackupSet, Progress, Step
<1>6. CASE Put(o)
  <2>1. ASSUME NEW k, Visit(o, k, job[o], "save") PROVE job' \in [Process -> Job]
    BY <2>1, VisitType DEF Progress, Step
  <2>2. ASSUME NEW k \in job[o].todo,
               job' = [job EXCEPT ![o].todo = (job[o].keys \ job[o].todo) \cup {k}]
        PROVE  job' \in [Process -> Job]
    BY <2>2 DEF Progress, Job
  <2>3. QED BY <1>6, <2>1, <2>2 DEF Put
<1>7. CASE Rollback(o)
  <2>1. PICK k \in job[o].todo : job' = [job EXCEPT ![o].todo = job[o].todo \ {k}]
    BY <1>7 DEF Rollback
  <2>2. QED BY <2>1 DEF Progress, Job
<1>8. CASE Open(o) \/ CannotOpen(o) \/ Permit(o) \/ Begin(o)
  BY <1>8 DEF Open, CannotOpen, Permit, Begin, Progress
<1>9. CASE Save(o) \/ Finish(o) \/ Mark(o) \/ Die(o)
  BY <1>9 DEF Save, Finish, Mark, Die, Progress
<1>10. QED BY <1>1, <1>2, <1>4, <1>5, <1>6, <1>7, <1>8, <1>9 DEF Change

LEMMA KeysSeenKept ==
  ASSUME Progress, StoreInv, KeysSeen, NEW o \in Process, Change(o)
  PROVE  at'[o] = "resolve" =>
           \A k \in job'[o].keys \cup job'[o].todo : k[1] \in DOMAIN job'[o].snapshot
<1> USE DEF Progress, Go, Answer, Step, changeVars
<1>1. CASE Snapshot(o)
  <2> DEFINE contexts == file.contents.contexts
             found == {n \in request[o].names :
                         contexts[n] # Nothing /\ Credentials(contexts[n]) # {}}
             keys == {k \in found \X Slot : k[2] \in Credentials(contexts[k[1]])}
             seen == [n \in found |-> contexts[n]]
             new == [NoJob EXCEPT !.keys = keys, !.todo = keys, !.snapshot = seen]
  <2>1. CASE at'[o] # "resolve" BY <2>1
  <2>2. CASE job' = [job EXCEPT ![o] = new]
    <3>1. new.keys = keys /\ new.todo = keys /\ new.snapshot = seen BY NoJobType DEF Job
    <3>2. \A k \in keys : k[1] \in DOMAIN seen OBVIOUS
    <3> HIDE DEF new, keys, seen
    <3>3. job'[o] = new BY <2>2
    <3>4. QED BY <3>1, <3>2, <3>3
  <2>3. QED BY <1>1, <2>1, <2>2 DEF Snapshot
<1>2. CASE Resolve(o)
  <2>1. CASE at'[o] # "resolve" BY <2>1
  <2>2. ASSUME NEW k, NEW secret, at[o] = "resolve",
               Visit(o, k, [job[o] EXCEPT !.held[k] = secret], "backup")
        PROVE  at'[o] = "resolve" => \A key \in job'[o].keys \cup job'[o].todo :
                                         key[1] \in DOMAIN job'[o].snapshot
    <3> DEFINE found == [job[o] EXCEPT !.held[k] = secret]
    <3>1. found.keys = job[o].keys /\ found.todo = job[o].todo
          /\ found.snapshot = job[o].snapshot
      BY DEF Job
    <3>2. /\ job'[o].keys = found.keys /\ job'[o].snapshot = found.snapshot
          /\ job'[o].todo \subseteq found.keys \cup found.todo
      BY <2>2 DEF Visit, Job
    <3> HIDE DEF found
    <3>3. QED BY <2>2, <3>1, <3>2 DEF KeysSeen
  <2>3. QED BY <1>2, <2>1, <2>2 DEF Resolve
<1>3. CASE BackupMigration(o) BY <1>3 DEF BackupMigration, Visit
<1>4. CASE Open(o) \/ CannotOpen(o) \/ Permit(o) \/ Begin(o)
  BY <1>4 DEF Open, CannotOpen, Permit, Begin, AfterIntent
<1>5. CASE BackupSet(o) BY <1>5 DEF BackupSet, Visit, Fail
<1>6. CASE Put(o) BY <1>6 DEF Put, Visit
<1>7. CASE Rollback(o) BY <1>7 DEF Rollback, Fail
<1>8. CASE Save(o) \/ Finish(o) \/ Mark(o) \/ Die(o) BY <1>8 DEF Save, Finish, Mark, Die
<1>9. QED BY <1>1, <1>2, <1>3, <1>4, <1>5, <1>6, <1>7, <1>8 DEF Change

\* Where the command is, what it tells, and what it stores.
LEMMA ProgressKept ==
  ASSUME ChangeInv, NEW o \in Process, Change(o), UNCHANGED request
  PROVE  Progress'
<1>1. RequestsOK' BY DEF ChangeInv, Progress, RequestsOK, Kind
<1>2. job' \in [Process -> Job] BY JobTypeKept DEF ChangeInv
<1>3. file' \in [legacy : BOOLEAN, contents : Config]
  <2>1. file' = file \/ (at[o] = "save" /\ Replace(o, Edited(o, loaded[o])))
    <3>1. CASE Peek(o) \/ EnterLegacy(o) \/ EnterCore(o)
      BY <3>1 DEF Peek, EnterLegacy, EnterCore, Enter
    <3>2. CASE GiveUp(o) \/ Reject(o) \/ Abandon(o) BY <3>2 DEF GiveUp, Reject, Abandon
    <3>3. CASE UNCHANGED storeVars BY <3>3 DEF storeVars
    <3>4. QED BY <3>1, <3>2, <3>3, StoreStep
  <2>2. ASSUME at[o] = "save", Replace(o, Edited(o, loaded[o]))
        PROVE  file' \in [legacy : BOOLEAN, contents : Config]
    <3>1. loaded[o] \in Config /\ Allowed(o, loaded[o])
      BY <2>2 DEF ChangeInv, StoreInv, NothingLost, Progress, DecidedInside, DecidedAllowed,
                  Decided
    <3>2. Edited(o, loaded[o]) \in Config BY <3>1, EditedType DEF ChangeInv, Progress
    <3>3. QED BY <2>2, <3>2 DEF Replace
  <2>3. QED BY <2>1, <2>2 DEF ChangeInv, Progress
<1>4. /\ at' \in [Process -> Step]
      /\ status' \in [Process -> {"none", "succeeded", "failed", "uncertain"}]
      /\ reply' \in [Process -> {"none", "ok", "failed", "uncertain", "refused", "auditError",
                                 "auditIncomplete", "dead"}]
  <2> USE DEF ChangeInv, Progress, Go, Answer, Step, changeVars
  <2>1. CASE Snapshot(o) BY <2>1 DEF Snapshot
  <2>2. CASE Resolve(o) BY <2>2 DEF Resolve, Visit
  <2>3. CASE BackupMigration(o) BY <2>3 DEF BackupMigration, Visit
  <2>4. CASE Open(o) \/ CannotOpen(o) \/ Permit(o) \/ Begin(o)
    BY <2>4 DEF Open, CannotOpen, Permit, Begin, AfterIntent
  <2>5. CASE BackupSet(o) BY <2>5 DEF BackupSet, Visit, Fail
  <2>6. CASE Put(o) BY <2>6 DEF Put, Visit
  <2>7. CASE Rollback(o) BY <2>7 DEF Rollback, Fail
  <2>8. CASE Save(o) BY <2>8 DEF Save, Unclear
  <2>9. CASE Finish(o) BY <2>9 DEF Finish, PlainReply
  <2>10. CASE Mark(o) \/ Die(o) BY <2>10 DEF Mark, Die
  <2>11. QED
    BY <2>1, <2>2, <2>3, <2>4, <2>5, <2>6, <2>7, <2>8, <2>9, <2>10 DEF Change
<1>5. store' \in [Backend -> Secrets]
  <2> USE DEF ChangeInv, Progress
  <2>1. ASSUME NEW k \in job[o].todo, NEW secret \in Secret \cup {Nothing},
               store' = [store EXCEPT ![request[o].backend][k] = secret]
        PROVE  store' \in [Backend -> Secrets]
    <3>1. k \in Key /\ request[o].backend \in Backend BY DEF RequestsOK, Request, Job
    <3>2. [store[request[o].backend] EXCEPT ![k] = secret] \in Secrets BY <3>1 DEF Secrets
    <3>3. QED BY <2>1, <3>1, <3>2
  <2>2. \A k \in job[o].todo : /\ job[o].held[k] \in Secret \cup {Nothing}
                               /\ job[o].previous[k] \in Secret \cup {Nothing}
    BY DEF Job, Secrets
  <2>3. CASE Put(o) BY <2>1, <2>2, <2>3 DEF Put
  <2>4. CASE Rollback(o) BY <2>1, <2>2, <2>4 DEF Rollback, Former
  <2>5. CASE UNCHANGED store BY <2>5
  <2>6. Put(o) \/ Rollback(o) \/ UNCHANGED store
    BY DEF Change, Snapshot, Resolve, BackupMigration, Open, CannotOpen, Permit, Begin,
           BackupSet, Save, Finish, Mark, Die, changeVars
  <2>7. QED BY <2>3, <2>4, <2>5, <2>6
<1>6. QED BY <1>1, <1>2, <1>3, <1>4, <1>5 DEF Progress

-----------------------------------------------------------------------------
(* The invariant.                                                           *)

\* What a command was allowed, it stays allowed while its snapshot stays.
LEMMA AllowedStays ==
  ASSUME NEW q \in Process, UNCHANGED request, job'[q].snapshot = job[q].snapshot,
         loaded'[q] = loaded[q], Allowed(q, loaded[q])
  PROVE  Allowed(q, loaded[q])'
<1>1. Kind(q)' = Kind(q) /\ Target(q)' = Target(q) BY DEF Kind, Target
<1>2. Governing(q, loaded[q])' = Governing(q, loaded[q]) BY <1>1 DEF Governing
<1>3. SameAsSeen(q, loaded[q])' BY DEF Allowed, SameAsSeen
<1>4. QED BY <1>1, <1>2, <1>3 DEF Allowed

LEMMA ChangeKeepsInv ==
  ASSUME ChangeInv, NEW o \in Process, Change(o), UNCHANGED request PROVE ChangeInv'
<1>1. StoreInv' BY StoreKept DEF ChangeInv
<1>2. Progress' BY ProgressKept
<1>3. \A q \in Process : q # o =>
        /\ at'[q] = at[q] /\ stage'[q] = stage[q]
        /\ loaded'[q] = loaded[q] /\ job'[q] = job[q]
  BY Frame DEF ChangeInv
<1>4. KeysSeen' BY <1>3, KeysSeenKept DEF ChangeInv, KeysSeen
<1>5. /\ at'[o] \in Decided =>
           /\ stage[o] = "inside" /\ stage'[o] = "inside"
           /\ loaded'[o] = loaded[o] /\ job'[o].snapshot = job[o].snapshot
           /\ at[o] \in Decided \/ Allowed(o, loaded[o])
      /\ at'[o] \in Announced => at[o] \in Announced \/ IntentOf(o) \in recorded'
  BY Advance DEF ChangeInv
<1>6. DecidedInside' BY <1>3, <1>5 DEF ChangeInv, DecidedInside
<1>7. AnnouncedInside' BY <1>3, <1>5, RecordedGrows DEF ChangeInv, AnnouncedInside, IntentOf
<1>8. DecidedAllowed'
  <2> SUFFICES ASSUME NEW q \in Process, at'[q] \in Decided PROVE Allowed(q, loaded[q])'
    BY DEF DecidedAllowed
  <2>1. Allowed(q, loaded[q]) /\ job'[q].snapshot = job[q].snapshot /\ loaded'[q] = loaded[q]
    BY <1>3, <1>5 DEF ChangeInv, DecidedAllowed
  <2>2. QED BY <2>1, AllowedStays
<1>9. QED BY <1>1, <1>2, <1>4, <1>6, <1>7, <1>8 DEF ChangeInv

\* Upkeep of the journal is nobody's step.
LEMMA QuietKeepsInv ==
  ASSUME ChangeInv, UNCHANGED <<storeVars, changeVars, request>>, recorded \subseteq recorded'
  PROVE  ChangeInv'
<1> USE DEF changeVars
<1>1. StoreInv' BY StutterHolds DEF ChangeInv
<1>2. Progress' BY DEF ChangeInv, Progress, RequestsOK, Kind, storeVars
<1>3. KeysSeen' BY DEF ChangeInv, KeysSeen
<1>4. DecidedInside' BY DEF ChangeInv, DecidedInside, storeVars
<1>5. AnnouncedInside' BY DEF ChangeInv, AnnouncedInside, IntentOf
<1>6. DecidedAllowed'
  <2> SUFFICES ASSUME NEW q \in Process, at'[q] \in Decided PROVE Allowed(q, loaded[q])'
    BY DEF DecidedAllowed
  <2>1. Allowed(q, loaded[q]) /\ job' = job /\ loaded' = loaded
    BY DEF ChangeInv, DecidedAllowed, storeVars
  <2>2. QED BY <2>1, AllowedStays
<1>7. QED BY <1>1, <1>2, <1>3, <1>4, <1>5, <1>6 DEF ChangeInv

LEMMA InitHolds == Init => ChangeInv
<1> SUFFICES ASSUME Init PROVE ChangeInv OBVIOUS
<1> USE DEF Init
<1>1. StoreInv BY IdleHolds
<1>2. RequestsOK
  <2>1. \A o \in Process : request[o] \in Requests[o] OBVIOUS
  <2>2. request \in [Process -> Request] BY <2>1, ControlAssumption
  <2>3. QED BY <2>1, <2>2, ControlAssumption DEF RequestsOK, Kind
<1>3. file \in [legacy : BOOLEAN, contents : Config] BY ControlAssumption
<1>4. job \in [Process -> Job]
  <2> SUFFICES ASSUME NEW o \in Process PROVE FirstJob(o) \in Job OBVIOUS
  <2> DEFINE held == [k \in Key |-> IF k \in GivenKeys(o)
                                      THEN request[o].item.credential[k[2]] ELSE Nothing]
  <2>1. GivenKeys(o) \subseteq Key
        /\ \A k \in GivenKeys(o) : request[o].item.credential[k[2]] \in Secret
    <3>1. CASE Kind(o) = "set"
      <4>1. Target(o) \in Name BY <1>2, <3>1, TargetInName
      <4>2. QED BY <3>1, <4>1 DEF GivenKeys, Key
    <3>2. CASE Kind(o) # "set" BY <3>2 DEF GivenKeys
    <3>3. QED BY <3>1, <3>2
  <2>2. held \in Secrets BY <2>1 DEF Secrets
  <2>3. FirstJob(o) = [NoJob EXCEPT !.keys = GivenKeys(o), !.todo = GivenKeys(o),
                                    !.held = held]
    BY DEF FirstJob
  <2> HIDE DEF held
  <2>4. QED BY <2>1, <2>2, <2>3, NoJobType DEF Job
<1>5. store \in [Backend -> Secrets]
  <2>1. \A b \in Backend, k \in Key :
          (LET item == file.contents.contexts[k[1]]
           IN IF item # Nothing /\ item.credential[k[2]] = b THEN Stored ELSE Nothing)
            \in Secret \cup {Nothing}
    BY ControlAssumption
  <2>2. QED BY <2>1 DEF Secrets
<1>6. at \in [Process -> {"start", "update"}] OBVIOUS
<1>7. Progress BY <1>2, <1>3, <1>4, <1>5, <1>6 DEF Progress, Step
<1>8. KeysSeen /\ DecidedInside /\ AnnouncedInside /\ DecidedAllowed
  BY <1>6 DEF KeysSeen, DecidedInside, AnnouncedInside, DecidedAllowed, Decided, Announced
<1>9. QED BY <1>1, <1>7, <1>8 DEF ChangeInv

\* The strengthening is an invariant of the control commands.
THEOREM ChangeSafe == Spec => []ChangeInv
<1>1. ChangeInv /\ [Next]_vars => ChangeInv'
  <2> SUFFICES ASSUME ChangeInv, [Next]_vars PROVE ChangeInv' OBVIOUS
  <2>1. CASE UNCHANGED vars BY <2>1, QuietKeepsInv DEF vars, journalVars
  <2>2. ASSUME NEW o \in Process, Change(o), UNCHANGED request PROVE ChangeInv'
    BY <2>2, ChangeKeepsInv
  <2>3. CASE Upkeep /\ UNCHANGED request
    <3>1. recorded \subseteq recorded' BY <2>3 DEF Upkeep, Deliver, Retire, SuspectOldest, Settle
    <3>2. QED BY <2>3, <3>1, QuietKeepsInv DEF Upkeep
  <2>4. QED BY <2>1, <2>2, <2>3 DEF Next
<1>2. QED BY <1>1, InitHolds, PTL DEF Spec

-----------------------------------------------------------------------------
(* What the runs check.                                                     *)

\* The variables of the commands, the file and the backends have their types.
THEOREM ControlTypes == Spec => []TypeOK
<1>1. ChangeInv => TypeOK
  BY DEF ChangeInv, StoreInv, LockType, Progress, Step, Secrets, TypeOK
<1>2. QED BY <1>1, ChangeSafe, PTL

\* The commands edit the file as it is: none undoes what another has saved.
THEOREM CommandsLoseNothing == Spec => []NothingLost
<1>1. ChangeInv => NothingLost BY DEF ChangeInv, StoreInv
<1>2. QED BY <1>1, ChangeSafe, PTL

\* The file changes by the update of one command that has been allowed.
LEMMA WhoReplaces ==
  ASSUME ChangeInv, [Next]_vars, file' # file
  PROVE  \E o \in Process : /\ Change(o) /\ UNCHANGED request
                            /\ at[o] = "save" /\ Replace(o, Edited(o, loaded[o]))
<1>1. PICK o \in Process : Change(o) /\ UNCHANGED request
  BY DEF Next, vars, Upkeep, storeVars
<1>2. CASE Peek(o) \/ EnterLegacy(o) \/ EnterCore(o)
  BY <1>2 DEF Peek, EnterLegacy, EnterCore, Enter
<1>3. CASE GiveUp(o) \/ Reject(o) \/ Abandon(o) BY <1>3 DEF GiveUp, Reject, Abandon
<1>4. CASE UNCHANGED storeVars BY <1>4 DEF storeVars
<1>5. QED BY <1>1, <1>2, <1>3, <1>4, StoreStep

\* Who changes the file, or a backend, is behind its intent.
LEMMA WhoChanges ==
  ASSUME ChangeInv, [Next]_vars, file'.contents # file.contents \/ store' # store
  PROVE  \E o \in Process : at[o] \in Announced
<1>1. CASE file' # file BY <1>1, WhoReplaces DEF Announced
<1>2. CASE store' # store
  <2>1. PICK o \in Process : Change(o) BY <1>2 DEF Next, vars, Upkeep, changeVars
  <2>2. Put(o) \/ Rollback(o)
    BY <1>2, <2>1 DEF Change, Snapshot, Resolve, BackupMigration, Open, CannotOpen, Permit,
         Begin, BackupSet, Save, Finish, Mark, Die, changeVars
  <2>3. QED BY <2>2 DEF Put, Rollback, Announced
<1>3. file' # file \/ store' # store OBVIOUS
<1>4. QED BY <1>1, <1>2, <1>3

\* Nothing changes unannounced.
THEOREM ChangesIntended == Spec => ChangeIsIntended
<1>1. ChangeInv /\ [Next]_vars =>
        [file'.contents # file.contents \/ store' # store =>
           \E o \in Process : stage[o] = "inside" /\ IntentOf(o) \in recorded]_vars
  <2> SUFFICES ASSUME ChangeInv, [Next]_vars, file'.contents # file.contents \/ store' # store
               PROVE  \E o \in Process : stage[o] = "inside" /\ IntentOf(o) \in recorded
    OBVIOUS
  <2>1. PICK o \in Process : at[o] \in Announced BY WhoChanges
  <2>2. stage[o] = "inside" /\ IntentOf(o) \in recorded
    BY <2>1 DEF ChangeInv, DecidedInside, AnnouncedInside, Announced, Decided
  <2>3. QED BY <2>2
<1>2. QED BY <1>1, ChangeSafe, PTL DEF Spec, ChangeIsIntended

\* What an allowed command edits, the policies of the contents it edits allow.
LEMMA EditAuthorized ==
  ASSUME RequestsOK, job \in [Process -> Job], NEW o \in Process, NEW old \in Config,
         Allowed(o, old)
  PROVE  LET new == Edited(o, old)
             may(n) == Permits(old.contexts[n], request[o].operator)
         IN /\ \A n \in Name :
                 new.contexts[n] # old.contexts[n] =>
                   IF old.contexts[n] # Nothing THEN may(n)
                   ELSE old.current # Nothing => may(old.current)
            /\ new.current \notin {old.current, Nothing} /\ old.current # Nothing =>
                 may(old.current)
<1> DEFINE new == Edited(o, old)
           may(n) == Permits(old.contexts[n], request[o].operator)
           T == Target(o)
<1>1. \A item \in Governing(o, old) : Permits(item, request[o].operator) BY DEF Allowed
<1>2. CASE Kind(o) \in {"set", "import"}
  <2>1. T \in Name BY <1>2, TargetInName
  <2>2. new.current = old.current
        /\ \A n \in Name : n # T => new.contexts[n] = old.contexts[n]
    BY <1>2, <2>1 DEF Edited, Config
  <2>3. old.contexts[T] # Nothing => may(T) BY <1>1, <1>2 DEF Governing
  <2>4. old.contexts[T] = Nothing /\ old.current # Nothing => may(old.current)
    BY <1>1, <1>2 DEF Governing
  <2> HIDE DEF T
  <2>5. QED BY <2>1, <2>2, <2>3, <2>4
<1>3. CASE Kind(o) = "use"
  <2>1. new.contexts = old.contexts BY <1>3 DEF Edited, Config
  <2>2. old.current # Nothing => may(old.current) BY <1>1, <1>3 DEF Governing
  <2>3. QED BY <2>1, <2>2
<1>4. CASE Kind(o) \in {"delete", "role"}
  <2>1. T \in Name BY <1>4, TargetInName
  <2>2. new.current \in {old.current, Nothing}
        /\ \A n \in Name : n # T => new.contexts[n] = old.contexts[n]
    BY <1>4, <2>1 DEF Edited, Config
  <2>3. may(T) BY <1>1, <1>4 DEF Governing
  <2>4. old.contexts[T] # Nothing BY <2>3, PermittedExists
  <2> HIDE DEF T
  <2>5. QED BY <2>1, <2>2, <2>3, <2>4
<1>5. CASE Kind(o) = "migrate"
  <2>1. new.current = old.current
        /\ \A n \in Name : n \notin DOMAIN job[o].snapshot => new.contexts[n] = old.contexts[n]
    BY <1>5 DEF Edited, Config
  <2>2. \A n \in DOMAIN job[o].snapshot : may(n) BY <1>1, <1>5 DEF Governing
  <2>3. \A n \in DOMAIN job[o].snapshot : old.contexts[n] # Nothing BY <2>2, PermittedExists
  <2>4. QED BY <2>1, <2>2, <2>3
<1>6. Kind(o) \in {"set", "import", "use", "delete", "role", "migrate"}
  BY DEF RequestsOK, Kind, Request
<1>7. QED BY <1>2, <1>3, <1>4, <1>5, <1>6

\* Every change is allowed by the policies in the file that it changes.
THEOREM ChangesAuthorized == Spec => ChangesAreAuthorized
<1> DEFINE Ok(o) ==
      stage[o] = "inside" /\ stage'[o] # "inside" /\ file'.contents # file.contents =>
        LET old == file.contents
            new == file'.contents
            may(n) == Permits(old.contexts[n], request[o].operator)
        IN /\ \A n \in Name :
                new.contexts[n] # old.contexts[n] =>
                  IF old.contexts[n] # Nothing THEN may(n)
                  ELSE old.current # Nothing => may(old.current)
           /\ new.current \notin {old.current, Nothing} /\ old.current # Nothing =>
                may(old.current)
<1>1. ChangeInv /\ [Next]_vars => \A o \in Process : Ok(o)
  <2> SUFFICES ASSUME ChangeInv, [Next]_vars, NEW o \in Process, stage[o] = "inside",
                      file'.contents # file.contents
               PROVE  Ok(o)
    OBVIOUS
  <2>1. PICK q \in Process : at[q] = "save" /\ Replace(q, Edited(q, loaded[q]))
    BY WhoReplaces
  <2>2. q = o BY <2>1 DEF ChangeInv, StoreInv, InsideHoldsLock, Replace
  <2>3. loaded[o] = file.contents /\ file.contents \in Config
    BY DEF ChangeInv, StoreInv, NothingLost, Progress
  <2>4. file'.contents = Edited(o, file.contents) BY <2>1, <2>2, <2>3 DEF Replace
  <2>5. Allowed(o, file.contents)
    BY <2>1, <2>2, <2>3 DEF ChangeInv, DecidedAllowed, Decided
  <2>6. QED BY <2>3, <2>4, <2>5, EditAuthorized DEF ChangeInv, Progress
<1>2. ChangeInv /\ [Next]_vars => [\A o \in Process : Ok(o)]_vars BY <1>1
<1> HIDE DEF Ok
<1>3. Spec => [][\A o \in Process : Ok(o)]_vars BY <1>2, ChangeSafe, PTL DEF Spec
<1>4. QED BY <1>3 DEF Ok, ChangesAreAuthorized

-----------------------------------------------------------------------------
(* The journal is used as it promises.                                      *)

LEMMA ChangeIsJournal ==
  ASSUME ChangeInv, NEW o \in Process, Change(o) PROVE [JournalNext]_journalVars
<1>1. o \in Mutation BY ControlAssumption
<1>2. Announce(o) \/ Perform(o) \/ Conclude(o) \/ Enqueue(o) \/ Suspect(o)
        => JournalNext
  BY <1>1 DEF JournalNext
<1>3. ASSUME Effect(o), at[o] \in Announced PROVE Perform(o)
  BY <1>3 DEF ChangeInv, AnnouncedInside, Effect, Perform
<1>4. CASE Snapshot(o) \/ Resolve(o) \/ BackupMigration(o) \/ Open(o) \/ CannotOpen(o)
           \/ Permit(o) \/ Rollback(o) \/ Die(o)
  BY <1>4 DEF Snapshot, Resolve, BackupMigration, Open, CannotOpen, Permit, Rollback, Die
<1>5. CASE Begin(o) BY <1>2, <1>5 DEF Begin
<1>6. CASE BackupSet(o) \/ Put(o) \/ Save(o)
  BY <1>2, <1>3, <1>6 DEF BackupSet, Put, Save, Announced
<1>7. CASE Finish(o) \/ Mark(o) BY <1>2, <1>7 DEF Finish, Mark
<1>8. QED BY <1>4, <1>5, <1>6, <1>7 DEF Change

\* Control commands announce before they act, and queue or quarantine only what
\* has run: what they do to the journal is a behaviour of the journal.
THEOREM ChangesUseJournal == Spec => JournalSpec
<1>1. Init => JournalInit BY DEF Init
<1>2. ChangeInv /\ [Next]_vars => [JournalNext]_journalVars
  <2> SUFFICES ASSUME ChangeInv, [Next]_vars PROVE [JournalNext]_journalVars OBVIOUS
  <2>1. CASE UNCHANGED vars BY <2>1 DEF vars
  <2>2. ASSUME NEW o \in Process, Change(o) PROVE [JournalNext]_journalVars
    BY <2>2, ChangeIsJournal
  <2>3. CASE Upkeep BY <2>3 DEF Upkeep, JournalNext
  <2>4. QED BY <2>1, <2>2, <2>3 DEF Next
<1>3. QED BY <1>1, <1>2, ChangeSafe, PTL DEF Spec, JournalSpec

\* The commands keep to what an update of the context store does, whatever they are
\* asked for, so that all that holds of the store holds of the file they share; the
\* contents of the store are the configurations.
THEOREM ChangesUseStore == ASSUME Config \subseteq Contents PROVE Spec => StoreSpec
<1>1. Init => StoreInit BY ControlAssumption DEF Init, StoreInit
<1>2. ChangeInv /\ [Next]_vars => [StoreNext]_storeVars
  <2> SUFFICES ASSUME ChangeInv, [Next]_vars PROVE [StoreNext]_storeVars OBVIOUS
  <2>1. CASE UNCHANGED vars BY <2>1 DEF vars
  <2>2. CASE Upkeep BY <2>2 DEF Upkeep
  <2>3. ASSUME NEW o \in Process, Change(o) PROVE [StoreNext]_storeVars
    <3>1. CASE at[o] = "save" /\ Replace(o, Edited(o, loaded[o]))
      <4>1. loaded[o] = file.contents /\ Allowed(o, loaded[o])
        BY <3>1 DEF ChangeInv, StoreInv, NothingLost, Replace, DecidedAllowed, Decided
      <4>2. Edited(o, loaded[o]) \in Contents
        BY <4>1, EditedType DEF ChangeInv, Progress
      <4>3. QED BY <3>1, <4>2 DEF StoreNext
    <3>2. CASE ~(at[o] = "save" /\ Replace(o, Edited(o, loaded[o])))
      BY <2>3, <3>2, StoreStep DEF StoreNext
    <3>3. QED BY <3>1, <3>2
  <2>4. QED BY <2>1, <2>2, <2>3 DEF Next
<1>3. QED BY <1>1, <1>2, ChangeSafe, PTL DEF Spec, StoreSpec
-----------------------------------------------------------------------------
(* The secrets.                                                             *)

\* What a context keeps as a credential: a secret, a reference, or nothing.
Value(contents, k) ==
  LET item == contents.contexts[k[1]] IN IF item = Nothing THEN Nothing ELSE item.credential[k[2]]

\* Hypotheses on what is asked for.  All commands store secrets in one backend.
OneBackend(b) ==
  \A o \in Process : \A r \in Requests[o] : r.kind \in {"set", "migrate"} => r.backend = b

\* No command brings a reference of its own, which might be to nothing.  An import
\* then has no credentials at all, as the code refuses plain ones.
NoReferences ==
  \A o \in Process : \A r \in Requests[o] : \A s \in Slot :
    /\ r.kind = "set" => r.item.credential[s] \notin Backend
    /\ r.kind = "import" => r.item.credential[s] = Nothing

\* The secrets that ctx set is given are new.
NewSecrets ==
  \A o \in Process : \A r \in Requests[o] : \A s \in Slot :
    LET given == r.item.credential[s]
    IN r.kind = "set" /\ given \in Secret =>
         /\ given # Stored
         /\ \A start \in Initial, n \in Name : Value(start.contents, <<n, s>>) # given
         /\ \A p \in Process \ {o} : \A q \in Requests[p] :
              q.kind = "set" => q.item.credential[s] # given

AsRequested == \A o \in Process : request[o] \in Requests[o]

\* The keys that a command is there to store.
Wanted(o) ==
  CASE Kind(o) = "set" -> GivenKeys(o)
    [] Kind(o) = "migrate" -> {k \in Key : Seen(o, k) # Nothing}
    [] OTHER -> {}

\* The local variables of a command that is under way.
JobShape ==
  \A o \in Process :
    /\ at[o] \in {"start", "resolve", "backup"} => Kind(o) = "migrate"
    /\ at[o] = "backupSet" => Kind(o) = "set"
    /\ at[o] \notin {"start", "done"} =>
         /\ job[o].keys = Wanted(o)
         /\ job[o].todo \subseteq job[o].keys
         /\ at[o] \in {"update", "begin"} => job[o].todo = job[o].keys
         /\ Kind(o) = "set" =>
              \A k \in job[o].keys : job[o].held[k] = request[o].item.credential[k[2]]

\* The keys that have been visited at a step, or by its end.
Visited(o, step, later) ==
  IF at[o] = step THEN job[o].keys \ job[o].todo ELSE IF at[o] \in later THEN job[o].keys ELSE {}

\* A secret to be stored is there.
HeldIsThere ==
  \A o \in Process :
    \A k \in Visited(o, "resolve", {"backup", "update", "begin", "backupSet", "put", "save"}) :
      job[o].held[k] # Nothing

\* A context that was seen to refer to b and does not so now refers to nothing,
\* since nobody makes it anything but a reference to b.
OnlyTowards(b) ==
  \A o \in Process, k \in Key :
    Seen(o, k) = b => Value(file.contents, k) \in {Nothing, b}

SeenResolves ==
  \A o \in Process, k \in Key :
    Seen(o, k) \in Backend => store[Seen(o, k)][k] # Nothing

ValuesResolve ==
  \A k \in Key :
    LET value == Value(file.contents, k) IN value \in Backend => store[value][k] # Nothing

\* A command that found nothing to replace may delete what it stored: nobody
\* refers to it.
SetMayDelete(b) ==
  \A o \in Process : \A k \in Visited(o, "backupSet", {"put", "rollback"}) :
    Kind(o) = "set" /\ job[o].previous[k] = Nothing =>
      Value(file.contents, k) # b /\ \A q \in Process : Seen(q, k) # b

MigrationMayDelete(b) ==
  \A o \in Process : \A k \in Visited(o, "backup", {"update", "begin", "put", "rollback"}) :
    Kind(o) = "migrate" /\ job[o].previous[k] = Nothing => Seen(o, k) # b

\* What a command has stored is what it had in hand, until it saves its references.
StoredIsHeld ==
  \A o \in Process : \A k \in Visited(o, "put", {"save"}) :
    store[request[o].backend][k] = job[o].held[k]

ReferenceInv(b) ==
  /\ JobShape
  /\ HeldIsThere
  /\ OnlyTowards(b)
  /\ SeenResolves
  /\ ValuesResolve
  /\ SetMayDelete(b)
  /\ MigrationMayDelete(b)
  /\ StoredIsHeld

\* Wherever a credential is kept, or carried, but for what the processes outside P
\* have in hand to store.
Copies(k, P) ==
  {Value(file.contents, k)} \cup {store[c][k] : c \in Backend} \cup {job[o].held[k] : o \in P}
    \cup UNION {{Seen(o, k), job[o].previous[k]} : o \in Process}

\* What a migration carries of a secret that it saw in the file is that secret.
PlainIsHeld ==
  \A o \in Process : Kind(o) = "migrate" =>
    \A k \in Visited(o, "resolve", {"backup", "update", "begin", "put", "save"}) :
      Seen(o, k) \notin Backend => job[o].held[k] = Seen(o, k)

MoveInv ==
  /\ JobShape
  /\ AsRequested
  /\ PlainIsHeld
  /\ StoredIsHeld

\* The secret of a ctx set is nowhere else before it is stored.
NotYetKnown ==
  \A o \in Process : Kind(o) = "set" /\ at[o] \in {"update", "begin", "backupSet"} =>
    \A k \in job[o].keys : job[o].held[k] \notin Copies(k, Process \ {o})

\* While ctx set stores and compensates, what it has not stored is unknown to the
\* backend, and what it has undone is again.
Undone ==
  \A o \in Process : Kind(o) = "set" =>
    /\ at[o] \in {"put", "rollback"} => \A k \in job[o].keys : job[o].previous[k] # job[o].held[k]
    /\ at[o] = "put" => \A k \in job[o].todo : store[request[o].backend][k] # job[o].held[k]
    /\ at[o] = "rollback" /\ status[o] # "uncertain" =>
         \A k \in job[o].keys \ job[o].todo : store[request[o].backend][k] # job[o].held[k]

\* A command is inside only between its opening of the file and its outcome.
EndsOutside ==
  \A o \in Process :
    at[o] \in {"start", "resolve", "backup", "finish", "doubt", "done"} => stage[o] # "inside"

-----------------------------------------------------------------------------
(* What each step of a command does to its job, the file and the backends.  *)

\* One key has been visited; with the last one the command goes on to `step'.
Moves(o, k, step) ==
  /\ job'[o].keys = job[o].keys
  /\ job'[o].snapshot = job[o].snapshot
  /\ \/ job[o].todo \subseteq {k} /\ job'[o].todo = job[o].keys /\ at'[o] = step
     \/ job'[o].todo = job[o].todo \ {k} /\ at'[o] = at[o]

Ends(o) == at'[o] = "done" /\ job'[o] = NoJob /\ UNCHANGED <<file, store>>

Proceeds(o) ==
  /\ UNCHANGED <<file, store>>
  /\ job'[o] = job[o]
  /\ \/ at[o] = "update" /\ at'[o] \in {"update", "begin"}
     \/ at[o] = "begin" /\ at'[o] = AfterIntent(o)
     \/ at[o] \in {"backupSet", "save", "finish"} /\ at'[o] \in {"finish", "doubt"}
  /\ at[o] = "save" => status'[o] = Unclear(o)

Sees(o) ==
  /\ UNCHANGED <<file, store>>
  /\ at[o] = "start" /\ at'[o] = "resolve"
  /\ job'[o].todo = job'[o].keys
  /\ job'[o].held = NoJob.held /\ job'[o].previous = NoJob.previous
  /\ \A k \in Key : /\ Seen(o, k)' \in {Nothing, Value(file.contents, k)}
                    /\ k \in job'[o].keys <=> Seen(o, k)' # Nothing
                    /\ Seen(o, k)' # Nothing => k[1] \in request[o].names

Resolves(o, k) ==
  /\ UNCHANGED <<file, store>>
  /\ at[o] = "resolve"
  /\ Moves(o, k, "backup")
  /\ job'[o].previous = job[o].previous
  /\ LET secret == IF Seen(o, k) \in Backend THEN store[Seen(o, k)][k] ELSE Seen(o, k)
     IN secret # Nothing /\ job'[o].held = [job[o].held EXCEPT ![k] = secret]

LooksUp(o, k) ==
  /\ UNCHANGED <<file, store>>
  /\ \/ at[o] = "backup" /\ Moves(o, k, "update")
     \/ at[o] = "backupSet" /\ Moves(o, k, "put")
  /\ job'[o].held = job[o].held
  /\ job'[o].previous = [job[o].previous EXCEPT ![k] = store[request[o].backend][k]]

Stores(o, k, secret) == store' = [store EXCEPT ![request[o].backend][k] = secret]

Writes(o, k) ==
  /\ UNCHANGED file
  /\ at[o] = "put"
  /\ Moves(o, k, "save")
  /\ job'[o].held = job[o].held /\ job'[o].previous = job[o].previous
  /\ Stores(o, k, job[o].held[k])

WriteFails(o, k) ==
  /\ UNCHANGED <<file, status>>
  /\ at[o] = "put" /\ at'[o] = "rollback"
  /\ job'[o] = [job[o] EXCEPT !.todo = (job[o].keys \ job[o].todo) \cup {k}]
  /\ Stores(o, k, job[o].held[k]) \/ UNCHANGED store

Undoes(o, k) ==
  /\ UNCHANGED file
  /\ at[o] = "rollback"
  /\ job'[o] = [job[o] EXCEPT !.todo = job[o].todo \ {k}]
  /\ \/ at'[o] = "rollback" /\ job[o].todo # {k}
     \/ at'[o] = "finish" /\ job[o].todo = {k}
  /\ Stores(o, k, job[o].previous[k]) \/ UNCHANGED store
  /\ status'[o] # "uncertain" => Stores(o, k, job[o].previous[k]) /\ status[o] # "uncertain"

Saves(o) ==
  /\ UNCHANGED store
  /\ at[o] = "save" /\ at'[o] = "finish"
  /\ job'[o] = job[o]
  /\ file'.contents = Edited(o, file.contents)
  /\ Allowed(o, file.contents)
  /\ status'[o] \in {"succeeded", Unclear(o)}

LEMMA VisitMoves ==
  ASSUME Progress, NEW o \in Process, NEW k \in job[o].todo, NEW found \in Job, NEW step,
         Visit(o, k, found, step),
         found.keys = job[o].keys, found.todo = job[o].todo, found.snapshot = job[o].snapshot
  PROVE  Moves(o, k, step) /\ job'[o].held = found.held /\ job'[o].previous = found.previous
<1> DEFINE rest == found.todo \ {k}
           next == [found EXCEPT !.todo = IF rest = {} THEN found.keys ELSE rest]
<1>1. job'[o] = next BY DEF Visit, Progress
<1>2. /\ next.keys = found.keys /\ next.snapshot = found.snapshot
      /\ next.held = found.held /\ next.previous = found.previous
      /\ next.todo = IF rest = {} THEN found.keys ELSE rest
  BY DEF Job
<1> HIDE DEF next
<1>3. rest = {} => at'[o] = step BY DEF Visit, Go, Progress
<1>4. rest # {} => at'[o] = at[o] BY DEF Visit, Go, Progress
<1>5. QED BY <1>1, <1>2, <1>3, <1>4 DEF Moves

LEMMA HeldMoves ==
  ASSUME Progress, NEW o \in Process, NEW k \in job[o].todo, NEW secret \in Secret \cup {Nothing},
         NEW step, Visit(o, k, [job[o] EXCEPT !.held[k] = secret], step)
  PROVE  /\ Moves(o, k, step) /\ job'[o].previous = job[o].previous
         /\ job'[o].held = [job[o].held EXCEPT ![k] = secret]
<1> DEFINE found == [job[o] EXCEPT !.held[k] = secret]
<1>1. found \in Job
  <2>1. job[o] \in Job /\ k \in Key BY DEF Progress, Job
  <2>2. [job[o].held EXCEPT ![k] = secret] \in Secrets BY <2>1 DEF Job, Secrets
  <2>3. QED BY <2>1, <2>2 DEF Job
<1>2. /\ found.keys = job[o].keys /\ found.todo = job[o].todo
      /\ found.snapshot = job[o].snapshot /\ found.previous = job[o].previous
      /\ found.held = [job[o].held EXCEPT ![k] = secret]
  BY DEF Progress, Job
<1> HIDE DEF found
<1>3. Visit(o, k, found, step) BY DEF found
<1>4. QED BY <1>1, <1>2, <1>3, VisitMoves

LEMMA PreviousMoves ==
  ASSUME Progress, NEW o \in Process, NEW k \in job[o].todo, NEW step,
         Visit(o, k, [job[o] EXCEPT !.previous[k] = store[request[o].backend][k]], step)
  PROVE  /\ Moves(o, k, step) /\ job'[o].held = job[o].held
         /\ job'[o].previous = [job[o].previous EXCEPT ![k] = store[request[o].backend][k]]
<1> DEFINE secret == store[request[o].backend][k]
           found == [job[o] EXCEPT !.previous[k] = secret]
<1>1. k \in Key /\ secret \in Secret \cup {Nothing}
  BY DEF Progress, RequestsOK, Request, Job, Secrets
<1> HIDE DEF secret
<1>2. found \in Job
  <2>1. job[o] \in Job BY DEF Progress
  <2>2. [job[o].previous EXCEPT ![k] = secret] \in Secrets BY <1>1, <2>1 DEF Job, Secrets
  <2>3. QED BY <2>1, <2>2 DEF Job
<1>3. /\ found.keys = job[o].keys /\ found.todo = job[o].todo
      /\ found.snapshot = job[o].snapshot /\ found.held = job[o].held
      /\ found.previous = [job[o].previous EXCEPT ![k] = secret]
  BY DEF Progress, Job
<1> HIDE DEF found
<1>4. Visit(o, k, found, step) BY DEF found, secret
<1>5. QED BY <1>2, <1>3, <1>4, VisitMoves DEF secret

LEMMA SnapshotSees ==
  ASSUME ChangeInv, NEW o \in Process, Snapshot(o) PROVE Ends(o) \/ Sees(o)
<1> USE DEF ChangeInv, Progress
<1> DEFINE contexts == file.contents.contexts
           found == {n \in request[o].names :
                       contexts[n] # Nothing /\ Credentials(contexts[n]) # {}}
           keys == {k \in found \X Slot : k[2] \in Credentials(contexts[k[1]])}
           seen == [n \in found |-> contexts[n]]
           new == [NoJob EXCEPT !.keys = keys, !.todo = keys, !.snapshot = seen]
<1>1. UNCHANGED <<file, store>> BY DEF Snapshot, storeVars
<1>2. CASE Answer(o, "ok") \/ Answer(o, "refused") BY <1>1, <1>2 DEF Answer, Ends
<1>3. CASE job' = [job EXCEPT ![o] = new] /\ Go(o, "resolve") /\ at[o] = "start"
  <2>1. /\ new.keys = keys /\ new.todo = keys /\ new.snapshot = seen
        /\ new.held = NoJob.held /\ new.previous = NoJob.previous
    BY NoJobType DEF Job
  <2>2. DOMAIN seen = found /\ \A n \in found : seen[n] = contexts[n] OBVIOUS
  <2>3. found \subseteq Name BY DEF RequestsOK, Request
  <2>4. \A k \in Key : k \in keys <=> k[1] \in found /\ contexts[k[1]].credential[k[2]] # Nothing
    BY DEF Key, Credentials
  <2>5. \A k \in Key : (IF k[1] \in found THEN contexts[k[1]].credential[k[2]] ELSE Nothing)
                         \in {Nothing, Value(file.contents, k)}
    BY DEF Value
  <2> HIDE DEF new, keys, seen
  <2>6. job'[o] = new BY <1>3
  <2>7. \A k \in Key : Seen(o, k)' =
          IF k[1] \in found THEN contexts[k[1]].credential[k[2]] ELSE Nothing
    BY <2>1, <2>2, <2>6 DEF Seen
  <2>9. found \subseteq request[o].names OBVIOUS
  <2> HIDE DEF found, contexts
  <2>8. QED BY <1>1, <1>3, <2>1, <2>4, <2>5, <2>6, <2>7, <2>9 DEF Sees, Go
<1>4. QED BY <1>2, <1>3 DEF Snapshot

LEMMA ResolveResolves ==
  ASSUME ChangeInv, NEW o \in Process, Resolve(o)
  PROVE  Ends(o) \/ \E k \in job[o].todo : Resolves(o, k)
<1>0. Progress /\ KeysSeen BY DEF ChangeInv
<1>1. UNCHANGED <<file, store>> BY DEF Resolve, storeVars
<1>2. CASE Answer(o, "refused") BY <1>0, <1>1, <1>2 DEF Progress, Answer, Ends
<1>3. ASSUME NEW k \in job[o].todo, NEW found, NEW secret, at[o] = "resolve",
             found = job[o].snapshot[k[1]].credential[k[2]],
             secret = IF found \in Backend THEN store[found][k] ELSE found,
             secret # Nothing, Visit(o, k, [job[o] EXCEPT !.held[k] = secret], "backup")
      PROVE  Resolves(o, k)
  <2>1. k \in Key /\ k[2] \in Slot BY <1>0 DEF Progress, Job, Key
  <2>2. k[1] \in DOMAIN job[o].snapshot BY <1>0, <1>3 DEF KeysSeen
  <2>3. Seen(o, k) = found BY <1>3, <2>2 DEF Seen
  <2>4. job[o].snapshot[k[1]] \in Item BY <1>0, <2>2 DEF Progress, Job
  <2>5. found \in Secret \cup Backend \cup {Nothing} BY <1>3, <2>1, <2>4 DEF Item
  <2>6. secret \in Secret \cup {Nothing}
    <3>1. CASE found \in Backend
      <4>1. store[found] \in Secrets BY <1>0, <3>1 DEF Progress
      <4>2. secret = store[found][k] BY <1>3, <3>1
      <4>3. QED BY <2>1, <4>1, <4>2 DEF Secrets
    <3>2. CASE found \notin Backend BY <1>3, <2>5, <3>2
    <3>3. QED BY <3>1, <3>2
  <2>7. /\ Moves(o, k, "backup") /\ job'[o].previous = job[o].previous
        /\ job'[o].held = [job[o].held EXCEPT ![k] = secret]
    <3>1. Visit(o, k, [job[o] EXCEPT !.held[k] = secret], "backup") BY <1>3
    <3>2. Progress BY <1>0
    <3>3. QED BY ONLY <3>1, <3>2, <2>6, HeldMoves, o \in Process, k \in job[o].todo
  <2>8. QED BY <1>1, <1>3, <2>3, <2>7 DEF Resolves
<1>4. QED BY <1>2, <1>3 DEF Resolve

LEMMA BackupLooksUp ==
  ASSUME ChangeInv, NEW o \in Process, BackupMigration(o) \/ BackupSet(o)
  PROVE  Ends(o) \/ Proceeds(o) \/ \E k \in job[o].todo : LooksUp(o, k)
<1>0. Progress BY DEF ChangeInv
<1>1. UNCHANGED store BY DEF BackupMigration, BackupSet
<1>2. UNCHANGED file BY DEF BackupMigration, BackupSet, Fail, Reject, storeVars
<1>3. CASE Answer(o, "refused") BY <1>0, <1>1, <1>2, <1>3 DEF Progress, Answer, Ends
<1>4. CASE at[o] = "backupSet" /\ Fail(o, "failed") /\ UNCHANGED job
  BY <1>0, <1>1, <1>2, <1>4 DEF Progress, Fail, Go, Proceeds
<1>5. ASSUME NEW k \in job[o].todo, NEW step,
             \/ at[o] = "backup" /\ step = "update"
             \/ at[o] = "backupSet" /\ step = "put",
             Visit(o, k, [job[o] EXCEPT !.previous[k] = store[request[o].backend][k]], step)
      PROVE  LooksUp(o, k)
  <2>1. /\ Moves(o, k, step) /\ job'[o].held = job[o].held
        /\ job'[o].previous = [job[o].previous EXCEPT ![k] = store[request[o].backend][k]]
    BY ONLY <1>0, <1>5, PreviousMoves, o \in Process, k \in job[o].todo
  <2>2. QED BY <1>1, <1>2, <1>5, <2>1 DEF LooksUp
<1>6. CASE BackupMigration(o) BY <1>3, <1>5, <1>6 DEF BackupMigration
<1>7. CASE BackupSet(o) BY <1>4, <1>5, <1>7 DEF BackupSet
<1>8. QED BY <1>6, <1>7

LEMMA PutWrites ==
  ASSUME ChangeInv, NEW o \in Process, Put(o)
  PROVE  \E k \in job[o].todo : Writes(o, k) \/ WriteFails(o, k)
<1>0. Progress BY DEF ChangeInv
<1>1. at[o] = "put" /\ UNCHANGED <<file, status>> BY DEF Put, storeVars
<1>2. ASSUME NEW k \in job[o].todo, Visit(o, k, job[o], "save"),
             store' = [store EXCEPT ![request[o].backend][k] = job[o].held[k]]
      PROVE  Writes(o, k)
  <2>1. job[o] \in Job BY <1>0 DEF Progress
  <2>2. Moves(o, k, "save") /\ job'[o].held = job[o].held /\ job'[o].previous = job[o].previous
    BY ONLY <1>0, <1>2, <2>1, VisitMoves, o \in Process, k \in job[o].todo
  <2>3. QED BY <1>1, <1>2, <2>2 DEF Writes, Stores
<1>3. ASSUME NEW k \in job[o].todo, Go(o, "rollback"),
             job' = [job EXCEPT ![o].todo = (job[o].keys \ job[o].todo) \cup {k}],
             \/ store' = [store EXCEPT ![request[o].backend][k] = job[o].held[k]]
             \/ UNCHANGED store
      PROVE  WriteFails(o, k)
  BY <1>0, <1>1, <1>3 DEF Progress, WriteFails, Stores, Go
<1>4. QED BY <1>2, <1>3 DEF Put

LEMMA RollbackUndoes ==
  ASSUME ChangeInv, NEW o \in Process, Rollback(o)
  PROVE  \E k \in job[o].todo : Undoes(o, k)
<1>0. Progress BY DEF ChangeInv
<1>1. PICK k \in job[o].todo, undone \in BOOLEAN :
        LET rest == job[o].todo \ {k}
            now  == IF undone /\ status[o] # "uncertain" THEN "failed" ELSE "uncertain"
        IN /\ IF undone THEN store' = [store EXCEPT ![request[o].backend][k] = Former(o, k)]
                        ELSE UNCHANGED store
           /\ job' = [job EXCEPT ![o].todo = rest]
           /\ IF rest = {}
                THEN Fail(o, now)
                ELSE /\ status' = [status EXCEPT ![o] = now]
                     /\ UNCHANGED <<at, reply, storeVars>>
  BY DEF Rollback
<1>2. at[o] = "rollback" BY DEF Rollback
<1>3. UNCHANGED file BY <1>1 DEF Fail, Reject, storeVars
<1>4. job'[o] = [job[o] EXCEPT !.todo = job[o].todo \ {k}] BY <1>0, <1>1 DEF Progress
<1>5. \/ at'[o] = "rollback" /\ job[o].todo # {k}
      \/ at'[o] = "finish" /\ job[o].todo = {k}
  <2>1. job[o].todo \ {k} = {} <=> job[o].todo = {k} OBVIOUS
  <2>2. QED BY <1>0, <1>1, <1>2, <2>1 DEF Progress, Fail, Go
<1>6. undone => Stores(o, k, job[o].previous[k]) BY <1>1 DEF Stores, Former
<1>7. ~undone => UNCHANGED store BY <1>1
<1>8. status'[o] = IF undone /\ status[o] # "uncertain" THEN "failed" ELSE "uncertain"
  BY <1>0, <1>1 DEF Progress, Fail
<1>9. QED BY <1>2, <1>3, <1>4, <1>5, <1>6, <1>7, <1>8 DEF Undoes

LEMMA SaveSaves ==
  ASSUME ChangeInv, NEW o \in Process, Save(o) PROVE Proceeds(o) \/ Saves(o)
<1>0. Progress BY DEF ChangeInv
<1>1. at[o] = "save" /\ at'[o] = "finish" /\ job'[o] = job[o] /\ UNCHANGED store
  BY <1>0 DEF Save, Go, Progress
<1>2. status'[o] \in {"succeeded", Unclear(o)}
  BY <1>0 DEF Save, Progress
<1>5. CASE Reject(o) /\ status' = [status EXCEPT ![o] = Unclear(o)]
  BY <1>0, <1>1, <1>5 DEF Progress, Reject, Proceeds
<1>3. CASE Replace(o, Edited(o, loaded[o]))
  <2>1. loaded[o] = file.contents
    BY <1>3 DEF Replace, ChangeInv, StoreInv, NothingLost
  <2>2. Allowed(o, file.contents)
    BY <1>1, <2>1 DEF ChangeInv, DecidedAllowed, Decided
  <2>3. file'.contents = Edited(o, file.contents) BY <1>3, <2>1 DEF Replace
  <2>4. QED BY <1>1, <1>2, <2>2, <2>3 DEF Saves
<1>4. QED BY <1>3, <1>5 DEF Save

\* Each step of a command is one of these.
LEMMA StepEffect ==
  ASSUME ChangeInv, NEW o \in Process, Change(o)
  PROVE  \/ Ends(o) \/ Proceeds(o) \/ Sees(o) \/ Saves(o)
         \/ \E k \in job[o].todo :
              Resolves(o, k) \/ LooksUp(o, k) \/ Writes(o, k) \/ WriteFails(o, k) \/ Undoes(o, k)
<1>0. Progress BY DEF ChangeInv
<1>1. CASE Snapshot(o) BY <1>1, SnapshotSees
<1>2. CASE Resolve(o) BY <1>2, ResolveResolves
<1>3. CASE BackupMigration(o) \/ BackupSet(o) BY <1>3, BackupLooksUp
<1>4. CASE Put(o) BY <1>4, PutWrites
<1>5. CASE Rollback(o) BY <1>5, RollbackUndoes
<1>6. CASE Save(o) BY <1>6, SaveSaves
<1>7. CASE Open(o) \/ CannotOpen(o)
  <2>1. UNCHANGED <<file, store>>
    BY <1>7 DEF Open, CannotOpen, Peek, EnterLegacy, EnterCore, Enter, GiveUp, changeVars
  <2>2. (at[o] = "update" /\ UNCHANGED <<at, job>>) \/ Answer(o, "refused")
    BY <1>7 DEF Open, CannotOpen, changeVars
  <2>3. QED BY <1>0, <2>1, <2>2 DEF Progress, Answer, Ends, Proceeds
<1>8. CASE Permit(o) \/ Begin(o)
  <2>1. UNCHANGED <<file, store>> BY <1>8 DEF Permit, Begin, Reject, storeVars
  <2>2. \/ Answer(o, "refused")
        \/ at[o] = "update" /\ Go(o, "begin") /\ UNCHANGED job
        \/ at[o] = "begin" /\ Go(o, AfterIntent(o)) /\ UNCHANGED job
    BY <1>8 DEF Permit, Begin
  <2>3. QED BY <1>0, <2>1, <2>2 DEF Progress, Answer, Ends, Proceeds, Go
<1>9. CASE Finish(o) \/ Mark(o) \/ Die(o)
  <2>1. UNCHANGED <<file, store>> BY <1>9 DEF Finish, Mark, Die, Abandon, storeVars
  <2>2. (\E answer : Answer(o, answer)) \/ (at[o] = "finish" /\ Go(o, "doubt") /\ UNCHANGED job)
    BY <1>9 DEF Finish, Mark, Die
  <2>3. QED BY <1>0, <2>1, <2>2 DEF Progress, Answer, Ends, Proceeds, Go
<1>10. QED BY <1>1, <1>2, <1>3, <1>4, <1>5, <1>6, <1>7, <1>8, <1>9 DEF Change

-----------------------------------------------------------------------------
(* The local variables.                                                     *)

LEMMA SeenStays ==
  ASSUME NEW q \in Process, UNCHANGED request, job'[q].snapshot = job[q].snapshot
  PROVE  /\ Kind(q)' = Kind(q) /\ Wanted(q)' = Wanted(q)
         /\ \A k \in Key : Seen(q, k)' = Seen(q, k)
BY DEF Kind, Target, GivenKeys, Seen, Wanted

LEMMA NoJobSees ==
  ASSUME NEW o \in Process, job'[o] = NoJob
  PROVE  \A k \in Key : Seen(o, k)' = Nothing
BY NoJobType DEF NoJob, Seen

LEMMA GivenIsSecret ==
  ASSUME Progress, NEW o \in Process
  PROVE  /\ GivenKeys(o) \subseteq Key
         /\ \A k \in GivenKeys(o) : request[o].item.credential[k[2]] \in Secret
<1>1. CASE Kind(o) = "set"
  <2>1. Target(o) \in Name BY <1>1, TargetInName DEF Progress
  <2>2. QED BY <1>1, <2>1 DEF GivenKeys, Key
<1>2. CASE Kind(o) # "set" BY <1>2 DEF GivenKeys
<1>3. QED BY <1>1, <1>2

LEMMA ShapeInitially == Init => JobShape
<1> SUFFICES ASSUME Init, NEW o \in Process
             PROVE  /\ at[o] \in {"start", "update"}
                    /\ at[o] = "start" => Kind(o) = "migrate"
                    /\ at[o] = "update" =>
                         /\ job[o].keys = Wanted(o)
                         /\ job[o].todo \subseteq job[o].keys
                         /\ job[o].todo = job[o].keys
                         /\ Kind(o) = "set" => \A k \in job[o].keys :
                              job[o].held[k] = request[o].item.credential[k[2]]
  BY DEF JobShape
<1>1. at[o] = IF Kind(o) = "migrate" THEN "start" ELSE "update" BY DEF Init
<1>2. Progress BY InitHolds DEF ChangeInv
<1>3. job[o] = FirstJob(o) BY DEF Init
<1>4. /\ FirstJob(o).keys = GivenKeys(o) /\ FirstJob(o).todo = GivenKeys(o)
      /\ FirstJob(o).held = [k \in Key |-> IF k \in GivenKeys(o)
                               THEN request[o].item.credential[k[2]] ELSE Nothing]
  BY NoJobType DEF FirstJob, Job
<1>5. GivenKeys(o) \subseteq Key BY <1>2, GivenIsSecret
<1>6. Kind(o) # "migrate" => Wanted(o) = GivenKeys(o) BY DEF Wanted, GivenKeys
<1>7. QED BY <1>1, <1>3, <1>4, <1>5, <1>6

LEMMA ShapeKept ==
  ASSUME ChangeInv, JobShape, NEW o \in Process, Change(o), UNCHANGED request
  PROVE  JobShape'
<1>1. Progress /\ Progress' BY ProgressKept DEF ChangeInv
<1> DEFINE Shape(q) ==
      /\ at[q] \in {"start", "resolve", "backup"} => Kind(q) = "migrate"
      /\ at[q] = "backupSet" => Kind(q) = "set"
      /\ at[q] \notin {"start", "done"} =>
           /\ job[q].keys = Wanted(q)
           /\ job[q].todo \subseteq job[q].keys
           /\ at[q] \in {"update", "begin"} => job[q].todo = job[q].keys
           /\ Kind(q) = "set" =>
                \A k \in job[q].keys : job[q].held[k] = request[q].item.credential[k[2]]
<1>2. \A q \in Process : Shape(q) BY DEF JobShape
<1>3. ASSUME NEW q \in Process, q # o PROVE Shape(q)'
  <2>1. at'[q] = at[q] /\ job'[q] = job[q] BY <1>3, Frame DEF ChangeInv
  <2>2. Kind(q)' = Kind(q) /\ Wanted(q)' = Wanted(q) BY <2>1, SeenStays
  <2>3. QED BY <1>2, <2>1, <2>2
<1>4. Shape(o)'
  <2>0. job[o] \in Job /\ job'[o] \in Job /\ Kind(o)' = Kind(o) BY <1>1 DEF Progress, Kind
  <2>1. CASE Ends(o) BY <2>1 DEF Ends
  <2>2. CASE Proceeds(o)
    <3>1. Kind(o)' = Kind(o) /\ Wanted(o)' = Wanted(o) /\ job'[o] = job[o]
      BY <2>2, SeenStays DEF Proceeds
    <3>2. at'[o] \in {"update", "begin", "save", "backupSet", "put", "finish", "doubt"}
          /\ (at'[o] = "backupSet" => Kind(o) = "set") /\ at[o] \notin {"start", "done"}
          /\ (at'[o] \in {"update", "begin"} => at[o] = "update")
      BY <2>2 DEF Proceeds, AfterIntent
    <3>3. QED BY <1>2, <3>1, <3>2
  <2>3. CASE Sees(o)
    <3>1. Kind(o) = "migrate" /\ at'[o] = "resolve" BY <1>2, <2>3 DEF Sees
    <3>2. Wanted(o)' = {k \in Key : Seen(o, k)' # Nothing} BY <2>0, <3>1 DEF Wanted
    <3>3. job'[o].keys = Wanted(o)' BY <2>0, <2>3, <3>2 DEF Sees, Job
    <3>4. job'[o].todo = job'[o].keys BY <2>3 DEF Sees
    <3>5. QED BY <2>0, <3>1, <3>3, <3>4
  <2>4. CASE Saves(o)
    <3>1. Kind(o)' = Kind(o) /\ Wanted(o)' = Wanted(o) /\ job'[o] = job[o]
      BY <2>4, SeenStays DEF Saves
    <3>2. at[o] = "save" /\ at'[o] = "finish" BY <2>4 DEF Saves
    <3>3. QED BY <1>2, <3>1, <3>2
  <2>5. ASSUME NEW k \in job[o].todo, NEW step, Moves(o, k, step),
               \/ at[o] = "resolve" /\ step = "backup"
               \/ at[o] = "backup" /\ step = "update"
               \/ at[o] = "backupSet" /\ step = "put"
               \/ at[o] = "put" /\ step = "save",
               at[o] # "resolve" => job'[o].held = job[o].held
        PROVE  Shape(o)'
    <3>1. Kind(o)' = Kind(o) /\ Wanted(o)' = Wanted(o) /\ job'[o].keys = job[o].keys
      BY <2>5, SeenStays DEF Moves
    <3>2. \/ job'[o].todo = job[o].keys /\ at'[o] = step
          \/ job'[o].todo = job[o].todo \ {k} /\ at'[o] = at[o]
      BY <2>5 DEF Moves
    <3>3. at[o] = "resolve" => Kind(o) = "migrate" BY <1>2
    <3>4. QED BY <1>2, <2>5, <3>1, <3>2, <3>3
  <2>6. ASSUME NEW k \in job[o].todo,
               Resolves(o, k) \/ LooksUp(o, k) \/ Writes(o, k)
        PROVE  Shape(o)'
    BY <2>5, <2>6 DEF Resolves, LooksUp, Writes
  <2>7. ASSUME NEW k \in job[o].todo, WriteFails(o, k) \/ Undoes(o, k)
        PROVE  Shape(o)'
    <3>1. /\ job'[o].keys = job[o].keys /\ job'[o].snapshot = job[o].snapshot
          /\ job'[o].held = job[o].held
          /\ job'[o].todo \subseteq job[o].keys \cup job[o].todo
      BY <2>0, <2>7 DEF WriteFails, Undoes, Job
    <3>2. Kind(o)' = Kind(o) /\ Wanted(o)' = Wanted(o) BY <3>1, SeenStays
    <3>3. at[o] \in {"put", "rollback"} /\ at'[o] \in {"rollback", "finish"}
      BY <2>7 DEF WriteFails, Undoes
    <3>4. QED BY <1>2, <3>1, <3>2, <3>3
  <2>8. QED BY <2>1, <2>2, <2>3, <2>4, <2>6, <2>7, StepEffect
<1>5. QED BY <1>3, <1>4 DEF JobShape

\* Only these two kinds of commands store anything, each in its backend.
LEMMA StoringBackend ==
  ASSUME ChangeInv, JobShape, AsRequested, NEW b \in Backend, OneBackend(b), NEW o \in Process,
         at[o] \notin {"start", "done"}, NEW k \in job[o].keys
  PROVE  /\ request[o].backend = b /\ Kind(o) \in {"set", "migrate"} /\ k \in Key
<1>1. k \in Wanted(o) BY DEF JobShape
<1>2. Kind(o) \in {"set", "migrate"} BY <1>1 DEF Wanted
<1>3. k \in Key BY DEF ChangeInv, Progress, Job
<1>4. QED BY <1>2, <1>3 DEF OneBackend, AsRequested, Kind

-----------------------------------------------------------------------------
(* References.                                                              *)

\* What an update makes of a credential: it stays, goes, or is one of those that
\* the command has stored.
LEMMA EditedValue ==
  ASSUME ChangeInv, JobShape, AsRequested, NEW o \in Process, at[o] = "save",
         Allowed(o, file.contents), NEW k \in Key
  PROVE  LET old == Value(file.contents, k)
             new == Value(Edited(o, file.contents), k)
         IN /\ new \in {old, Nothing} \cup Backend
            /\ NoReferences => new \in {old, Nothing}
                                 \/ (new = request[o].backend /\ k \in job[o].keys)
            /\ Kind(o) = "migrate" => new = IF k \in job[o].keys THEN request[o].backend ELSE old
<1> DEFINE c == file.contents
           T == Target(o)
           old == Value(c, k)
           new == Value(Edited(o, c), k)
           Ok == /\ new \in {old, Nothing} \cup Backend
                 /\ NoReferences => new \in {old, Nothing}
                                      \/ (new = request[o].backend /\ k \in job[o].keys)
                 /\ Kind(o) = "migrate" =>
                      new = IF k \in job[o].keys THEN request[o].backend ELSE old
<1>0. /\ Progress /\ c \in Config /\ k[1] \in Name /\ k[2] \in Slot /\ request[o] \in Request
      /\ request[o] \in Requests[o] /\ job[o] \in Job
  BY DEF ChangeInv, Progress, RequestsOK, AsRequested, Key
<1>1. CASE Kind(o) \in {"set", "import"}
  <2> DEFINE item == request[o].item
             kept == [item EXCEPT !.credential =
                        [s \in Slot |-> IF @[s] \in Secret THEN request[o].backend ELSE @[s]]]
  <2>1. T \in Name BY <1>0, <1>1, TargetInName DEF Progress
  <2>2. item \in Item /\ request[o].backend \in Backend BY <1>0 DEF Request
  <2>3. /\ kept \in Item
        /\ kept.credential[k[2]] = IF item.credential[k[2]] \in Secret THEN request[o].backend
                                                                      ELSE item.credential[k[2]]
    BY <1>0, <2>2 DEF Item
  <2>4. kept # Nothing BY <2>3, ControlAssumption
  <2>5. Edited(o, c) = [c EXCEPT !.contexts[T] = kept] BY <1>1 DEF Edited
  <2>6. /\ item.credential[k[2]] \in Secret \cup Backend \cup {Nothing}
        /\ NoReferences => /\ item.credential[k[2]] \notin Backend
                           /\ Kind(o) = "import" => item.credential[k[2]] = Nothing
    BY <1>0, <1>1, <2>2, ControlAssumption DEF NoReferences, Kind, Item
  <2> HIDE DEF kept, item, T
  <2>7. CASE k[1] # T
    <3>1. new = old BY <1>0, <2>1, <2>5, <2>7 DEF Value, Config
    <3>2. QED BY <1>1, <3>1
  <2>8. CASE k[1] = T
    <3>1. new = kept.credential[k[2]] BY <1>0, <2>1, <2>4, <2>5, <2>8 DEF Value, Config
    <3>2. CASE item.credential[k[2]] \in Secret
      <4>1. CASE Kind(o) = "set"
        <5>1. k \in GivenKeys(o) BY <1>0, <2>8, <3>2, <4>1 DEF GivenKeys, Key, T, item
        <5>2. k \in job[o].keys BY <4>1, <5>1 DEF JobShape, Wanted
        <5>3. QED BY <1>1, <2>2, <2>3, <3>1, <3>2, <5>2
      <4>2. CASE Kind(o) = "import"
        BY <1>1, <2>2, <2>3, <2>6, <3>1, <3>2, <4>2, ControlAssumption
      <4>3. QED BY <1>1, <4>1, <4>2
    <3>3. CASE item.credential[k[2]] = Nothing
      BY <1>1, <2>2, <2>3, <3>1, <3>3, ControlAssumption
    <3>4. CASE item.credential[k[2]] \in Backend
      BY <1>1, <2>3, <2>6, <3>1, <3>4, ControlAssumption
    <3>5. QED BY <2>6, <3>2, <3>3, <3>4
  <2>9. QED BY <2>7, <2>8
<1>2. CASE Kind(o) = "use"
  <2>1. Edited(o, c).contexts = c.contexts BY <1>0, <1>2 DEF Edited, Config
  <2>2. QED BY <1>2, <2>1 DEF Value
<1>3. CASE Kind(o) = "delete"
  <2>1. T \in Name BY <1>0, <1>3, TargetInName DEF Progress
  <2>2. Edited(o, c).contexts = [c.contexts EXCEPT ![T] = Nothing]
    BY <1>0, <1>3 DEF Edited, Config
  <2> HIDE DEF T
  <2>3. new = IF k[1] = T THEN Nothing ELSE old BY <1>0, <2>1, <2>2 DEF Value, Config
  <2>4. request[o].backend # Nothing BY <1>0, ControlAssumption DEF Request
  <2>5. QED BY <1>3, <2>3, <2>4
<1>4. CASE Kind(o) = "role"
  <2>1. T \in Name BY <1>0, <1>4, TargetInName DEF Progress
  <2>2. c.contexts[T] \in Item
    <3>1. Governing(o, c) = {c.contexts[T]} BY <1>4 DEF Governing
    <3>2. Permits(c.contexts[T], request[o].operator) BY <3>1 DEF Allowed
    <3>3. QED BY <1>0, <2>1, <3>2, PermittedExists DEF Config
  <2> DEFINE changed == [c.contexts[T] EXCEPT !.roles[request[o].grantee] = request[o].role]
  <2>3. changed.credential = c.contexts[T].credential BY <2>2 DEF Item
  <2>4. changed \in Item BY <1>0, <2>2 DEF Item, Request
  <2>5. Edited(o, c).contexts = [c.contexts EXCEPT ![T] = changed]
    BY <1>0, <1>4 DEF Edited, Config
  <2>6. changed # Nothing /\ c.contexts[T] # Nothing BY <2>2, <2>4, ControlAssumption
  <2> HIDE DEF changed, T
  <2>7. new = old BY <1>0, <2>1, <2>3, <2>5, <2>6 DEF Value, Config
  <2>8. QED BY <1>4, <2>7
<1>5. CASE Kind(o) = "migrate"
  <2> DEFINE seen == job[o].snapshot
             moved(m) == [seen[m] EXCEPT !.credential =
                            [s \in Slot |-> IF @[s] = Nothing THEN Nothing
                                                             ELSE request[o].backend]]
  <2>1. \A m \in DOMAIN seen : seen[m] \in Item BY <1>0 DEF Job
  <2>2. \A m \in DOMAIN seen : moved(m) \in Item
    BY <1>0, <2>1 DEF Item, Request
  <2>3. \A m \in DOMAIN seen : moved(m).credential[k[2]] =
          IF seen[m].credential[k[2]] = Nothing THEN Nothing ELSE request[o].backend
    BY <1>0, <2>1 DEF Item
  <2>4. Edited(o, c).contexts = [m \in Name |-> IF m \in DOMAIN seen THEN moved(m)
                                                                  ELSE c.contexts[m]]
    BY <1>0, <1>5 DEF Edited, Config
  <2>5. \A m \in DOMAIN seen : c.contexts[m] = seen[m] BY DEF Allowed, SameAsSeen
  <2>6. k \in job[o].keys <=> Seen(o, k) # Nothing BY <1>5 DEF JobShape, Wanted
  <2>7. \A m \in DOMAIN seen : moved(m) # Nothing /\ seen[m] # Nothing
    BY <2>1, <2>2, ControlAssumption
  <2> HIDE DEF moved
  <2>8. CASE k[1] \in DOMAIN seen
    <3>1. old = Seen(o, k) BY <2>5, <2>7, <2>8 DEF Value, Seen
    <3>2. new = IF Seen(o, k) = Nothing THEN Nothing ELSE request[o].backend
      BY <1>0, <2>3, <2>4, <2>7, <2>8 DEF Value, Seen
    <3>3. QED BY <1>0, <2>6, <3>1, <3>2, ControlAssumption DEF Request
  <2>9. CASE k[1] \notin DOMAIN seen
    <3>1. Seen(o, k) = Nothing BY <2>9 DEF Seen
    <3>2. new = old BY <1>0, <2>4, <2>9 DEF Value
    <3>3. QED BY <2>6, <3>1, <3>2
  <2>10. QED BY <2>8, <2>9
<1>6. Kind(o) \in {"set", "import", "use", "delete", "role", "migrate"}
  BY <1>0 DEF Kind, Request
<1> HIDE DEF Ok, new, old, c
<1>7. Ok BY <1>1, <1>2, <1>3, <1>4, <1>5, <1>6 DEF Ok, new, old, c
<1>8. QED BY <1>7 DEF Ok, new, old, c

\* Only one command at a time is behind its authorization.
LEMMA DecidedAlone ==
  ASSUME ChangeInv, NEW o \in Process, NEW q \in Process, at[o] \in Decided, at[q] \in Decided
  PROVE  q = o
BY DEF ChangeInv, DecidedInside, StoreInv, InsideHoldsLock

\* What a migration saw is what is there, once it is authorized.
LEMMA SeenIsThere ==
  ASSUME ChangeInv, NEW o \in Process, at[o] \in Decided, NEW k \in Key, Seen(o, k) # Nothing
  PROVE  Value(file.contents, k) = Seen(o, k)
<1>1. loaded[o] = file.contents /\ SameAsSeen(o, loaded[o])
  BY DEF ChangeInv, StoreInv, NothingLost, DecidedInside, DecidedAllowed, Allowed
<1>2. k[1] \in DOMAIN job[o].snapshot BY DEF Seen
<1>3. file.contents.contexts[k[1]] = job[o].snapshot[k[1]] BY <1>1, <1>2 DEF SameAsSeen
<1>4. job[o].snapshot[k[1]] \in Item BY <1>2 DEF ChangeInv, Progress, Job
<1>5. file.contents.contexts[k[1]] # Nothing BY <1>3, <1>4, ControlAssumption
<1>6. QED BY <1>2, <1>3, <1>5 DEF Value, Seen

\* What compensation deletes, nobody refers to or has seen referred to.
LEMMA MayDelete ==
  ASSUME ChangeInv, NEW b \in Backend, JobShape, OnlyTowards(b), SetMayDelete(b),
         MigrationMayDelete(b), NEW o \in Process, at[o] = "rollback",
         NEW k \in job[o].keys, Kind(o) \in {"set", "migrate"}, job[o].previous[k] = Nothing
  PROVE  Value(file.contents, k) # b /\ \A q \in Process : Seen(q, k) # b
<1>0. k \in Key BY DEF ChangeInv, Progress, Job
<1>1. CASE Kind(o) = "set" BY <1>1 DEF SetMayDelete, Visited
<1>2. CASE Kind(o) = "migrate"
  <2>1. Seen(o, k) # b BY <1>2 DEF MigrationMayDelete, Visited
  <2>2. Seen(o, k) # Nothing BY <1>2 DEF JobShape, Wanted
  <2>3. Value(file.contents, k) = Seen(o, k) BY <1>0, <2>2, SeenIsThere DEF Decided
  <2>4. QED BY <1>0, <2>1, <2>2, <2>3 DEF OnlyTowards
<1>3. QED BY <1>1, <1>2

\* The references, in the file and in what was seen of it, when neither the file
\* nor a backend changes.
LEMMA QuietReferences ==
  ASSUME NEW b \in Backend, OnlyTowards(b), SeenResolves, ValuesResolve,
         UNCHANGED <<file, store>>,
         \A q \in Process, k \in Key :
           Seen(q, k)' \in {Seen(q, k), Nothing, Value(file.contents, k)}
  PROVE  (OnlyTowards(b) /\ SeenResolves /\ ValuesResolve)'
<1>1. \A k \in Key : Value(file.contents, k)' = Value(file.contents, k) BY DEF Value
<1>2. Nothing \notin Backend BY ControlAssumption
<1>3. OnlyTowards(b)' BY <1>1, <1>2 DEF OnlyTowards
<1>4. SeenResolves'
  <2> SUFFICES ASSUME NEW q \in Process, NEW k \in Key, Seen(q, k)' \in Backend
               PROVE  store[Seen(q, k)'][k] # Nothing
    BY DEF SeenResolves
  <2>1. Seen(q, k)' \in {Seen(q, k), Value(file.contents, k)} BY <1>2
  <2>2. QED BY <2>1 DEF SeenResolves, ValuesResolve
<1>5. ValuesResolve' BY <1>1 DEF ValuesResolve
<1>6. QED BY <1>3, <1>4, <1>5

\* The same, when a secret is stored, or one is deleted to which nothing refers.
LEMMA StoredReferences ==
  ASSUME ChangeInv, NEW b \in Backend, OnlyTowards(b), SeenResolves, ValuesResolve,
         NEW k \in Key, NEW secret, store' = [store EXCEPT ![b][k] = secret],
         UNCHANGED file, \A q \in Process, j \in Key : Seen(q, j)' = Seen(q, j),
         \/ secret # Nothing
         \/ Value(file.contents, k) # b /\ \A q \in Process : Seen(q, k) # b
  PROVE  (OnlyTowards(b) /\ SeenResolves /\ ValuesResolve)'
<1>1. \A j \in Key : Value(file.contents, j)' = Value(file.contents, j) BY DEF Value
<1>2. OnlyTowards(b)' BY <1>1 DEF OnlyTowards
<1>3. store \in [Backend -> Secrets] BY DEF ChangeInv, Progress
<1>4. \A c \in Backend, j \in Key :
        store'[c][j] = IF c = b /\ j = k THEN secret ELSE store[c][j]
  BY <1>3 DEF Secrets
<1>5. SeenResolves'
  <2> SUFFICES ASSUME NEW q \in Process, NEW j \in Key, Seen(q, j) \in Backend
               PROVE  store'[Seen(q, j)][j] # Nothing
    BY DEF SeenResolves
  <2>1. store[Seen(q, j)][j] # Nothing BY DEF SeenResolves
  <2>2. QED BY <1>4, <2>1
<1>6. ValuesResolve'
  <2> SUFFICES ASSUME NEW j \in Key, Value(file.contents, j) \in Backend
               PROVE  store'[Value(file.contents, j)][j] # Nothing
    BY <1>1 DEF ValuesResolve
  <2>1. store[Value(file.contents, j)][j] # Nothing BY DEF ValuesResolve
  <2>2. QED BY <1>4, <2>1
<1>7. QED BY <1>2, <1>5, <1>6

\* The same, when an update refers to what its command has stored.
LEMMA SavedReferences ==
  ASSUME ChangeInv, JobShape, AsRequested, NoReferences, NEW b \in Backend, OneBackend(b),
         HeldIsThere, OnlyTowards(b), SeenResolves, ValuesResolve, StoredIsHeld,
         NEW o \in Process, Saves(o), \A q \in Process, k \in Key : Seen(q, k)' = Seen(q, k)
  PROVE  (OnlyTowards(b) /\ SeenResolves /\ ValuesResolve)'
<1>0. at[o] = "save" /\ UNCHANGED store /\ Allowed(o, file.contents)
      /\ file'.contents = Edited(o, file.contents)
  BY DEF Saves
<1> DEFINE old(k) == Value(file.contents, k)
           new(k) == Value(Edited(o, file.contents), k)
<1>1. \A k \in Key : Value(file.contents, k)' = new(k) BY <1>0 DEF Value
<1>2. \A k \in Key : \/ new(k) \in {old(k), Nothing}
                     \/ new(k) = request[o].backend /\ k \in job[o].keys
  BY <1>0, EditedValue
<1>3. \A k \in job[o].keys : request[o].backend = b /\ store[b][k] # Nothing
  BY <1>0, StoringBackend DEF StoredIsHeld, HeldIsThere, Visited
<1> HIDE DEF old, new
<1>4. \A k \in Key : new(k) \in {old(k), Nothing} \/ (new(k) = b /\ store[b][k] # Nothing)
  BY <1>2, <1>3
<1>5. OnlyTowards(b)' BY <1>1, <1>4 DEF OnlyTowards, old
<1>6. SeenResolves' BY <1>0 DEF SeenResolves
<1>7. ValuesResolve'
  <2> SUFFICES ASSUME NEW k \in Key, new(k) \in Backend PROVE store[new(k)][k] # Nothing
    BY <1>0, <1>1 DEF ValuesResolve
  <2>1. CASE new(k) = old(k) BY <2>1 DEF ValuesResolve, old
  <2>2. CASE new(k) = b /\ store[b][k] # Nothing BY <2>2
  <2>3. QED BY <1>4, <2>1, <2>2, ControlAssumption
<1>8. QED BY <1>5, <1>6, <1>7

\* Whose steps change what was seen, and how.
LEMMA SeenStep ==
  ASSUME ChangeInv, NEW o \in Process, Change(o), UNCHANGED request
  PROVE  /\ \A q \in Process \ {o}, k \in Key : Seen(q, k)' = Seen(q, k)
         /\ \A k \in Key : Seen(o, k)' \in {Seen(o, k), Nothing, Value(file.contents, k)}
         /\ ~Ends(o) /\ ~Sees(o) => \A k \in Key : Seen(o, k)' = Seen(o, k)
<1>1. job[o] \in Job BY DEF ChangeInv, Progress
<1>2. ASSUME NEW q \in Process, q # o PROVE \A k \in Key : Seen(q, k)' = Seen(q, k)
  BY <1>2, Frame, SeenStays DEF ChangeInv
<1>3. CASE Ends(o) BY <1>2, <1>3, NoJobSees DEF Ends
<1>4. CASE Sees(o) BY <1>2, <1>4 DEF Sees
<1>5. CASE job'[o].snapshot = job[o].snapshot BY <1>2, <1>5, SeenStays
<1>6. Ends(o) \/ Sees(o) \/ job'[o].snapshot = job[o].snapshot
  BY <1>1, StepEffect DEF Proceeds, Saves, Resolves, LooksUp, Writes, WriteFails, Undoes, Moves, Job
<1>7. QED BY <1>3, <1>4, <1>5, <1>6

LEMMA ReferencesKept ==
  ASSUME ChangeInv, AsRequested, NoReferences, NEW b \in Backend, OneBackend(b),
         ReferenceInv(b), NEW o \in Process, Change(o), UNCHANGED request
  PROVE  (OnlyTowards(b) /\ SeenResolves /\ ValuesResolve)'
<1>0. /\ JobShape /\ HeldIsThere /\ OnlyTowards(b) /\ SeenResolves /\ ValuesResolve
      /\ SetMayDelete(b) /\ MigrationMayDelete(b) /\ StoredIsHeld
  BY DEF ReferenceInv
<1>1. CASE UNCHANGED <<file, store>> BY <1>0, <1>1, SeenStep, QuietReferences
<1>2. ASSUME ~Ends(o) /\ ~Sees(o) PROVE \A q \in Process, k \in Key : Seen(q, k)' = Seen(q, k)
  BY <1>2, SeenStep
<1>3. CASE Saves(o)
  <2>1. ~Ends(o) /\ ~Sees(o) BY <1>3 DEF Saves, Ends, Sees
  <2>2. QED BY <1>0, <1>2, <1>3, <2>1, SavedReferences
<1>4. ASSUME NEW k \in job[o].todo, at[o] \in {"put", "rollback"}
      PROVE  /\ k \in job[o].keys /\ k \in Key /\ request[o].backend = b
             /\ Kind(o) \in {"set", "migrate"}
  <2>1. k \in job[o].keys BY <1>0, <1>4 DEF JobShape
  <2>2. QED BY <1>0, <1>4, <2>1, StoringBackend
<1>5. ASSUME NEW k \in job[o].todo, Writes(o, k) \/ WriteFails(o, k)
      PROVE  (OnlyTowards(b) /\ SeenResolves /\ ValuesResolve)'
  <2>1. at[o] = "put" /\ UNCHANGED file BY <1>5 DEF Writes, WriteFails
  <2>2. k \in job[o].keys /\ k \in Key /\ request[o].backend = b BY <1>4, <2>1
  <2>3. job[o].held[k] # Nothing BY <1>0, <2>1, <2>2 DEF HeldIsThere, Visited
  <2>4. CASE UNCHANGED store BY <1>1, <2>1, <2>4
  <2>5. CASE Stores(o, k, job[o].held[k])
    <3>1. ~Ends(o) /\ ~Sees(o) BY <1>5 DEF Writes, WriteFails, Moves, Ends, Sees
    <3>2. \A q \in Process, j \in Key : Seen(q, j)' = Seen(q, j) BY <1>2, <3>1
    <3>3. store' = [store EXCEPT ![b][k] = job[o].held[k]] BY <2>2, <2>5 DEF Stores
    <3>4. QED BY ONLY ChangeInv, b \in Backend, <1>0, <2>1, <2>2, <2>3, <3>2, <3>3, StoredReferences
  <2>6. QED BY <1>5, <2>4, <2>5 DEF Writes, WriteFails
<1>6. ASSUME NEW k \in job[o].todo, Undoes(o, k)
      PROVE  (OnlyTowards(b) /\ SeenResolves /\ ValuesResolve)'
  <2>1. at[o] = "rollback" /\ UNCHANGED file BY <1>6 DEF Undoes
  <2>2. /\ k \in job[o].keys /\ k \in Key /\ request[o].backend = b
        /\ Kind(o) \in {"set", "migrate"}
    BY <1>4, <2>1
  <2>3. CASE UNCHANGED store BY <1>1, <2>1, <2>3
  <2>4. CASE Stores(o, k, job[o].previous[k])
    <3>1. ~Ends(o) /\ ~Sees(o) BY <1>6 DEF Undoes, Ends, Sees
    <3>2. \A q \in Process, j \in Key : Seen(q, j)' = Seen(q, j) BY <1>2, <3>1
    <3>3. store' = [store EXCEPT ![b][k] = job[o].previous[k]] BY <2>2, <2>4 DEF Stores
    <3>4. job[o].previous[k] = Nothing =>
            Value(file.contents, k) # b /\ \A q \in Process : Seen(q, k) # b
      BY <1>0, <2>1, <2>2, MayDelete
    <3>5. QED BY ONLY ChangeInv, b \in Backend, <1>0, <2>1, <2>2, <3>2, <3>3, <3>4, StoredReferences
  <2>5. QED BY <1>6, <2>3, <2>4 DEF Undoes
<1>7. Ends(o) \/ Proceeds(o) \/ Sees(o) => UNCHANGED <<file, store>> BY DEF Ends, Proceeds, Sees
<1>8. \A k \in job[o].todo : Resolves(o, k) \/ LooksUp(o, k) => UNCHANGED <<file, store>>
  BY DEF Resolves, LooksUp
<1>9. QED BY <1>1, <1>3, <1>5, <1>6, <1>7, <1>8, StepEffect

\* The keys that a command has visited, and those that it had visited before.
LEMMA VisitedStays ==
  ASSUME NEW q \in Process, at'[q] = at[q], job'[q] = job[q], NEW step, NEW later
  PROVE  Visited(q, step, later)' = Visited(q, step, later)
BY DEF Visited

LEMMA HeldKept ==
  ASSUME ChangeInv, AsRequested, JobShape, HeldIsThere, NEW o \in Process, Change(o),
         UNCHANGED request
  PROVE  HeldIsThere'
<1> DEFINE later == {"backup", "update", "begin", "backupSet", "put", "save"}
           There(q) == \A k \in Visited(q, "resolve", later) : job[q].held[k] # Nothing
<1>0. /\ \A q \in Process : There(q) BY DEF HeldIsThere
<1>1. ASSUME NEW q \in Process, q # o PROVE There(q)'
  <2>1. at'[q] = at[q] /\ job'[q] = job[q] BY <1>1, Frame DEF ChangeInv
  <2>2. QED BY <1>0, <2>1, VisitedStays
<1>2. There(o)'
  <2>0. job[o] \in Job BY DEF ChangeInv, Progress
  <2>1. CASE Ends(o) BY <2>1 DEF Ends, Visited
  <2>2. CASE Sees(o) BY <2>2 DEF Sees, Visited
  <2>3. CASE Proceeds(o) \/ Saves(o)
    <3>1. job'[o] = job[o] /\ (at'[o] \in later => at[o] \in later) /\ at'[o] # "resolve"
      BY <2>3 DEF Proceeds, Saves, AfterIntent
    <3>2. Visited(o, "resolve", later)' \subseteq Visited(o, "resolve", later)
      BY <3>1 DEF Visited
    <3>3. QED BY <1>0, <3>1, <3>2
  <2>4. ASSUME NEW k \in job[o].todo, Resolves(o, k) PROVE There(o)'
    <3>1. at[o] = "resolve" /\ Moves(o, k, "backup") BY <2>4 DEF Resolves
    <3>2. \A j \in Visited(o, "resolve", later)' : j = k \/ j \in Visited(o, "resolve", later)
      BY <3>1 DEF Visited, Moves
    <3>3. Visited(o, "resolve", later) \subseteq Key BY <2>0 DEF Visited, Job
    <3>4. k \in Key BY <2>0 DEF Job
    <3>5. PICK secret : secret # Nothing /\ job'[o].held = [job[o].held EXCEPT ![k] = secret]
      BY <2>4 DEF Resolves
    <3>6. \A j \in Key : job'[o].held[j] = IF j = k THEN secret ELSE job[o].held[j]
      BY <2>0, <3>5 DEF Job, Secrets
    <3>7. QED BY <1>0, <3>2, <3>3, <3>4, <3>5, <3>6
  <2>5. ASSUME NEW k \in job[o].todo, LooksUp(o, k) \/ Writes(o, k) PROVE There(o)'
    <3>1. at[o] \in later /\ at'[o] # "resolve" /\ job'[o].held = job[o].held
          /\ job'[o].keys = job[o].keys
      BY <2>5 DEF LooksUp, Writes, Moves
    <3>2. Visited(o, "resolve", later)' \subseteq Visited(o, "resolve", later)
      BY <3>1 DEF Visited
    <3>3. QED BY <1>0, <3>1, <3>2
  <2>6. ASSUME NEW k \in job[o].todo, WriteFails(o, k) \/ Undoes(o, k) PROVE There(o)'
    BY <2>6 DEF WriteFails, Undoes, Visited
  <2>7. QED BY <2>1, <2>2, <2>3, <2>4, <2>5, <2>6, StepEffect
<1>3. QED BY <1>1, <1>2 DEF HeldIsThere

LEMMA SetMayDeleteKept ==
  ASSUME ChangeInv, JobShape, AsRequested, NEW b \in Backend, OneBackend(b), SeenResolves,
         ValuesResolve, SetMayDelete(b), NEW o \in Process, Change(o), UNCHANGED request
  PROVE  SetMayDelete(b)'
<1> DEFINE later == {"put", "rollback"}
           Gone(k) == Value(file.contents, k) # b /\ \A q \in Process : Seen(q, k) # b
           Ok(q) == \A k \in Visited(q, "backupSet", later) :
                      Kind(q) = "set" /\ job[q].previous[k] = Nothing => Gone(k)
<1>0. /\ \A q \in Process : Ok(q) BY DEF SetMayDelete
<1>1. job[o] \in Job /\ \A q \in Process : job[q] \in Job BY DEF ChangeInv, Progress
<1>2. ~Saves(o) => UNCHANGED file
  BY StepEffect DEF Ends, Proceeds, Sees, Resolves, LooksUp, Writes, WriteFails, Undoes
<1>3. \A k \in Key : ~Saves(o) /\ Gone(k) => Gone(k)'
  <2> SUFFICES ASSUME NEW k \in Key, ~Saves(o), Gone(k) PROVE Gone(k)' OBVIOUS
  <2>1. Value(file.contents, k)' = Value(file.contents, k) BY <1>2 DEF Value
  <2>2. \A q \in Process : Seen(q, k)' \in {Seen(q, k), Nothing, Value(file.contents, k)}
    BY SeenStep
  <2>3. QED BY <2>1, <2>2, ControlAssumption
<1>4. \A q \in Process : Visited(q, "backupSet", later) \subseteq Key BY <1>1 DEF Visited, Job
<1>5. ASSUME NEW q \in Process, q # o PROVE Ok(q)'
  <2>1. at'[q] = at[q] /\ job'[q] = job[q] BY <1>5, Frame DEF ChangeInv
  <2>2. Visited(q, "backupSet", later)' = Visited(q, "backupSet", later)
    BY <2>1, VisitedStays
  <2>3. CASE Saves(o)
    <3>1. at[q] \notin Decided BY <1>5, <2>3, DecidedAlone DEF Saves, Decided
    <3>2. Visited(q, "backupSet", later) = {} BY <3>1 DEF Visited, Decided
    <3>3. QED BY <2>2, <3>2
  <2>4. CASE ~Saves(o)
    <3>1. Kind(q)' = Kind(q) BY DEF Kind
    <3> HIDE DEF Gone
    <3>2. QED BY <1>0, <1>3, <1>4, <2>1, <2>2, <2>4, <3>1
  <2>5. QED BY <2>3, <2>4
<1>6. Ok(o)'
  <2>1. CASE Ends(o) BY <2>1 DEF Ends, Visited
  <2>2. CASE Sees(o) BY <2>2 DEF Sees, Visited
  <2>3. CASE Saves(o) BY <2>3 DEF Saves, Visited
  <2>4. CASE Proceeds(o) /\ Kind(o) = "set"
    <3>1. at'[o] \notin later BY <2>4 DEF Proceeds, AfterIntent
    <3>2. at'[o] = "backupSet" => job'[o].todo = job'[o].keys
      BY <2>4 DEF Proceeds, JobShape
    <3>3. Visited(o, "backupSet", later)' = {} BY <3>1, <3>2 DEF Visited
    <3>4. QED BY <3>3
  <2>5. CASE Kind(o) # "set" BY <2>5 DEF Kind
  <2>6. ASSUME NEW k \in job[o].todo, LooksUp(o, k), Kind(o) = "set" PROVE Ok(o)'
    <3>1. at[o] = "backupSet" /\ Moves(o, k, "put") BY <2>6 DEF LooksUp, JobShape
    <3>2. \A j \in Visited(o, "backupSet", later)' : j = k \/ j \in Visited(o, "backupSet", later)
      BY <3>1 DEF Visited, Moves
    <3>3. k \in job[o].keys /\ k \in Key /\ request[o].backend = b
      <4>1. k \in job[o].keys BY <3>1 DEF JobShape
      <4>2. QED BY <3>1, <4>1, StoringBackend
    <3>4. \A j \in Key : job'[o].previous[j] = IF j = k THEN store[b][k] ELSE job[o].previous[j]
      BY <1>1, <2>6, <3>3 DEF LooksUp, Job, Secrets
    <3>5. store[b][k] = Nothing => Gone(k)
      BY <3>3 DEF SeenResolves, ValuesResolve
    <3>6. ~Saves(o) BY <3>1 DEF Saves
    <3> HIDE DEF Gone
    <3>7. QED BY <1>0, <1>3, <1>4, <2>6, <3>2, <3>3, <3>4, <3>5, <3>6
  <2>7. ASSUME NEW k \in job[o].todo, Writes(o, k) \/ WriteFails(o, k) \/ Undoes(o, k)
        PROVE  Ok(o)'
    <3>1. at[o] \in later /\ at'[o] # "backupSet" /\ job'[o].keys = job[o].keys
          /\ job'[o].previous = job[o].previous
      BY <1>1, <2>7 DEF Writes, WriteFails, Undoes, Moves, Job
    <3>2. Visited(o, "backupSet", later)' \subseteq Visited(o, "backupSet", later)
      BY <3>1 DEF Visited
    <3>3. ~Saves(o) /\ Kind(o)' = Kind(o) BY <3>1 DEF Saves, Kind
    <3> HIDE DEF Gone
    <3>4. QED BY <1>0, <1>3, <1>4, <3>1, <3>2, <3>3
  <2>8. ASSUME NEW k \in job[o].todo, Resolves(o, k) PROVE Ok(o)'
    BY <2>5, <2>8 DEF Resolves, JobShape
  <2>9. QED BY <2>1, <2>2, <2>3, <2>4, <2>5, <2>6, <2>7, <2>8, StepEffect
<1>7. QED BY <1>5, <1>6 DEF SetMayDelete

LEMMA MigrationMayDeleteKept ==
  ASSUME ChangeInv, JobShape, AsRequested, NEW b \in Backend, OneBackend(b), SeenResolves,
         MigrationMayDelete(b), NEW o \in Process, Change(o), UNCHANGED request
  PROVE  MigrationMayDelete(b)'
<1> DEFINE later == {"update", "begin", "put", "rollback"}
           Ok(q) == \A k \in Visited(q, "backup", later) :
                      Kind(q) = "migrate" /\ job[q].previous[k] = Nothing => Seen(q, k) # b
<1>0. /\ \A q \in Process : Ok(q) BY DEF MigrationMayDelete
<1>1. \A q \in Process : job[q] \in Job BY DEF ChangeInv, Progress
<1>2. \A q \in Process : Visited(q, "backup", later) \subseteq Key BY <1>1 DEF Visited, Job
<1>3. ASSUME NEW q \in Process, q # o PROVE Ok(q)'
  <2>1. at'[q] = at[q] /\ job'[q] = job[q] BY <1>3, Frame DEF ChangeInv
  <2>2. Visited(q, "backup", later)' = Visited(q, "backup", later) BY <2>1, VisitedStays
  <2>3. Kind(q)' = Kind(q) /\ \A k \in Key : Seen(q, k)' = Seen(q, k) BY <2>1, SeenStays
  <2>4. QED BY <1>0, <1>2, <2>1, <2>2, <2>3
<1>4. Ok(o)'
  <2>1. CASE Kind(o) # "migrate" BY <2>1 DEF Kind
  <2>2. CASE Ends(o) BY <2>2 DEF Ends, Visited
  <2>3. CASE Sees(o) BY <2>3 DEF Sees, Visited
  <2>4. CASE Saves(o) BY <2>4 DEF Saves, Visited
  <2>5. ASSUME Kind(o) = "migrate", job'[o].keys = job[o].keys,
               job'[o].snapshot = job[o].snapshot, job'[o].previous = job[o].previous,
               at'[o] # "backup", at'[o] \in later => at[o] \in later
        PROVE  Ok(o)'
    <3>1. Visited(o, "backup", later)' \subseteq Visited(o, "backup", later)
      BY <2>5 DEF Visited
    <3>2. Kind(o)' = Kind(o) /\ \A k \in Key : Seen(o, k)' = Seen(o, k) BY <2>5, SeenStays
    <3>3. QED BY <1>0, <1>2, <2>5, <3>1, <3>2
  <2>6. CASE Proceeds(o) /\ Kind(o) = "migrate"
    <3>1. at'[o] # "backup" /\ (at'[o] \in later => at[o] \in later)
      BY <2>6 DEF Proceeds, AfterIntent
    <3>2. QED BY <2>5, <2>6, <3>1 DEF Proceeds
  <2>7. ASSUME NEW k \in job[o].todo, LooksUp(o, k), Kind(o) = "migrate" PROVE Ok(o)'
    <3>1. at[o] = "backup" /\ Moves(o, k, "update") BY <2>7 DEF LooksUp, JobShape
    <3>2. \A j \in Visited(o, "backup", later)' : j = k \/ j \in Visited(o, "backup", later)
      BY <3>1 DEF Visited, Moves
    <3>3. k \in job[o].keys /\ k \in Key /\ request[o].backend = b
      <4>1. k \in job[o].keys BY <3>1 DEF JobShape
      <4>2. QED BY <3>1, <4>1, StoringBackend
    <3>4. \A j \in Key : job'[o].previous[j] = IF j = k THEN store[b][k] ELSE job[o].previous[j]
      BY <1>1, <2>7, <3>3 DEF LooksUp, Job, Secrets
    <3>5. store[b][k] = Nothing => Seen(o, k) # b BY <3>3 DEF SeenResolves
    <3>6. \A j \in Key : Seen(o, j)' = Seen(o, j) BY <3>1, SeenStays DEF Moves
    <3>7. QED BY <1>0, <1>2, <2>7, <3>2, <3>3, <3>4, <3>5, <3>6
  <2>8. ASSUME NEW k \in job[o].todo, Writes(o, k) \/ WriteFails(o, k) \/ Undoes(o, k),
               Kind(o) = "migrate"
        PROVE  Ok(o)'
    <3>1. /\ at[o] \in later /\ at'[o] # "backup" /\ job'[o].keys = job[o].keys
          /\ job'[o].previous = job[o].previous /\ job'[o].snapshot = job[o].snapshot
      BY <1>1, <2>8 DEF Writes, WriteFails, Undoes, Moves, Job
    <3>2. QED BY <2>5, <2>8, <3>1
  <2>9. ASSUME NEW k \in job[o].todo, Resolves(o, k), Kind(o) = "migrate" PROVE Ok(o)'
    <3>1. Visited(o, "backup", later)' = {} BY <2>9 DEF Resolves, Moves, Visited
    <3>2. QED BY <3>1
  <2>10. QED BY <2>1, <2>2, <2>3, <2>4, <2>6, <2>7, <2>8, <2>9, StepEffect
<1>5. QED BY <1>3, <1>4 DEF MigrationMayDelete

\* What a step writes into a backend is at a key that its command is there to store.
LEMMA WhatIsStored ==
  ASSUME ChangeInv, JobShape, NEW o \in Process, Change(o)
  PROVE  \/ UNCHANGED store
         \/ /\ at[o] \in {"put", "rollback"}
            /\ \E j \in job[o].keys, secret \in Secret \cup {Nothing} : Stores(o, j, secret)
<1>1. job[o] \in Job BY DEF ChangeInv, Progress
<1>2. at[o] \in {"put", "rollback"} => job[o].todo \subseteq job[o].keys BY DEF JobShape
<1>3. \A j \in job[o].todo : /\ job[o].held[j] \in Secret \cup {Nothing}
                            /\ job[o].previous[j] \in Secret \cup {Nothing}
  BY <1>1 DEF Job, Secrets
<1>4. \A j \in job[o].todo :
        Resolves(o, j) \/ LooksUp(o, j) \/ Writes(o, j) \/ WriteFails(o, j) \/ Undoes(o, j) =>
          \/ UNCHANGED store
          \/ /\ at[o] \in {"put", "rollback"}
             /\ Stores(o, j, job[o].held[j]) \/ Stores(o, j, job[o].previous[j])
  BY DEF Resolves, LooksUp, Writes, WriteFails, Undoes
<1>5. QED BY <1>2, <1>3, <1>4, StepEffect DEF Ends, Proceeds, Sees, Saves

LEMMA StoredIsHeldKept ==
  ASSUME ChangeInv, JobShape, StoredIsHeld, NEW o \in Process, Change(o), UNCHANGED request
  PROVE  StoredIsHeld'
<1> DEFINE Ok(q) == \A k \in Visited(q, "put", {"save"}) :
                      store[request[q].backend][k] = job[q].held[k]
<1>0. /\ \A q \in Process : Ok(q) BY DEF StoredIsHeld
<1>1. \A q \in Process : job[q] \in Job /\ request[q].backend \in Backend
  BY DEF ChangeInv, Progress, RequestsOK, Request
<1>2. \A q \in Process : Visited(q, "put", {"save"}) \subseteq Key BY <1>1 DEF Visited, Job
<1>3. ASSUME NEW q \in Process, q # o PROVE Ok(q)'
  <2>1. at'[q] = at[q] /\ job'[q] = job[q] BY <1>3, Frame DEF ChangeInv
  <2>2. Visited(q, "put", {"save"})' = Visited(q, "put", {"save"}) BY <2>1, VisitedStays
  <2>3. CASE UNCHANGED store BY <1>0, <2>1, <2>2, <2>3
  <2>4. CASE at[o] \in {"put", "rollback"}
    <3>1. at[q] \notin Decided BY <1>3, <2>4, DecidedAlone DEF Decided
    <3>2. Visited(q, "put", {"save"}) = {} BY <3>1 DEF Visited, Decided
    <3>3. QED BY <2>2, <3>2
  <2>5. QED BY <2>3, <2>4, WhatIsStored
<1>4. Ok(o)'
  <2>1. CASE at'[o] \notin {"put", "save"} BY <2>1 DEF Visited
  <2>2. CASE Proceeds(o) /\ at'[o] \in {"put", "save"}
    <3>1. at[o] = "begin" /\ job'[o] = job[o] /\ at'[o] = AfterIntent(o)
      BY <2>2 DEF Proceeds
    <3>2. job[o].todo = job[o].keys /\ (at'[o] = "save" => job[o].keys = {})
      BY <2>2, <3>1 DEF JobShape, AfterIntent
    <3>3. Visited(o, "put", {"save"})' = {} BY <2>2, <3>1, <3>2 DEF Visited
    <3>4. QED BY <3>3
  <2>3. ASSUME NEW k \in job[o].todo, LooksUp(o, k), at'[o] \in {"put", "save"} PROVE Ok(o)'
    <3>1. Visited(o, "put", {"save"})' = {} BY <2>3 DEF LooksUp, Moves, Visited
    <3>2. QED BY <3>1
  <2>4. ASSUME NEW k \in job[o].todo, Writes(o, k) PROVE Ok(o)'
    <3>1. at[o] = "put" /\ Moves(o, k, "save") /\ job'[o].held = job[o].held
      BY <2>4 DEF Writes
    <3>2. \A j \in Visited(o, "put", {"save"})' : j = k \/ j \in Visited(o, "put", {"save"})
      BY <3>1 DEF Visited, Moves
    <3>3. k \in Key BY <1>1 DEF Job
    <3>4. store \in [Backend -> Secrets] BY DEF ChangeInv, Progress
    <3> DEFINE b == request[o].backend
    <3>5. \A j \in Key : store'[b][j] = IF j = k THEN job[o].held[k] ELSE store[b][j]
      BY <2>4, <1>1, <3>3, <3>4 DEF Writes, Stores, Secrets
    <3>6. QED BY <1>0, <1>2, <3>1, <3>2, <3>3, <3>5
  <2>5. Saves(o) \/ Ends(o) \/ Sees(o) => at'[o] \notin {"put", "save"} BY DEF Saves, Ends, Sees
  <2>6. \A k \in job[o].todo : Resolves(o, k) \/ WriteFails(o, k) \/ Undoes(o, k)
                                 => at'[o] \notin {"put", "save"}
    BY DEF Resolves, WriteFails, Undoes, Moves
  <2>7. QED BY <2>1, <2>2, <2>3, <2>4, <2>5, <2>6, StepEffect
<1>5. QED BY <1>3, <1>4 DEF StoredIsHeld

LEMMA NothingSeen == ASSUME Init PROVE \A o \in Process, k \in Key : Seen(o, k) = Nothing
<1> SUFFICES ASSUME NEW o \in Process PROVE \A k \in Key : Seen(o, k) = Nothing OBVIOUS
<1>1. job[o] = FirstJob(o) BY DEF Init
<1>2. FirstJob(o).snapshot = NoJob.snapshot BY NoJobType DEF FirstJob, Job
<1>3. DOMAIN job[o].snapshot = {} BY <1>1, <1>2 DEF NoJob
<1>4. QED BY <1>3 DEF Seen

LEMMA ReferencesInitially ==
  ASSUME NEW b \in Backend, Init PROVE ReferenceInv(b) /\ AsRequested
<1>1. ChangeInv /\ JobShape BY InitHolds, ShapeInitially
<1>2. AsRequested BY DEF Init, AsRequested
<1>3. \A o \in Process : at[o] \in {"start", "update"} BY DEF Init
<1>4. \A o \in Process, k \in Key : Seen(o, k) = Nothing BY NothingSeen
<1>5. ValuesResolve
  <2> SUFFICES ASSUME NEW k \in Key, Value(file.contents, k) \in Backend
               PROVE  store[Value(file.contents, k)][k] # Nothing
    BY DEF ValuesResolve
  <2> DEFINE v == Value(file.contents, k)
  <2>1. store[v][k] = LET item == file.contents.contexts[k[1]]
                      IN IF item # Nothing /\ item.credential[k[2]] = v THEN Stored ELSE Nothing
    BY DEF Init
  <2>2. store[v][k] = Stored BY <2>1, ControlAssumption DEF Value
  <2>3. QED BY <2>2, ControlAssumption
<1>6. HeldIsThere
  <2> SUFFICES ASSUME NEW o \in Process, NEW k \in job[o].keys, at[o] = "update"
               PROVE  job[o].held[k] # Nothing
    BY <1>3 DEF HeldIsThere, Visited
  <2>1. k \in GivenKeys(o)
    <3>1. k \in Wanted(o) BY <1>1 DEF JobShape
    <3>2. Kind(o) # "migrate" BY DEF Init
    <3>3. QED BY <3>1, <3>2 DEF Wanted
  <2>2. Kind(o) = "set" BY <2>1 DEF GivenKeys
  <2>3. job[o].held[k] = request[o].item.credential[k[2]] BY <1>1, <2>2 DEF JobShape
  <2>4. request[o].item.credential[k[2]] \in Secret BY <1>1, <2>1, GivenIsSecret DEF ChangeInv
  <2>5. QED BY <2>3, <2>4, ControlAssumption
<1>7. OnlyTowards(b) /\ SeenResolves BY <1>4, ControlAssumption DEF OnlyTowards, SeenResolves
<1>8. SetMayDelete(b) /\ StoredIsHeld BY <1>3 DEF SetMayDelete, StoredIsHeld, Visited
<1>9. MigrationMayDelete(b)
  <2>1. \A o \in Process : at[o] = "update" => Kind(o) # "migrate" BY DEF Init
  <2>2. QED BY <1>3, <2>1 DEF MigrationMayDelete, Visited
<1>10. QED BY <1>1, <1>2, <1>5, <1>6, <1>7, <1>8, <1>9 DEF ReferenceInv

LEMMA QuietInv ==
  ASSUME NEW b \in Backend, ReferenceInv(b), AsRequested,
         UNCHANGED <<request, at, job, store, file>>
  PROVE  ReferenceInv(b)' /\ AsRequested'
<1> USE DEF ReferenceInv
<1>1. \A q \in Process : /\ Kind(q)' = Kind(q) /\ Wanted(q)' = Wanted(q)
                         /\ \A k \in Key : Seen(q, k)' = Seen(q, k)
  BY SeenStays
<1>2. \A k \in Key : Value(file.contents, k)' = Value(file.contents, k) BY DEF Value
<1>3. JobShape' BY <1>1 DEF JobShape
<1>4. AsRequested' /\ HeldIsThere' /\ StoredIsHeld'
  BY DEF AsRequested, HeldIsThere, StoredIsHeld, Visited
<1>5. OnlyTowards(b)' /\ ValuesResolve' /\ SeenResolves'
  BY <1>1, <1>2 DEF OnlyTowards, ValuesResolve, SeenResolves
<1>6. SetMayDelete(b)' BY DEF SetMayDelete, Visited, Seen, Value, Kind
<1>7. MigrationMayDelete(b)' BY DEF MigrationMayDelete, Visited, Seen, Kind
<1>8. QED BY <1>3, <1>4, <1>5, <1>6, <1>7

\* Who takes a step: a command, the upkeep of the journal, or nobody.
LEMMA WhoSteps ==
  ASSUME [Next]_vars
  PROVE  /\ UNCHANGED request
         /\ \/ \E o \in Process : Change(o)
            \/ UNCHANGED <<file, lock, stage, loaded, at, job, store, status, reply>>
BY DEF Next, vars, Upkeep, storeVars, changeVars

LEMMA ReferenceStep ==
  ASSUME NEW b \in Backend, OneBackend(b), NoReferences, ChangeInv, ReferenceInv(b), AsRequested,
         [Next]_vars
  PROVE  ReferenceInv(b)' /\ AsRequested'
<1>1. ASSUME NEW o \in Process, Change(o), UNCHANGED request
      PROVE  ReferenceInv(b)' /\ AsRequested'
  <2>0. /\ JobShape /\ HeldIsThere /\ SeenResolves /\ ValuesResolve
        /\ SetMayDelete(b) /\ MigrationMayDelete(b) /\ StoredIsHeld
    BY DEF ReferenceInv
  <2>1. JobShape' BY <1>1, <2>0, ShapeKept
  <2>2. (OnlyTowards(b) /\ SeenResolves /\ ValuesResolve)' BY <1>1, ReferencesKept
  <2>3. HeldIsThere' BY <1>1, <2>0, HeldKept
  <2>4. SetMayDelete(b)' BY <1>1, <2>0, SetMayDeleteKept
  <2>5. MigrationMayDelete(b)' BY <1>1, <2>0, MigrationMayDeleteKept
  <2>6. StoredIsHeld' BY <1>1, <2>0, StoredIsHeldKept
  <2>7. AsRequested' BY <1>1 DEF AsRequested
  <2>8. QED BY <2>1, <2>2, <2>3, <2>4, <2>5, <2>6, <2>7 DEF ReferenceInv
<1>2. QED BY <1>1, WhoSteps, QuietInv

\* No change, completed, compensated or cut off, leaves a context that refers to a
\* credential that is not there, if all commands store in one backend and none
\* brings references of its own.
THEOREM ReferencesStand ==
  ASSUME NEW b \in Backend, OneBackend(b), NoReferences PROVE Spec => []ReferencesResolve
<1>1. Init => ReferenceInv(b) /\ AsRequested BY ReferencesInitially
<1>2. ChangeInv /\ (ReferenceInv(b) /\ AsRequested) /\ [Next]_vars
        => (ReferenceInv(b) /\ AsRequested)'
  BY ReferenceStep
<1>3. ReferenceInv(b) /\ AsRequested => ReferencesResolve
  <2> SUFFICES ASSUME ReferenceInv(b), NEW n \in Name, NEW s \in Slot,
                      file.contents.contexts[n] # Nothing,
                      file.contents.contexts[n].credential[s] \in Backend
               PROVE  store[file.contents.contexts[n].credential[s]][<<n, s>>] # Nothing
    BY DEF ReferencesResolve
  <2> DEFINE k == <<n, s>>
  <2>1. k \in Key /\ k[1] = n /\ k[2] = s BY DEF Key
  <2>2. Value(file.contents, k) = file.contents.contexts[n].credential[s] BY <2>1 DEF Value
  <2> HIDE DEF k
  <2>3. store[file.contents.contexts[n].credential[s]][k] # Nothing
    BY <2>1, <2>2 DEF ReferenceInv, ValuesResolve
  <2>4. QED BY <2>3 DEF k
<1>4. QED BY <1>1, <1>2, <1>3, ChangeSafe, PTL DEF Spec

-----------------------------------------------------------------------------
(* Where secrets are kept and carried.                                     *)

\* No step makes up a secret: it copies one that is kept or carried.
LEMMA CopiesStep ==
  ASSUME ChangeInv, JobShape, AsRequested, NEW o \in Process, Change(o), UNCHANGED request,
         NEW k \in Key, NEW P \in SUBSET Process, o \in P \/ at[o] # "put",
         NEW x \in Secret, x \in Copies(k, P)'
  PROVE  x \in Copies(k, P)
<1>0. /\ \A q \in Process : job[q] \in Job
      /\ store \in [Backend -> Secrets]
      /\ \A q \in Process : request[q].backend \in Backend
  BY DEF ChangeInv, Progress, RequestsOK, Request
<1>1. x # Nothing /\ x \notin Backend BY ControlAssumption
<1>2. /\ Value(file.contents, k) \in Copies(k, P)
      /\ \A c \in Backend : store[c][k] \in Copies(k, P)
      /\ \A q \in P : job[q].held[k] \in Copies(k, P)
      /\ \A q \in Process : Seen(q, k) \in Copies(k, P) /\ job[q].previous[k] \in Copies(k, P)
  BY DEF Copies
<1>3. \/ x = Value(file.contents, k)'
      \/ \E c \in Backend : x = store'[c][k]
      \/ \E q \in P : x = job'[q].held[k]
      \/ \E q \in Process : x \in {Seen(q, k)', job'[q].previous[k]}
  BY DEF Copies
<1>4. CASE x = Value(file.contents, k)'
  <2>1. CASE Saves(o)
    <3>1. Value(file.contents, k)' = Value(Edited(o, file.contents), k) BY <2>1 DEF Saves, Value
    <3>2. Value(Edited(o, file.contents), k)
            \in {Value(file.contents, k), Nothing} \cup Backend
      BY <2>1, EditedValue DEF Saves
    <3>3. QED BY <1>1, <1>2, <1>4, <3>1, <3>2
  <2>2. CASE ~Saves(o)
    <3>1. UNCHANGED file
      BY <2>2, StepEffect DEF Ends, Proceeds, Sees, Resolves, LooksUp, Writes, WriteFails, Undoes
    <3>2. QED BY <1>2, <1>4, <3>1 DEF Value
  <2>3. QED BY <2>1, <2>2
<1>5. ASSUME NEW c \in Backend, x = store'[c][k] PROVE x \in Copies(k, P)
  <2>1. CASE UNCHANGED store BY <1>2, <1>5, <2>1
  <2>2. ASSUME NEW j \in job[o].todo, NEW secret, Stores(o, j, secret),
               j = k => secret \in Copies(k, P)
        PROVE  x \in Copies(k, P)
    <3>1. store'[c][k] \in {store[c][k]} \cup (IF j = k THEN {secret} ELSE {})
      BY <1>0, <2>2 DEF Stores, Secrets
    <3>2. QED BY <1>2, <1>5, <2>2, <3>1
  <2>3. ASSUME NEW j \in job[o].todo, at[o] = "put", Stores(o, j, job[o].held[j])
        PROVE  x \in Copies(k, P)
    BY <1>2, <2>2, <2>3
  <2>4. ASSUME NEW j \in job[o].todo, Stores(o, j, job[o].previous[j]) PROVE x \in Copies(k, P)
    BY <1>2, <2>2, <2>4
  <2>5. \/ UNCHANGED store
        \/ \E j \in job[o].todo : \/ at[o] = "put" /\ Stores(o, j, job[o].held[j])
                                 \/ Stores(o, j, job[o].previous[j])
    BY StepEffect
       DEF Ends, Proceeds, Sees, Saves, Resolves, LooksUp, Writes, WriteFails, Undoes
  <2>6. QED BY <2>1, <2>3, <2>4, <2>5
<1>6. ASSUME NEW q \in Process,
             x \in {Seen(q, k)', job'[q].previous[k]} \/ (q \in P /\ x = job'[q].held[k])
      PROVE  x \in Copies(k, P)
  <2>1. CASE x = Seen(q, k)'
    <3>1. Seen(q, k)' \in {Seen(q, k), Nothing, Value(file.contents, k)} BY SeenStep
    <3>2. QED BY <1>1, <1>2, <2>1, <3>1
  <2>2. CASE q # o
    <3>1. job'[q] = job[q] BY <2>2, Frame DEF ChangeInv
    <3>2. QED BY <1>2, <1>6, <2>1, <3>1
  <2>3. CASE q = o /\ (x = job'[o].previous[k] \/ (o \in P /\ x = job'[o].held[k]))
    <3>1. CASE Ends(o) \/ Sees(o)
      <4>1. job'[o].held[k] = Nothing /\ job'[o].previous[k] = Nothing
        BY <3>1, NoJobType DEF Ends, Sees, NoJob, Job
      <4>2. QED BY <1>1, <2>3, <4>1
    <3>2. CASE job'[o].held = job[o].held /\ job'[o].previous = job[o].previous
      BY <1>2, <2>3, <3>2
    <3>3. ASSUME NEW j \in job[o].todo, Resolves(o, j) PROVE x \in Copies(k, P)
      <4> DEFINE secret == IF Seen(o, j) \in Backend THEN store[Seen(o, j)][j] ELSE Seen(o, j)
      <4>1. job'[o].held = [job[o].held EXCEPT ![j] = secret] /\ job'[o].previous = job[o].previous
        BY <3>3 DEF Resolves
      <4>2. job'[o].held[k] = IF j = k THEN secret ELSE job[o].held[k]
        BY <1>0, <4>1 DEF Job, Secrets
      <4>3. j = k => secret \in Copies(k, P) BY <1>2
      <4>4. QED BY <1>2, <2>3, <4>1, <4>2, <4>3
    <3>4. ASSUME NEW j \in job[o].todo, LooksUp(o, j) PROVE x \in Copies(k, P)
      <4> DEFINE secret == store[request[o].backend][j]
      <4>1. job'[o].previous = [job[o].previous EXCEPT ![j] = secret] /\ job'[o].held = job[o].held
        BY <3>4 DEF LooksUp
      <4>2. job'[o].previous[k] = IF j = k THEN secret ELSE job[o].previous[k]
        BY <1>0, <4>1 DEF Job, Secrets
      <4>3. j = k => secret \in Copies(k, P) BY <1>0, <1>2
      <4>4. QED BY <1>2, <2>3, <4>1, <4>2, <4>3
    <3>5. Proceeds(o) \/ Saves(o)
            => job'[o].held = job[o].held /\ job'[o].previous = job[o].previous
      BY DEF Proceeds, Saves
    <3>6. \A j \in job[o].todo : Writes(o, j) \/ WriteFails(o, j) \/ Undoes(o, j)
            => job'[o].held = job[o].held /\ job'[o].previous = job[o].previous
      BY <1>0 DEF Writes, WriteFails, Undoes, Job
    <3>7. QED BY <3>1, <3>2, <3>3, <3>4, <3>5, <3>6, StepEffect
  <2>4. QED BY <1>6, <2>1, <2>2, <2>3
<1>7. QED BY <1>3, <1>4, <1>5, <1>6

-----------------------------------------------------------------------------
(* What a migration moves.                                                  *)

LEMMA PlainIsHeldKept ==
  ASSUME ChangeInv, JobShape, PlainIsHeld, NEW o \in Process, Change(o), UNCHANGED request
  PROVE  PlainIsHeld'
<1> DEFINE later == {"backup", "update", "begin", "put", "save"}
           Plain(q) == \A k \in Visited(q, "resolve", later) :
                         Seen(q, k) \notin Backend => job[q].held[k] = Seen(q, k)
<1>0. \A q \in Process : Kind(q) = "migrate" => Plain(q) BY DEF PlainIsHeld
<1>1. \A q \in Process : Kind(q)' = Kind(q) BY DEF Kind
<1>2. \A q \in Process : Visited(q, "resolve", later) \subseteq Key
  BY DEF Visited, ChangeInv, Progress, Job
<1>3. ASSUME NEW q \in Process, q # o, Kind(q) = "migrate" PROVE Plain(q)'
  <2>1. at'[q] = at[q] /\ job'[q] = job[q] BY <1>3, Frame DEF ChangeInv
  <2>2. \A k \in Key : Seen(q, k)' = Seen(q, k) BY <1>3, SeenStep
  <2>3. QED BY <1>0, <1>2, <1>3, <2>1, <2>2, VisitedStays
<1>4. ASSUME Kind(o) = "migrate" PROVE Plain(o)'
  <2>0. job[o] \in Job BY DEF ChangeInv, Progress
  <2>1. CASE Ends(o) \/ Sees(o) BY <2>1 DEF Ends, Sees, Visited
  <2>2. ASSUME NEW A, A \subseteq Visited(o, "resolve", later),
               Visited(o, "resolve", later)' \subseteq A,
               \A k \in A : job'[o].held[k] = job[o].held[k], ~Ends(o) /\ ~Sees(o)
        PROVE  Plain(o)'
    BY <1>0, <1>2, <1>4, <2>2, SeenStep
  <2>3. CASE Proceeds(o) \/ Saves(o)
    <3>1. job'[o] = job[o] /\ (at'[o] \in later => at[o] \in later) /\ at'[o] # "resolve"
      BY <1>4, <2>3 DEF Proceeds, Saves, AfterIntent
    <3>2. Visited(o, "resolve", later)' \subseteq Visited(o, "resolve", later)
      BY <3>1 DEF Visited
    <3>3. (~Ends(o) /\ ~Sees(o)) \/ Visited(o, "resolve", later)' = {}
      BY DEF Ends, Sees, Visited
    <3>4. QED BY <2>2, <3>1, <3>2, <3>3
  <2>4. ASSUME NEW k \in job[o].todo, Resolves(o, k) PROVE Plain(o)'
    <3>1. at[o] = "resolve" /\ Moves(o, k, "backup") BY <2>4 DEF Resolves
    <3>2. \A j \in Visited(o, "resolve", later)' : j = k \/ j \in Visited(o, "resolve", later)
      BY <3>1 DEF Visited, Moves
    <3>3. k \in Key BY <2>0 DEF Job
    <3>4. \A j \in Key : job'[o].held[j] =
            IF j # k THEN job[o].held[j]
            ELSE IF Seen(o, k) \in Backend THEN store[Seen(o, k)][k] ELSE Seen(o, k)
      BY <2>0, <2>4 DEF Resolves, Job, Secrets
    <3>5. ~Ends(o) /\ ~Sees(o) BY <3>1, <2>4 DEF Ends, Sees, Moves
    <3>6. \A j \in Key : Seen(o, j)' = Seen(o, j) BY <3>5, SeenStep
    <3>7. QED BY <1>0, <1>2, <1>4, <3>2, <3>3, <3>4, <3>6
  <2>5. ASSUME NEW k \in job[o].todo, LooksUp(o, k) \/ Writes(o, k) PROVE Plain(o)'
    <3>1. at[o] \in later \/ at[o] = "backupSet" BY <2>5 DEF LooksUp, Writes
    <3>2. at[o] # "backupSet" BY <1>4 DEF JobShape
    <3>3. at'[o] \notin {"resolve", "done"} /\ at[o] # "start" /\ job'[o].held = job[o].held
          /\ job'[o].keys = job[o].keys
      BY <2>5 DEF LooksUp, Writes, Moves
    <3>4. Visited(o, "resolve", later)' \subseteq Visited(o, "resolve", later)
      BY <3>1, <3>2, <3>3 DEF Visited
    <3>5. ~Ends(o) /\ ~Sees(o) BY <3>3 DEF Ends, Sees
    <3>6. QED BY <2>2, <3>3, <3>4, <3>5
  <2>6. ASSUME NEW k \in job[o].todo, WriteFails(o, k) \/ Undoes(o, k) PROVE Plain(o)'
    BY <2>6 DEF WriteFails, Undoes, Visited
  <2>7. QED BY <2>1, <2>3, <2>4, <2>5, <2>6, StepEffect
<1>5. QED BY <1>1, <1>3, <1>4 DEF PlainIsHeld

LEMMA MoveInitially == Init => MoveInv
<1> SUFFICES ASSUME Init PROVE MoveInv OBVIOUS
<1>1. JobShape /\ AsRequested BY ShapeInitially DEF Init, AsRequested
<1>2. \A o \in Process : at[o] = IF Kind(o) = "migrate" THEN "start" ELSE "update" BY DEF Init
<1>3. PlainIsHeld BY <1>2 DEF PlainIsHeld, Visited
<1>4. StoredIsHeld BY <1>2 DEF StoredIsHeld, Visited
<1>5. QED BY <1>1, <1>3, <1>4 DEF MoveInv

LEMMA MoveStep == ASSUME ChangeInv, MoveInv, [Next]_vars PROVE MoveInv'
<1> USE DEF MoveInv
<1>1. ASSUME NEW o \in Process, Change(o), UNCHANGED request PROVE MoveInv'
  BY <1>1, ShapeKept, PlainIsHeldKept, StoredIsHeldKept DEF AsRequested
<1>2. CASE UNCHANGED <<request, at, job, store, file>>
  <2>1. \A q \in Process : /\ Kind(q)' = Kind(q) /\ Wanted(q)' = Wanted(q)
                           /\ \A k \in Key : Seen(q, k)' = Seen(q, k)
    BY <1>2, SeenStays
  <2>2. JobShape' BY <1>2, <2>1 DEF JobShape
  <2>3. PlainIsHeld' BY <1>2, <2>1 DEF PlainIsHeld, Visited, Seen
  <2>4. StoredIsHeld' /\ AsRequested' BY <1>2 DEF StoredIsHeld, AsRequested, Visited
  <2>5. QED BY <2>2, <2>3, <2>4
<1>3. QED BY <1>1, <1>2, WhoSteps

\* A step leaves alone what a credential resolves to.
KeepsSecret(k) ==
  Resolved(file.contents, store, k[1], k[2])' = Resolved(file.contents, store, k[1], k[2])

LEMMA ResolvedValue ==
  ASSUME NEW contents, NEW secrets, NEW k \in Key
  PROVE  Resolved(contents, secrets, k[1], k[2]) =
           LET v == Value(contents, k) IN IF v \in Backend THEN secrets[v][k] ELSE v
<1>1. k = <<k[1], k[2]>> BY DEF Key
<1>2. QED BY <1>1 DEF Resolved, Value

\* Nothing changes if what is written where a credential refers to is what is there.
LEMMA MigrationStores ==
  ASSUME ChangeInv, NEW b \in Backend, NEW k \in Key, NEW j \in Key, NEW secret,
         store' = [store EXCEPT ![b][j] = secret], UNCHANGED file,
         j = k /\ Value(file.contents, k) = b => secret = store[b][k]
  PROVE  KeepsSecret(k)
<1> DEFINE v == Value(file.contents, k)
<1>1. store \in [Backend -> Secrets] BY DEF ChangeInv, Progress
<1>2. \A c \in Backend : store'[c][k] = IF c = b /\ j = k THEN secret ELSE store[c][k]
  BY <1>1 DEF Secrets
<1>3. v \in Backend => store'[v][k] = store[v][k] BY <1>2
<1>4. Value(file.contents, k)' = v BY DEF Value
<1> HIDE DEF v
<1>5. Resolved(file.contents, store, k[1], k[2])' = IF v \in Backend THEN store'[v][k] ELSE v
  BY <1>4, ResolvedValue
<1>6. Resolved(file.contents, store, k[1], k[2]) = IF v \in Backend THEN store[v][k] ELSE v
  BY ResolvedValue DEF v
<1>7. QED BY <1>3, <1>5, <1>6 DEF KeepsSecret

\* What the new references refer to is what the migration saw, unless overtaken.
LEMMA MigrationSaves ==
  ASSUME ChangeInv, MoveInv, NEW o \in Process, Kind(o) = "migrate", Saves(o),
         NEW k \in Key, ~Overtaken(o, k)
  PROVE  KeepsSecret(k)
<1> DEFINE b == request[o].backend
           old == Value(file.contents, k)
           new == Value(Edited(o, file.contents), k)
<1>0. /\ at[o] = "save" /\ UNCHANGED store /\ Allowed(o, file.contents)
      /\ file'.contents = Edited(o, file.contents)
  BY DEF Saves
<1>1. new = IF k \in job[o].keys THEN b ELSE old BY <1>0, EditedValue DEF MoveInv
<1>2. Value(file.contents, k)' = new BY <1>0 DEF Value
<1>3. b \in Backend BY DEF ChangeInv, Progress, RequestsOK, Request
<1> HIDE DEF b, new
<1>4. KeepsSecret(k) <=> (IF new \in Backend THEN store[new][k] ELSE new)
                         = (IF old \in Backend THEN store[old][k] ELSE old)
  BY <1>0, <1>2, ResolvedValue DEF KeepsSecret
<1>5. CASE k \notin job[o].keys BY <1>1, <1>4, <1>5
<1>6. CASE k \in job[o].keys
  <2>1. Seen(o, k) # Nothing BY <1>0, <1>6 DEF MoveInv, JobShape, Wanted
  <2>2. old = Seen(o, k) BY <1>0, <2>1, SeenIsThere DEF Decided
  <2>3. job[o].held[k] = IF old \in Backend THEN store[old][k] ELSE old
    BY <1>0, <1>6, <2>2 DEF MoveInv, PlainIsHeld, Visited, Overtaken
  <2>4. store[b][k] = job[o].held[k] BY <1>0, <1>6 DEF MoveInv, StoredIsHeld, Visited, b
  <2>5. QED BY <1>1, <1>3, <1>4, <1>6, <2>3, <2>4
<1>7. QED BY <1>5, <1>6

LEMMA MigrationStep ==
  ASSUME ChangeInv, MoveInv, NEW o \in Process, Kind(o) = "migrate", Change(o),
         UNCHANGED request, NEW k \in Key, ~Overtaken(o, k)
  PROVE  KeepsSecret(k)
<1> DEFINE b == request[o].backend
<1>0. JobShape /\ job[o] \in Job /\ b \in Backend
  BY DEF MoveInv, ChangeInv, Progress, RequestsOK, Request
<1>1. CASE UNCHANGED <<file, store>> BY <1>1 DEF KeepsSecret
<1>2. CASE Saves(o) BY <1>2, MigrationSaves
<1>3. ASSUME NEW j \in job[o].todo, NEW secret, Stores(o, j, secret), UNCHANGED file,
             at[o] \in {"put", "rollback"},
             secret = job[o].held[j] \/ secret = job[o].previous[j]
      PROVE  KeepsSecret(k)
  <2>1. j \in job[o].keys /\ j \in Key BY <1>0, <1>3 DEF JobShape, Job
  <2>2. store' = [store EXCEPT ![b][j] = secret] BY <1>3 DEF Stores
  <2>3. ASSUME j = k, Value(file.contents, k) = b PROVE secret = store[b][k]
    <3>1. Seen(o, k) # Nothing BY <1>0, <1>3, <2>1, <2>3 DEF JobShape, Wanted
    <3>2. Seen(o, k) = b BY <1>3, <2>3, <3>1, SeenIsThere DEF Decided
    <3>3. store[b][k] = job[o].held[k] /\ job[o].previous[k] = job[o].held[k]
      BY <1>0, <3>2 DEF Overtaken
    <3>4. QED BY <1>3, <2>3, <3>3
  <2>4. QED BY <1>0, <1>3, <2>1, <2>2, <2>3, MigrationStores
<1>4. ASSUME NEW j \in job[o].todo, Writes(o, j) \/ WriteFails(o, j) \/ Undoes(o, j)
      PROVE  KeepsSecret(k)
  <2>1. at[o] \in {"put", "rollback"} /\ UNCHANGED file
    BY <1>4 DEF Writes, WriteFails, Undoes
  <2>2. \/ UNCHANGED store
        \/ Stores(o, j, job[o].held[j]) \/ Stores(o, j, job[o].previous[j])
    BY <1>4 DEF Writes, WriteFails, Undoes
  <2>3. QED BY <1>1, <1>3, <2>1, <2>2
<1>5. Ends(o) \/ Proceeds(o) \/ Sees(o) => UNCHANGED <<file, store>> BY DEF Ends, Proceeds, Sees
<1>6. \A j \in job[o].todo : Resolves(o, j) \/ LooksUp(o, j) => UNCHANGED <<file, store>>
  BY DEF Resolves, LooksUp
<1>7. QED BY <1>1, <1>2, <1>4, <1>5, <1>6, StepEffect

\* Whatever the commands are asked for, and wherever they fail or die: a step of a
\* migration changes what a credential of a context resolves to only where the
\* secret behind the reference that it saw was replaced in the meantime.
THEOREM MigrationsKeepSecrets == Spec => MigrationKeepsUnlessOvertaken
<1> DEFINE Kept(o) == \A n \in Name, s \in Slot :
             \/ Resolved(file'.contents, store', n, s) = Resolved(file.contents, store, n, s)
             \/ Overtaken(o, <<n, s>>)
<1>1. Init => MoveInv BY MoveInitially
<1>2. ChangeInv /\ MoveInv /\ [Next]_vars => MoveInv' BY MoveStep
<1>3. ChangeInv /\ MoveInv /\ [Next]_vars => [\A o \in Process : Migrates(o) => Kept(o)]_vars
  <2> SUFFICES ASSUME ChangeInv, MoveInv, [Next]_vars, NEW o \in Process, Migrates(o),
                      NEW n \in Name, NEW s \in Slot, ~Overtaken(o, <<n, s>>)
               PROVE  Resolved(file'.contents, store', n, s) = Resolved(file.contents, store, n, s)
    OBVIOUS
  <2>0. Kind(o) = "migrate" /\ <<at[o], job[o], stage[o]>>' # <<at[o], job[o], stage[o]>>
    BY DEF Migrates
  <2>1. PICK p \in Process : Change(p) /\ UNCHANGED request BY <2>0, WhoSteps
  <2>2. p = o BY <2>0, <2>1, Frame DEF ChangeInv
  <2> DEFINE k == <<n, s>>
  <2>3. k \in Key /\ k[1] = n /\ k[2] = s BY DEF Key
  <2>4. ~Overtaken(o, k) OBVIOUS
  <2> HIDE DEF k
  <2>5. KeepsSecret(k) BY <2>0, <2>1, <2>2, <2>3, <2>4, MigrationStep
  <2>6. QED BY <2>3, <2>5 DEF KeepsSecret
<1>4. QED BY <1>1, <1>2, <1>3, ChangeSafe, PTL DEF Spec, MigrationKeepsUnlessOvertaken

-----------------------------------------------------------------------------
(* ctx set that fails.                                                      *)

\* A command does not touch what is to be recorded of another.
LEMMA StatusFrame ==
  ASSUME Progress, NEW o \in Process, Change(o), NEW q \in Process, q # o
  PROVE  status'[q] = status[q]
<1> USE DEF Progress
<1>1. CASE Snapshot(o) \/ Resolve(o) \/ BackupMigration(o) \/ Open(o) \/ CannotOpen(o)
           \/ Permit(o) \/ Begin(o) \/ Put(o) \/ Finish(o) \/ Mark(o) \/ Die(o)
  BY <1>1 DEF Snapshot, Resolve, BackupMigration, Open, CannotOpen, Permit, Begin, Put, Finish,
              Mark, Die, changeVars
<1>2. CASE BackupSet(o) BY <1>2 DEF BackupSet, Fail
<1>3. CASE Rollback(o) BY <1>3 DEF Rollback, Fail
<1>4. CASE Save(o) BY <1>4 DEF Save
<1>5. QED BY <1>1, <1>2, <1>3, <1>4 DEF Change

LEMMA EndsOutsideKept ==
  ASSUME ChangeInv, EndsOutside, NEW o \in Process, Change(o) PROVE EndsOutside'
<1> DEFINE outside == {"start", "resolve", "backup", "finish", "doubt", "done"}
<1>0. Progress /\ stage \in [Process -> Stage] BY DEF ChangeInv, StoreInv, LockType
<1>1. ASSUME NEW q \in Process, q # o, at'[q] \in outside PROVE stage'[q] # "inside"
  BY <1>1, Frame DEF ChangeInv, EndsOutside
<1>2. ASSUME at'[o] \in outside PROVE stage'[o] # "inside"
  <2>1. CASE GiveUp(o) \/ Reject(o) \/ Abandon(o) \/ (\E contents : Replace(o, contents))
    BY <1>0, <2>1 DEF GiveUp, Reject, Abandon, Replace, Release
  <2>2. CASE Snapshot(o) \/ Resolve(o) \/ BackupMigration(o) \/ Finish(o) \/ Mark(o)
    <3>1. at[o] \in outside /\ UNCHANGED stage
      BY <2>2 DEF Snapshot, Resolve, BackupMigration, Finish, Mark, storeVars
    <3>2. QED BY <3>1 DEF EndsOutside
  <2>3. CASE Open(o)
    <3>1. at'[o] = "update" BY <2>3 DEF Open, changeVars
    <3>2. QED BY <1>2, <3>1
  <2>4. CASE CannotOpen(o) BY <2>1, <2>4 DEF CannotOpen
  <2>5. CASE Permit(o) \/ Begin(o)
    <3>1. Reject(o) \/ Go(o, "begin") \/ Go(o, AfterIntent(o)) BY <2>5 DEF Permit, Begin
    <3>2. Go(o, "begin") \/ Go(o, AfterIntent(o)) => at'[o] \notin outside
      BY <1>0 DEF Go, AfterIntent, Progress
    <3>3. QED BY <1>2, <2>1, <3>1, <3>2
  <2>6. CASE BackupSet(o)
    <3>1. CASE Reject(o) BY <2>1, <3>1
    <3>2. ASSUME NEW k \in job[o].todo, NEW found, at[o] = "backupSet", Visit(o, k, found, "put")
          PROVE  at'[o] \notin outside
      BY <1>0, <3>2 DEF Visit, Go, Progress
    <3>3. QED BY <1>2, <2>6, <3>1, <3>2 DEF BackupSet, Fail
  <2>7. CASE Put(o)
    <3>1. \E k \in job[o].todo : Writes(o, k) \/ WriteFails(o, k) BY <2>7, PutWrites
    <3>2. at'[o] \notin outside BY <3>1 DEF Writes, WriteFails, Moves
    <3>3. QED BY <1>2, <3>2
  <2>8. CASE Rollback(o)
    <3>1. CASE Reject(o) BY <2>1, <3>1
    <3>2. CASE UNCHANGED at /\ at[o] = "rollback" BY <1>2, <3>2
    <3>3. QED BY <2>8, <3>1, <3>2 DEF Rollback, Fail
  <2>9. CASE Save(o) BY <2>1, <2>9 DEF Save
  <2>10. CASE Die(o) BY <2>1, <2>10 DEF Die, storeVars
  <2>11. QED BY <2>2, <2>3, <2>4, <2>5, <2>6, <2>7, <2>8, <2>9, <2>10 DEF Change
<1>3. QED BY <1>1, <1>2 DEF EndsOutside

LEMMA NotYetKnownInitially == ASSUME Init, NewSecrets PROVE NotYetKnown
<1>0. Progress /\ AsRequested /\ JobShape
  BY InitHolds, ShapeInitially DEF ChangeInv, Init, AsRequested
<1> SUFFICES ASSUME NEW o \in Process, Kind(o) = "set", at[o] = "update", NEW k \in job[o].keys
             PROVE  job[o].held[k] \notin Copies(k, Process \ {o})
  BY DEF NotYetKnown, Init
<1> DEFINE given == job[o].held[k]
           n == k[1]
           s == k[2]
<1>1. k \in GivenKeys(o) /\ k \in Key
  <2>1. k \in GivenKeys(o) BY <1>0 DEF JobShape, Wanted
  <2>2. QED BY <1>0, <2>1, GivenIsSecret
<1>2. given = request[o].item.credential[s] /\ given \in Secret
  BY <1>0, <1>1, GivenIsSecret DEF JobShape
<1>3. n \in Name /\ s \in Slot /\ k = <<n, s>> BY <1>1 DEF Key
<1> HIDE DEF n, s
<1>4. /\ given # Stored
      /\ Value(file.contents, k) # given
      /\ \A p \in Process \ {o} : Kind(p) = "set" => request[p].item.credential[s] # given
  <2>1. request[o] \in Requests[o] /\ request[o].kind = "set" BY <1>0 DEF AsRequested, Kind
  <2>2. /\ given # Stored
        /\ \A start \in Initial, m \in Name : Value(start.contents, <<m, s>>) # given
        /\ \A p \in Process \ {o} : \A q \in Requests[p] :
             q.kind = "set" => q.item.credential[s] # given
    BY <1>2, <1>3, <2>1 DEF NewSecrets
  <2>3. file \in Initial BY DEF Init
  <2> HIDE DEF given
  <2>4. QED BY <1>0, <1>3, <2>2, <2>3 DEF AsRequested, Kind
<1>5. ASSUME NEW p \in Process
      PROVE  /\ Seen(p, k) = Nothing /\ job[p].previous[k] = Nothing
             /\ p # o => job[p].held[k] # given
  <2>1. job[p] = FirstJob(p) BY DEF Init
  <2>2. /\ FirstJob(p).snapshot = NoJob.snapshot /\ FirstJob(p).previous = NoJob.previous
        /\ FirstJob(p).held = [j \in Key |-> IF j \in GivenKeys(p)
                                 THEN request[p].item.credential[j[2]] ELSE Nothing]
    BY NoJobType DEF FirstJob, Job
  <2>3. DOMAIN job[p].snapshot = {} /\ job[p].previous[k] = Nothing
    BY <1>1, <2>1, <2>2 DEF NoJob
  <2>4. Seen(p, k) = Nothing BY <2>3 DEF Seen
  <2>5. job[p].held[k] = IF k \in GivenKeys(p) THEN request[p].item.credential[s] ELSE Nothing
    BY <1>1, <2>1, <2>2 DEF s
  <2>6. k \in GivenKeys(p) => Kind(p) = "set" BY DEF GivenKeys
  <2> HIDE DEF given
  <2>7. p # o => job[p].held[k] # given BY <1>2, <1>4, <2>5, <2>6, ControlAssumption
  <2>8. QED BY <2>3, <2>4, <2>7
<1>6. \A c \in Backend : store[c][k] \in {Stored, Nothing} BY <1>1 DEF Init
<1> HIDE DEF given
<1>7. given \notin Copies(k, Process \ {o})
  BY <1>2, <1>4, <1>5, <1>6, ControlAssumption DEF Copies
<1>8. QED BY <1>7 DEF given

LEMMA NotYetKnownKept ==
  ASSUME ChangeInv, JobShape, AsRequested, NotYetKnown, NEW o \in Process, Change(o),
         UNCHANGED request
  PROVE  NotYetKnown'
<1> SUFFICES ASSUME NEW q \in Process, Kind(q) = "set", at'[q] \in {"update", "begin", "backupSet"},
                    NEW k \in job'[q].keys
             PROVE  job'[q].held[k] \notin Copies(k, Process \ {q})'
  BY DEF NotYetKnown, Kind
<1>0. Progress /\ (\A p \in Process : job[p] \in Job) BY DEF ChangeInv, Progress
<1>1. /\ at[q] \in {"update", "begin", "backupSet"}
      /\ job'[q].keys = job[q].keys /\ job'[q].held = job[q].held
  <2>1. CASE q # o BY <2>1, Frame DEF ChangeInv
  <2>2. CASE q = o /\ Proceeds(o) BY <2>2 DEF Proceeds, AfterIntent
  <2>3. ~Ends(q) /\ ~Saves(q) /\ (q = o => ~Sees(o)) BY DEF Ends, Saves, Sees, JobShape
  <2>4. ASSUME NEW j \in job[o].todo, q = o,
               Resolves(o, j) \/ LooksUp(o, j) \/ Writes(o, j) \/ WriteFails(o, j) \/ Undoes(o, j)
        PROVE  LooksUp(o, j) /\ at[o] = "backupSet"
    BY <2>4 DEF Resolves, LooksUp, Writes, WriteFails, Undoes, Moves, JobShape
  <2>5. ASSUME NEW j \in job[o].todo, q = o, LooksUp(o, j), at[o] = "backupSet"
        PROVE  /\ at[q] = "backupSet"
               /\ job'[q].keys = job[q].keys /\ job'[q].held = job[q].held
    BY <2>5 DEF LooksUp, Moves
  <2>6. QED BY <2>1, <2>2, <2>3, <2>4, <2>5, StepEffect
<1>2. k \in Key /\ job[q].held[k] \in Secret
  <2>1. job[q].keys = GivenKeys(q) BY <1>1 DEF JobShape, Wanted
  <2>2. k \in GivenKeys(q) BY <1>1, <2>1
  <2>3. k \in Key /\ request[q].item.credential[k[2]] \in Secret BY <1>0, <2>2, GivenIsSecret
  <2>4. job[q].held[k] = request[q].item.credential[k[2]] BY <1>1 DEF JobShape
  <2>5. QED BY <2>3, <2>4
<1>3. job[q].held[k] \notin Copies(k, Process \ {q}) BY <1>1 DEF NotYetKnown
<1>4. o \in Process \ {q} \/ at[o] # "put" BY <1>1
<1> DEFINE P == Process \ {q}
           x == job[q].held[k]
<1>5. P \in SUBSET Process /\ (o \in P \/ at[o] # "put") /\ x \in Secret /\ x \notin Copies(k, P)
  BY <1>2, <1>3, <1>4
<1> HIDE DEF P, x
<1>6. x \notin Copies(k, P)'
  BY ONLY <1>2, <1>5, CopiesStep, ChangeInv, JobShape, AsRequested, o \in Process, Change(o),
          UNCHANGED request
<1>7. QED BY <1>1, <1>6 DEF P, x

\* What compensation has undone is gone from the backend.
LEMMA UndoneAt ==
  ASSUME Progress, JobShape, Undone, NEW o \in Process, Kind(o) = "set",
         NEW k \in job[o].todo, Undoes(o, k), status'[o] # "uncertain"
  PROVE  \A j \in job'[o].keys \ job'[o].todo : store'[request[o].backend][j] # job[o].held[j]
<1>0. /\ job[o] \in Job /\ request[o].backend \in Backend /\ store \in [Backend -> Secrets]
      /\ job[o].keys \subseteq Key /\ job[o].todo \subseteq Key
  BY DEF Progress, RequestsOK, Request, Job
<1>1. /\ at[o] = "rollback" /\ job'[o].keys = job[o].keys /\ job'[o].todo = job[o].todo \ {k}
  BY <1>0 DEF Undoes, Job
<1>2. Stores(o, k, job[o].previous[k]) /\ status[o] # "uncertain" BY DEF Undoes
<1>3. \A j \in Key : store'[request[o].backend][j] =
        IF j = k THEN job[o].previous[k] ELSE store[request[o].backend][j]
  BY <1>0, <1>2 DEF Stores, Secrets
<1>4. /\ \A j \in job[o].keys : job[o].previous[j] # job[o].held[j]
      /\ \A j \in job[o].keys \ job[o].todo : store[request[o].backend][j] # job[o].held[j]
  BY <1>1, <1>2 DEF Undone
<1>5. QED BY <1>0, <1>1, <1>3, <1>4

LEMMA UndoneKept ==
  ASSUME ChangeInv, JobShape, AsRequested, NotYetKnown, Undone, NEW o \in Process, Change(o),
         UNCHANGED request
  PROVE  Undone'
<1> DEFINE Fresh(q) == \A k \in job[q].keys : job[q].previous[k] # job[q].held[k]
           Clean(q, K) == \A k \in K : store[request[q].backend][k] # job[q].held[k]
           Ok(q) == /\ at[q] \in {"put", "rollback"} => Fresh(q)
                    /\ at[q] = "put" => Clean(q, job[q].todo)
                    /\ at[q] = "rollback" /\ status[q] # "uncertain" =>
                         Clean(q, job[q].keys \ job[q].todo)
<1>0. /\ Progress /\ \A q \in Process : Kind(q) = "set" => Ok(q)
      /\ job[o] \in Job /\ request[o].backend \in Backend /\ store \in [Backend -> Secrets]
      /\ job[o].keys \subseteq Key /\ job[o].todo \subseteq Key
  BY DEF ChangeInv, Progress, Undone, RequestsOK, Request, Job
<1>1. UNCHANGED store \/ at[o] \in {"put", "rollback"}
  BY StepEffect DEF Ends, Proceeds, Sees, Saves, Resolves, LooksUp, Writes, WriteFails, Undoes
<1>2. ASSUME NEW q \in Process, q # o, Kind(q) = "set" PROVE Ok(q)'
  <2>1. at'[q] = at[q] /\ job'[q] = job[q] /\ status'[q] = status[q]
    BY <1>0, <1>2, Frame, StatusFrame DEF ChangeInv
  <2>2. CASE at[q] \notin {"put", "rollback"} BY <2>1, <2>2
  <2>3. CASE at[q] \in {"put", "rollback"}
    <3>1. at[o] \notin Decided BY <1>2, <2>3, DecidedAlone DEF Decided
    <3>2. UNCHANGED store BY <1>1, <3>1 DEF Decided
    <3>3. QED BY <1>0, <1>2, <2>1, <3>2
  <2>4. QED BY <2>2, <2>3
<1>3. ASSUME Kind(o) = "set" PROVE Ok(o)'
  <2>1. CASE at'[o] \notin {"put", "rollback"} BY <2>1
  <2>2. Ends(o) \/ Proceeds(o) \/ Sees(o) \/ Saves(o) => at'[o] \notin {"put", "rollback"}
    BY <1>3 DEF Ends, Proceeds, Sees, Saves, AfterIntent
  <2>3. \A k \in job[o].todo : Resolves(o, k) => at'[o] \notin {"put", "rollback"}
    BY DEF Resolves, Moves
  <2>4. ASSUME NEW k \in job[o].todo, LooksUp(o, k), at'[o] \in {"put", "rollback"} PROVE Ok(o)'
    <3>1. at[o] = "backupSet" /\ at'[o] = "put" /\ job'[o].keys = job[o].keys
          /\ job'[o].todo = job[o].keys /\ job'[o].held = job[o].held /\ UNCHANGED store
      BY <2>4 DEF LooksUp, Moves
    <3> DEFINE P == Process \ {o}
    <3>2. \A j \in job[o].keys : job[o].held[j] \notin Copies(j, P)
      BY <1>3, <3>1 DEF NotYetKnown
    <3>3. Clean(o, job[o].keys) BY <1>0, <3>2 DEF Copies
    <3>4. \A j \in job[o].keys : job'[o].previous[j] # job[o].held[j]
      <4> SUFFICES ASSUME NEW j \in job[o].keys PROVE job'[o].previous[j] # job[o].held[j]
        OBVIOUS
      <4>1. j \in Key BY <1>0
      <4>2. job'[o].previous[j] = IF j = k THEN store[request[o].backend][j] ELSE job[o].previous[j]
        BY <1>0, <2>4, <4>1 DEF LooksUp, Job, Secrets
      <4>3. {store[request[o].backend][j], job[o].previous[j]} \subseteq Copies(j, P)
        BY <1>0 DEF Copies
      <4>4. QED BY <3>2, <4>2, <4>3
    <3>5. QED BY <3>1, <3>3, <3>4
  <2>5. ASSUME NEW k \in job[o].todo, Writes(o, k), at'[o] \in {"put", "rollback"} PROVE Ok(o)'
    <3>1. at[o] = "put" /\ at'[o] = "put" /\ job'[o].keys = job[o].keys
          /\ job'[o].todo = job[o].todo \ {k} /\ job'[o].held = job[o].held
          /\ job'[o].previous = job[o].previous
      BY <2>5 DEF Writes, Moves
    <3>2. \A j \in Key \ {k} : store'[request[o].backend][j] = store[request[o].backend][j]
      BY <1>0, <2>5 DEF Writes, Stores, Secrets
    <3>3. QED BY <1>0, <1>3, <3>1, <3>2
  <2>6. ASSUME NEW k \in job[o].todo, WriteFails(o, k) PROVE Ok(o)'
    <3>1. /\ at[o] = "put" /\ at'[o] = "rollback" /\ job'[o].keys = job[o].keys
          /\ job'[o].todo = (job[o].keys \ job[o].todo) \cup {k}
          /\ job'[o].held = job[o].held /\ job'[o].previous = job[o].previous
      BY <1>0, <2>6 DEF WriteFails, Job
    <3>2. \A j \in Key \ {k} : store'[request[o].backend][j] = store[request[o].backend][j]
      BY <1>0, <2>6 DEF WriteFails, Stores, Secrets
    <3>3. job'[o].keys \ job'[o].todo \subseteq job[o].todo \ {k} BY <3>1
    <3>4. QED BY <1>0, <1>3, <3>1, <3>2, <3>3
  <2>7. ASSUME NEW k \in job[o].todo, Undoes(o, k) PROVE Ok(o)'
    <3>1. /\ at[o] = "rollback" /\ job'[o].keys = job[o].keys
          /\ job'[o].todo = job[o].todo \ {k}
          /\ job'[o].held = job[o].held /\ job'[o].previous = job[o].previous
      BY <1>0, <2>7 DEF Undoes, Job
    <3>2. ASSUME status'[o] # "uncertain", NEW j \in job'[o].keys \ job'[o].todo
          PROVE  store'[request[o].backend][j] # job'[o].held[j]
      BY <1>0, <1>3, <2>7, <3>1, <3>2, UndoneAt
    <3>3. at'[o] # "put" BY <2>7 DEF Undoes
    <3>4. QED BY <1>0, <1>3, <3>1, <3>2, <3>3
  <2>8. QED BY <2>1, <2>2, <2>3, <2>4, <2>5, <2>6, <2>7, StepEffect
<1>4. QED BY <1>2, <1>3 DEF Undone, Kind

\* How ctx set leaves its update when it is recorded as failed.
LEMMA FailedSet ==
  ASSUME ChangeInv, JobShape, NotYetKnown, Undone, EndsOutside, NEW o \in Process, Change(o),
         stage[o] = "inside", at'[o] = "finish", status'[o] = "failed", GivenKeys(o) # {}
  PROVE  /\ \A k \in GivenKeys(o) : store'[request[o].backend][k] # job[o].held[k]
         /\ file' = file
<1>0. /\ Progress /\ job[o] \in Job /\ request[o].backend \in Backend
  BY DEF ChangeInv, Progress, RequestsOK, Request
<1>1. Kind(o) = "set" BY DEF GivenKeys
<1>2. at[o] \notin {"start", "resolve", "backup", "finish", "doubt", "done"} BY DEF EndsOutside
<1>3. job[o].keys = GivenKeys(o) BY <1>1, <1>2 DEF JobShape, Wanted
<1>4. Unclear(o) = "uncertain" BY <1>3 DEF Unclear
<1>5. CASE Proceeds(o)
  <2>1. UNCHANGED <<file, store>> /\ (at[o] = "save" => status'[o] = "uncertain")
    BY <1>4, <1>5 DEF Proceeds
  <2>2. at[o] = "backupSet" BY <1>2, <1>5, <2>1 DEF Proceeds, AfterIntent
  <2>3. \A k \in job[o].keys : job[o].held[k] \notin Copies(k, Process \ {o})
    BY <1>1, <2>2 DEF NotYetKnown
  <2>4. \A k \in job[o].keys : store[request[o].backend][k] # job[o].held[k]
    BY <1>0, <2>3 DEF Copies
  <2>5. QED BY <1>3, <2>1, <2>4
<1>6. ASSUME NEW k \in job[o].todo, Undoes(o, k)
      PROVE  /\ \A j \in job[o].keys : store'[request[o].backend][j] # job[o].held[j]
             /\ file' = file
  <2>1. job'[o].keys = job[o].keys /\ job'[o].todo = {} BY <1>0, <1>6 DEF Undoes, Job
  <2>2. QED BY <1>0, <1>1, <1>6, <2>1, UndoneAt DEF Undoes
<1>7. ~Saves(o) BY <1>4 DEF Saves
<1>8. ~Ends(o) /\ ~Sees(o) BY DEF Ends, Sees
<1>9. \A k \in job[o].todo :
        ~Resolves(o, k) /\ ~LooksUp(o, k) /\ ~Writes(o, k) /\ ~WriteFails(o, k)
  BY <1>2 DEF Resolves, LooksUp, Writes, WriteFails, Moves
<1>10. QED BY <1>3, <1>5, <1>6, <1>7, <1>8, <1>9, StepEffect

\* ctx set that leaves its update as failed, and not as uncertain, leaves no secret
\* it was given in the backend and nothing changed in the file, if the secrets
\* it is given are new.
THEOREM FailedSetsLeaveNothing == ASSUME NewSecrets PROVE Spec => FailedSetLeavesNothing
<1> DEFINE Inv == JobShape /\ AsRequested /\ NotYetKnown /\ Undone /\ EndsOutside
           Failed(o) == stage[o] = "inside" /\ at'[o] = "finish" /\ status'[o] = "failed"
                          /\ GivenKeys(o) # {}
           Nowhere(o) == /\ \A k \in GivenKeys(o) : store'[request[o].backend][k] # job[o].held[k]
                         /\ file' = file
<1>1. Init => Inv
  <2> SUFFICES ASSUME Init PROVE Inv OBVIOUS
  <2>1. \A o \in Process : at[o] \in {"start", "update"} /\ stage[o] = "outside"
    BY DEF Init, StoreIdle
  <2>2. AsRequested /\ Undone /\ EndsOutside
    BY <2>1 DEF Init, AsRequested, Undone, EndsOutside
  <2>3. QED BY <2>2, ShapeInitially, NotYetKnownInitially
<1>2. ChangeInv /\ Inv /\ [Next]_vars => Inv'
  <2> SUFFICES ASSUME ChangeInv, Inv, [Next]_vars PROVE Inv' OBVIOUS
  <2>1. ASSUME NEW o \in Process, Change(o), UNCHANGED request PROVE Inv'
    BY <2>1, ShapeKept, NotYetKnownKept, UndoneKept, EndsOutsideKept DEF AsRequested
  <2>2. CASE UNCHANGED <<file, lock, stage, loaded, at, job, store, status, reply>>
               /\ UNCHANGED request
    <3>1. \A q \in Process : Kind(q)' = Kind(q) /\ Wanted(q)' = Wanted(q) BY <2>2, SeenStays
    <3>2. \A k \in Key : \A P \in SUBSET Process : Copies(k, P)' = Copies(k, P)
      BY <2>2 DEF Copies, Value, Seen
    <3>3. \A q \in Process : job[q].keys \subseteq Key BY DEF ChangeInv, Progress, Job
    <3>4. JobShape' BY <2>2, <3>1 DEF JobShape
    <3>5. NotYetKnown'
      <4> SUFFICES ASSUME NEW q \in Process, Kind(q) = "set",
                          at[q] \in {"update", "begin", "backupSet"}, NEW k \in job[q].keys
                   PROVE  job[q].held[k] \notin Copies(k, Process \ {q})'
        BY <2>2, <3>1 DEF NotYetKnown
      <4>1. job[q].held[k] \notin Copies(k, Process \ {q}) BY DEF NotYetKnown
      <4>2. k \in Key /\ Process \ {q} \in SUBSET Process BY <3>3
      <4>3. QED BY <3>2, <4>1, <4>2
    <3>6. AsRequested' /\ Undone' /\ EndsOutside'
      BY <2>2, <3>1 DEF AsRequested, Undone, EndsOutside
    <3>7. QED BY <3>4, <3>5, <3>6
  <2>3. QED BY <2>1, <2>2, WhoSteps
<1>3. ChangeInv /\ Inv /\ [Next]_vars => [\A o \in Process : Failed(o) => Nowhere(o)]_vars
  <2> SUFFICES ASSUME ChangeInv, Inv, [Next]_vars, NEW o \in Process, Failed(o) PROVE Nowhere(o)
    OBVIOUS
  <2>1. at[o] # "finish" BY DEF EndsOutside
  <2>2. PICK p \in Process : Change(p) /\ UNCHANGED request BY <2>1, WhoSteps
  <2>3. p = o BY <2>1, <2>2, Frame DEF ChangeInv
  <2>4. QED BY <2>2, <2>3, FailedSet
<1>4. QED BY <1>1, <1>2, <1>3, ChangeSafe, PTL DEF Spec, FailedSetLeavesNothing
=============================================================================
