---------------------------- MODULE ControlChange ---------------------------
(***************************************************************************)
(* The commands that change contexts, roles and credentials (cmd/ctx.go,   *)
(* ctx_role.go, ctx_portable.go, ctx_migrate.go, control.go): each is      *)
(* authorized, announced to the audit journal and carried out inside one   *)
(* locked update of the context file; its outcome is recorded after that.  *)
(*                                                                         *)
(* A context keeps two credentials, each a plain secret or a reference to  *)
(* a credential backend.  Storing them is no part of the file update, so   *)
(* it is compensated when it fails halfway.  A migration reads what it     *)
(* moves before it has the lock.                                           *)
(***************************************************************************)
EXTENDS ContextStore, AuditJournal, FiniteSets

CONSTANTS
  Name,       \* context names
  Slot,       \* the credentials of a context: password, identity passphrase
  Backend,    \* credential backends
  Secret,     \* passwords and passphrases
  Operator,   \* who runs commands
  Detail,     \* what else a context says
  Nothing,    \* no context, no credential
  Requests,   \* what each process may have been asked for
  Initial,    \* the context files there may be at the start
  Stored,     \* the secret behind the references in it
  Mortal      \* the processes that may die

Role == {"none", "writer", "admin"}
Key  == Name \X Slot

Item == [detail : Detail, roles : [Operator -> Role],
         credential : [Slot -> Secret \cup Backend \cup {Nothing}]]

Config == [contexts : [Name -> Item \cup {Nothing}], current : Name \cup {Nothing}]

Request == [kind : {"set", "import", "use", "delete", "role", "migrate"},
            names : SUBSET Name,    \* all that a migration is asked for, else one
            operator : Operator,
            item : Item,            \* for set and import
            backend : Backend,      \* for set and migrate
            grantee : Operator,     \* for role
            role : Role]

ASSUME ControlAssumption ==
  /\ Process \subseteq Mutation
  /\ Nothing \notin Name \cup Secret \cup Backend /\ Nothing \notin Item
  /\ Secret \cap Backend = {}
  /\ Requests \in [Process -> SUBSET Request]
  /\ \A o \in Process : \A r \in Requests[o] :
       r.kind # "migrate" => \E n \in Name : r.names = {n}
  /\ Initial \subseteq [legacy : BOOLEAN, contents : Config]
  /\ Stored \in Secret
  /\ Mortal \subseteq Process

VARIABLES
  request,   \* what each process was asked for
  at,        \* where each command is
  job,       \* the local variables of each command
  store,     \* the secrets in the credential backends
  status,    \* what the outcome record says of the change
  reply      \* what the caller was told

changeVars == <<at, job, store, status, reply>>
vars == <<storeVars, journalVars, changeVars, request>>

Kind(o)   == request[o].kind
Target(o) == CHOOSE n \in request[o].names : TRUE

NoJob == [keys     |-> {},                            \* what is to be stored
          todo     |-> {},                            \* keys the present step has yet to visit
          snapshot |-> [n \in {} |-> Nothing],        \* the contexts a migration saw
          held     |-> [k \in Key |-> Nothing],       \* the secrets to store
          previous |-> [k \in Key |-> Nothing]]       \* what they replace

\* The secrets that ctx set was given.
GivenKeys(o) ==
  IF Kind(o) = "set"
    THEN {<<Target(o), s>> : s \in {t \in Slot : request[o].item.credential[t] \in Secret}}
    ELSE {}

FirstJob(o) ==
  [NoJob EXCEPT !.keys = GivenKeys(o), !.todo = GivenKeys(o),
                !.held = [k \in Key |-> IF k \in GivenKeys(o)
                                          THEN request[o].item.credential[k[2]] ELSE Nothing]]

Init ==
  /\ file \in Initial
  /\ StoreIdle
  /\ JournalInit
  /\ request \in {r \in [Process -> UNION {Requests[o] : o \in Process}] :
                    \A o \in Process : r[o] \in Requests[o]}
  /\ at = [o \in Process |-> IF Kind(o) = "migrate" THEN "start" ELSE "update"]
  /\ job = [o \in Process |-> FirstJob(o)]
  /\ store = [b \in Backend |-> [k \in Key |->
                LET item == file.contents.contexts[k[1]]
                IN IF item # Nothing /\ item.credential[k[2]] = b THEN Stored ELSE Nothing]]
  /\ status = [o \in Process |-> "none"]
  /\ reply = [o \in Process |-> "none"]

Go(o, step) == at' = [at EXCEPT ![o] = step] /\ UNCHANGED reply

Answer(o, answer) ==
  /\ at' = [at EXCEPT ![o] = "done"]
  /\ job' = [job EXCEPT ![o] = NoJob]
  /\ reply' = [reply EXCEPT ![o] = answer]

\* The command goes on after its intent.
Effect(o) ==
  /\ executed' = executed \cup {o}
  /\ UNCHANGED <<recorded, queue, quarantined>>

-----------------------------------------------------------------------------
(* What a migration does before it has the lock.                            *)

Credentials(item) == {s \in Slot : item.credential[s] # Nothing}

\* credentialMigrationCandidates: contexts with at least one credential.
Snapshot(o) ==
  /\ at[o] = "start"
  /\ Readable
  /\ LET contexts == file.contents.contexts
         found == {n \in request[o].names :
                     contexts[n] # Nothing /\ Credentials(contexts[n]) # {}}
     IN \/ /\ found # {}
           /\ LET keys == {k \in found \X Slot : k[2] \in Credentials(contexts[k[1]])}
              IN job' = [job EXCEPT ![o] = [NoJob EXCEPT !.keys = keys, !.todo = keys,
                                              !.snapshot = [n \in found |-> contexts[n]]]]
           /\ Go(o, "resolve")
        \/ found = {} /\ Answer(o, "ok")
        \/ Answer(o, "refused")
  /\ UNCHANGED <<store, status, storeVars, journalVars>>

\* A step visits the keys one after the other; with the last one it is over.
Visit(o, k, found, step) ==
  LET rest == found.todo \ {k}
  IN /\ job' = [job EXCEPT ![o] = [found EXCEPT !.todo = IF rest = {} THEN found.keys ELSE rest]]
     /\ IF rest = {} THEN Go(o, step) ELSE Go(o, at[o])

\* resolvedCredential: a reference is followed into its backend, which may fail.
Resolve(o) ==
  /\ at[o] = "resolve"
  /\ \E k \in job[o].todo :
       LET found == job[o].snapshot[k[1]].credential[k[2]]
           secret == IF found \in Backend THEN store[found][k] ELSE found
       IN \/ secret # Nothing /\ Visit(o, k, [job[o] EXCEPT !.held[k] = secret], "backup")
          \/ found \in Backend /\ Answer(o, "refused")
  /\ UNCHANGED <<store, status, storeVars, journalVars>>

\* prepareCredentialWrites of a migration: what the target backend has already.
BackupMigration(o) ==
  /\ at[o] = "backup"
  /\ \/ \E k \in job[o].todo :
          Visit(o, k, [job[o] EXCEPT !.previous[k] = store[request[o].backend][k]], "update")
     \/ Answer(o, "refused")
  /\ UNCHANGED <<store, status, storeVars, journalVars>>

-----------------------------------------------------------------------------
(* The locked update.                                                       *)

Open(o) ==
  /\ at[o] = "update"
  /\ Peek(o) \/ EnterLegacy(o) \/ EnterCore(o)
  /\ UNCHANGED <<changeVars, journalVars>>

CannotOpen(o) ==
  /\ at[o] = "update"
  /\ GiveUp(o)
  /\ Answer(o, "refused")
  /\ UNCHANGED <<store, status, journalVars>>

\* Mutant: an existing target is authorized against the current context.
GoverningCurrent(o, contents) ==
  LET there == contents.contexts
      current == IF contents.current = Nothing THEN {} ELSE {there[contents.current]}
  IN CASE Kind(o) \in {"set", "import", "use"} -> current
       [] Kind(o) \in {"delete", "role"} -> {there[Target(o)]}
       [] OTHER -> {there[n] : n \in DOMAIN job[o].snapshot}

\* The contexts whose policy decides: contextPreChangePolicy,
\* contextUsePreChangePolicy, and the callbacks of delete, role and migrate.
\* None at bootstrap.
Governing(o, contents) ==
  LET there == contents.contexts
      current == IF contents.current = Nothing THEN {} ELSE {there[contents.current]}
  IN CASE Kind(o) \in {"set", "import"} ->
            IF there[Target(o)] # Nothing THEN {there[Target(o)]} ELSE current
       [] Kind(o) = "use" -> IF current = {} THEN {there[Target(o)]} ELSE current
       [] Kind(o) \in {"delete", "role"} -> {there[Target(o)]}
       [] OTHER -> {there[n] : n \in DOMAIN job[o].snapshot}

\* Control changes are R3: without roles anybody may, else an admin (external).
Permits(item, operator) ==
  /\ item # Nothing
  /\ \/ \A p \in Operator : item.roles[p] = "none"
     \/ item.roles[operator] = "admin"

\* Mutant: what a migration saw is not compared with what is there now.
SameAsSeenUnchecked(o, contents) == TRUE

\* validateCredentialMigrationSnapshot.
SameAsSeen(o, contents) ==
  \A n \in DOMAIN job[o].snapshot : contents.contexts[n] = job[o].snapshot[n]

Allowed(o, contents) ==
  /\ SameAsSeen(o, contents)
  /\ \A item \in Governing(o, contents) : Permits(item, request[o].operator)
  /\ Kind(o) = "use" => contents.contexts[Target(o)] # Nothing

\* The callback refuses, or comes as far as the audit.  Flags, tickets and an
\* import without --force may refuse what roles allow.
Permit(o) ==
  /\ at[o] = "update"
  /\ stage[o] = "inside"
  /\ \/ /\ Allowed(o, loaded[o])
        /\ Go(o, "begin")
        /\ UNCHANGED <<job, storeVars>>
     \/ Reject(o) /\ Answer(o, "refused")
  /\ UNCHANGED <<store, status, journalVars>>

\* Where the callback goes from its intent: credentials are stored first.
AfterIntent(o) ==
  CASE job[o].keys = {} -> "save"
    [] Kind(o) = "set" -> "backupSet"
    [] OTHER -> "put"

\* Mutant: the change goes ahead without an intent.
BeginUnchecked(o) ==
  /\ at[o] = "begin"
  /\ Announce(o) \/ UNCHANGED journalVars
  /\ Go(o, AfterIntent(o))
  /\ UNCHANGED <<job, store, status, storeVars>>

\* beginControlMutationAudit.  A refused intent may still be in the journal.
Begin(o) ==
  /\ at[o] = "begin"
  /\ \/ Announce(o) /\ Go(o, AfterIntent(o)) /\ UNCHANGED <<job, storeVars>>
     \/ (Announce(o) \/ UNCHANGED journalVars) /\ Reject(o) /\ Answer(o, "refused")
  /\ UNCHANGED <<store, status>>

\* The callback returns an error after its intent.
Fail(o, outcome) ==
  /\ Reject(o)
  /\ Go(o, "finish")
  /\ status' = [status EXCEPT ![o] = outcome]

\* storeContextCredentials looks at what it will replace under the lock.
BackupSet(o) ==
  /\ at[o] = "backupSet"
  /\ Effect(o)
  /\ \/ /\ \E k \in job[o].todo :
             Visit(o, k, [job[o] EXCEPT !.previous[k] = store[request[o].backend][k]], "put")
        /\ UNCHANGED <<status, storeVars>>
     \/ Fail(o, "failed") /\ UNCHANGED job
  /\ UNCHANGED store

\* Mutant: a write that reported an error is left out of the compensation.
PutForgetsFailed(o) ==
  /\ at[o] = "put"
  /\ Effect(o)
  /\ \E k \in job[o].todo :
       \/ /\ store' = [store EXCEPT ![request[o].backend][k] = job[o].held[k]]
          /\ Visit(o, k, job[o], "save")
       \/ /\ \/ store' = [store EXCEPT ![request[o].backend][k] = job[o].held[k]]
             \/ UNCHANGED store
          /\ job' = [job EXCEPT ![o].todo = job[o].keys \ job[o].todo]
          /\ Go(o, "rollback")
  /\ UNCHANGED <<status, storeVars>>

\* applyCredentialWritesContext.  A write that reports an error may have taken
\* place; all writes up to it are undone.  So are all, if the command turns out
\* to be cancelled when the last one is done, which is as if that one had failed.
Put(o) ==
  /\ at[o] = "put"
  /\ Effect(o)
  /\ \E k \in job[o].todo :
       \/ /\ store' = [store EXCEPT ![request[o].backend][k] = job[o].held[k]]
          /\ Visit(o, k, job[o], "save")
       \/ /\ \/ store' = [store EXCEPT ![request[o].backend][k] = job[o].held[k]]
             \/ UNCHANGED store
          /\ job' = [job EXCEPT ![o].todo = (job[o].keys \ job[o].todo) \cup {k}]
          /\ Go(o, "rollback")
  /\ UNCHANGED <<status, storeVars>>

\* Mutant: compensation always deletes.
FormerDeleted(o, k) == Nothing

\* What compensation puts back; Nothing is a deletion.
Former(o, k) == job[o].previous[k]

\* rollbackCredentialWrites goes on after an error, and remembers it.
Rollback(o) ==
  /\ at[o] = "rollback"
  /\ \E k \in job[o].todo, undone \in BOOLEAN :
       LET rest == job[o].todo \ {k}
           now  == IF undone /\ status[o] # "uncertain" THEN "failed" ELSE "uncertain"
       IN /\ IF undone THEN store' = [store EXCEPT ![request[o].backend][k] = Former(o, k)]
                       ELSE UNCHANGED store
          /\ job' = [job EXCEPT ![o].todo = rest]
          /\ IF rest = {}
               THEN Fail(o, now)
               ELSE /\ status' = [status EXCEPT ![o] = now]
                    /\ UNCHANGED <<at, reply, storeVars>>
  /\ UNCHANGED journalVars

\* What the callback makes of the contents of the file.
Edited(o, contents) ==
  LET n == Target(o)
      in(item) == [item EXCEPT !.credential =
                     [s \in Slot |-> IF @[s] \in Secret THEN request[o].backend ELSE @[s]]]
  IN CASE Kind(o) \in {"set", "import"} -> [contents EXCEPT !.contexts[n] = in(request[o].item)]
       [] Kind(o) = "use" -> [contents EXCEPT !.current = n]
       [] Kind(o) = "role" ->
            [contents EXCEPT !.contexts[n].roles[request[o].grantee] = request[o].role]
       [] Kind(o) = "delete" ->
            [contents EXCEPT !.contexts[n] = Nothing, !.current = IF @ = n THEN Nothing ELSE @]
       [] OTHER -> 
            [contents EXCEPT !.contexts = [m \in Name |->
               IF m \in DOMAIN job[o].snapshot
                 THEN [job[o].snapshot[m] EXCEPT !.credential =
                         [s \in Slot |-> IF @[s] = Nothing THEN Nothing ELSE request[o].backend]]
                 ELSE @[m]]]

\* What is recorded when the update reports an error: stored credentials make it
\* uncertain.
Unclear(o) == IF job[o].keys = {} THEN "failed" ELSE "uncertain"

\* The callback is done.  The update may report an error before or after the
\* file is replaced.
Save(o) ==
  /\ at[o] = "save"
  /\ Effect(o)
  /\ \/ /\ Replace(o, Edited(o, loaded[o]))
        /\ \E outcome \in {"succeeded", Unclear(o)} : status' = [status EXCEPT ![o] = outcome]
     \/ Reject(o) /\ status' = [status EXCEPT ![o] = Unclear(o)]
  /\ Go(o, "finish")
  /\ UNCHANGED <<job, store>>

-----------------------------------------------------------------------------
(* After the update.                                                        *)

PlainReply(o) == IF status[o] = "succeeded" THEN "ok" ELSE status[o]

\* finishControlMutationAudit, finishUncertainControlMutationAudit: the outcome is
\* appended, appended with a later error, queued, lost, or of unknown fate.
Finish(o) ==
  /\ at[o] = "finish"
  /\ \/ Conclude(o) /\ Answer(o, PlainReply(o))
     \/ Conclude(o) /\ Answer(o, "auditError")
     \/ (Enqueue(o) \/ UNCHANGED journalVars) /\ Answer(o, "auditIncomplete")
     \/ (Conclude(o) \/ UNCHANGED journalVars) /\ Go(o, "doubt") /\ UNCHANGED job
  /\ UNCHANGED <<store, status, storeVars>>

Mark(o) ==
  /\ at[o] = "doubt"
  /\ Suspect(o) \/ UNCHANGED journalVars
  /\ Answer(o, "auditIncomplete")
  /\ UNCHANGED <<store, status, storeVars>>

\* The process dies.
Die(o) ==
  /\ o \in Mortal
  /\ at[o] # "done"
  /\ Abandon(o) \/ (stage[o] = "left" /\ UNCHANGED storeVars)
  /\ Answer(o, "dead")
  /\ UNCHANGED <<store, status, journalVars>>

Change(o) ==
  \/ Snapshot(o)
  \/ Resolve(o)
  \/ BackupMigration(o)
  \/ Open(o)
  \/ CannotOpen(o)
  \/ Permit(o)
  \/ Begin(o)
  \/ BackupSet(o)
  \/ Put(o)
  \/ Rollback(o)
  \/ Save(o)
  \/ Finish(o)
  \/ Mark(o)
  \/ Die(o)

\* Any process replays queued outcomes; the operator settles quarantined ones.
Upkeep ==
  /\ \/ Deliver
     \/ Retire
     \/ SuspectOldest
     \/ \E m \in Mutation : Settle(m)
  /\ UNCHANGED <<storeVars, changeVars>>

Next ==
  /\ \/ \E o \in Process : Change(o)
     \/ Upkeep
  /\ UNCHANGED request

Spec == Init /\ [][Next]_vars

-----------------------------------------------------------------------------
(* Properties.                                                              *)

TypeOK ==
  /\ file.legacy \in BOOLEAN
  /\ file.contents \in Config
  /\ lock \in Process \cup {Nobody}
  /\ at \in [Process -> {"start", "resolve", "backup", "update", "begin", "backupSet", "put",
                         "rollback", "save", "finish", "doubt", "done"}]
  /\ store \in [Backend -> [Key -> Secret \cup {Nothing}]]
  /\ status \in [Process -> {"none", "succeeded", "failed", "uncertain"}]
  /\ reply \in [Process -> {"none", "ok", "failed", "uncertain", "refused", "auditError",
                            "auditIncomplete", "dead"}]

\* What a credential of a context resolves to.
Resolved(contents, secrets, n, s) ==
  LET item  == contents.contexts[n]
      value == IF item = Nothing THEN Nothing ELSE item.credential[s]
  IN IF value \in Backend THEN secrets[value][<<n, s>>] ELSE value

\* No change, completed, compensated or cut off, leaves a context that refers to
\* a credential that is not there.
ReferencesResolve ==
  \A n \in Name, s \in Slot :
    LET item == file.contents.contexts[n]
    IN item # Nothing /\ item.credential[s] \in Backend
         => store[item.credential[s]][<<n, s>>] # Nothing

\* ctx set that leaves its update as failed, and not as uncertain, leaves no secret
\* it was given in the backend and nothing changed in the file.
FailedSetLeavesNothing ==
  [][\A o \in Process :
       stage[o] = "inside" /\ at'[o] = "finish" /\ status'[o] = "failed" /\ GivenKeys(o) # {} =>
         /\ \A k \in GivenKeys(o) : store'[request[o].backend][k] # job[o].held[k]
         /\ file' = file]_vars

\* What a migration saw of a credential.
Seen(o, k) ==
  IF k[1] \in DOMAIN job[o].snapshot THEN job[o].snapshot[k[1]].credential[k[2]] ELSE Nothing

\* The secret that a migration read through a reference is no longer the one behind
\* it, or was not when the migration looked what it would replace.
Overtaken(o, k) ==
  /\ Seen(o, k) \in Backend
  /\ \/ store[Seen(o, k)][k] # job[o].held[k]
     \/ Seen(o, k) = request[o].backend /\ job[o].previous[k] # job[o].held[k]

Migrates(o) ==
  Kind(o) = "migrate" /\ <<at[o], job[o], stage[o]>>' # <<at[o], job[o], stage[o]>>

\* Moving credentials changes where they are, not what they are: no step of a
\* migration changes what a context's credential resolves to.
MigrationKeepsSecrets ==
  [][\A o \in Process : Migrates(o) =>
       \A n \in Name, s \in Slot :
         Resolved(file'.contents, store', n, s) = Resolved(file.contents, store, n, s)]_vars

\* As far as the code has it: a step of a migration changes what a credential
\* resolves to only where it saw a reference and another command replaced the
\* secret behind it in the meantime.  A secret that it saw in the file itself
\* stays what it is, whatever others do and wherever the migration ends.
MigrationKeepsUnlessOvertaken ==
  [][\A o \in Process : Migrates(o) =>
       \A n \in Name, s \in Slot :
         \/ Resolved(file'.contents, store', n, s) = Resolved(file.contents, store, n, s)
         \/ Overtaken(o, <<n, s>>)]_vars

\* A change of the file is one that the policies in the file itself allow: the
\* policy of each context it changes; that of the current context for a new one
\* or another choice of the current one.
ChangesAreAuthorized ==
  [][\A o \in Process :
       stage[o] = "inside" /\ stage'[o] # "inside" /\ file'.contents # file.contents =>
         LET old == file.contents
             new == file'.contents
             may(n) == Permits(old.contexts[n], request[o].operator)
         IN /\ \A n \in Name :
                 new.contexts[n] # old.contexts[n] =>
                   IF old.contexts[n] # Nothing THEN may(n)
                   ELSE old.current # Nothing => may(old.current)
            /\ new.current \notin {old.current, Nothing} /\ old.current # Nothing =>
                 may(old.current)]_vars

\* Neither the file nor a backend changes before the intent of a change is in the
\* journal.
ChangeIsIntended ==
  [][file'.contents # file.contents \/ store' # store =>
       \E o \in Process : stage[o] = "inside" /\ IntentOf(o) \in recorded]_vars
=============================================================================
