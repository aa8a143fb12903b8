---------------------------- MODULE ContextStore ----------------------------
(***************************************************************************)
(* The context file and its locked read-modify-write cycle                 *)
(* (internal/srvgovctx/context.go).                                        *)
(*                                                                         *)
(* A file of the legacy version is upgraded by the first update.  Whether  *)
(* it is one is seen without the lock, so the update looks again under the *)
(* lock and, if somebody was faster, starts over on the path of the core   *)
(* library, which takes the same lock.  Processes are separate processes:  *)
(* the mutex inside one is not modelled.                                   *)
(***************************************************************************)
CONSTANTS
  Process,   \* the processes that update the file
  Contents,  \* what a context file can say
  Nobody,    \* the holder of a free lock
  Unread     \* what a process outside of its callback has of the file

ASSUME StoreAssumption == Nobody \notin Process /\ Unread \notin Contents

VARIABLES
  file,     \* [legacy, contents]
  lock,     \* who holds the configuration lock
  stage,    \* where each process is in Update
  loaded    \* the contents that the callback of each process works on

storeVars == <<file, lock, stage, loaded>>

\* Nobody is updating the file.
StoreIdle ==
  /\ lock = Nobody
  /\ stage = [p \in Process |-> "outside"]
  /\ loaded = [p \in Process |-> Unread]

StoreInit == file \in [legacy : BOOLEAN, contents : Contents] /\ StoreIdle

-----------------------------------------------------------------------------
\* Load.  Reading a legacy file takes the lock, and gives it back at once.
Readable == ~file.legacy \/ lock = Nobody

\* Update looks at the version before it has the lock.
Peek(p) ==
  /\ stage[p] = "outside"
  /\ stage' = [stage EXCEPT ![p] = IF file.legacy THEN "legacy" ELSE "core"]
  /\ UNCHANGED <<file, lock, loaded>>

Enter(p) ==
  /\ lock = Nobody
  /\ lock' = p
  /\ stage' = [stage EXCEPT ![p] = "inside"]
  /\ loaded' = [loaded EXCEPT ![p] = file.contents]
  /\ UNCHANGED file

\* Mutant: the upgrade does without the lock, since the replacement is atomic.
EnterLegacyUnlocked(p) ==
  /\ stage[p] = "legacy"
  /\ stage' = [stage EXCEPT ![p] = "inside"]
  /\ loaded' = [loaded EXCEPT ![p] = file.contents]
  /\ UNCHANGED <<file, lock>>

\* updateLegacyContextConfig: under the lock the file may turn out to be
\* upgraded; the lock is given back and the core library does the update.
EnterLegacy(p) ==
  /\ stage[p] = "legacy"
  /\ \/ file.legacy /\ Enter(p)
     \/ /\ ~file.legacy
        /\ lock = Nobody
        /\ stage' = [stage EXCEPT ![p] = "core"]
        /\ UNCHANGED <<file, lock, loaded>>

\* store.Update of the core library.
EnterCore(p) == stage[p] = "core" /\ Enter(p)

Release(p) ==
  /\ stage' = [stage EXCEPT ![p] = "left"]
  /\ lock' = IF lock = p THEN Nobody ELSE lock
  /\ loaded' = [loaded EXCEPT ![p] = Unread]

\* The file cannot be read, or the lock is not to be had in time.
GiveUp(p) ==
  /\ stage[p] \in {"outside", "legacy", "core"}
  /\ Release(p)
  /\ UNCHANGED file

\* The callback refuses: the file stays as it is, a legacy one included.
Reject(p) ==
  /\ stage[p] = "inside"
  /\ Release(p)
  /\ UNCHANGED file

\* The file is replaced, whether or not an error is reported after that.
Replace(p, contents) ==
  /\ stage[p] = "inside"
  /\ file' = [legacy |-> FALSE, contents |-> contents]
  /\ Release(p)

\* The process dies in the middle; its lock goes with it.
Abandon(p) ==
  /\ stage[p] # "left"
  /\ Release(p)
  /\ UNCHANGED file

StoreNext ==
  \E p \in Process :
    \/ Peek(p)
    \/ EnterLegacy(p)
    \/ EnterCore(p)
    \/ GiveUp(p)
    \/ Reject(p)
    \/ \E contents \in Contents : Replace(p, contents)
    \/ Abandon(p)

StoreSpec == StoreInit /\ [][StoreNext]_storeVars

-----------------------------------------------------------------------------
(* Properties.                                                              *)

\* Whoever is in the callback holds the lock, alone.
InsideHoldsLock == \A p \in Process : stage[p] = "inside" <=> lock = p

\* A callback decides and edits on the contents that are in the file now, the
\* upgrade of a legacy file included: no update of another process is lost.
NothingLost == \A p \in Process : stage[p] = "inside" => loaded[p] = file.contents
=============================================================================
