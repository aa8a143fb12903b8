------------------------ MODULE GovernedFanoutProofs ------------------------
(***************************************************************************)
(* Proofs about the fleet command, for any number of targets, any number   *)
(* of workers and any other processes that use the journal.                *)
(*                                                                         *)
(* The worker pool is proved first, for any requested concurrency and      *)
(* whatever runs the targets.  Its invariant and that of the governed      *)
(* commands carry over: a fleet command takes their steps.                 *)
(***************************************************************************)
EXTENDS GovernedFanout, GovernedCommandProofs, FiniteSetTheorems, TLAPS

-----------------------------------------------------------------------------
(* The worker pool alone, under any scheduling.                             *)

\* The inductive invariant: besides where each target is, what the two closed
\* channels say about the feeder and the workers.
PoolInv ==
  /\ PoolTypeOK
  /\ EachTargetOnce
  /\ closed => next = Targets + 1
  /\ drained => closed /\ \A w \in Worker : worker[w] = Exited
  /\ answer # NoAnswer => drained /\ buffered = {} /\ answer = Sorted(out)

LEMMA NotATarget == Idle \notin Target /\ Exited \notin Target /\ Idle # Exited
  BY PoolAssumption DEF Target, Idle, Exited

LEMMA PoolInit_Inv == PoolInit => PoolInv
<1> SUFFICES ASSUME PoolInit
             PROVE  PoolInv
  OBVIOUS
<1>1. Held = {}
  BY NotATarget DEF PoolInit, Held
<1>2. EachTargetOnce
  BY <1>1, NotATarget DEF PoolInit, EachTargetOnce
<1>3. PoolTypeOK
  <2>1. next \in 1..(Targets + 1)
    BY PoolAssumption DEF PoolInit
  <2> QED
    BY <2>1 DEF PoolInit, PoolTypeOK
<1> QED
  BY <1>2, <1>3 DEF PoolInit, PoolInv

\* One step of the pool keeps the invariant.
LEMMA PoolStep_Inv == PoolInv /\ [PoolNext]_poolVars => PoolInv'
<1> SUFFICES ASSUME PoolInv, [PoolNext]_poolVars
             PROVE  PoolInv'
  OBVIOUS
<1> USE PoolAssumption, NotATarget DEF PoolInv, PoolTypeOK
<1>1. ASSUME NEW w \in Worker, Hand(w)
      PROVE  PoolInv'
  <2>1. PoolTypeOK' /\ next \in Target
    BY <1>1 DEF Hand, Target
  <2>2. Held' = Held \cup {next}
    BY <1>1 DEF Hand, Held
  <2>3. next \notin Held \cup buffered \cup out
    BY <2>1 DEF EachTargetOnce, Target
  <2>4. EachTargetOnce'
    <3>1. \A v, u \in Worker : worker'[v] = worker'[u] /\ worker'[v] \in Target => v = u
      BY <1>1, <2>1, <2>3 DEF Hand, EachTargetOnce, Held
    <3>2. 1..(next' - 1) = 1..(next - 1) \cup {next}
      BY <1>1, <2>1 DEF Hand, Target
    <3> QED
      BY <1>1, <2>2, <2>3, <3>1, <3>2 DEF Hand, EachTargetOnce
  <2>5. ~closed /\ ~drained
    BY <1>1, <2>1 DEF Target
  <2> QED
    BY <1>1, <2>1, <2>4, <2>5 DEF Hand
<1>2. ASSUME NEW w \in Worker, Complete(w)
      PROVE  PoolInv'
  <2>1. PoolTypeOK'
    BY <1>2 DEF Complete
  <2>2. Held' = Held \ {worker[w]} /\ worker[w] \in Held
    BY <1>2 DEF Complete, Held, EachTargetOnce
  <2>3. EachTargetOnce'
    BY <1>2, <2>2 DEF Complete, EachTargetOnce
  <2>4. ~drained
    BY <1>2 DEF Complete
  <2> QED
    BY <1>2, <2>1, <2>3, <2>4 DEF Complete
<1>3. ASSUME NEW w \in Worker, Exit(w)
      PROVE  PoolInv'
  <2>1. Held' = Held
    BY <1>3 DEF Exit, Held
  <2> QED
    BY <1>3, <2>1 DEF Exit, EachTargetOnce
<1>4. ASSUME CloseJobs
      PROVE  PoolInv'
  BY <1>4 DEF CloseJobs, EachTargetOnce, Held
<1>5. ASSUME CloseResults
      PROVE  PoolInv'
  BY <1>5 DEF CloseResults, EachTargetOnce, Held
<1>6. ASSUME Collect
      PROVE  PoolInv'
  <2>1. PICK t \in buffered : /\ buffered' = buffered \ {t}
                              /\ out' = out \cup {t}
    BY <1>6 DEF Collect
  <2>2. Held' = Held
    BY <1>6 DEF Collect, Held
  <2>3. EachTargetOnce'
    BY <1>6, <2>1, <2>2 DEF Collect, EachTargetOnce
  <2> QED
    BY <1>6, <2>1, <2>3 DEF Collect
<1>7. ASSUME ReturnAnswer
      PROVE  PoolInv'
  <2>1. Held' = Held /\ Sorted(out)' = Sorted(out)
    BY <1>7 DEF ReturnAnswer, Held, Sorted
  <2> QED
    BY <1>7, <2>1 DEF ReturnAnswer, EachTargetOnce
<1>8. CASE UNCHANGED poolVars
  <2>1. Held' = Held /\ Sorted(out)' = Sorted(out)
    BY <1>8 DEF poolVars, Held, Sorted
  <2> QED
    BY <1>8, <2>1 DEF poolVars, EachTargetOnce
<1> QED
  BY <1>1, <1>2, <1>3, <1>4, <1>5, <1>6, <1>7, <1>8 DEF PoolNext, PoolStep

\* The pool reaches no state outside its invariant.
THEOREM PoolSafe == PoolSpec => []PoolInv
  BY PoolInit_Inv, PoolStep_Inv, PTL DEF PoolSpec

\* Every variable of the pool keeps its type.
THEOREM PoolTypes == PoolSpec => []PoolTypeOK
<1>1. PoolInv => PoolTypeOK
  BY DEF PoolInv
<1> QED
  BY <1>1, PoolSafe, PTL

\* No target is ever handed to two workers or reported twice, and none that was
\* handed out is lost.
THEOREM RunsOnce == PoolSpec => []EachTargetOnce
<1>1. PoolInv => EachTargetOnce
  BY DEF PoolInv
<1> QED
  BY <1>1, PoolSafe, PTL

\* A worker never waits to send its result, whatever the caller does.
THEOREM RoomForResults == PoolSpec => []SendNeverBlocks
<1>1. PoolInv => SendNeverBlocks
  <2> SUFFICES ASSUME PoolInv, Held # {}
               PROVE  Cardinality(buffered) < Targets
    BY DEF SendNeverBlocks
  <2>1. PICK t \in Held : t \notin buffered
    BY DEF PoolInv, EachTargetOnce
  <2>2. IsFiniteSet(Target) /\ Cardinality(Target) = Targets
    BY PoolAssumption, FS_Interval DEF Target
  <2>3. buffered \subseteq Target \ {t} /\ t \in Target
    BY <2>1 DEF PoolInv, PoolTypeOK, Held
  <2>4. IsFiniteSet(Target \ {t}) /\ Cardinality(Target \ {t}) = Targets - 1
    BY <2>2, <2>3, FS_RemoveElement
  <2>5. IsFiniteSet(buffered) /\ Cardinality(buffered) <= Targets - 1
    BY <2>3, <2>4, FS_Subset
  <2>6. Cardinality(buffered) \in Nat
    BY <2>5, FS_CardinalityType
  <2> QED
    BY <2>5, <2>6, PoolAssumption
<1> QED
  BY <1>1, PoolSafe, PTL

\* Closing the results channel never races a worker that still sends.
THEOREM CloseIsSafe == PoolSpec => []NoSendAfterClose
<1>1. PoolInv => NoSendAfterClose
  BY PoolAssumption, NotATarget DEF PoolInv, NoSendAfterClose, Held, PoolTypeOK
<1> QED
  BY <1>1, PoolSafe, PTL

\* Sorting all the targets lists them in order.
LEMMA SortedTargets == Sorted(Target) = [t \in Target |-> t]
<1>1. Cardinality(Target) = Targets
  BY PoolAssumption, FS_Interval DEF Target
<1>2. ASSUME NEW i \in Target, NEW t \in Target
      PROVE  Cardinality({u \in Target : u <= t}) = t
  <2>1. {u \in Target : u <= t} = 1..t
    BY PoolAssumption DEF Target
  <2>2. Cardinality(1..t) = t
    BY FS_Interval DEF Target
  <2> QED
    BY <2>1, <2>2
<1>3. ASSUME NEW i \in Target
      PROVE  (CHOOSE t \in Target : Cardinality({u \in Target : u <= t}) = i) = i
  BY <1>2
<1> QED
  BY <1>1, <1>3 DEF Sorted, Target

\* What Run returns is the result of every target, in target order.
THEOREM CompleteAnswer == PoolSpec => []AnswerIsComplete
<1>1. PoolInv => AnswerIsComplete
  <2> SUFFICES ASSUME PoolInv, answer # NoAnswer
               PROVE  answer = [t \in Target |-> t]
    BY DEF AnswerIsComplete
  <2>1. Held = {} /\ buffered = {}
    BY NotATarget DEF PoolInv, Held
  <2>2. out = Target
    BY <2>1, PoolAssumption DEF PoolInv, EachTargetOnce, Target
  <2> QED
    BY <2>2, SortedTargets DEF PoolInv
<1> QED
  BY <1>1, PoolSafe, PTL

-----------------------------------------------------------------------------
(* The fleet command.                                                       *)

\* What each phase of the fleet command has behind it.
PhaseFacts ==
  /\ phase \in {"authorize", "announce"} => Command \cap executed = {}
  /\ phase \notin {"authorize", "exited"} => permitted = Command
  /\ phase \notin {"authorize", "announce", "exited"} /\ Mutating => IntentOf(Batch) \in recorded
  /\ phase \in {"conclude", "doubt", "print"} => answer # NoAnswer
  /\ phase \in {"announce", "conclude", "doubt"} => Mutating
  /\ phase = "conclude" => Batch \in executed
  /\ phase = "print" /\ Mutating => OutcomeOf(Batch) \in recorded
  /\ exit # "none" <=> phase = "exited"
  /\ tally # NoTally => phase \in {"doubt", "print", "exited"}

\* A result is sent when the governed command has answered.
ResultsAreFinal == \A t \in buffered \cup out : step[t] = "done"

FleetInv ==
  /\ CommandInv
  /\ PoolInv
  /\ TypeOK
  /\ PhaseFacts
  /\ ResultsAreFinal
  /\ AllOrNothing
  /\ BatchAccountsForAll
  /\ TallyNeverOverclaims
  /\ SuccessfulExitIsTrue

-----------------------------------------------------------------------------
\* Once Run has returned, the caller has the result of every target.
LEMMA EveryoneIsOut == PoolInv /\ answer # NoAnswer => out = Target /\ Held = {}
<1> SUFFICES ASSUME PoolInv, answer # NoAnswer
             PROVE  out = Target /\ Held = {}
  OBVIOUS
<1>1. Held = {} /\ buffered = {}
  BY NotATarget DEF PoolInv, Held
<1> QED
  BY <1>1, PoolAssumption DEF PoolInv, EachTargetOnce, Target

LEMMA TargetsFinite == IsFiniteSet(Target) /\ Cardinality(Target) = Targets
  BY PoolAssumption, FS_Interval DEF Target

\* Sets of targets are finite and no larger than the fleet.
LEMMA PartOfFleet ==
  ASSUME NEW S \in SUBSET Target
  PROVE  IsFiniteSet(S) /\ Cardinality(S) \in 0..Targets
<1>1. IsFiniteSet(S) /\ Cardinality(S) <= Targets
  BY TargetsFinite, FS_Subset
<1>2. Cardinality(S) \in Nat
  BY <1>1, FS_CardinalityType
<1> QED
  BY <1>1, <1>2, PoolAssumption

LEMMA DisjointParts ==
  ASSUME NEW S, NEW T, IsFiniteSet(S), IsFiniteSet(T), S \cap T = {}
  PROVE  IsFiniteSet(S \cup T) /\ Cardinality(S \cup T) = Cardinality(S) + Cardinality(T)
<1>1. IsFiniteSet(S \cup T)
  BY FS_Union
<1>2. Cardinality(S \cup T) = Cardinality(S) + Cardinality(T) - Cardinality(S \cap T)
  BY FS_Union
<1>3. Cardinality(S \cap T) = 0
  BY FS_EmptySet
<1>4. Cardinality(S) \in Nat /\ Cardinality(T) \in Nat
  BY FS_CardinalityType
<1> QED
  BY <1>1, <1>2, <1>3, <1>4

\* The three counts are of three disjoint parts of the fleet.
LEMMA CountsPartition ==
  ASSUME out = Target
  PROVE  Counts.succeeded + Counts.uncertain + Counts.failed = Targets
<1> DEFINE S == Replies({"ok", "truncated"})
           U == Replies({"uncertain"})
           F == {t \in out : reply[t] \notin {"ok", "truncated", "uncertain"}}
<1>1. S \subseteq Target /\ U \subseteq Target /\ F \subseteq Target
  BY DEF Replies
<1>2. IsFiniteSet(S) /\ IsFiniteSet(U) /\ IsFiniteSet(F)
  BY <1>1, PartOfFleet
<1>3. S \cap U = {} /\ (S \cup U) \cap F = {} /\ (S \cup U) \cup F = Target
  BY DEF Replies
<1>4. IsFiniteSet(S \cup U) /\ Cardinality(S \cup U) = Cardinality(S) + Cardinality(U)
  BY <1>2, <1>3, DisjointParts
<1>5. Cardinality((S \cup U) \cup F) = Cardinality(S \cup U) + Cardinality(F)
  BY <1>2, <1>3, <1>4, DisjointParts
<1>6. Cardinality(S) + Cardinality(U) + Cardinality(F) = Targets
  BY <1>3, <1>4, <1>5, TargetsFinite
<1> QED
  BY <1>6 DEF Counts

LEMMA CountsTyped ==
  ASSUME out = Target
  PROVE  Counts \in [succeeded : 0..Targets, uncertain : 0..Targets, failed : 0..Targets]
<1>1. /\ Replies({"ok", "truncated"}) \in SUBSET Target
      /\ Replies({"uncertain"}) \in SUBSET Target
      /\ {t \in out : reply[t] \notin {"ok", "truncated", "uncertain"}} \in SUBSET Target
  BY DEF Replies
<1> QED
  BY <1>1, PartOfFleet DEF Counts

\* How many changes of the fleet are recorded in full.
FullyRecorded == {t \in changed : {IntentOf(t), OutcomeOf(t)} \subseteq recorded}

LEMMA RecordedIsPartOfFleet == CommandInv => FullyRecorded \in SUBSET Target
  BY FanoutAssumption DEF CommandInv, CommandTypeOK, FullyRecorded

\* The count of successes is of changes that are recorded in full.
LEMMA SuccessesAreRecorded ==
  ASSUME CommandInv, out = Target, Mutating
  PROVE  Counts.succeeded <= Cardinality(FullyRecorded)
<1>1. Replies({"ok", "truncated"}) \subseteq FullyRecorded
  BY FanoutAssumption DEF CommandInv, SuccessIsTrue, Replies, FullyRecorded, Mutating
<1>2. Cardinality(Replies({"ok", "truncated"})) <= Cardinality(FullyRecorded)
  BY <1>1, RecordedIsPartOfFleet, PartOfFleet, FS_Subset
<1> QED
  BY <1>2 DEF Counts

\* A step of a command moves nobody else and leaves the decision alone.
LEMMA GovernMoves ==
  ASSUME CommandInv, NEW c \in Command, Govern(c)
  PROVE  /\ recorded \subseteq recorded'
         /\ executed' \subseteq executed \cup {c}
         /\ executed \subseteq executed'
         /\ permitted' = permitted
         /\ \A d \in Command : step[d] = "done" => step'[d] = "done"
<1> USE DEF CommandInv, CommandTypeOK
<1>1. CASE Authorize(c)
  BY <1>1 DEF Authorize, Advance, Answer, journalVars
<1>2. CASE Begin(c)
  BY <1>2 DEF Begin, Advance, Answer, Announce, journalVars
<1>3. CASE Run(c)
  BY <1>3 DEF Run, Dispatch, Advance
<1>4. CASE Finish(c)
  BY <1>4 DEF Finish, Advance, Answer, Conclude, Enqueue, journalVars
<1>5. CASE Mark(c)
  BY <1>5 DEF Mark, Answer, Suspect, journalVars
<1>6. CASE FinishRead(c)
  BY <1>6 DEF FinishRead, Answer, Conclude, journalVars
<1> QED
  BY <1>1, <1>2, <1>3, <1>4, <1>5, <1>6 DEF Govern
-----------------------------------------------------------------------------
LEMMA FleetInitially == Init => FleetInv
<1> SUFFICES ASSUME Init
             PROVE  FleetInv
  OBVIOUS
<1>1. CommandInv /\ PoolInv
  BY CommandInitially, PoolInit_Inv DEF Init
<1>2. TypeOK
  <2>1. NoTally \in [succeeded : 0..Targets, uncertain : 0..Targets, failed : 0..Targets]
    BY PoolAssumption DEF NoTally
  <2> QED
    BY <1>1, <2>1 DEF Init, TypeOK, CommandInv, PoolInv
<1>3. PhaseFacts /\ ResultsAreFinal /\ AllOrNothing
  BY DEF Init, JournalInit, PoolInit, PhaseFacts, ResultsAreFinal, AllOrNothing
<1>4. BatchAccountsForAll /\ SuccessfulExitIsTrue
  BY DEF Init, BatchAccountsForAll, SuccessfulExitIsTrue
<1>5. TallyNeverOverclaims
  <2>1. Cardinality(FullyRecorded) \in 0..Targets
    BY <1>1, RecordedIsPartOfFleet, PartOfFleet
  <2> QED
    BY <2>1 DEF Init, TallyNeverOverclaims, NoTally, FullyRecorded
<1> QED
  BY <1>1, <1>2, <1>3, <1>4, <1>5 DEF FleetInv

\* Steps that add to the journal and touch no target: what holds of the targets
\* goes on to hold.
LEMMA JournalOnly ==
  ASSUME FleetInv, recorded \subseteq recorded', UNCHANGED <<commandVars, poolVars>>,
         \A c \in Command : c \in executed' <=> c \in executed
  PROVE  /\ CommandInv' /\ PoolInv'
         /\ ResultsAreFinal' /\ AllOrNothing'
         /\ tally' = tally => BatchAccountsForAll' /\ TallyNeverOverclaims'
         /\ exit' \in {exit, "none", "denied", "unread", "refused", "auditIncomplete",
                       "auditError", "partialFailure", "backendError"}
              => SuccessfulExitIsTrue'
<1>1. CommandInv'
  BY CommandForeign DEF FleetInv
<1>2. PoolInv'
  BY PoolStep_Inv DEF FleetInv
<1>3. ResultsAreFinal' /\ AllOrNothing'
  BY DEF FleetInv, ResultsAreFinal, AllOrNothing, commandVars, poolVars, Mutating
<1>4. ASSUME tally' = tally
      PROVE  BatchAccountsForAll'
  BY <1>4 DEF FleetInv, BatchAccountsForAll, commandVars
<1>5. ASSUME tally' = tally
      PROVE  TallyNeverOverclaims'
  <2>1. FullyRecorded \subseteq FullyRecorded' /\ FullyRecorded' \in SUBSET Target
    BY <1>1, FanoutAssumption DEF FullyRecorded, commandVars, CommandInv, CommandTypeOK
  <2>2. /\ IsFiniteSet(FullyRecorded')
        /\ Cardinality(FullyRecorded) \in Nat
        /\ Cardinality(FullyRecorded') \in Nat
    BY <2>1, PartOfFleet
  <2>3. Cardinality(FullyRecorded) <= Cardinality(FullyRecorded')
    BY <2>1, <2>2, FS_Subset
  <2>4. tally.succeeded \in 0..Targets /\ tally.succeeded <= Cardinality(FullyRecorded)
    BY DEF FleetInv, TypeOK, TallyNeverOverclaims, FullyRecorded
  <2>5. tally.succeeded <= Cardinality(FullyRecorded')
    BY <2>2, <2>3, <2>4
  <2> QED
    BY <1>5, <2>5 DEF TallyNeverOverclaims, FullyRecorded
<1>6. ASSUME exit' \in {exit, "none", "denied", "unread", "refused", "auditIncomplete",
                        "auditError", "partialFailure", "backendError"}
      PROVE  SuccessfulExitIsTrue'
  BY <1>6 DEF FleetInv, SuccessfulExitIsTrue, commandVars, Mutating
<1> QED
  BY <1>1, <1>2, <1>3, <1>4, <1>5, <1>6

LEMMA AuthorizeAllKeeps == FleetInv /\ AuthorizeAll => FleetInv'
<1> SUFFICES ASSUME FleetInv, AuthorizeAll
             PROVE  FleetInv'
  OBVIOUS
<1>1. /\ UNCHANGED <<tally, journalVars, commandVars, poolVars>>
      /\ phase = "authorize" /\ exit' \in {exit, "denied", "unread"}
  BY DEF AuthorizeAll, Leave
<1>2. /\ CommandInv' /\ PoolInv' /\ ResultsAreFinal' /\ AllOrNothing'
      /\ BatchAccountsForAll' /\ TallyNeverOverclaims' /\ SuccessfulExitIsTrue'
  BY <1>1, JournalOnly DEF journalVars
<1>3. TypeOK'
  BY <1>2 DEF AuthorizeAll, Leave, FleetInv, TypeOK, CommandInv, PoolInv
<1>4. PhaseFacts'
  BY DEF AuthorizeAll, Leave, FleetInv, PhaseFacts, TypeOK, journalVars, commandVars, poolVars, Mutating
<1> QED
  BY <1>2, <1>3, <1>4 DEF FleetInv

LEMMA AnnounceBatchKeeps == FleetInv /\ AnnounceBatch => FleetInv'
<1> SUFFICES ASSUME FleetInv, AnnounceBatch
             PROVE  FleetInv'
  OBVIOUS
<1>1. /\ UNCHANGED <<tally, commandVars, poolVars>>
      /\ recorded \subseteq recorded' /\ executed' = executed
      /\ phase = "announce" /\ exit' \in {exit, "refused"}
  BY DEF AnnounceBatch, Leave, Announce, journalVars
<1>2. /\ CommandInv' /\ PoolInv' /\ ResultsAreFinal' /\ AllOrNothing'
      /\ BatchAccountsForAll' /\ TallyNeverOverclaims' /\ SuccessfulExitIsTrue'
  BY <1>1, JournalOnly
<1>3. TypeOK'
  BY <1>2 DEF AnnounceBatch, Leave, FleetInv, TypeOK, CommandInv, PoolInv
<1>4. PhaseFacts'
  BY <1>1 DEF AnnounceBatch, Announce, Leave, FleetInv, PhaseFacts, TypeOK, commandVars, poolVars, Mutating
<1> QED
  BY <1>2, <1>3, <1>4 DEF FleetInv

\* The steps of the pool.
LEMMA PoolKeeps ==
  ASSUME FleetInv, phase = "run", PoolNext, UNCHANGED <<journalVars, commandVars, fleetVars>>,
         \A t \in (buffered \cup out)' : step[t] = "done"
  PROVE  FleetInv'
<1>1. CommandInv'
  BY CommandForeign DEF FleetInv, journalVars
<1>2. PoolInv'
  BY PoolStep_Inv DEF FleetInv
<1>3. TypeOK'
  BY <1>1, <1>2 DEF FleetInv, TypeOK, CommandInv, PoolInv, fleetVars
<1>4. PhaseFacts'
  BY DEF FleetInv, PhaseFacts, fleetVars, journalVars, commandVars, Mutating
<1>5. ResultsAreFinal' /\ AllOrNothing' /\ BatchAccountsForAll'
  BY DEF FleetInv, ResultsAreFinal, AllOrNothing, BatchAccountsForAll,
         fleetVars, journalVars, commandVars, Mutating
<1>6. TallyNeverOverclaims' /\ SuccessfulExitIsTrue'
  BY DEF FleetInv, TallyNeverOverclaims, SuccessfulExitIsTrue,
         fleetVars, journalVars, commandVars, Mutating
<1> QED
  BY <1>1, <1>2, <1>3, <1>4, <1>5, <1>6 DEF FleetInv

LEMMA ScheduleKeeps == \A w \in Worker : FleetInv /\ Schedule(w) => FleetInv'
<1> SUFFICES ASSUME NEW w \in Worker, FleetInv, Schedule(w)
             PROVE  FleetInv'
  OBVIOUS
<1>1. phase = "run" /\ PoolNext /\ UNCHANGED <<journalVars, commandVars, fleetVars>>
  BY DEF Schedule, PoolNext
<1>2. \A t \in (buffered \cup out)' : step[t] = "done"
  BY DEF Schedule, Hand, Complete, Exit, FleetInv, ResultsAreFinal
<1> QED
  BY <1>1, <1>2, PoolKeeps

LEMMA FeedKeeps == FleetInv /\ Feed => FleetInv'
<1> SUFFICES ASSUME FleetInv, Feed
             PROVE  FleetInv'
  OBVIOUS
<1>1. phase = "run" /\ PoolNext /\ UNCHANGED <<journalVars, commandVars, fleetVars>>
  BY DEF Feed, PoolNext
<1>2. \A t \in (buffered \cup out)' : step[t] = "done"
  BY DEF Feed, PoolStep, CloseJobs, CloseResults, Collect, ReturnAnswer, FleetInv, ResultsAreFinal
<1> QED
  BY <1>1, <1>2, PoolKeeps

\* A worker gets on with its target: the target is authorized and the batch is
\* announced, and nothing has been counted yet.
LEMMA WorkKeeps == \A w \in Worker : FleetInv /\ Work(w) => FleetInv'
<1> SUFFICES ASSUME NEW w \in Worker, FleetInv, Work(w)
             PROVE  FleetInv'
  OBVIOUS
<1>1. worker[w] \in Command /\ Govern(worker[w]) /\ phase = "run"
      /\ UNCHANGED <<poolVars, fleetVars>>
  BY DEF Work
<1>2. CommandInv'
  BY <1>1, GovernKeeps DEF FleetInv
<1>3. PoolInv'
  BY <1>1, PoolStep_Inv DEF FleetInv
<1>4. TypeOK'
  BY <1>1, <1>2, <1>3 DEF FleetInv, TypeOK, CommandInv, PoolInv, fleetVars
<1>5. /\ recorded \subseteq recorded' /\ executed \subseteq executed' /\ permitted' = permitted
      /\ \A d \in Command : step[d] = "done" => step'[d] = "done"
  BY <1>1, GovernMoves DEF FleetInv
<1>6. PhaseFacts'
  BY <1>1, <1>5 DEF FleetInv, PhaseFacts, fleetVars, poolVars, Mutating
<1>7. ResultsAreFinal'
  BY <1>1, <1>5, FanoutAssumption DEF FleetInv, ResultsAreFinal, PoolInv, PoolTypeOK, poolVars
<1>8. AllOrNothing'
  BY <1>1, <1>5 DEF FleetInv, PhaseFacts, AllOrNothing, Mutating
<1>9. tally' = NoTally /\ exit' # "ok"
  BY <1>1 DEF FleetInv, PhaseFacts, fleetVars
<1>10. BatchAccountsForAll' /\ SuccessfulExitIsTrue'
  BY <1>9 DEF BatchAccountsForAll, SuccessfulExitIsTrue, NoTally
<1>11. TallyNeverOverclaims'
  <2>1. FullyRecorded' \in SUBSET Target
    BY <1>2, FanoutAssumption DEF CommandInv, CommandTypeOK, FullyRecorded
  <2>2. Cardinality(FullyRecorded') \in 0..Targets
    BY <2>1, PartOfFleet
  <2> QED
    BY <1>9, <2>2 DEF TallyNeverOverclaims, FullyRecorded, NoTally
<1> QED
  BY <1>2, <1>3, <1>4, <1>6, <1>7, <1>8, <1>10, <1>11 DEF FleetInv

LEMMA GatherKeeps == FleetInv /\ Gather => FleetInv'
<1> SUFFICES ASSUME FleetInv, Gather
             PROVE  FleetInv'
  OBVIOUS
<1> USE FanoutAssumption
<1>1. /\ UNCHANGED <<tally, exit, commandVars, poolVars>>
      /\ recorded' = recorded /\ phase = "run"
      /\ \A c \in Command : c \in executed' <=> c \in executed
  BY DEF Gather, Dispatch, journalVars
<1>2. /\ CommandInv' /\ PoolInv' /\ ResultsAreFinal' /\ AllOrNothing'
      /\ BatchAccountsForAll' /\ TallyNeverOverclaims' /\ SuccessfulExitIsTrue'
  BY <1>1, JournalOnly
<1>3. TypeOK'
  BY <1>2 DEF Gather, FleetInv, TypeOK, CommandInv, PoolInv
<1>4. PhaseFacts'
  BY DEF Gather, Dispatch, FleetInv, PhaseFacts, journalVars, commandVars, poolVars, Mutating
<1> QED
  BY <1>2, <1>3, <1>4 DEF FleetInv

\* The batch outcome: everyone has answered, so the counts are the whole fleet
\* and every success they claim is recorded.
LEMMA ConcludeBatchKeeps == FleetInv /\ ConcludeBatch => FleetInv'
<1> SUFFICES ASSUME FleetInv, ConcludeBatch
             PROVE  FleetInv'
  OBVIOUS
<1>1. /\ UNCHANGED <<commandVars, poolVars>> /\ tally' = Counts
      /\ recorded \subseteq recorded' /\ executed' = executed
      /\ phase = "conclude" /\ exit' \in {exit, "auditIncomplete", "auditError"}
  BY DEF ConcludeBatch, Leave, Conclude, Enqueue, journalVars
<1>2. CommandInv' /\ PoolInv' /\ ResultsAreFinal' /\ AllOrNothing' /\ SuccessfulExitIsTrue'
  BY <1>1, JournalOnly
<1>3. out = Target /\ Mutating
  BY <1>1, EveryoneIsOut DEF FleetInv, PhaseFacts
<1>4. TypeOK'
  BY <1>1, <1>2, <1>3, CountsTyped DEF ConcludeBatch, Leave, FleetInv, TypeOK, CommandInv, PoolInv
<1>5. PhaseFacts'
  BY <1>1 DEF ConcludeBatch, Conclude, Leave, FleetInv, PhaseFacts, TypeOK, commandVars, poolVars, Mutating
<1>6. BatchAccountsForAll'
  <2>1. \A t \in Command : step'[t] = "done"
    BY <1>1, <1>3, FanoutAssumption DEF FleetInv, ResultsAreFinal, commandVars
  <2> QED
    BY <1>1, <1>3, <2>1, CountsPartition DEF BatchAccountsForAll
<1>7. TallyNeverOverclaims'
  <2>1. FullyRecorded \subseteq FullyRecorded' /\ FullyRecorded' \in SUBSET Target
    BY <1>1, <1>2, FanoutAssumption DEF FullyRecorded, commandVars, CommandInv, CommandTypeOK
  <2>2. /\ IsFiniteSet(FullyRecorded')
        /\ Cardinality(FullyRecorded) \in Nat
        /\ Cardinality(FullyRecorded') \in Nat
    BY <2>1, PartOfFleet
  <2>3. Cardinality(FullyRecorded) <= Cardinality(FullyRecorded')
    BY <2>1, <2>2, FS_Subset
  <2>4. Counts.succeeded \in 0..Targets /\ Counts.succeeded <= Cardinality(FullyRecorded)
    BY <1>3, CountsTyped, SuccessesAreRecorded DEF FleetInv
  <2>5. tally'.succeeded <= Cardinality(FullyRecorded')
    BY <1>1, <2>2, <2>3, <2>4
  <2> QED
    BY <2>5 DEF TallyNeverOverclaims, FullyRecorded
<1> QED
  BY <1>2, <1>4, <1>5, <1>6, <1>7 DEF FleetInv

LEMMA MarkBatchKeeps == FleetInv /\ MarkBatch => FleetInv'
<1> SUFFICES ASSUME FleetInv, MarkBatch
             PROVE  FleetInv'
  OBVIOUS
<1>1. /\ UNCHANGED <<tally, commandVars, poolVars>>
      /\ recorded' = recorded /\ executed' = executed
      /\ phase = "doubt" /\ phase' = "exited" /\ exit' = "auditIncomplete"
  BY DEF MarkBatch, Leave, Suspect, journalVars
<1>2. /\ CommandInv' /\ PoolInv' /\ ResultsAreFinal' /\ AllOrNothing'
      /\ BatchAccountsForAll' /\ TallyNeverOverclaims' /\ SuccessfulExitIsTrue'
  BY <1>1, JournalOnly
<1>3. TypeOK'
  BY <1>1, <1>2 DEF FleetInv, TypeOK, CommandInv, PoolInv
<1>4. PhaseFacts'
  BY <1>1 DEF FleetInv, PhaseFacts
<1> QED
  BY <1>2, <1>3, <1>4 DEF FleetInv

\* Success means that nobody answered anything but "ok".
LEMMA PrintFleetKeeps == FleetInv /\ PrintFleet => FleetInv'
<1> SUFFICES ASSUME FleetInv, PrintFleet
             PROVE  FleetInv'
  OBVIOUS
<1>1. /\ UNCHANGED <<tally, journalVars, commandVars, poolVars>>
      /\ phase = "print" /\ phase' = "exited"
      /\ exit' \in {"ok", "partialFailure", "backendError"}
  BY DEF PrintFleet, Leave
<1>2. /\ CommandInv' /\ PoolInv' /\ ResultsAreFinal' /\ AllOrNothing'
      /\ BatchAccountsForAll' /\ TallyNeverOverclaims'
  BY <1>1, JournalOnly DEF journalVars
<1>3. TypeOK'
  BY <1>1, <1>2 DEF FleetInv, TypeOK, CommandInv, PoolInv
<1>4. PhaseFacts'
  BY <1>1 DEF FleetInv, PhaseFacts
<1>5. SuccessfulExitIsTrue'
  <2>1. CASE exit' # "ok"
    BY <2>1 DEF SuccessfulExitIsTrue
  <2>2. CASE exit' = "ok"
    <3>1. out = Target
      BY <1>1, EveryoneIsOut DEF FleetInv, PhaseFacts
    <3>2. Counts.failed \in Nat /\ ~(Counts.failed > 0)
      BY <2>2, <3>1, CountsTyped DEF PrintFleet, Leave
    <3>3. Counts.failed = 0
      BY <3>2
    <3>4. {t \in out : reply[t] \notin {"ok", "truncated", "uncertain"}} = {}
      <4> DEFINE F == {t \in out : reply[t] \notin {"ok", "truncated", "uncertain"}}
      <4>1. F \in SUBSET Target
        BY <3>1
      <4>2. IsFiniteSet(F)
        BY <4>1, PartOfFleet
      <4>3. Cardinality(F) = 0
        BY <3>3 DEF Counts
      <4> QED
        BY <4>2, <4>3, FS_EmptySet
    <3>5. Replies({"uncertain", "truncated"}) = {}
      BY <2>2 DEF PrintFleet, Leave
    <3>6. \A t \in Command : reply[t] = "ok"
      BY <3>1, <3>4, <3>5, FanoutAssumption DEF Replies
    <3>7. \A t \in Command : seen[t] = "exit0" /\ {IntentOf(t), OutcomeOf(t)} \subseteq recorded
      BY <3>6, CommandAssumption DEF FleetInv, CommandInv, OkIsExitZero, SuccessIsTrue, ReadAnswerIsTrue
    <3>8. Mutating => changed = Command
      BY <3>6 DEF Mutating, FleetInv, CommandInv, CommandTypeOK, SuccessIsTrue
    <3>9. Mutating => {IntentOf(Batch), OutcomeOf(Batch)} \subseteq recorded
      BY <1>1 DEF FleetInv, PhaseFacts
    <3> QED
      BY <1>1, <3>7, <3>8, <3>9 DEF SuccessfulExitIsTrue, journalVars, commandVars, Mutating
  <2> QED
    BY <2>1, <2>2
<1> QED
  BY <1>2, <1>3, <1>4, <1>5 DEF FleetInv

LEMMA ElsewhereKeeps == FleetInv /\ Elsewhere => FleetInv'
<1> SUFFICES ASSUME FleetInv, Elsewhere
             PROVE  FleetInv'
  OBVIOUS
<1>1. /\ UNCHANGED <<commandVars, poolVars, fleetVars>>
      /\ recorded \subseteq recorded' /\ executed' = executed
  BY UpkeepGrows DEF Elsewhere
<1>2. /\ CommandInv' /\ PoolInv' /\ ResultsAreFinal' /\ AllOrNothing'
      /\ BatchAccountsForAll' /\ TallyNeverOverclaims' /\ SuccessfulExitIsTrue'
  BY <1>1, JournalOnly DEF fleetVars
<1>3. TypeOK'
  BY <1>1, <1>2 DEF FleetInv, TypeOK, CommandInv, PoolInv, fleetVars
<1>4. PhaseFacts'
  BY <1>1 DEF FleetInv, PhaseFacts, fleetVars, commandVars, poolVars, Mutating
<1> QED
  BY <1>2, <1>3, <1>4 DEF FleetInv

LEMMA FleetStep == FleetInv /\ [Next]_vars => FleetInv'
<1> SUFFICES ASSUME FleetInv, [Next]_vars
             PROVE  FleetInv'
  OBVIOUS
<1>1. CASE Front
  BY <1>1, AuthorizeAllKeeps, AnnounceBatchKeeps, GatherKeeps, ConcludeBatchKeeps,
     MarkBatchKeeps, PrintFleetKeeps DEF Front
<1>2. CASE Feed
  BY <1>2, FeedKeeps
<1>3. CASE \E w \in Worker : Schedule(w) \/ Work(w)
  BY <1>3, ScheduleKeeps, WorkKeeps
<1>4. CASE Elsewhere
  BY <1>4, ElsewhereKeeps
<1>5. CASE UNCHANGED vars
  <2>1. /\ CommandInv' /\ PoolInv' /\ ResultsAreFinal' /\ AllOrNothing'
        /\ BatchAccountsForAll' /\ TallyNeverOverclaims' /\ SuccessfulExitIsTrue'
    BY <1>5, JournalOnly DEF vars, journalVars, fleetVars
  <2>2. TypeOK' /\ PhaseFacts'
    BY <1>5, <2>1 DEF vars, journalVars, commandVars, poolVars, fleetVars, FleetInv, TypeOK,
                      PhaseFacts, CommandInv, PoolInv, Mutating
  <2> QED
    BY <2>1, <2>2 DEF FleetInv
<1> QED
  BY <1>1, <1>2, <1>3, <1>4, <1>5 DEF Next

LEMMA FleetAlways == Spec => []FleetInv
  BY FleetInitially, FleetStep, PTL DEF Spec

-----------------------------------------------------------------------------
\* No target runs unless all of them are authorized, and no mutation of a fleet
\* runs before the batch is announced.
THEOREM NoneOrAll == Spec => []AllOrNothing
<1>1. FleetInv => AllOrNothing
  BY DEF FleetInv
<1> QED
  BY <1>1, FleetAlways, PTL

\* The counts of the batch outcome add up to the fleet, and are taken when
\* everyone has answered.
THEOREM EveryTargetCounted == Spec => []BatchAccountsForAll
<1>1. FleetInv => BatchAccountsForAll
  BY DEF FleetInv
<1> QED
  BY <1>1, FleetAlways, PTL

\* The batch outcome claims no success that is not both real and recorded.
THEOREM NoOverclaim == Spec => []TallyNeverOverclaims
<1>1. FleetInv => TallyNeverOverclaims
  BY DEF FleetInv
<1> QED
  BY <1>1, FleetAlways, PTL

\* Exit status 0 of a fleet command means success everywhere, recorded in full.
THEOREM ExitZeroIsTrue == Spec => []SuccessfulExitIsTrue
<1>1. FleetInv => SuccessfulExitIsTrue
  BY DEF FleetInv
<1> QED
  BY <1>1, FleetAlways, PTL

\* Whatever the fleet command does around it, the worker pool is the pool of
\* FanoutPool.
THEOREM FleetUsesPool == Spec => PoolSpec
<1>1. Init => PoolInit
  BY DEF Init
<1>2. [Next]_vars => [PoolNext]_poolVars
  <2> SUFFICES ASSUME [Next]_vars
               PROVE  [PoolNext]_poolVars
    OBVIOUS
  <2>1. CASE Front
    BY <2>1 DEF Front, AuthorizeAll, AnnounceBatch, Gather, ConcludeBatch, MarkBatch, PrintFleet
  <2>2. CASE Feed
    BY <2>2 DEF Feed, PoolNext
  <2>3. ASSUME NEW w \in Worker, Schedule(w) \/ Work(w)
        PROVE  [PoolNext]_poolVars
    BY <2>3 DEF Schedule, Work, PoolNext
  <2>4. CASE Elsewhere
    BY <2>4 DEF Elsewhere
  <2>5. CASE UNCHANGED vars
    BY <2>5 DEF vars
  <2> QED
    BY <2>1, <2>2, <2>3, <2>4, <2>5 DEF Next
<1> QED
  BY <1>1, <1>2, PTL DEF Spec, PoolSpec

\* The targets and the batch around them use the journal as it asks to be used.
THEOREM FleetUsesJournal == Spec => JournalSpec
<1>1. Init => JournalInit
  BY DEF Init
<1>2. FleetInv /\ [Next]_vars => [JournalNext]_journalVars
  <2> SUFFICES ASSUME FleetInv, [Next]_vars
               PROVE  [JournalNext]_journalVars
    OBVIOUS
  <2> USE FanoutAssumption
  <2>1. CASE AuthorizeAll \/ PrintFleet
    BY <2>1 DEF AuthorizeAll, PrintFleet
  <2>2. CASE AnnounceBatch
    BY <2>2 DEF AnnounceBatch, JournalNext
  <2>3. CASE Gather
    BY <2>3 DEF Gather, Dispatch, FleetInv, PhaseFacts, Perform, JournalNext
  <2>4. CASE ConcludeBatch
    BY <2>4 DEF ConcludeBatch, JournalNext
  <2>5. CASE MarkBatch
    BY <2>5 DEF MarkBatch, JournalNext
  <2>6. CASE Feed
    BY <2>6 DEF Feed
  <2>7. ASSUME NEW w \in Worker, Schedule(w)
        PROVE  [JournalNext]_journalVars
    BY <2>7 DEF Schedule
  <2>8. ASSUME NEW w \in Worker, Work(w)
        PROVE  [JournalNext]_journalVars
    BY <2>8, GovernIsJournal DEF Work, FleetInv
  <2>9. CASE Elsewhere
    BY <2>9 DEF Elsewhere, Upkeep, JournalNext
  <2>10. CASE UNCHANGED vars
    BY <2>10 DEF vars
  <2> QED
    BY <2>1, <2>2, <2>3, <2>4, <2>5, <2>6, <2>7, <2>8, <2>9, <2>10 DEF Next, Front
<1> QED
  BY <1>1, <1>2, FleetAlways, PTL DEF Spec, JournalSpec
=============================================================================
