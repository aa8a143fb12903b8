----------------------------- MODULE FanoutPool -----------------------------
(***************************************************************************)
(* The bounded worker pool of a fleet command (internal/fanout/fanout.go). *)
(*                                                                         *)
(* A feeder hands the targets, in order, to the workers over an unbuffered *)
(* channel, so sending and receiving are one step.  The results go through *)
(* a channel with room for every target to the caller, who sorts them once *)
(* the channel is closed.  The order of results before the sort is left    *)
(* out.  A target is the rank of its name.                                 *)
(***************************************************************************)
EXTENDS Integers, FiniteSets

CONSTANTS
  Targets,      \* how many targets there are
  Concurrency   \* the --concurrency asked for

ASSUME PoolAssumption == Targets \in Nat /\ Concurrency \in Int

Target == 1..Targets

\* The requested concurrency, brought into the range of useful values.
Clamped ==
  IF Concurrency < 1 THEN 1
  ELSE IF Concurrency > Targets THEN Targets ELSE Concurrency

\* Without targets no worker is started.
Worker == IF Targets = 0 THEN {} ELSE 1..Clamped

Idle   == 0
Exited == -1

VARIABLES
  next,       \* the target the feeder sends next
  closed,     \* the feeder has closed the jobs channel
  worker,     \* what each worker holds, Idle or Exited
  buffered,   \* results in the results channel
  drained,    \* the results channel is closed: every worker has exited
  out,        \* results the caller has taken
  answer      \* the sorted results, once Run has returned them

poolVars == <<next, closed, worker, buffered, drained, out, answer>>

NoAnswer == <<0>>

PoolInit ==
  /\ next = 1
  /\ closed = FALSE
  /\ worker = [w \in Worker |-> Idle]
  /\ buffered = {}
  /\ drained = FALSE
  /\ out = {}
  /\ answer = NoAnswer

\* Mutant: the target is read without being taken off the list.
HandTwice(w) ==
  /\ worker[w] = Idle
  /\ next \in Target
  /\ worker' = [worker EXCEPT ![w] = next]
  /\ next' \in {next, next + 1}
  /\ UNCHANGED <<closed, buffered, drained, out, answer>>

\* The feeder sends the next target and an idle worker receives it.
Hand(w) ==
  /\ worker[w] = Idle
  /\ next \in Target
  /\ worker' = [worker EXCEPT ![w] = next]
  /\ next' = next + 1
  /\ UNCHANGED <<closed, buffered, drained, out, answer>>

\* Mutant: the jobs channel is closed only after the workers have gone.
CloseJobsAfterWorkers ==
  /\ next > Targets
  /\ ~closed
  /\ \A w \in Worker : worker[w] = Exited
  /\ closed' = TRUE
  /\ UNCHANGED <<next, worker, buffered, drained, out, answer>>

\* The feeder has sent everything.
CloseJobs ==
  /\ next > Targets
  /\ ~closed
  /\ closed' = TRUE
  /\ UNCHANGED <<next, worker, buffered, drained, out, answer>>

\* A worker has run its target and sends the result.
Complete(w) ==
  /\ worker[w] \in Target
  /\ Cardinality(buffered) < Targets
  /\ buffered' = buffered \cup {worker[w]}
  /\ worker' = [worker EXCEPT ![w] = Idle]
  /\ UNCHANGED <<next, closed, drained, out, answer>>

Exit(w) ==
  /\ worker[w] = Idle
  /\ closed
  /\ worker' = [worker EXCEPT ![w] = Exited]
  /\ UNCHANGED <<next, closed, buffered, drained, out, answer>>

\* Mutant: the feeder closes the results without waiting for the workers.
CloseResultsEarly ==
  /\ closed
  /\ ~drained
  /\ drained' = TRUE
  /\ UNCHANGED <<next, closed, worker, buffered, out, answer>>

\* The feeder has waited for the workers and closes the results channel.
CloseResults ==
  /\ closed
  /\ ~drained
  /\ \A w \in Worker : worker[w] = Exited
  /\ drained' = TRUE
  /\ UNCHANGED <<next, closed, worker, buffered, out, answer>>

Collect ==
  /\ \E t \in buffered :
       /\ buffered' = buffered \ {t}
       /\ out' = out \cup {t}
  /\ UNCHANGED <<next, closed, worker, drained, answer>>

\* sort.Slice over the results.
Sorted(results) ==
  [i \in 1..Cardinality(results) |->
     CHOOSE t \in results : Cardinality({u \in results : u <= t}) = i]

\* The channel is closed and empty: sort what was collected.
ReturnAnswer ==
  /\ drained
  /\ buffered = {}
  /\ answer = NoAnswer
  /\ answer' = Sorted(out)
  /\ UNCHANGED <<next, closed, worker, buffered, drained, out>>

PoolStep == CloseJobs \/ CloseResults \/ Collect \/ ReturnAnswer

PoolNext ==
  \/ \E w \in Worker : Hand(w) \/ Complete(w) \/ Exit(w)
  \/ PoolStep

PoolSpec == PoolInit /\ [][PoolNext]_poolVars

-----------------------------------------------------------------------------
(* Properties.                                                              *)

Held == {worker[w] : w \in Worker} \cap Target

PoolTypeOK ==
  /\ next \in 1..(Targets + 1)
  /\ closed \in BOOLEAN
  /\ worker \in [Worker -> Target \cup {Idle, Exited}]
  /\ buffered \subseteq Target
  /\ drained \in BOOLEAN
  /\ out \subseteq Target

\* A target that was handed out is with one worker, or its result is in the
\* channel, or the caller has it: never two of these, so none runs twice.
EachTargetOnce ==
  /\ \A v, w \in Worker : worker[v] = worker[w] /\ worker[v] \in Target => v = w
  /\ Held \cap buffered = {}
  /\ Held \cap out = {}
  /\ buffered \cap out = {}
  /\ Held \cup buffered \cup out = 1..(next - 1)

\* A finished worker can always send: the results channel has room for it even
\* if the caller never took one.
SendNeverBlocks == Held # {} => Cardinality(buffered) < Targets

\* Once the results channel is closed nobody sends to it.
NoSendAfterClose == drained => Held = {} /\ next > Targets

\* What Run returns is every target, in order.
AnswerIsComplete ==
  answer # NoAnswer => answer = [t \in Target |-> t]
=============================================================================
