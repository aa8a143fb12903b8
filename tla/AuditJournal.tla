---------------------------- MODULE AuditJournal ----------------------------
(***************************************************************************)
(* What the two-phase audit of srvgov-cli promises, without its lock, its  *)
(* files and its process steps: a journal of records, a first-in first-out *)
(* queue of the outcomes the journal refused, and a set of outcomes nobody *)
(* may append because it is unknown whether the journal has them.          *)
(*                                                                         *)
(* AuditSpool implements this specification; AuditSpoolRefinement states   *)
(* the mapping.                                                            *)
(***************************************************************************)
EXTENDS Naturals, Sequences

CONSTANTS Mutation, Reader

VARIABLES
  recorded,     \* the records in the journal
  executed,     \* the operations that have run
  queue,        \* outcomes waiting to be replayed, oldest first
  quarantined   \* outcomes that only the operator may settle

journalVars == <<recorded, executed, queue, quarantined>>

IntentOf(a)  == [phase |-> "intent", id |-> a]
OutcomeOf(a) == [phase |-> "outcome", id |-> a]

\* A new record is accepted only when no outcome is outstanding.
Settled == queue = << >> /\ quarantined = {}

JournalInit ==
  /\ recorded = {}
  /\ executed = {}
  /\ queue = << >>
  /\ quarantined = {}

Announce(a) ==
  /\ a \notin executed
  /\ Settled
  /\ recorded' = recorded \cup {IntentOf(a)}
  /\ UNCHANGED <<executed, queue, quarantined>>

Perform(a) ==
  /\ IntentOf(a) \in recorded
  /\ executed' = executed \cup {a}
  /\ UNCHANGED <<recorded, queue, quarantined>>

\* The outcome of an operation, straight into the journal.
Conclude(a) ==
  /\ a \in executed
  /\ Settled
  /\ recorded' = recorded \cup {OutcomeOf(a)}
  /\ UNCHANGED <<executed, queue, quarantined>>

\* The outcome of a mutation the journal refused.
Enqueue(m) ==
  /\ m \in executed
  /\ \A i \in 1..Len(queue) : queue[i] # m
  /\ queue' = Append(queue, m)
  /\ UNCHANGED <<recorded, executed, quarantined>>

\* The outcome of a mutation the journal may or may not have taken.
Suspect(m) ==
  /\ m \in executed
  /\ quarantined' = quarantined \cup {m}
  /\ UNCHANGED <<recorded, executed, queue>>

\* The oldest queued outcome goes to the journal, and then leaves the queue:
\* two steps, so that a crash between them may record it again.
Deliver ==
  /\ queue # << >>
  /\ quarantined = {}
  /\ recorded' = recorded \cup {OutcomeOf(Head(queue))}
  /\ UNCHANGED <<executed, queue, quarantined>>

Retire ==
  /\ queue # << >>
  /\ OutcomeOf(Head(queue)) \in recorded
  /\ queue' = Tail(queue)
  /\ UNCHANGED <<recorded, executed, quarantined>>

\* It became unknown whether the journal took the oldest queued outcome.
SuspectOldest ==
  /\ queue # << >>
  /\ quarantined' = quarantined \cup {Head(queue)}
  /\ queue' = Tail(queue)
  /\ UNCHANGED <<recorded, executed>>

Settle(m) ==
  /\ m \in quarantined
  /\ quarantined' = quarantined \ {m}
  /\ UNCHANGED <<recorded, executed, queue>>

JournalNext ==
  \/ \E a \in Mutation \cup Reader : Announce(a) \/ Perform(a) \/ Conclude(a)
  \/ \E m \in Mutation : Enqueue(m) \/ Suspect(m) \/ Settle(m)
  \/ Deliver
  \/ Retire
  \/ SuspectOldest

JournalSpec == JournalInit /\ [][JournalNext]_journalVars
=============================================================================
