--------------------- MODULE AuditSpoolRefinementProofs ---------------------
(***************************************************************************)
(* The spool directory implements the queue of AuditJournal, for any sets  *)
(* of operations, any bound on the numbers, with and without crashes and   *)
(* poisoned records.                                                       *)
(*                                                                         *)
(* First the order of numbered files by itself: every file has a place,    *)
(* every place has a file, a newer file is appended, and without the       *)
(* oldest the tail remains.  Then each operation of the spool as a step of *)
(* the journal.                                                            *)
(***************************************************************************)
EXTENDS AuditSpoolProofs, AuditSpoolRefinement, SequenceTheorems

\* Files whose numbers tell them apart, so that they have an order.
Numbered(files) ==
  /\ files \subseteq File
  /\ IsFiniteSet(files)
  /\ \A f, g \in files : f.seq = g.seq => f = g

\* A place is a number from 1 to the number of files.
LEMMA PlaceInRange ==
  ASSUME NEW files, Numbered(files), NEW f \in files
  PROVE  /\ Place(f, files) \in 1..Cardinality(files)
         /\ Cardinality(files) \in Nat
  <1> DEFINE upTo == {g \in files : g.seq <= f.seq}
  <1>1. f \in upTo
    BY DEF Numbered, File
  <1>2. IsFiniteSet(upTo) /\ Cardinality(upTo) <= Cardinality(files)
    BY FS_Subset DEF Numbered
  <1>3. Cardinality(upTo) \in Nat /\ Cardinality(files) \in Nat
    BY <1>2, FS_CardinalityType DEF Numbered
  <1>4. Cardinality(upTo) # 0
    BY <1>1, <1>2, FS_EmptySet
  <1>5. QED
    BY <1>2, <1>3, <1>4 DEF Place

\* A later file has a later place.
LEMMA PlaceMonotone ==
  ASSUME NEW files, Numbered(files), NEW f \in files, NEW g \in files, f.seq < g.seq
  PROVE  Place(f, files) < Place(g, files)
  <1> DEFINE uptoF == {h \in files : h.seq <= f.seq}
             uptoG == {h \in files : h.seq <= g.seq}
  <1>1. uptoF \in SUBSET uptoG /\ g \in uptoG /\ g \notin uptoF
    BY DEF Numbered, File
  <1>2. IsFiniteSet(uptoG)
    BY FS_Subset DEF Numbered
  <1>3. /\ IsFiniteSet(uptoF)
        /\ Cardinality(uptoF) <= Cardinality(uptoG)
        /\ Cardinality(uptoF) # Cardinality(uptoG)
    BY <1>1, <1>2, FS_Subset
  <1>4. Cardinality(uptoF) \in Nat /\ Cardinality(uptoG) \in Nat
    BY <1>2, <1>3, FS_CardinalityType
  <1>5. QED
    BY <1>3, <1>4 DEF Place

\* No two files have the same place.
LEMMA PlaceInjective ==
  ASSUME NEW files, Numbered(files), NEW f \in files, NEW g \in files,
         Place(f, files) = Place(g, files)
  PROVE  f = g
  <1>1. f.seq \in Nat /\ g.seq \in Nat
    BY DEF Numbered, File
  <1>2. Place(f, files) \in Nat /\ Place(g, files) \in Nat
    BY PlaceInRange
  <1>3. ~(f.seq < g.seq) /\ ~(g.seq < f.seq)
    BY <1>2, PlaceMonotone
  <1>4. QED
    BY <1>1, <1>3 DEF Numbered

\* Every place is taken: the order has no gaps.
LEMMA PlaceOnto ==
  ASSUME NEW files, Numbered(files), NEW i \in 1..Cardinality(files)
  PROVE  \E f \in files : Place(f, files) = i
  <1> DEFINE n == Cardinality(files)
             place == [f \in files |-> Place(f, files)]
  <1>1. n \in Nat
    BY FS_CardinalityType DEF Numbered
  <1>2. place \in Injection(files, 1..n)
    <2>1. place \in [files -> 1..n]
      BY PlaceInRange
    <2>2. \A f, g \in files : place[f] = place[g] => f = g
      BY PlaceInjective
    <2>3. QED
      BY <2>1, <2>2 DEF Injection, IsInjective
  <1>3. IsFiniteSet(1..n) /\ Cardinality(1..n) = n
    BY <1>1, FS_Interval
  <1>4. place \in Surjection(files, 1..n)
    BY <1>2, <1>3, FS_Injection
  <1>5. QED
    BY <1>4 DEF Surjection

\* The queue has the mutation of a file at its place.
LEMMA AtPlace ==
  ASSUME NEW files, Numbered(files), NEW f \in files
  PROVE  InOrder(files)[Place(f, files)] = f.id
  <1> DEFINE i == Place(f, files)
  <1>1. i \in 1..Cardinality(files)
    BY PlaceInRange
  <1>2. (CHOOSE g \in files : Place(g, files) = i) = f
    BY PlaceInjective
  <1>3. QED
    BY <1>1, <1>2 DEF InOrder

\* The queue is a sequence of mutations, one for each file.
LEMMA InOrderIsSeq ==
  ASSUME NEW files, Numbered(files)
  PROVE  /\ InOrder(files) \in Seq(Mutation)
         /\ Len(InOrder(files)) = Cardinality(files)
         /\ Cardinality(files) \in Nat
  <1>1. Cardinality(files) \in Nat
    BY FS_CardinalityType DEF Numbered
  <1>2. \A i \in 1..Cardinality(files) : InOrder(files)[i] \in Mutation
    <2> TAKE i \in 1..Cardinality(files)
    <2>1. PICK f \in files : Place(f, files) = i
      BY PlaceOnto
    <2>2. InOrder(files)[i] = f.id
      BY <2>1, AtPlace
    <2>3. QED
      BY <2>2 DEF Numbered, File
  <1>3. InOrder(files) \in [1..Cardinality(files) -> Mutation]
    BY <1>2 DEF InOrder
  <1>4. InOrder(files) \in Seq(Mutation)
    BY <1>1, <1>3
  <1>5. QED
    BY <1>1, <1>3, <1>4

\* A file newer than all others goes to the end of the queue.
LEMMA NewestIsAppended ==
  ASSUME NEW files, Numbered(files), NEW f \in File, \A g \in files : g.seq < f.seq
  PROVE  /\ Numbered(files \cup {f})
         /\ InOrder(files \cup {f}) = Append(InOrder(files), f.id)
  <1> DEFINE more == files \cup {f}
             n == Cardinality(files)
  <1>1. f \notin files
    BY DEF File
  <1>2. IsFiniteSet(more) /\ Cardinality(more) = n + 1
    BY <1>1, FS_AddElement DEF Numbered
  <1>3. Numbered(more)
    BY <1>2 DEF Numbered, File
  <1>4. /\ InOrder(files) \in Seq(Mutation) /\ Len(InOrder(files)) = n /\ n \in Nat
        /\ InOrder(more) \in Seq(Mutation) /\ Len(InOrder(more)) = n + 1
    BY <1>2, <1>3, InOrderIsSeq
  <1>5. Place(f, more) = n + 1
    <2>1. {g \in more : g.seq <= f.seq} = more
      BY DEF Numbered, File
    <2>2. QED
      BY <1>2, <2>1 DEF Place
  <1>6. \A g \in files : Place(g, more) = Place(g, files)
    <2> TAKE g \in files
    <2>1. {h \in more : h.seq <= g.seq} = {h \in files : h.seq <= g.seq}
      BY DEF Numbered, File
    <2>2. QED
      BY <2>1 DEF Place
  <1>7. \A i \in 1..n : InOrder(more)[i] = InOrder(files)[i]
    <2> TAKE i \in 1..n
    <2>1. PICK g \in files : Place(g, files) = i
      BY PlaceOnto
    <2>2. InOrder(files)[i] = g.id
      BY <2>1, AtPlace
    <2>3. InOrder(more)[i] = g.id
      BY <2>1, <1>3, <1>6, AtPlace
    <2>4. QED
      BY <2>2, <2>3
  <1>8. InOrder(more)[n + 1] = f.id
    BY <1>3, <1>5, AtPlace
  <1>9. f.id \in Mutation
    BY DEF File
  <1>10. /\ Append(InOrder(files), f.id) \in Seq(Mutation)
         /\ Len(Append(InOrder(files), f.id)) = n + 1
         /\ \A i \in 1..n : Append(InOrder(files), f.id)[i] = InOrder(files)[i]
         /\ Append(InOrder(files), f.id)[n + 1] = f.id
    BY <1>4, <1>9
  <1>11. \A i \in 1..(n + 1) : InOrder(more)[i] = Append(InOrder(files), f.id)[i]
    <2> TAKE i \in 1..(n + 1)
    <2>1. CASE i \in 1..n
      BY <2>1, <1>7, <1>10
    <2>2. CASE i = n + 1
      BY <2>2, <1>8, <1>10
    <2>3. QED
      BY <1>4, <2>1, <2>2
  <1>12. InOrder(more) = Append(InOrder(files), f.id)
    BY <1>4, <1>10, <1>11, SeqEqual
  <1>13. QED
    BY <1>3, <1>12

\* The oldest file is at the head, and without it the tail remains.
LEMMA OldestIsHead ==
  ASSUME NEW files, Numbered(files), NEW f \in files, \A g \in files : f.seq <= g.seq
  PROVE  /\ InOrder(files) # << >>
         /\ Head(InOrder(files)) = f.id
         /\ Numbered(files \ {f})
         /\ InOrder(files \ {f}) = Tail(InOrder(files))
  <1> DEFINE rest == files \ {f}
             n == Cardinality(files)
  <1>1. IsFiniteSet(rest) /\ Cardinality(rest) = n - 1
    BY FS_RemoveElement DEF Numbered
  <1>2. Numbered(rest)
    BY <1>1 DEF Numbered
  <1>3. /\ InOrder(files) \in Seq(Mutation) /\ Len(InOrder(files)) = n /\ n \in Nat
        /\ InOrder(rest) \in Seq(Mutation) /\ Len(InOrder(rest)) = n - 1
        /\ n - 1 \in Nat
    BY <1>1, <1>2, InOrderIsSeq
  <1>4. Place(f, files) = 1
    <2>1. {g \in files : g.seq <= f.seq} = {f}
      BY DEF Numbered, File
    <2>2. QED
      BY <2>1, FS_Singleton DEF Place
  <1>5. InOrder(files)[1] = f.id
    BY <1>4, AtPlace
  <1>6. InOrder(files) # << >> /\ Head(InOrder(files)) = f.id
    BY <1>3, <1>5
  <1>7. \A g \in rest : Place(g, files) = Place(g, rest) + 1 /\ Place(g, rest) \in Nat
    <2> TAKE g \in rest
    <2> DEFINE upTo == {h \in rest : h.seq <= g.seq}
    <2>1. {h \in files : h.seq <= g.seq} = upTo \cup {f}
      BY DEF Numbered, File
    <2>2. IsFiniteSet(upTo)
      BY <1>1, FS_Subset
    <2>3. Cardinality(upTo \cup {f}) = Cardinality(upTo) + 1 /\ Cardinality(upTo) \in Nat
      BY <2>2, FS_AddElement, FS_CardinalityType
    <2>4. QED
      BY <2>1, <2>3 DEF Place
  <1>8. \A i \in 1..(n - 1) : InOrder(rest)[i] = Tail(InOrder(files))[i]
    <2> TAKE i \in 1..(n - 1)
    <2>1. PICK g \in rest : Place(g, rest) = i
      BY <1>1, <1>2, PlaceOnto
    <2>2. InOrder(rest)[i] = g.id
      BY <1>2, <2>1, AtPlace
    <2>3. InOrder(files)[i + 1] = g.id
      BY <1>7, <2>1, AtPlace
    <2>4. Tail(InOrder(files))[i] = InOrder(files)[i + 1]
      BY <1>3, <1>6
    <2>5. QED
      BY <2>2, <2>3, <2>4
  <1>9. Tail(InOrder(files)) \in Seq(Mutation) /\ Len(Tail(InOrder(files))) = n - 1
    BY <1>3, <1>6
  <1>10. InOrder(rest) = Tail(InOrder(files))
    BY <1>3, <1>8, <1>9, SeqEqual
  <1>11. QED
    BY <1>2, <1>6, <1>10

-----------------------------------------------------------------------------
(* The spool as a journal.                                                  *)

\* A file that is being written is the newest, so that its rename appends it
\* to the queue.
TempIsNewest == \A f, g \in spool : f.temp /\ g # f => g.seq < f.seq

RefinedInv == SafetyInv /\ OnceInv /\ TempIsNewest

\* A new file is numbered after all others, and none is begun while one is being
\* written.
LEMMA TempIsNewestStep == RefinedInv /\ [Next]_vars => TempIsNewest'
  <1> SUFFICES ASSUME RefinedInv, [Next]_vars PROVE TempIsNewest'
    OBVIOUS
  <1> USE DEF RefinedInv
  <1>1. CASE spool' \subseteq spool
    BY <1>1 DEF TempIsNewest
  <1>2. ASSUME NEW m \in Actor, WriteTemp(m) PROVE TempIsNewest'
    <2> DEFINE new(n) == [seq |-> n, id |-> m, temp |-> TRUE,
                          kind |-> IF pc[m] = "mark" THEN "indeterminate" ELSE "ready"]
    <2>1. PICK n \in 1..MaxSeq : NextSequence(n) /\ spool' = spool \cup {new(n)}
      BY <1>2 DEF WriteTemp
    <2>2. new(n).seq = n
      OBVIOUS
    <2> HIDE DEF new
    <2>3. \A f \in spool : ~f.temp /\ f.seq < n
      BY <1>2, <2>1 DEF WriteTemp, Unexpected, NextSequence
    <2>4. QED
      BY <2>1, <2>2, <2>3 DEF TempIsNewest
  <1>3. ASSUME NEW a \in Actor, Quarantine(a) PROVE TempIsNewest'
    <2>1. ~Unexpected
      BY <1>3 DEF Quarantine, SafetyInv, QueueOwnership, ReplaySeesCleanSpool
    <2>2. PICK f \in spool :
            \/ spool' = (spool \ {f}) \cup {[f EXCEPT !.kind = "indeterminate"]}
            \/ spool' = spool
      BY <1>3 DEF Quarantine
    <2>3. f \in File
      BY DEF SafetyInv, TypeOK
    <2>4. [f EXCEPT !.kind = "indeterminate"].temp = f.temp
      BY <2>3 DEF File
    <2>5. \A g \in spool' : ~g.temp
      BY <2>1, <2>2, <2>4 DEF Unexpected
    <2>6. QED
      BY <2>5 DEF TempIsNewest
  <1>4. ASSUME NEW a \in Actor, CommitFile(a) PROVE TempIsNewest'
    <2>1. PICK f \in spool :
            /\ f.temp
            /\ \/ spool' = (spool \ {f}) \cup {[f EXCEPT !.temp = FALSE]}
               \/ spool' \subseteq spool
      BY <1>4 DEF CommitFile
    <2>2. f \in File
      BY DEF SafetyInv, TypeOK
    <2>3. ~[f EXCEPT !.temp = FALSE].temp
      BY <2>2 DEF File
    <2>4. \A g \in spool : g.temp => g = f
      <3>1. ASSUME NEW g \in spool, g.temp, g # f PROVE FALSE
        <4>1. g.seq < f.seq /\ f.seq < g.seq
          BY <2>1, <3>1 DEF TempIsNewest
        <4>2. f.seq \in Nat /\ g.seq \in Nat
          BY DEF SafetyInv, TypeOK, File
        <4>3. QED
          BY <4>1, <4>2
      <3>2. QED
        BY <3>1
    <2>5. CASE spool' = (spool \ {f}) \cup {[f EXCEPT !.temp = FALSE]}
      <3>1. \A g \in spool' : ~g.temp
        BY <2>3, <2>4, <2>5
      <3>2. QED
        BY <3>1 DEF TempIsNewest
    <2>6. QED
      BY <1>1, <2>1, <2>5
  <1>5. \/ spool' \subseteq spool
        \/ \E a \in Actor : WriteTemp(a) \/ Quarantine(a) \/ CommitFile(a)
    BY DEF Next, Proceed, Acquire, AcquireFails, Scan, Replay, RemoveReplayed, Drained,
           AppendIntent, AppendOutcome, AppendReadOutcome, WriteFails, Execute, Crash,
           Reconcile, Heal, vars
  <1>6. QED
    BY <1>1, <1>2, <1>3, <1>4, <1>5

LEMMA RefinedAlways == Spec => []RefinedInv
  <1>1. Init => TempIsNewest
    BY DEF Init, TempIsNewest
  <1>2. Init => RefinedInv
    BY <1>1, SafetyInitially, OnceInitially DEF RefinedInv
  <1>3. RefinedInv /\ [Next]_vars => RefinedInv'
    BY SafetyStep, OnceStep, TempIsNewestStep DEF RefinedInv
  <1>4. QED
    BY <1>2, <1>3, PTL DEF Spec

\* No two files share a number, so there are at most MaxSeq.
LEMMA SpoolIsNumbered ==
  ASSUME SafetyInv
  PROVE  Numbered(spool) /\ Numbered(ReadyFiles)
  <1> DEFINE number == [f \in spool |-> f.seq]
  <1>1. spool \subseteq File /\ MaxSeq \in Nat
    BY SpoolAssumption DEF SafetyInv, TypeOK
  <1>2. number \in Injection(spool, 1..MaxSeq)
    <2>1. number \in [spool -> 1..MaxSeq]
      BY <1>1 DEF File
    <2>2. \A f, g \in spool : number[f] = number[g] => f = g
      BY DEF SafetyInv, SpoolNamesUnique
    <2>3. QED
      BY <2>1, <2>2 DEF Injection, IsInjective
  <1>3. IsFiniteSet(spool)
    BY <1>1, <1>2, FS_Interval, FS_Injection
  <1>4. IsFiniteSet(ReadyFiles)
    BY <1>3, FS_Subset DEF ReadyFiles
  <1>5. QED
    BY <1>1, <1>3, <1>4 DEF Numbered, SafetyInv, SpoolNamesUnique, ReadyFiles

\* The queue after a step is that of the files after it.
LEMMA QueuePrimed ==
  /\ InOrder(ReadyFiles)' = InOrder({f \in spool' : Ready(f)})
  /\ {f.id : f \in MarkedFiles}' = {f.id : f \in {g \in spool' : Marker(g)}}
  BY DEF InOrder, Place, ReadyFiles, MarkedFiles, Ready, Marker

\* The journal does not see what changes neither its records, nor the ready
\* files, nor the markers.
LEMMA Unseen ==
  ASSUME log' = log, executed' = executed,
         {f \in spool' : Ready(f)} = ReadyFiles, {f \in spool' : Marker(f)} = MarkedFiles
  PROVE  UNCHANGED Journal!journalVars
  BY QueuePrimed DEF Journal!journalVars, ToSet

\* Who leaves the directory alone leaves its ready files and markers alone.
LEMMA SameFiles ==
  ASSUME spool' = spool
  PROVE  {f \in spool' : Ready(f)} = ReadyFiles /\ {f \in spool' : Marker(f)} = MarkedFiles
  BY DEF ReadyFiles, MarkedFiles

\* An append adds its record to those of the journal.
LEMMA RecordsGrow ==
  ASSUME log \in Seq(Record), NEW r \in Record, log' = Append(log, r)
  PROVE  ToSet(log)' = ToSet(log) \cup {r}
  <1>1. /\ Len(log') = Len(log) + 1 /\ Len(log) \in Nat
        /\ \A i \in 1..Len(log) : log'[i] = log[i]
        /\ log'[Len(log) + 1] = r
        /\ DOMAIN log = 1..Len(log) /\ DOMAIN log' = 1..Len(log')
    OBVIOUS
  <1>2. QED
    BY <1>1 DEF ToSet

\* What is in the log is recorded.
LEMMA LoggedIsRecorded ==
  ASSUME log \in Seq(Record), NEW r
  PROVE  Logged(r) <=> r \in ToSet(log)
  BY DEF Logged, ToSet

\* An empty spool is an empty queue with nothing quarantined.
LEMMA EmptyIsSettled ==
  ASSUME spool = {}
  PROVE  Journal!Settled
  <1>1. ReadyFiles = {} /\ MarkedFiles = {}
    BY DEF ReadyFiles, MarkedFiles
  <1>2. InOrder({}) = << >>
    BY FS_EmptySet DEF InOrder
  <1>3. QED
    BY <1>1, <1>2 DEF Journal!Settled

\* The oldest ready file is the head of the queue, and leaving removes it.
LEMMA OldestLeaves ==
  ASSUME SafetyInv, NEW f \in spool, Oldest(f)
  PROVE  /\ InOrder(ReadyFiles) # << >>
         /\ Head(InOrder(ReadyFiles)) = f.id
         /\ InOrder(ReadyFiles \ {f}) = Tail(InOrder(ReadyFiles))
  <1>1. f \in ReadyFiles /\ \A g \in ReadyFiles : f.seq <= g.seq
    BY DEF Oldest, ReadyFiles
  <1>2. QED
    BY <1>1, SpoolIsNumbered, OldestIsHead

\* One lemma per operation that the journal sees.
LEMMA ReplayDelivers ==
  ASSUME RefinedInv, NEW a \in Actor, Replay(a)
  PROVE  Journal!Deliver \/ UNCHANGED Journal!journalVars
  <1> USE DEF RefinedInv, SafetyInv
  <1>1. PICK f \in spool :
          /\ Oldest(f)
          /\ log' = log \/ log' = Append(log, Outcome(f.id))
    BY DEF Replay, AppendResult
  <1>2. spool' = spool /\ executed' = executed /\ pc[a] = "replay"
    BY DEF Replay
  <1>3. CASE log' = log
    BY <1>2, <1>3, SameFiles, Unseen
  <1>4. CASE log' = Append(log, Outcome(f.id))
    <2>1. Outcome(f.id) \in Record
      BY RecordsTyped DEF TypeOK, File, Actor
    <2>2. ToSet(log)' = ToSet(log) \cup {Outcome(f.id)}
      BY <1>4, <2>1, RecordsGrow DEF TypeOK
    <2>3. InOrder(ReadyFiles) # << >> /\ Head(InOrder(ReadyFiles)) = f.id
      BY <1>1, OldestLeaves
    <2>4. MarkedFiles = {}
      BY <1>2 DEF QueueOwnership, ReplaySeesCleanSpool, Blocked, MarkedFiles
    <2>5. /\ InOrder(ReadyFiles)' = InOrder(ReadyFiles)
          /\ {g.id : g \in MarkedFiles}' = {g.id : g \in MarkedFiles}
      BY <1>2, SameFiles, QueuePrimed DEF MarkedFiles
    <2>6. QED
      BY <1>2, <2>2, <2>3, <2>4, <2>5 DEF Journal!Deliver, Journal!OutcomeOf, Outcome
  <1>5. QED
    BY <1>1, <1>3, <1>4

\* What is removed is the oldest, and its record is in the journal.
LEMMA RemovalRetires ==
  ASSUME RefinedInv, NEW a \in Actor, RemoveReplayed(a)
  PROVE  Journal!Retire \/ UNCHANGED Journal!journalVars
  <1> USE DEF RefinedInv, SafetyInv
  <1>1. PICK f \in spool : Oldest(f) /\ (spool' = spool \/ spool' = spool \ {f})
    BY DEF RemoveReplayed
  <1>2. log' = log /\ executed' = executed /\ pc[a] = "remove"
    BY DEF RemoveReplayed
  <1>3. CASE spool' = spool
    BY <1>2, <1>3, SameFiles, Unseen
  <1>4. CASE spool' = spool \ {f}
    <2>1. /\ {g \in spool' : Ready(g)} = ReadyFiles \ {f}
          /\ {g \in spool' : Marker(g)} = MarkedFiles
      BY <1>1, <1>4 DEF Oldest, Ready, Marker, ReadyFiles, MarkedFiles
    <2>2. /\ InOrder(ReadyFiles)' = Tail(InOrder(ReadyFiles))
          /\ {g.id : g \in MarkedFiles}' = {g.id : g \in MarkedFiles}
      BY <1>1, <2>1, OldestLeaves, QueuePrimed DEF MarkedFiles
    <2>3. Outcome(f.id) \in ToSet(log)
      BY <1>1, <1>2, LoggedIsRecorded DEF QueueOwnership, RemovedIsLogged, TypeOK
    <2>4. InOrder(ReadyFiles) # << >> /\ Head(InOrder(ReadyFiles)) = f.id
      BY <1>1, OldestLeaves
    <2>5. ToSet(log)' = ToSet(log)
      BY <1>2 DEF ToSet
    <2>6. QED
      BY <1>2, <2>2, <2>3, <2>4, <2>5 DEF Journal!Retire, Journal!OutcomeOf, Outcome
  <1>5. QED
    BY <1>1, <1>3, <1>4

LEMMA QuarantineSuspects ==
  ASSUME RefinedInv, NEW a \in Actor, Quarantine(a)
  PROVE  Journal!SuspectOldest \/ UNCHANGED Journal!journalVars
  <1> USE DEF RefinedInv, SafetyInv
  <1>1. PICK f \in spool :
          /\ Oldest(f)
          /\ \/ spool' = spool
             \/ spool' = (spool \ {f}) \cup {[f EXCEPT !.kind = "indeterminate"]}
    BY DEF Quarantine
  <1>2. log' = log /\ executed' = executed
    BY DEF Quarantine
  <1>3. CASE spool' = spool
    BY <1>2, <1>3, SameFiles, Unseen
  <1>4. CASE spool' = (spool \ {f}) \cup {[f EXCEPT !.kind = "indeterminate"]}
    <2> DEFINE m == [f EXCEPT !.kind = "indeterminate"]
    <2>1. f \in File /\ Ready(f)
      BY <1>1 DEF TypeOK, Oldest
    <2>2. m.kind = "indeterminate" /\ m.temp = f.temp /\ m.id = f.id
      BY <2>1 DEF File
    <2>3. Marker(m) /\ ~Ready(m) /\ ~Marker(f)
      BY <2>1, <2>2 DEF Marker, Ready
    <2> HIDE DEF m
    <2>4. {g \in spool' : Ready(g)} = ReadyFiles \ {f}
      BY <1>4, <2>3 DEF m, ReadyFiles
    <2>5. {g \in spool' : Marker(g)} = MarkedFiles \cup {m}
      BY <1>4, <2>3 DEF m, MarkedFiles
    <2>6. {g.id : g \in MarkedFiles \cup {m}} = {g.id : g \in MarkedFiles} \cup {f.id}
      BY <2>2
    <2>7. /\ InOrder(ReadyFiles)' = Tail(InOrder(ReadyFiles))
          /\ {g.id : g \in MarkedFiles}' = {g.id : g \in MarkedFiles} \cup {f.id}
      BY <1>1, <2>4, <2>5, <2>6, OldestLeaves, QueuePrimed
    <2>8. InOrder(ReadyFiles) # << >> /\ Head(InOrder(ReadyFiles)) = f.id
      BY <1>1, OldestLeaves
    <2>9. ToSet(log)' = ToSet(log)
      BY <1>2 DEF ToSet
    <2>10. QED
      BY <1>2, <2>7, <2>8, <2>9 DEF Journal!SuspectOldest
  <1>5. QED
    BY <1>1, <1>3, <1>4

LEMMA IntentAnnounces ==
  ASSUME RefinedInv, NEW a \in Actor, AppendIntent(a)
  PROVE  Journal!Announce(a) \/ UNCHANGED Journal!journalVars
  <1> USE DEF RefinedInv, SafetyInv
  <1>1. log' = log \/ log' = Append(log, Intent(a))
    BY DEF AppendIntent, AppendResult
  <1>2. spool' = spool /\ executed' = executed /\ pc[a] = "append" /\ a \notin executed
    BY DEF AppendIntent, Finishing
  <1>3. CASE log' = log
    BY <1>2, <1>3, SameFiles, Unseen
  <1>4. CASE log' = Append(log, Intent(a))
    <2>1. ToSet(log)' = ToSet(log) \cup {Intent(a)}
      BY <1>4, RecordsTyped, RecordsGrow DEF TypeOK
    <2>2. Journal!Settled
      BY <1>2, EmptyIsSettled DEF QueueOwnership, AppendSeesEmptySpool
    <2>3. /\ InOrder(ReadyFiles)' = InOrder(ReadyFiles)
          /\ {g.id : g \in MarkedFiles}' = {g.id : g \in MarkedFiles}
      BY <1>2, SameFiles, QueuePrimed DEF MarkedFiles
    <2>4. QED
      BY <1>2, <2>1, <2>2, <2>3 DEF Journal!Announce, Journal!IntentOf, Intent
  <1>5. QED
    BY <1>1, <1>3, <1>4

LEMMA OutcomeConcludes ==
  ASSUME RefinedInv, NEW a \in Actor, AppendOutcome(a) \/ AppendReadOutcome(a)
  PROVE  Journal!Conclude(a) \/ UNCHANGED Journal!journalVars
  <1> USE DEF RefinedInv, SafetyInv
  <1>1. log' = log \/ log' = Append(log, Outcome(a))
    BY DEF AppendOutcome, AppendReadOutcome, AppendResult
  <1>2. spool' = spool /\ executed' = executed /\ pc[a] = "append" /\ a \in executed
    BY DEF AppendOutcome, AppendReadOutcome, Finishing
  <1>3. CASE log' = log
    BY <1>2, <1>3, SameFiles, Unseen
  <1>4. CASE log' = Append(log, Outcome(a))
    <2>1. ToSet(log)' = ToSet(log) \cup {Outcome(a)}
      BY <1>4, RecordsTyped, RecordsGrow DEF TypeOK
    <2>2. Journal!Settled
      BY <1>2, EmptyIsSettled DEF QueueOwnership, AppendSeesEmptySpool
    <2>3. /\ InOrder(ReadyFiles)' = InOrder(ReadyFiles)
          /\ {g.id : g \in MarkedFiles}' = {g.id : g \in MarkedFiles}
      BY <1>2, SameFiles, QueuePrimed DEF MarkedFiles
    <2>4. QED
      BY <1>2, <2>1, <2>2, <2>3 DEF Journal!Conclude, Journal!OutcomeOf, Outcome
  <1>5. QED
    BY <1>1, <1>3, <1>4

LEMMA ExecutionPerforms ==
  ASSUME RefinedInv, NEW a \in Actor, Execute(a)
  PROVE  Journal!Perform(a)
  <1> USE DEF RefinedInv, SafetyInv
  <1>1. Intent(a) \in ToSet(log)
    BY LoggedIsRecorded DEF Execute, QueueOwnership, RunningIsAnnounced, TypeOK
  <1>2. log' = log /\ spool' = spool /\ executed' = executed \cup {a}
    BY DEF Execute
  <1>3. /\ InOrder(ReadyFiles)' = InOrder(ReadyFiles)
        /\ {g.id : g \in MarkedFiles}' = {g.id : g \in MarkedFiles}
    BY <1>2, SameFiles, QueuePrimed DEF MarkedFiles
  <1>4. ToSet(log)' = ToSet(log)
    BY <1>2 DEF ToSet
  <1>5. QED
    BY <1>1, <1>2, <1>3, <1>4 DEF Journal!Perform, Journal!IntentOf, Intent

\* No file that is being written is in the queue or quarantined yet.
LEMMA WritingIsUnseen ==
  ASSUME RefinedInv, NEW m \in Actor, WriteTemp(m)
  PROVE  UNCHANGED Journal!journalVars
  <1> DEFINE new(n) == [seq |-> n, id |-> m, temp |-> TRUE,
                        kind |-> IF pc[m] = "mark" THEN "indeterminate" ELSE "ready"]
  <1>1. PICK n \in 1..MaxSeq : spool' = spool \cup {new(n)}
    BY DEF WriteTemp
  <1>2. log' = log /\ executed' = executed
    BY DEF WriteTemp
  <1>3. /\ {f \in spool' : Ready(f)} = ReadyFiles
        /\ {f \in spool' : Marker(f)} = MarkedFiles
    <2>1. new(n).temp
      OBVIOUS
    <2>2. QED
      BY <1>1, <2>1 DEF Ready, Marker, ReadyFiles, MarkedFiles
  <1>4. QED
    BY <1>2, <1>3, Unseen

\* Removing a marker settles its mutation, as no other marker has the same.
LEMMA ReconcileSettles ==
  ASSUME RefinedInv, Reconcile
  PROVE  \E m \in Mutation : Journal!Settle(m)
  <1> USE DEF RefinedInv, SafetyInv
  <1>1. PICK f \in spool : Marker(f) /\ spool' = spool \ {f}
    BY DEF Reconcile
  <1>2. log' = log /\ executed' = executed
    BY DEF Reconcile
  <1>3. f.id \in Mutation /\ f \in MarkedFiles
    BY <1>1 DEF TypeOK, File, MarkedFiles
  <1>4. {g \in spool' : Ready(g)} = ReadyFiles /\ {g \in spool' : Marker(g)} = MarkedFiles \ {f}
    BY <1>1 DEF Ready, Marker, ReadyFiles, MarkedFiles
  <1>5. {g.id : g \in MarkedFiles \ {f}} = {g.id : g \in MarkedFiles} \ {f.id}
    BY DEF SpoolNamesUnique, MarkedFiles
  <1>6. /\ InOrder(ReadyFiles)' = InOrder(ReadyFiles)
        /\ {g.id : g \in MarkedFiles}' = {g.id : g \in MarkedFiles} \ {f.id}
    BY <1>4, <1>5, QueuePrimed
  <1>7. ToSet(log)' = ToSet(log)
    BY <1>2 DEF ToSet
  <1>8. Journal!Settle(f.id)
    BY <1>2, <1>3, <1>6, <1>7 DEF Journal!Settle
  <1>9. QED
    BY <1>3, <1>8

\* The rename puts the file at the end of the queue, or quarantines it.
LEMMA CommitEnqueues ==
  ASSUME RefinedInv, NEW m \in Actor, CommitFile(m)
  PROVE  \/ m \in Mutation /\ (Journal!Enqueue(m) \/ Journal!Suspect(m))
         \/ UNCHANGED Journal!journalVars
  <1> USE DEF RefinedInv, SafetyInv
  <1> DEFINE final(f) == [f EXCEPT !.temp = FALSE]
  <1>1. PICK f \in spool :
          /\ f.temp
          /\ f.id = m
          /\ \/ spool' = spool \ {f} \/ spool' = spool
             \/ spool' = (spool \ {f}) \cup {final(f)}
    BY DEF CommitFile
  <1>2. log' = log /\ executed' = executed /\ ToSet(log)' = ToSet(log)
    BY DEF CommitFile, ToSet
  <1>3. f \in File /\ m \in Mutation /\ m \in executed
    BY <1>1 DEF TypeOK, File, OnceInv, FilesHaveRun
  <1>4. final(f) \in File /\ final(f).seq = f.seq /\ final(f).id = m
        /\ final(f).kind = f.kind /\ ~final(f).temp
    BY <1>1, <1>3 DEF File
  <1> HIDE DEF final
  <1>5. ~Ready(f) /\ ~Marker(f)
    BY <1>1 DEF Ready, Marker
  <1>6. CASE spool' = spool \ {f} \/ spool' = spool
    <2>1. {g \in spool' : Ready(g)} = ReadyFiles /\ {g \in spool' : Marker(g)} = MarkedFiles
      BY <1>5, <1>6 DEF ReadyFiles, MarkedFiles
    <2>2. QED
      BY <1>2, <2>1, Unseen
  <1>7. CASE spool' = (spool \ {f}) \cup {final(f)} /\ f.kind = "ready"
    <2>1. Ready(final(f)) /\ ~Marker(final(f))
      BY <1>4, <1>7 DEF Ready, Marker
    <2>2. {g \in spool' : Ready(g)} = ReadyFiles \cup {final(f)}
      BY <1>5, <1>7, <2>1 DEF ReadyFiles
    <2>3. {g \in spool' : Marker(g)} = MarkedFiles
      BY <1>5, <1>7, <2>1 DEF MarkedFiles
    <2>4. \A g \in ReadyFiles : g.seq < f.seq /\ g.id # m
      BY <1>1, <1>5 DEF ReadyFiles, TempIsNewest, SpoolNamesUnique
    <2>5. InOrder(ReadyFiles \cup {final(f)}) = Append(InOrder(ReadyFiles), m)
      BY <1>4, <2>4, SpoolIsNumbered, NewestIsAppended
    <2>6. \A i \in 1..Len(InOrder(ReadyFiles)) : InOrder(ReadyFiles)[i] # m
      <3> TAKE i \in 1..Len(InOrder(ReadyFiles))
      <3>1. i \in 1..Cardinality(ReadyFiles)
        BY SpoolIsNumbered, InOrderIsSeq
      <3>2. PICK g \in ReadyFiles : Place(g, ReadyFiles) = i
        BY <3>1, SpoolIsNumbered, PlaceOnto
      <3>3. InOrder(ReadyFiles)[i] = g.id
        BY <3>2, SpoolIsNumbered, AtPlace
      <3>4. QED
        BY <2>4, <3>3
    <2>7. /\ InOrder(ReadyFiles)' = Append(InOrder(ReadyFiles), m)
          /\ {g.id : g \in MarkedFiles}' = {g.id : g \in MarkedFiles}
      BY <2>2, <2>3, <2>5, QueuePrimed
    <2>8. QED
      BY <1>2, <1>3, <2>6, <2>7 DEF Journal!Enqueue
  <1>8. CASE spool' = (spool \ {f}) \cup {final(f)} /\ f.kind = "indeterminate"
    <2>1. Marker(final(f)) /\ ~Ready(final(f))
      BY <1>4, <1>8 DEF Ready, Marker
    <2>2. {g \in spool' : Ready(g)} = ReadyFiles
      BY <1>5, <1>8, <2>1 DEF ReadyFiles
    <2>3. {g \in spool' : Marker(g)} = MarkedFiles \cup {final(f)}
      BY <1>5, <1>8, <2>1 DEF MarkedFiles
    <2>4. {g.id : g \in MarkedFiles \cup {final(f)}} = {g.id : g \in MarkedFiles} \cup {m}
      BY <1>4
    <2>5. /\ InOrder(ReadyFiles)' = InOrder(ReadyFiles)
          /\ {g.id : g \in MarkedFiles}' = {g.id : g \in MarkedFiles} \cup {m}
      BY <2>2, <2>3, <2>4, QueuePrimed
    <2>6. QED
      BY <1>2, <1>3, <2>5 DEF Journal!Suspect
  <1>9. QED
    BY <1>1, <1>3, <1>6, <1>7, <1>8 DEF File

\* Every step of the spool is a step of the journal or leaves it unchanged.
LEMMA EveryStepRefines ==
  ASSUME RefinedInv, [Next]_vars
  PROVE  [Journal!JournalNext]_(Journal!journalVars)
  <1> DEFINE step == Journal!JournalNext \/ UNCHANGED Journal!journalVars
  <1>1. CASE log' = log /\ spool' = spool /\ executed' = executed
    BY <1>1, SameFiles, Unseen
  <1>2. ASSUME NEW a \in Actor, Replay(a) \/ RemoveReplayed(a) \/ Quarantine(a) PROVE step
    BY <1>2, ReplayDelivers, RemovalRetires, QuarantineSuspects DEF Journal!JournalNext
  <1>3. ASSUME NEW a \in Actor,
               AppendIntent(a) \/ AppendOutcome(a) \/ AppendReadOutcome(a) \/ Execute(a)
        PROVE  step
    BY <1>3, IntentAnnounces, OutcomeConcludes, ExecutionPerforms DEF Journal!JournalNext, Actor
  <1>4. ASSUME NEW a \in Actor, WriteTemp(a) \/ CommitFile(a) PROVE step
    BY <1>4, WritingIsUnseen, CommitEnqueues DEF Journal!JournalNext
  <1>5. CASE Reconcile
    BY <1>5, ReconcileSettles DEF Journal!JournalNext
  <1>6. \/ log' = log /\ spool' = spool /\ executed' = executed
        \/ \E a \in Actor : \/ Replay(a) \/ RemoveReplayed(a) \/ Quarantine(a)
                            \/ AppendIntent(a) \/ AppendOutcome(a) \/ AppendReadOutcome(a)
                            \/ Execute(a) \/ WriteTemp(a) \/ CommitFile(a)
        \/ Reconcile
    BY DEF Next, Proceed, Acquire, AcquireFails, Scan, Drained, WriteFails, Crash, Heal, vars
  <1>7. QED
    BY <1>1, <1>2, <1>3, <1>4, <1>5, <1>6

\* The spool directory implements the queue of AuditJournal.
THEOREM SpoolIsAJournal == Spec => ImplementsJournal
  <1>1. Init => Journal!JournalInit
    <2> SUFFICES ASSUME Init PROVE Journal!JournalInit
      OBVIOUS
    <2>1. Journal!Settled
      BY EmptyIsSettled DEF Init
    <2>2. ToSet(log) = {} /\ executed = {}
      BY DEF Init, ToSet
    <2>3. QED
      BY <2>1, <2>2 DEF Journal!JournalInit, Journal!Settled
  <1>2. RefinedInv /\ [Next]_vars => [Journal!JournalNext]_(Journal!journalVars)
    BY EveryStepRefines
  <1>3. QED
    BY <1>1, <1>2, RefinedAlways, PTL DEF Spec, ImplementsJournal, Journal!JournalSpec
=============================================================================
