------------------------ MODULE AuditSpoolRefinement ------------------------
(***************************************************************************)
(* The spool directory implements the queue of AuditJournal: numbered file *)
(* names, sorted at each replay, are a first-in first-out queue although   *)
(* the numbers are reused, files vanish and processes die.                 *)
(*                                                                         *)
(* AuditSpoolRefinementProofs proves it for every value of the constants.  *)
(***************************************************************************)
EXTENDS AuditSpool, SequencesExt

ReadyFiles  == {f \in spool : Ready(f)}
MarkedFiles == {f \in spool : Marker(f)}

\* The place of a file in the order sort.Strings gives zero-padded names.
Place(f, files) == Cardinality({g \in files : g.seq <= f.seq})

InOrder(files) ==
  [i \in 1..Cardinality(files) |-> (CHOOSE f \in files : Place(f, files) = i).id]

Journal == INSTANCE AuditJournal WITH
  recorded    <- ToSet(log),
  queue       <- InOrder(ReadyFiles),
  quarantined <- {f.id : f \in MarkedFiles}

\* Every step of the spool is a step of the journal or leaves it unchanged.
ImplementsJournal == Journal!JournalSpec

SpoolSymmetry == Permutations(Mutation \ Poison)
=============================================================================
