------------------------------ MODULE FileWrite -----------------------------
(***************************************************************************)
(* The write script of `srvgov file write` (cmd/file.go) on the server, at *)
(* the other end of an SSHSession.  While it runs, others may change the   *)
(* target and the directory it is in, the client may cancel or lose the    *)
(* connection, and the script may be killed.                               *)
(*                                                                         *)
(* The directory was resolved and its identity read before; "bound" is     *)
(* that directory, "other" any other one that may stand at its path.       *)
(***************************************************************************)
EXTENDS SSHSession, WriteReport

CONSTANTS
  MaxMeddling,   \* changes that others make while the script runs
  Identity,      \* device and inode of a file, and who owns it
  Original,      \* those of the target before anybody changes it, if there is one
  NoIdentity     \* what stands for them where there is no file

ASSUME MeddlingAssumption ==
  MaxMeddling \in Nat /\ Original \in Identity /\ NoIdentity \notin Identity

VARIABLES
  line,        \* the next step of the script
  place,       \* what stands at the path of the directory
  file,        \* what the target's name stands for in the bound directory
  cwd,         \* the directory the script is in
  found,       \* the target as the script inspected it
  seen,        \* the identity that it sees at its last look
  temp,        \* the script's temporary file
  trapped,     \* traps that are set: none, for exit only, or all
  landed,      \* the directory in which the temporary file became the target
  killed,      \* the script died without its traps
  disturbed,   \* the target was changed since the script's last look began
  meddling     \* changes by others so far

scriptVars == <<line, place, file, cwd, found, seen, temp, trapped, landed, killed,
                disturbed, meddling>>

vars == <<sessionVars, scriptVars>>

Directory == {"bound", "other"}

Files ==
  [kind : {"absent", "special", "regular", "ours"}, id : Identity \cup {NoIdentity},
   mode : {0, 1}]

Absent == [kind |-> "absent", id |-> NoIdentity, mode |-> 0]

\* What the script compares.
Alike(f, g) == f.id = g.id /\ f.mode = g.mode

Lines == {"place", "enter", "confirm", "kind", "identify", "mode", "temp", "trapExit",
          "trapSignals", "receive", "attributes", "look", "recheck", "recheckPlace",
          "rename", "exit", "over"}

TypeOK ==
  /\ SessionTypeOK
  /\ line \in Lines
  /\ place \in Directory \cup {"nothing"}
  /\ file \in Files
  /\ cwd \in Directory \cup {"nothing"}
  /\ found \in Files
  /\ seen \in Identity \cup {NoIdentity}
  /\ temp \in {"none", "empty", "full"}
  /\ trapped \in {"none", "exit", "all"}
  /\ landed \in Directory \cup {"nothing"}
  /\ {killed, disturbed} \subseteq BOOLEAN
  /\ meddling \in 0..MaxMeddling

Init ==
  /\ SessionInit
  /\ line = "place"
  /\ place \in Directory \cup {"nothing"}
  /\ file \in {Absent, [kind |-> "regular", id |-> Original, mode |-> 0]}
  /\ cwd = "nothing" /\ found = Absent /\ seen = NoIdentity
  /\ temp = "none" /\ trapped = "none" /\ landed = "nothing"
  /\ killed = FALSE /\ disturbed = FALSE /\ meddling = 0

Running(l) == remote = "running" /\ line = l

Goto(l) == line' = l /\ UNCHANGED sessionVars

\* The script ends; the exit trap removes the temporary file.
Exit(s) ==
  /\ line' = "over"
  /\ RemoteEnds(s)
  /\ temp' = IF trapped = "none" THEN temp ELSE "none"

-----------------------------------------------------------------------------
(* The steps of atomicFileWriteScript.                                      *)

\* No directory, or not the one that was authorized.
CheckPlace ==
  /\ Running("place")
  /\ CASE place = "bound" -> Goto("enter") /\ UNCHANGED temp
       [] place = "other" -> Exit(68)
       [] place = "nothing" -> Exit(64)
  /\ UNCHANGED <<place, file, cwd, found, seen, trapped, landed, killed, disturbed, meddling>>

Enter ==
  /\ Running("enter")
  /\ IF place = "nothing" THEN Exit(68) /\ UNCHANGED cwd
     ELSE Goto("confirm") /\ cwd' = place /\ UNCHANGED temp
  /\ UNCHANGED <<place, file, found, seen, trapped, landed, killed, disturbed, meddling>>

\* Mutant: the directory that was entered is taken for the one checked before.
ConfirmAssumed ==
  /\ Running("confirm")
  /\ Goto("kind") /\ UNCHANGED temp
  /\ UNCHANGED <<place, file, cwd, found, seen, trapped, landed, killed, disturbed, meddling>>

Confirm ==
  /\ Running("confirm")
  /\ IF cwd = "bound" THEN Goto("kind") /\ UNCHANGED temp ELSE Exit(68)
  /\ UNCHANGED <<place, file, cwd, found, seen, trapped, landed, killed, disturbed, meddling>>

InspectKind ==
  /\ Running("kind")
  /\ IF file.kind = "special" THEN Exit(65) ELSE Goto("identify") /\ UNCHANGED temp
  /\ UNCHANGED <<place, file, cwd, found, seen, trapped, landed, killed, disturbed, meddling>>

\* Identity and attributes are read one after the other; a target that vanishes
\* in between ends the script with status 1.
Identify ==
  /\ Running("identify")
  /\ found' = [file EXCEPT !.mode = 0]
  /\ Goto(IF file.kind = "absent" THEN "temp" ELSE "mode")
  /\ UNCHANGED <<place, file, cwd, seen, temp, trapped, landed, killed, disturbed, meddling>>

ReadMode ==
  /\ Running("mode")
  /\ IF file.kind = "absent" THEN Exit(1) /\ UNCHANGED found
     ELSE Goto("temp") /\ found' = [found EXCEPT !.mode = file.mode] /\ UNCHANGED temp
  /\ UNCHANGED <<place, file, cwd, seen, trapped, landed, killed, disturbed, meddling>>

MakeTemp ==
  /\ Running("temp")
  /\ \/ Exit(1)
     \/ Goto("trapExit") /\ temp' = "empty"
  /\ UNCHANGED <<place, file, cwd, found, seen, trapped, landed, killed, disturbed, meddling>>

SetTraps ==
  /\ \/ Running("trapExit") /\ Goto("trapSignals") /\ trapped' = "exit"
     \/ Running("trapSignals") /\ Goto("receive") /\ trapped' = "all"
  /\ UNCHANGED <<place, file, cwd, found, seen, temp, landed, killed, disturbed, meddling>>

\* The content until the end of the stream, which a lost connection ends too
\* early; its length and digest are checked.  The disk may be full.
Receive ==
  /\ Running("receive")
  /\ \/ sent /\ Goto("attributes") /\ temp' = "full"
     \/ connection = "closed" /\ Exit(66)
     \/ Exit(1)
  /\ UNCHANGED <<place, file, cwd, found, seen, trapped, landed, killed, disturbed, meddling>>

\* Owner, mode and the rest are copied from the target, if there was one.
CopyAttributes ==
  /\ Running("attributes")
  /\ \/ Goto("look") /\ UNCHANGED temp
     \/ found.kind # "absent" /\ Exit(1)
  /\ UNCHANGED <<place, file, cwd, found, seen, trapped, landed, killed, disturbed, meddling>>

\* The last look: the identity first.  Where there was no target, there must be none;
\* what vanished cannot be asked for its identity.
LookAgain ==
  /\ Running("look")
  /\ disturbed' = FALSE
  /\ seen' = file.id
  /\ CASE found.kind = "absent" /\ file.kind = "absent" -> Goto("recheckPlace") /\ UNCHANGED temp
       [] found.kind = "absent" /\ file.kind # "absent" -> Exit(67)
       [] found.kind # "absent" /\ file.kind = "absent" -> Exit(1)
       [] OTHER -> Goto("recheck") /\ UNCHANGED temp
  /\ UNCHANGED <<place, file, cwd, found, trapped, landed, killed, meddling>>

\* Mutant: only that the target is still a file is looked at.
RecheckKind ==
  /\ Running("recheck")
  /\ IF file.kind = "special" THEN Exit(67)
     ELSE Goto("recheckPlace") /\ UNCHANGED temp
  /\ UNCHANGED <<place, file, cwd, found, seen, trapped, landed, killed, disturbed, meddling>>

\* Then its attributes: the target must be what it was.
Recheck ==
  /\ Running("recheck")
  /\ CASE file.kind = "absent" -> Exit(1)
       [] file.kind = "special" -> Exit(67)
       [] OTHER -> IF seen = found.id /\ file.mode = found.mode
                     THEN Goto("recheckPlace") /\ UNCHANGED temp
                     ELSE Exit(67)
  /\ UNCHANGED <<place, file, cwd, found, seen, trapped, landed, killed, disturbed, meddling>>

RecheckPlace ==
  /\ Running("recheckPlace")
  /\ IF place = "bound" THEN Goto("rename") /\ UNCHANGED temp ELSE Exit(68)
  /\ UNCHANGED <<place, file, cwd, found, seen, trapped, landed, killed, disturbed, meddling>>

\* The commit.
Rename ==
  /\ Running("rename")
  /\ \/ /\ Goto("exit")
        /\ landed' = cwd
        /\ file' = [Absent EXCEPT !.kind = "ours"]
        /\ temp' = "none"
     \/ Exit(1) /\ UNCHANGED <<landed, file>>
  /\ UNCHANGED <<place, cwd, found, seen, trapped, killed, disturbed, meddling>>

Finish ==
  /\ Running("exit")
  /\ Exit(0)
  /\ UNCHANGED <<place, file, cwd, found, seen, trapped, landed, killed, disturbed, meddling>>

-----------------------------------------------------------------------------
(* Signals and other users.                                                 *)

\* SIGTERM, from the client or from the server's own administration: the trap
\* exits with status 70, also after the rename.  A shell without the trap dies,
\* and may or may not run its exit trap.
TakeSignal ==
  /\ remote = "running"
  /\ IF trapped = "all" THEN Exit(70) /\ UNCHANGED killed
     ELSE /\ line' = "over" /\ RemoteEnds(143) /\ killed' = TRUE
          /\ temp' \in {temp, IF trapped = "exit" THEN "none" ELSE temp}
  /\ UNCHANGED <<place, file, cwd, found, seen, trapped, landed, disturbed, meddling>>

\* SIGKILL, or the server goes down.
Kill ==
  /\ remote = "running"
  /\ line' = "over" /\ RemoteEnds(137) /\ killed' = TRUE
  /\ UNCHANGED <<place, file, cwd, found, seen, temp, trapped, landed, disturbed, meddling>>

\* Another file, a changed mode, no file, or something that is no file.  A file that
\* takes the place of one that is deleted may be given the same identity.
MeddleWithFile ==
  /\ remote = "running" /\ meddling < MaxMeddling
  /\ meddling' = meddling + 1
  /\ \/ file.kind # "absent" /\ file' = Absent
     \/ \E kind \in {"special", "regular"}, i \in Identity :
          file' = [kind |-> kind, id |-> i, mode |-> 0]
     \/ file.kind = "regular" /\ file' = [file EXCEPT !.mode = 1 - @]
  /\ disturbed' = TRUE
  /\ UNCHANGED <<sessionVars, line, place, cwd, found, seen, temp, trapped, landed, killed>>

\* Another directory, or none, is put at the path, or the old one put back.
MeddleWithPlace ==
  /\ remote = "running" /\ meddling < MaxMeddling
  /\ meddling' = meddling + 1
  /\ place' \in (Directory \cup {"nothing"}) \ {place}
  /\ UNCHANGED <<sessionVars, line, file, cwd, found, seen, temp, trapped, landed, killed,
                 disturbed>>

-----------------------------------------------------------------------------
ScriptStep ==
  \/ CheckPlace \/ Enter \/ Confirm \/ InspectKind \/ Identify \/ ReadMode
  \/ MakeTemp \/ SetTraps \/ Receive \/ CopyAttributes \/ LookAgain \/ Recheck
  \/ RecheckPlace \/ Rename \/ Finish \/ TakeSignal \/ Kill

Next ==
  \/ SessionNext /\ UNCHANGED scriptVars
  \/ ScriptStep
  \/ MeddleWithFile
  \/ MeddleWithPlace

Spec == Init /\ [][Next]_vars /\ SessionFairness

-----------------------------------------------------------------------------
(* Properties.                                                              *)

\* What the governed command makes of the call's answer.
Answer ==
  CASE reply # "exit" -> "transport"
    [] reply = "exit" /\ ~sent -> "short"
    [] reply = "exit" /\ sent /\ status = 0 -> "exit0"
    [] reply = "exit" /\ sent /\ status \in 64..68 -> "nonzero"
    [] OTHER -> "odd"

\* Once the call has returned, the answer and the target agree as WriteEffects
\* says, and a reported exit is the script's own and final: the script was over,
\* and not because this call had signalled it.
ReportSettlesEffect ==
  at = "done" =>
    /\ (landed # "nothing") \in WriteEffects(Answer)
    /\ reply = "exit" => remote = "ended" /\ ~term

\* The content lands in the directory that was authorized, even if others stand
\* at its path for a while.
BoundDirectoryOnly == landed \in {"nothing", "bound"}

\* What is replaced is a file with the identity and the attributes that were found, or
\* nothing where nothing was found, unless there was a change since the last look
\* began; and the content is whole.  Identity and attributes are read one after the
\* other, both times.
ReplacesWhatLooksInspected ==
  [][landed' # landed =>
       /\ temp = "full"
       /\ disturbed \/ (Alike(file, found) /\ file.kind # "special")]_vars

\* No temporary file outlives a script that was not killed, and no connection
\* outlives the call.
NothingLeftBehind ==
  /\ line = "over" /\ ~killed => temp = "none"
  /\ NothingLeftOpen
=============================================================================
