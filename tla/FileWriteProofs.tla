--------------------------- MODULE FileWriteProofs ---------------------------
(* Whatever the network, the user and others on the server do, and however    *)
(* often: a file write lands where it was authorized, replaces what looks     *)
(* like the file it inspected, and what the caller is told fits WriteEffects. *)
EXTENDS FileWrite, TLAPS

\* The lines at which the script is in its directory, and has the whole content.
InPlace   == {"kind", "identify", "mode", "temp", "trapExit", "trapSignals", "receive",
              "attributes", "look", "recheck", "recheckPlace", "rename", "exit"}
Whole     == {"attributes", "look", "recheck", "recheckPlace", "rename"}

\* The script: where it is tells what it has established.
ScriptInv ==
  /\ landed \in {"nothing", "bound"}
  /\ place \in Directory \cup {"nothing"}
  /\ line \in InPlace => cwd = "bound"
  /\ line \in Whole => temp = "full" /\ sent
  /\ line = "exit" => landed = "bound" /\ sent
  /\ line \notin {"exit", "over"} => landed = "nothing"

\* The command: it runs once, ends with the script, and its status tells whether
\* the content landed.
CommandInv ==
  /\ sent \in BOOLEAN
  /\ at \in Setup \cup {"command"} => remote = "none"
  /\ remote \in {"none", "running"} => line # "over"
  /\ remote \in {"ended", "lost"} => line = "over"
  /\ remote = "ended" =>
       /\ landed # "nothing" => sent /\ status \notin 64..68
       /\ status = 0 => landed # "nothing"

\* The call: an exit it reports is that of the command, which it has not signalled.
CallInv ==
  /\ context \in {"live", "ended"}
  /\ outcome = "exit" => remote = "ended"
  /\ term => context = "ended"
  /\ reply = "exit" => at = "done" /\ outcome = "exit" /\ context = "live"

WriteInv == ScriptInv /\ CommandInv /\ CallInv

LEMMA InitHolds == Init => WriteInv
BY DEF Init, SessionInit, WriteInv, ScriptInv, CommandInv, CallInv, InPlace, Whole,
       Setup

-----------------------------------------------------------------------------
(* The call and its surroundings.                                           *)

\* What none of the calls changes but those that start, feed or end the command.
LEMMA ScriptStays ==
  ASSUME ScriptInv, UNCHANGED scriptVars, sent' = sent \/ sent' = TRUE
  PROVE  ScriptInv'
BY DEF ScriptInv, scriptVars, Whole

LEMMA CallHolds ==
  ASSUME WriteInv, CallStep, UNCHANGED scriptVars
  PROVE  WriteInv'
<1> USE DEF WriteInv, CommandInv, CallInv, Setup, scriptVars, Leave, Go
<1>1. CASE Prepare BY <1>1, ScriptStays DEF Prepare
<1>2. CASE AgentTimesOut BY <1>2, ScriptStays DEF AgentTimesOut
<1>3. CASE ChooseMethods BY <1>3, ScriptStays DEF ChooseMethods
<1>4. CASE Dial BY <1>4, ScriptStays DEF Dial, DialError
<1>5. CASE HandshakeCut BY <1>5, ScriptStays DEF HandshakeCut
<1>6. CASE FinishDial BY <1>6, ScriptStays DEF FinishDial, DialError
<1>7. CASE SessionCut BY <1>7, ScriptStays DEF SessionCut
<1>8. CASE FinishOpen BY <1>8, ScriptStays DEF FinishOpen
<1>9. CASE StartCommand
  <2>1. line # "over" BY <1>9 DEF StartCommand
  <2>2. QED BY <1>9, <2>1, ScriptStays DEF StartCommand
<1>10. CASE CommandExits BY <1>10, ScriptStays DEF CommandExits
<1>11. CASE CommandCut BY <1>11, ScriptStays DEF CommandCut
<1>12. CASE StopHook BY <1>12, ScriptStays DEF StopHook
<1>13. CASE Report BY <1>13, ScriptStays DEF Report
<1>14. QED
  BY <1>1, <1>2, <1>3, <1>4, <1>5, <1>6, <1>7, <1>8, <1>9, <1>10, <1>11, <1>12, <1>13
  DEF CallStep

LEMMA SurroundingsHold ==
  ASSUME WriteInv, UNCHANGED scriptVars,
         HookStep \/ ServerStep \/ Cancel \/ Break \/ Stall \/ Resume
  PROVE  WriteInv'
<1> USE DEF WriteInv, CommandInv, CallInv, Setup, scriptVars, Go, callVars
<1>1. CASE AgentHook BY <1>1, ScriptStays DEF AgentHook
<1>2. CASE CloseHook BY <1>2, ScriptStays DEF CloseHook
<1>3. CASE TermHook BY <1>3, ScriptStays DEF TermHook
<1>4. CASE AgentAnswers BY <1>4, ScriptStays DEF AgentAnswers
<1>5. CASE ServerAnswers BY <1>5, ScriptStays DEF ServerAnswers
<1>6. CASE ServerOpensSession BY <1>6, ScriptStays DEF ServerOpensSession
<1>7. CASE SendInput BY <1>7, ScriptStays DEF SendInput
<1>8. CASE Cancel BY <1>8, ScriptStays DEF Cancel
<1>9. CASE Break BY <1>9, ScriptStays DEF Break
<1>10. CASE Stall BY <1>10, ScriptStays DEF Stall
<1>11. CASE Resume BY <1>11, ScriptStays DEF Resume
<1>12. QED
  BY <1>1, <1>2, <1>3, <1>4, <1>5, <1>6, <1>7, <1>8, <1>9, <1>10, <1>11 DEF HookStep, ServerStep

-----------------------------------------------------------------------------
(* The script and the others on the server.                                 *)

LEMMA ExitHolds ==
  ASSUME WriteInv, remote = "running", line # "exit", NEW s \in {1, 64, 65, 66, 67, 68}, Exit(s),
         UNCHANGED <<place, landed>>
  PROVE  WriteInv'
<1> USE DEF WriteInv, Exit, RemoteEnds
<1>1. landed = "nothing" /\ line' = "over" BY DEF ScriptInv, CommandInv
<1>2. ScriptInv' BY <1>1 DEF ScriptInv, InPlace, Whole
<1>3. CommandInv' BY <1>1 DEF CommandInv, Setup
<1>4. CallInv' BY DEF CallInv
<1>5. QED BY <1>2, <1>3, <1>4

\* A step of the script that does not end it concerns the command and the call
\* only in that the content lands at the rename.
LEMMA GotoHolds ==
  ASSUME CommandInv, CallInv, remote = "running", NEW l \in Lines \ {"over"}, Goto(l)
  PROVE  CommandInv' /\ CallInv'
<1>1. line' # "over" /\ UNCHANGED <<context, at, outcome, sent, remote, status, term, reply>>
  BY DEF Goto, sessionVars
<1>2. CommandInv' BY <1>1 DEF CommandInv
<1>3. CallInv' BY <1>1 DEF CallInv
<1>4. QED BY <1>2, <1>3

LEMMA ScriptHolds == ASSUME WriteInv, ScriptStep PROVE WriteInv'
<1> USE DEF WriteInv, Running, Lines
<1>1. CASE CheckPlace
  <2>1. \/ Goto("enter") /\ UNCHANGED temp
        \/ Exit(68)
        \/ Exit(64)
    BY <1>1 DEF CheckPlace, ScriptInv, Directory
  <2>2. remote = "running" /\ line = "place"
        /\ UNCHANGED <<place, file, cwd, found, landed, disturbed>>
    BY <1>1 DEF CheckPlace
  <2>3. CASE Goto("enter") /\ UNCHANGED temp
    <3>1. ScriptInv' BY <2>2, <2>3 DEF ScriptInv, Goto, InPlace, Whole
    <3>2. QED BY <2>2, <2>3, <3>1, GotoHolds
  <2>4. CASE Exit(68) BY <2>2, <2>4, ExitHolds
  <2>5. CASE Exit(64) BY <2>2, <2>5, ExitHolds
  <2>6. QED BY <2>1, <2>3, <2>4, <2>5
<1>2. CASE Enter
  <2>1. remote = "running" /\ line = "enter" /\ UNCHANGED <<place, landed>> BY <1>2 DEF Enter
  <2>2. CASE Goto("confirm")
    <3>1. ScriptInv'
          BY <1>2, <2>2 DEF Enter, ScriptInv, Goto, Exit, InPlace, Whole, sessionVars
    <3>2. QED BY <2>1, <2>2, <3>1, GotoHolds
  <2>3. CASE Exit(68) BY <2>1, <2>3, ExitHolds
  <2>4. QED BY <1>2, <2>2, <2>3 DEF Enter
<1>3. CASE Confirm
  <2>1. remote = "running" /\ line = "confirm" /\ UNCHANGED <<place, landed>>
        BY <1>3 DEF Confirm
  <2>2. CASE Goto("kind")
    <3>1. ScriptInv'
          BY <1>3, <2>2 DEF Confirm, ScriptInv, Goto, Exit, InPlace, Whole, sessionVars
    <3>2. QED BY <2>1, <2>2, <3>1, GotoHolds
  <2>3. CASE Exit(68) BY <2>1, <2>3, ExitHolds
  <2>4. QED BY <1>3, <2>2, <2>3 DEF Confirm
<1>4. CASE InspectKind
  <2>1. remote = "running" /\ line = "kind" /\ UNCHANGED <<place, landed>>
        BY <1>4 DEF InspectKind
  <2>2. CASE Goto("identify")
    <3>1. ScriptInv'
          BY <1>4, <2>2 DEF InspectKind, ScriptInv, Goto, Exit, InPlace, Whole, sessionVars
    <3>2. QED BY <2>1, <2>2, <3>1, GotoHolds
  <2>3. CASE Exit(65) BY <2>1, <2>3, ExitHolds
  <2>4. QED BY <1>4, <2>2, <2>3 DEF InspectKind
<1>5. CASE Identify
  <2>1. PICK l \in {"temp", "mode"} : Goto(l) BY <1>5 DEF Identify
  <2>2. remote = "running" /\ line = "identify" BY <1>5 DEF Identify
  <2>3. ScriptInv' BY <1>5, <2>1, <2>2 DEF Identify, ScriptInv, Goto, InPlace, Whole
  <2>4. QED BY <2>1, <2>2, <2>3, GotoHolds
<1>6. CASE ReadMode
  <2>1. remote = "running" /\ line = "mode" /\ UNCHANGED <<place, landed>> BY <1>6 DEF ReadMode
  <2>2. CASE Goto("temp")
    <3>1. ScriptInv'
          BY <1>6, <2>2 DEF ReadMode, ScriptInv, Goto, Exit, InPlace, Whole, sessionVars
    <3>2. QED BY <2>1, <2>2, <3>1, GotoHolds
  <2>3. CASE Exit(1) BY <2>1, <2>3, ExitHolds
  <2>4. QED BY <1>6, <2>2, <2>3 DEF ReadMode
<1>7. CASE MakeTemp
  <2>1. remote = "running" /\ line = "temp" /\ UNCHANGED <<place, landed>> BY <1>7 DEF MakeTemp
  <2>2. CASE Goto("trapExit")
    <3>1. ScriptInv'
          BY <1>7, <2>2 DEF MakeTemp, ScriptInv, Goto, Exit, InPlace, Whole, sessionVars
    <3>2. QED BY <2>1, <2>2, <3>1, GotoHolds
  <2>3. CASE Exit(1) BY <2>1, <2>3, ExitHolds
  <2>4. QED BY <1>7, <2>2, <2>3 DEF MakeTemp
<1>8. CASE SetTraps
  <2>1. PICK l \in {"trapSignals", "receive"} : Goto(l) BY <1>8 DEF SetTraps
  <2>2. remote = "running" BY <1>8 DEF SetTraps
  <2>3. ScriptInv' BY <1>8, <2>1 DEF SetTraps, ScriptInv, Goto, InPlace, Whole
  <2>4. QED BY <2>1, <2>2, <2>3, GotoHolds
<1>9. CASE Receive
  <2>1. remote = "running" /\ line = "receive" /\ UNCHANGED <<place, landed>>
        BY <1>9 DEF Receive
  <2>2. CASE Goto("attributes")
    <3>1. ScriptInv'
          BY <1>9, <2>2 DEF Receive, ScriptInv, Goto, Exit, InPlace, Whole, sessionVars
    <3>2. QED BY <2>1, <2>2, <3>1, GotoHolds
  <2>3. CASE Exit(66) BY <2>1, <2>3, ExitHolds
  <2>4. CASE Exit(1) BY <2>1, <2>4, ExitHolds
  <2>5. QED BY <1>9, <2>2, <2>3, <2>4 DEF Receive
<1>10. CASE CopyAttributes
  <2>1. remote = "running" /\ line = "attributes" /\ UNCHANGED <<place, landed>>
        BY <1>10 DEF CopyAttributes
  <2>2. CASE Goto("look")
    <3>1. ScriptInv'
          BY <1>10, <2>2 DEF CopyAttributes, ScriptInv, Goto, Exit, InPlace, Whole, sessionVars
    <3>2. QED BY <2>1, <2>2, <3>1, GotoHolds
  <2>3. CASE Exit(1) BY <2>1, <2>3, ExitHolds
  <2>4. QED BY <1>10, <2>2, <2>3 DEF CopyAttributes
<1>10a. CASE LookAgain
  <2>1. remote = "running" /\ line = "look" /\ UNCHANGED <<place, landed>>
        BY <1>10a DEF LookAgain
  <2>2. ASSUME NEW l \in {"recheckPlace", "recheck"}, Goto(l) PROVE WriteInv'
    <3>1. ScriptInv'
          BY <1>10a, <2>1, <2>2 DEF LookAgain, ScriptInv, Goto, Exit, InPlace, Whole, sessionVars
    <3>2. QED BY <2>1, <2>2, <3>1, GotoHolds
  <2>3. CASE Exit(67) BY <2>1, <2>3, ExitHolds
  <2>4. CASE Exit(1) BY <2>1, <2>4, ExitHolds
  <2>5. QED BY <1>10a, <2>2, <2>3, <2>4 DEF LookAgain
<1>11. CASE Recheck
  <2>1. remote = "running" /\ line = "recheck" /\ UNCHANGED <<place, landed>>
        BY <1>11 DEF Recheck
  <2>2. CASE Goto("recheckPlace")
    <3>1. ScriptInv'
          BY <1>11, <2>2 DEF Recheck, ScriptInv, Goto, Exit, InPlace, Whole, sessionVars
    <3>2. QED BY <2>1, <2>2, <3>1, GotoHolds
  <2>3. CASE Exit(67) BY <2>1, <2>3, ExitHolds
  <2>4. CASE Exit(1) BY <2>1, <2>4, ExitHolds
  <2>5. QED BY <1>11, <2>2, <2>3, <2>4 DEF Recheck
<1>12. CASE RecheckPlace
  <2>1. remote = "running" /\ line = "recheckPlace" /\ UNCHANGED <<place, landed>>
        BY <1>12 DEF RecheckPlace
  <2>2. CASE Goto("rename")
    <3>1. ScriptInv'
          BY <1>12, <2>2 DEF RecheckPlace, ScriptInv, Goto, Exit, InPlace, Whole, sessionVars
    <3>2. QED BY <2>1, <2>2, <3>1, GotoHolds
  <2>3. CASE Exit(68) BY <2>1, <2>3, ExitHolds
  <2>4. QED BY <1>12, <2>2, <2>3 DEF RecheckPlace
<1>13. CASE Rename
  <2>1. remote = "running" /\ line = "rename" /\ UNCHANGED <<place, cwd, sent>>
    BY <1>13 DEF Rename, Goto, Exit, RemoteEnds, sessionVars
  <2>2. CASE Goto("exit") /\ landed' = cwd
    <3>1. ScriptInv' BY <2>1, <2>2 DEF ScriptInv, Goto, InPlace, Whole
    <3>2. QED BY <2>1, <2>2, <3>1, GotoHolds
  <2>3. CASE Exit(1) /\ UNCHANGED landed BY <2>1, <2>3, ExitHolds
  <2>4. QED BY <1>13, <2>2, <2>3 DEF Rename
<1>14. CASE Finish
  <2>1. ScriptInv' BY <1>14 DEF Finish, ScriptInv, Exit, RemoteEnds, InPlace, Whole
  <2>2. CommandInv' BY <1>14 DEF Finish, CommandInv, ScriptInv, Exit, RemoteEnds, Setup
  <2>3. CallInv' BY <1>14 DEF Finish, CallInv, Exit, RemoteEnds
  <2>4. QED BY <2>1, <2>2, <2>3
<1>15. CASE TakeSignal
  <2>1. ScriptInv'
        BY <1>15 DEF TakeSignal, ScriptInv, Exit, RemoteEnds, InPlace, Whole
  <2>2. CommandInv' BY <1>15 DEF TakeSignal, CommandInv, ScriptInv, Exit, RemoteEnds, Setup
  <2>3. CallInv' BY <1>15 DEF TakeSignal, CallInv, Exit, RemoteEnds
  <2>4. QED BY <2>1, <2>2, <2>3
<1>16. CASE Kill
  <2>1. ScriptInv' BY <1>16 DEF Kill, ScriptInv, Exit, RemoteEnds, InPlace, Whole
  <2>2. CommandInv' BY <1>16 DEF Kill, CommandInv, ScriptInv, Exit, RemoteEnds, Setup
  <2>3. CallInv' BY <1>16 DEF Kill, CallInv, Exit, RemoteEnds
  <2>4. QED BY <2>1, <2>2, <2>3
<1>17. QED
  BY <1>1, <1>2, <1>3, <1>4, <1>5, <1>6, <1>7, <1>8, <1>9, <1>10, <1>11, <1>12, <1>13,
     <1>10a, <1>14, <1>15, <1>16 DEF ScriptStep

LEMMA MeddlingHolds ==
  ASSUME WriteInv, MeddleWithFile \/ MeddleWithPlace
  PROVE  WriteInv'
BY DEF WriteInv, ScriptInv, CommandInv, CallInv, MeddleWithFile, MeddleWithPlace,
       sessionVars, Directory

-----------------------------------------------------------------------------
LEMMA StepHolds == ASSUME WriteInv, [Next]_vars PROVE WriteInv'
<1>1. CASE UNCHANGED vars
  BY <1>1 DEF vars, sessionVars, scriptVars, WriteInv, ScriptInv, CommandInv, CallInv
<1>2. CASE SessionNext /\ UNCHANGED scriptVars
  BY <1>2, CallHolds, SurroundingsHold DEF SessionNext
<1>3. QED BY <1>1, <1>2, ScriptHolds, MeddlingHolds DEF Next

\* The invariant of call, command and script together.
THEOREM WriteSafe == Spec => []WriteInv
<1>1. Init => WriteInv BY InitHolds
<1>2. WriteInv /\ [Next]_vars => WriteInv' BY StepHolds
<1>3. QED BY <1>1, <1>2, PTL DEF Spec

\* However often others swap the directory, the content lands in the one that was
\* authorized.
THEOREM LandsWhereAuthorized == Spec => []BoundDirectoryOnly
<1>1. WriteInv => BoundDirectoryOnly BY DEF WriteInv, ScriptInv, BoundDirectoryOnly
<1>2. QED BY <1>1, WriteSafe, PTL

\* What the caller is told of the file is true, whatever it was that ended the
\* script or the call: the table that GovernedCommand builds on.
THEOREM ReportsTrue == Spec => []ReportSettlesEffect
<1>1. WriteInv => ReportSettlesEffect
  <2> SUFFICES ASSUME WriteInv, at = "done" PROVE
         /\ (landed # "nothing") \in WriteEffects(Answer)
         /\ reply = "exit" => remote = "ended" /\ ~term
    BY DEF ReportSettlesEffect
  <2>1. reply = "exit" => remote = "ended" /\ ~term BY DEF WriteInv, CallInv
  <2>2. CASE reply # "exit"
    <3>1. Answer = "transport" BY <2>2 DEF Answer
    <3>2. QED BY <2>1, <3>1 DEF WriteEffects
  <2>3. CASE reply = "exit" /\ ~sent
    <3>1. Answer = "short" BY <2>3 DEF Answer
    <3>2. landed = "nothing" BY <2>1, <2>3 DEF WriteInv, CommandInv
    <3>3. QED BY <2>1, <3>1, <3>2 DEF WriteEffects
  <2>4. CASE reply = "exit" /\ sent /\ status = 0
    <3>1. Answer = "exit0" BY <2>4 DEF Answer
    <3>2. landed # "nothing" BY <2>1, <2>4 DEF WriteInv, CommandInv
    <3>3. QED BY <2>1, <3>1, <3>2 DEF WriteEffects
  <2>5. CASE reply = "exit" /\ sent /\ status \in 64..68
    <3>1. Answer = "nonzero" BY <2>5 DEF Answer
    <3>2. landed = "nothing" BY <2>1, <2>5 DEF WriteInv, CommandInv
    <3>3. QED BY <2>1, <3>1, <3>2 DEF WriteEffects
  <2>6. CASE reply = "exit" /\ sent /\ status # 0 /\ status \notin 64..68
    <3>1. Answer = "odd" BY <2>6 DEF Answer
    <3>2. QED BY <2>1, <3>1 DEF WriteEffects
  <2>7. QED BY <2>2, <2>3, <2>4, <2>5, <2>6 DEF WriteInv, CommandInv
<1>2. QED BY <1>1, WriteSafe, PTL

\* The target: what is absent has no identity, and the two halves of the last look are
\* at the same file unless there was a change in between.
Compared == {"recheckPlace", "rename"}

TargetInv ==
  /\ DOMAIN file = DOMAIN Absent /\ DOMAIN found = DOMAIN Absent
  /\ file.kind = "absent" => file.id = NoIdentity /\ file.mode = 0
  /\ found.kind = "absent" => found.id = NoIdentity /\ found.mode = 0
  /\ line = "mode" => found.kind # "absent"
  /\ line = "recheck" => seen = file.id \/ disturbed
  /\ line \in Compared => (Alike(file, found) /\ file.kind # "special") \/ disturbed

LEMMA TargetHolds ==
  ASSUME ScriptInv, TargetInv, [Next]_vars
  PROVE  TargetInv'
<1> USE DEF TargetInv, Compared, Absent, Alike, Running, Goto, Exit
<1>1. CASE UNCHANGED <<line, file, found, seen, disturbed>> BY <1>1
<1>2. CASE CheckPlace
  <2>1. line' \in {"enter", "over"} /\ UNCHANGED <<file, found>>
    BY <1>2 DEF CheckPlace, ScriptInv, Directory
  <2>2. QED BY <2>1
<1>3. CASE Enter \/ Confirm \/ InspectKind BY <1>3 DEF Enter, Confirm, InspectKind
<1>4. CASE Identify BY <1>4 DEF Identify
<1>5. CASE ReadMode BY <1>5 DEF ReadMode
<1>6. CASE MakeTemp \/ SetTraps \/ Receive \/ CopyAttributes
  BY <1>6 DEF MakeTemp, SetTraps, Receive, CopyAttributes
<1>7. CASE LookAgain BY <1>7 DEF LookAgain
<1>8. CASE Recheck BY <1>8 DEF Recheck
<1>9. CASE RecheckPlace BY <1>9 DEF RecheckPlace
<1>10. CASE Rename BY <1>10 DEF Rename
<1>11. CASE Finish \/ TakeSignal \/ Kill BY <1>11 DEF Finish, TakeSignal, Kill
<1>12. CASE MeddleWithFile
  <2>1. disturbed' = TRUE /\ UNCHANGED <<line, found, seen>> BY <1>12 DEF MeddleWithFile
  <2>2. DOMAIN file' = DOMAIN Absent /\ (file'.kind = "absent" => file' = Absent)
    BY <1>12 DEF MeddleWithFile
  <2>3. QED BY <2>1, <2>2
<1>13. CASE MeddleWithPlace BY <1>13 DEF MeddleWithPlace
<1>14. QED
  BY <1>1, <1>2, <1>3, <1>4, <1>5, <1>6, <1>7, <1>8, <1>9, <1>10, <1>11, <1>12, <1>13
  DEF Next, ScriptStep, vars, scriptVars

LEMMA AlwaysTarget == Spec => []TargetInv
<1>1. Init => TargetInv BY DEF Init, TargetInv, Absent, Compared
<1>2. WriteInv /\ TargetInv /\ [Next]_vars => TargetInv' BY TargetHolds DEF WriteInv
<1>3. QED BY <1>1, <1>2, WriteSafe, PTL DEF Spec

\* What is replaced has the identity and the attributes that were found, or there was
\* a change after the last look began; what replaces it is whole.
THEOREM LooksInspectedIsReplaced == Spec => ReplacesWhatLooksInspected
<1> DEFINE Replaced == landed' # landed =>
                         /\ temp = "full"
                         /\ disturbed \/ (Alike(file, found) /\ file.kind # "special")
<1>1. WriteInv /\ TargetInv /\ [Next]_vars => [Replaced]_vars
  <2> SUFFICES ASSUME WriteInv, TargetInv, [Next]_vars, landed' # landed
               PROVE  temp = "full" /\ (disturbed \/ (Alike(file, found) /\ file.kind # "special"))
    OBVIOUS
  <2>1. Rename
    BY DEF Next, vars, scriptVars, ScriptStep, CheckPlace, Enter, Confirm, InspectKind,
           Identify, ReadMode, MakeTemp, SetTraps, Receive, CopyAttributes, LookAgain, Recheck,
           RecheckPlace, Finish, TakeSignal, Kill, MeddleWithFile, MeddleWithPlace
  <2>2. QED BY <2>1 DEF Rename, Running, WriteInv, ScriptInv, TargetInv, Whole, Compared
<1>2. Spec => [][Next]_vars BY PTL DEF Spec
<1> HIDE DEF Replaced
<1>3. Spec => [][Replaced]_vars BY <1>1, <1>2, WriteSafe, AlwaysTarget, PTL
<1>4. QED BY <1>3 DEF ReplacesWhatLooksInspected, Replaced

-----------------------------------------------------------------------------
(* What is left when the call and the script are over.                      *)

\* The connections: none before the dial, none that outlives the call; and the
\* agent's is closed under the call only by its hook, which says so first.
CallClean ==
  /\ connection \in {"none", "open", "closed"}
  /\ agent \in {"none", "open", "closed"}
  /\ at \in {"start", "signers", "methods", "dial"} => connection = "none"
  /\ at \in Setup /\ agent = "closed" => agentHook = "fired"
  /\ at = "dialed" /\ outcome = "agent" => agentHook = "fired"
  /\ reply = "auth" => at = "done"
  /\ AgentLossIsNetworkError
  /\ NothingLeftOpen

\* The temporary file: there is none before it is made, and from then on a trap
\* removes it, but for the one line between the two.
ScriptClean ==
  /\ line \in {"place", "enter", "confirm", "kind", "identify", "mode", "temp"} =>
       temp = "none" /\ trapped = "none"
  /\ line = "trapSignals" => trapped = "exit"
  /\ line \in {"receive", "attributes", "look", "recheck", "recheckPlace", "rename", "exit"} =>
       trapped = "all"
  /\ line = "over" /\ ~killed => temp = "none"

LEMMA CleanInitially == Init => CallClean /\ ScriptClean
BY DEF Init, SessionInit, CallClean, ScriptClean, AgentLossIsNetworkError, NothingLeftOpen,
       Setup

LEMMA CallCleanHolds == ASSUME CallClean, SessionNext PROVE CallClean'
<1> USE DEF CallClean, AgentLossIsNetworkError, NothingLeftOpen, Setup, Leave, Go, Shut, callVars
<1>1. CASE Prepare BY <1>1 DEF Prepare
<1>2. CASE AgentTimesOut BY <1>2 DEF AgentTimesOut
<1>3. CASE ChooseMethods BY <1>3 DEF ChooseMethods
<1>4. CASE Dial
  <2>1. CASE at' = "done"
    <3>1. connection = "none" /\ connection' = connection /\ agent' # "open"
      BY <1>4, <2>1 DEF Dial
    <3>2. reply' = "auth" => outcome' # "agent"
      BY <1>4, <2>1 DEF Dial
    <3>3. QED BY <1>4, <2>1, <3>1, <3>2 DEF Dial
  <2>2. CASE at' # "done" BY <1>4, <2>2 DEF Dial
  <2>3. QED BY <2>1, <2>2
<1>5. CASE HandshakeCut BY <1>5 DEF HandshakeCut
<1>6. CASE FinishDial
  <2>1. CASE at' = "done"
    <3>1. connection' # "open" /\ agent' # "open" /\ outcome' = outcome /\ at = "dialed"
      BY <1>6, <2>1 DEF FinishDial
    <3>2. reply' = "auth" => outcome # "agent"
      <4> SUFFICES ASSUME outcome = "agent" PROVE reply' # "auth" BY <3>1
      <4>1. agentHook = "fired" BY <3>1
      <4>2. DialError("agent") = "network" BY <4>1 DEF DialError
      <4>3. QED BY <1>6, <2>1, <4>2 DEF FinishDial
    <3>3. QED BY <1>6, <2>1, <3>1, <3>2 DEF FinishDial
  <2>2. CASE at' # "done" BY <1>6, <2>2 DEF FinishDial
  <2>3. QED BY <2>1, <2>2
<1>7. CASE SessionCut BY <1>7 DEF SessionCut
<1>8. CASE FinishOpen BY <1>8 DEF FinishOpen
<1>9. CASE StartCommand BY <1>9 DEF StartCommand
<1>10. CASE CommandExits BY <1>10 DEF CommandExits
<1>11. CASE CommandCut BY <1>11 DEF CommandCut
<1>12. CASE StopHook BY <1>12 DEF StopHook
<1>13. CASE Report BY <1>13 DEF Report
<1>14. CASE AgentHook BY <1>14 DEF AgentHook
<1>15. CASE CloseHook BY <1>15 DEF CloseHook
<1>16. CASE TermHook BY <1>16 DEF TermHook
<1>17. CASE AgentAnswers BY <1>17 DEF AgentAnswers
<1>10a. CASE ServerAnswers BY <1>10a DEF ServerAnswers
<1>19. CASE ServerOpensSession BY <1>19 DEF ServerOpensSession
<1>20. CASE SendInput \/ Cancel \/ Stall \/ Resume BY <1>20 DEF SendInput, Cancel, Stall, Resume
<1>21. CASE Break BY <1>21 DEF Break
<1>22. QED
  BY <1>1, <1>2, <1>3, <1>4, <1>5, <1>6, <1>7, <1>8, <1>9, <1>10, <1>11, <1>12, <1>13, <1>14,
     <1>15, <1>16, <1>17, <1>10a, <1>19, <1>20, <1>21
  DEF SessionNext, CallStep, HookStep, ServerStep

\* An exit before the temporary file is made leaves none; a later one has a trap.
LEMMA ExitIsClean ==
  ASSUME NEW s, Exit(s), temp = "none" \/ trapped # "none"
  PROVE  ScriptClean'
BY DEF ScriptClean, Exit

LEMMA ScriptCleanHolds ==
  ASSUME ScriptInv, ScriptClean, ScriptStep
  PROVE  ScriptClean'
<1> USE DEF ScriptClean, Running, Goto
<1>1. CASE CheckPlace
  <2>1. place = "bound" \/ place = "other" \/ place = "nothing"
    BY DEF ScriptInv, Directory
  <2>2. \/ Goto("enter") /\ temp' = temp
        \/ \E s : Exit(s)
    BY <1>1, <2>1 DEF CheckPlace
  <2>3. line = "place" /\ trapped' = trapped
    BY <1>1 DEF CheckPlace
  <2>4. QED BY <2>2, <2>3, ExitIsClean
<1>2. CASE Enter BY <1>2, ExitIsClean DEF Enter
<1>3. CASE Confirm BY <1>3, ExitIsClean DEF Confirm
<1>4. CASE InspectKind BY <1>4, ExitIsClean DEF InspectKind
<1>5. CASE Identify BY <1>5 DEF Identify
<1>6. CASE ReadMode BY <1>6, ExitIsClean DEF ReadMode
<1>7. CASE MakeTemp BY <1>7, ExitIsClean DEF MakeTemp
<1>8. CASE SetTraps BY <1>8 DEF SetTraps
<1>9. CASE Receive BY <1>9, ExitIsClean DEF Receive
<1>10. CASE CopyAttributes BY <1>10, ExitIsClean DEF CopyAttributes
<1>10a. CASE LookAgain BY <1>10a, ExitIsClean DEF LookAgain
<1>11. CASE Recheck BY <1>11, ExitIsClean DEF Recheck
<1>12. CASE RecheckPlace BY <1>12, ExitIsClean DEF RecheckPlace
<1>13. CASE Rename BY <1>13, ExitIsClean DEF Rename
<1>14. CASE Finish BY <1>14, ExitIsClean DEF Finish
<1>15. CASE TakeSignal BY <1>15, ExitIsClean DEF TakeSignal
<1>16. CASE Kill BY <1>16 DEF Kill
<1>17. QED
  BY <1>1, <1>2, <1>3, <1>4, <1>5, <1>6, <1>7, <1>8, <1>9, <1>10, <1>11, <1>12, <1>13,
     <1>10a, <1>14, <1>15, <1>16 DEF ScriptStep

\* The script is at the other end: it tells the call nothing but by its status.
LEMMA ScriptLeavesCall ==
  ASSUME ScriptInv, ScriptStep
  PROVE  UNCHANGED <<at, agent, agentHook, connection, outcome, reply>>
<1> USE DEF Goto, Exit, RemoteEnds, sessionVars
<1>1. CASE CheckPlace
  <2>1. place = "bound" \/ place = "other" \/ place = "nothing"
    BY DEF ScriptInv, Directory
  <2>2. QED BY <1>1, <2>1 DEF CheckPlace
<1>2. QED
  BY <1>1 DEF ScriptStep, Enter, Confirm, InspectKind, Identify, ReadMode, MakeTemp,
              SetTraps, Receive, CopyAttributes, LookAgain, Recheck, RecheckPlace, Rename, Finish,
              TakeSignal, Kill

\* Neither the script nor others on the server touch the call, nor the call the
\* script.
LEMMA CleanStep ==
  ASSUME ScriptInv, CallClean, ScriptClean, [Next]_vars
  PROVE  CallClean' /\ ScriptClean'
<1>1. ASSUME UNCHANGED <<at, agent, agentHook, connection, outcome, reply>> PROVE CallClean'
  BY <1>1 DEF CallClean, AgentLossIsNetworkError, NothingLeftOpen, Setup
<1>2. ASSUME UNCHANGED <<line, temp, trapped, killed>> PROVE ScriptClean'
  BY <1>2 DEF ScriptClean
<1>3. \/ SessionNext
      \/ UNCHANGED <<at, agent, agentHook, connection, outcome, reply>>
  BY ScriptLeavesCall DEF Next, vars, sessionVars, MeddleWithFile, MeddleWithPlace
<1>4. ScriptStep \/ UNCHANGED <<line, temp, trapped, killed>>
  BY DEF Next, vars, scriptVars, MeddleWithFile, MeddleWithPlace
<1>5. QED BY <1>1, <1>2, <1>3, <1>4, CallCleanHolds, ScriptCleanHolds

LEMMA AlwaysClean == Spec => [](CallClean /\ ScriptClean)
<1>1. WriteInv /\ CallClean /\ ScriptClean /\ [Next]_vars => (CallClean /\ ScriptClean)'
  BY CleanStep DEF WriteInv
<1>2. QED BY <1>1, CleanInitially, WriteSafe, PTL DEF Spec

\* Neither a temporary file of a script that was not killed nor a connection of the
\* call is left behind.
THEOREM NothingIsLeft == Spec => []NothingLeftBehind
<1>1. CallClean /\ ScriptClean => NothingLeftBehind
  BY DEF CallClean, ScriptClean, NothingLeftBehind
<1>2. QED BY <1>1, AlwaysClean, PTL

\* An agent that was cut off by its time is not reported as bad credentials.
THEOREM AgentLossTold == Spec => []AgentLossIsNetworkError
<1>1. CallClean => AgentLossIsNetworkError BY DEF CallClean
<1>2. QED BY <1>1, AlwaysClean, PTL
=============================================================================
