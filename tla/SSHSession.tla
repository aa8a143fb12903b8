----------------------------- MODULE SSHSession -----------------------------
(***************************************************************************)
(* One call of Client.run (internal/sshexec): the key agent, the dial with *)
(* its handshake, the session, the command, and the goroutines that        *)
(* context.AfterFunc starts when the call is cancelled or a time is up.    *)
(*                                                                         *)
(* The remote command is only a state here.  A module that extends this    *)
(* one says what the command does.                                         *)
(***************************************************************************)
EXTENDS Naturals

VARIABLES
  context,     \* the context of the call
  at,          \* where the call is
  agent,       \* the connection to the key agent
  agentHook,   \* the goroutine that closes it when the agent's time is up
  connection,  \* the connection to the server
  hook,        \* the goroutine that closes that one: of dial, openSession, run
  outcome,     \* how the last operation on the connection ended
  stalled,     \* the server takes no bytes
  sent,        \* all of stdin went out
  remote,      \* the remote command; "lost" ended when nobody could hear of it
  status,      \* its exit status
  term,        \* the call's SIGTERM has reached the command
  reply        \* what Run returns

sessionVars == <<context, at, agent, agentHook, connection, hook, outcome,
                 stalled, sent, remote, status, term, reply>>

\* The variables that the goroutine of the call changes.
callVars == <<at, agent, agentHook, connection, hook, outcome, remote, reply>>

Setup == {"start", "signers", "methods", "dial", "handshake", "dialed",
          "session", "opened"}

SessionTypeOK ==
  /\ context \in {"live", "ended"}
  /\ at \in Setup \cup {"command", "await", "stop", "result", "done"}
  /\ agent \in {"none", "open", "closed"}
  /\ agentHook \in {"off", "armed", "told", "fired"}
  /\ connection \in {"none", "open", "closed"}
  /\ hook \in {"off", "armed", "begun", "signalled", "fired"}
  /\ outcome \in {"none", "ok", "exit", "hostkey", "agent", "timeout", "broken"}
  /\ {stalled, sent, term} \subseteq BOOLEAN
  /\ remote \in {"none", "running", "ended", "lost"}
  /\ status \in Nat
  /\ reply \in {"none", "refused", "network", "hostkey", "auth", "backend", "exit"}

SessionInit ==
  /\ context = "live" /\ at = "start" /\ reply = "none"
  /\ agent = "none" /\ agentHook = "off"
  /\ connection = "none" /\ hook = "off" /\ outcome = "none"
  /\ stalled = FALSE /\ sent = FALSE
  /\ remote = "none" /\ status = 0 /\ term = FALSE

Shut(c) == IF c = "open" THEN "closed" ELSE c

\* The call returns; the deferred calls close what is open.
Leave(r) ==
  /\ at' = "done"
  /\ reply' = r
  /\ agent' = Shut(agent)
  /\ agentHook' = "off"
  /\ hook' = "off"

Go(place) == at' = place /\ UNCHANGED reply

\* What is written to the server goes out, or fails at once.
Writable == connection = "open" => ~stalled

-----------------------------------------------------------------------------
(* Authentication methods.                                                  *)

\* An unusable target or identity file; or no agent among the methods, or none
\* that answers; or an agent that took too long; or an agent.
Prepare ==
  /\ at = "start"
  /\ \/ Leave("refused") /\ UNCHANGED connection
     \/ Go("methods") /\ UNCHANGED <<agent, agentHook, connection, hook>>
     \/ Leave("network") /\ UNCHANGED connection
     \/ Go("signers") /\ agent' = "open" /\ agentHook' = "armed"
          /\ UNCHANGED <<connection, hook>>
  /\ UNCHANGED <<context, outcome, stalled, sent, remote, status, term>>

\* The agent lists its keys in time, or fails and is left out.
AgentAnswers ==
  /\ at = "signers" /\ agent = "open" /\ agentHook = "armed" /\ context = "live"
  /\ \/ Go("methods") /\ UNCHANGED <<agent, agentHook>>
     \/ Go("methods") /\ agent' = "none" /\ agentHook' = "off"
  /\ UNCHANGED <<context, connection, hook, outcome, stalled, sent, remote, status, term>>

\* Its connection is closed under the call, or its time is up when it answers.
AgentTimesOut ==
  /\ at = "signers" /\ (agent = "closed" \/ agentHook # "armed")
  /\ Leave("network")
  /\ UNCHANGED <<context, connection, outcome, stalled, sent, remote, status, term>>

\* The other methods fail or there is no method at all, or the call may dial.
ChooseMethods ==
  /\ at = "methods"
  /\ \/ Leave("refused") /\ UNCHANGED connection
     \/ Go("dial") /\ UNCHANGED <<agent, agentHook, connection, hook>>
  /\ UNCHANGED <<context, outcome, stalled, sent, remote, status, term>>

\* Mutant: the connection is closed before the reason is told.
AgentHookClosesFirst ==
  /\ at \in Setup
  /\ agentHook = "armed"
  /\ \/ agent = "open" /\ agent' = "closed" /\ UNCHANGED agentHook
     \/ agent = "closed" /\ agentHook' = "fired" /\ UNCHANGED agent
  /\ UNCHANGED <<context, at, connection, hook, outcome, stalled, sent, remote,
                 status, term, reply>>

\* The agent's time is up, or the call cancelled: the channel is closed first.
\* After the dial nobody looks at either, so it is not followed further.
AgentHook ==
  /\ at \in Setup
  /\ \/ agentHook = "armed" /\ agentHook' = "told" /\ UNCHANGED agent
     \/ agentHook = "told" /\ agentHook' = "fired" /\ agent' = Shut(agent)
  /\ UNCHANGED <<context, at, connection, hook, outcome, stalled, sent, remote,
                 status, term, reply>>

-----------------------------------------------------------------------------
(* dial: the TCP connection, then the handshake under a deadline.           *)

\* The error of run for an error of dial.
DialError(cause) ==
  CASE cause = "hostkey" -> "hostkey"
    [] agentHook \in {"told", "fired"} \/ cause = "timeout" -> "network"
    [] OTHER -> "auth"

\* The pin file has no place, TCP fails or takes too long, or it connects.
Dial ==
  /\ at = "dial"
  /\ \/ Leave("refused") /\ UNCHANGED <<connection, outcome>>
     \/ \E cause \in {"timeout", "broken"} :
          Leave(DialError(cause)) /\ outcome' = cause /\ UNCHANGED connection
     \/ Go("handshake") /\ connection' = "open" /\ hook' = "armed"
          /\ UNCHANGED <<agent, agentHook, outcome>>
  /\ UNCHANGED <<context, stalled, sent, remote, status, term>>

\* The server answers: the host key and the credentials are good, or one is not.
\* An agent whose connection is gone cannot sign.
ServerAnswers ==
  /\ at = "handshake" /\ connection = "open" /\ ~stalled
  /\ Go("dialed")
  /\ outcome' \in {"ok", "hostkey", "broken"}
                 \cup IF agent = "closed" THEN {"agent"} ELSE {}
  /\ UNCHANGED <<context, agent, agentHook, connection, hook, stalled, sent,
                 remote, status, term>>

\* The handshake ends with the connection or with the deadline.
HandshakeCut ==
  /\ at = "handshake"
  /\ Go("dialed")
  /\ outcome' = IF connection = "closed" THEN "broken" ELSE "timeout"
  /\ UNCHANGED <<context, agent, agentHook, connection, hook, stalled, sent,
                 remote, status, term>>

\* Mutant: after an error the connection is left to the garbage collector.
FinishDialLeaks ==
  /\ at = "dialed"
  /\ IF hook = "armed" /\ outcome = "ok"
       THEN Go("session") /\ hook' = "armed" /\ UNCHANGED <<agent, agentHook>>
       ELSE Leave(IF hook # "armed" THEN "network" ELSE DialError(outcome))
  /\ UNCHANGED <<context, connection, outcome, stalled, sent, remote, status, term>>

\* The hook is stopped.  If it was not in time the call was cancelled, whatever
\* the handshake says.  Taking the deadline off again may fail.
FinishDial ==
  /\ at = "dialed"
  /\ \/ hook = "armed" /\ outcome = "ok"
          /\ Go("session") /\ UNCHANGED <<agent, agentHook, connection, hook>>
     \/ Leave(IF hook # "armed" THEN "network"
              ELSE DialError(IF outcome = "ok" THEN "broken" ELSE outcome))
          /\ connection' = Shut(connection)
  /\ UNCHANGED <<context, outcome, stalled, sent, remote, status, term>>

-----------------------------------------------------------------------------
(* openSession, with a hook and a time of its own.                          *)

ServerOpensSession ==
  /\ at = "session" /\ connection = "open" /\ ~stalled
  /\ Go("opened")
  /\ outcome' \in {"ok", "broken"}
  /\ UNCHANGED <<context, agent, agentHook, connection, hook, stalled, sent,
                 remote, status, term>>

SessionCut ==
  /\ at = "session" /\ connection = "closed"
  /\ Go("opened")
  /\ outcome' = "broken"
  /\ UNCHANGED <<context, agent, agentHook, connection, hook, stalled, sent,
                 remote, status, term>>

\* From here on the hook is that of run.
FinishOpen ==
  /\ at = "opened"
  /\ IF hook = "armed" /\ outcome = "ok"
       THEN Go("command") /\ UNCHANGED <<agent, agentHook, connection, hook>>
       ELSE /\ Leave(IF hook = "armed" THEN "backend" ELSE "network")
            /\ connection' = Shut(connection)
  /\ UNCHANGED <<context, outcome, stalled, sent, remote, status, term>>

\* Mutant: the hook of openSession closes nothing.
CloseHookIdle ==
  /\ \/ at \in {"handshake", "dialed"} /\ context = "ended"
     \/ at \in {"session", "opened"}
  /\ hook = "armed" /\ hook' = "fired"
  /\ connection' = IF at = "handshake" THEN Shut(connection) ELSE connection
  /\ UNCHANGED <<context, at, agent, agentHook, outcome, stalled, sent, remote,
                 status, term, reply>>

\* The hooks of dial and openSession close the connection, that of openSession
\* also when its own time is up.
CloseHook ==
  /\ \/ at \in {"handshake", "dialed"} /\ context = "ended"
     \/ at \in {"session", "opened"}
  /\ hook = "armed" /\ hook' = "fired"
  /\ connection' = Shut(connection) /\ stalled' = FALSE
  /\ UNCHANGED <<context, at, agent, agentHook, outcome, sent, remote, status,
                 term, reply>>

-----------------------------------------------------------------------------
(* The command.                                                             *)

\* session.Run sends the command, or the connection is gone.
StartCommand ==
  /\ at = "command"
  /\ \/ /\ connection = "open" /\ ~stalled
        /\ Go("await") /\ remote' = "running" /\ UNCHANGED outcome
     \/ /\ connection = "closed"
        /\ Go("stop") /\ outcome' = "broken" /\ UNCHANGED remote
  /\ UNCHANGED <<context, agent, agentHook, connection, hook, stalled, sent,
                 status, term>>

\* The goroutine of session.Run that copies stdin.
SendInput ==
  /\ at = "await" /\ remote = "running" /\ connection = "open" /\ ~stalled /\ ~sent
  /\ sent' = TRUE
  /\ UNCHANGED <<context, callVars, stalled, status, term>>

\* The exit status arrives, and the close of the channel is answered.
CommandExits ==
  /\ at = "await" /\ remote = "ended" /\ Writable
  /\ Go("stop") /\ outcome' = "exit"
  /\ UNCHANGED <<context, agent, agentHook, connection, hook, stalled, sent,
                 remote, status, term>>

CommandCut ==
  /\ at = "await" /\ connection = "closed"
  /\ Go("stop") /\ outcome' = "broken"
  /\ UNCHANGED <<context, agent, agentHook, connection, hook, stalled, sent,
                 remote, status, term>>

\* Once the hook of run has begun, it sends SIGTERM, which the server may refuse;
\* then it closes the session, which is another message to the server, and the
\* connection.
TermHook ==
  /\ at \in {"command", "await", "stop"} /\ context = "ended"
  /\ \/ /\ hook = "armed" /\ hook' = "begun"
        /\ UNCHANGED <<connection, stalled, term>>
     \/ /\ hook = "begun" /\ hook' = "signalled"
        /\ Writable
        /\ term' \in {FALSE, remote = "running" /\ connection = "open"}
        /\ UNCHANGED <<connection, stalled>>
     \/ /\ hook = "signalled" /\ hook' = "fired"
        /\ Writable
        /\ connection' = Shut(connection) /\ stalled' = FALSE
        /\ UNCHANGED term
  /\ UNCHANGED <<context, at, agent, agentHook, outcome, sent, remote, status, reply>>

\* The hook is stopped or has come to its end.
StopHook ==
  /\ at = "stop" /\ hook \in {"armed", "fired"}
  /\ hook' = "off"
  /\ Go("result")
  /\ UNCHANGED <<context, agent, agentHook, connection, outcome, stalled, sent,
                 remote, status, term>>

\* Mutant: a cancelled call reports the exit status it has.
ReportUnchecked ==
  /\ at = "result"
  /\ Leave(IF outcome = "exit" THEN "exit" ELSE "backend")
  /\ connection' = Shut(connection)
  /\ UNCHANGED <<context, outcome, stalled, sent, remote, status, term>>

\* A cancelled call reports no result, not even one that it has.
Report ==
  /\ at = "result"
  /\ Leave(IF context = "ended" THEN "network"
           ELSE IF outcome = "exit" THEN "exit" ELSE "backend")
  /\ connection' = Shut(connection)
  /\ UNCHANGED <<context, outcome, stalled, sent, remote, status, term>>

-----------------------------------------------------------------------------
(* The surroundings.                                                        *)

\* The user interrupts, or a deadline passes.
Cancel ==
  /\ context = "live" /\ at # "done"
  /\ context' = "ended"
  /\ UNCHANGED <<callVars, stalled, sent, status, term>>

Break ==
  /\ connection = "open" /\ connection' = "closed" /\ stalled' = FALSE
  /\ UNCHANGED <<context, at, agent, agentHook, hook, outcome, sent, remote,
                 status, term, reply>>

Stall ==
  /\ connection = "open" /\ ~stalled /\ stalled' = TRUE
  /\ UNCHANGED <<context, callVars, sent, status, term>>

Resume ==
  /\ stalled /\ stalled' = FALSE
  /\ UNCHANGED <<context, callVars, sent, status, term>>

\* The command is over; its status reaches a client that is still there.
RemoteEnds(s) ==
  /\ remote' = IF connection = "open" THEN "ended" ELSE "lost"
  /\ status' = s
  /\ UNCHANGED <<context, at, agent, agentHook, connection, hook, outcome,
                 stalled, sent, term, reply>>

\* What the call does with nobody's help.
CallStep ==
  \/ Prepare \/ AgentTimesOut \/ ChooseMethods
  \/ Dial \/ HandshakeCut \/ FinishDial
  \/ SessionCut \/ FinishOpen
  \/ StartCommand \/ CommandExits \/ CommandCut \/ StopHook \/ Report

HookStep == AgentHook \/ CloseHook \/ TermHook

ServerStep == AgentAnswers \/ ServerAnswers \/ ServerOpensSession \/ SendInput

SessionNext == CallStep \/ HookStep \/ ServerStep \/ Cancel \/ Break \/ Stall \/ Resume

\* Goroutines run, times pass, and a message gets through to a server that takes
\* bytes again and again.  Nothing is assumed of the server, the agent, the network
\* or the user: a server that takes no bytes may stay connected for ever.
SessionFairness ==
  /\ WF_sessionVars(CallStep)
  /\ WF_sessionVars(AgentHook) /\ WF_sessionVars(CloseHook) /\ SF_sessionVars(TermHook)

-----------------------------------------------------------------------------
(* Properties.                                                              *)

\* Credentials are blamed only if the agent was not cut off by its timeout.
AgentLossIsNetworkError == reply = "auth" => outcome # "agent"

\* When the call has returned, it holds no connection.
NothingLeftOpen == at = "done" => connection # "open" /\ agent # "open"

\* Setting up takes bounded time without any answer.  From then on there is no limit,
\* but a call that is cancelled returns, unless the server stays connected and takes
\* no bytes for ever: the hook has a signal to send before it closes the connection.
CallsEnd ==
  /\ []<>(at \notin Setup)
  /\ \/ context = "ended" ~> at = "done"
     \/ <>[](stalled /\ at \in {"command", "await", "stop"})
=============================================================================
