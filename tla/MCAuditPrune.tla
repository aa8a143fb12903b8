----------------------------- MODULE MCAuditPrune ---------------------------
(* Two prunes and one command that changes the policy.                      *)
EXTENDS AuditPrune

CONSTANTS p1, p2, c1

MCProcess == {p1, p2, c1}
MCPrune == {p1, p2}
MCContents ==
  {[exists |-> FALSE, may |-> {}]}
    \cup [exists : {TRUE}, may : {{p1}, {p1, p2}}]
MCRule == {[keep |-> 1], [before |-> 3]}
=============================================================================
