--------------------------- MODULE MCControlChange --------------------------
(* Instances of ControlChange for TLC.  Context n1 is bob's and current;    *)
(* n2, when there is one, is alice's and has no credentials.                *)
EXTENDS ControlChange

CONSTANTS n1, n2, b1, b2, password, passphrase, s0, s1, alice, bob, d0, d1, setter, mover,
          other

Credential(v) == [s \in Slot |-> v]
Roles(a, b) == [p \in Operator |-> IF p = alice THEN a ELSE b]
Context(d, v) == [detail |-> d, roles |-> Roles("none", "none"), credential |-> Credential(v)]

Ask(kind, n, operator) ==
  [kind |-> kind, names |-> {n}, operator |-> operator, item |-> Context(d1, Nothing),
   backend |-> b1, grantee |-> bob, role |-> "writer"]

\* The file is of the legacy version until somebody updates it, and n1 has
\* a plain password.  A third command takes bob's role,
\* deletes n1, overwrites n2, or makes n2 current.
BobsOwn ==
  [Context(d0, Nothing) EXCEPT !.roles = Roles("none", "admin"), !.credential[password] = s0]
AlicesOwn == [Context(d0, Nothing) EXCEPT !.roles = Roles("admin", "none")]
MCInitial ==
  {[legacy |-> TRUE,
    contents |-> [contexts |-> [n \in Name |-> IF n = n1 THEN BobsOwn ELSE AlicesOwn],
                  current |-> n1]]}
MCRequests ==
  [o \in Process |->
     CASE o = setter -> {[Ask("set", n1, bob) EXCEPT !.item = Context(d1, s1)]}
       [] o = mover -> {[Ask("migrate", n1, bob) EXCEPT !.names = Name]}
       [] OTHER -> {Ask("role", n1, bob), Ask("delete", n1, bob), Ask("import", n2, bob),
                    Ask("use", n2, bob)}]

\* The credentials of n1 are in b1 already.  While they are moved to b2, ctx set
\* stores new ones in b1 and leaves the rest of n1 as it is.
MCStoredInitial ==
  {[legacy |-> FALSE,
    contents |-> [contexts |-> [n \in Name |-> Context(d0, b1)], current |-> n1]]}
MCRotation ==
  [o \in Process |->
     IF o = setter THEN {[Ask("set", n1, bob) EXCEPT !.item = Context(d0, s1)]}
                   ELSE {[Ask("migrate", n1, bob) EXCEPT !.backend = b2]}]
=============================================================================
