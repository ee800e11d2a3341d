---------------------------- MODULE LoginContract ----------------------------
(***************************************************************************)
(* Logins as if they came one at a time: what docs/robustness-plan.md      *)
(* (B18) asks of first logins that overlap.  Each is answered in a single  *)
(* step, by the accounts and bindings there are in that step.              *)
(***************************************************************************)
EXTENDS Naturals

CONSTANTS Identities, Emails, Logins

VARIABLES owners,      \* pairs of an address and its account
          bound,       \* pairs of an identity and the account it is bound to
          presented,   \* << >>, or the identity and the address a login came with
          answered     \* 0, or the account it was let into

Init ==
    /\ owners = {}
    /\ bound = {}
    /\ presented = [l \in Logins |-> << >>]
    /\ answered = [l \in Logins |-> 0]

Present(l, i, e) ==
    /\ presented[l] = << >>
    /\ presented' = [presented EXCEPT ![l] = <<i, e>>]

Answer(l, a) ==
    /\ answered[l] = 0
    /\ answered' = [answered EXCEPT ![l] = a]

Ask(l) ==
    /\ \E i \in Identities, e \in Emails : Present(l, i, e)
    /\ UNCHANGED <<owners, bound, answered>>

Unbound(i) == \A p \in bound : p[1] # i
Vacant(e) == \A p \in owners : p[1] # e
Fresh(a) == a # 0 /\ \A p \in owners : p[2] # a

\* Of an identity that is bound, the address does not matter.
LetIn(i, a) ==
    /\ <<i, a>> \in bound
    /\ UNCHANGED <<owners, bound>>

Bind(i, e, a) ==
    /\ Unbound(i) /\ <<e, a>> \in owners
    /\ bound' = bound \union {<<i, a>>}
    /\ UNCHANGED owners

Register(i, e, a) ==
    /\ Unbound(i) /\ Vacant(e) /\ Fresh(a)
    /\ owners' = owners \union {<<e, a>>}
    /\ bound' = bound \union {<<i, a>>}

LogIn(l) ==
    /\ presented[l] # << >>
    /\ LET i == presented[l][1]
           e == presented[l][2]
           a == answered'[l]
       IN Answer(l, a) /\ (LetIn(i, a) \/ Bind(i, e, a) \/ Register(i, e, a))
    /\ UNCHANGED presented

\* With a password, no identity is asked for.
GiveName(l) ==
    /\ \E i \in Identities, p \in owners : Present(l, i, p[1]) /\ Answer(l, p[2])
    /\ UNCHANGED <<owners, bound>>

Next == \E l \in Logins : Ask(l) \/ LogIn(l) \/ GiveName(l)

Spec == Init /\ [][Next]_<<owners, bound, presented, answered>>

-----------------------------------------------------------------------------
\* What this comes to for a user: an address has one account, an identity is bound to
\* one, and whoever is answered is let into an account that is there.
OneAccountEach ==
    /\ \A p, q \in owners : p[1] = q[1] \/ p[2] = q[2] => p = q
    /\ \A p, q \in bound : p[1] = q[1] => p = q
    /\ \A p \in bound : \E q \in owners : q[2] = p[2]
    /\ \A l \in Logins : answered[l] # 0 => \E q \in owners : q[2] = answered[l]
=============================================================================
