------------------------------- MODULE Accounts -------------------------------
(***************************************************************************)
(* Logins: OAuthService finds or creates an account and its binding to a   *)
(* third-party identity in one transaction, under two advisory locks taken *)
(* one after the other; AccountService logs in with a password.            *)
(***************************************************************************)
EXTENDS Naturals, Sequences

CONSTANTS Identities,      \* users of a provider: provider and openid
          Emails,
          LargestKey,      \* the first eight bytes of a hash are a number, here of 0 .. LargestKey
          KeyOf,           \* the number that the hash of an identity or an email gives
          Logins,          \* requests
          MaxAccounts      \* bound on the accounts of a run

ASSUME KeysAssumption ==
    /\ Identities \intersect Emails = {}
    /\ LargestKey \in Nat
    /\ KeyOf \in [Identities \union Emails -> 0 .. LargestKey]
    /\ Identities # {} /\ Emails # {}
    /\ "nobody" \notin Logins

VARIABLES accounts,        \* Account rows in the order of their creation
          bindings,        \* AccountOAuth rows
          login,           \* the requests
          keyHeld          \* who holds an advisory lock

accountVars == <<accounts, bindings, login, keyHeld>>

Keys == {KeyOf[x] : x \in Identities \union Emails}
Nobody == "nobody"

Stages == {"new", "locking", "locked", "unbound", "bound", "done", "refused"}

\* account 0 is one that the transaction still has to create.
Login == [at : Stages, openid : Identities, email : Emails, account : Nat, bind : BOOLEAN]

AccountsTypeOK ==
    /\ accounts \in Seq([email : Emails, password : BOOLEAN])
    /\ bindings \in Seq([openid : Identities, account : Nat])
    /\ login \in [Logins -> Login]
    /\ keyHeld \in [Keys -> Logins \union {Nobody}]

NewLogin == [at |-> "new", openid |-> CHOOSE i \in Identities : TRUE,
             email |-> CHOOSE e \in Emails : TRUE, account |-> 0, bind |-> FALSE]

AccountsInit ==
    /\ accounts = << >>
    /\ bindings = << >>
    /\ login = [l \in Logins |-> NewLogin]
    /\ keyHeld = [k \in Keys |-> Nobody]

LoginGoes(l, from, values) ==
    /\ login[l].at = from
    /\ login' = [login EXCEPT ![l] = values]

-----------------------------------------------------------------------------
(***************************************************************************)
(* oauth_login.  The provider is asked before the transaction begins; an   *)
(* identity may have another verified address at its next login.           *)
(***************************************************************************)
get_user_info(l) ==
    /\ \E i \in Identities, e \in Emails :
          LoginGoes(l, "new", [NewLogin EXCEPT !.at = "locking", !.openid = i, !.email = e])
    /\ UNCHANGED <<accounts, bindings, keyHeld>>

\* Mutant: logins of one identity wait for each other, those of one address do not.
KeysOf_IdentityOnly(l) == {KeyOf[login[l].openid]}

\* The set of the two numbers: one, if they happen to be the same.
KeysOf(l) == {KeyOf[login[l].openid], KeyOf[login[l].email]}

Held(l) == {k \in Keys : keyHeld[k] = l}

\* Mutant: the identity first, then the address.
NextKey_Unsorted(l) ==
    IF KeyOf[login[l].openid] \in Held(l) THEN KeyOf[login[l].email] ELSE KeyOf[login[l].openid]

NextKey(l) ==
    CHOOSE k \in KeysOf(l) \ Held(l) : \A j \in KeysOf(l) \ Held(l) : k <= j

_lock_login_identity(l) ==
    /\ LoginGoes(l, "locking", [login[l] EXCEPT
           !.at = IF KeysOf(l) \subseteq Held(l) \union {NextKey(l)} THEN "locked" ELSE "locking"])
    /\ keyHeld[NextKey(l)] = Nobody
    /\ keyHeld' = [keyHeld EXCEPT ![NextKey(l)] = l]
    /\ UNCHANGED <<accounts, bindings>>

AccountsOf(email) == {a \in DOMAIN accounts : accounts[a].email = email}

\* Mutant: of the provider and the openid, only the provider is compared.
BindingsOf_AnyUser(openid) == DOMAIN bindings

BindingsOf(openid) == {b \in DOMAIN bindings : bindings[b].openid = openid}

\* Every step of a transaction reads what is committed at that moment.
FindBinding(l) ==
    /\ \/ /\ BindingsOf(login[l].openid) = {}
          /\ LoginGoes(l, "locked", [login[l] EXCEPT !.at = "unbound", !.bind = TRUE])
       \/ \E b \in BindingsOf(login[l].openid) :
             LoginGoes(l, "locked", [login[l] EXCEPT !.at = "bound", !.account = bindings[b].account])
    /\ UNCHANGED <<accounts, bindings, keyHeld>>

FindAccount(l) ==
    /\ \/ /\ AccountsOf(login[l].email) = {}
          /\ LoginGoes(l, "unbound", [login[l] EXCEPT !.at = "bound"])
       \/ \E a \in AccountsOf(login[l].email) :
             LoginGoes(l, "unbound", [login[l] EXCEPT !.at = "bound", !.account = a])
    /\ UNCHANGED <<accounts, bindings, keyHeld>>

Released(l) == [k \in Keys |-> IF keyHeld[k] = l THEN Nobody ELSE keyHeld[k]]

\* The account, the binding and the login are committed together; the answer with
\* the token is given after the commit.
CommitLogin(l) ==
    LET created == login[l].account = 0
        a == IF created THEN Len(accounts) + 1 ELSE login[l].account
    IN /\ a <= MaxAccounts
       /\ LoginGoes(l, "bound", [login[l] EXCEPT !.at = "done", !.account = a])
       /\ accounts' = IF created
                      THEN Append(accounts, [email |-> login[l].email, password |-> FALSE])
                      ELSE accounts
       /\ bindings' = IF login[l].bind
                      THEN Append(bindings, [openid |-> login[l].openid, account |-> a])
                      ELSE bindings
       /\ keyHeld' = Released(l)

\* The provider does not answer, a lock is not had within OAUTH_LOCK_TIMEOUT, or
\* the database fails: auto_commit rolls back, which gives the locks back.
LoginFails(l) ==
    /\ login[l].at \notin {"new", "done", "refused"}
    /\ login' = [login EXCEPT ![l].at = "refused"]
    /\ keyHeld' = Released(l)
    /\ UNCHANGED <<accounts, bindings>>

oauth_login(l) ==
    \/ get_user_info(l) \/ _lock_login_identity(l) \/ FindBinding(l) \/ FindAccount(l)
    \/ CommitLogin(l) \/ LoginFails(l)

-----------------------------------------------------------------------------
\* update_password: the only thing an account changes that a login depends on.
update_password(a) ==
    /\ ~accounts[a].password
    /\ accounts' = [accounts EXCEPT ![a].password = TRUE]
    /\ UNCHANGED <<bindings, login, keyHeld>>

\* one_or_none: several accounts of one address are an error, and nobody gets in.
password_login(l) ==
    /\ \E a \in DOMAIN accounts :
          /\ AccountsOf(accounts[a].email) = {a}
          /\ accounts[a].password
          /\ LoginGoes(l, "new", [NewLogin EXCEPT !.at = "done", !.email = accounts[a].email,
                                                  !.account = a])
    /\ UNCHANGED <<accounts, bindings, keyHeld>>

AccountsNext ==
    \/ \E l \in Logins : oauth_login(l) \/ password_login(l)
    \/ \E a \in DOMAIN accounts : update_password(a)

AccountsSpec == AccountsInit /\ [][AccountsNext]_accountVars

-----------------------------------------------------------------------------
\* However logins overlap, an address has one account and an identity one binding:
\* with two, one_or_none would refuse every later login of that user.
LoginsAgree ==
    /\ \A a, b \in DOMAIN accounts : accounts[a].email = accounts[b].email => a = b
    /\ \A b, c \in DOMAIN bindings : bindings[b].openid = bindings[c].openid => b = c

\* Logins never wait for each other in a circle, whatever the hashes are: among any
\* of them there is one that waits for none of them.
WaitsFor(l, m) ==
    /\ login[l].at = "locking"
    /\ keyHeld[NextKey(l)] = m

NoCircularWait ==
    \A group \in (SUBSET Logins) \ {{}} :
        \E l \in group : \A m \in group : ~WaitsFor(l, m)

-----------------------------------------------------------------------------
(***************************************************************************)
(* Logins as if they came one at a time.                                   *)
(***************************************************************************)
Owners == {<<accounts[a].email, a>> : a \in DOMAIN accounts}
BoundIdentities == {<<bindings[b].openid, bindings[b].account>> : b \in DOMAIN bindings}
Presented == [l \in Logins |-> IF login[l].at = "new" THEN << >> ELSE <<login[l].openid, login[l].email>>]
Answered == [l \in Logins |-> IF login[l].at = "done" THEN login[l].account ELSE 0]

LoginView == INSTANCE LoginContract WITH
    owners <- Owners, bound <- BoundIdentities, presented <- Presented, answered <- Answered

\* Each login ends as if it had read and written everything at the moment it commits,
\* although it reads in several steps, and others commit in between.
LoginsAreAtomic == LoginView!Spec
=============================================================================
