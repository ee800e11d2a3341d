---------------------------- MODULE Accounts_proofs ----------------------------
(***************************************************************************)
(* Theorems of Accounts: however many logins overlap, whatever the hashes  *)
(* of their identities and addresses are, and whichever of them fail, an   *)
(* address has one account and an identity one binding, logins never wait  *)
(* for each other in a circle, and each answers as if it had come in one   *)
(* step, at its commit (LoginContract).                                    *)
(***************************************************************************)
EXTENDS Accounts, FiniteSets, TLAPS, WellFoundedInduction

\* The locks a login holds: none before and after its transaction, all of its own
\* once it reads, and while it takes them the smaller before the larger.
LocksAgree(l) ==
    /\ login[l].at \in {"new", "done", "refused"} => Held(l) = {}
    /\ login[l].at = "locking" =>
          /\ KeysOf(l) \ Held(l) # {}
          /\ \A k \in Held(l), j \in KeysOf(l) \ Held(l) : k < j
    /\ login[l].at \in {"locked", "unbound", "bound"} => KeysOf(l) \subseteq Held(l)

\* What a login has read to be missing is still missing.
ReadsHold(l) ==
    /\ login[l].at \in {"locking", "locked"} => ~login[l].bind
    /\ login[l].at = "unbound" \/ (login[l].at = "bound" /\ login[l].bind) => BindingsOf(login[l].openid) = {}
    /\ login[l].at = "bound" /\ login[l].account = 0 => AccountsOf(login[l].email) = {}

\* The inductive invariant.
LoginsInv ==
    /\ AccountsTypeOK
    /\ \A l \in Logins : LocksAgree(l)
    /\ \A l \in Logins : ReadsHold(l)
    /\ \A b \in DOMAIN bindings : bindings[b].account # 0
    /\ LoginsAgree

-----------------------------------------------------------------------------
\* A set of one or two numbers has a smallest.
LEMMA SmallestOfTwo ==
    ASSUME NEW a \in Nat, NEW b \in Nat, NEW S \in SUBSET {a, b}, S # {}
    PROVE  \E k \in S : \A j \in S : k <= j
<1>1. CASE S = {a} BY <1>1
<1>2. CASE S = {b} BY <1>2
<1>3. CASE S = {a, b} BY <1>3
<1> QED BY <1>1, <1>2, <1>3

LEMMA ElementOfSeq ==
    ASSUME NEW S, NEW s \in Seq(S), NEW i \in DOMAIN s
    PROVE  s[i] \in S
OBVIOUS

LEMMA MoreOfSeq ==
    ASSUME NEW S, NEW s \in Seq(S), NEW x \in S, NEW c, NEW t,
           t = IF c THEN Append(s, x) ELSE s
    PROVE  t \in Seq(S)
OBVIOUS

LEMMA KeysAreNumbers ==
    ASSUME AccountsTypeOK, NEW l \in Logins
    PROVE  /\ KeyOf[login[l].openid] \in Keys /\ KeyOf[login[l].email] \in Keys
           /\ KeysOf(l) \subseteq Keys
           /\ Keys \subseteq 0 .. LargestKey
           /\ Keys \subseteq Nat
           /\ Held(l) \subseteq Keys
<1>1. login[l].openid \in Identities /\ login[l].email \in Emails
  BY DEF AccountsTypeOK, Login
<1> QED BY <1>1, KeysAssumption DEF Keys, KeysOf, Held

\* What is taken next is the smallest of what is missing.
LEMMA NextKeyIsSmallest ==
    ASSUME AccountsTypeOK, NEW l \in Logins, KeysOf(l) \ Held(l) # {}
    PROVE  /\ NextKey(l) \in KeysOf(l) \ Held(l)
           /\ \A j \in KeysOf(l) \ Held(l) : NextKey(l) <= j
<1>1. \E k \in KeysOf(l) \ Held(l) : \A j \in KeysOf(l) \ Held(l) : k <= j
  <2>1. KeyOf[login[l].openid] \in Nat /\ KeyOf[login[l].email] \in Nat
    BY KeysAreNumbers
  <2>2. KeysOf(l) \ Held(l) \in SUBSET {KeyOf[login[l].openid], KeyOf[login[l].email]}
    BY DEF KeysOf
  <2> QED BY <2>1, <2>2, SmallestOfTwo
<1> QED BY <1>1 DEF NextKey

\* One login changes.
LEMMA LoginChanges ==
    ASSUME AccountsTypeOK, NEW l \in Logins, NEW values \in Login,
           login' = [login EXCEPT ![l] = values]
    PROVE  /\ login' \in [Logins -> Login]
           /\ login'[l] = values
           /\ \A m \in Logins \ {l} : login'[m] = login[m]
BY DEF AccountsTypeOK

LEMMA LoginRecord ==
    ASSUME AccountsTypeOK, NEW l \in Logins
    PROVE  /\ login[l] \in Login
           /\ login[l].at \in Stages /\ login[l].openid \in Identities /\ login[l].email \in Emails
           /\ login[l].account \in Nat /\ login[l].bind \in BOOLEAN
BY DEF AccountsTypeOK, Login

\* Two logins that read under their locks differ in identity and in address.
LEMMA LocksExclude ==
    ASSUME AccountsTypeOK, NEW l \in Logins, NEW m \in Logins, l # m,
           KeysOf(l) \subseteq Held(l), KeysOf(m) \subseteq Held(m)
    PROVE  login[l].openid # login[m].openid /\ login[l].email # login[m].email
BY DEF KeysOf, Held

-----------------------------------------------------------------------------
LEMMA LoginsInitially == AccountsInit => LoginsInv
<1> SUFFICES ASSUME AccountsInit PROVE LoginsInv
  OBVIOUS
<1> USE DEF AccountsInit
<1>1. NewLogin \in Login
  BY KeysAssumption DEF NewLogin, Login, Stages
<1>2. AccountsTypeOK
  BY <1>1 DEF AccountsTypeOK
<1>3. \A l \in Logins : login[l].at = "new" /\ Held(l) = {}
  BY KeysAssumption DEF NewLogin, Held, Nobody
<1>4. \A l \in Logins : LocksAgree(l) /\ ReadsHold(l)
  BY <1>3 DEF LocksAgree, ReadsHold
<1>5. (\A b \in DOMAIN bindings : bindings[b].account # 0) /\ LoginsAgree
  BY DEF LoginsAgree
<1> QED BY <1>2, <1>4, <1>5 DEF LoginsInv

\* A login that is not the one that goes agrees with its locks as before.
LEMMA OthersAgree ==
    ASSUME NEW m \in Logins, LocksAgree(m), login'[m] = login[m], Held(m)' = Held(m)
    PROVE  LocksAgree(m)'
BY DEF LocksAgree, KeysOf

LEMMA OthersRead ==
    ASSUME NEW m \in Logins, ReadsHold(m), login'[m] = login[m],
           UNCHANGED <<accounts, bindings>>
    PROVE  ReadsHold(m)'
BY DEF ReadsHold, AccountsOf, BindingsOf

\* A step that writes one login and no rows.
LEMMA LoginStep ==
    ASSUME LoginsInv, NEW l \in Logins, NEW values \in Login,
           login' = [login EXCEPT ![l] = values],
           UNCHANGED <<accounts, bindings>>,
           keyHeld' \in [Keys -> Logins \union {Nobody}],
           \A m \in Logins \ {l} : Held(m)' = Held(m),
           LocksAgree(l)', ReadsHold(l)'
    PROVE  LoginsInv'
<1>1. AccountsTypeOK'
  BY LoginChanges DEF LoginsInv, AccountsTypeOK
<1>2. \A m \in Logins \ {l} : login'[m] = login[m]
  BY LoginChanges DEF LoginsInv
<1>3. \A m \in Logins : LocksAgree(m)'
  BY <1>2, OthersAgree DEF LoginsInv
<1>4. \A m \in Logins : ReadsHold(m)'
  BY <1>2, OthersRead DEF LoginsInv
<1>5. (\A b \in DOMAIN bindings : bindings[b].account # 0)' /\ LoginsAgree'
  BY DEF LoginsInv, LoginsAgree
<1> QED BY <1>1, <1>3, <1>4, <1>5 DEF LoginsInv

LEMMA HeldStays ==
    ASSUME UNCHANGED keyHeld
    PROVE  \A m \in Logins : Held(m)' = Held(m)
BY DEF Held

-----------------------------------------------------------------------------
LEMMA AskKeeps ==
    ASSUME LoginsInv, NEW l \in Logins, get_user_info(l)
    PROVE  LoginsInv'
<1>1. PICK i \in Identities, e \in Emails :
         LoginGoes(l, "new", [NewLogin EXCEPT !.at = "locking", !.openid = i, !.email = e])
  BY DEF get_user_info
<1> DEFINE values == [NewLogin EXCEPT !.at = "locking", !.openid = i, !.email = e]
<1>2. NewLogin \in Login
  BY KeysAssumption DEF NewLogin, Login, Stages
<1>3. /\ values \in Login
      /\ values.at = "locking" /\ ~values.bind
  BY <1>2 DEF NewLogin, Login, Stages
<1>4. login[l].at = "new" /\ login' = [login EXCEPT ![l] = values]
  BY <1>1 DEF LoginGoes
<1>5. login'[l] = values
  BY <1>3, <1>4, LoginChanges DEF LoginsInv
<1>6. UNCHANGED <<accounts, bindings, keyHeld>> /\ Held(l)' = {}
  BY <1>4, HeldStays DEF get_user_info, LoginsInv, LocksAgree
<1>7. LocksAgree(l)'
  <2>1. KeysOf(l)' # {}
    BY DEF KeysOf
  <2> QED BY <1>3, <1>5, <1>6, <2>1 DEF LocksAgree
<1>8. ReadsHold(l)'
  BY <1>3, <1>5 DEF ReadsHold
<1>9. keyHeld' \in [Keys -> Logins \union {Nobody}]
  BY <1>6 DEF LoginsInv, AccountsTypeOK
<1> HIDE DEF values
<1> QED BY <1>3, <1>4, <1>6, <1>7, <1>8, <1>9, HeldStays, LoginStep

\* A lock is taken: the smallest of those that are missing, by nobody held before.
LEMMA LockKeeps ==
    ASSUME LoginsInv, NEW l \in Logins, _lock_login_identity(l)
    PROVE  LoginsInv'
<1> DEFINE k == NextKey(l)
           at == IF KeysOf(l) \subseteq Held(l) \union {k} THEN "locked" ELSE "locking"
           values == [login[l] EXCEPT !.at = at]
<1>1. AccountsTypeOK /\ LocksAgree(l) /\ ReadsHold(l)
  BY DEF LoginsInv
<1>2. login[l].at = "locking" /\ login' = [login EXCEPT ![l] = values]
  BY DEF _lock_login_identity, LoginGoes
<1>3. k \in KeysOf(l) \ Held(l) /\ \A j \in KeysOf(l) \ Held(l) : k <= j
  BY <1>1, <1>2, NextKeyIsSmallest DEF LocksAgree
<1>4. k \in Keys /\ KeysOf(l) \subseteq Nat
  BY <1>1, <1>3, KeysAreNumbers
<1>5. values \in Login /\ values.at = at /\ values.openid = login[l].openid /\ values.email = login[l].email
      /\ values.bind = login[l].bind
  BY <1>1, LoginRecord DEF Login, Stages
<1>6. login'[l] = values
  BY <1>1, <1>2, <1>5, LoginChanges
<1>7. keyHeld[k] = Nobody /\ keyHeld' = [keyHeld EXCEPT ![k] = l] /\ UNCHANGED <<accounts, bindings>>
  BY DEF _lock_login_identity
<1>8. keyHeld' \in [Keys -> Logins \union {Nobody}]
  BY <1>1, <1>7 DEF AccountsTypeOK
<1>9. Held(l)' = Held(l) \union {k}
  BY <1>1, <1>4, <1>7 DEF AccountsTypeOK, Held
<1>10. \A m \in Logins \ {l} : Held(m)' = Held(m)
  BY <1>1, <1>4, <1>7, KeysAssumption DEF AccountsTypeOK, Held, Nobody
<1>11. KeysOf(l)' = KeysOf(l)
  BY <1>5, <1>6 DEF KeysOf
<1>12. LocksAgree(l)'
  <2>1. CASE KeysOf(l) \subseteq Held(l) \union {k}
    BY <2>1, <1>5, <1>6, <1>9, <1>11 DEF LocksAgree
  <2>2. CASE ~(KeysOf(l) \subseteq Held(l) \union {k})
    <3>1. \A j \in KeysOf(l) \ (Held(l) \union {k}) : k < j
      BY <1>3, <1>4
    <3>2. \A h \in Held(l), j \in KeysOf(l) \ (Held(l) \union {k}) : h < j
      BY <1>1, <1>2 DEF LocksAgree
    <3> QED BY <2>2, <3>1, <3>2, <1>5, <1>6, <1>9, <1>11 DEF LocksAgree
  <2> QED BY <2>1, <2>2
<1>13. ReadsHold(l)'
  BY <1>1, <1>2, <1>5, <1>6 DEF ReadsHold
<1> HIDE DEF values
<1> QED BY <1>2, <1>5, <1>7, <1>8, <1>10, <1>12, <1>13, LoginStep

LEMMA FindBindingKeeps ==
    ASSUME LoginsInv, NEW l \in Logins, FindBinding(l)
    PROVE  LoginsInv'
<1>1. AccountsTypeOK /\ LocksAgree(l)
  BY DEF LoginsInv
<1>2. PICK values :
         /\ LoginGoes(l, "locked", values)
         /\ \/ /\ values = [login[l] EXCEPT !.at = "unbound", !.bind = TRUE]
               /\ BindingsOf(login[l].openid) = {}
            \/ \E b \in DOMAIN bindings :
                  values = [login[l] EXCEPT !.at = "bound", !.account = bindings[b].account]
  BY DEF FindBinding, BindingsOf
<1>3. login[l].at = "locked" /\ login' = [login EXCEPT ![l] = values]
  BY <1>2 DEF LoginGoes
<1>4. UNCHANGED <<accounts, bindings, keyHeld>>
  BY DEF FindBinding
<1>5. CASE /\ values = [login[l] EXCEPT !.at = "unbound", !.bind = TRUE]
           /\ BindingsOf(login[l].openid) = {}
  <2>1. /\ values \in Login /\ values.at = "unbound"
        /\ values.openid = login[l].openid /\ values.email = login[l].email
    BY <1>1, <1>5, LoginRecord DEF Login, Stages
  <2>2. login'[l] = values
    BY <1>1, <1>3, <2>1, LoginChanges
  <2>3. LocksAgree(l)'
    BY <1>1, <1>3, <1>4, <2>1, <2>2, HeldStays DEF LocksAgree, KeysOf
  <2>4. ReadsHold(l)'
    BY <1>4, <1>5, <2>1, <2>2 DEF ReadsHold, BindingsOf
  <2> QED BY <1>1, <1>3, <1>4, <2>1, <2>3, <2>4, HeldStays, LoginStep DEF AccountsTypeOK
<1>6. CASE \E b \in DOMAIN bindings :
              values = [login[l] EXCEPT !.at = "bound", !.account = bindings[b].account]
  <2>1. PICK b \in DOMAIN bindings :
            values = [login[l] EXCEPT !.at = "bound", !.account = bindings[b].account]
    BY <1>6
  <2>2. bindings[b].account \in Nat /\ bindings[b].account # 0
    <3>1. bindings[b] \in [openid : Identities, account : Nat]
      BY <1>1, <2>1, ElementOfSeq DEF AccountsTypeOK
    <3> QED BY <2>1, <3>1 DEF LoginsInv
  <2>3. /\ values \in Login /\ values.at = "bound" /\ values.account # 0
        /\ values.openid = login[l].openid /\ values.email = login[l].email
    BY <1>1, <2>1, <2>2, LoginRecord DEF Login, Stages
  <2>4. login'[l] = values
    BY <1>1, <1>3, <2>3, LoginChanges
  <2>5. LocksAgree(l)'
    BY <1>1, <1>3, <1>4, <2>3, <2>4, HeldStays DEF LocksAgree, KeysOf
  <2>6. ~values.bind
    BY <1>1, <1>3, <2>1, LoginRecord DEF LoginsInv, ReadsHold, Login
  <2>7. ReadsHold(l)'
    BY <1>4, <2>3, <2>4, <2>6 DEF ReadsHold, BindingsOf
  <2> QED BY <1>1, <1>3, <1>4, <2>3, <2>5, <2>7, HeldStays, LoginStep DEF AccountsTypeOK
<1> QED BY <1>2, <1>5, <1>6

LEMMA FindAccountKeeps ==
    ASSUME LoginsInv, NEW l \in Logins, FindAccount(l)
    PROVE  LoginsInv'
<1>1. AccountsTypeOK /\ LocksAgree(l) /\ ReadsHold(l)
  BY DEF LoginsInv
<1>2. PICK values :
         /\ LoginGoes(l, "unbound", values)
         /\ \/ /\ values = [login[l] EXCEPT !.at = "bound"]
               /\ AccountsOf(login[l].email) = {}
            \/ \E a \in DOMAIN accounts : values = [login[l] EXCEPT !.at = "bound", !.account = a]
  BY DEF FindAccount, AccountsOf
<1>3. login[l].at = "unbound" /\ login' = [login EXCEPT ![l] = values]
  BY <1>2 DEF LoginGoes
<1>4. UNCHANGED <<accounts, bindings, keyHeld>>
  BY DEF FindAccount
<1>5. /\ values \in Login /\ values.at = "bound"
      /\ values.openid = login[l].openid /\ values.email = login[l].email
      /\ values.account = 0 => AccountsOf(login[l].email) = {}
  <2>1. CASE /\ values = [login[l] EXCEPT !.at = "bound"]
             /\ AccountsOf(login[l].email) = {}
    BY <1>1, <2>1, LoginRecord DEF Login, Stages
  <2>2. CASE \E a \in DOMAIN accounts : values = [login[l] EXCEPT !.at = "bound", !.account = a]
    <3>1. PICK a \in DOMAIN accounts : values = [login[l] EXCEPT !.at = "bound", !.account = a]
      BY <2>2
    <3>2. a \in Nat /\ a # 0
      BY <1>1, <3>1 DEF AccountsTypeOK
    <3> QED BY <1>1, <3>1, <3>2, LoginRecord DEF Login, Stages
  <2> QED BY <1>2, <2>1, <2>2
<1>6. login'[l] = values
  BY <1>1, <1>3, <1>5, LoginChanges
<1>7. LocksAgree(l)'
  BY <1>1, <1>3, <1>4, <1>5, <1>6, HeldStays DEF LocksAgree, KeysOf
<1>8. ReadsHold(l)'
  BY <1>1, <1>3, <1>4, <1>5, <1>6 DEF ReadsHold, BindingsOf, AccountsOf
<1> QED BY <1>1, <1>3, <1>4, <1>5, <1>7, <1>8, HeldStays, LoginStep DEF AccountsTypeOK

\* A login gives its locks back.
LEMMA Releases ==
    ASSUME AccountsTypeOK, NEW l \in Logins, keyHeld' = Released(l)
    PROVE  /\ keyHeld' \in [Keys -> Logins \union {Nobody}]
           /\ Held(l)' = {}
           /\ \A m \in Logins \ {l} : Held(m)' = Held(m)
<1>1. l # Nobody /\ \A m \in Logins : m # Nobody
  BY KeysAssumption DEF Nobody
<1> QED BY <1>1 DEF AccountsTypeOK, Released, Held

LEMMA FailureKeeps ==
    ASSUME LoginsInv, NEW l \in Logins, LoginFails(l)
    PROVE  LoginsInv'
<1> DEFINE values == [login[l] EXCEPT !.at = "refused"]
<1>1. AccountsTypeOK
  BY DEF LoginsInv
<1>2. login' = [login EXCEPT ![l] = values] /\ keyHeld' = Released(l) /\ UNCHANGED <<accounts, bindings>>
  BY DEF LoginFails
<1>3. values \in Login /\ values.at = "refused"
  BY <1>1, LoginRecord DEF Login, Stages
<1>4. login'[l] = values
  BY <1>1, <1>2, <1>3, LoginChanges
<1>5. LocksAgree(l)' /\ ReadsHold(l)'
  BY <1>1, <1>2, <1>3, <1>4, Releases DEF LocksAgree, ReadsHold
<1> HIDE DEF values
<1> QED BY <1>1, <1>2, <1>3, <1>5, Releases, LoginStep

-----------------------------------------------------------------------------
(***************************************************************************)
(* The commit: what it adds was missing when it was read, and whoever      *)
(* could have added it meanwhile would have held the same lock.            *)
(***************************************************************************)
LEMMA CommitKeeps ==
    ASSUME LoginsInv, NEW l \in Logins, CommitLogin(l)
    PROVE  LoginsInv'
<1> DEFINE created == login[l].account = 0
           a == IF created THEN Len(accounts) + 1 ELSE login[l].account
           values == [login[l] EXCEPT !.at = "done", !.account = a]
           account == [email |-> login[l].email, password |-> FALSE]
           binding == [openid |-> login[l].openid, account |-> a]
<1>1. AccountsTypeOK /\ LocksAgree(l) /\ ReadsHold(l)
  BY DEF LoginsInv
<1>2. /\ login[l].at = "bound" /\ login' = [login EXCEPT ![l] = values]
      /\ accounts' = IF created THEN Append(accounts, account) ELSE accounts
      /\ bindings' = IF login[l].bind THEN Append(bindings, binding) ELSE bindings
      /\ keyHeld' = Released(l)
  BY DEF CommitLogin, LoginGoes
<1>3. /\ accounts \in Seq([email : Emails, password : BOOLEAN])
      /\ bindings \in Seq([openid : Identities, account : Nat])
  BY <1>1 DEF AccountsTypeOK
<1>4. a \in Nat /\ a # 0
  BY <1>1, <1>3, LoginRecord
<1>5. values \in Login /\ values.at = "done"
  BY <1>1, <1>4, LoginRecord DEF Login, Stages
<1>6. /\ login' \in [Logins -> Login] /\ login'[l] = values
      /\ \A m \in Logins \ {l} : login'[m] = login[m]
  BY <1>1, <1>2, <1>5, LoginChanges
<1>7. account \in [email : Emails, password : BOOLEAN] /\ binding \in [openid : Identities, account : Nat]
  BY <1>1, <1>4, LoginRecord
<1>8. AccountsTypeOK'
  <2> HIDE DEF created, account, binding
  <2>1. accounts' \in Seq([email : Emails, password : BOOLEAN])
    BY <1>2, <1>3, <1>7, MoreOfSeq
  <2>2. bindings' \in Seq([openid : Identities, account : Nat])
    BY <1>2, <1>3, <1>7, MoreOfSeq
  <2>3. keyHeld' \in [Keys -> Logins \union {Nobody}]
    BY <1>1, <1>2, Releases
  <2> QED BY <1>6, <2>1, <2>2, <2>3 DEF AccountsTypeOK
<1>9. created => AccountsOf(login[l].email) = {}
  BY <1>1, <1>2 DEF ReadsHold
<1>10. login[l].bind => BindingsOf(login[l].openid) = {}
  BY <1>1, <1>2 DEF ReadsHold
<1>11. /\ account.email = login[l].email
       /\ binding.openid = login[l].openid /\ binding.account = a
  OBVIOUS
<1>12. /\ \A c \in DOMAIN accounts' :
             \/ c \in DOMAIN accounts /\ accounts'[c] = accounts[c]
             \/ created /\ c = Len(accounts) + 1 /\ accounts'[c] = account
       /\ \A b \in DOMAIN bindings' :
             \/ b \in DOMAIN bindings /\ bindings'[b] = bindings[b]
             \/ login[l].bind /\ b = Len(bindings) + 1 /\ bindings'[b] = binding
  <2> HIDE DEF created, account, binding
  <2> QED BY <1>2, <1>3, <1>7
<1> HIDE DEF created, a, values, account, binding
<1>13. \A m \in Logins \ {l} : LocksAgree(m)' /\ ReadsHold(m)'
  <2> SUFFICES ASSUME NEW m \in Logins \ {l} PROVE LocksAgree(m)' /\ ReadsHold(m)'
    OBVIOUS
  <2>1. LocksAgree(m) /\ ReadsHold(m) /\ login'[m] = login[m]
    BY <1>6 DEF LoginsInv
  <2>2. LocksAgree(m)'
    BY <1>1, <1>2, <2>1, Releases, OthersAgree
  <2>3. CASE login[m].at \in {"unbound", "bound"}
    <3>1. login[m].openid # login[l].openid /\ login[m].email # login[l].email
      BY <1>1, <1>2, <2>1, <2>3, LocksExclude DEF LocksAgree
    <3>2. BindingsOf(login[m].openid) = {} => BindingsOf(login[m].openid)' = {}
      BY <1>11, <1>12, <2>1, <3>1 DEF BindingsOf
    <3>3. AccountsOf(login[m].email) = {} => AccountsOf(login[m].email)' = {}
      BY <1>11, <1>12, <2>1, <3>1 DEF AccountsOf
    <3> QED BY <2>1, <2>2, <2>3, <3>2, <3>3 DEF ReadsHold, BindingsOf, AccountsOf
  <2>4. CASE login[m].at \notin {"unbound", "bound"}
    BY <2>1, <2>2, <2>4 DEF ReadsHold
  <2> QED BY <2>3, <2>4
<1>14. LocksAgree(l)' /\ ReadsHold(l)'
  BY <1>1, <1>2, <1>5, <1>6, Releases DEF LocksAgree, ReadsHold
<1>15. (\A b \in DOMAIN bindings : bindings[b].account # 0)'
  BY <1>4, <1>11, <1>12 DEF LoginsInv
<1>16. LoginsAgree'
  <2>1. \A c \in DOMAIN accounts : created => accounts[c].email # login[l].email
    BY <1>9 DEF AccountsOf
  <2>2. \A b \in DOMAIN bindings : login[l].bind => bindings[b].openid # login[l].openid
    BY <1>10 DEF BindingsOf
  <2>3. \A c, d \in DOMAIN accounts' : accounts'[c].email = accounts'[d].email => c = d
    BY <1>11, <1>12, <2>1 DEF LoginsInv, LoginsAgree
  <2>4. \A b, c \in DOMAIN bindings' : bindings'[b].openid = bindings'[c].openid => b = c
    BY <1>11, <1>12, <2>2 DEF LoginsInv, LoginsAgree
  <2> QED BY <2>3, <2>4 DEF LoginsAgree
<1> QED BY <1>8, <1>13, <1>14, <1>15, <1>16 DEF LoginsInv

LEMMA PasswordKeeps ==
    ASSUME LoginsInv, NEW a \in DOMAIN accounts, update_password(a)
    PROVE  LoginsInv'
<1>1. /\ accounts \in Seq([email : Emails, password : BOOLEAN])
      /\ accounts' = [accounts EXCEPT ![a].password = TRUE]
      /\ UNCHANGED <<bindings, login, keyHeld>>
  BY DEF LoginsInv, AccountsTypeOK, update_password
<1>2. accounts[a] \in [email : Emails, password : BOOLEAN]
  BY <1>1, ElementOfSeq
<1>3. accounts' = [accounts EXCEPT ![a] = [accounts[a] EXCEPT !.password = TRUE]]
  BY <1>1
<1>4. /\ [accounts[a] EXCEPT !.password = TRUE] \in [email : Emails, password : BOOLEAN]
      /\ [accounts[a] EXCEPT !.password = TRUE].email = accounts[a].email
  BY <1>2
<1>5. /\ accounts' \in Seq([email : Emails, password : BOOLEAN])
      /\ DOMAIN accounts' = DOMAIN accounts
      /\ \A c \in DOMAIN accounts : accounts'[c].email = accounts[c].email
  BY <1>1, <1>3, <1>4
<1>6. \A m \in Logins : LocksAgree(m)' /\ ReadsHold(m)'
  BY <1>1, <1>5 DEF LoginsInv, LocksAgree, ReadsHold, KeysOf, Held, BindingsOf, AccountsOf
<1>7. LoginsAgree'
  BY <1>1, <1>5 DEF LoginsInv, LoginsAgree
<1> QED BY <1>1, <1>5, <1>6, <1>7 DEF LoginsInv, AccountsTypeOK

LEMMA PasswordLoginKeeps ==
    ASSUME LoginsInv, NEW l \in Logins, password_login(l)
    PROVE  LoginsInv'
<1>1. PICK a \in DOMAIN accounts :
         LoginGoes(l, "new", [NewLogin EXCEPT !.at = "done", !.email = accounts[a].email, !.account = a])
  BY DEF password_login
<1> DEFINE values == [NewLogin EXCEPT !.at = "done", !.email = accounts[a].email, !.account = a]
<1>2. AccountsTypeOK /\ UNCHANGED <<accounts, bindings, keyHeld>>
  BY DEF LoginsInv, password_login
<1>3. a \in Nat /\ accounts[a].email \in Emails
  <2>1. accounts[a] \in [email : Emails, password : BOOLEAN]
    BY <1>2, ElementOfSeq DEF AccountsTypeOK
  <2> QED BY <1>2, <2>1 DEF AccountsTypeOK
<1>4. NewLogin \in Login
  BY KeysAssumption DEF NewLogin, Login, Stages
<1>5. values \in Login /\ values.at = "done"
  BY <1>3, <1>4 DEF Login, Stages
<1>6. login[l].at = "new" /\ login' = [login EXCEPT ![l] = values]
  BY <1>1 DEF LoginGoes
<1>7. login'[l] = values
  BY <1>2, <1>5, <1>6, LoginChanges
<1>8. LocksAgree(l)' /\ ReadsHold(l)'
  BY <1>2, <1>5, <1>6, <1>7, HeldStays DEF LoginsInv, LocksAgree, ReadsHold
<1> HIDE DEF values
<1> QED BY <1>2, <1>5, <1>6, <1>8, HeldStays, LoginStep DEF AccountsTypeOK

-----------------------------------------------------------------------------
\* Every step of every login, and of a change of a password, keeps the invariant.
LEMMA LoginsStep == LoginsInv /\ [AccountsNext]_accountVars => LoginsInv'
<1> SUFFICES ASSUME LoginsInv, [AccountsNext]_accountVars PROVE LoginsInv'
  OBVIOUS
<1>1. ASSUME NEW l \in Logins, oauth_login(l) PROVE LoginsInv'
  BY <1>1, AskKeeps, LockKeeps, FindBindingKeeps, FindAccountKeeps, CommitKeeps, FailureKeeps
     DEF oauth_login
<1>2. ASSUME NEW l \in Logins, password_login(l) PROVE LoginsInv'
  BY <1>2, PasswordLoginKeeps
<1>3. ASSUME NEW a \in DOMAIN accounts, update_password(a) PROVE LoginsInv'
  BY <1>3, PasswordKeeps
<1>4. CASE UNCHANGED accountVars
  BY <1>4 DEF accountVars, LoginsInv, AccountsTypeOK, LocksAgree, ReadsHold, KeysOf, Held,
              BindingsOf, AccountsOf, LoginsAgree
<1> QED BY <1>1, <1>2, <1>3, <1>4 DEF AccountsNext

LEMMA LoginsInvariant == AccountsSpec => []LoginsInv
BY LoginsInitially, LoginsStep, PTL DEF AccountsSpec

\* The rows, the logins and the locks keep their types.
THEOREM AccountsTypeCorrect == AccountsSpec => []AccountsTypeOK
<1>1. LoginsInv => AccountsTypeOK
  BY DEF LoginsInv
<1> QED BY <1>1, LoginsInvariant, PTL

\* oauth_login: however logins overlap and fail, and whatever the hashes are, no
\* address gets a second account and no identity a second binding.
THEOREM LoginsAlwaysAgree == AccountsSpec => []LoginsAgree
<1>1. LoginsInv => LoginsAgree
  BY DEF LoginsInv
<1> QED BY <1>1, LoginsInvariant, PTL

-----------------------------------------------------------------------------
(***************************************************************************)
(* Waiting.  Whoever is waited for waits, if at all, for a larger key than *)
(* the one it holds; and there is a largest key.                           *)
(***************************************************************************)
LEMMA WaitsClimb ==
    ASSUME LoginsInv, NEW l \in Logins, NEW m \in Logins, WaitsFor(l, m), login[m].at = "locking"
    PROVE  NextKey(l) < NextKey(m)
<1>1. AccountsTypeOK /\ LocksAgree(l) /\ LocksAgree(m)
  BY DEF LoginsInv
<1>2. login[l].at = "locking" /\ keyHeld[NextKey(l)] = m
  BY DEF WaitsFor
<1>3. NextKey(l) \in KeysOf(l) /\ NextKey(m) \in KeysOf(m) \ Held(m)
  BY <1>1, <1>2, NextKeyIsSmallest DEF LocksAgree
<1>4. NextKey(l) \in Held(m)
  BY <1>1, <1>2, <1>3, KeysAreNumbers DEF Held
<1> QED BY <1>1, <1>3, <1>4 DEF LocksAgree

LEMMA NoCircle == LoginsInv => NoCircularWait
<1> SUFFICES ASSUME LoginsInv, NEW group \in (SUBSET Logins) \ {{}}
             PROVE  \E l \in group : \A m \in group : ~WaitsFor(l, m)
  BY Zenon DEF NoCircularWait
<1> SUFFICES ASSUME \A l \in group : \E m \in group : WaitsFor(l, m) PROVE FALSE
  BY Zenon
<1>0. group \subseteq Logins /\ group # {}
  OBVIOUS
<1> DEFINE left(l) == LargestKey - NextKey(l)
           T == {left(l) : l \in group}
           R == OpToRel(<, Nat)
<1>1. AccountsTypeOK /\ \A l \in Logins : LocksAgree(l)
  BY DEF LoginsInv
<1>2. \A l \in group : l \in Logins /\ login[l].at = "locking"
  BY <1>0 DEF WaitsFor
<1>3. \A l \in group : NextKey(l) \in 0 .. LargestKey
  <2> SUFFICES ASSUME NEW l \in group PROVE NextKey(l) \in 0 .. LargestKey
    OBVIOUS
  <2>1. KeysOf(l) \ Held(l) # {}
    BY <1>1, <1>2 DEF LocksAgree
  <2>2. NextKey(l) \in KeysOf(l)
    BY <1>1, <2>1, NextKeyIsSmallest
  <2> QED BY <1>1, <2>2, KeysAreNumbers
<1>4. \A l \in group : left(l) \in Nat
  BY <1>3, KeysAssumption
<1>5. T \subseteq Nat /\ T # {}
  BY <1>0, <1>4
<1>6. \E x \in T : \A y \in T : ~(<<y, x>> \in R)
  <2> HIDE DEF T, R
  <2>1. IsWellFoundedOn(R, Nat)
    BY NatLessThanWellFounded DEF R
  <2> QED BY <1>5, <2>1, WFMin
<1>7. PICK l \in group : \A m \in group : ~(left(m) < left(l))
  BY <1>4, <1>6 DEF OpToRel
<1>8. PICK m \in group : WaitsFor(l, m)
  BY <1>7
<1>9. NextKey(l) < NextKey(m)
  BY <1>2, <1>7, <1>8, WaitsClimb
<1> QED BY <1>3, <1>7, <1>8, <1>9, KeysAssumption

\* _lock_login_identity takes the two numbers in their order: in any set of logins one
\* waits for nobody of them, however many there are and whatever their hashes.
THEOREM LoginsNeverCircle == AccountsSpec => []NoCircularWait
BY NoCircle, LoginsInvariant, PTL

-----------------------------------------------------------------------------
(***************************************************************************)
(* The refinement of LoginContract.  A login commits what was true when it *)
(* read: what it found missing is missing still (ReadsHold), and what it   *)
(* found is there still, for rows are never deleted.                       *)
(***************************************************************************)
FoundHolds(v) ==
    /\ v.at \in {"locking", "locked", "unbound"} => v.account = 0
    /\ v.at = "unbound" => v.bind
    /\ v.at = "bound" => /\ ~v.bind => <<v.openid, v.account>> \in BoundIdentities
                         /\ v.bind /\ v.account # 0 => <<v.email, v.account>> \in Owners
FoundStays(l) == FoundHolds(login[l])

ViewInv == LoginsInv /\ \A l \in Logins : FoundStays(l)

\* What a login shows of itself.
Shown(v) == IF v.at = "new" THEN << >> ELSE <<v.openid, v.email>>
Given(v) == IF v.at = "done" THEN v.account ELSE 0

LEMMA ViewOfLogin ==
    ASSUME AccountsTypeOK, NEW l \in Logins, NEW v \in Login, login' = [login EXCEPT ![l] = v]
    PROVE  /\ Presented' = [Presented EXCEPT ![l] = Shown(v)] /\ Presented[l] = Shown(login[l])
           /\ Answered' = [Answered EXCEPT ![l] = Given(v)] /\ Answered[l] = Given(login[l])
           /\ Shown(v) = Shown(login[l]) => Presented' = Presented
           /\ Given(v) = Given(login[l]) => Answered' = Answered
<1>1. /\ login'[l] = v
      /\ \A m \in Logins \ {l} : login'[m] = login[m]
  BY LoginChanges
<1>2. /\ Presented = [m \in Logins |-> Shown(login[m])]
      /\ Presented' = [m \in Logins |-> Shown(login'[m])]
  BY DEF Presented, Shown
<1>3. /\ Answered = [m \in Logins |-> Given(login[m])]
      /\ Answered' = [m \in Logins |-> Given(login'[m])]
  BY DEF Answered, Given
<1>4. /\ Presented' = [Presented EXCEPT ![l] = Shown(v)] /\ Presented[l] = Shown(login[l])
      /\ Shown(v) = Shown(login[l]) => Presented' = Presented
  BY <1>1, <1>2
<1>5. /\ Answered' = [Answered EXCEPT ![l] = Given(v)] /\ Answered[l] = Given(login[l])
      /\ Given(v) = Given(login[l]) => Answered' = Answered
  BY <1>1, <1>3
<1> QED BY <1>4, <1>5

\* The rows of accounts and bindings, as the contract knows them.
LEMMA RowsUnchanged ==
    UNCHANGED <<accounts, bindings>> => Owners' = Owners /\ BoundIdentities' = BoundIdentities
BY DEF Owners, BoundIdentities

LEMMA FoundOfOthers ==
    ASSUME Owners \subseteq Owners', BoundIdentities \subseteq BoundIdentities',
           NEW m \in Logins, FoundStays(m), login'[m] = login[m]
    PROVE  FoundStays(m)'
BY DEF FoundStays, FoundHolds

viewVars == <<Owners, BoundIdentities, Presented, Answered>>

\* A step that writes one login and no rows, and that nobody outside can tell.
LEMMA QuietLogin ==
    ASSUME ViewInv, NEW l \in Logins, NEW v \in Login, login' = [login EXCEPT ![l] = v],
           UNCHANGED <<accounts, bindings>>, Shown(v) = Shown(login[l]), Given(v) = Given(login[l]),
           FoundHolds(v)
    PROVE  (\A m \in Logins : FoundStays(m)') /\ UNCHANGED viewVars
<1>1. AccountsTypeOK
  BY DEF ViewInv, LoginsInv
<1>2. Owners' = Owners /\ BoundIdentities' = BoundIdentities
  BY RowsUnchanged
<1>3. login'[l] = v /\ \A m \in Logins \ {l} : login'[m] = login[m]
  BY <1>1, LoginChanges
<1>4. FoundStays(l)'
  BY <1>2, <1>3 DEF FoundStays, FoundHolds
<1>5. \A m \in Logins \ {l} : FoundStays(m)'
  BY <1>2, <1>3, FoundOfOthers DEF ViewInv
<1>6. Presented' = Presented /\ Answered' = Answered
  BY <1>1, ViewOfLogin
<1> QED BY <1>2, <1>4, <1>5, <1>6 DEF viewVars

Implements == (\A m \in Logins : FoundStays(m)') /\ [LoginView!Next]_viewVars

LEMMA AskImplements ==
    ASSUME ViewInv, NEW l \in Logins, get_user_info(l)
    PROVE  Implements
<1>1. PICK i \in Identities, e \in Emails :
         LoginGoes(l, "new", [NewLogin EXCEPT !.at = "locking", !.openid = i, !.email = e])
  BY DEF get_user_info
<1> DEFINE v == [NewLogin EXCEPT !.at = "locking", !.openid = i, !.email = e]
<1>2. AccountsTypeOK /\ UNCHANGED <<accounts, bindings>>
  BY DEF get_user_info, ViewInv, LoginsInv
<1>3. NewLogin \in Login
  BY KeysAssumption DEF NewLogin, Login, Stages
<1>4. v \in Login /\ v.at = "locking" /\ v.openid = i /\ v.email = e /\ v.account = 0
  BY <1>3 DEF NewLogin, Login, Stages
<1>5. login[l].at = "new" /\ login' = [login EXCEPT ![l] = v]
  BY <1>1 DEF LoginGoes
<1> HIDE DEF v
<1>6. Owners' = Owners /\ BoundIdentities' = BoundIdentities
  BY <1>2, RowsUnchanged
<1>7. /\ Presented' = [Presented EXCEPT ![l] = <<i, e>>] /\ Presented[l] = << >>
      /\ Answered' = Answered
  BY <1>2, <1>4, <1>5, ViewOfLogin DEF Shown, Given
<1>8. LoginView!Ask(l)
  BY <1>6, <1>7 DEF LoginView!Ask, LoginView!Present
<1>9. \A m \in Logins : FoundStays(m)'
  <2>1. login'[l] = v /\ \A m \in Logins \ {l} : login'[m] = login[m]
    BY <1>2, <1>4, <1>5, LoginChanges
  <2>2. FoundStays(l)'
    BY <1>4, <2>1 DEF FoundStays, FoundHolds
  <2> QED BY <1>6, <2>1, <2>2, FoundOfOthers DEF ViewInv
<1> QED BY <1>8, <1>9 DEF Implements, LoginView!Next

LEMMA ReadsImplement ==
    ASSUME ViewInv, NEW l \in Logins,
           _lock_login_identity(l) \/ FindBinding(l) \/ FindAccount(l) \/ LoginFails(l)
    PROVE  Implements
<1>1. AccountsTypeOK /\ ReadsHold(l) /\ FoundStays(l)
  BY DEF ViewInv, LoginsInv
<1>2. UNCHANGED <<accounts, bindings>>
  BY DEF _lock_login_identity, FindBinding, FindAccount, LoginFails
<1>3. /\ login[l] \in Login
      /\ login[l] = [at |-> login[l].at, openid |-> login[l].openid, email |-> login[l].email,
                     account |-> login[l].account, bind |-> login[l].bind]
  BY <1>1, LoginRecord DEF Login
<1>4. ASSUME NEW v \in Login, login' = [login EXCEPT ![l] = v],
             v.openid = login[l].openid, v.email = login[l].email,
             login[l].at \notin {"new", "done"}, v.at \notin {"new", "done"},
             FoundHolds(v)
      PROVE  Implements
  BY <1>2, <1>4, QuietLogin DEF Shown, Given, Implements
<1>a. CASE _lock_login_identity(l)
  <2>1. PICK at \in {"locked", "locking"} : LoginGoes(l, "locking", [login[l] EXCEPT !.at = at])
    BY <1>a DEF _lock_login_identity
  <2> DEFINE v == [login[l] EXCEPT !.at = at]
  <2>2. /\ v \in Login /\ v.at = at /\ v.openid = login[l].openid /\ v.email = login[l].email
        /\ v.account = login[l].account
    BY <1>3, <2>1 DEF Login, Stages
  <2>3. login[l].at = "locking" /\ login' = [login EXCEPT ![l] = v]
    BY <2>1 DEF LoginGoes
  <2> HIDE DEF v
  <2>4. FoundHolds(v)
    BY <1>1, <2>1, <2>2, <2>3 DEF FoundStays, FoundHolds
  <2> QED BY <1>4, <2>1, <2>2, <2>3, <2>4
<1>b. CASE FindBinding(l)
  <2>1. CASE LoginGoes(l, "locked", [login[l] EXCEPT !.at = "unbound", !.bind = TRUE])
    <3> DEFINE v == [login[l] EXCEPT !.at = "unbound", !.bind = TRUE]
    <3>1. /\ v \in Login /\ v.at = "unbound" /\ v.openid = login[l].openid /\ v.email = login[l].email
          /\ v.bind /\ v.account = login[l].account
      BY <1>3 DEF Login, Stages
    <3>2. login[l].at = "locked" /\ login' = [login EXCEPT ![l] = v]
      BY <2>1 DEF LoginGoes
    <3> HIDE DEF v
    <3>3. FoundHolds(v)
      BY <1>1, <3>1, <3>2 DEF FoundStays, FoundHolds
    <3> QED BY <1>4, <3>1, <3>2, <3>3
  <2>2. CASE \E b \in BindingsOf(login[l].openid) :
               LoginGoes(l, "locked", [login[l] EXCEPT !.at = "bound", !.account = bindings[b].account])
    <3>1. PICK b \in BindingsOf(login[l].openid) :
               LoginGoes(l, "locked", [login[l] EXCEPT !.at = "bound", !.account = bindings[b].account])
      BY <2>2
    <3>2. b \in DOMAIN bindings /\ bindings[b].openid = login[l].openid
      BY DEF BindingsOf
    <3>3. bindings[b].account \in Nat
      <4>1. bindings[b] \in [openid : Identities, account : Nat]
        BY <1>1, <3>2, ElementOfSeq DEF AccountsTypeOK
      <4> QED BY <4>1
    <3> DEFINE v == [login[l] EXCEPT !.at = "bound", !.account = bindings[b].account]
    <3>4. /\ v \in Login /\ v.at = "bound" /\ v.openid = login[l].openid /\ v.email = login[l].email
          /\ v.account = bindings[b].account /\ v.bind = login[l].bind
      BY <1>3, <3>3 DEF Login, Stages
    <3>5. login[l].at = "locked" /\ login' = [login EXCEPT ![l] = v]
      BY <3>1 DEF LoginGoes
    <3> HIDE DEF v
    <3>6. ~v.bind /\ <<v.openid, v.account>> \in BoundIdentities
      BY <1>1, <3>2, <3>4, <3>5 DEF ReadsHold, BoundIdentities
    <3>7. FoundHolds(v)
      BY <3>4, <3>6 DEF FoundHolds
    <3> QED BY <1>4, <3>4, <3>5, <3>7
  <2> QED BY <1>b, <2>1, <2>2 DEF FindBinding
<1>c. CASE FindAccount(l)
  <2>1. PICK a \in Nat : /\ LoginGoes(l, "unbound", [login[l] EXCEPT !.at = "bound", !.account = a])
                         /\ a \in AccountsOf(login[l].email) \/ (a = login[l].account /\ AccountsOf(login[l].email) = {})
    <3>1. CASE /\ LoginGoes(l, "unbound", [login[l] EXCEPT !.at = "bound"])
               /\ AccountsOf(login[l].email) = {}
      <4>1. [login[l] EXCEPT !.at = "bound"] = [login[l] EXCEPT !.at = "bound", !.account = login[l].account]
        BY <1>3
      <4> QED BY <1>3, <3>1, <4>1 DEF Login
    <3>2. CASE \E a \in AccountsOf(login[l].email) :
                 LoginGoes(l, "unbound", [login[l] EXCEPT !.at = "bound", !.account = a])
      <4>1. \A a \in AccountsOf(login[l].email) : a \in Nat
        BY <1>1 DEF AccountsOf, AccountsTypeOK
      <4> QED BY <3>2, <4>1
    <3> QED BY <1>c, <3>1, <3>2 DEF FindAccount
  <2> DEFINE v == [login[l] EXCEPT !.at = "bound", !.account = a]
  <2>2. /\ v \in Login /\ v.at = "bound" /\ v.openid = login[l].openid /\ v.email = login[l].email
        /\ v.account = a /\ v.bind = login[l].bind
    BY <1>3, <2>1 DEF Login, Stages
  <2>3. login[l].at = "unbound" /\ login' = [login EXCEPT ![l] = v]
    BY <2>1 DEF LoginGoes
  <2> HIDE DEF v
  <2>4. v.bind /\ (v.account # 0 => <<v.email, v.account>> \in Owners)
    BY <1>1, <2>1, <2>2, <2>3 DEF FoundStays, FoundHolds, AccountsOf, Owners
  <2>5. FoundHolds(v)
    BY <2>2, <2>4 DEF FoundHolds
  <2> QED BY <1>4, <2>2, <2>3, <2>5
<1>d. CASE LoginFails(l)
  <2> DEFINE v == [login[l] EXCEPT !.at = "refused"]
  <2>1. v \in Login /\ v.at = "refused" /\ v.openid = login[l].openid /\ v.email = login[l].email
    BY <1>3 DEF Login, Stages
  <2>2. login[l].at \notin {"new", "done"} /\ login' = [login EXCEPT ![l] = v]
    BY <1>d DEF LoginFails
  <2> HIDE DEF v
  <2>3. FoundHolds(v)
    BY <2>1 DEF FoundHolds
  <2> QED BY <1>4, <2>1, <2>2, <2>3
<1> QED BY <1>a, <1>b, <1>c, <1>d

\* The commit is the step in which the login happens.
LEMMA CommitImplements ==
    ASSUME ViewInv, NEW l \in Logins, CommitLogin(l)
    PROVE  Implements
<1> DEFINE created == login[l].account = 0
           a == IF created THEN Len(accounts) + 1 ELSE login[l].account
           v == [login[l] EXCEPT !.at = "done", !.account = a]
           account == [email |-> login[l].email, password |-> FALSE]
           binding == [openid |-> login[l].openid, account |-> a]
           i == login[l].openid
           e == login[l].email
<1>1. AccountsTypeOK /\ ReadsHold(l) /\ FoundStays(l)
  BY DEF ViewInv, LoginsInv
<1>2. /\ login[l].at = "bound" /\ login' = [login EXCEPT ![l] = v]
      /\ accounts' = IF created THEN Append(accounts, account) ELSE accounts
      /\ bindings' = IF login[l].bind THEN Append(bindings, binding) ELSE bindings
  BY DEF CommitLogin, LoginGoes
<1>3. /\ accounts \in Seq([email : Emails, password : BOOLEAN])
      /\ bindings \in Seq([openid : Identities, account : Nat])
  BY <1>1 DEF AccountsTypeOK
<1>4. a \in Nat /\ a # 0
  BY <1>1, <1>3, LoginRecord
<1>5. v \in Login /\ v.at = "done" /\ v.openid = i /\ v.email = e /\ v.account = a
  BY <1>1, <1>4, LoginRecord DEF Login, Stages
<1>6. /\ account \in [email : Emails, password : BOOLEAN] /\ binding \in [openid : Identities, account : Nat]
      /\ account.email = e /\ binding.openid = i /\ binding.account = a
  BY <1>1, <1>4, LoginRecord
<1>7. /\ created => Owners' = Owners \union {<<e, a>>}
      /\ ~created => Owners' = Owners
  <2>1. CASE created
    <3>1. accounts' = Append(accounts, account) /\ a = Len(accounts) + 1
      BY <1>2, <2>1
    <3> HIDE DEF account, a, created
    <3>2. /\ DOMAIN accounts' = DOMAIN accounts \union {a} /\ accounts'[a] = account
          /\ \A c \in DOMAIN accounts : accounts'[c] = accounts[c]
      BY <1>3, <1>6, <3>1
    <3> QED BY <1>6, <2>1, <3>2 DEF Owners
  <2>2. CASE ~created
    BY <1>2, <2>2 DEF Owners
  <2> QED BY <2>1, <2>2
<1>8. /\ login[l].bind => BoundIdentities' = BoundIdentities \union {<<i, a>>}
      /\ ~login[l].bind => BoundIdentities' = BoundIdentities
  <2>1. CASE login[l].bind
    <3>1. bindings' = Append(bindings, binding)
      BY <1>2, <2>1
    <3> DEFINE n == Len(bindings) + 1
    <3> HIDE DEF binding, a
    <3>2. /\ DOMAIN bindings' = DOMAIN bindings \union {n} /\ bindings'[n] = binding
          /\ \A c \in DOMAIN bindings : bindings'[c] = bindings[c]
      BY <1>3, <1>6, <3>1
    <3> HIDE DEF n
    <3> QED BY <1>6, <2>1, <3>2 DEF BoundIdentities
  <2>2. CASE ~login[l].bind
    BY <1>2, <2>2 DEF BoundIdentities
  <2> QED BY <2>1, <2>2
<1>9. created => \A p \in Owners : p[2] # a /\ p[1] # e
  <2> SUFFICES ASSUME created, NEW c \in DOMAIN accounts PROVE c # a /\ accounts[c].email # e
    BY DEF Owners
  <2>1. AccountsOf(e) = {}
    BY <1>1, <1>2 DEF ReadsHold
  <2>2. c \in 1 .. Len(accounts) /\ a = Len(accounts) + 1
    BY <1>3
  <2>3. c # a
    <3> HIDE DEF a
    <3> QED BY <1>3, <2>2
  <2> QED BY <2>1, <2>3 DEF AccountsOf
<1>10. login[l].bind => \A p \in BoundIdentities : p[1] # i
  BY <1>1, <1>2 DEF ReadsHold, BindingsOf, BoundIdentities
<1>11. created => login[l].bind
  <2> SUFFICES ASSUME created, ~login[l].bind PROVE FALSE
    OBVIOUS
  <2>1. <<i, 0>> \in BoundIdentities
    BY <1>1, <1>2 DEF FoundStays, FoundHolds
  <2>2. PICK b \in DOMAIN bindings : bindings[b].account = 0
    BY <2>1 DEF BoundIdentities
  <2> QED BY <2>2 DEF ViewInv, LoginsInv
<1>12. /\ ~created => a = login[l].account
       /\ ~created /\ ~login[l].bind => <<i, a>> \in BoundIdentities
       /\ ~created /\ login[l].bind => <<e, a>> \in Owners
  BY <1>1, <1>2 DEF FoundStays, FoundHolds
<1> HIDE DEF created, a, v, account, binding
<1>13. /\ Presented' = Presented /\ Presented[l] = <<i, e>>
       /\ Answered' = [Answered EXCEPT ![l] = a] /\ Answered[l] = 0 /\ Answered'[l] = a
  <2>1. /\ Presented' = Presented /\ Presented[l] = <<i, e>>
        /\ Answered' = [Answered EXCEPT ![l] = a] /\ Answered[l] = 0
    BY <1>1, <1>2, <1>5, ViewOfLogin DEF Shown, Given
  <2>2. l \in DOMAIN Answered
    BY DEF Answered
  <2> QED BY <2>1, <2>2
<1>14. LoginView!LogIn(l)
  <2>1. LoginView!LetIn(i, a) \/ LoginView!Bind(i, e, a) \/ LoginView!Register(i, e, a)
    <3>1. CASE created
      BY <1>4, <1>7, <1>8, <1>9, <1>10, <1>11, <3>1
         DEF LoginView!Register, LoginView!Unbound, LoginView!Vacant, LoginView!Fresh
    <3>2. CASE ~created /\ login[l].bind
      BY <1>7, <1>8, <1>10, <1>12, <3>2 DEF LoginView!Bind, LoginView!Unbound
    <3>3. CASE ~created /\ ~login[l].bind
      BY <1>7, <1>8, <1>12, <3>3 DEF LoginView!LetIn
    <3> QED BY <3>1, <3>2, <3>3
  <2>2. LoginView!Answer(l, a)
    BY <1>13 DEF LoginView!Answer
  <2>3. Presented[l] # << >> /\ Presented[l][1] = i /\ Presented[l][2] = e
    BY <1>13
  <2> HIDE DEF i, e
  <2> QED BY <1>13, <2>1, <2>2, <2>3 DEF LoginView!LogIn
<1>15. \A m \in Logins : FoundStays(m)'
  <2>1. login'[l] = v /\ \A m \in Logins \ {l} : login'[m] = login[m]
    BY <1>1, <1>2, <1>5, LoginChanges
  <2>2. FoundStays(l)'
    BY <1>5, <2>1 DEF FoundStays, FoundHolds
  <2>3. Owners \subseteq Owners' /\ BoundIdentities \subseteq BoundIdentities'
    BY <1>7, <1>8
  <2> QED BY <2>1, <2>2, <2>3, FoundOfOthers DEF ViewInv
<1> QED BY <1>14, <1>15 DEF Implements, LoginView!Next

LEMMA PasswordImplements ==
    ASSUME ViewInv, NEW a \in DOMAIN accounts, update_password(a)
    PROVE  Implements
<1>1. /\ accounts \in Seq([email : Emails, password : BOOLEAN])
      /\ accounts' = [accounts EXCEPT ![a].password = TRUE] /\ UNCHANGED <<bindings, login>>
  BY DEF ViewInv, LoginsInv, AccountsTypeOK, update_password
<1>2. accounts[a] \in [email : Emails, password : BOOLEAN]
  BY <1>1, ElementOfSeq
<1>3. DOMAIN accounts' = DOMAIN accounts /\ \A c \in DOMAIN accounts : accounts'[c].email = accounts[c].email
  BY <1>1, <1>2
<1>4. Owners' = Owners /\ BoundIdentities' = BoundIdentities
  BY <1>1, <1>3 DEF Owners, BoundIdentities
<1>5. Presented' = Presented /\ Answered' = Answered
  BY <1>1 DEF Presented, Answered
<1>6. \A m \in Logins : FoundStays(m)'
  BY <1>1, <1>4, FoundOfOthers DEF ViewInv
<1> QED BY <1>4, <1>5, <1>6 DEF Implements, viewVars

LEMMA PasswordLoginImplements ==
    ASSUME ViewInv, NEW l \in Logins, password_login(l)
    PROVE  Implements
<1>1. PICK a \in DOMAIN accounts :
         LoginGoes(l, "new", [NewLogin EXCEPT !.at = "done", !.email = accounts[a].email, !.account = a])
  BY DEF password_login
<1> DEFINE v == [NewLogin EXCEPT !.at = "done", !.email = accounts[a].email, !.account = a]
<1>2. AccountsTypeOK /\ UNCHANGED <<accounts, bindings>>
  BY DEF ViewInv, LoginsInv, password_login
<1>3. a \in Nat /\ accounts[a].email \in Emails
  <2>1. accounts[a] \in [email : Emails, password : BOOLEAN]
    BY <1>2, ElementOfSeq DEF AccountsTypeOK
  <2> QED BY <1>2, <2>1 DEF AccountsTypeOK
<1>4. NewLogin \in Login
  BY KeysAssumption DEF NewLogin, Login, Stages
<1>5. v \in Login /\ v.at = "done" /\ v.email = accounts[a].email /\ v.account = a /\ v.openid \in Identities
  BY <1>3, <1>4 DEF Login, Stages
<1>6. login[l].at = "new" /\ login' = [login EXCEPT ![l] = v]
  BY <1>1 DEF LoginGoes
<1> HIDE DEF v
<1>7. Owners' = Owners /\ BoundIdentities' = BoundIdentities /\ <<v.email, a>> \in Owners
  BY <1>2, <1>5, RowsUnchanged DEF Owners
<1>8. /\ Presented' = [Presented EXCEPT ![l] = <<v.openid, v.email>>] /\ Presented[l] = << >>
      /\ Answered' = [Answered EXCEPT ![l] = a] /\ Answered[l] = 0
  BY <1>2, <1>5, <1>6, ViewOfLogin DEF Shown, Given
<1>9. LoginView!GiveName(l)
  <2>1. PICK p : p = <<v.email, a>>
    OBVIOUS
  <2>2. p \in Owners /\ p[1] = v.email /\ p[2] = a
    BY <1>7, <2>1
  <2>3. LoginView!Present(l, v.openid, p[1]) /\ LoginView!Answer(l, p[2])
    BY <1>8, <2>2 DEF LoginView!Present, LoginView!Answer
  <2> QED BY <1>5, <1>7, <2>2, <2>3 DEF LoginView!GiveName
<1>10. \A m \in Logins : FoundStays(m)'
  <2>1. login'[l] = v /\ \A m \in Logins \ {l} : login'[m] = login[m]
    BY <1>2, <1>5, <1>6, LoginChanges
  <2>2. FoundStays(l)'
    BY <1>5, <2>1 DEF FoundStays, FoundHolds
  <2> QED BY <1>7, <2>1, <2>2, FoundOfOthers DEF ViewInv
<1> QED BY <1>9, <1>10 DEF Implements, LoginView!Next

LEMMA EveryStepImplements == ViewInv /\ [AccountsNext]_accountVars => Implements
<1> SUFFICES ASSUME ViewInv, [AccountsNext]_accountVars PROVE Implements
  OBVIOUS
<1>1. ASSUME NEW l \in Logins, oauth_login(l) PROVE Implements
  BY <1>1, AskImplements, ReadsImplement, CommitImplements DEF oauth_login
<1>2. CASE UNCHANGED accountVars
  BY <1>2 DEF accountVars, Implements, viewVars, Owners, BoundIdentities, Presented, Answered,
              ViewInv, FoundStays, FoundHolds
<1> QED BY <1>1, <1>2, PasswordImplements, PasswordLoginImplements DEF AccountsNext

LEMMA ViewInitially == AccountsInit => LoginView!Init /\ ViewInv
<1> SUFFICES ASSUME AccountsInit PROVE LoginView!Init /\ ViewInv
  OBVIOUS
<1>1. LoginsInv
  BY LoginsInitially
<1>2. accounts = << >> /\ bindings = << >> /\ \A l \in Logins : login[l] = NewLogin
  BY DEF AccountsInit
<1>3. NewLogin.at = "new"
  BY DEF NewLogin
<1>4. \A l \in Logins : FoundStays(l)
  BY <1>2, <1>3 DEF FoundStays, FoundHolds
<1>5. LoginView!Init
  BY <1>2, <1>3 DEF LoginView!Init, Owners, BoundIdentities, Presented, Answered
<1> QED BY <1>1, <1>4, <1>5 DEF ViewInv

\* oauth_login and the login with a password: although each reads and writes in several
\* steps, and others commit in between, all end as if they had come one at a time.
THEOREM LoginsImplementContract == AccountsSpec => LoginsAreAtomic
<1>1. ViewInv /\ [AccountsNext]_accountVars => ViewInv' /\ [LoginView!Next]_viewVars
  BY EveryStepImplements, LoginsStep DEF ViewInv, Implements
<1> QED BY <1>1, ViewInitially, PTL DEF AccountsSpec, LoginsAreAtomic, LoginView!Spec, viewVars

-----------------------------------------------------------------------------
\* The two tables hold pairs, and whoever is answered has been let into an account.
OneEachInv ==
    /\ LoginView!OneAccountEach
    /\ \A p \in Owners : p = <<p[1], p[2]>>
    /\ \A p \in BoundIdentities : p = <<p[1], p[2]>>
    /\ DOMAIN Answered = Logins

LEMMA OneEachStays == OneEachInv /\ [LoginView!Next]_viewVars => OneEachInv'
<1> SUFFICES ASSUME OneEachInv, [LoginView!Next]_viewVars PROVE OneEachInv'
  OBVIOUS
<1> USE DEF OneEachInv, LoginView!OneAccountEach
<1>1. CASE UNCHANGED viewVars
  BY <1>1 DEF viewVars
<1>2. ASSUME NEW l \in Logins, LoginView!Ask(l) PROVE OneEachInv'
  BY <1>2 DEF LoginView!Ask
<1>3. ASSUME NEW l \in Logins, LoginView!LogIn(l) PROVE OneEachInv'
  <2>1. PICK i, e, a : /\ i = Presented[l][1] /\ e = Presented[l][2] /\ a = Answered'[l]
    OBVIOUS
  <2>2. /\ Answered' = [Answered EXCEPT ![l] = a]
        /\ \/ LoginView!LetIn(i, a)
           \/ LoginView!Bind(i, e, a)
           \/ LoginView!Register(i, e, a)
    BY <1>3, <2>1 DEF LoginView!LogIn, LoginView!Answer
  <2>3. \A m \in Logins : Answered'[m] = IF m = l THEN a ELSE Answered[m]
    BY <2>2
  <2>4. DOMAIN Answered' = Logins
    BY <2>2
  <2>5. CASE LoginView!LetIn(i, a)
    BY <2>3, <2>4, <2>5 DEF LoginView!LetIn
  <2>6. CASE LoginView!Bind(i, e, a)
    BY <2>3, <2>4, <2>6 DEF LoginView!Bind, LoginView!Unbound
  <2>7. CASE LoginView!Register(i, e, a)
    <3>1. /\ \A p \in BoundIdentities : p[1] # i
          /\ \A p \in Owners : p[1] # e
          /\ a # 0 /\ \A p \in Owners : p[2] # a
          /\ Owners' = Owners \union {<<e, a>>}
          /\ BoundIdentities' = BoundIdentities \union {<<i, a>>}
      BY <2>7 DEF LoginView!Register, LoginView!Unbound, LoginView!Vacant, LoginView!Fresh
    <3>2. /\ <<e, a>>[1] = e /\ <<e, a>>[2] = a /\ <<e, a>> \in Owners'
          /\ <<i, a>>[1] = i /\ <<i, a>>[2] = a
          /\ Owners \subseteq Owners'
      BY <3>1
    <3>3. \A p, q \in Owners' : p[1] = q[1] \/ p[2] = q[2] => p = q
      BY <3>1, <3>2
    <3>4. \A p, q \in BoundIdentities' : p[1] = q[1] => p = q
      BY <3>1, <3>2
    <3>5. \A p \in BoundIdentities' : \E q \in Owners' : q[2] = p[2]
      BY <3>1, <3>2
    <3>6. \A m \in Logins : Answered'[m] # 0 => \E q \in Owners' : q[2] = Answered'[m]
      BY <2>3, <3>2
    <3>7. /\ \A p \in Owners' : p = <<p[1], p[2]>>
          /\ \A p \in BoundIdentities' : p = <<p[1], p[2]>>
      BY <3>1
    <3> QED BY <2>4, <3>3, <3>4, <3>5, <3>6, <3>7
  <2> QED BY <2>2, <2>5, <2>6, <2>7
<1>4. ASSUME NEW l \in Logins, LoginView!GiveName(l) PROVE OneEachInv'
  <2>1. PICK p \in Owners : Answered' = [Answered EXCEPT ![l] = p[2]]
    BY <1>4 DEF LoginView!GiveName, LoginView!Answer
  <2>2. UNCHANGED <<Owners, BoundIdentities>>
    BY <1>4 DEF LoginView!GiveName
  <2> QED BY <2>1, <2>2
<1> QED BY <1>1, <1>2, <1>3, <1>4 DEF LoginView!Next

\* Whoever keeps the contract has one account for each address and identity.
LEMMA ContractGivesOne == LoginView!Spec => []LoginView!OneAccountEach
<1>1. LoginView!Init => OneEachInv
  BY DEF LoginView!Init, OneEachInv, LoginView!OneAccountEach
<1>2. OneEachInv => LoginView!OneAccountEach
  BY DEF OneEachInv
<1> QED BY <1>1, <1>2, OneEachStays, PTL DEF LoginView!Spec, viewVars

\* What the contract comes to for the code: however logins overlap and fail, an address
\* has one account and an identity one, and nobody is let into an account that is not
\* committed.
THEOREM OneAccountForEach == AccountsSpec => []LoginView!OneAccountEach
<1>1. LoginsAreAtomic => []LoginView!OneAccountEach
  BY ContractGivesOne DEF LoginsAreAtomic
<1> QED BY <1>1, LoginsImplementContract

=============================================================================
