------------------------------ MODULE AuthProofs ------------------------------
(***************************************************************************)
(* Theorems about Auth, for any number of browsers, logins and invites and *)
(* any statement interleaving of the callbacks.                            *)
(***************************************************************************)
EXTENDS Auth, TLAPS

-----------------------------------------------------------------------------
(* The inductive invariant: what the locks that a callback holds guarantee.  *)

\* A callback in its transaction carries the invite of its own login, and past
\* the lookup it has one.
CarriesItsInvite ==
    \A n \in LoginIds :
       /\ callback[n].pc \in {"lookup", "claim", "insert", "commit"} =>
             callback[n].identity \in Identities /\ callback[n].invite = logins[n].invite
       /\ callback[n].pc \in {"claim", "insert", "commit"} => callback[n].invite \in Invites

\* Between the lock of an invite row and the commit, the invite stays usable and
\* no other callback holds it.
RowLocked ==
    \A n \in LoginIds : callback[n].pc \in {"insert", "commit"} =>
       /\ invites[callback[n].invite] # NoRow
       /\ invites[callback[n].invite].claimed = 0
       /\ \A m \in LoginIds \ {n} : ~LocksInvite(m, callback[n].invite)

\* Between the entry in the unique index and the commit, nobody has the identity.
IndexLocked ==
    \A n \in LoginIds : callback[n].pc = "commit" =>
       /\ \A a \in accounts : a.identity # callback[n].identity
       /\ \A m \in LoginIds \ {n} : ~HoldsIdentity(m, callback[n].identity)

\* An account was made by the login with its number, which is past its commit.
AccountsCommitted ==
    /\ \A a \in accounts : /\ callback[a.id].pc \in {"session", "done"}
                           /\ a.invite \in Invites
                           /\ logins[a.id].invite = a.invite
    /\ \A a, c \in accounts : a.id = c.id => a = c

PostedByOperator ==
    \A b \in Browsers : posting[b] # 0 =>
        \E a \in accounts : a.id = posting[b] /\ a.role = "operator"

IInv ==
    /\ TypeOK
    /\ CarriesItsInvite /\ RowLocked /\ IndexLocked /\ AccountsCommitted
    /\ ClaimsMatchAccounts /\ InvitesTraceToOperator /\ OneAccountPerIdentity
    /\ PostedByOperator

-----------------------------------------------------------------------------

(* Types *)

\* The rows and records that the actions write have their types.
LEMMA RowTypes ==
    /\ NoRow \in InviteRows /\ NoCallback \in Callbacks /\ Done \in Callbacks
    /\ \A l \in Logins : l.invite \in Invites \cup {0}
<1>1. NoRow \in InviteRows
  BY DEF NoRow, InviteRows
<1>2. NoCallback \in Callbacks /\ Done \in Callbacks
  BY DEF NoCallback, Done, Callbacks, PCs
<1>3. \A l \in Logins : l.invite \in Invites \cup {0}
  BY DEF Logins, NoLogin
<1> QED
  BY <1>1, <1>2, <1>3

\* The initial state has the declared types.
LEMMA TypeInit == Init => TypeOK
<1> SUFFICES ASSUME Init PROVE TypeOK
    OBVIOUS
<1>1. now \in 0 .. MaxTime /\ accounts \subseteq AccountRows /\ sessions \subseteq SessionRows
  BY ConstantsAssumption DEF Init
<1>2. invites \in [Invites -> InviteRows] /\ callback \in [LoginIds -> Callbacks]
  BY RowTypes DEF Init
<1>3. logins \in [LoginIds -> Logins]
  BY DEF Init, Logins
<1>4. pending \in Nonces /\ token \in Nonces /\ posting \in Nonces
  BY DEF Init, Nonces
<1> QED
  BY <1>1, <1>2, <1>3, <1>4 DEF TypeOK

\* Refusing a login keeps the declared types.
LEMMA RedirectTypes ==
    ASSUME TypeOK, NEW n \in LoginIds, RedirectLoginError(n)
    PROVE  callback' \in [LoginIds -> Callbacks] /\ pending' \in Nonces
BY RowTypes DEF RedirectLoginError, Nonces, TypeOK

\* Every step keeps the declared types; the invites that callbacks carry are needed
\* for the identity a commit writes.
LEMMA TypeStep == TypeOK /\ CarriesItsInvite /\ [Next]_vars => TypeOK'
<1> SUFFICES ASSUME TypeOK, CarriesItsInvite, [Next]_vars PROVE TypeOK'
    OBVIOUS
<1> USE DEF TypeOK
<1>1. ASSUME NEW role \in Roles, CommandLineInvite(role) PROVE TypeOK'
  BY <1>1, ConstantsAssumption DEF CommandLineInvite, NewInvite, InviteRows
<1>2. ASSUME NEW b \in Browsers, RequireOperator(b) PROVE TypeOK'
  BY <1>2 DEF RequireOperator, Authorized, Principals, Nonces, AccountRows
<1>3. ASSUME NEW b \in Browsers, HandleSignupInvite(b) PROVE TypeOK'
  BY <1>3, ConstantsAssumption DEF HandleSignupInvite, NewInvite, InviteRows, Nonces
<1>4. ASSUME NEW b \in Browsers, NEW p \in Providers, NEW i \in Invites \cup {0},
             StartLogin(b, p, i)
      PROVE  TypeOK'
  <2>1. callback' \in [LoginIds -> Callbacks]
    BY <1>4 DEF StartLogin, Callbacks, PCs
  <2>2. logins' \in [LoginIds -> Logins] /\ pending' \in Nonces
    BY <1>4 DEF StartLogin, Logins, Nonces
  <2> QED
    BY <1>4, <2>1, <2>2 DEF StartLogin
<1>5. ASSUME NEW b \in Browsers, PendingExpires(b) \/ Logout(b) PROVE TypeOK'
  BY <1>5 DEF PendingExpires, Logout, Nonces
<1>6. ASSUME NEW n \in LoginIds, NEW p \in Providers, BeginCallback(n, p) PROVE TypeOK'
  <2>1. PICK s \in Subjects :
          callback' = [callback EXCEPT ![n] = [pc |-> "lookup", identity |-> <<p, s>>,
                                               invite |-> logins[n].invite, at |-> now, account |-> 0]]
    BY <1>6 DEF BeginCallback, StateMatches
  <2>2. logins[n].invite \in Invites \cup {0}
    BY RowTypes
  <2>3. <<p, s>> \in Identities
    BY DEF Identities
  <2>4. now \in Nat
    BY ConstantsAssumption
  <2>5. [pc |-> "lookup", identity |-> <<p, s>>, invite |-> logins[n].invite, at |-> now, account |-> 0]
          \in Callbacks
    BY <2>2, <2>3, <2>4 DEF Callbacks, PCs
  <2>6. callback' \in [LoginIds -> Callbacks]
    BY <2>1, <2>5
  <2> QED
    BY <1>6, <2>6 DEF BeginCallback
<1>7. ASSUME NEW n \in LoginIds, RefuseCallback(n) \/ Rollback(n) PROVE TypeOK'
  BY <1>7, RedirectTypes DEF RefuseCallback, Rollback
<1>8. ASSUME NEW n \in LoginIds, LookupIdentity(n) PROVE TypeOK'
  <2>1. callback' \in [LoginIds -> Callbacks]
    BY <1>8 DEF LookupIdentity, RedirectLoginError, Done, NoCallback, AccountsOf, AccountRows, Callbacks, PCs
  <2>2. pending' \in Nonces
    BY <1>8, RedirectTypes DEF LookupIdentity
  <2> QED
    BY <1>8, <2>1, <2>2 DEF LookupIdentity
<1>9. ASSUME NEW n \in LoginIds, ClaimInvite(n) PROVE TypeOK'
  <2>1. callback' \in [LoginIds -> Callbacks]
    BY <1>9 DEF ClaimInvite, RedirectLoginError, Done, NoCallback, Callbacks, PCs
  <2>2. pending' \in Nonces
    BY <1>9, RedirectTypes DEF ClaimInvite
  <2> QED
    BY <1>9, <2>1, <2>2 DEF ClaimInvite
<1>10. ASSUME NEW n \in LoginIds, InsertAccount(n) PROVE TypeOK'
  <2>1. callback' \in [LoginIds -> Callbacks]
    BY <1>10 DEF InsertAccount, RedirectLoginError, Done, NoCallback, Callbacks, PCs
  <2>2. pending' \in Nonces
    BY <1>10, RedirectTypes DEF InsertAccount
  <2> QED
    BY <1>10, <2>1, <2>2 DEF InsertAccount
<1>11. ASSUME NEW n \in LoginIds, CommitAccount(n) PROVE TypeOK'
  <2>1. /\ callback[n].identity \in Identities
        /\ callback[n].invite \in Invites
    BY <1>11 DEF CommitAccount, CarriesItsInvite
  <2>2. invites[callback[n].invite].role \in Roles \cup {"none"}
    BY <2>1 DEF InviteRows
  <2>3. [id |-> n, identity |-> callback[n].identity,
         role |-> invites[callback[n].invite].role, invite |-> callback[n].invite] \in AccountRows
    BY <2>1, <2>2 DEF AccountRows
  <2>4. accounts' \subseteq AccountRows
    BY <1>11, <2>3 DEF CommitAccount
  <2>5. invites' \in [Invites -> InviteRows]
    BY <1>11, <2>1 DEF CommitAccount, InviteRows
  <2>6. callback' \in [LoginIds -> Callbacks]
    <3>1. callback' = [callback EXCEPT ![n].pc = "session", ![n].account = n]
      BY <1>11, Zenon DEF CommitAccount
    <3>2. [callback[n] EXCEPT !.pc = "session", !.account = n] \in Callbacks
      BY DEF Callbacks, PCs
    <3>3. callback' = [callback EXCEPT ![n] = [callback[n] EXCEPT !.pc = "session", !.account = n]]
      BY <3>1 DEF Callbacks
    <3> QED
      BY <3>2, <3>3, Zenon
  <2> QED
    BY <1>11, <2>4, <2>5, <2>6 DEF CommitAccount
<1>12. ASSUME NEW n \in LoginIds, IssueSession(n) PROVE TypeOK'
  <2>1. now + SessionTTL \in Nat /\ callback[n].account \in LoginIds \cup {0}
    BY ConstantsAssumption DEF Callbacks
  <2>2. sessions' \subseteq SessionRows
    BY <1>12, <2>1 DEF IssueSession, SessionRows
  <2>3. token' \in Nonces /\ pending' \in Nonces
    BY <1>12 DEF IssueSession, Nonces
  <2>4. callback' \in [LoginIds -> Callbacks]
    BY <1>12, RowTypes DEF IssueSession
  <2> QED
    BY <1>12, <2>2, <2>3, <2>4 DEF IssueSession
<1>13. CASE Tick
  BY <1>13, ConstantsAssumption DEF Tick
<1>14. CASE UNCHANGED vars
  BY <1>14 DEF vars
<1> QED
  BY <1>1, <1>2, <1>3, <1>4, <1>5, <1>6, <1>7, <1>8, <1>9, <1>10, <1>11, <1>12, <1>13, <1>14
     DEF Next, CallbackStep
-----------------------------------------------------------------------------
(* The invariant *)

\* Initially there is no account, no invite and no callback.
LEMMA InvInit == Init => IInv
<1> SUFFICES ASSUME Init PROVE IInv
    OBVIOUS
<1>1. TypeOK
  BY TypeInit
<1>2. \A n \in LoginIds : callback[n].pc = "none"
  BY DEF Init, NoCallback
<1>3. CarriesItsInvite /\ RowLocked /\ IndexLocked
  BY <1>2 DEF CarriesItsInvite, RowLocked, IndexLocked
<1>4. \A i \in Invites : invites[i].claimed = 0 /\ invites[i].by = 0
  BY DEF Init, NoRow
<1>5. \A b \in Browsers : posting[b] = 0
  BY DEF Init
<1>6. accounts = {}
  BY DEF Init
<1> QED
  BY <1>1, <1>3, <1>4, <1>5, <1>6
     DEF IInv, AccountsCommitted, ClaimsMatchAccounts, InvitesTraceToOperator,
         OneAccountPerIdentity, PostedByOperator

\* A callback that moves on without touching a row keeps the invariant, if it
\* moves on only with the locks that its new place stands for.
LEMMA CallbackMoves ==
    ASSUME IInv, TypeOK', NEW n \in LoginIds,
           UNCHANGED <<invites, accounts, logins, posting>>,
           \A m \in LoginIds \ {n} : callback'[m] = callback[m],
           callback[n].pc \in {"session", "done"} => callback'[n].pc \in {"session", "done"},
           callback'[n].pc \in {"lookup", "claim", "insert", "commit"} =>
              callback'[n].identity \in Identities /\ callback'[n].invite = logins[n].invite,
           callback'[n].pc \in {"claim", "insert", "commit"} => callback'[n].invite \in Invites,
           callback'[n].pc \in {"insert", "commit"} =>
              /\ invites[callback'[n].invite] # NoRow
              /\ invites[callback'[n].invite].claimed = 0
              /\ \A m \in LoginIds \ {n} : ~LocksInvite(m, callback'[n].invite),
           callback'[n].pc = "commit" =>
              /\ \A a \in accounts : a.identity # callback'[n].identity
              /\ \A m \in LoginIds \ {n} : ~HoldsIdentity(m, callback'[n].identity)
    PROVE  IInv'
<1>1. CarriesItsInvite'
  BY DEF IInv, CarriesItsInvite
<1>2. RowLocked'
  BY DEF IInv, RowLocked, LocksInvite
<1>3. IndexLocked'
  BY DEF IInv, IndexLocked, HoldsIdentity
<1>4. AccountsCommitted'
  <2>1. \A a \in accounts : a.id \in LoginIds
    BY DEF IInv, TypeOK, AccountRows
  <2> QED
    BY <2>1 DEF IInv, AccountsCommitted
<1> QED
  BY <1>1, <1>2, <1>3, <1>4
     DEF IInv, ClaimsMatchAccounts, InvitesTraceToOperator, OneAccountPerIdentity, PostedByOperator

\* A refused or rolled back login releases whatever its callback held.
LEMMA RedirectKeepsInv ==
    ASSUME IInv, TypeOK', NEW n \in LoginIds, RedirectLoginError(n),
           UNCHANGED <<invites, accounts, logins, posting>>
    PROVE  IInv'
<1>1. callback'[n].pc = "done" /\ \A m \in LoginIds \ {n} : callback'[m] = callback[m]
  BY DEF RedirectLoginError, Done, NoCallback, IInv, TypeOK
<1> QED
  BY <1>1, CallbackMoves

\* A new invite is in no callback's hands, and was written by an operator if by
\* an account at all.
LEMMA NewInviteKeepsInv ==
    ASSUME IInv, TypeOK', NEW role \in Roles, NEW issuer, NewInvite(role, issuer),
           issuer # 0 => \E a \in accounts : a.id = issuer /\ a.role = "operator",
           UNCHANGED <<accounts, logins, callback>>,
           PostedByOperator'
    PROVE  IInv'
<1>1. PICK i \in Invites :
         /\ invites[i] = NoRow
         /\ invites' = [invites EXCEPT ![i] = [role |-> role, expires |-> now + InviteTTL,
                                               by |-> issuer, claimed |-> 0]]
  BY DEF NewInvite
<1>2. /\ invites'[i] # NoRow /\ invites'[i].claimed = 0 /\ invites'[i].by = issuer
      /\ \A j \in Invites \ {i} : invites'[j] = invites[j]
      /\ invites[i].claimed = 0
  BY <1>1, ConstantsAssumption DEF IInv, TypeOK, NoRow
<1>3. CarriesItsInvite' /\ IndexLocked' /\ OneAccountPerIdentity' /\ AccountsCommitted'
  BY DEF IInv, CarriesItsInvite, IndexLocked, HoldsIdentity, OneAccountPerIdentity, AccountsCommitted
<1>4. RowLocked'
  BY <1>1, <1>2 DEF IInv, CarriesItsInvite, RowLocked, LocksInvite
<1>5. ClaimsMatchAccounts'
  <2>1. \A a \in accounts : a.id # 0 /\ a.invite \in Invites
    BY DEF IInv, TypeOK, AccountRows, AccountsCommitted, LoginIds
  <2> QED
    BY <1>2, <2>1 DEF IInv, ClaimsMatchAccounts
<1>6. InvitesTraceToOperator'
  BY <1>2 DEF IInv, InvitesTraceToOperator
<1> QED
  BY <1>3, <1>4, <1>5, <1>6 DEF IInv

\* The commit of a signup: the locks it held make the account the first of its
\* identity and of its invite.
LEMMA CommitKeepsInv ==
    ASSUME IInv, TypeOK', NEW n \in LoginIds, CommitAccount(n)
    PROVE  IInv'
<1> DEFINE i == callback[n].invite
           r == [id |-> n, identity |-> callback[n].identity, role |-> invites[i].role, invite |-> i]
<1>1. /\ callback[n].pc = "commit" /\ i \in Invites /\ i = logins[n].invite
      /\ invites[i] # NoRow /\ invites[i].claimed = 0
      /\ \A a \in accounts : a.identity # callback[n].identity
      /\ \A m \in LoginIds \ {n} : ~LocksInvite(m, i) /\ ~HoldsIdentity(m, callback[n].identity)
  BY DEF CommitAccount, IInv, CarriesItsInvite, RowLocked, IndexLocked
<1>2. /\ accounts' = accounts \cup {r}
      /\ UNCHANGED <<logins, posting>>
  BY DEF CommitAccount
<1>3. /\ callback'[n].pc = "session"
      /\ \A m \in LoginIds \ {n} : callback'[m] = callback[m]
  BY DEF CommitAccount, IInv, TypeOK, Callbacks
<1>4. /\ invites'[i].claimed = n /\ invites'[i].role = invites[i].role /\ invites'[i].by = invites[i].by
      /\ \A j \in Invites \ {i} : invites'[j] = invites[j]
  BY <1>1 DEF CommitAccount, IInv, TypeOK, InviteRows
<1>5. \A a \in accounts : /\ a.id \in LoginIds \ {n} /\ a.id # 0
                          /\ a.invite \in Invites \ {i}
                          /\ a.identity # r.identity
  BY <1>1 DEF IInv, TypeOK, AccountRows, AccountsCommitted, ClaimsMatchAccounts, LoginIds
<1>6. r.id = n /\ r.invite = i /\ r.role = invites[i].role /\ r.identity = callback[n].identity
  OBVIOUS
<1> HIDE DEF r
<1>7. CarriesItsInvite'
  BY <1>2, <1>3 DEF IInv, CarriesItsInvite
<1>8. RowLocked'
  BY <1>1, <1>3, <1>4 DEF IInv, CarriesItsInvite, RowLocked, LocksInvite
<1>9. IndexLocked'
  BY <1>1, <1>2, <1>3, <1>6 DEF IInv, IndexLocked, HoldsIdentity
<1>10. AccountsCommitted'
  BY <1>1, <1>2, <1>3, <1>5, <1>6 DEF IInv, AccountsCommitted
<1>11. ClaimsMatchAccounts'
  BY <1>1, <1>2, <1>4, <1>5, <1>6 DEF IInv, ClaimsMatchAccounts
<1>12. InvitesTraceToOperator' /\ PostedByOperator'
  BY <1>1, <1>2, <1>4 DEF IInv, InvitesTraceToOperator, PostedByOperator
<1>13. OneAccountPerIdentity'
  BY <1>2, <1>5 DEF IInv, OneAccountPerIdentity
<1> QED
  BY <1>7, <1>8, <1>9, <1>10, <1>11, <1>12, <1>13 DEF IInv

\* Every step keeps the invariant.
LEMMA InvStep == IInv /\ [Next]_vars => IInv'
<1> SUFFICES ASSUME IInv, [Next]_vars PROVE IInv'
    OBVIOUS
<1>0. TypeOK'
  BY TypeStep DEF IInv
<1>1. ASSUME NEW role \in Roles, CommandLineInvite(role) PROVE IInv'
  <2>1. PostedByOperator'
    BY <1>1 DEF CommandLineInvite, IInv, PostedByOperator
  <2> QED
    BY <1>0, <1>1, <2>1, NewInviteKeepsInv DEF CommandLineInvite
<1>2. ASSUME NEW b \in Browsers, RequireOperator(b) PROVE IInv'
  <2>1. PICK a \in Authorized(b) : posting' = [posting EXCEPT ![b] = a.id]
    BY <1>2 DEF RequireOperator
  <2>2. a \in accounts /\ a.role = "operator"
    BY DEF Authorized, Principals
  <2>3. PostedByOperator'
    BY <1>2, <2>1, <2>2 DEF RequireOperator, IInv, TypeOK, Nonces, PostedByOperator
  <2> QED
    BY <1>0, <1>2, <2>3
       DEF RequireOperator, IInv, CarriesItsInvite, RowLocked, IndexLocked, LocksInvite, HoldsIdentity,
           AccountsCommitted, ClaimsMatchAccounts, InvitesTraceToOperator, OneAccountPerIdentity
<1>3. ASSUME NEW b \in Browsers, HandleSignupInvite(b) PROVE IInv'
  <2>1. \E a \in accounts : a.id = posting[b] /\ a.role = "operator"
    BY <1>3 DEF HandleSignupInvite, IInv, PostedByOperator
  <2>2. PostedByOperator'
    BY <1>3 DEF HandleSignupInvite, IInv, TypeOK, Nonces, PostedByOperator
  <2>3. ASSUME NEW role \in Roles, NewInvite(role, posting[b]) PROVE IInv'
    BY <1>0, <1>3, <2>1, <2>2, <2>3, NewInviteKeepsInv DEF HandleSignupInvite
  <2>4. ASSUME UNCHANGED invites PROVE IInv'
    BY <1>0, <1>3, <2>2, <2>4
       DEF HandleSignupInvite, IInv, CarriesItsInvite, RowLocked, IndexLocked, LocksInvite, HoldsIdentity,
           AccountsCommitted, ClaimsMatchAccounts, InvitesTraceToOperator, OneAccountPerIdentity
  <2> QED
    BY <1>3, <2>3, <2>4 DEF HandleSignupInvite
<1>4. ASSUME NEW b \in Browsers, NEW p \in Providers, NEW i \in Invites \cup {0},
             StartLogin(b, p, i)
      PROVE  IInv'
  <2>1. PICK n \in LoginIds :
          /\ callback[n].pc = "none"
          /\ logins' = [logins EXCEPT ![n] = [browser |-> b, provider |-> p, invite |-> i]]
          /\ callback' = [callback EXCEPT ![n].pc = "tab"]
    BY <1>4 DEF StartLogin
  <2>2. callback'[n].pc = "tab" /\ \A m \in LoginIds \ {n} : callback'[m] = callback[m] /\ logins'[m] = logins[m]
    BY <2>1 DEF IInv, TypeOK, Callbacks
  <2>3. UNCHANGED <<invites, accounts, posting>>
    BY <1>4 DEF StartLogin
  <2>4. \A a \in accounts : a.id \in LoginIds \ {n}
    BY <2>1 DEF IInv, TypeOK, AccountRows, AccountsCommitted
  <2>5. CarriesItsInvite'
    BY <2>2 DEF IInv, CarriesItsInvite
  <2>6. RowLocked' /\ IndexLocked'
    BY <2>2, <2>3 DEF IInv, RowLocked, IndexLocked, LocksInvite, HoldsIdentity
  <2>7. AccountsCommitted'
    BY <2>2, <2>3, <2>4 DEF IInv, AccountsCommitted
  <2> QED
    BY <1>0, <2>3, <2>5, <2>6, <2>7
       DEF IInv, ClaimsMatchAccounts, InvitesTraceToOperator, OneAccountPerIdentity, PostedByOperator
<1>5. ASSUME UNCHANGED <<invites, accounts, logins, callback, posting>> PROVE IInv'
  BY <1>0, <1>5
     DEF IInv, CarriesItsInvite, RowLocked, IndexLocked, LocksInvite, HoldsIdentity,
         AccountsCommitted, ClaimsMatchAccounts, InvitesTraceToOperator, OneAccountPerIdentity, PostedByOperator
<1>6. ASSUME NEW n \in LoginIds, NEW p \in Providers, BeginCallback(n, p) PROVE IInv'
  <2>1. PICK s \in Subjects :
          callback' = [callback EXCEPT ![n] = [pc |-> "lookup", identity |-> <<p, s>>,
                                               invite |-> logins[n].invite, at |-> now, account |-> 0]]
    BY <1>6 DEF BeginCallback, StateMatches
  <2>2. /\ callback'[n].pc = "lookup" /\ callback'[n].identity = <<p, s>>
        /\ callback'[n].invite = logins[n].invite
        /\ \A m \in LoginIds \ {n} : callback'[m] = callback[m]
    BY <2>1 DEF IInv, TypeOK
  <2>3. <<p, s>> \in Identities
    BY DEF Identities
  <2>4. callback[n].pc = "tab" /\ UNCHANGED <<invites, accounts, logins, posting>>
    BY <1>6 DEF BeginCallback
  <2> QED
    BY <1>0, <2>2, <2>3, <2>4, CallbackMoves
<1>7. ASSUME NEW n \in LoginIds, RefuseCallback(n) \/ Rollback(n) PROVE IInv'
  BY <1>0, <1>7, RedirectKeepsInv DEF RefuseCallback, Rollback
<1>8. ASSUME NEW n \in LoginIds, LookupIdentity(n) PROVE IInv'
  <2>1. CASE RedirectLoginError(n)
    BY <1>0, <1>8, <2>1, RedirectKeepsInv DEF LookupIdentity
  <2>2. ASSUME NEW a \in accounts,
               callback' = [callback EXCEPT ![n].pc = "session", ![n].account = a.id]
        PROVE  IInv'
    <3>1. callback'[n].pc = "session" /\ \A m \in LoginIds \ {n} : callback'[m] = callback[m]
      BY <2>2 DEF IInv, TypeOK, Callbacks
    <3> QED
      BY <1>0, <1>8, <3>1, CallbackMoves DEF LookupIdentity
  <2>3. CASE callback[n].invite # 0 /\ callback' = [callback EXCEPT ![n].pc = "claim"]
    <3>1. /\ callback'[n].pc = "claim" /\ callback'[n].invite = callback[n].invite
          /\ callback'[n].identity = callback[n].identity
          /\ \A m \in LoginIds \ {n} : callback'[m] = callback[m]
      BY <2>3 DEF IInv, TypeOK, Callbacks
    <3>2. callback[n].invite \in Invites
      BY <2>3 DEF IInv, TypeOK, Callbacks
    <3>3. callback[n].identity \in Identities /\ callback[n].invite = logins[n].invite
      BY <1>8 DEF LookupIdentity, IInv, CarriesItsInvite
    <3> QED
      BY <1>0, <1>8, <3>1, <3>2, <3>3, CallbackMoves DEF LookupIdentity
  <2> QED
    BY <1>8, <2>1, <2>2, <2>3 DEF LookupIdentity, AccountsOf
<1>9. ASSUME NEW n \in LoginIds, ClaimInvite(n) PROVE IInv'
  <2>1. CASE RedirectLoginError(n)
    BY <1>0, <1>9, <2>1, RedirectKeepsInv DEF ClaimInvite
  <2>2. CASE Usable(callback[n].invite, callback[n].at) /\ callback' = [callback EXCEPT ![n].pc = "insert"]
    <3>1. /\ callback'[n].pc = "insert" /\ callback'[n].invite = callback[n].invite
          /\ callback'[n].identity = callback[n].identity
          /\ \A m \in LoginIds \ {n} : callback'[m] = callback[m]
      BY <2>2 DEF IInv, TypeOK, Callbacks
    <3>2. /\ callback[n].identity \in Identities /\ callback[n].invite = logins[n].invite
          /\ callback[n].invite \in Invites
      BY <1>9 DEF ClaimInvite, IInv, CarriesItsInvite
    <3> QED
      BY <1>0, <1>9, <2>2, <3>1, <3>2, CallbackMoves DEF ClaimInvite, Usable
  <2> QED
    BY <1>9, <2>1, <2>2 DEF ClaimInvite
<1>10. ASSUME NEW n \in LoginIds, InsertAccount(n) PROVE IInv'
  <2>1. CASE RedirectLoginError(n)
    BY <1>0, <1>10, <2>1, RedirectKeepsInv DEF InsertAccount
  <2>2. CASE AccountsOf(callback[n].identity) = {} /\ callback' = [callback EXCEPT ![n].pc = "commit"]
    <3>1. /\ callback'[n].pc = "commit" /\ callback'[n].invite = callback[n].invite
          /\ callback'[n].identity = callback[n].identity
          /\ \A m \in LoginIds \ {n} : callback'[m] = callback[m]
      BY <2>2 DEF IInv, TypeOK, Callbacks
    <3>2. /\ callback[n].identity \in Identities /\ callback[n].invite = logins[n].invite
          /\ callback[n].invite \in Invites
          /\ invites[callback[n].invite] # NoRow
          /\ invites[callback[n].invite].claimed = 0
          /\ \A m \in LoginIds \ {n} : ~LocksInvite(m, callback[n].invite)
      BY <1>10 DEF InsertAccount, IInv, CarriesItsInvite, RowLocked
    <3>3. /\ \A a \in accounts : a.identity # callback[n].identity
          /\ \A m \in LoginIds \ {n} : ~HoldsIdentity(m, callback[n].identity)
      BY <1>10, <2>2 DEF InsertAccount, AccountsOf
    <3> QED
      BY <1>0, <1>10, <3>1, <3>2, <3>3, CallbackMoves DEF InsertAccount
  <2> QED
    BY <1>10, <2>1, <2>2 DEF InsertAccount
<1>11. ASSUME NEW n \in LoginIds, CommitAccount(n) PROVE IInv'
  BY <1>0, <1>11, CommitKeepsInv
<1>12. ASSUME NEW n \in LoginIds, IssueSession(n) PROVE IInv'
  <2>1. callback'[n].pc = "done" /\ \A m \in LoginIds \ {n} : callback'[m] = callback[m]
    BY <1>12 DEF IssueSession, Done, NoCallback, IInv, TypeOK
  <2> QED
    BY <1>0, <1>12, <2>1, CallbackMoves DEF IssueSession
<1> QED
  BY <1>1, <1>2, <1>3, <1>4, <1>5, <1>6, <1>7, <1>8, <1>9, <1>10, <1>11, <1>12
     DEF Next, CallbackStep, PendingExpires, Logout, Tick, vars

\* The invariant holds in every reachable state.
LEMMA Invariant == Spec => []IInv
BY InvInit, InvStep, PTL DEF Spec

-----------------------------------------------------------------------------
(* Theorems *)

\* Every variable keeps its declared type, under any interleaving of callbacks.
THEOREM TypeCorrect == Spec => []TypeOK
BY Invariant, PTL DEF IInv

\* One invite makes at most one account, however many callbacks carry it: the
\* claim on the row names the account.
THEOREM OneAccountPerInvite == Spec => []InviteMakesOneAccount
<1>1. IInv => InviteMakesOneAccount
  BY DEF IInv, ClaimsMatchAccounts, AccountsCommitted, InviteMakesOneAccount
<1> QED
  BY <1>1, Invariant, PTL

\* One provider identity has at most one account, whatever first logins race.
THEOREM IdentitiesAreUnique == Spec => []OneAccountPerIdentity
BY Invariant, PTL DEF IInv

\* A signup uses the invite of the login its own tab started.
THEOREM SignupsKeepTheirInvite == Spec => []SignupUsesItsOwnInvite
<1>1. IInv => SignupUsesItsOwnInvite
  BY DEF IInv, AccountsCommitted, SignupUsesItsOwnInvite
<1> QED
  BY <1>1, Invariant, PTL

\* Claims and accounts name each other: a failure between the statements of a
\* signup neither burns an invite nor leaves it usable again.
THEOREM ClaimsAreExact == Spec => []ClaimsMatchAccounts
BY Invariant, PTL DEF IInv

\* Every invite was written at the command line or by an operator's account.
THEOREM InvitesAreAuthorized == Spec => []InvitesTraceToOperator
BY Invariant, PTL DEF IInv
=============================================================================
