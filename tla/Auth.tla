-------------------------------- MODULE Auth --------------------------------
(***************************************************************************)
(* Authentication of the operator service: signup invites, OAuth logins,   *)
(* accounts and sessions (internal/platform/service/auth.go and            *)
(* auth_postgres.go, with the providers of auth_github.go and auth_oidc.go)*)
(*                                                                         *)
(* Browsers open logins, each in a tab of its own, and keep one pending    *)
(* cookie and one session cookie.  The callback of a login takes one step  *)
(* per statement of its database transaction, so that two of them may meet *)
(* on an invite row or on the unique index of account_identities.  What a  *)
(* transaction has not committed is held by its callback: the row locks    *)
(* and index entries are read off its pc.                                  *)
(***************************************************************************)
EXTENDS Naturals

CONSTANTS Browsers, Providers, Subjects, Roles,
          InviteTTL, SessionTTL,
          MaxLogins, MaxInvites, MaxTime   \* bounds of the model

ASSUME ConstantsAssumption ==
    /\ "operator" \in Roles /\ "none" \notin Roles
    /\ MaxLogins \in Nat /\ MaxInvites \in Nat /\ MaxTime \in Nat
    /\ InviteTTL \in Nat \ {0} /\ SessionTTL \in Nat \ {0}

VARIABLES
    now,        \* the clock of the service
    invites,    \* rows of signup_invites
    accounts,   \* committed accounts, each with its identity and its role
    sessions,   \* rows of account_sessions
    logins,     \* every login; its number is its state nonce
    callback,   \* the request that completes each login
    pending,    \* the pending-auth cookie of each browser: a login, or 0
    token,      \* the session cookie of each browser: a session token, or 0
    posting     \* the account for which each browser is creating an invite, or 0

vars == <<now, invites, accounts, sessions, logins, callback, pending, token, posting>>

-----------------------------------------------------------------------------

LoginIds == 1 .. MaxLogins
Invites == 1 .. MaxInvites      \* in the order of their creation; 0 is no invite
Identities == Providers \X Subjects
NoIdentity == <<>>

NoRow == [role |-> "none", expires |-> 0, by |-> 0, claimed |-> 0]
NoLogin == [browser |-> "none", provider |-> "none", invite |-> 0]
NoCallback == [pc |-> "none", identity |-> NoIdentity, invite |-> 0, at |-> 0, account |-> 0]
Done == [NoCallback EXCEPT !.pc = "done"]

\* The transaction of a callback that holds the lock of an invite row, and the
\* one that holds an uncommitted entry of the unique index on identities.
LocksInvite(n, i) == callback[n].pc \in {"insert", "commit"} /\ callback[n].invite = i
HoldsIdentity(n, id) == callback[n].pc = "commit" /\ callback[n].identity = id

AccountsOf(id) == {a \in accounts : a.identity = id}

\* sessionPrincipal: the account behind a browser's cookie, while it is alive.
Principals(b) == {a \in accounts : \E s \in sessions :
                    /\ s.token = token[b] /\ s.expires > now /\ s.account = a.id}

\* redirectLoginError: the response drops the browser's pending cookie,
\* whichever login that cookie has come to belong to.
RedirectLoginError(n) ==
    /\ pending' = [pending EXCEPT ![logins[n].browser] = 0]
    /\ callback' = [callback EXCEPT ![n] = Done]

-----------------------------------------------------------------------------

InviteRows == [role : Roles \cup {"none"}, expires : Nat,
               by : LoginIds \cup {0}, claimed : LoginIds \cup {0}]
AccountRows == [id : LoginIds, identity : Identities, role : Roles \cup {"none"},
                invite : Invites \cup {0}]
SessionRows == [token : LoginIds, account : LoginIds \cup {0}, expires : Nat]
Logins == [browser : Browsers, provider : Providers, invite : Invites \cup {0}] \cup {NoLogin}
PCs == {"none", "tab", "lookup", "claim", "insert", "commit", "session", "done"}
Callbacks == [pc : PCs, identity : Identities \cup {NoIdentity}, invite : Invites \cup {0},
              at : Nat, account : LoginIds \cup {0}]
Nonces == [Browsers -> LoginIds \cup {0}]

TypeOK ==
    /\ now \in 0 .. MaxTime
    /\ invites \in [Invites -> InviteRows]
    /\ accounts \subseteq AccountRows
    /\ sessions \subseteq SessionRows
    /\ logins \in [LoginIds -> Logins]
    /\ callback \in [LoginIds -> Callbacks]
    /\ pending \in Nonces /\ token \in Nonces /\ posting \in Nonces

Init ==
    /\ now = 0
    /\ invites = [i \in Invites |-> NoRow]
    /\ accounts = {} /\ sessions = {}
    /\ logins = [n \in LoginIds |-> NoLogin]
    /\ callback = [n \in LoginIds |-> NoCallback]
    /\ pending = [b \in Browsers |-> 0]
    /\ token = [b \in Browsers |-> 0]
    /\ posting = [b \in Browsers |-> 0]

-----------------------------------------------------------------------------
(* Invites *)

NewInvite(role, issuer) ==
    \E i \in Invites :
       /\ invites[i] = NoRow /\ \A j \in Invites : j < i => invites[j] # NoRow
       /\ invites' = [invites EXCEPT ![i] = [role |-> role, expires |-> now + InviteTTL,
                                             by |-> issuer, claimed |-> 0]]

\* The signup-invite command: whoever runs it on the machine needs no session.
CommandLineInvite(role) ==
    /\ NewInvite(role, 0)
    /\ UNCHANGED <<now, accounts, sessions, logins, callback, pending, token, posting>>

\* RequireOperator lets a POST /api/v1/signup-invites through ...
Authorized(b) == {a \in Principals(b) : a.role = "operator"}

RequireOperator(b) ==
    /\ posting[b] = 0
    /\ \E a \in Authorized(b) : posting' = [posting EXCEPT ![b] = a.id]
    /\ UNCHANGED <<now, invites, accounts, sessions, logins, callback, pending, token>>

\* ... and the handler it wraps then stores the invite, or fails to.
HandleSignupInvite(b) ==
    /\ posting[b] # 0
    /\ \/ \E role \in Roles : NewInvite(role, posting[b])
       \/ UNCHANGED invites
    /\ posting' = [posting EXCEPT ![b] = 0]
    /\ UNCHANGED <<now, accounts, sessions, logins, callback, pending, token>>

-----------------------------------------------------------------------------
(* Logins *)

\* startLogin: one cookie per browser, so a second login replaces the first.
StartLogin(b, p, i) ==
    \E n \in LoginIds :
       /\ callback[n].pc = "none" /\ \A m \in LoginIds : m < n => callback[m].pc # "none"
       /\ logins' = [logins EXCEPT ![n] = [browser |-> b, provider |-> p, invite |-> i]]
       /\ callback' = [callback EXCEPT ![n].pc = "tab"]
       /\ pending' = [pending EXCEPT ![b] = n]
       /\ UNCHANGED <<now, invites, accounts, sessions, token, posting>>

\* The browser drops the pending cookie ten minutes after it was set.
PendingExpires(b) ==
    /\ pending[b] # 0
    /\ pending' = [pending EXCEPT ![b] = 0]
    /\ UNCHANGED <<now, invites, accounts, sessions, logins, callback, token, posting>>

BugStateMatches(b, n) == pending[b] # 0

\* completeCallback's test of the state parameter against the signed cookie.
StateMatches(b, n) == pending[b] # 0 /\ pending[b] = n

\* completeCallback up to ExchangeIdentity: the tab of login n comes back to the
\* callback route of provider p, with a code that can be exchanged once.  What the
\* callback goes on with is the login of the cookie.
BeginCallback(n, p) ==
    LET b == logins[n].browser  c == pending[b] IN
    /\ callback[n].pc = "tab"
    /\ StateMatches(b, n) /\ logins[c].provider = p
    /\ \E s \in Subjects :
         callback' = [callback EXCEPT ![n] = [pc |-> "lookup", identity |-> <<p, s>>,
                                              invite |-> logins[c].invite, at |-> now, account |-> 0]]
    /\ UNCHANGED <<now, invites, accounts, sessions, logins, pending, token, posting>>

\* A state mismatch, a missing code, another provider's route or a failed
\* exchange drops the cookie; without a cookie the answer is a plain 400.
RefuseCallback(n) ==
    /\ callback[n].pc = "tab"
    /\ RedirectLoginError(n)
    /\ UNCHANGED <<now, invites, accounts, sessions, logins, token, posting>>

\* ResolveIdentityLogin, first statement: is the identity known?
LookupIdentity(n) ==
    LET c == callback[n] IN
    /\ c.pc = "lookup"
    /\ \/ \E a \in AccountsOf(c.identity) :
            /\ callback' = [callback EXCEPT ![n].pc = "session", ![n].account = a.id]
            /\ UNCHANGED pending
       \/ /\ AccountsOf(c.identity) = {} /\ c.invite = 0
          /\ RedirectLoginError(n)
       \/ /\ AccountsOf(c.identity) = {} /\ c.invite # 0
          /\ callback' = [callback EXCEPT ![n].pc = "claim"]
          /\ UNCHANGED pending
    /\ UNCHANGED <<now, invites, accounts, sessions, logins, token, posting>>

BugUsable(i, at) == invites[i] # NoRow /\ invites[i].expires > at

\* createPrincipalFromInvite: an invite that exists, unclaimed and unexpired at
\* the time the callback read its clock, which was before the transaction began.
Usable(i, at) == invites[i] # NoRow /\ invites[i].claimed = 0 /\ invites[i].expires > at

\* A claim that found no usable invite and kept trying instead of failing.
BugClaimInvite(n) ==
    LET c == callback[n] IN
    /\ c.pc = "claim"
    /\ \A m \in LoginIds \ {n} : ~LocksInvite(m, c.invite)
    /\ Usable(c.invite, c.at)
    /\ callback' = [callback EXCEPT ![n].pc = "insert"]
    /\ UNCHANGED <<now, invites, accounts, sessions, logins, pending, token, posting>>

\* SELECT ... FOR UPDATE waits for whoever holds the row, then reads it afresh.
ClaimInvite(n) ==
    LET c == callback[n] IN
    /\ c.pc = "claim"
    /\ \A m \in LoginIds \ {n} : ~LocksInvite(m, c.invite)
    /\ \/ /\ Usable(c.invite, c.at)
          /\ callback' = [callback EXCEPT ![n].pc = "insert"]
          /\ UNCHANGED pending
       \/ ~Usable(c.invite, c.at) /\ RedirectLoginError(n)
    /\ UNCHANGED <<now, invites, accounts, sessions, logins, token, posting>>

BugInsertAccount(n) ==
    /\ callback[n].pc = "insert"
    /\ callback' = [callback EXCEPT ![n].pc = "commit"]
    /\ UNCHANGED <<now, invites, accounts, sessions, logins, pending, token, posting>>

\* The insert into account_identities waits for an uncommitted entry of the same
\* (provider, subject) and fails on a committed one.
InsertAccount(n) ==
    LET c == callback[n] IN
    /\ c.pc = "insert"
    /\ \A m \in LoginIds \ {n} : ~HoldsIdentity(m, c.identity)
    /\ \/ /\ AccountsOf(c.identity) = {}
          /\ callback' = [callback EXCEPT ![n].pc = "commit"]
          /\ UNCHANGED pending
       \/ AccountsOf(c.identity) # {} /\ RedirectLoginError(n)
    /\ UNCHANGED <<now, invites, accounts, sessions, logins, token, posting>>

\* The invite is claimed in the transaction that makes the account, so both
\* become visible together.
CommitAccount(n) ==
    LET c == callback[n] IN
    /\ c.pc = "commit"
    /\ invites' = [invites EXCEPT ![c.invite].claimed = n]
    /\ accounts' = accounts \cup {[id |-> n, identity |-> c.identity,
                                   role |-> invites[c.invite].role, invite |-> c.invite]}
    /\ callback' = [callback EXCEPT ![n].pc = "session", ![n].account = n]
    /\ UNCHANGED <<now, sessions, logins, pending, token, posting>>

\* A statement or the commit fails, or the browser hangs up: the transaction is
\* rolled back, its locks are released and the login is reported as failed.
Rollback(n) ==
    /\ callback[n].pc \in {"lookup", "claim", "insert", "commit"}
    /\ RedirectLoginError(n)
    /\ UNCHANGED <<now, invites, accounts, sessions, logins, token, posting>>

\* CreateSession, a statement of its own after the commit.  On success the
\* response replaces both cookies; on failure it is a 500 that leaves them.
IssueSession(n) ==
    LET b == logins[n].browser IN
    /\ callback[n].pc = "session"
    /\ \/ /\ sessions' = sessions \cup {[token |-> n, account |-> callback[n].account,
                                         expires |-> now + SessionTTL]}
          /\ token' = [token EXCEPT ![b] = n]
          /\ pending' = [pending EXCEPT ![b] = 0]
       \/ UNCHANGED <<sessions, token, pending>>
    /\ callback' = [callback EXCEPT ![n] = Done]
    /\ UNCHANGED <<now, invites, accounts, logins, posting>>

\* Logout clears the cookie whether or not the row could be deleted.
Logout(b) ==
    /\ token[b] # 0
    /\ \/ sessions' = {s \in sessions : s.token # token[b]}
       \/ UNCHANGED sessions
    /\ token' = [token EXCEPT ![b] = 0]
    /\ UNCHANGED <<now, invites, accounts, logins, callback, pending, posting>>

Tick ==
    /\ now < MaxTime
    /\ now' = now + 1
    /\ UNCHANGED <<invites, accounts, sessions, logins, callback, pending, token, posting>>

-----------------------------------------------------------------------------

CallbackStep(n) ==
    \/ LookupIdentity(n) \/ ClaimInvite(n) \/ InsertAccount(n)
    \/ CommitAccount(n) \/ IssueSession(n)

Next ==
    \/ \E role \in Roles : CommandLineInvite(role)
    \/ \E b \in Browsers : RequireOperator(b) \/ HandleSignupInvite(b)
    \/ \E b \in Browsers, p \in Providers, i \in Invites \cup {0} : StartLogin(b, p, i)
    \/ \E b \in Browsers : PendingExpires(b) \/ Logout(b)
    \/ \E n \in LoginIds, p \in Providers : BeginCallback(n, p)
    \/ \E n \in LoginIds : RefuseCallback(n) \/ CallbackStep(n) \/ Rollback(n)
    \/ Tick

Spec == Init /\ [][Next]_vars

\* A callback that can take its next step takes it: its goroutine is scheduled and
\* its statement returns.  A statement need not ever fail, so Rollback is not fair.
FairSpec == Spec /\ \A n \in LoginIds : WF_vars(CallbackStep(n))

-----------------------------------------------------------------------------
(* Properties *)

\* One invite makes at most one account, however many callbacks carry it at
\* once: ResolveIdentityLogin serialises them on the invite row.
InviteMakesOneAccount == \A a, c \in accounts : a.invite = c.invite => a = c

\* First logins of the same provider identity racing each other with different
\* invites end in one account, through the unique index only.
OneAccountPerIdentity == \A a, c \in accounts : a.identity = c.identity => a = c

\* An invite is claimed exactly when the account it names was made from it with
\* its role: no failure between the statements burns an invite, and none leaves
\* an account whose invite could be used again.
ClaimsMatchAccounts ==
    /\ \A i \in Invites : invites[i].claimed # 0 =>
          \E a \in accounts : a.id = invites[i].claimed /\ a.invite = i
    /\ \A a \in accounts : invites[a.invite].claimed = a.id /\ invites[a.invite].role = a.role

\* Every invite was written at the command line or by an account that holds the
\* operator role, although RequireOperator decides before the handler writes.
InvitesTraceToOperator ==
    \A i \in Invites : invites[i].by # 0 =>
        \E a \in accounts : a.id = invites[i].by /\ a.role = "operator"

\* A signup uses the invite of the login that its own tab started, however the
\* browser's other tabs overwrote the pending cookie in the meantime.
SignupUsesItsOwnInvite == \A a \in accounts : logins[a.id].invite = a.invite

\* A callback always ends: transactions that wait for each other's invite row
\* and identity entry take them in that order and release them on every path.
CallbackEnds == \A n \in LoginIds : callback[n].pc = "lookup" ~> callback[n].pc = "done"

=============================================================================
