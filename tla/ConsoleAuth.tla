----------------------------- MODULE ConsoleAuth -----------------------------
\* Console authentication: users, their passwords, sessions with rotating
\* refresh tokens, signed access tokens, invitations and registration
\* codes (src/application/auth.rs, src/persistence/auth.rs and its SQLite
\* twin), with the user updates of the control plane that end sessions.
\*
\* Every repository call is one transaction: the PostgreSQL ones lock the
\* rows they decide on or are serializable, the SQLite ones hold the write
\* lock.  What the service does around them is not: it reads a user,
\* verifies a password for a long time and then writes, and it inserts a
\* session after the transaction that allowed it.  A client is a Console
\* request between those steps.
\*
\* Passwords, hashes and token strings are abstract: a presented password
\* is right or wrong for the row that was read, the n-th refresh token of
\* a session is the number n.  An access token's own expiry, which only
\* shortens its life, is left out.
EXTENDS Naturals, FiniteSets

CONSTANTS
  Users, Root,    \* accounts; Root is the administrator from bootstrap
  Clients,        \* concurrent Console requests
  Sessions,       \* session ids, used in any order
  Invites,        \* invitation ids
  None,
  RefreshTtl, TempTtl, InviteTtl,   \* seconds
  FailureLimit, FailureWindow,      \* AUTH_FAILURE_LIMIT, AUTH_FAILURE_WINDOW
  MaxUses,        \* max_uses an administrator may give a registration code
  Budget          \* operation -> how often it may happen in an instance

Ops == {"login", "rotate", "revoke", "password", "temporary", "admin",
        "delete", "invite", "code", "tick"}

Statuses == {"absent", "invited", "active", "suspended", "disabled"}
Purposes == {"normal", "password_change"}
UserRow == [status: Statuses, role: {"user", "admin"}, email: BOOLEAN,
            password: BOOLEAN, version: Nat, temporary: Nat \cup {None},
            deleted: BOOLEAN]
SessionRow == [user: Users, token: Nat \ {0}, until: Nat, revoked: BOOLEAN,
               purpose: Purposes]
InviteRow == [user: Users, until: Nat, accepted: BOOLEAN, revoked: BOOLEAN]
CodeRow == [max: MaxUses \cup {None}, used: Nat, enabled: BOOLEAN]
FailureRow == [start: Nat, failures: Nat]

AuthAssumption ==
  /\ Root \in Users /\ None \notin Users \cup Sessions \cup Invites
  /\ Budget \in [Ops -> Nat]
  /\ RefreshTtl \in Nat \ {0} /\ TempTtl \in Nat \ {0}
  /\ InviteTtl \in Nat \ {0} /\ FailureLimit \in Nat \ {0}
  /\ FailureWindow \in Nat \ {0} /\ MaxUses \subseteq Nat \ {0}
  /\ IsFiniteSet(Clients) /\ None \notin Nat
  /\ None \notin SessionRow \cup InviteRow \cup CodeRow \cup FailureRow

VARIABLES
  now,
  user,       \* rows of users
  session,    \* rows of user_sessions, or None
  invite,     \* rows of user_invitations, or None
  code,       \* the registration code: [max, used, enabled]
  windows,    \* failure windows of the limiter: [start, failures] or None
  client,     \* what each Console request has read or been granted
  tokens,     \* access tokens that were handed out
  epoch,      \* history: changes of a user's credentials or authority
  born,       \* history: the epoch in which a session row was inserted
  spent,      \* history: refresh tokens that were exchanged
  left        \* what remains of the budget

rows == <<user, session, invite, code>>
history == <<epoch, born, spent>>
vars == <<now, user, session, invite, code, windows, client, tokens, epoch,
          born, spent, left>>

Idle == [step |-> "idle"]
Grant(u) == [step |-> "grant", user |-> u, role |-> user[u].role,
             version |-> user[u].version,
             purpose |-> IF user[u].temporary = None THEN "normal"
                         ELSE "password_change",
             until |-> user[u].temporary, epoch |-> epoch[u]]
Verified(k, u, s) ==
  [step |-> k, user |-> u, session |-> s, version |-> user[u].version]

TypeOK ==
  /\ now \in Nat /\ user \in [Users -> UserRow]
  /\ session \in [Sessions -> SessionRow \cup {None}]
  /\ invite \in [Invites -> InviteRow \cup {None}]
  /\ code \in CodeRow \cup {None}
  /\ windows \in [Users -> FailureRow \cup {None}]
  /\ \A c \in Clients : client[c].step \in
       {"idle", "grant", "login", "change", "issue", "complete", "delete"}
  /\ \A t \in tokens : t.session \in Sessions /\ t.purpose \in Purposes
  /\ epoch \in [Users -> Nat] /\ born \in [Sessions -> Nat]
  /\ spent \subseteq Sessions \X Nat
  /\ left \in [Ops -> Nat]

\* bootstrap_admin has run once; the other accounts do not exist yet.
Row(st, r, pw) ==
  [status |-> st, role |-> r, email |-> st # "absent", password |-> pw,
   version |-> 1, temporary |-> None, deleted |-> FALSE]
Init ==
  /\ now = 0
  /\ user = [u \in Users |-> IF u = Root THEN Row("active", "admin", TRUE)
                             ELSE Row("absent", "user", FALSE)]
  /\ session = [s \in Sessions |-> None]
  /\ invite = [i \in Invites |-> None]
  /\ code = None
  /\ windows = [u \in Users |-> None]
  /\ client = [c \in Clients |-> Idle]
  /\ tokens = {}
  /\ epoch = [u \in Users |-> 0] /\ born = [s \in Sessions |-> 0]
  /\ spent = {}
  /\ left = Budget

--------------------
Pay(op) == left[op] > 0 /\ left' = [left EXCEPT ![op] = @ - 1]
Become(c, r) == client' = [client EXCEPT ![c] = r]
Changed(u) == epoch' = [epoch EXCEPT ![u] = @ + 1]

\* A row with a password of its own, one whose access tokens have ended, and a
\* session or invitation that was revoked.
WithPassword(row) == [row EXCEPT !.password = TRUE, !.temporary = None]
Bumped(row) == [row EXCEPT !.version = @ + 1]
Revoked(row) == [row EXCEPT !.revoked = TRUE]

\* The temporary password, if there is one, has not expired.
TemporaryValid(u) == user[u].temporary # None /\ user[u].temporary > now

\* What a session's purpose demands of its user.
PurposeHolds(u, p) ==
  IF p = "normal" THEN user[u].temporary = None ELSE TemporaryValid(u)

\* A session row that authenticates: validate_console_identity.
Live(s) ==
  /\ session[s] # None /\ ~session[s].revoked /\ session[s].until > now
  /\ user[session[s].user].status = "active"
  /\ PurposeHolds(session[s].user, session[s].purpose)

\* authenticate_access_token: the row and the signed claims agree.
Authenticates(t) ==
  /\ Live(t.session) /\ session[t.session].user = t.user
  /\ user[t.user].version = t.version /\ user[t.user].role = t.role
  /\ session[t.session].purpose = t.purpose

\* The requests that a client's tokens authenticate.
Principals(u) == {t \in tokens : t.user = u /\ Authenticates(t)}
IsAdmin(u) == user[u].status = "active" /\ user[u].role = "admin"
              /\ ~user[u].deleted

\* UPDATE user_sessions SET revoked_at=now() of a user.
RevokeAll(u) ==
  session' = [s \in Sessions |->
    IF session[s] # None /\ session[s].user = u
    THEN Revoked(session[s]) ELSE session[s]]

\* AuthFailureLimiter: prune, allows, record_failure, clear.
Window(u) ==
  IF windows[u] # None /\ now - windows[u].start < FailureWindow
  THEN windows[u] ELSE None

Allows(u) == Window(u) # None => Window(u).failures < FailureLimit

RecordFailure(u) ==
  windows' = [windows EXCEPT ![u] =
    IF Window(u) = None THEN [start |-> now, failures |-> 1]
    ELSE [Window(u) EXCEPT !.failures = @ + 1]]
ClearFailures(u) == windows' = [windows EXCEPT ![u] = None]

\* active_login_user
CanLogin(u) ==
  /\ user[u].status = "active" /\ user[u].password
  /\ user[u].temporary # None => TemporaryValid(u)

\* login: the limiter, the read, and the verification that starts with it.
Login(c, u) ==
  /\ client[c] = Idle /\ Pay("login") /\ Allows(u)
  /\ Become(c, [Grant(u) EXCEPT !.step = "login"])
  /\ UNCHANGED <<now, rows, windows, tokens, history>>

\* The verification ends: the password was right for the row that was read.
LoginVerified(c, right) ==
  /\ client[c].step = "login"
  /\ IF right
       THEN /\ ClearFailures(client[c].user)
            /\ Become(c, [client[c] EXCEPT !.step = "grant"])
       ELSE RecordFailure(client[c].user) /\ Become(c, Idle)
  /\ UNCHANGED <<now, rows, tokens, history, left>>

AccessToken(s, g) ==
  [user |-> g.user, session |-> s, role |-> g.role, version |-> g.version,
   purpose |-> g.purpose, epoch |-> g.epoch]

\* refresh_expiry_for: a session for a temporary password ends with it.
RefreshExpiry(p, temporary) ==
  IF p = "normal" \/ temporary > now + RefreshTtl THEN now + RefreshTtl
  ELSE temporary

\* issue_session: insert the row, hand out its first token pair.  
IssueSession(c, s) ==
  /\ client[c].step = "grant" /\ session[s] = None
  /\ LET g == client[c]
     IN /\ session' = [session EXCEPT ![s] =
             [user |-> g.user, token |-> 1, revoked |-> FALSE,
              purpose |-> g.purpose,
              until |-> RefreshExpiry(g.purpose, g.until)]]
        /\ tokens' = tokens \cup {AccessToken(s, g)}
        /\ born' = [born EXCEPT ![s] = epoch[g.user]]
  /\ Become(c, Idle)
  /\ UNCHANGED <<now, user, invite, code, windows, epoch, spent, left>>

\* Mutant of Matches: the previous token is still good.
MatchesPrevious(s, n) == n + 1 >= session[s].token

Matches(s, n) == n = session[s].token

\* The session after an exchange: the next token and a new expiry.
Rotated(s) ==
  LET p == session[s].purpose
  IN [session[s] EXCEPT !.token = session[s].token + 1,
                        !.until = RefreshExpiry(p, user[session[s].user].temporary)]

\* rotate_session with the n-th token of the session: exchanged, invalid, or
\* a replay that revokes the session.
Rotate(s, n) ==
  CASE ~Live(s) -> UNCHANGED <<session, tokens, spent>>
    [] Live(s) /\ ~Matches(s, n) ->
         /\ session' = [session EXCEPT ![s] = Revoked(@)]
         /\ UNCHANGED <<tokens, spent>>
    [] OTHER ->
         LET g == [Grant(session[s].user) EXCEPT !.purpose = session[s].purpose]
         IN /\ session' = [session EXCEPT ![s] = Rotated(s)]
            /\ tokens' = tokens \cup {AccessToken(s, g)}
            /\ spent' = spent \cup {<<s, n>>}

\* refresh: a client whose answer was lost presents the same token again.
Refresh(s, n) ==
  /\ session[s] # None /\ Pay("rotate") /\ Rotate(s, n)
  /\ UNCHANGED <<now, user, invite, code, windows, client, epoch, born>>

\* logout, revoke_session_for_user and revoke_other_sessions.
Revoke(t, S) ==
  /\ t \in tokens /\ Authenticates(t) /\ Pay("revoke")
  /\ S = {t.session} \/ S = {s \in Sessions \ {t.session} :
            session[s] # None /\ session[s].user = t.user
            /\ session[s].until > now}
  /\ session' = [s \in Sessions |->
       IF s \in S THEN Revoked(session[s]) ELSE session[s]]
  /\ UNCHANGED <<now, user, invite, code, windows, client, tokens, history>>

\* change_password, read and verification.
ChangeStart(c, t) ==
  /\ client[c] = Idle /\ t.purpose = "normal" /\ Allows(t.user)
  /\ user[t.user].status = "active" /\ user[t.user].version = t.version
  /\ user[t.user].temporary = None /\ Pay("password")
  /\ Become(c, Verified("change", t.user, t.session))
  /\ UNCHANGED <<now, rows, windows, tokens, history>>

\* A credential is replaced: every operation that does so ends the sessions
\* and the access tokens of the user.
Replace(u, row) ==
  /\ user' = [user EXCEPT ![u] = Bumped(row)]
  /\ RevokeAll(u)
  /\ Changed(u)

ChangeAllowed(u) ==
  user[u].status = "active" /\ user[u].temporary = None /\ ~user[u].deleted

\* change_password, the transaction; the row decides, not what was read.
ChangePassword(c) ==
  /\ client[c].step = "change" /\ Become(c, Idle)
  /\ LET u == client[c].user
     IN IF ChangeAllowed(u)
          THEN Replace(u, WithPassword(user[u])) /\ ClearFailures(u)
          ELSE RecordFailure(u) /\ UNCHANGED <<user, session, epoch>>
  /\ UNCHANGED <<now, invite, code, tokens, born, spent, left>>

\* issue_temporary_password by an administrator, after reauthentication.
IssueStart(c, t) ==
  /\ client[c] = Idle /\ t.role = "admin" /\ t.purpose = "normal"
  /\ Allows(t.user) /\ IsAdmin(t.user) /\ user[t.user].version = t.version
  /\ user[t.user].temporary = None /\ Pay("temporary")
  /\ Become(c, Verified("issue", t.user, t.session))
  /\ UNCHANGED <<now, rows, windows, tokens, history>>

IssueAllowed(c, u) ==
  LET a == client[c].user
  IN /\ IsAdmin(a) /\ user[a].version = client[c].version
     /\ user[a].temporary = None
     /\ ~user[u].deleted /\ user[u].status = "active" /\ user[u].password

IssueTemporaryPassword(c, u) ==
  /\ client[c].step = "issue" /\ u # client[c].user /\ Become(c, Idle)
  /\ IF IssueAllowed(c, u) THEN Replace(u, [user[u] EXCEPT !.temporary = now + TempTtl])
     ELSE UNCHANGED <<user, session, epoch>>
  /\ UNCHANGED <<now, invite, code, windows, tokens, born, spent, left>>

\* complete_temporary_password: read and verification, then the transaction.
CompleteStart(c, t) ==
  /\ client[c] = Idle /\ t.purpose = "password_change"
  /\ user[t.user].status = "active" /\ user[t.user].version = t.version
  /\ TemporaryValid(t.user) /\ Pay("password")
  /\ Become(c, Verified("complete", t.user, t.session))
  /\ UNCHANGED <<now, rows, windows, tokens, history>>

CompleteAllowed(c) ==
  LET s == client[c].session
  IN /\ Live(s) /\ session[s].user = client[c].user
     /\ user[client[c].user].version = client[c].version
     /\ session[s].purpose = "password_change"

CompleteTemporaryPassword(c) ==
  /\ client[c].step = "complete"
  /\ LET u == client[c].user
         row == WithPassword(user[u])
     IN IF CompleteAllowed(c)
          THEN /\ Replace(u, row)
               /\ Become(c, [step |-> "grant", user |-> u, role |-> row.role,
                             version |-> row.version + 1, until |-> None,
                             purpose |-> "normal", epoch |-> epoch[u] + 1])
          ELSE Become(c, Idle) /\ UNCHANGED <<user, session, epoch>>
  /\ UNCHANGED <<now, invite, code, windows, tokens, born, spent, left>>

\* reset_active_admin_password, from the command line.
ResetAdmin(u) ==
  /\ IsAdmin(u) /\ Pay("admin")
  /\ Replace(u, WithPassword(user[u]))
  /\ UNCHANGED <<now, invite, code, windows, client, tokens, born, spent>>

\* Mutant of EndsSessions: a change of status keeps them.
EndsSessionsRole(u, e, r, st) == e => user[u].role # r

EndsSessions(u, e, r, st) ==
  ~(~e /\ user[u].role = r /\ user[u].status = st)

\* validate_user_status_transition: an invited account and one without a
\* password are activated by invitation only.
StatusAllowed(u, st) ==
  st # user[u].status =>
    /\ user[u].status \in {"active", "suspended", "disabled"}
    /\ st \in {"active", "suspended", "disabled"}
    /\ st = "active" => user[u].password

\* user_update: e replaces the address; role and status are the new ones.
UpdateUser(u, e, r, st) ==
  /\ user[u].status # "absent" /\ ~user[u].deleted /\ Pay("admin")
  /\ StatusAllowed(u, st)
  /\ LET row == [user[u] EXCEPT !.role = r, !.status = st]
     IN IF EndsSessions(u, e, r, st)
          THEN /\ user' = [user EXCEPT ![u] = Bumped(row)]
               /\ RevokeAll(u)
          ELSE user' = [user EXCEPT ![u] = row] /\ UNCHANGED session
  /\ IF <<user[u].role, user[u].status, e>> = <<r, st, FALSE>>
       THEN UNCHANGED epoch ELSE Changed(u)
  /\ UNCHANGED <<now, invite, code, windows, client, tokens, born, spent>>

Anonymized(row) ==
  [row EXCEPT !.email = FALSE, !.role = "user", !.status = "disabled",
              !.password = FALSE, !.temporary = None, !.deleted = TRUE]

RevokeInvites(u) ==
  [i \in Invites |-> IF invite[i] # None /\ invite[i].user = u
                        /\ ~invite[i].accepted
                     THEN Revoked(invite[i]) ELSE invite[i]]

\* A request to delete an account: its token is checked before the mutation
\* waits for the lock that serialises control-plane writes.
DeleteStart(c, t) ==
  /\ client[c] = Idle /\ t.role = "admin" /\ t.purpose = "normal"
  /\ Pay("delete") /\ Become(c, Verified("delete", t.user, t.session))
  /\ UNCHANGED <<now, rows, windows, tokens, history>>

DeleteAllowed(u) ==
  user[u].status # "absent" /\ ~user[u].deleted
  /\ (IsAdmin(u) => \E a \in Users \ {u} : IsAdmin(a))

\* user_soft_delete of another account.
SoftDelete(c, u) ==
  /\ client[c].step = "delete" /\ u # client[c].user /\ Become(c, Idle)
  /\ IF DeleteAllowed(u)
       THEN Replace(u, Anonymized(user[u])) /\ invite' = RevokeInvites(u)
       ELSE UNCHANGED <<user, session, epoch, invite>>
  /\ UNCHANGED <<now, code, windows, tokens, born, spent, left>>

NewInvite(u) ==
  [user |-> u, until |-> now + InviteTtl, accepted |-> FALSE,
   revoked |-> FALSE]

\* The calls of an administrator that check the role in the transaction.
ByAdmin(a) == IsAdmin(a) /\ Principals(a) # {}

\* invite_user
InviteUser(a, u, i, r) ==
  /\ ByAdmin(a) /\ Pay("invite")
  /\ user[u].status = "absent" /\ invite[i] = None
  /\ user' = [user EXCEPT ![u] = Row("invited", r, FALSE)]
  /\ invite' = [invite EXCEPT ![i] = NewInvite(u)]
  /\ UNCHANGED <<now, session, code, windows, client, tokens, history>>

CanReissue(u) ==
  /\ user[u].email /\ ~user[u].password
  /\ user[u].status \in {"invited", "suspended", "disabled"}

\* reissue_invitation: the older ones no longer work.
ReissueInvitation(a, u, i) ==
  /\ ByAdmin(a) /\ Pay("invite") /\ CanReissue(u) /\ invite[i] = None
  /\ invite' = [RevokeInvites(u) EXCEPT ![i] = NewInvite(u)]
  /\ Replace(u, [user[u] EXCEPT !.status = "invited"])
  /\ UNCHANGED <<now, code, windows, client, tokens, born, spent>>

Acceptable(i) ==
  /\ invite[i] # None /\ ~invite[i].accepted /\ ~invite[i].revoked
  /\ invite[i].until > now /\ user[invite[i].user].status = "invited"

\* The session that an account is granted when it comes into being.
FirstGrant(u, r, v, e) ==
  [step |-> "grant", user |-> u, role |-> r, version |-> v, until |-> None,
   purpose |-> "normal", epoch |-> e]

\* accept_invitation: the account becomes active and the client is granted
\* a session, which it inserts in a transaction of its own.
AcceptInvitation(c, i) ==
  /\ client[c] = Idle /\ Acceptable(i)
  /\ LET u == invite[i].user
     IN /\ user' = [user EXCEPT ![u] =
             Bumped([WithPassword(user[u]) EXCEPT !.status = "active"])]
        /\ Changed(u)
        /\ Become(c, FirstGrant(u, user[u].role, user[u].version + 1,
                                epoch[u] + 1))
  /\ invite' = [invite EXCEPT ![i].accepted = TRUE]
  /\ UNCHANGED <<now, session, code, windows, tokens, born, spent, left>>

\* validate_registration_invitation_code_input
CodeAccepts(m, used) == m # None => m >= used

CreateCode(a, m, on) ==
  /\ ByAdmin(a) /\ Pay("code") /\ code = None
  /\ code' = [max |-> m, used |-> 0, enabled |-> on]
  /\ UNCHANGED <<now, user, session, invite, windows, client, tokens, history>>

UpdateCode(a, m, on) ==
  /\ ByAdmin(a) /\ code # None /\ CodeAccepts(m, code.used) /\ Pay("code")
  /\ code' = [code EXCEPT !.max = m, !.enabled = on]
  /\ UNCHANGED <<now, user, session, invite, windows, client, tokens, history>>

CodeUsable ==
  code # None /\ code.enabled /\ (code.max # None => code.used < code.max)

\* register_with_invitation_code
Register(c, u) ==
  /\ client[c] = Idle /\ user[u].status = "absent" /\ CodeUsable
  /\ user' = [user EXCEPT ![u] = Row("active", "user", TRUE)]
  /\ code' = [code EXCEPT !.used = @ + 1]
  /\ Become(c, FirstGrant(u, "user", 1, epoch[u]))
  /\ UNCHANGED <<now, session, invite, windows, tokens, history, left>>

Tick ==
  /\ Pay("tick") /\ now' = now + 1
  /\ UNCHANGED <<rows, windows, client, tokens, history>>

Next ==
  \/ \E c \in Clients :
       \/ \E u \in Users : CanLogin(u) /\ Login(c, u)
       \/ \E b \in BOOLEAN : LoginVerified(c, b)
       \/ \E s \in Sessions : IssueSession(c, s)
       \/ \E t \in tokens : /\ Authenticates(t)
                            /\ \/ ChangeStart(c, t) \/ IssueStart(c, t)
                               \/ CompleteStart(c, t) \/ DeleteStart(c, t)
       \/ ChangePassword(c) \/ CompleteTemporaryPassword(c)
       \/ \E u \in Users : \/ IssueTemporaryPassword(c, u)
                           \/ Register(c, u) \/ SoftDelete(c, u)
       \/ \E i \in Invites : AcceptInvitation(c, i)
  \/ \E s \in Sessions : \E n \in 1..(IF session[s] = None THEN 0
                                      ELSE session[s].token) : Refresh(s, n)
  \/ \E t \in tokens, S \in SUBSET Sessions : Revoke(t, S)
  \/ \E u \in Users : ResetAdmin(u)
  \/ \E u \in Users, e \in BOOLEAN, r \in {"user", "admin"},
        st \in Statuses : UpdateUser(u, e, r, st)
  \/ \E a, u \in Users, i \in Invites :
       \/ ReissueInvitation(a, u, i)
       \/ \E r \in {"user", "admin"} : InviteUser(a, u, i, r)
  \/ \E a \in Users, m \in MaxUses \cup {None}, on \in BOOLEAN :
       CreateCode(a, m, on) \/ UpdateCode(a, m, on)
  \/ Tick

Spec == Init /\ [][Next]_vars

--------------------
\* An access token that authenticates was issued after the last change of
\* its user's password, role or status, whichever operation made it.
AccessIsCurrent ==
  \A t \in tokens : Authenticates(t) => t.epoch = epoch[t.user]

\* A session that was stored when a password, role or status changed never
\* authenticates again, and what it could still be rotated into neither.
SessionsEndWithCredentials ==
  \A s \in Sessions : Live(s) => born[s] = epoch[session[s].user]

\* A refresh token is exchanged at most once: the second of two concurrent
\* or repeated refreshes finds another hash and ends the session.
TokenSpentOnce ==
  \A s \in Sessions :
    (session[s] # None /\ session'[s].token # session[s].token)
      => (<<s, session[s].token>> \notin spent /\ <<s, session[s].token>> \in spent')

\* A deleted account is final: no order of invitations, updates and password
\* operations gives it a password, a valid invitation or a live session.
DeletedIsFinal ==
  \A u \in Users : user[u].deleted =>
    /\ user[u].status = "disabled" /\ ~user[u].password
    /\ \A s \in Sessions : Live(s) => session[s].user # u
    /\ \A i \in Invites : invite[i] # None /\ invite[i].user = u
         => invite[i].accepted \/ invite[i].revoked

\* Two administrators who delete each other at once do not leave the Console
\* without one: the second deletion finds that it would.
AdministratorRemains ==
  \A u \in Users :
    (IsAdmin(u) /\ user'[u].deleted) => \E a \in Users : IsAdmin(a)'

\* Somebody who must replace a temporary password can do nothing else: a
\* change of password that was verified before it was issued does not
\* replace it.
TemporaryPasswordKept ==
  \A c \in Clients :
    (/\ client[c].step = "change" /\ client'[c] = Idle
     /\ user[client[c].user].temporary # None)
      => user'[client[c].user] = user[client[c].user]

\* A registration code is never used more often than its maximum, although
\* administrators lower the maximum while accounts are registered.
CodeWithinMax ==
  (code # None /\ code.max # None) => code.used <= code.max

\* Between two successes a window sees at most FailureLimit failures, and one
\* more for each request that was already past the check.
GuessesBounded ==
  \A u \in Users : windows[u] # None =>
    windows[u].failures <= FailureLimit + Cardinality(Clients) - 1

\* What the Console promises of its accounts and sessions, in every state.
AccessSound ==
  /\ AccessIsCurrent /\ SessionsEndWithCredentials /\ DeletedIsFinal
  /\ CodeWithinMax /\ GuessesBounded

\* What no step of any request does.
AccessSteps == TokenSpentOnce /\ TemporaryPasswordKept /\ AdministratorRemains

--------------------
\* The inductive invariant behind AccessSound

GrantState ==
  [step: {"login", "grant"}, user: Users, role: {"user", "admin"}, version: Nat,
   purpose: Purposes, until: Nat \cup {None}, epoch: Nat]
VerifiedState ==
  [step: {"change", "issue", "complete", "delete"}, user: Users, session: Sessions,
   version: Nat]
Tokens == [user: Users, session: Sessions, role: {"user", "admin"}, version: Nat,
           purpose: Purposes, epoch: Nat]

\* Every change of a credential or of an authority bumps the version that access
\* tokens carry; what a row does not have depends on its status.
AccountSound(u) ==
  /\ user[u].version = epoch[u] + 1
  /\ user[u].status = "absent" => user[u].version = 1
  /\ user[u].status \in {"absent", "invited"} => ~user[u].password /\ ~user[u].deleted
  /\ user[u].deleted =>
       user[u].status = "disabled" /\ ~user[u].password /\ ~user[u].email

\* The account has had a password: sessions and grants are of such accounts, so
\* that an invitation is never accepted under a session of the same account.
Known(u) == user[u].password \/ user[u].deleted

ClientSound(r) ==
  \/ r = Idle \/ r \in VerifiedState
  \/ /\ r \in GrantState /\ r.version = r.epoch + 1 /\ Known(r.user)
     /\ r.purpose = "password_change" => r.until # None

\* An unrevoked session is as old as the credentials of its user.
SessionSound(s) ==
  session[s] # None =>
    /\ Known(session[s].user)
    /\ ~session[s].revoked => born[s] = epoch[session[s].user]

InviteSound(i) ==
  (invite[i] # None /\ user[invite[i].user].deleted)
    => invite[i].accepted \/ invite[i].revoked

\* The requests that are past the check of the limiter.
Pending(u) ==
  {c \in Clients : client[c].step \in {"login", "change"} /\ client[c].user = u}

GuessSound(u) ==
  windows[u] # None =>
    /\ windows[u].start <= now
    /\ windows[u].failures <= FailureLimit + Cardinality(Clients) - 1
    /\ now - windows[u].start < FailureWindow =>
         windows[u].failures + Cardinality(Pending(u))
           <= FailureLimit + Cardinality(Clients) - 1

RowsInv ==
  /\ user \in [Users -> UserRow] /\ epoch \in [Users -> Nat]
  /\ \A u \in Users : AccountSound(u)
SessionsInv ==
  /\ session \in [Sessions -> SessionRow \cup {None}] /\ born \in [Sessions -> Nat]
  /\ \A s \in Sessions : SessionSound(s)
SpentInv ==
  /\ spent \subseteq Sessions \X Nat
  /\ \A x \in spent : session[x[1]] # None /\ x[2] < session[x[1]].token
ClientsInv ==
  client \in [Clients -> {Idle} \cup VerifiedState \cup GrantState]
  /\ \A c \in Clients : ClientSound(client[c])
TokensInv == tokens \subseteq Tokens /\ \A t \in tokens : t.version = t.epoch + 1
InvitesInv ==
  invite \in [Invites -> InviteRow \cup {None}] /\ \A i \in Invites : InviteSound(i)
CodeInv == code \in CodeRow \cup {None} /\ CodeWithinMax
GuessInv ==
  /\ now \in Nat /\ windows \in [Users -> FailureRow \cup {None}]
  /\ \A u \in Users : GuessSound(u)

AuthInv ==
  /\ RowsInv /\ SessionsInv /\ SpentInv /\ ClientsInv /\ TokensInv /\ InvitesInv
  /\ CodeInv /\ GuessInv
=============================================================================
