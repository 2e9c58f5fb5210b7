----------------------------- MODULE ConsoleApi -----------------------------
\* The Console's management API (src/http/console.rs): which layer stands
\* before which handler, which handlers demand an entity tag, and what a
\* write does to the row it names.  Every user works from one browser with
\* one session and one request in flight; the browser keeps the last row it
\* fetched together with its tag, the form the user edits.
\*
\* Rows are the user accounts themselves and one further row, whose kind
\* `kind` is any of the managed resources.  The content of a row is the
\* number of the write that produced it; its version is updated_at, the
\* start of the transaction that wrote it, in microseconds.
EXTENDS Naturals

CONSTANTS
  Users,      \* user accounts
  Admins,     \* the ones that start as administrators
  Kinds,      \* the resource kinds a run looks at
  Acts,       \* the kinds of handler it calls
  MaxWrites,  \* bound on transactions
  MaxRequests, \* bound on requests
  MaxLogins,  \* bound on sessions opened after the start
  None, Thing \* no value; the name of the one row that is not an account

VARIABLES
  kind,    \* what Thing is
  row,     \* [target -> [live, ver, val, owner, role, temp]]
  sess,    \* the session of each user: "none", "normal" or "password_change"
  form,    \* per user: the row it last fetched, [target, tag, val], or None
  req,     \* per user: the request in flight
  answer,  \* the answer this step gave, if any: [user, status, did, act]
  now,     \* the database clock
  writes,  \* writes applied so far
  logins,  \* sessions opened since the start
  sent     \* requests sent

vars == <<kind, row, sess, form, req, answer, now, writes, logins, sent>>
Targets == Users \cup {Thing}
NoReq == [step |-> "idle"]
Form == [target: Targets, tag: Nat, val: Nat]

ApiAssumption ==
  /\ Admins \subseteq Users /\ Thing \notin Users
  /\ None \notin Users /\ None \notin Nat /\ None \notin Form

--------------------
\* Routes: [gate, act, kind].  A gate is the innermost layer before the
\* handler: "session" needs a session, "full" one that is not confined to a
\* password change, "admin" a full one of an administrator.
Route(g, k, acts) == {[gate |-> g, act |-> a, kind |-> k] : a \in acts}
Managed(k) == Route("admin", k, {"get", "create", "update", "delete"})
Kept(k) == Route("admin", k, {"get", "create", "update"})

\* logout, complete_password_reset: the only routes outside the full session.
PasswordRoutes == Route("session", "user", {"logout", "complete"})
\* get_me, update_me, get_user_settings, update_user_settings.
ProfileRoutes == Route("full", "user", {"get", "profile"})
\* list_sessions, revoke_other_sessions, revoke_session.
SessionRoutes == Route("full", "user", {"logout"})
\* list/get/create/update/delete/revoke_own_api_key.
OwnKeyRoutes ==
  Route("full", "api_key", {"get", "create", "update", "delete", "revoke"})
\* list_users, invite_user, get_user, replace_user, update_user, delete_user,
\* update_users_batch and issue_user_temporary_password.
UserRoutes == Route("admin", "user", {"get", "update", "delete", "temporary"})
GroupRoutes == Managed("user_group")
CodeRoutes == Kept("registration_code")
PolicyRoutes == Kept("api_key_policy")
ModelRoutes == Managed("model")
KeyRoutes == Managed("api_key") \cup Route("admin", "api_key", {"revoke"})
AccessRoutes == Kept("upstream_access")
RoutingGroupRoutes == Managed("routing_group")
ChannelRoutes == Managed("logical_channel")
\* update_capabilities_batch and recover_capability carry a version too.
CapabilityRoutes == Managed("capability")
RuleRoutes == Kept("operation_rule")
CredentialRoutes == Managed("upstream_credential")
\* Rows only: tokens and quota of a connection are CodexCredential's.
CodexRoutes == Managed("codex_credential")
ProxyRoutes == Managed("proxy")
TemplateRoutes == Kept("config_template")
SettingsRoutes == Route("admin", "system_settings", {"get", "update"})

Routes == PasswordRoutes \cup ProfileRoutes \cup SessionRoutes
  \cup OwnKeyRoutes \cup UserRoutes \cup GroupRoutes \cup CodeRoutes
  \cup PolicyRoutes \cup ModelRoutes \cup KeyRoutes \cup AccessRoutes
  \cup RoutingGroupRoutes \cup ChannelRoutes \cup CapabilityRoutes
  \cup RuleRoutes \cup CredentialRoutes \cup CodexRoutes \cup ProxyRoutes
  \cup TemplateRoutes \cup SettingsRoutes

\* The rows a route can be asked about: a self route names the caller's own.
AskedOf(r, u) ==
  IF r.kind # "user" THEN {Thing}
  ELSE IF r.gate = "admin" THEN Users ELSE {u}

\* The handlers that call if_match.
Tagged(r) == r.act \in {"update", "delete"}

--------------------
Account(u) ==
  [live |-> TRUE, ver |-> 0, val |-> 0, owner |-> None, temp |-> FALSE,
   role |-> IF u \in Admins THEN "admin" ELSE "user"]

\* The settings are seeded; any other row may or may not exist yet.
Init ==
  /\ kind \in Kinds
  /\ \E o \in IF kind = "api_key" THEN Users ELSE {None},
        l \in IF kind = "system_settings" THEN {TRUE} ELSE BOOLEAN :
       row = [t \in Targets |-> IF t \in Users THEN Account(t) ELSE
                [live |-> l, ver |-> 0, val |-> 0,
                 owner |-> o, temp |-> FALSE, role |-> None]]
  /\ sess = [u \in Users |-> "normal"]
  /\ form = [u \in Users |-> None] /\ req = [u \in Users |-> NoReq]
  /\ answer = None
  /\ now = 0 /\ writes = 0 /\ logins = 0 /\ sent = 0

Active(u) == row[u].live /\ row[u].role # "off"
IsAdmin(u) == row[u].live /\ row[u].role = "admin"

\* The answer ends the request; did: whether it committed a change.
Reply(u, status, did) ==
  /\ req' = [req EXCEPT ![u] = NoReq]
  /\ answer' = [user |-> u, status |-> status, did |-> did,
                act |-> req[u].route.act]

Silent == answer' = None

\* login: an account with a temporary password gets a confined session.
Login(u) ==
  /\ sess[u] = "none" /\ Active(u) /\ req[u] = NoReq /\ logins < MaxLogins
  /\ sess' = [sess EXCEPT ![u] =
                IF row[u].temp THEN "password_change" ELSE "normal"]
  /\ logins' = logins + 1 /\ Silent
  /\ UNCHANGED <<kind, row, form, req, now, writes, sent>>

\* etag: updated_at is stored and printed in microseconds.
etag(ver) == ver

\* The browser sends a request; an edit carries the tag of its form.
Send(u, r, t) ==
  /\ req[u] = NoReq /\ sess[u] # "none" /\ t \in AskedOf(r, u)
  /\ r.kind \in {"user", kind} /\ r.act \in Acts
  /\ req' = [req EXCEPT ![u] =
       [step |-> "sent", route |-> r, target |-> t,
        tag |-> IF form[u] # None /\ Tagged(r)
                  THEN IF form[u].target = t THEN form[u].tag ELSE None
                  ELSE None,
        seen |-> IF form[u] = None THEN None ELSE
                   IF form[u].target = t THEN form[u].val ELSE None]]
  /\ sent < MaxRequests /\ sent' = sent + 1 /\ Silent
  /\ UNCHANGED <<kind, row, sess, form, now, writes, logins>>

\* authenticate, require_full_session and require_admin, outermost first.
Refusal(u) ==
  LET r == req[u].route
  IN IF sess[u] = "none" \/ ~Active(u) THEN 401
     ELSE IF r.gate \in {"full", "admin"} /\ sess[u] # "normal" THEN 403
     ELSE IF r.gate = "admin" /\ row[u].role # "admin" THEN 403
     ELSE 0

\* The layers in front of the handler; the principal is fixed here.
Authenticate(u) ==
  /\ req[u].step = "sent"
  /\ IF Refusal(u) # 0 THEN Reply(u, Refusal(u), FALSE)
     ELSE /\ req' = [req EXCEPT ![u] = [step |-> "handler",
                       route |-> @.route, target |-> @.target, tag |-> @.tag,
                       seen |-> @.seen, purpose |-> sess[u]]]
          /\ Silent
  /\ UNCHANGED <<kind, row, sess, form, now, writes, logins, sent>>

At(u, acts) == req[u].step = "handler" /\ req[u].route.act \in acts

\* A self route finds only the caller's rows.
Visible(u, t) ==
  row[t].live /\ (req[u].route.gate = "full" /\ t = Thing => row[t].owner = u)

\* get_resource, resource_response, api_key_response: the row and its tag.
Get(u) ==
  /\ At(u, {"get"})
  /\ LET t == req[u].target
     IN IF Visible(u, t)
          THEN /\ Reply(u, 200, FALSE)
               /\ form' = [form EXCEPT ![u] = [target |-> t,
                     tag |-> etag(row[t].ver), val |-> row[t].val]]
          ELSE Reply(u, 404, FALSE) /\ UNCHANGED form
  /\ UNCHANGED <<kind, row, sess, now, writes, logins, sent>>

--------------------
\* Writes.  The coordinator holds its mutex from the first read to the
\* commit (ControlPlanePublish takes that apart), so one is one step.

\* admin_write and self_service_write: the actor, read in the transaction.
Actor(u) == IF req[u].route.gate = "admin" THEN IsAdmin(u) ELSE Active(u)

\* user_soft_delete keeps the caller and the last administrator.
Protected(u) ==
  LET t == req[u].target
  IN /\ t \in Users /\ req[u].route.act = "delete"
     /\ t = u \/ {v \in Users : IsAdmin(v)} = {t}

\* control_plane_status and repository_status of the first check that fails.
StatusOf(error) ==
  CASE error = "validation" -> 422
    [] error = "actor" -> 403
    [] error = "not_found" -> 404
    [] error \in {"conflict", "protected"} -> 409
    [] error = "storage" -> 500
    [] OTHER -> 200

\* Mutant of Failure: an update does not compare versions.
FailureUnversioned(u) ==
  LET r == req[u].route  t == req[u].target
  IN IF Tagged(r) /\ req[u].tag = None THEN "validation"
     ELSE IF ~Actor(u) THEN "actor"
     ELSE IF r.act = "create" THEN IF row[t].live THEN "conflict" ELSE "none"
     ELSE IF ~Visible(u, t) THEN "not_found"
     ELSE IF Protected(u) THEN "protected"
     ELSE "none"

\* if_match, then the checks of the transaction in their order.
Failure(u) ==
  LET r == req[u].route  t == req[u].target
  IN IF Tagged(r) /\ req[u].tag = None THEN "validation"
     ELSE IF ~Actor(u) THEN "actor"
     ELSE IF r.act = "create" THEN IF row[t].live THEN "conflict" ELSE "none"
     ELSE IF ~Visible(u, t) THEN "not_found"
     ELSE IF Tagged(r) /\ row[t].ver # req[u].tag THEN "conflict"
     ELSE IF Protected(u) THEN "protected"
     ELSE "none"

\* A row that is written at time v.
Stamped(r, v) == [r EXCEPT !.ver = v, !.val = writes + 1]

\* The row a successful write leaves; to: the new role of an account.
Written(u, to) ==
  LET r == req[u].route  t == req[u].target
      fresh == Stamped(row[t], now + 1)
  IN CASE r.act = "delete" -> [fresh EXCEPT !.live = FALSE]
       [] r.act = "create" ->
            [fresh EXCEPT !.live = TRUE,
                          !.owner = IF r.kind # "api_key" THEN None ELSE
                                    IF r.gate = "full" THEN u ELSE to]
       [] r.act = "update" /\ t \in Users -> [fresh EXCEPT !.role = to]
       [] OTHER -> fresh

\* What the caller chooses: a role, or the owner of a key it creates.
Choices(u) ==
  IF req[u].target \in Users
    THEN IF req[u].route.act = "update" THEN {"admin", "user", "off"} ELSE {None}
    ELSE IF req[u].route = [gate |-> "admin", act |-> "create",
                            kind |-> "api_key"] THEN Users ELSE {None}

\* The end of target's sessions, where a write to its account ends them.
EndSessions(t, ended) ==
  sess' = IF t \in Users /\ ended THEN [sess EXCEPT ![t] = "none"] ELSE sess

Effect(u, to, status) ==
  /\ row' = [row EXCEPT ![req[u].target] = Written(u, to)]
  /\ EndSessions(req[u].target,
       req[u].target \in Users =>
         Written(u, to).role # row[req[u].target].role \/ ~Written(u, to).live)
  /\ now' = now + 1 /\ writes' = writes + 1
  /\ Reply(u, status, TRUE)

\* mutate, mutate_created and the own-key handlers.
Mutate(u, to) ==
  /\ At(u, {"create", "update", "delete", "revoke"}) /\ writes < MaxWrites
  /\ to \in Choices(u)
  /\ LET f == Failure(u)
     IN IF f = "none" THEN Effect(u, to, StatusOf(f))
        ELSE Reply(u, StatusOf(f), FALSE) /\ UNCHANGED <<row, sess, now, writes>>
  /\ UNCHANGED <<kind, form, logins, sent>>

\* The database cannot say whether the commit happened.
MutateUnseen(u, to) ==
  /\ At(u, {"create", "update", "delete", "revoke"}) /\ writes < MaxWrites
  /\ to \in Choices(u) /\ Failure(u) = "none"
  /\ Effect(u, to, StatusOf("storage"))
  /\ UNCHANGED <<kind, form, logins, sent>>

\* A transaction outside the coordinator's mutex begins: what it writes carries
\* this time as updated_at, however long it then waits for the row.
Begin(u, step) ==
  /\ req' = [req EXCEPT ![u] = [step |-> step, start |-> now + 1,
               route |-> @.route, target |-> @.target, tag |-> @.tag,
               seen |-> @.seen, purpose |-> @.purpose]]
  /\ now' = now + 1 /\ Silent

\* update_me: one statement.
ProfileStart(u) ==
  /\ At(u, {"profile"}) /\ writes < MaxWrites /\ Begin(u, "profile")
  /\ UNCHANGED <<kind, row, sess, form, writes, logins, sent>>

\* update_display_name ... WHERE status='active': else 404.
ProfileWrite(u) ==
  /\ req[u].step = "profile"
  /\ IF Active(u)
       THEN /\ row' = [row EXCEPT ![u] = Stamped(@, req[u].start)]
            /\ writes' = writes + 1 /\ Reply(u, 200, TRUE)
       ELSE Reply(u, 404, FALSE) /\ UNCHANGED <<row, writes>>
  /\ UNCHANGED <<kind, sess, form, now, logins, sent>>

\* issue_user_temporary_password up to the actor it reads, without a lock: the
\* same administrator, not itself under a temporary password.  The reading
\* before the transaction answers 403, the one in it 404.
TemporaryStart(u) ==
  /\ At(u, {"temporary"}) /\ writes < MaxWrites
  /\ \/ req[u].target = u /\ Reply(u, 409, FALSE) /\ UNCHANGED now
     \/ /\ req[u].target # u /\ ~(Actor(u) /\ sess[u] = "normal")
        /\ Reply(u, 403, FALSE) \/ Reply(u, 404, FALSE)
        /\ UNCHANGED now
     \/ /\ req[u].target # u /\ Actor(u) /\ sess[u] = "normal"
        /\ Begin(u, "temporary")
  /\ UNCHANGED <<kind, row, sess, form, writes, logins, sent>>

\* The rest of it, once the target's row is locked: the account is confined.
\* PostgreSQL lets other transactions commit in between, SQLite does not.
TemporaryWrite(u) ==
  /\ req[u].step = "temporary"
  /\ LET t == req[u].target
     IN \/ /\ Active(t)
           /\ row' = [row EXCEPT ![t] =
                [Stamped(@, req[u].start) EXCEPT !.temp = TRUE]]
           /\ sess' = [sess EXCEPT ![t] = "none"]
           /\ writes' = writes + 1 /\ Reply(u, 201, TRUE)
        \/ /\ ~Active(t)
           /\ Reply(u, IF row[t].live THEN 422 ELSE 404, FALSE)
           /\ UNCHANGED <<row, sess, writes>>
  /\ UNCHANGED <<kind, form, now, logins, sent>>

\* complete_password_reset: a confined session turns into a full one.
Complete(u) ==
  /\ At(u, {"complete"}) /\ writes < MaxWrites
  /\ IF req[u].purpose = "password_change" /\ Active(u) /\ sess[u] # "none"
       THEN /\ row' = [row EXCEPT ![u] =
                 [Stamped(@, now + 1) EXCEPT !.temp = FALSE]]
            /\ sess' = [sess EXCEPT ![u] = "normal"]
            /\ now' = now + 1 /\ writes' = writes + 1 /\ Reply(u, 200, TRUE)
       ELSE Reply(u, 409, FALSE) /\ UNCHANGED <<row, sess, now, writes>>
  /\ UNCHANGED <<kind, form, logins, sent>>

\* logout and the revocation of one's own sessions.
Logout(u) ==
  /\ At(u, {"logout"})
  /\ sess' = [sess EXCEPT ![u] = "none"] /\ Reply(u, 204, FALSE)
  /\ UNCHANGED <<kind, row, form, now, writes, logins, sent>>

Next ==
  \E u \in Users :
    \/ Login(u) \/ Authenticate(u) \/ Get(u)
    \/ \E r \in Routes, t \in Targets : Send(u, r, t)
    \/ \E to \in {"admin", "user", "off", None} \cup Users :
         Mutate(u, to) \/ MutateUnseen(u, to)
    \/ ProfileStart(u) \/ ProfileWrite(u)
    \/ TemporaryStart(u) \/ TemporaryWrite(u) \/ Complete(u) \/ Logout(u)

Spec == Init /\ [][Next]_vars

--------------------
\* The user whose request this step answers with a committed change.
Did(u) == req[u] # NoReq /\ req'[u] = NoReq /\ answer'.user = u /\ answer'.did

\* No lost update: a versioned write replaces exactly the content its author
\* had on screen, whoever wrote in between and however late a profile update
\* that started earlier lands (if_match, etag, expected_updated_at).
NoLostUpdate ==
  \A u \in Users : Did(u) /\ req[u].route.act \in {"update", "delete"} =>
    row[req[u].target].val = req[u].seen

\* A conflict is real: a user is refused for its version only when the row is
\* no longer the one it fetched (the tag survives formatting and parsing).
ConflictIsReal ==
  \A u \in Users :
    /\ req[u] # NoReq /\ req'[u] = NoReq /\ answer'.status = 409
    /\ req[u].route.act \in {"update", "delete"}
    => \/ row[req[u].target].val # req[u].seen
       \/ req[u].target \in Users /\ req[u].route.act = "delete"

\* Whoever changes a row is entitled to when it changes, not only when the
\* request was authenticated: an active account, an active administrator on
\* the administrative routes, the owner on the self-service ones.  A temporary
\* password is the exception, because nothing holds its actor's row: whoever
\* issues one is an administrator with its session when the transaction reads
\* it, though maybe no longer when it writes; the account is another's, and
\* active when it is written.
ActorEntitled ==
  \A u \in Users :
    /\ Did(u) /\ req[u].route.act # "temporary" =>
         /\ Active(u)
         /\ req[u].route.gate = "admin" => IsAdmin(u)
         /\ req[u].route.gate = "full" /\ req[u].target = Thing =>
              row'[Thing].owner = u
    /\ Did(u) /\ req[u].route.act = "temporary" =>
         req[u].step = "temporary" /\ req[u].target # u /\ Active(req[u].target)
    /\ req[u].step # "temporary" /\ req'[u].step = "temporary" =>
         IsAdmin(u) /\ sess[u] = "normal"

\* An account that was given a temporary password gets nothing through its new
\* session before it chose a password of its own: no row is read or changed.
ConfinedUntilReset ==
  \A u \in Users :
    /\ req[u] # NoReq /\ req'[u] = NoReq
    /\ sess[u] = "password_change" /\ answer'.status \in {200, 201}
    => req[u].route.act = "complete"

\* An answer tells what happened: success means committed, a refusal that
\* nothing was; only an internal error leaves it open.
AnswerIsTrue ==
  answer # None =>
    /\ answer.status \in 400..499 => ~answer.did
    /\ answer.status \in {200, 201} /\ answer.act # "get" => answer.did

\* What no request of the API does.
ApiSteps == ActorEntitled /\ ConfinedUntilReset
VersionsKept == NoLostUpdate /\ ConflictIsReal

--------------------
\* The inductive invariant behind them

Row == [live: BOOLEAN, ver: Nat, val: Nat, owner: Users \cup {None},
        temp: BOOLEAN, role: {"admin", "user", "off", None}]
Steps == {"sent", "handler", "profile", "temporary"}
Confinements == {"normal", "password_change"}
Sent == [step: {"sent"}, route: Routes, target: Targets,
         tag: Nat \cup {None}, seen: Nat \cup {None}]
Handled == [step: {"handler"}, route: Routes, target: Targets,
            tag: Nat \cup {None}, seen: Nat \cup {None}, purpose: Confinements]
Begun == [step: {"profile", "temporary"}, route: Routes, target: Targets,
          start: Nat, tag: Nat \cup {None}, seen: Nat \cup {None},
          purpose: Confinements]

ApiTypes ==
  /\ row \in [Targets -> Row] /\ now \in Nat /\ writes \in Nat
  /\ sess \in [Users -> Confinements \cup {"none"}]
  /\ form \in [Users -> Form \cup {None}]
  /\ req \in [Users -> {NoReq} \cup Sent \cup Handled \cup Begun]

\* A version names a content: what a browser holds agrees with the row in both
\* or in neither, and neither is from the future.
Agrees(t, tag, val) ==
  /\ tag <= now /\ val <= writes
  /\ row[t].ver = tag <=> row[t].val = val

FormSound(u) == form[u] # None => Agrees(form[u].target, form[u].tag, form[u].val)
ReqSound(u) ==
  req[u] # NoReq =>
    /\ req[u].target \in AskedOf(req[u].route, u)
    /\ req[u].tag # None =>
         req[u].seen # None /\ Agrees(req[u].target, req[u].tag, req[u].seen)

\* A transaction that has begun and not yet written.
Pending(u) == req[u].step \in {"profile", "temporary"}

\* A session that changes under a request has ended.
HandlerSound(u) ==
  req[u].step = "handler" \/ Pending(u) =>
    /\ sess[u] \in {req[u].purpose, "none"}
    /\ req[u].route.gate # "session" => req[u].purpose = "normal"

\* The time of such a transaction is nobody else's version.
Unseen(t, v) ==
  /\ row[t].ver # v
  /\ \A u \in Users :
       /\ form[u] # None /\ form[u].target = t => form[u].tag # v
       /\ req[u] # NoReq /\ req[u].target = t => req[u].tag # v
PendingSound(u) ==
  Pending(u) =>
    /\ req[u].route.act = req[u].step /\ req[u].start <= now
    /\ Unseen(req[u].target, req[u].start)
    /\ req[u].step = "temporary" => req[u].target # u

\* No two of them have the same time, whichever lands first.
StartsDiffer ==
  \A u, v \in Users :
    u # v /\ Pending(u) /\ Pending(v) => req[u].start # req[v].start

ApiInv ==
  /\ ApiTypes /\ AnswerIsTrue /\ StartsDiffer
  /\ \A t \in Targets : row[t].ver <= now /\ row[t].val <= writes
  /\ \A u \in Users : FormSound(u) /\ ReqSound(u) /\ HandlerSound(u) /\ PendingSound(u)
=============================================================================
