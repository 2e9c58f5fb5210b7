-------------------------- MODULE KeyAuthorization --------------------------
\* What an API key may reach.  A key, or a self-service policy, selects
\* targets: routing groups and logical channels.  Selecting a target
\* writes one grant per channel it then holds; the grants, not the
\* targets, decide what the key reaches.  A grant counts while the channel
\* still lies under the origin it was granted for, so a channel that
\* joins a group later is not reached by the keys that selected the group.
\*
\* Every mutation is one transaction run under the coordinator's mutex, so
\* it is one action.  A write with a stale updated_at, or one that fails a
\* check, changes nothing and is left out.
EXTENDS Naturals, FiniteSets

CONSTANTS
    Groups,       \* routing groups
    Channels,     \* logical channels
    Policies,     \* self-service API key policies
    UserGroups,   \* user groups other than the default one
    Users,        \* console users
    Keys,         \* API keys
    None,         \* no policy, no group
    Everyone,     \* the default user group, which cannot be deleted
    Writes        \* bound: mutations of each kind a behaviour performs

Kinds == {"topology", "policy", "account", "key"}

KeyAssumption ==
    /\ Writes \in [Kinds -> Nat]
    /\ Everyone \notin UserGroups
    /\ Keys \cap Policies = {}
    /\ None \notin Policies \cup Groups \cup UserGroups \cup {Everyone}

VARIABLES
    group,    \* routing_groups: the live ones
    home,     \* logical_channels: the group of each live channel, None before
              \* it is created and after it is deleted
    gone,     \* the deleted channels: the rows stay
    policy,   \* api_key_policies and their grants
    usergroup,\* user_groups: default policy of each live one
    user,     \* users
    key,      \* api_keys and their grants
    offered,  \* history: the channels a target held when it was selected
    left      \* mutations left

vars == <<group, home, gone, policy, usergroup, user, key, offered, left>>
topology == <<group, home, gone>>
accounts == <<usergroup, user>>

Holders == Policies \cup Keys
Targets == [kind: {"group"}, id: Groups] \cup [kind: {"channel"}, id: Channels]
\* authorization.rs Grant: a channel and the target it was granted for
Grants == [channel: Channels, origin: Targets]
PolicyRow == [exists: BOOLEAN, enabled: BOOLEAN, targets: SUBSET Targets,
              grants: SUBSET Grants]
UserRow == [status: {"absent", "active", "disabled"},
            group: UserGroups \cup {Everyone}, policy: Policies \cup {None}]
KeyRow == [status: {"absent", "active", "disabled", "revoked"},
           deleted: BOOLEAN, owner: Users, targets: SUBSET Targets,
           grants: SUBSET Grants]

TypeOK ==
    /\ group \subseteq Groups
    /\ home \in [Channels -> Groups \cup {None}]
    /\ gone \subseteq Channels
    /\ policy \in [Policies -> PolicyRow]
    /\ usergroup \in [UserGroups \cup {Everyone} ->
                        [live: BOOLEAN, policy: Policies \cup {None}]]
    /\ user \in [Users -> UserRow]
    /\ key \in [Keys -> KeyRow]
    /\ offered \in [Holders -> SUBSET Grants]
    /\ left \in [Kinds -> Nat]

Init ==
    /\ group = Groups
    /\ home \in [Channels -> Groups \cup {None}]
    /\ gone = {}
    /\ policy = [p \in Policies |-> [exists |-> FALSE, enabled |-> FALSE,
                                     targets |-> {}, grants |-> {}]]
    /\ usergroup = [g \in UserGroups \cup {Everyone} |->
                      [live |-> TRUE, policy |-> None]]
    /\ user = [u \in Users |-> [status |-> "active", group |-> Everyone,
                                policy |-> None]]
    /\ \E u \in Users : key = [k \in Keys |->
          [status |-> "absent", deleted |-> FALSE, owner |-> u,
           targets |-> {}, grants |-> {}]]
    /\ offered = [h \in Holders |-> {}]
    /\ left = Writes

Pay(kind) ==
    /\ left[kind] > 0
    /\ left' = [left EXCEPT ![kind] = @ - 1]

--------------------
\* Grants

\* resolve: the live channels, those of a live group
LiveChannels == {c \in Channels : home[c] # None /\ home[c] \in group}
LiveTarget(t) ==
    IF t.kind = "group" THEN t.id \in group ELSE t.id \in LiveChannels
\* the origin still holds the channel
Under(c, t) == IF t.kind = "group" THEN home[c] = t.id ELSE c = t.id
Holds(t) == {c \in LiveChannels : Under(c, t)}

\* Mutant of Matching: a grant counts whatever the channel's group is now
MatchingAny(grants) ==
    {c \in LiveChannels : \E g \in grants : g.channel = c}

\* runtime.rs grant_matches_origin, fold_grants: what a set of grants reaches
Matching(grants) ==
    {c \in LiveChannels : \E g \in grants : g.channel = c /\ Under(c, g.origin)}

\* COALESCE(user policy, user group policy), on a live group; None without one
EffectivePolicy(u) ==
    LET g == usergroup[user[u].group]
    IN  IF ~g.live THEN None
        ELSE IF user[u].policy # None THEN user[u].policy ELSE g.policy

\* resolve: the channels a self-service write may select
PolicyAllows(p) ==
    IF p # None /\ policy[p].enabled THEN Matching(policy[p].grants) ELSE {}

\* resolve: the grants that selecting targets yields out of the allowed channels
Plan(targets, allowed) ==
    {g \in Grants : g.origin \in targets /\ g.channel \in Holds(g.origin) \cap allowed}

\* resolve: an administrator selects any live target, a self-service write
\* only targets each of which yields a grant
AdminResolves(targets) == \A t \in targets : LiveTarget(t)
SelfResolves(targets, p) ==
    /\ AdminResolves(targets)
    /\ \A t \in targets : \E g \in Plan(targets, PolicyAllows(p)) : g.origin = t

\* reconcile: retained targets keep their grants and never expand
Reconcile(row, targets, plan) ==
    {g \in row.grants : g.origin \in targets}
      \cup {g \in plan : g.origin \notin row.targets}

\* pg_write without a plan: resolve_added, then the rows are replaced
AddedTargets(row, targets) == targets \ row.targets
AdminGrants(row, targets) ==
    Reconcile(row, targets, Plan(AddedTargets(row, targets), Channels))

\* history: what the newly selected targets hold, what the others held
Offer(h, row, targets, allowed) ==
    offered' = [offered EXCEPT ![h] =
        {g \in @ : g.origin \in targets}
          \cup Plan(AddedTargets(row, targets), allowed)]

--------------------
\* Topology mutations: UpstreamTopology models them in full

CreateChannel(c, g) ==
    /\ Pay("topology")
    /\ home[c] = None /\ c \notin gone /\ g \in group
    /\ home' = [home EXCEPT ![c] = g]
    /\ UNCHANGED <<group, gone, policy, accounts, key, offered>>

MoveChannel(c, g) ==
    /\ Pay("topology")
    /\ c \in LiveChannels /\ g \in group \ {home[c]}
    /\ home' = [home EXCEPT ![c] = g]
    /\ UNCHANGED <<group, gone, policy, accounts, key, offered>>

DeleteChannel(c) ==
    /\ Pay("topology")
    /\ c \in LiveChannels
    /\ home' = [home EXCEPT ![c] = None]
    /\ gone' = gone \cup {c}
    /\ UNCHANGED <<group, policy, accounts, key, offered>>

DeleteGroup(g) ==
    /\ Pay("topology")
    /\ g \in group
    /\ \A c \in Channels : home[c] # g
    /\ group' = group \ {g}
    /\ UNCHANGED <<home, gone, policy, accounts, key, offered>>

--------------------
\* Policies, user groups and users

\* api_key_policy_insert: create or update, grants written in the transaction
SavedPolicy(p, targets, on) ==
    [exists |-> TRUE, enabled |-> on, targets |-> targets,
     grants |-> AdminGrants(policy[p], targets)]

SavePolicy(p, targets, on) ==
    /\ Pay("policy")
    /\ targets # {}
    /\ AdminResolves(AddedTargets(policy[p], targets))
    /\ policy' = [policy EXCEPT ![p] = SavedPolicy(p, targets, on)]
    /\ Offer(p, policy[p], targets, Channels)
    /\ UNCHANGED <<topology, accounts, key>>

\* ensure_enabled_policy: asked when the policy changes
PolicyAssignable(p, was) == p \notin {None, was} => policy[p].enabled

\* user_group_insert, the update branch
UpdateUserGroup(g, p) ==
    /\ Pay("account")
    /\ usergroup[g].live
    /\ PolicyAssignable(p, usergroup[g].policy)
    /\ usergroup' = [usergroup EXCEPT ![g].policy = p]
    /\ UNCHANGED <<topology, policy, user, key, offered>>

\* user_group_soft_delete: the members move to the default group of their role
Reassigned(g) ==
    [u \in Users |-> IF user[u].group = g
                     THEN [user[u] EXCEPT !.group = Everyone] ELSE user[u]]

DeleteUserGroup(g) ==
    /\ Pay("account")
    /\ g # Everyone /\ usergroup[g].live
    /\ user' = Reassigned(g)
    /\ usergroup' = [usergroup EXCEPT ![g].live = FALSE]
    /\ UNCHANGED <<topology, policy, key, offered>>

\* one item of update_users_batch: a field left out is "keep"
BatchedUser(u, status, g, p) ==
    [status |-> IF status = "keep" THEN user[u].status ELSE status,
     group |-> IF g = "keep" THEN user[u].group ELSE g,
     policy |-> IF p = "keep" THEN user[u].policy ELSE p]

\* update_users_batch, with one item per user of us: every item is accepted or
\* none is; an administrator never suspends itself
BatchUsers(actor, us, status, g, p) ==
    /\ Pay("account")
    /\ us # {} /\ \A u \in us : user[u].status # "absent"
    /\ status \notin {"active", "keep"} => actor \notin us
    /\ g # "keep" => usergroup[g].live
    /\ p # "keep" => PolicyAssignable(p, None)
    /\ <<status, g, p>> # <<"keep", "keep", "keep">>
    /\ user' = [u \in Users |->
          IF u \in us THEN BatchedUser(u, status, g, p) ELSE user[u]]
    /\ UNCHANGED <<topology, policy, usergroup, key, offered>>

--------------------
\* Keys

Live(k) == key[k].status # "absent" /\ ~key[k].deleted

\* the row that an insert or an update leaves
Written(k, status, u, targets, grants) ==
    [status |-> status, deleted |-> key[k].deleted, owner |-> u,
     targets |-> targets, grants |-> grants]

\* CreateApiKey: any live owner, targets resolved without a policy
CreateKey(k, u, targets) ==
    /\ Pay("key")
    /\ key[k].status = "absent" /\ user[u].status # "absent"
    /\ targets # {} /\ AdminResolves(targets)
    /\ key' = [key EXCEPT ![k] =
          Written(k, "active", u, targets, AdminGrants(key[k], targets))]
    /\ Offer(k, key[k], targets, Channels)
    /\ UNCHANGED <<topology, policy, accounts>>

\* Mutant of KeepsRevoked: the status of a revoked key is not guarded
KeepsRevokedAny(k, status) == TRUE

\* UPDATE ... AND NOT (status='revoked' AND $3 <> 'revoked')
KeepsRevoked(k, status) == key[k].status = "revoked" => status = "revoked"

\* UpdateApiKey by an administrator: only added targets are resolved
UpdateKey(k, targets, status) ==
    /\ Pay("key")
    /\ Live(k) /\ KeepsRevoked(k, status)
    /\ targets # {} /\ AdminResolves(AddedTargets(key[k], targets))
    /\ key' = [key EXCEPT ![k] =
          Written(k, status, key[k].owner, targets, AdminGrants(key[k], targets))]
    /\ Offer(k, key[k], targets, Channels)
    /\ UNCHANGED <<topology, policy, accounts>>

\* the row a self-service write leaves: new targets are resolved under the
\* policy, unchanged ones keep the grants as they are
OwnCreated(k, u, targets) ==
    Written(k, "active", u, targets, Plan(targets, PolicyAllows(EffectivePolicy(u))))
OwnUpdated(k, targets, status) ==
    LET row == key[k]
        plan == Plan(targets, PolicyAllows(EffectivePolicy(row.owner)))
    IN  Written(k, status, row.owner, targets,
                IF targets = row.targets THEN row.grants
                ELSE Reconcile(row, targets, plan))

\* create_own_api_key
CreateOwnKey(k, u, targets) ==
    /\ Pay("key")
    /\ key[k].status = "absent" /\ user[u].status = "active"
    /\ targets # {} /\ SelfResolves(targets, EffectivePolicy(u))
    /\ key' = [key EXCEPT ![k] = OwnCreated(k, u, targets)]
    /\ Offer(k, key[k], targets, Matching(policy[EffectivePolicy(u)].grants))
    /\ UNCHANGED <<topology, policy, accounts>>

\* update_own_api_key: all the targets must resolve again once they change
UpdateOwnKey(k, targets, status) ==
    LET u == key[k].owner
        p == EffectivePolicy(u)
    IN  /\ Pay("key")
        /\ Live(k) /\ key[k].status # "revoked"
        /\ (targets # key[k].targets) =>
              /\ targets # {} /\ user[u].status = "active"
              /\ SelfResolves(targets, p)
        /\ key' = [key EXCEPT ![k] = OwnUpdated(k, targets, status)]
        /\ (IF targets = key[k].targets THEN UNCHANGED offered
            ELSE Offer(k, key[k], targets, Matching(policy[p].grants)))
        /\ UNCHANGED <<topology, policy, accounts>>

\* RevokeApiKey and revoke_own_api_key
RevokeKey(k) ==
    /\ Pay("key")
    /\ Live(k) /\ key[k].status # "revoked"
    /\ key' = [key EXCEPT ![k].status = "revoked"]
    /\ UNCHANGED <<topology, policy, accounts, offered>>

\* api_key_soft_delete: revoked, the secret erased
DeleteKey(k) ==
    /\ Pay("key")
    /\ Live(k)
    /\ key' = [key EXCEPT ![k] =
          [Written(k, "revoked", key[k].owner, key[k].targets, key[k].grants)
             EXCEPT !.deleted = TRUE]]
    /\ UNCHANGED <<topology, policy, accounts, offered>>

--------------------
Next ==
    \/ \E c \in Channels, g \in Groups : CreateChannel(c, g) \/ MoveChannel(c, g)
    \/ \E c \in Channels : DeleteChannel(c)
    \/ \E g \in Groups : DeleteGroup(g)
    \/ \E p \in Policies, t \in SUBSET Targets, on \in BOOLEAN : SavePolicy(p, t, on)
    \/ \E g \in UserGroups \cup {Everyone}, p \in Policies \cup {None} :
          UpdateUserGroup(g, p)
    \/ \E g \in UserGroups : DeleteUserGroup(g)
    \/ \E a \in Users, us \in SUBSET Users, s \in {"active", "disabled", "keep"},
          g \in UserGroups \cup {Everyone, "keep"}, p \in Policies \cup {None, "keep"} :
          BatchUsers(a, us, s, g, p)
    \/ \E k \in Keys, u \in Users, t \in SUBSET Targets :
          CreateKey(k, u, t) \/ CreateOwnKey(k, u, t)
    \/ \E k \in Keys, t \in SUBSET Targets :
          \/ \E s \in {"active", "disabled", "revoked"} : UpdateKey(k, t, s)
          \/ \E s \in {"active", "disabled"} : UpdateOwnKey(k, t, s)
    \/ \E k \in Keys : RevokeKey(k) \/ DeleteKey(k)

Spec == Init /\ [][Next]_vars

--------------------
\* Properties

\* compile_keys: the key is in the snapshot and its owner may use it
Usable(k) ==
    /\ Live(k) /\ key[k].status = "active"
    /\ user[key[k].owner].status = "active"
    /\ usergroup[user[key[k].owner].group].live
Reach(k) == IF Usable(k) THEN Matching(key[k].grants) ELSE {}

\* A key reaches a channel only under a target it still selects, and only if
\* the target held the channel when it was selected: neither a later member of
\* a selected group nor an edit that keeps the group (reconcile) adds to it.
ReachIsWhatWasSelected ==
    \A k \in Keys : \A c \in Reach(k) :
        \E g \in offered[k] :
            g.channel = c /\ g.origin \in key[k].targets /\ Under(c, g.origin)

\* The same for a policy: what self-service may hand out is what the
\* administrator saw in the group, not what the group has become.
PolicyIsWhatWasSelected ==
    \A p \in Policies : Matching(policy[p].grants) \subseteq
        {g.channel : g \in {h \in offered[p] : Under(h.channel, h.origin)}}

\* A channel that a self-service write (create_own_api_key, update_own_api_key)
\* adds to a key is one that the owner's effective policy, enabled at that
\* moment, allows under the channel's current group.
SelfServiceWithinPolicy ==
    \A k \in Keys :
      LET u == key'[k].owner
          p == EffectivePolicy(u)
          t == key'[k].targets
          added == Matching(key'[k].grants) \ Matching(key[k].grants)
      IN  (CreateOwnKey(k, u, t) \/ UpdateOwnKey(k, t, key'[k].status))
             /\ added # {} =>
             /\ p # None /\ policy[p].enabled
             /\ \A c \in added : \E g \in policy[p].grants :
                   g.channel = c /\ Under(c, g.origin)

\* Deleting a user group leaves no user in it: the loader joins live groups,
\* and the keys of a user left behind would silently stop working.
NoUserInDeletedGroup ==
    \A u \in Users : user[u].status # "absent" => usergroup[user[u].group].live

\* No sequence of administrator and owner edits brings a revoked or deleted
\* key back.
RevokedIsFinal ==
    \A k \in Keys :
      /\ (key[k].status = "revoked" => key'[k].status = "revoked")
      /\ (key[k].deleted => key'[k] = key[k])

\* What keys and policies reach, and whose keys work, together.
KeysSound ==
    ReachIsWhatWasSelected /\ PolicyIsWhatWasSelected /\ NoUserInDeletedGroup

\* What no write does to a key.
KeyRights == RevokedIsFinal /\ SelfServiceWithinPolicy

--------------------
\* The inductive invariant behind KeysSound and KeyRights

\* A grant of a key or a policy is one that a target offered when it was
\* selected, and a key's grants are those of the targets it still selects.
GrantsWereOffered ==
    /\ \A k \in Keys : \A g \in key[k].grants :
          g \in offered[k] /\ g.origin \in key[k].targets
    /\ \A p \in Policies : policy[p].grants \subseteq offered[p]

\* A key that was not created yet selects nothing and is not a deleted one.
AbsentSelectsNothing ==
    \A k \in Keys : key[k].status = "absent" => key[k].targets = {} /\ ~key[k].deleted

\* Every user, deleted or not, is in a live group; the default one stays.
GroupsAreLive ==
    usergroup[Everyone].live /\ \A u \in Users : usergroup[user[u].group].live

KeyInv == TypeOK /\ GrantsWereOffered /\ AbsentSelectsNothing /\ GroupsAreLive
=============================================================================
