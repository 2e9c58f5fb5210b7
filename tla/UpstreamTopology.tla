-------------------------- MODULE UpstreamTopology --------------------------
\* The upstream half of the control-plane store: routing groups, upstream
\* accesses, credentials, logical channels, channel capabilities, models
\* with their routing profiles, operation rules, proxies and templates.
\* Every write is one transaction of the coordinator: the mutation's own
\* checks, then the whole resulting store is resolved and compiled, and
\* only a store that compiles is committed.
\*
\* A row carries the updated_at that the database stamps on every UPDATE;
\* an administrator edits a row it read earlier (view) and sends that
\* stamp back.  A transaction has one timestamp, here the number of
\* committed writes.  PostgreSQL and SQLite have their own copy of every
\* write; the two are the same action.
EXTENDS Naturals, FiniteSets

CONSTANTS Groups, Accesses, Credentials, Channels, Capabilities, Models, Rules,
          Proxies, Templates, Operations, Connectors, Urls, UpstreamModels,
          Priorities, Names, None,
          Managed,      \* connectors whose credentials a provider flow creates
          Probed,       \* operations that have a scheduled test
          StartStore,   \* the stores a run starts from
          MaxWrites     \* bound on committed writes

ConstantsAssumption ==
  /\ MaxWrites \in Nat
  /\ Managed \subseteq Connectors
  /\ Probed \subseteq Operations

VARIABLES db, view

vars == <<db, view>>

States == {"absent", "live", "dead"}

Candidates == Capabilities \X UpstreamModels

Tables == [group |-> Groups, access |-> Accesses, cred |-> Credentials,
           chan |-> Channels, cap |-> Capabilities, model |-> Models,
           rule |-> Rules, proxy |-> Proxies, template |-> Templates]

\* The columns of each table that the writes and the compiler tell apart.
GroupRow == [st : States, name : Names, on : BOOLEAN, ver : Nat]
AccessRow == [st : States, conn : Connectors, url : Urls,
              proxy : Proxies \cup {None}, on : BOOLEAN, ver : Nat]
CredentialRow == [st : States, conn : Connectors, scope : SUBSET Urls,
                  on : BOOLEAN, ver : Nat]
ChannelRow == [st : States, group : Groups, access : Accesses,
               cred : Credentials \cup {None}, name : Names, on : BOOLEAN,
               ver : Nat]
CapabilityRow ==
  [st : States, chan : Channels, op : Operations, on : BOOLEAN,
   models : SUBSET UpstreamModels,
   test : (UpstreamModels \X Models) \cup {None},
   template : Templates \cup {None}, allowed : BOOLEAN, down : BOOLEAN,
   ver : Nat]
RuleRow == [st : States, model : Models, op : Operations, on : BOOLEAN,
            tiers : [Priorities -> SUBSET Candidates], ver : Nat]
ModelRow == [st : States, on : BOOLEAN, profile : BOOLEAN, ver : Nat]
SwitchRow == [st : States, on : BOOLEAN, ver : Nat]
SettingsRow == [disable : BOOLEAN, recover : BOOLEAN, ver : Nat]

Stores == [clock : 0..MaxWrites, settings : SettingsRow,
           held : SUBSET Proxies,  \* proxies that provider logins still use
           group : [Groups -> GroupRow], access : [Accesses -> AccessRow],
           cred : [Credentials -> CredentialRow],
           chan : [Channels -> ChannelRow],
           cap : [Capabilities -> CapabilityRow], model : [Models -> ModelRow],
           rule : [Rules -> RuleRow], proxy : [Proxies -> SwitchRow],
           template : [Templates -> SwitchRow]]

Live(d, t, x) == x # None /\ d[t][x].st = "live"

Enabled(d, t, x) == Live(d, t, x) /\ d[t][x].on

LiveOf(d, t) == {x \in Tables[t] : d[t][x].st = "live"}

--------------------
\* The compiler: what a store must satisfy to be published.

AccessValid(d, a) ==
  LET p == d.access[a].proxy IN p # None => Enabled(d, "proxy", p)

\* Mutant of AllowsTarget: a credential is good for every target.
AllowsTargetAny(cr, url) == url \in Urls

AllowsTarget(cr, url) == url \in cr.scope

\* A channel without a credential is fine unless the connector is managed;
\* a credential must be of the access's connector, alive and in scope.
CredentialResolves(d, access, cred) ==
  IF cred = None
  THEN d.access[access].conn \notin Managed
  ELSE /\ d.cred[cred].conn = d.access[access].conn
       /\ Live(d, "cred", cred)
       /\ AllowsTarget(d.cred[cred], d.access[access].url)

ChannelValid(d, c) ==
  LET ch == d.chan[c] IN
  /\ Live(d, "access", ch.access)
  /\ Live(d, "group", ch.group)
  /\ CredentialResolves(d, ch.access, ch.cred)

\* CapabilitySettings::validate for the connector of the access.
SettingsValid(p, conn) ==
  /\ ~(conn = "codex" /\ p.op = "chat")
  /\ p.test # None => /\ conn \notin Managed
                      /\ p.op \in Probed
                      /\ p.test[1] \in p.models

CapabilityValid(d, p) ==
  LET cap == d.cap[p] IN
  /\ Live(d, "chan", cap.chan)
  /\ ChannelValid(d, cap.chan)
  /\ SettingsValid(cap, d.access[d.chan[cap.chan].access].conn)

\* The template must be enabled, whether or not the capability is.
ResourcesValid(d, p) ==
  LET t == d.cap[p].template IN t # None => Enabled(d, "template", t)

TestModelValid(d, p) ==
  d.cap[p].test # None => Live(d, "model", d.cap[p].test[2])

TiersUsed(r) == {q \in Priorities : r.tiers[q] # {}}

CandidatesOf(r) == UNION {r.tiers[q] : q \in Priorities}

\* The rules of a deleted model are skipped.
RuleResolves(d, r) ==
  LET rule == d.rule[r] IN
  Live(d, "model", rule.model) =>
    \A c \in CandidatesOf(rule) :
      Live(d, "cap", c[1]) /\ d.cap[c[1]].op = rule.op

RuleValid(d, r) ==
  Live(d, "model", d.rule[r].model) /\ d.rule[r].on
    => TiersUsed(d.rule[r]) # {}

\* resolve_runtime: the topology as the compiler's input, or an error.
ResolveRuntime(d) ==
  /\ \A a \in LiveOf(d, "access") : AccessValid(d, a)
  /\ \A c \in LiveOf(d, "chan") : ChannelValid(d, c)
  /\ \A p \in LiveOf(d, "cap") : CapabilityValid(d, p)
  /\ \A r \in LiveOf(d, "rule") : RuleResolves(d, r)

Compiles(d) ==
  /\ ResolveRuntime(d)
  /\ \A p \in LiveOf(d, "cap") : ResourcesValid(d, p) /\ TestModelValid(d, p)
  /\ \A r \in LiveOf(d, "rule") : RuleValid(d, r)

--------------------
\* The transaction.

\* One row written at the transaction's timestamp.
Put(d, t, x, row) == [d EXCEPT ![t][x] = [row EXCEPT !.ver = d.clock + 1]]

\* commit_change: compile the prepared store, then commit.
Commit(new) ==
  /\ db.clock < MaxWrites
  /\ Compiles(new)
  /\ db' = [new EXCEPT !.clock = @ + 1]
  /\ UNCHANGED view

\* The rows an administrator's form may be filled from.
Bases(t, x) ==
  {db[t][x]} \cup (IF view # None /\ view.table = t /\ view.id = x
                   THEN {view.row} ELSE {})

\* The optimistic lock: the row is live and unchanged since it was read.
Current(t, x, base) == Live(db, t, x) /\ db[t][x].ver = base.ver

\* An administrator opens a row's form; one form is open in a run.
Read(t, x) ==
  /\ view = None
  /\ Live(db, t, x)
  /\ view' = [table |-> t, id |-> x, row |-> db[t][x]]
  /\ UNCHANGED db

--------------------
\* Routing groups.

\* A live group's name is unique, a live channel's within its group.
NameFree(d, t, x, row) ==
  \A y \in LiveOf(d, t) \ {x} :
    d[t][y].name = row.name => (t = "chan" /\ d.chan[y].group # row.group)

GroupForms(base) ==
  {[base EXCEPT !.name = n] : n \in Names} \cup {[base EXCEPT !.on = ~@]}

CreateGroup(g) ==
  /\ db.group[g].st = "absent"
  /\ \E n \in Names :
       LET row == [st |-> "live", name |-> n, on |-> TRUE, ver |-> 0] IN
       /\ NameFree(db, "group", g, row)
       /\ Commit(Put(db, "group", g, row))

UpdateGroup(g) ==
  \E base \in Bases("group", g) :
    /\ Current("group", g, base)
    /\ \E row \in GroupForms(base) \ {base} :
         /\ NameFree(db, "group", g, row)
         /\ Commit(Put(db, "group", g, row))

\* Any live member channel blocks deletion, even when disabled.
GroupDeletable(d, g) ==
  /\ Live(d, "group", g)
  /\ \A c \in LiveOf(d, "chan") : d.chan[c].group # g

Tombstone(d, t, x) ==
  Put(d, t, x, [d[t][x] EXCEPT !.st = "dead", !.on = FALSE])

DeleteGroup(g) ==
  \E base \in Bases("group", g) :
    /\ Current("group", g, base)
    /\ GroupDeletable(db, g)
    /\ Commit(Tombstone(db, "group", g))

--------------------
\* Upstream accesses are never deleted and keep their connector.

CreateAccess(a) ==
  /\ db.access[a].st = "absent"
  /\ \E conn \in Connectors, u \in Urls, p \in Proxies \cup {None} :
       Commit(Put(db, "access", a,
                  [st |-> "live", conn |-> conn, url |-> u, proxy |-> p,
                   on |-> TRUE, ver |-> 0]))

AccessForms(base) ==
  {[base EXCEPT !.url = u] : u \in Urls}
  \cup {[base EXCEPT !.proxy = p] : p \in Proxies \cup {None}}
  \cup {[base EXCEPT !.on = ~@]}

UpdateAccess(a) ==
  \E base \in Bases("access", a) :
    /\ Current("access", a, base)
    /\ \E row \in AccessForms(base) \ {base} : Commit(Put(db, "access", a, row))

--------------------
\* Upstream credentials: kind and connector are fixed, managed ones are
\* written only by their provider's flow.

CredentialValid(row) == row.conn \notin Managed /\ row.scope # {}

\* A new scope must still allow every live binding.
BindingsAllowed(d, k, row) ==
  \A c \in LiveOf(d, "chan") :
    d.chan[c].cred = k => AllowsTarget(row, d.access[d.chan[c].access].url)

CreateCredential(k) ==
  /\ db.cred[k].st = "absent"
  /\ \E conn \in Connectors, s \in SUBSET Urls :
       LET row == [st |-> "live", conn |-> conn, scope |-> s, on |-> TRUE,
                   ver |-> 0] IN
       CredentialValid(row) /\ Commit(Put(db, "cred", k, row))

CredentialForms(base) ==
  {[base EXCEPT !.scope = s] : s \in SUBSET Urls}
  \cup {[base EXCEPT !.on = ~@]}

UpdateCredential(k) ==
  \E base \in Bases("cred", k) :
    /\ Current("cred", k, base)
    /\ \E row \in CredentialForms(base) \ {base} :
         /\ CredentialValid(row)
         /\ BindingsAllowed(db, k, row)
         /\ Commit(Put(db, "cred", k, row))

CredentialDeletable(d, k) ==
  /\ Live(d, "cred", k)
  /\ d.cred[k].conn \notin Managed
  /\ \A c \in LiveOf(d, "chan") : d.chan[c].cred # k

DeleteCredential(k) ==
  \E base \in Bases("cred", k) :
    /\ Current("cred", k, base)
    /\ CredentialDeletable(db, k)
    /\ Commit(Tombstone(db, "cred", k))

--------------------
\* Logical channels bind one access and at most one credential.

\* Group and access must be live, the name free in the group, and the
\* credential alive and in scope.
ChannelAccepts(d, c, row) ==
  /\ Live(d, "group", row.group)
  /\ Live(d, "access", row.access)
  /\ NameFree(d, "chan", c, row)
  /\ row.cred # None => /\ Live(d, "cred", row.cred)
                        /\ AllowsTarget(d.cred[row.cred],
                                        d.access[row.access].url)

CreateChannel(c) ==
  /\ db.chan[c].st = "absent"
  /\ \E g \in Groups, a \in Accesses, k \in Credentials \cup {None},
        n \in Names :
       LET row == [st |-> "live", group |-> g, access |-> a, cred |-> k,
                   name |-> n, on |-> TRUE, ver |-> 0] IN
       ChannelAccepts(db, c, row) /\ Commit(Put(db, "chan", c, row))

ChannelForms(base) ==
  {[base EXCEPT !.group = g] : g \in Groups}
  \cup {[base EXCEPT !.access = a] : a \in Accesses}
  \cup {[base EXCEPT !.cred = k] : k \in Credentials \cup {None}}
  \cup {[base EXCEPT !.name = n] : n \in Names}
  \cup {[base EXCEPT !.on = ~@]}

UpdateChannel(c) ==
  \E base \in Bases("chan", c) :
    /\ Current("chan", c, base)
    /\ \E row \in ChannelForms(base) \ {base} :
         ChannelAccepts(db, c, row) /\ Commit(Put(db, "chan", c, row))

ChannelDeletable(d, c) ==
  /\ Live(d, "chan", c)
  /\ \A p \in LiveOf(d, "cap") : d.cap[p].chan # c

DeleteChannel(c) ==
  \E base \in Bases("chan", c) :
    /\ Current("chan", c, base)
    /\ ChannelDeletable(db, c)
    /\ Commit(Tombstone(db, "chan", c))

--------------------
\* Channel capabilities.

\* One capability per channel and operation, tombstones included.
CapabilityAccepts(d, p, row) ==
  /\ Live(d, "chan", row.chan)
  /\ Live(d, "access", d.chan[row.chan].access)
  /\ SettingsValid(row, d.access[d.chan[row.chan].access].conn)
  /\ \A q \in Capabilities \ {p} :
       d.cap[q].st # "absent" /\ d.cap[q].chan = row.chan
         => d.cap[q].op # row.op

ReferencesLive(d, row) ==
  /\ row.template # None => Enabled(d, "template", row.template)
  /\ row.test # None => Live(d, "model", row.test[2])

CreateCapability(p) ==
  /\ db.cap[p].st = "absent"
  /\ \E c \in Channels, op \in Operations, ms \in SUBSET UpstreamModels :
       LET row == [st |-> "live", chan |-> c, op |-> op, on |-> TRUE,
                   models |-> ms, test |-> None, template |-> None,
                   allowed |-> FALSE, down |-> FALSE, ver |-> 0] IN
       /\ CapabilityAccepts(db, p, row)
       /\ ReferencesLive(db, row)
       /\ Commit(Put(db, "cap", p, row))

\* The channel and the operation of a capability cannot be edited.
CapabilityForms(base) ==
  {[base EXCEPT !.models = ms] : ms \in SUBSET UpstreamModels}
  \cup {[base EXCEPT !.test = t] : t \in (UpstreamModels \X Models) \cup {None}}
  \cup {[base EXCEPT !.template = t] : t \in Templates \cup {None}}
  \cup {[base EXCEPT !.on = ~@], [base EXCEPT !.allowed = ~@]}

\* The form does not carry auto_disabled: the stored value is kept.
UpdateCapability(p) ==
  \E base \in Bases("cap", p) :
    /\ Current("cap", p, base)
    /\ \E row \in CapabilityForms(base) \ {base} :
         /\ CapabilityAccepts(db, p, row)
         /\ ReferencesLive(db, row)
         /\ Commit(Put(db, "cap", p, [row EXCEPT !.down = db.cap[p].down]))

\* update_channels_batch: every item must be live and current, or none is
\* written.
BatchCapabilities(ps) ==
  \E form \in [{"on", "allowed"} -> BOOLEAN \cup {None}] :
    LET set(f, old) == IF form[f] = None THEN old ELSE form[f]
        edited(p) == [db.cap[p] EXCEPT !.on = set("on", @),
                                       !.allowed = set("allowed", @),
                                       !.ver = db.clock + 1]
    IN /\ \E f \in DOMAIN form : form[f] # None
       /\ ps # {}
       /\ \A p \in ps : \E base \in Bases("cap", p) : Current("cap", p, base)
       /\ Commit([db EXCEPT !.cap = [p \in Capabilities |->
                    IF p \in ps THEN edited(p) ELSE @[p]]])

Affected(d, p) ==
  {r \in LiveOf(d, "rule") :
     \E c \in CandidatesOf(d.rule[r]) : c[1] = p}

Without(tiers, p) ==
  [q \in Priorities |-> {c \in tiers[q] : c[1] # p}]

\* Candidates and emptied tiers go; a rule left without a tier is disabled
\* and every touched rule is stamped.
Detach(d, p) ==
  [d EXCEPT !.rule = [r \in Rules |->
     IF r \notin Affected(d, p) THEN d.rule[r]
     ELSE LET tiers == Without(d.rule[r].tiers, p) IN
          [d.rule[r] EXCEPT !.on = @ /\ \E q \in Priorities : tiers[q] # {},
                            !.tiers = tiers, !.ver = d.clock + 1]]]

CapabilityRemoved(d, p) ==
  Tombstone([Detach(d, p) EXCEPT !.cap[p].down = FALSE], "cap", p)

DeleteCapability(p) ==
  \E base \in Bases("cap", p) :
    /\ Current("cap", p, base)
    /\ Commit(CapabilityRemoved(db, p))

\* Automatic disable: the persisted policy and the capability's opt-in are
\* read in the transaction that writes the flag.
DisableEligible(d, p) ==
  /\ d.settings.disable
  /\ Live(d, "cap", p)
  /\ d.cap[p].on /\ d.cap[p].allowed /\ ~d.cap[p].down

AutoDisable(p) ==
  /\ DisableEligible(db, p)
  /\ Commit(Put(db, "cap", p, [db.cap[p] EXCEPT !.down = TRUE]))

RecoverEligible(d, p) ==
  /\ d.settings.recover
  /\ Live(d, "cap", p)
  /\ d.cap[p].on /\ d.cap[p].down

AutoRecover(p) ==
  /\ RecoverEligible(db, p)
  /\ Commit(Put(db, "cap", p, [db.cap[p] EXCEPT !.down = FALSE]))

\* channel_recover, by an administrator.
RecoverCapability(p) ==
  \E base \in Bases("cap", p) :
    /\ Current("cap", p, base)
    /\ db.cap[p].down
    /\ Commit(Put(db, "cap", p, [db.cap[p] EXCEPT !.down = FALSE]))

--------------------
\* Models, their routing profiles and the rules.

\* The row of a model entered by hand or imported from the catalogue.
NewModel == [st |-> "live", on |-> TRUE, profile |-> FALSE, ver |-> 0]

CreateModel(m) ==
  /\ db.model[m].st = "absent"
  /\ Commit(Put(db, "model", m, NewModel))

UpdateModel(m) ==
  \E base \in Bases("model", m) :
    /\ Current("model", m, base)
    /\ Commit(Put(db, "model", m,
                  [base EXCEPT !.on = ~@, !.profile = db.model[m].profile]))

\* A catalogue price is written by source id, without a version.
SyncModelPrice(m) ==
  /\ Live(db, "model", m)
  /\ Commit(Put(db, "model", m, db.model[m]))

\* A profile is a row of its own: the model is not stamped.
ProfileAccepts(d, m) == Enabled(d, "model", m) /\ ~d.model[m].profile

CreateProfile(m) ==
  /\ ProfileAccepts(db, m)
  /\ Commit([db EXCEPT !.model[m].profile = TRUE])

\* The rules of a deleted model lose their tiers; the enabled ones are
\* disabled, and only those are stamped.
Withdrawn(d, m) ==
  [r \in Rules |->
     IF d.rule[r].model # m \/ ~Live(d, "rule", r) THEN d.rule[r]
     ELSE [d.rule[r] EXCEPT !.tiers = [q \in Priorities |-> {}],
                            !.on = FALSE,
                            !.ver = IF d.rule[r].on THEN d.clock + 1 ELSE @]]

\* Scheduled tests priced by the model are cleared.
Untested(d, m) ==
  [p \in Capabilities |->
     IF Live(d, "cap", p) /\ d.cap[p].test # None /\ d.cap[p].test[2] = m
     THEN [d.cap[p] EXCEPT !.test = None, !.ver = d.clock + 1]
     ELSE d.cap[p]]

ModelRemoved(d, m) ==
  Tombstone([d EXCEPT !.rule = Withdrawn(d, m), !.cap = Untested(d, m)],
            "model", m)

DeleteModel(m) ==
  \E base \in Bases("model", m) :
    /\ Current("model", m, base)
    /\ Commit(ModelRemoved(db, m))

\* The graphs a rule is saved with: at most one candidate in a tier.
RuleTiers == [Priorities -> {s \in SUBSET Candidates : Cardinality(s) <= 1}]

RuleAccepts(d, row) ==
  /\ row.on => TiersUsed(row) # {}
  /\ \A c \in CandidatesOf(row) :
       /\ Live(d, "cap", c[1])
       /\ d.cap[c[1]].op = row.op
       /\ c[2] \in d.cap[c[1]].models
  /\ Live(d, "model", row.model) /\ d.model[row.model].profile

CreateRule(r) ==
  /\ db.rule[r].st = "absent"
  /\ \E m \in Models, op \in Operations, tiers \in RuleTiers :
       LET row == [st |-> "live", model |-> m, op |-> op,
                   on |-> \E q \in Priorities : tiers[q] # {},
                   tiers |-> tiers, ver |-> 0] IN
       /\ \A s \in LiveOf(db, "rule") :
            db.rule[s].model = m => db.rule[s].op # op
       /\ RuleAccepts(db, row)
       /\ Commit(Put(db, "rule", r, row))

\* The profile and the operation of a rule cannot be edited.
RuleForms(base) ==
  {[base EXCEPT !.tiers = tiers] : tiers \in RuleTiers}
  \cup {[base EXCEPT !.on = ~@]}

UpdateRule(r) ==
  \E base \in Bases("rule", r) :
    /\ Current("rule", r, base)
    /\ \E row \in RuleForms(base) \ {base} :
         RuleAccepts(db, row) /\ Commit(Put(db, "rule", r, row))

--------------------
\* Proxies, templates and settings.

CreateProxy(x) ==
  /\ db.proxy[x].st = "absent"
  /\ Commit(Put(db, "proxy", x, [st |-> "live", on |-> TRUE, ver |-> 0]))

UpdateProxy(x) ==
  \E base \in Bases("proxy", x) :
    /\ Current("proxy", x, base)
    /\ Commit(Put(db, "proxy", x, [base EXCEPT !.on = ~@]))

ProxyDeletable(d, x) ==
  /\ Live(d, "proxy", x)
  /\ x \notin d.held
  /\ \A a \in LiveOf(d, "access") : d.access[a].proxy # x

DeleteProxy(x) ==
  \E base \in Bases("proxy", x) :
    /\ Current("proxy", x, base)
    /\ ProxyDeletable(db, x)
    /\ Commit(Tombstone(db, "proxy", x))

CreateTemplate(t) ==
  /\ db.template[t].st = "absent"
  /\ Commit(Put(db, "template", t, [st |-> "live", on |-> TRUE, ver |-> 0]))

UpdateTemplate(t) ==
  \E base \in Bases("template", t) :
    /\ Current("template", t, base)
    /\ Commit(Put(db, "template", t, [base EXCEPT !.on = ~@]))

UpdateSettings ==
  \E d \in BOOLEAN, r \in BOOLEAN :
    Commit([db EXCEPT !.settings = [disable |-> d, recover |-> r,
                                    ver |-> db.clock + 1]])

--------------------
Init == db \in StartStore /\ view = None

Next ==
  \/ \E t \in DOMAIN Tables : \E x \in Tables[t] : Read(t, x)
  \/ \E g \in Groups : CreateGroup(g) \/ UpdateGroup(g) \/ DeleteGroup(g)
  \/ \E a \in Accesses : CreateAccess(a) \/ UpdateAccess(a)
  \/ \E k \in Credentials :
       CreateCredential(k) \/ UpdateCredential(k) \/ DeleteCredential(k)
  \/ \E c \in Channels : CreateChannel(c) \/ UpdateChannel(c) \/ DeleteChannel(c)
  \/ \E p \in Capabilities :
       \/ CreateCapability(p) \/ UpdateCapability(p) \/ DeleteCapability(p)
       \/ AutoDisable(p) \/ AutoRecover(p) \/ RecoverCapability(p)
  \/ \E ps \in SUBSET Capabilities : BatchCapabilities(ps)
  \/ \E m \in Models :
       \/ CreateModel(m) \/ UpdateModel(m) \/ SyncModelPrice(m)
       \/ CreateProfile(m) \/ DeleteModel(m)
  \/ \E r \in Rules : CreateRule(r) \/ UpdateRule(r)
  \/ \E x \in Proxies : CreateProxy(x) \/ UpdateProxy(x) \/ DeleteProxy(x)
  \/ \E t \in Templates : CreateTemplate(t) \/ UpdateTemplate(t)
  \/ UpdateSettings

Spec == Init /\ [][Next]_vars

--------------------
\* Every row is a row of its table.
TypeOK ==
  /\ db \in Stores
  /\ view = None \/ (view.id \in Tables[view.table] /\ view.row.ver \in Nat)

\* Whatever the order of writes, nothing alive hangs off something deleted
\* and no secret is bound outside its scope: a live channel has a live
\* group and access and a credential for that access's target, a live
\* capability a live channel, and a candidate of a rule of a live model is
\* a live capability of the rule's operation (upstream_topology/runtime.rs
\* resolve_runtime).
NothingDangles ==
  /\ \A c \in LiveOf(db, "chan") :
       LET ch == db.chan[c] IN
       /\ db.group[ch.group].st = "live"
       /\ db.access[ch.access].st = "live"
       /\ ch.cred # None => /\ db.cred[ch.cred].st = "live"
                            /\ db.access[ch.access].url \in db.cred[ch.cred].scope
  /\ \A p \in LiveOf(db, "cap") : db.chan[db.cap[p].chan].st = "live"
  /\ \A r \in LiveOf(db, "rule") :
       db.model[db.rule[r].model].st = "live" =>
         \A c \in CandidatesOf(db.rule[r]) :
           db.cap[c[1]].st = "live" /\ db.cap[c[1]].op = db.rule[r].op

\* A committed store can always be loaded again: a restart or a reload
\* after any sequence of writes finds a store that compiles
\* (application/control_plane.rs commit_change, reload).
ReloadSucceeds == Compiles(db)

\* The checks of a delete are the whole story: when they pass, the store
\* without the row compiles, so a delete is never refused by the compiler
\* after its own checks have accepted it (groups.rs, channels.rs,
\* capabilities.rs, upstream_credentials.rs check_delete, proxy_delete,
\* model_soft_delete).
DeletesCompile ==
  /\ \A g \in Groups :
       GroupDeletable(db, g) => Compiles(Tombstone(db, "group", g))
  /\ \A c \in Channels :
       ChannelDeletable(db, c) => Compiles(Tombstone(db, "chan", c))
  /\ \A k \in Credentials :
       CredentialDeletable(db, k) => Compiles(Tombstone(db, "cred", k))
  /\ \A x \in Proxies :
       ProxyDeletable(db, x) => Compiles(Tombstone(db, "proxy", x))
  /\ \A p \in LiveOf(db, "cap") : Compiles(CapabilityRemoved(db, p))
  /\ \A m \in LiveOf(db, "model") : Compiles(ModelRemoved(db, m))

\* A form that would still be accepted shows the stored row: no write, not
\* even the side effect of deleting a capability or a model or of an
\* automatic disable, changes a row under an accepted updated_at.  (The
\* rules of a deleted model change without a stamp, and are not accepted.)
\* A model's profile is a row of its own.
VersionIdentifiesRow ==
  (/\ view # None
   /\ Current(view.table, view.id, view.row)
   /\ view.table = "rule" => Live(db, "model", view.row.model))
  => IF view.table = "model"
     THEN db.model[view.id].on = view.row.on
     ELSE db[view.table][view.id] = view.row

\* A deleted model pins nothing: its rules, which cannot be edited any
\* more, hold no candidate that would keep a capability from being deleted
\* (postgres_control_plane.rs model_soft_delete).
Unpinned(d) ==
  \A r \in LiveOf(d, "rule") :
    d.model[d.rule[r].model].st = "dead" =>
      ~d.rule[r].on /\ CandidatesOf(d.rule[r]) = {}

DeletedModelPinsNothing == Unpinned(db)

\* Live groups have distinct names, and so have the live channels of one
\* group, also after channels move between groups and deleted names are
\* reused (groups.rs, channels.rs validate_replacement).
NamesApart(d) ==
  /\ \A g, h \in LiveOf(d, "group") :
       g # h => d.group[g].name # d.group[h].name
  /\ \A c, e \in LiveOf(d, "chan") :
       c # e /\ d.chan[c].group = d.chan[e].group
         => d.chan[c].name # d.chan[e].name

NamesUnique == NamesApart(db)

\* All of these.
TopologySound ==
  /\ ReloadSucceeds /\ NothingDangles /\ DeletesCompile
  /\ VersionIdentifiesRow /\ DeletedModelPinsNothing /\ NamesUnique

--------------------
\* The inductive invariant behind TopologySound.

\* No row is stamped in the future.
StampsPast(d) ==
  \A t \in DOMAIN Tables : \A x \in Tables[t] : d[t][x].ver <= d.clock

\* What an open form and a store whose row has the form's stamp agree on.
Shown(d, v) ==
  /\ v.table = "model" =>
       d.model[v.id] = [v.row EXCEPT !.profile = d.model[v.id].profile]
  /\ v.table = "rule" =>
       d.rule[v.id] = v.row \/ d.model[v.row.model].st = "dead"
  /\ v.table \notin {"model", "rule"} => d[v.table][v.id] = v.row

FormFits ==
  view # None =>
    /\ view.table \in DOMAIN Tables /\ view.id \in Tables[view.table]
    /\ view.table = "model" => view.row \in ModelRow
    /\ view.table = "rule" => view.row \in RuleRow
    /\ view.row.ver \in Nat /\ view.row.ver <= db.clock
    /\ db[view.table][view.id].ver = view.row.ver => Shown(db, view)

SoundStore(d) ==
  d \in Stores /\ Compiles(d) /\ StampsPast(d) /\ Unpinned(d) /\ NamesApart(d)

TopologyInv == SoundStore(db) /\ FormFits

\* A gateway starts on a store that it, or an earlier run of it, has
\* written: the empty one is sound.
TopologyAssumption ==
  /\ ConstantsAssumption /\ \A t \in DOMAIN Tables : None \notin Tables[t]
  /\ \A d \in StartStore : SoundStore(d)
=============================================================================
