-------------------------- MODULE CodexCredential ---------------------------
\* One Codex OAuth credential: its stored row, the calls to the provider
\* that refresh its rotating token, poll its quota or redeem a quota-reset
\* credit, the console's edits and re-imports, and the in-memory snapshot
\* that requests read.
\*
\* The two backends guard a provider call differently.  PostgreSQL keeps
\* the row locked in an open transaction across the call.  SQLite takes an
\* in-process lock and commits a durable intent before the call; triggers
\* refuse every update of the row until the intent is gone, and an unknown
\* outcome leaves the intent behind.
\*
\* The provider (external) accepts a refresh token once: it answers with
\* the same token or with a new one, and the answer may be lost.
EXTENDS Naturals, FiniteSets, TLAPS

CONSTANTS
    Backend,   \* "postgres" or "sqlite"
    Tasks,     \* requests, maintenance passes and console calls
    None,
    MaxToken,  \* bound: refresh tokens the provider issues
    MaxTime,   \* bound: quota polls, which order quota_checked_at
    Budget     \* bound: how often each kind of event happens

Kinds == {"refresh", "quota", "reset", "edit", "import", "crash"}

CodexAssumption ==
    /\ Backend \in {"postgres", "sqlite"}
    /\ Budget \in [Kinds -> Nat]
    /\ MaxToken \in Nat \ {0} /\ MaxTime \in Nat
    /\ None \notin Tasks
    /\ None \notin [by: Tasks, job: {"refresh", "reset"}, gen: Nat]

VARIABLES
    db,       \* the row of codex_oauth_credentials
    intent,   \* the row of _gateway_codex_operations, or None
    lock,     \* the task that holds the credential (row lock, process lock)
    qlock,    \* the task that holds the quota lock
    task,     \* what each task is doing
    mem,      \* CodexCredentialRuntime: the snapshot requests read
    good,     \* the refresh tokens the provider accepts
    issued,   \* refresh tokens issued so far
    now,      \* quota polls so far
    replayed, \* history: a token the provider had replaced was sent again
    credits,  \* history: [spent at the provider, recorded as events]
    left      \* events left

store == <<db, intent>>
provider == <<good, issued, now, replayed, credits>>
vars == <<db, intent, lock, qlock, task, mem, good, issued, now, replayed,
          credits, left>>

Statuses == {"active", "draining", "unavailable", "disabled"}
Quotas == {"ok", "high", "out"}
Rows == [live: BOOLEAN, enabled: BOOLEAN, status: Statuses, reauth: BOOLEAN,
         gen: Nat, token: Nat, quota: Quotas, checked: Nat]
View(r) == [live |-> r.live, status |-> r.status, gen |-> r.gen]
Idle == [step |-> "idle"]
Steps == {"idle", "wait", "held", "ready", "answer", "fetch", "fetched",
          "import", "reload", "store"}

TypeOK ==
    /\ db \in Rows
    /\ intent = None \/ intent \in [by: Tasks, job: {"refresh", "reset"}, gen: Nat]
    /\ {lock, qlock} \subseteq Tasks \cup {None}
    /\ \A t \in Tasks : task[t].step \in Steps
    /\ mem \in [live: BOOLEAN, status: Statuses, gen: Nat]
    /\ good \subseteq 1..MaxToken /\ issued \in 1..MaxToken
    /\ replayed \in BOOLEAN
    /\ left \in [Kinds -> Nat]

Init ==
    /\ db = [live |-> TRUE, enabled |-> TRUE, status |-> "active", reauth |-> FALSE,
             gen |-> 0, token |-> 1, quota |-> "ok", checked |-> 0]
    /\ intent = None /\ lock = None /\ qlock = None
    /\ task = [t \in Tasks |-> Idle]
    /\ mem = View(db)
    /\ good = {1} /\ issued = 1 /\ now = 0
    /\ replayed = FALSE
    /\ credits = [spent |-> 0, recorded |-> 0]
    /\ left = Budget

Pay(kind) ==
    /\ left[kind] > 0
    /\ left' = [left EXCEPT ![kind] = @ - 1]
Become(t, r) == task' = [task EXCEPT ![t] = r]
Reload == [step |-> "reload"]

--------------------
\* The row

\* the CASE every UPDATE of the row repeats, runtime_status_for_quota
StatusOf(r) ==
    IF ~r.enabled THEN "disabled"
    ELSE IF r.reauth \/ r.quota = "out" THEN "unavailable"
    ELSE IF r.quota = "high" THEN "draining" ELSE "active"

Derived(r) == [r EXCEPT !.status = StatusOf(r)]

\* validate_usable_credential
Usable(r) == r.live /\ r.enabled /\ r.status # "disabled" /\ ~r.reauth

\* Mutant of Writable: the fence triggers of the intent table are missing
WritableUnfenced == Backend = "postgres" => lock = None

\* a write of the row waits for the row lock, or the fence refuses it
Writable == IF Backend = "postgres" THEN lock = None ELSE intent = None

--------------------
\* Locked provider operations: refresh and quota reset

\* report_unauthorized with the generation a request was sent with,
\* maintain_credential with the stored one, refresh_credential with none
Want(t, seen) ==
    /\ task[t] = Idle
    /\ Pay("refresh")
    /\ seen \in {None, mem.gen, db.gen}
    /\ Become(t, [step |-> "wait", job |-> "refresh", seen |-> seen])
    /\ UNCHANGED <<store, lock, qlock, mem, provider>>

WantReset(t) ==
    /\ task[t] = Idle /\ qlock = None
    /\ Pay("reset")
    /\ qlock' = t
    /\ Become(t, [step |-> "wait", job |-> "reset", seen |-> None])
    /\ UNCHANGED <<store, lock, mem, provider>>

\* what a task does when its provider call is over or refused; a refresh made
\* for a quota poll that was answered 401 resumes the poll
GiveUp(t) ==
    /\ Become(t, Idle)
    /\ qlock' = IF qlock = t THEN None ELSE qlock
Resume(t) ==
    IF task[t].job = "quota" /\ db'.live
    THEN Become(t, [step |-> "fetch", row |-> db', retried |-> TRUE]) /\ UNCHANGED qlock
    ELSE GiveUp(t)

\* refresh_credential_locked, reset_quota_pinned: the early returns under the lock
Refused(t) ==
    \/ ~db.live
    \/ task[t].seen # None /\ task[t].seen # db.gen
    \/ ~db.enabled \/ db.status = "disabled"
    \/ db.reauth /\ (task[t].seen # None \/ task[t].job = "reset")

\* reserve_codex_operation, prepare_dispatch: an intent is left
Blocked == intent # None

\* lock_codex_refresh, lock_codex_quota_reset, reserve_codex_operation
Lock(t) ==
    /\ task[t].step = "wait" /\ lock = None
    /\ IF Blocked THEN GiveUp(t) /\ UNCHANGED lock
       ELSE IF Refused(t)
       THEN /\ IF task[t].job = "quota" /\ db.live /\ task[t].seen # db.gen
               THEN Become(t, [step |-> "fetch", row |-> db, retried |-> TRUE])
                    /\ UNCHANGED qlock
               ELSE GiveUp(t)
            /\ UNCHANGED lock
       ELSE /\ lock' = t
            /\ Become(t, [step |-> "held", job |-> task[t].job, seen |-> task[t].seen,
                          row |-> db])
            /\ UNCHANGED qlock
    /\ UNCHANGED <<store, mem, provider, left>>

Job(t) == IF task[t].job = "reset" THEN "reset" ELSE "refresh"

\* prepare_dispatch: PostgreSQL has nothing to do
Intend(t) ==
    IF Backend = "postgres" THEN UNCHANGED intent
    ELSE intent' = [by |-> t, job |-> Job(t), gen |-> task[t].row.gen]

PrepareDispatch(t) ==
    /\ task[t].step = "held"
    /\ IF Backend = "postgres" \/ (~Blocked /\ db = task[t].row)
       THEN Intend(t) /\ Become(t, [task[t] EXCEPT !.step = "ready"])
            /\ UNCHANGED <<lock, qlock>>
       ELSE UNCHANGED intent /\ lock' = None /\ GiveUp(t)
    /\ UNCHANGED <<db, mem, provider, left>>

Answered(t, result, token) ==
    [step |-> "answer", job |-> task[t].job, seen |-> task[t].seen, row |-> task[t].row,
     result |-> result, token |-> token]

\* external: the provider handles a refresh; the token's successor may be lost
\* on the way back (a timeout, an unreadable id token), a replaced token is refused
CallRefresh(t) ==
    LET old == task[t].row.token
        rotated == issued + 1
        answers == IF old \notin good THEN {"rejected"}
                   ELSE {"kept", "unsent"} \cup
                        (IF issued < MaxToken THEN {"rotated", "lost", "foreign"} ELSE {})
    IN  /\ task[t].step = "ready" /\ task[t].job # "reset"
        /\ replayed' = (replayed \/ old \notin good)
        /\ \E a \in answers :
             /\ IF a \in {"rotated", "lost", "foreign"}
                THEN good' = (good \ {old}) \cup {rotated} /\ issued' = rotated
                ELSE UNCHANGED <<good, issued>>
             /\ Become(t, Answered(t, a, IF a = "rotated" THEN rotated ELSE old))
        /\ UNCHANGED <<store, lock, qlock, mem, now, credits, left>>

\* external: a credit is redeemed, with or without an answer, or not at all
CallReset(t) ==
    /\ task[t].step = "ready" /\ task[t].job = "reset"
    /\ \E a \in {"done", "lost", "unsent"} :
         /\ credits' = [credits EXCEPT !.spent = IF a = "unsent" THEN @ ELSE @ + 1]
         /\ Become(t, Answered(t, a, None))
    /\ UNCHANGED <<store, lock, qlock, mem, good, issued, now, replayed, left>>

\* release: the attempt's own intent, for the generation it was made for
Releasable(t) ==
    Backend = "sqlite" =>
      /\ intent # None
      /\ intent.by = t /\ intent.gen = db.gen /\ db.live

\* persist_codex_token_refresh_transaction, expected_generation checked
Refreshed(t) ==
    Derived([db EXCEPT !.token = task[t].token, !.gen = db.gen + 1, !.reauth = FALSE])

CompleteRefresh(t) ==
    /\ task[t].step = "answer" /\ task[t].job # "reset"
    /\ task[t].result \in {"rotated", "kept"}
    /\ lock' = None
    /\ IF Releasable(t) /\ db.live /\ db.gen = task[t].row.gen
       THEN /\ db' = Refreshed(t) /\ intent' = None
            /\ IF task[t].job = "quota" THEN Resume(t)
               ELSE Become(t, Reload) /\ UNCHANGED qlock
       ELSE UNCHANGED store /\ GiveUp(t)
    /\ UNCHANGED <<mem, provider, left>>

\* SqliteCodexOperation::fail: released and stored again in one transaction
IntentAfterFailure(t) == intent

\* mark_codex_credential_error_transaction; a rejection, an unreadable identity
\* or another account's token is permanent
Failed(r, permanent) ==
    IF permanent THEN [r EXCEPT !.reauth = TRUE, !.status = "unavailable"] ELSE r

FailRefresh(t) ==
    /\ task[t].step = "answer" /\ task[t].job # "reset"
    /\ task[t].result \in {"lost", "unsent", "rejected", "foreign"}
    /\ lock' = None
    /\ IF Releasable(t)
       THEN /\ db' = IF db.live
                     THEN Failed(db, task[t].result \in {"rejected", "foreign"}) ELSE db
            /\ intent' = IntentAfterFailure(t)
            /\ Become(t, Reload)
       ELSE UNCHANGED store /\ Become(t, Idle)
    /\ qlock' = IF qlock = t THEN None ELSE qlock
    /\ UNCHANGED <<mem, provider, left>>

\* reset_quota_pinned: the event is recorded; an error leaves the operation as
\* it is, which rolls PostgreSQL back and keeps the SQLite intent.  After the
\* event the quota is polled again under the same quota lock
CompleteReset(t) ==
    /\ task[t].step = "answer" /\ task[t].job = "reset"
    /\ lock' = None
    /\ IF task[t].result = "done" /\ Releasable(t)
       THEN /\ credits' = [credits EXCEPT !.recorded = @ + 1]
            /\ intent' = None
            /\ Become(t, [step |-> "fetch", row |-> task[t].row, retried |-> FALSE])
            /\ UNCHANGED qlock
       ELSE GiveUp(t) /\ UNCHANGED <<intent, credits>>
    /\ UNCHANGED <<db, mem, good, issued, now, replayed, left>>

--------------------
\* Quota polls

\* refresh_quota_system: the row is read under the quota lock only
PollQuota(t) ==
    /\ task[t] = Idle /\ qlock = None /\ db.live
    /\ Pay("quota")
    /\ qlock' = t
    /\ Become(t, [step |-> "fetch", row |-> db, retried |-> FALSE])
    /\ UNCHANGED <<store, lock, mem, provider>>

\* fetch_quota: an answer dated by the poll, a 401 (external), or an error,
\* which mark_codex_credential_error records without changing the status
FetchQuota(t) ==
    /\ task[t].step = "fetch"
    /\ now < MaxTime
    /\ now' = now + 1
    /\ IF ~task[t].row.live \/ (~task[t].retried /\ ~Usable(task[t].row)) THEN GiveUp(t)
       ELSE \/ \E q \in Quotas : Become(t, [step |-> "fetched", quota |-> q, at |-> now + 1])
                                  /\ UNCHANGED qlock
            \/ /\ ~task[t].retried
               /\ Become(t, [step |-> "wait", job |-> "quota", seen |-> task[t].row.gen])
               /\ UNCHANGED qlock
            \/ Become(t, Reload) /\ qlock' = IF qlock = t THEN None ELSE qlock
    /\ UNCHANGED <<store, lock, mem, good, issued, replayed, credits, left>>

\* persist_codex_quota: quota_checked_at <= the answer's date, else nothing
Observed(r, q, at) ==
    IF r.checked <= at THEN Derived([r EXCEPT !.quota = q, !.checked = at]) ELSE r

PersistQuota(t) ==
    /\ task[t].step = "fetched"
    /\ Backend = "postgres" => lock = None
    /\ qlock' = IF qlock = t THEN None ELSE qlock
    /\ IF db.live /\ Writable
       THEN db' = Observed(db, task[t].quota, task[t].at) /\ Become(t, Reload)
       ELSE UNCHANGED db /\ Become(t, Idle)
    /\ UNCHANGED <<intent, lock, mem, provider, left>>

--------------------
\* Console: edits, deletion, import

\* update_codex_credential, set_codex_credential_enabled
Edit(t, on) ==
    /\ task[t] = Idle
    /\ db.live /\ Writable
    /\ Pay("edit")
    /\ db' = Derived([db EXCEPT !.enabled = on])
    /\ Become(t, Reload)
    /\ UNCHANGED <<intent, lock, qlock, mem, provider>>

\* delete_codex_credential: the tokens and the quota are erased
Erased(r) ==
    [r EXCEPT !.live = FALSE, !.enabled = FALSE, !.status = "disabled",
              !.reauth = FALSE, !.token = 0, !.quota = "ok", !.checked = 0]
Delete(t) ==
    /\ task[t] = Idle
    /\ db.live /\ Writable
    /\ Pay("edit")
    /\ db' = Erased(db)
    /\ Become(t, Reload)
    /\ UNCHANGED <<intent, lock, qlock, mem, provider>>

\* complete_oauth: the provider issues a token of its own for the same account;
\* import_credential brings such a token along.  The quota may be polled too
Authorize(t) ==
    /\ task[t] = Idle
    /\ Pay("import")
    /\ issued < MaxToken
    /\ issued' = issued + 1 /\ good' = good \cup {issued + 1}
    /\ \E q \in Quotas \cup {None} :
         /\ now' = IF q = None THEN now ELSE now + 1
         /\ Become(t, [step |-> "import", token |-> issued + 1, quota |-> q, at |-> now'])
    /\ now' <= MaxTime
    /\ UNCHANGED <<store, lock, qlock, mem, replayed, credits>>

\* reauthorize: only an abandoned refresh intent is replaced
Reauthorizable ==
    IF Backend = "postgres" THEN lock = None
    ELSE intent # None => intent.job = "refresh" /\ lock = None

\* insert_codex_credential for a known identity
Imported(r, k, q, at, on) ==
    LET renewed == [r EXCEPT !.token = k, !.gen = r.gen + 1, !.reauth = FALSE, !.enabled = on]
    IN  IF q = None \/ at < r.checked THEN Derived(renewed)
        ELSE Derived([renewed EXCEPT !.quota = q, !.checked = at])
Import(t) ==
    /\ task[t].step = "import"
    /\ Backend = "postgres" => lock = None
    /\ IF db.live /\ Reauthorizable
       THEN /\ \E on \in BOOLEAN :
                 db' = Imported(db, task[t].token, task[t].quota, task[t].at, on)
            /\ intent' = None
            /\ Become(t, Reload)
       ELSE UNCHANGED store /\ Become(t, Idle)
    /\ UNCHANGED <<lock, qlock, mem, provider, left>>

--------------------
\* The snapshot, maintenance and crashes

\* run_maintenance starts with a reload, every minute
Maintain(t) ==
    /\ task[t] = Idle
    /\ Become(t, Reload)
    /\ UNCHANGED <<store, lock, qlock, mem, provider, left>>

\* reload_runtime: the rows are loaded, then the snapshot is replaced
Load(t) ==
    /\ task[t].step = "reload"
    /\ Become(t, [step |-> "store", view |-> View(db)])
    /\ UNCHANGED <<store, lock, qlock, mem, provider, left>>
Replace(t) ==
    /\ task[t].step = "store"
    /\ mem' = task[t].view
    /\ Become(t, Idle)
    /\ UNCHANGED <<store, lock, qlock, provider, left>>

\* the process dies: open transactions roll back, locks are gone, the intent
\* stays; initialize loads the snapshot again
Crash ==
    /\ Pay("crash")
    /\ task' = [t \in Tasks |-> Idle]
    /\ lock' = None /\ qlock' = None
    /\ mem' = View(db)
    /\ UNCHANGED <<store, provider>>

--------------------
Call(t) ==
    \/ Lock(t) \/ PrepareDispatch(t) \/ CallRefresh(t) \/ CallReset(t)
    \/ CompleteRefresh(t) \/ FailRefresh(t) \/ CompleteReset(t)
    \/ FetchQuota(t) \/ PersistQuota(t) \/ Import(t) \/ Load(t) \/ Replace(t)

Next ==
    \/ \E t \in Tasks :
         \/ Call(t)
         \/ \E seen \in {None} \cup 0..MaxToken : Want(t, seen)
         \/ WantReset(t) \/ PollQuota(t) \/ Delete(t) \/ Authorize(t) \/ Maintain(t)
         \/ \E on \in BOOLEAN : Edit(t, on)
    \/ Crash

\* Every step of a task ends: locks are fair, provider calls have timeouts.
\* The maintenance worker ticks every minute on a task of its own.
Fairness == \A t \in Tasks : WF_vars(Call(t)) /\ WF_vars(Maintain(t))

Spec == Init /\ [][Next]_vars
LiveSpec == Spec /\ Fairness

--------------------
\* Properties

InFlight(t) == task[t].step \in {"ready", "answer"}

\* While a provider call is in flight nobody else calls the provider for the
\* credential, and the row the call was made for keeps its generation and its
\* token: two requests that saw the same expired token refresh it once.
FencedWhileInFlight ==
    \A t \in Tasks : InFlight(t) =>
        /\ db.gen = task[t].row.gen /\ db.token = task[t].row.token
        /\ \A u \in Tasks \ {t} : ~InFlight(u)

\* A request that was answered 401 with an older token never has the newer one
\* refreshed (report_unauthorized).
StaleReportIgnored ==
    \A t \in Tasks : InFlight(t) /\ task[t].seen # None => task[t].seen = db.gen

\* SQLite: a stored token the provider no longer accepts is never taken for a
\* good one: a call is in flight, its intent is still there, or the credential
\* asks to be authorized again.
ReplacedTokenIsMarked ==
    (db.live /\ db.token \notin good) =>
        intent # None \/ db.reauth \/ \E t \in Tasks : InFlight(t)

\* A refresh token that the provider has replaced is never sent again, whatever
\* answer was lost and whenever the process died.
TokenNotReplayed == ~replayed

\* SQLite: at most one reset credit is ever spent without an event: an unknown
\* outcome is never retried.
ResetsAccounted == credits.spent <= credits.recorded + 1

\* A credential offered to requests is enabled, authorized and has quota left;
\* in particular a quota answer does not revive one that must log in again.
StatusSound ==
    db.status \in {"active", "draining"} =>
        db.live /\ db.enabled /\ ~db.reauth /\ db.quota # "out"

\* What a credential promises, together: the journal is SQLite's.
CodexSound ==
    /\ FencedWhileInFlight /\ StaleReportIgnored /\ StatusSound
    /\ Backend = "sqlite" => ReplacedTokenIsMarked /\ TokenNotReplayed /\ ResetsAccounted

\* A quota answer never replaces a newer one, whichever poll is slower.
QuotaMovesForward ==
    (db.live /\ db'.live) => db'.checked >= db.checked

--------------------
\* Proofs, for any number of tasks, events and crashes.

Holding == {"held", "ready", "answer"}

\* StatusSound, of a row.
RowSound(d) ==
    d.status \in {"active", "draining"} => d.live /\ d.enabled /\ ~d.reauth /\ d.quota # "out"

\* The row and its intent: on SQLite a row whose token the provider has replaced,
\* or that must be authorized again, has an intent.
Credential(d, i, g, n) ==
    /\ d \in Rows /\ RowSound(d) /\ n \in Nat /\ d.token <= n
    /\ i = None \/ i \in [by: Tasks, job: {"refresh", "reset"}, gen: Nat]
    /\ Backend = "postgres" => i = None
    /\ Backend = "sqlite" => /\ d.reauth => i # None
                             /\ d.live /\ d.token \notin g => i # None

\* What the holder x of the credential knows: the row it was given is the stored
\* one, and on SQLite the intent is its own, from the dispatch on.
Holder(x, t, d, i, l, g, n) ==
    /\ l = t /\ x.row.live /\ (x.seen # None => x.seen = x.row.gen)
    /\ x.job = "reset" => ~x.row.reauth
    /\ Backend = "postgres" \/ x.step # "held" => d = x.row
    /\ x.step \in {"held", "ready"} =>
         x = [step |-> x.step, job |-> x.job, seen |-> x.seen, row |-> x.row]
    /\ Backend = "sqlite" /\ x.step # "held" =>
         /\ i = [by |-> t, job |-> IF x.job = "reset" THEN "reset" ELSE "refresh",
                 gen |-> x.row.gen]
         /\ x.step = "ready" \/ x.job = "reset" => d.token \in g
    /\ x.step = "answer" /\ x.job # "reset" =>
         /\ x.token \in Nat /\ x.token <= n
         /\ x.result \in {"rotated", "kept"} => x.token \in g

\* What a task knows.  A token that is being imported is not yet stored.
Fits(x, t, d, i, l, g, n) ==
    /\ x.step = "fetched" => x.quota \in Quotas /\ x.at \in Nat
    /\ x.step = "import" =>
         /\ x.quota \in Quotas \cup {None} /\ x.at \in Nat /\ x.token \in Nat \ {0}
         /\ x.token \in g /\ x.token # d.token /\ x.token <= n
    /\ x.step \in Holding => Holder(x, t, d, i, l, g, n)

\* A token that y imports is neither imported nor obtained by x.
Apart(x, y) ==
    /\ y.step = "import"
    /\ x.step = "import" \/ (x.step = "answer" /\ x.job # "reset")
    => x.token # y.token

Shape ==
    /\ Credential(db, intent, good, issued) /\ now \in Nat /\ DOMAIN task = Tasks
    /\ \A t \in Tasks : Fits(task[t], t, db, intent, lock, good, issued)
    /\ \A t, u \in Tasks : t # u => Apart(task[t], task[u])

\* SQLite: a credit is spent without an event only under a reset's intent.
History ==
    Backend = "sqlite" =>
        /\ ~replayed /\ credits \in [spent: Nat, recorded: Nat]
        /\ credits.spent <= credits.recorded + 1
        /\ intent = None \/ intent.job # "reset" => credits.spent <= credits.recorded
        /\ \A t \in Tasks : task[t].step = "ready" /\ task[t].job = "reset" =>
             credits.spent <= credits.recorded

CodexInv == Shape /\ History

\* The CASE of every UPDATE, and what it leaves alone.
LEMMA DerivedRow ==
    ASSUME NEW r \in Rows, r.live
    PROVE  /\ Derived(r) \in Rows /\ RowSound(Derived(r)) /\ Derived(r).live
           /\ Derived(r).token = r.token /\ Derived(r).gen = r.gen
           /\ Derived(r).reauth = r.reauth /\ Derived(r).checked = r.checked
<1> DEFINE s == StatusOf(r)
<1>1. r.enabled \in BOOLEAN /\ r.reauth \in BOOLEAN BY DEF Rows
<1>2. s \in Statuses /\ (s \in {"active", "draining"} => r.enabled /\ ~r.reauth /\ r.quota # "out")
  BY <1>1 DEF StatusOf, Statuses
<1> HIDE DEF s
<1>3. Derived(r) = [r EXCEPT !.status = s] BY DEF Derived, s
<1>4. /\ Derived(r) \in Rows /\ Derived(r).live = r.live /\ Derived(r).enabled = r.enabled
      /\ Derived(r).token = r.token /\ Derived(r).gen = r.gen /\ Derived(r).quota = r.quota
      /\ Derived(r).reauth = r.reauth /\ Derived(r).checked = r.checked
      /\ Derived(r).status = s
  BY <1>2, <1>3 DEF Rows
<1> QED BY <1>2, <1>4 DEF RowSound

\* update_codex_credential on a live row.
LEMMA EditedRow ==
    ASSUME NEW d \in Rows, d.live, NEW on \in BOOLEAN,
           NEW r, r = Derived([d EXCEPT !.enabled = on])
    PROVE  /\ r \in Rows /\ RowSound(r) /\ r.live /\ r.token = d.token
           /\ r.reauth = d.reauth /\ r.checked = d.checked
<1> DEFINE a == [d EXCEPT !.enabled = on]
<1>1. /\ a \in Rows /\ a.live /\ a.token = d.token /\ a.reauth = d.reauth
      /\ a.checked = d.checked
  BY DEF Rows
<1> HIDE DEF a
<1> QED BY <1>1, DerivedRow DEF a

\* persist_codex_quota on a live row.
LEMMA ObservedRow ==
    ASSUME NEW d \in Rows, RowSound(d), d.live, NEW q \in Quotas, NEW at \in Nat,
           NEW r, r = Observed(d, q, at)
    PROVE  /\ r \in Rows /\ RowSound(r) /\ r.live /\ r.token = d.token
           /\ r.reauth = d.reauth /\ r.checked >= d.checked
<1> DEFINE a == [d EXCEPT !.quota = q, !.checked = at]
<1>1. /\ a \in Rows /\ a.live /\ a.token = d.token /\ a.reauth = d.reauth
      /\ a.checked = at
  BY DEF Rows
<1>2. d.checked \in Nat BY DEF Rows
<1>3. CASE d.checked <= at
  <2>1. r = Derived(a) BY <1>3 DEF Observed
  <2> HIDE DEF a
  <2> QED BY <1>1, <1>2, <1>3, <2>1, DerivedRow
<1>4. CASE ~(d.checked <= at)
  <2>1. r = d BY <1>4 DEF Observed
  <2> QED BY <1>2, <2>1
<1> QED BY <1>3, <1>4

Renewed(d, k) == [d EXCEPT !.token = k, !.gen = d.gen + 1, !.reauth = FALSE]

\* persist_codex_token_refresh_transaction on a live row.
LEMMA RefreshedRow ==
    ASSUME NEW d \in Rows, d.live, NEW k \in Nat,
           NEW r, r = Derived(Renewed(d, k))
    PROVE  /\ r \in Rows /\ RowSound(r) /\ r.live /\ r.token = k
           /\ ~r.reauth /\ r.checked = d.checked
<1> DEFINE a == Renewed(d, k)
<1>1. /\ a \in Rows /\ a.live /\ a.token = k /\ ~a.reauth /\ a.checked = d.checked
  <2>1. PICK m \in Nat : m = d.gen + 1 BY DEF Rows
  <2> QED BY <2>1 DEF Rows, Renewed
<1> QED BY <1>1, DerivedRow

\* A permanent error.
LEMMA FailedRow ==
    ASSUME NEW d \in Rows, d.live,
           NEW r, r = [d EXCEPT !.reauth = TRUE, !.status = "unavailable"]
    PROVE  /\ r \in Rows /\ RowSound(r) /\ r.live /\ r.token = d.token
           /\ r.checked = d.checked
<1>1. /\ r \in Rows /\ r.live /\ r.token = d.token /\ r.checked = d.checked
      /\ r.status = "unavailable"
  BY DEF Rows, Statuses
<1> QED BY <1>1 DEF RowSound

\* delete_codex_credential.
LEMMA ErasedRow ==
    ASSUME NEW d \in Rows, NEW r, r = Erased(d)
    PROVE  /\ r \in Rows /\ RowSound(r) /\ r.live = FALSE /\ r.token = 0 /\ ~r.reauth
<1>1. /\ r \in Rows /\ r.live = FALSE /\ r.token = 0 /\ ~r.reauth
      /\ r.status = "disabled"
  BY DEF Erased, Rows, Statuses, Quotas
<1> QED BY <1>1 DEF RowSound

\* What an import leaves of a live row.
LEMMA ImportedRow ==
    ASSUME NEW d \in Rows, d.live, NEW k \in Nat, NEW q \in Quotas \cup {None}, NEW at \in Nat,
           NEW on \in BOOLEAN, NEW r, r = Imported(d, k, q, at, on)
    PROVE  /\ r \in Rows /\ RowSound(r) /\ r.live /\ r.token = k
           /\ ~r.reauth /\ r.checked >= d.checked
<1> DEFINE a == [d EXCEPT !.token = k, !.gen = d.gen + 1, !.reauth = FALSE, !.enabled = on]
           b == [a EXCEPT !.quota = q, !.checked = at]
<1>1. /\ a \in Rows /\ a.live /\ a.token = k /\ ~a.reauth /\ a.checked = d.checked
      /\ d.checked \in Nat
  <2>1. PICK m \in Nat : m = d.gen + 1 BY DEF Rows
  <2> QED BY <2>1 DEF Rows
<1>2. r = IF q = None \/ at < d.checked THEN Derived(a) ELSE Derived(b) BY DEF Imported
<1> HIDE DEF a
<1>3. CASE q = None \/ at < d.checked BY <1>1, <1>2, <1>3, DerivedRow
<1>4. CASE ~(q = None \/ at < d.checked)
  <2>1. q \in Quotas /\ d.checked <= at BY <1>1, <1>4
  <2>2. b \in Rows /\ b.live /\ b.token = k /\ ~b.reauth /\ b.checked = at BY <1>1, <2>1 DEF Rows
  <2> HIDE DEF b
  <2> QED BY <1>1, <1>2, <1>4, <2>1, <2>2, DerivedRow
<1> QED BY <1>3, <1>4

\* A task that holds nothing needs nothing but the token it imports.
LEMMA Unheld ==
    ASSUME NEW x, NEW u, NEW d, NEW i, NEW l, NEW g, NEW n, Fits(x, u, d, i, l, g, n), l # u,
           NEW d2, NEW i2, NEW l2, NEW g2, NEW n2,
           x.step = "import" => x.token \in g2 /\ x.token # d2.token /\ x.token <= n2
    PROVE  Fits(x, u, d2, i2, l2, g2, n2)
<1>1. x.step \notin Holding BY DEF Fits, Holder
<1> QED BY <1>1 DEF Fits

\* Tokens are issued and others move on.
LEMMA StillFits ==
    ASSUME NEW x, NEW u, NEW d, NEW i, NEW l, NEW g, NEW n \in Nat, Fits(x, u, d, i, l, g, n),
           NEW g2, NEW n2 \in Nat, g \subseteq g2, n <= n2
    PROVE  Fits(x, u, d, i, l, g2, n2)
<1>1. x.step \in Holding => Holder(x, u, d, i, l, g2, n2) BY DEF Fits, Holder
<1> QED BY <1>1 DEF Fits

\* The row lock of PostgreSQL and the fence of SQLite keep writers of the row away
\* from a call in flight.
LEMMA WriterKeeps ==
    ASSUME CodexAssumption, NEW x, NEW u \in Tasks, NEW d \in Rows, NEW i, NEW l, NEW g, NEW n,
           Fits(x, u, d, i, l, g, n), l # None => Backend = "sqlite" /\ i = None,
           NEW d2, NEW i2, x.step = "import" => x.token # d2.token
    PROVE  Fits(x, u, d2, i2, l, g, n)
<1>1. CASE x.step \notin Holding BY <1>1 DEF Fits
<1>2. CASE x.step \in Holding
  <2>1. Holder(x, u, d, i, l, g, n) BY <1>2 DEF Fits
  <2>2. u # None /\ l = u BY <2>1 DEF CodexAssumption, Holder
  <2>3. Backend = "sqlite" /\ i = None BY <2>2
  <2>4. ASSUME x.step # "held" PROVE FALSE
    <3>1. i = [by |-> u, job |-> IF x.job = "reset" THEN "reset" ELSE "refresh",
               gen |-> x.row.gen] /\ d = x.row
      BY <2>1, <2>3, <2>4 DEF Holder
    <3> QED BY <2>3, <3>1 DEF CodexAssumption, Rows
  <2>5. x.step = "held" /\ "held" \notin {"fetched", "import", "answer"} BY <2>4
  <2>6. Holder(x, u, d2, i2, l, g, n) BY <2>1, <2>3, <2>5 DEF Holder
  <2> QED BY <2>5, <2>6 DEF Fits
<1> QED BY <1>1, <1>2

\* A step of one task, with what it has to preserve for the others.
LEMMA StepKeeps ==
    ASSUME Shape, NEW t \in Tasks, NEW x, task' = [task EXCEPT ![t] = x], now' \in Nat,
           Credential(db', intent', good', issued'),
           Fits(x, t, db', intent', lock', good', issued'),
           \A u \in Tasks : u # t =>
             /\ Fits(task[u], u, db', intent', lock', good', issued')
             /\ Apart(x, task[u]) /\ Apart(task[u], x)
    PROVE  Shape'
<1>1. DOMAIN task = Tasks /\ \A a, b \in Tasks : a # b => Apart(task[a], task[b]) BY DEF Shape
<1>2. /\ DOMAIN task' = Tasks /\ task'[t] = x
      /\ \A u \in Tasks : u # t => task'[u] = task[u]
  BY <1>1
<1>3. ASSUME NEW u \in Tasks PROVE Fits(task'[u], u, db', intent', lock', good', issued')
  <2>1. CASE u = t BY <1>2, <2>1
  <2>2. CASE u # t BY <1>2, <2>2
  <2> QED BY <2>1, <2>2
<1>4. ASSUME NEW a \in Tasks, NEW b \in Tasks, a # b PROVE Apart(task'[a], task'[b])
  <2>1. CASE a = t BY <1>2, <1>4, <2>1
  <2>2. CASE b = t BY <1>2, <1>4, <2>2
  <2>3. CASE a # t /\ b # t BY <1>1, <1>2, <1>4, <2>3
  <2> QED BY <2>1, <2>2, <2>3
<1> QED BY <1>2, <1>3, <1>4 DEF Shape

Quiet == {"idle", "wait", "fetch", "reload", "store"}

\* A task that neither holds nor imports anything.
LEMMA QuietTask ==
    ASSUME NEW x, x.step \in Quiet
    PROVE  /\ \A t, d, i, l, g, n : Fits(x, t, d, i, l, g, n)
           /\ \A y : Apart(x, y) /\ Apart(y, x)
<1>1. x.step \notin Holding /\ x.step \notin {"fetched", "import", "answer"} BY DEF Quiet, Holding
<1>2. \A t, d, i, l, g, n : Fits(x, t, d, i, l, g, n) BY <1>1 DEF Fits
<1>3. \A y : Apart(x, y) /\ Apart(y, x) BY <1>1 DEF Apart
<1> QED BY <1>2, <1>3

\* A step of a task that leaves the credential alone.
LEMMA QuietStep ==
    ASSUME Shape, NEW t \in Tasks, NEW x, task' = [task EXCEPT ![t] = x], x.step \in Quiet,
           now' \in Nat, UNCHANGED <<db, intent, lock, good, issued>>
    PROVE  Shape'
<1>1. \A u \in Tasks : Fits(task[u], u, db', intent', lock', good', issued') BY DEF Shape
<1>2. Credential(db', intent', good', issued') BY DEF Shape
<1> QED BY <1>1, <1>2, QuietTask, StepKeeps

\* The holder gives the credential back, with a row and without its intent or
\* with it.
LEMMA ReleaseStep ==
    ASSUME Shape, NEW t \in Tasks, NEW x, task' = [task EXCEPT ![t] = x], x.step \in Quiet,
           lock = t, UNCHANGED <<good, issued, now>>, Credential(db', intent', good, issued),
           \A u \in Tasks : u # t /\ task[u].step = "import" => task[u].token # db'.token
    PROVE  Shape'
<1>1. ASSUME NEW u \in Tasks, u # t PROVE Fits(task[u], u, db', intent', lock', good', issued')
  <2>1. Fits(task[u], u, db, intent, lock, good, issued) /\ lock # u BY <1>1 DEF Shape
  <2>2. task[u].step = "import" =>
          task[u].token \in good' /\ task[u].token # db'.token /\ task[u].token <= issued'
    BY <1>1, <2>1 DEF Fits
  <2> QED BY <2>1, <2>2, Unheld
<1>2. now' \in Nat /\ Credential(db', intent', good', issued') BY DEF Shape
<1> QED BY <1>1, <1>2, QuietTask, StepKeeps

\* A write of the row that the lock and the fence admit.
LEMMA WriteStep ==
    ASSUME CodexAssumption, Shape, NEW t \in Tasks, NEW x, task' = [task EXCEPT ![t] = x],
           x.step \in Quiet, lock # None => Backend = "sqlite" /\ intent = None,
           UNCHANGED <<lock, good, issued, now>>, Credential(db', intent', good, issued),
           \A u \in Tasks : u # t /\ task[u].step = "import" => task[u].token # db'.token
    PROVE  Shape'
<1>1. ASSUME NEW u \in Tasks, u # t PROVE Fits(task[u], u, db', intent', lock', good', issued')
  <2>1. Fits(task[u], u, db, intent, lock, good, issued) /\ db \in Rows
    BY <1>1 DEF Shape, Credential
  <2>2. Fits(task[u], u, db', intent', lock, good, issued) BY <1>1, <2>1, WriterKeeps
  <2> QED BY <2>2
<1>2. now' \in Nat /\ Credential(db', intent', good', issued') BY DEF Shape
<1> QED BY <1>1, <1>2, QuietTask, StepKeeps

\* The steps of a task that only prepare, poll or read.
LEMMA ReadSteps ==
    ASSUME CodexAssumption, Shape, NEW t \in Tasks,
           \/ \E seen \in {None} \cup 0..MaxToken : Want(t, seen)
           \/ WantReset(t) \/ PollQuota(t) \/ Maintain(t) \/ Load(t) \/ Replace(t)
    PROVE  Shape'
<1>1. now \in Nat BY DEF Shape
<1>2. ASSUME NEW x, Become(t, x), x.step \in Quiet, UNCHANGED <<store, lock, provider>>
      PROVE  Shape'
  BY <1>1, <1>2, QuietStep DEF Become, store, provider
<1>3. CASE \E seen \in {None} \cup 0..MaxToken : Want(t, seen)
  <2>1. PICK seen \in {None} \cup 0..MaxToken : Want(t, seen) BY <1>3
  <2> DEFINE x == [step |-> "wait", job |-> "refresh", seen |-> seen]
  <2>2. x.step \in Quiet /\ Become(t, x) /\ UNCHANGED <<store, lock, provider>>
    BY <2>1 DEF Want, Quiet
  <2> HIDE DEF x
  <2> QED BY <1>2, <2>2
<1>4. CASE WantReset(t)
  <2> DEFINE x == [step |-> "wait", job |-> "reset", seen |-> None]
  <2>1. x.step \in Quiet /\ Become(t, x) /\ UNCHANGED <<store, lock, provider>>
    BY <1>4 DEF WantReset, Quiet
  <2> HIDE DEF x
  <2> QED BY <1>2, <2>1
<1>5. CASE PollQuota(t)
  <2> DEFINE x == [step |-> "fetch", row |-> db, retried |-> FALSE]
  <2>1. x.step \in Quiet /\ Become(t, x) /\ UNCHANGED <<store, lock, provider>>
    BY <1>5 DEF PollQuota, Quiet
  <2> HIDE DEF x
  <2> QED BY <1>2, <2>1
<1>6. CASE Maintain(t)
  <2>1. Reload.step \in Quiet /\ Become(t, Reload) /\ UNCHANGED <<store, lock, provider>>
    BY <1>6 DEF Maintain, Quiet, Reload
  <2> QED BY <1>2, <2>1
<1>7. CASE Load(t)
  <2> DEFINE x == [step |-> "store", view |-> View(db)]
  <2>1. x.step \in Quiet /\ Become(t, x) /\ UNCHANGED <<store, lock, provider>>
    BY <1>7 DEF Load, Quiet
  <2> HIDE DEF x
  <2> QED BY <1>2, <2>1
<1>8. CASE Replace(t)
  <2>1. Idle.step \in Quiet /\ Become(t, Idle) /\ UNCHANGED <<store, lock, provider>>
    BY <1>8 DEF Replace, Quiet, Idle
  <2> QED BY <1>2, <2>1
<1> QED BY <1>3, <1>4, <1>5, <1>6, <1>7, <1>8

\* A poll is answered, refused or sent for a refresh.
LEMMA FetchStep ==
    ASSUME Shape, NEW t \in Tasks, FetchQuota(t) PROVE Shape'
<1>1. now' \in Nat /\ now' = now + 1 /\ UNCHANGED <<db, intent, lock, good, issued>>
  BY DEF FetchQuota, Shape, store
<1>2. ASSUME NEW x, Become(t, x), x.step \in Quiet PROVE Shape'
  BY <1>1, <1>2, QuietStep DEF Become
<1>3. CASE GiveUp(t)
  <2>1. Idle.step \in Quiet /\ Become(t, Idle) BY <1>3 DEF GiveUp, Quiet, Idle
  <2> QED BY <1>2, <2>1
<1>4. CASE \E q \in Quotas : Become(t, [step |-> "fetched", quota |-> q, at |-> now + 1])
  <2>1. PICK q \in Quotas : Become(t, [step |-> "fetched", quota |-> q, at |-> now + 1]) BY <1>4
  <2> DEFINE x == [step |-> "fetched", quota |-> q, at |-> now + 1]
  <2>2. x.step = "fetched" /\ x.quota \in Quotas /\ x.at \in Nat /\ Become(t, x) BY <1>1, <2>1
  <2> HIDE DEF x
  <2>3. Fits(x, t, db', intent', lock', good', issued') /\ \A y : Apart(x, y) /\ Apart(y, x)
    BY <2>2 DEF Fits, Apart, Holding
  <2>4. /\ Credential(db', intent', good', issued')
        /\ \A u \in Tasks : Fits(task[u], u, db', intent', lock', good', issued')
    BY <1>1 DEF Shape
  <2> QED BY <1>1, <2>2, <2>3, <2>4, StepKeeps DEF Become
<1>5. CASE Become(t, [step |-> "wait", job |-> "quota", seen |-> task[t].row.gen])
  <2> DEFINE x == [step |-> "wait", job |-> "quota", seen |-> task[t].row.gen]
  <2>1. x.step \in Quiet /\ Become(t, x) BY <1>5 DEF Quiet
  <2> HIDE DEF x
  <2> QED BY <1>2, <2>1
<1>6. CASE Become(t, Reload)
  <2>1. Reload.step \in Quiet BY DEF Quiet, Reload
  <2> QED BY <1>2, <1>6, <2>1
<1> QED BY <1>3, <1>4, <1>5, <1>6 DEF FetchQuota

\* The credential is locked, or the task is refused under the lock.
LEMMA LockStep ==
    ASSUME CodexAssumption, Shape, NEW t \in Tasks, Lock(t) PROVE Shape'
<1>1. /\ now' \in Nat /\ UNCHANGED <<db, intent, good, issued, now>> /\ lock = None
      /\ Credential(db, intent, good, issued)
  BY DEF Lock, Shape, store, provider
<1>2. ASSUME NEW x, Become(t, x), x.step \in Quiet, lock' = lock PROVE Shape'
  BY <1>1, <1>2, QuietStep DEF Become
<1>3. CASE GiveUp(t) /\ UNCHANGED lock
  <2>1. Idle.step \in Quiet /\ Become(t, Idle) BY <1>3 DEF GiveUp, Quiet, Idle
  <2> QED BY <1>2, <1>3, <2>1
<1>4. CASE Become(t, [step |-> "fetch", row |-> db, retried |-> TRUE]) /\ UNCHANGED lock
  <2> DEFINE x == [step |-> "fetch", row |-> db, retried |-> TRUE]
  <2>1. x.step \in Quiet /\ Become(t, x) BY <1>4 DEF Quiet
  <2> HIDE DEF x
  <2> QED BY <1>2, <1>4, <2>1
<1>5. CASE /\ ~Blocked /\ ~Refused(t) /\ lock' = t
           /\ Become(t, [step |-> "held", job |-> task[t].job, seen |-> task[t].seen, row |-> db])
  <2> DEFINE x == [step |-> "held", job |-> task[t].job, seen |-> task[t].seen, row |-> db]
  <2>1. /\ db.live /\ (task[t].seen # None => task[t].seen = db.gen)
        /\ task[t].job = "reset" => ~db.reauth
    BY <1>5 DEF Refused
  <2>2. /\ x.step = "held" /\ x.row = db /\ x.seen = task[t].seen /\ x.job = task[t].job
        /\ x = [step |-> x.step, job |-> x.job, seen |-> x.seen, row |-> x.row]
        /\ task' = [task EXCEPT ![t] = x]
    BY <1>5 DEF Become
  <2> HIDE DEF x
  <2>3. Holder(x, t, db', intent', lock', good', issued') BY <1>1, <1>5, <2>1, <2>2 DEF Holder
  <2>4. Fits(x, t, db', intent', lock', good', issued') /\ \A y : Apart(x, y) /\ Apart(y, x)
    BY <2>2, <2>3 DEF Fits, Apart
  <2>5. ASSUME NEW u \in Tasks PROVE Fits(task[u], u, db', intent', lock', good', issued')
    <3>1. lock # u /\ Fits(task[u], u, db, intent, lock, good, issued)
      BY <1>1 DEF Shape, CodexAssumption
    <3>2. task[u].step = "import" =>
            task[u].token \in good' /\ task[u].token # db'.token /\ task[u].token <= issued'
      BY <1>1, <3>1 DEF Fits
    <3> QED BY <3>1, <3>2, Unheld
  <2> QED BY <1>1, <2>2, <2>4, <2>5, StepKeeps
<1> QED BY <1>3, <1>4, <1>5 DEF Lock

\* prepare_dispatch stores the intent of the row the holder was given, or refuses.
LEMMA DispatchStep ==
    ASSUME CodexAssumption, Shape, NEW t \in Tasks, PrepareDispatch(t) PROVE Shape'
<1> DEFINE o == task[t]
<1>1. o.step = "held" /\ UNCHANGED <<db, good, issued, now>> /\ now' \in Nat
  BY DEF PrepareDispatch, Shape, provider
<1>2. Holder(o, t, db, intent, lock, good, issued) BY <1>1 DEF Shape, Fits, Holding
<1>3. Credential(db, intent, good, issued) /\ lock = t BY <1>2 DEF Shape, Holder
<1>4. CASE ~(Backend = "postgres" \/ (~Blocked /\ db = task[t].row))
  <2>1. intent' = intent /\ Become(t, Idle) /\ Idle.step \in Quiet
    BY <1>4 DEF PrepareDispatch, GiveUp, Idle, Quiet
  <2>2. \A u \in Tasks : u # t /\ task[u].step = "import" => task[u].token # db'.token
    BY <1>1 DEF Shape, Fits
  <2> QED BY <1>1, <1>3, <2>1, <2>2, ReleaseStep DEF Become
<1>5. CASE Backend = "postgres" \/ (~Blocked /\ db = task[t].row)
  <2> DEFINE x == [step |-> "ready", job |-> o.job, seen |-> o.seen, row |-> o.row]
             i == [by |-> t, job |-> IF o.job = "reset" THEN "reset" ELSE "refresh",
                   gen |-> o.row.gen]
  <2>1. o = [step |-> o.step, job |-> o.job, seen |-> o.seen, row |-> o.row] /\ db = o.row
    BY <1>1, <1>2, <1>5 DEF Holder
  <2>2. [o EXCEPT !.step = "ready"] = x BY <2>1
  <2>3. Become(t, x) /\ lock' = lock /\ Intend(t) BY <1>5, <2>2 DEF PrepareDispatch
  <2>4. IF Backend = "postgres" THEN intent' = intent ELSE intent' = i BY <2>3 DEF Intend, Job
  <2>5. i \in [by: Tasks, job: {"refresh", "reset"}, gen: Nat] /\ i # None
    <3>1. o.row.gen \in Nat BY <1>3, <2>1 DEF Credential, Rows
    <3>2. i \in [by: Tasks, job: {"refresh", "reset"}, gen: Nat] BY <3>1
    <3> QED BY <3>2 DEF CodexAssumption
  <2>6. /\ x.step = "ready" /\ x.job = o.job /\ x.seen = o.seen /\ x.row = o.row
        /\ x = [step |-> x.step, job |-> x.job, seen |-> x.seen, row |-> x.row]
    OBVIOUS
  <2>7. Backend = "sqlite" => db.token \in good
    BY <1>1, <1>2, <1>3, <1>5, <2>1 DEF Blocked, Credential, Holder
  <2>8. Backend \in {"postgres", "sqlite"} BY DEF CodexAssumption
  <2>9. Backend = "sqlite" =>
          intent' = [by |-> t, job |-> IF x.job = "reset" THEN "reset" ELSE "refresh",
                     gen |-> x.row.gen]
    BY <2>4, <2>6
  <2> HIDE DEF x, i
  <2>10. Credential(db', intent', good', issued') BY <1>1, <1>3, <2>4, <2>5, <2>8 DEF Credential
  <2>11. Holder(x, t, db', intent', lock', good', issued')
    BY <1>1, <1>2, <2>1, <2>3, <2>6, <2>7, <2>8, <2>9 DEF Holder
  <2>12. Fits(x, t, db', intent', lock', good', issued') /\ \A y : Apart(x, y) /\ Apart(y, x)
    BY <2>6, <2>11 DEF Fits, Apart
  <2>13. ASSUME NEW u \in Tasks, u # t PROVE Fits(task[u], u, db', intent', lock', good', issued')
    <3>1. lock # u /\ Fits(task[u], u, db, intent, lock, good, issued) BY <1>3, <2>13 DEF Shape
    <3>2. task[u].step = "import" =>
            task[u].token \in good' /\ task[u].token # db'.token /\ task[u].token <= issued'
      BY <1>1, <3>1 DEF Fits
    <3> QED BY <3>1, <3>2, Unheld
  <2> QED BY <1>1, <2>3, <2>10, <2>12, <2>13, StepKeeps DEF Become
<1> QED BY <1>4, <1>5

\* The provider handles a refresh: it may replace the token that is stored.
LEMMA RefreshCall ==
    ASSUME CodexAssumption, Shape, NEW t \in Tasks, CallRefresh(t)
    PROVE  Shape' /\ (Backend = "sqlite" /\ ~replayed => ~replayed')
<1> DEFINE o == task[t]
           old == o.row.token
<1>1. /\ o.step = "ready" /\ o.job # "reset" /\ UNCHANGED <<db, intent, lock, now>> /\ now' \in Nat
      /\ replayed' = (replayed \/ old \notin good)
  BY DEF CallRefresh, Shape, store
<1>2. Holder(o, t, db, intent, lock, good, issued) BY <1>1 DEF Shape, Fits, Holding
<1>3. Credential(db, intent, good, issued) /\ lock = t /\ db = o.row /\ issued \in Nat
  BY <1>1, <1>2 DEF Shape, Holder, Credential
<1>4. old \in Nat /\ old <= issued /\ old = db.token BY <1>3 DEF Credential, Rows
<1>5. Backend = "sqlite" => intent # None /\ db.token \in good
  <2>1. o.row.gen \in Nat BY <1>3 DEF Credential, Rows
  <2> DEFINE i == [by |-> t, job |-> IF o.job = "reset" THEN "reset" ELSE "refresh",
                   gen |-> o.row.gen]
  <2>2. i \in [by: Tasks, job: {"refresh", "reset"}, gen: Nat] BY <2>1
  <2>3. Backend = "sqlite" => intent = i /\ db.token \in good BY <1>1, <1>2 DEF Holder
  <2> HIDE DEF i
  <2> QED BY <2>2, <2>3 DEF CodexAssumption
<1>6. PICK a : /\ \/ a = "rejected" /\ old \notin good
                  \/ a \in {"kept", "unsent", "rotated", "lost", "foreign"} /\ old \in good
               /\ IF a \in {"rotated", "lost", "foreign"}
                  THEN good' = (good \ {old}) \cup {issued + 1} /\ issued' = issued + 1
                  ELSE UNCHANGED <<good, issued>>
               /\ Become(t, Answered(t, a, IF a = "rotated" THEN issued + 1 ELSE old))
  <2>1. CASE old \notin good BY <2>1 DEF CallRefresh
  <2>2. CASE old \in good BY <2>2 DEF CallRefresh
  <2> QED BY <2>1, <2>2
<1> DEFINE k == IF a = "rotated" THEN issued + 1 ELSE old
           x == [step |-> "answer", job |-> o.job, seen |-> o.seen, row |-> o.row,
                 result |-> a, token |-> k]
<1>7. /\ x.step = "answer" /\ x.job = o.job /\ x.seen = o.seen /\ x.row = o.row
      /\ x.result = a /\ x.token = k
  OBVIOUS
<1>8. task' = [task EXCEPT ![t] = x] BY <1>6 DEF Become, Answered
<1>9. /\ issued' \in Nat /\ issued <= issued' /\ k \in Nat /\ k <= issued'
      /\ a \in {"rotated", "kept"} => k \in good'
  BY <1>3, <1>4, <1>6
<1>10. ASSUME NEW u \in Tasks, u # t, task[u].step = "import"
       PROVE  /\ task[u].token \in good' /\ task[u].token <= issued' /\ task[u].token # k
              /\ task[u].token # db'.token
  <2>1. /\ task[u].token \in good /\ task[u].token # db.token /\ task[u].token <= issued
        /\ task[u].token \in Nat
    BY <1>10 DEF Shape, Fits
  <2> QED BY <1>1, <1>3, <1>4, <1>6, <1>9, <2>1
<1> HIDE DEF x, k
<1>11. Credential(db', intent', good', issued')
  <2>1. db.token <= issued' BY <1>3, <1>4, <1>9
  <2> QED BY <1>1, <1>3, <1>5, <1>9, <2>1 DEF Credential
<1>12. Holder(x, t, db', intent', lock', good', issued')
  BY <1>1, <1>2, <1>3, <1>7, <1>9 DEF Holder
<1>13. Fits(x, t, db', intent', lock', good', issued') BY <1>7, <1>12 DEF Fits
<1>14. ASSUME NEW u \in Tasks, u # t
       PROVE  /\ Fits(task[u], u, db', intent', lock', good', issued')
              /\ Apart(x, task[u]) /\ Apart(task[u], x)
  <2>1. lock # u /\ Fits(task[u], u, db, intent, lock, good, issued) BY <1>3, <1>14 DEF Shape
  <2>2. Fits(task[u], u, db', intent', lock', good', issued') BY <1>10, <1>14, <2>1, Unheld
  <2>3. Apart(x, task[u]) /\ Apart(task[u], x) BY <1>7, <1>10, <1>14 DEF Apart
  <2> QED BY <2>2, <2>3
<1>15. Shape' BY <1>1, <1>8, <1>11, <1>13, <1>14, StepKeeps
<1> QED BY <1>1, <1>4, <1>5, <1>15

\* The provider redeems a credit.
LEMMA ResetCall ==
    ASSUME CodexAssumption, Shape, NEW t \in Tasks, CallReset(t) PROVE Shape'
<1> DEFINE o == task[t]
<1>1. /\ o.step = "ready" /\ o.job = "reset" /\ now' \in Nat
      /\ UNCHANGED <<db, intent, lock, now, good, issued>>
  BY DEF CallReset, Shape, store
<1>2. Holder(o, t, db, intent, lock, good, issued) BY <1>1 DEF Shape, Fits, Holding
<1>3. PICK a \in {"done", "lost", "unsent"} : Become(t, Answered(t, a, None)) BY DEF CallReset
<1> DEFINE x == [step |-> "answer", job |-> o.job, seen |-> o.seen, row |-> o.row,
                 result |-> a, token |-> None]
<1>4. x.step = "answer" /\ x.job = o.job /\ x.seen = o.seen /\ x.row = o.row OBVIOUS
<1>5. task' = [task EXCEPT ![t] = x] BY <1>3 DEF Become, Answered
<1> HIDE DEF x
<1>6. Holder(x, t, db', intent', lock', good', issued') BY <1>1, <1>2, <1>4 DEF Holder
<1>7. Fits(x, t, db', intent', lock', good', issued') /\ \A y : Apart(x, y) /\ Apart(y, x)
  BY <1>1, <1>4, <1>6 DEF Fits, Apart
<1>8. /\ Credential(db', intent', good', issued')
      /\ \A u \in Tasks : Fits(task[u], u, db', intent', lock', good', issued')
  BY <1>1 DEF Shape
<1> QED BY <1>1, <1>5, <1>7, <1>8, StepKeeps

\* The answer is stored, or the failure, and the credential given back.
LEMMA CompleteSteps ==
    ASSUME CodexAssumption, Shape, NEW t \in Tasks,
           CompleteRefresh(t) \/ FailRefresh(t) \/ CompleteReset(t)
    PROVE  Shape'
<1> DEFINE o == task[t]
<1>1. o.step = "answer" /\ UNCHANGED <<good, issued, now>>
  BY DEF CompleteRefresh, FailRefresh, CompleteReset, provider
<1>2. Holder(o, t, db, intent, lock, good, issued) BY <1>1 DEF Shape, Fits, Holding
<1>3. /\ Credential(db, intent, good, issued) /\ lock = t /\ db = o.row /\ db.live
      /\ db \in Rows /\ RowSound(db) /\ issued \in Nat
  BY <1>1, <1>2 DEF Shape, Holder, Credential
<1>4. \A u \in Tasks : u # t /\ task[u].step = "import" => task[u].token # db.token
  BY DEF Shape, Fits
<1>5. Idle.step \in Quiet /\ Reload.step \in Quiet BY DEF Idle, Reload, Quiet
<1>6. ASSUME NEW x, Become(t, x), x.step \in Quiet, db'.token = db.token,
             Credential(db', intent', good, issued)
      PROVE  Shape'
  BY <1>1, <1>3, <1>4, <1>6, ReleaseStep DEF Become
<1>7. ASSUME GiveUp(t) \/ Become(t, Idle), UNCHANGED store PROVE Shape'
  <2>1. Become(t, Idle) /\ db' = db /\ intent' = intent BY <1>7 DEF GiveUp, store
  <2> QED BY <1>3, <1>5, <1>6, <2>1
<1>8. CASE CompleteRefresh(t)
  <2>1. o.job # "reset" /\ o.result \in {"rotated", "kept"} BY <1>8 DEF CompleteRefresh
  <2>2. o.token \in Nat /\ o.token <= issued /\ o.token \in good BY <1>1, <1>2, <2>1 DEF Holder
  <2>3. CASE ~(Releasable(t) /\ db.live /\ db.gen = task[t].row.gen)
    BY <1>7, <1>8, <2>3 DEF CompleteRefresh
  <2>4. CASE Releasable(t) /\ db.live /\ db.gen = task[t].row.gen
    <3>1. /\ db' = Refreshed(t) /\ intent' = None
          /\ IF task[t].job = "quota" THEN Resume(t) ELSE Become(t, Reload) /\ UNCHANGED qlock
      BY <1>8, <2>4 DEF CompleteRefresh
    <3>2. db' = Derived([db EXCEPT !.token = o.token, !.gen = db.gen + 1, !.reauth = FALSE])
      BY <3>1 DEF Refreshed
    <3>3. /\ db' \in Rows /\ RowSound(db') /\ db'.live /\ db'.token = o.token
          /\ ~db'.reauth
      <4>1. PICK k \in Nat : k = o.token BY <2>2
      <4>2. db' = Derived(Renewed(db, k)) BY <3>2, <4>1 DEF Renewed
      <4> HIDE DEF o
      <4>3. db' \in Rows /\ RowSound(db') /\ db'.live BY <1>3, <4>1, <4>2, RefreshedRow
      <4>4. \A r : r = Derived(Renewed(db, k)) => r.token = k /\ ~r.reauth
        BY <1>3, <4>1, RefreshedRow
      <4>5. db'.token = k /\ ~db'.reauth BY <4>2, <4>4, Zenon
      <4> QED BY <4>1, <4>3, <4>5
    <3>4. Credential(db', intent', good, issued) BY <1>3, <2>2, <3>1, <3>3 DEF Credential
    <3>5. \A u \in Tasks : u # t /\ task[u].step = "import" => task[u].token # db'.token
      BY <1>1, <2>1, <3>3 DEF Shape, Apart
    <3>6. PICK x : Become(t, x) /\ x.step \in Quiet
      <4>1. CASE Become(t, Reload) BY <1>5, <4>1
      <4>2. CASE Become(t, [step |-> "fetch", row |-> db', retried |-> TRUE])
        <5> DEFINE y == [step |-> "fetch", row |-> db', retried |-> TRUE]
        <5>1. y.step \in Quiet /\ Become(t, y) BY <4>2 DEF Quiet
        <5> HIDE DEF y
        <5> QED BY <5>1
      <4> QED BY <3>1, <3>3, <4>1, <4>2 DEF Resume
    <3> QED BY <1>1, <1>3, <3>4, <3>5, <3>6, ReleaseStep DEF Become
  <2> QED BY <2>3, <2>4
<1>9. CASE FailRefresh(t)
  <2>1. CASE ~Releasable(t) BY <1>7, <1>9, <2>1 DEF FailRefresh
  <2>2. CASE Releasable(t)
    <3>1. /\ db' = Failed(db, o.result \in {"rejected", "foreign"}) /\ intent' = intent
          /\ Become(t, Reload)
      BY <1>3, <1>9, <2>2 DEF FailRefresh, IntentAfterFailure
    <3>2. /\ db' \in Rows /\ RowSound(db') /\ db'.live /\ db'.token = db.token
      <4>1. CASE o.result \in {"rejected", "foreign"}
        <5>1. db' = [db EXCEPT !.reauth = TRUE, !.status = "unavailable"] BY <3>1, <4>1 DEF Failed
        <5> QED BY <1>3, <5>1, FailedRow
      <4>2. CASE o.result \notin {"rejected", "foreign"} BY <1>3, <3>1, <4>2 DEF Failed
      <4> QED BY <4>1, <4>2
    <3>3. Backend = "sqlite" => intent # None BY <2>2 DEF Releasable
    <3>4. Credential(db', intent', good, issued) BY <1>3, <3>1, <3>2, <3>3 DEF Credential
    <3> QED BY <1>5, <1>6, <3>1, <3>2, <3>4
  <2> QED BY <2>1, <2>2
<1>10. CASE CompleteReset(t)
  <2>1. o.job = "reset" /\ db' = db BY <1>10 DEF CompleteReset
  <2>2. CASE ~(task[t].result = "done" /\ Releasable(t))
    BY <1>7, <1>10, <2>1, <2>2 DEF CompleteReset, store
  <2>3. CASE task[t].result = "done" /\ Releasable(t)
    <3> DEFINE x == [step |-> "fetch", row |-> task[t].row, retried |-> FALSE]
    <3>1. intent' = None /\ Become(t, x) /\ x.step \in Quiet
      BY <1>10, <2>3 DEF CompleteReset, Quiet
    <3>2. ~db.reauth /\ (Backend = "sqlite" => db.token \in good)
      BY <1>1, <1>2, <1>3, <2>1 DEF Holder
    <3> HIDE DEF x
    <3>3. Credential(db', intent', good, issued) BY <1>3, <2>1, <3>1, <3>2 DEF Credential
    <3> QED BY <1>6, <2>1, <3>1, <3>3
  <2> QED BY <2>2, <2>3
<1> QED BY <1>8, <1>9, <1>10

\* The writes of quota polls and of the console.
LEMMA WriteSteps ==
    ASSUME CodexAssumption, Shape, NEW t \in Tasks,
           PersistQuota(t) \/ Delete(t) \/ Import(t) \/ \E on \in BOOLEAN : Edit(t, on)
    PROVE  Shape'
<1> DEFINE o == task[t]
<1>1. /\ UNCHANGED <<good, issued, now, lock>> /\ Backend \in {"postgres", "sqlite"}
      /\ now \in Nat
  BY DEF PersistQuota, Delete, Import, Edit, provider, CodexAssumption, Shape
<1>2. /\ Credential(db, intent, good, issued) /\ db \in Rows /\ RowSound(db)
      /\ issued \in Nat /\ Fits(o, t, db, intent, lock, good, issued)
  BY DEF Shape, Credential
<1>3. ASSUME NEW u \in Tasks, u # t, task[u].step = "import"
      PROVE  task[u].token # db.token /\ task[u].token # 0
  BY <1>3 DEF Shape, Fits
<1>4. Idle.step \in Quiet /\ Reload.step \in Quiet BY DEF Idle, Reload, Quiet
<1>5. ASSUME Become(t, Idle), UNCHANGED store PROVE Shape'
  BY <1>1, <1>4, <1>5, QuietStep DEF Become, store
<1>6. ASSUME Writable, Become(t, Reload), intent' = intent,
             db' \in Rows, RowSound(db'), db'.token \in {db.token, 0},
             db'.reauth => db.reauth,
             db'.live => db.live /\ db'.token = db.token
      PROVE  Shape'
  <2>1. lock # None => Backend = "sqlite" /\ intent = None BY <1>1, <1>6 DEF Writable
  <2>2. Backend = "sqlite" => intent = None BY <1>1, <1>6 DEF Writable
  <2>3. db'.token <= issued BY <1>2, <1>6 DEF Credential
  <2>4. Credential(db', intent', good, issued) BY <1>2, <1>6, <2>2, <2>3 DEF Credential
  <2>5. \A u \in Tasks : u # t /\ task[u].step = "import" => task[u].token # db'.token
    BY <1>3, <1>6
  <2> QED BY <1>1, <1>4, <1>6, <2>1, <2>4, <2>5, WriteStep DEF Become
<1>7. CASE PersistQuota(t)
  <2>1. o.quota \in Quotas /\ o.at \in Nat BY <1>2, <1>7 DEF PersistQuota, Fits
  <2>2. CASE db.live /\ Writable
    <3>1. db' = Observed(db, o.quota, o.at) /\ Become(t, Reload) /\ intent' = intent
      BY <1>7, <2>2 DEF PersistQuota
    <3>2. /\ db' \in Rows /\ RowSound(db') /\ db'.token = db.token /\ db'.reauth = db.reauth
      BY <1>2, <2>1, <2>2, <3>1, ObservedRow
    <3> QED BY <1>6, <2>2, <3>1, <3>2
  <2>3. CASE ~(db.live /\ Writable) BY <1>5, <1>7, <2>3 DEF PersistQuota, store
  <2> QED BY <2>2, <2>3
<1>8. CASE Delete(t)
  <2>1. db.live /\ Writable /\ db' = Erased(db) /\ Become(t, Reload) /\ intent' = intent
    BY <1>8 DEF Delete
  <2>2. /\ db' \in Rows /\ RowSound(db') /\ db'.token = 0 /\ ~db'.reauth /\ ~db'.live
    BY <1>2, <2>1, ErasedRow
  <2> QED BY <1>6, <2>1, <2>2
<1>9. CASE \E on \in BOOLEAN : Edit(t, on)
  <2>1. PICK on \in BOOLEAN : Edit(t, on) BY <1>9
  <2>2. /\ db.live /\ Writable /\ db' = Derived([db EXCEPT !.enabled = on])
        /\ Become(t, Reload) /\ intent' = intent
    BY <2>1 DEF Edit
  <2>3. db' \in Rows /\ RowSound(db') /\ db'.token = db.token /\ db'.reauth = db.reauth
    BY <1>2, <2>2, EditedRow
  <2> QED BY <1>6, <2>2, <2>3
<1>10. CASE Import(t)
  <2>1. CASE ~(db.live /\ Reauthorizable) BY <1>5, <1>10, <2>1 DEF Import
  <2>2. CASE db.live /\ Reauthorizable
    <3>1. /\ \E on \in BOOLEAN : db' = Imported(db, o.token, o.quota, o.at, on)
          /\ intent' = None /\ Become(t, Reload)
          /\ o.step = "import" /\ (Backend = "postgres" => lock = None)
      BY <1>10, <2>2 DEF Import
    <3>2. /\ o.token \in Nat /\ o.quota \in Quotas \cup {None} /\ o.at \in Nat
          /\ o.token \in good /\ o.token <= issued
      BY <1>2, <3>1 DEF Fits
    <3>3. db' \in Rows /\ RowSound(db') /\ db'.token = o.token /\ ~db'.reauth
      <4> HIDE DEF o
      <4>1. PICK k \in Nat, q \in Quotas \cup {None}, at \in Nat :
              k = o.token /\ q = o.quota /\ at = o.at
        BY <3>2
      <4>2. PICK on \in BOOLEAN : db' = Imported(db, k, q, at, on) BY <3>1, <4>1
      <4>3. db' \in Rows /\ RowSound(db') BY <1>2, <2>2, <4>1, <4>2, ImportedRow
      <4>4. \A r : r = Imported(db, k, q, at, on) => r.token = k /\ ~r.reauth
        <5>1. db \in Rows /\ db.live BY <1>2, <2>2
        <5> QED BY <5>1, ImportedRow
      <4>5. db'.token = k /\ ~db'.reauth BY <4>2, <4>4, Zenon
      <4> QED BY <4>1, <4>3, <4>5
    <3>4. lock # None => Backend = "sqlite" /\ intent = None
      BY <1>1, <2>2, <3>1 DEF Reauthorizable
    <3>5. Credential(db', intent', good, issued) BY <1>2, <3>1, <3>2, <3>3 DEF Credential
    <3>6. \A u \in Tasks : u # t /\ task[u].step = "import" => task[u].token # db'.token
      BY <3>1, <3>3 DEF Shape, Apart
    <3> QED BY <1>1, <1>4, <3>1, <3>4, <3>5, <3>6, WriteStep DEF Become
  <2> QED BY <2>1, <2>2
<1> QED BY <1>7, <1>8, <1>9, <1>10

\* The provider issues a token that nobody has.
LEMMA AuthorizeStep ==
    ASSUME CodexAssumption, Shape, NEW t \in Tasks, Authorize(t) PROVE Shape'
<1>1. /\ UNCHANGED <<db, intent, lock>> /\ good' = good \cup {issued + 1}
      /\ issued' = issued + 1
  BY DEF Authorize, store
<1>2. Credential(db, intent, good, issued) /\ issued \in Nat /\ db.token <= issued
      /\ db.token \in Nat /\ now \in Nat
  BY DEF Shape, Credential, Rows
<1>3. PICK q \in Quotas \cup {None} :
        /\ now' = IF q = None THEN now ELSE now + 1
        /\ Become(t, [step |-> "import", token |-> issued + 1, quota |-> q, at |-> now'])
  BY DEF Authorize
<1>4. now' \in Nat BY <1>2, <1>3
<1> DEFINE x == [step |-> "import", token |-> issued + 1, quota |-> q, at |-> now']
<1>5. /\ x.step = "import" /\ x.token = issued + 1 /\ x.quota = q /\ x.at = now'
      /\ task' = [task EXCEPT ![t] = x]
  BY <1>3 DEF Become
<1> HIDE DEF x
<1>6. /\ x.token \in Nat \ {0} /\ x.token \in good' /\ x.token <= issued' /\ x.token # db'.token
  BY <1>1, <1>2, <1>5
<1>7. Fits(x, t, db', intent', lock', good', issued') BY <1>4, <1>5, <1>6 DEF Fits, Holding
<1>8. Credential(db', intent', good', issued')
  <2>1. db.token <= issued' /\ issued' \in Nat /\ \A k : k \in good => k \in good' BY <1>1, <1>2
  <2> QED BY <1>1, <1>2, <2>1 DEF Credential
<1>9. ASSUME NEW u \in Tasks, u # t
      PROVE  /\ Fits(task[u], u, db', intent', lock', good', issued')
             /\ Apart(x, task[u]) /\ Apart(task[u], x)
  <2>1. Fits(task[u], u, db, intent, lock, good, issued) BY DEF Shape
  <2>2. /\ issued' \in Nat /\ issued <= issued' /\ good \subseteq good' BY <1>1, <1>2
  <2>3. Fits(task[u], u, db, intent, lock, good', issued') BY <1>2, <2>1, <2>2, StillFits
  <2>4. task[u].step = "import" => task[u].token \in Nat /\ task[u].token <= issued
    BY <2>1 DEF Fits
  <2>5. task[u].step = "answer" /\ task[u].job # "reset" =>
          task[u].token \in Nat /\ task[u].token <= issued
    BY <2>1 DEF Fits, Holder, Holding
  <2>6. Apart(x, task[u]) /\ Apart(task[u], x) BY <1>2, <1>5, <2>4, <2>5 DEF Apart
  <2> QED BY <1>1, <2>3, <2>6
<1> QED BY <1>4, <1>5, <1>7, <1>8, <1>9, StepKeeps

\* The process dies.
LEMMA CrashStep ==
    ASSUME Shape, Crash PROVE Shape'
<1>1. /\ UNCHANGED <<db, intent, good, issued, now>> /\ task' = [t \in Tasks |-> Idle]
  BY DEF Crash, store, provider
<1>2. Idle.step \in Quiet BY DEF Idle, Quiet
<1>3. \A t \in Tasks : task'[t] = Idle BY <1>1
<1>4. \A t \in Tasks : Fits(task'[t], t, db', intent', lock', good', issued')
  BY <1>2, <1>3, QuietTask
<1>5. \A t, u \in Tasks : t # u => Apart(task'[t], task'[u]) BY <1>2, <1>3, QuietTask
<1>6. Credential(db', intent', good', issued') /\ now' \in Nat /\ DOMAIN task' = Tasks
  BY <1>1 DEF Shape
<1> QED BY <1>4, <1>5, <1>6 DEF Shape

\* A step that dispatches nothing and records nothing.
LEMMA HistoryKept ==
    ASSUME History, UNCHANGED <<replayed, credits>>,
           intent' = intent \/ (Backend = "sqlite" => credits.spent <= credits.recorded),
           \A u \in Tasks : task'[u].step # "ready" \/ task'[u] = task[u]
    PROVE  History'
<1>1. CASE Backend = "sqlite"
  <2>1. /\ ~replayed /\ credits \in [spent: Nat, recorded: Nat]
        /\ credits.spent <= credits.recorded + 1
        /\ intent = None \/ intent.job # "reset" => credits.spent <= credits.recorded
    BY <1>1 DEF History
  <2>2. ASSUME NEW t \in Tasks, task'[t].step = "ready", task'[t].job = "reset"
        PROVE  credits'.spent <= credits'.recorded
    BY <1>1, <2>2 DEF History
  <2> QED BY <1>1, <2>1, <2>2 DEF History
<1>2. CASE Backend # "sqlite" BY <1>2 DEF History
<1> QED BY <1>1, <1>2

\* A step of a task that dispatches nothing.
LEMMA NotReady ==
    ASSUME Shape, NEW t \in Tasks,
           \/ Lock(t) \/ CallRefresh(t) \/ CallReset(t) \/ CompleteRefresh(t) \/ FailRefresh(t)
           \/ CompleteReset(t) \/ FetchQuota(t) \/ PersistQuota(t) \/ Import(t) \/ Load(t)
           \/ Replace(t) \/ (\E seen \in {None} \cup 0..MaxToken : Want(t, seen))
           \/ WantReset(t) \/ PollQuota(t) \/ Delete(t) \/ Authorize(t) \/ Maintain(t)
           \/ \E on \in BOOLEAN : Edit(t, on)
    PROVE  \A u \in Tasks : task'[u].step # "ready" \/ task'[u] = task[u]
<1>1. DOMAIN task = Tasks BY DEF Shape
<1>2. ASSUME NEW x, Become(t, x), x.step # "ready"
      PROVE  \A u \in Tasks : task'[u].step # "ready" \/ task'[u] = task[u]
  BY <1>1, <1>2 DEF Become
<1>3. ASSUME NEW r, NEW k, Become(t, Answered(t, r, k))
      PROVE  \A u \in Tasks : task'[u].step # "ready" \/ task'[u] = task[u]
  <2>1. Answered(t, r, k).step = "answer" BY DEF Answered
  <2> QED BY <1>2, <1>3, <2>1
<1>4. CASE CallRefresh(t) \/ CallReset(t) BY <1>3, <1>4 DEF CallRefresh, CallReset
<1>5. Idle.step # "ready" /\ Reload.step # "ready" BY DEF Idle, Reload
<1>6. ASSUME NEW r, NEW y, Become(t, [step |-> "fetch", row |-> r, retried |-> y])
      PROVE  \A u \in Tasks : task'[u].step # "ready" \/ task'[u] = task[u]
  <2> DEFINE x == [step |-> "fetch", row |-> r, retried |-> y]
  <2>1. x.step # "ready" /\ Become(t, x) BY <1>6
  <2> HIDE DEF x
  <2> QED BY <1>2, <2>1
<1>7. CASE Become(t, Idle) \/ Become(t, Reload) \/ GiveUp(t) BY <1>2, <1>5, <1>7 DEF GiveUp
<1>8. CASE Lock(t)
  <2>1. ASSUME NEW j, NEW g, NEW r,
               Become(t, [step |-> "held", job |-> j, seen |-> g, row |-> r])
        PROVE  \A u \in Tasks : task'[u].step # "ready" \/ task'[u] = task[u]
    <3> DEFINE x == [step |-> "held", job |-> j, seen |-> g, row |-> r]
    <3>1. x.step # "ready" /\ Become(t, x) BY <2>1
    <3> HIDE DEF x
    <3> QED BY <1>2, <3>1
  <2> QED BY <1>6, <1>7, <1>8, <2>1 DEF Lock
<1>9. CASE CompleteRefresh(t) \/ FailRefresh(t) \/ CompleteReset(t)
  <2>1. CASE CompleteRefresh(t) BY <1>6, <1>7, <2>1 DEF CompleteRefresh, Resume
  <2>2. CASE FailRefresh(t) BY <1>7, <2>2 DEF FailRefresh
  <2>3. CASE CompleteReset(t) BY <1>6, <1>7, <2>3 DEF CompleteReset
  <2> QED BY <1>9, <2>1, <2>2, <2>3
<1>10. CASE FetchQuota(t)
  <2>1. ASSUME NEW q, NEW at, Become(t, [step |-> "fetched", quota |-> q, at |-> at])
        PROVE  \A u \in Tasks : task'[u].step # "ready" \/ task'[u] = task[u]
    <3> DEFINE x == [step |-> "fetched", quota |-> q, at |-> at]
    <3>1. x.step # "ready" /\ Become(t, x) BY <2>1
    <3> HIDE DEF x
    <3> QED BY <1>2, <3>1
  <2>2. ASSUME NEW g, Become(t, [step |-> "wait", job |-> "quota", seen |-> g])
        PROVE  \A u \in Tasks : task'[u].step # "ready" \/ task'[u] = task[u]
    <3> DEFINE x == [step |-> "wait", job |-> "quota", seen |-> g]
    <3>1. x.step # "ready" /\ Become(t, x) BY <2>2
    <3> HIDE DEF x
    <3> QED BY <1>2, <3>1
  <2> QED BY <1>7, <1>10, <2>1, <2>2 DEF FetchQuota
<1>11. CASE PersistQuota(t) \/ Import(t) \/ Replace(t) \/ Delete(t) \/ Maintain(t)
            \/ \E on \in BOOLEAN : Edit(t, on)
  BY <1>7, <1>11 DEF PersistQuota, Import, Replace, Delete, Maintain, Edit
<1>12. CASE Load(t)
  <2> DEFINE x == [step |-> "store", view |-> View(db)]
  <2>1. x.step # "ready" /\ Become(t, x) BY <1>12 DEF Load
  <2> HIDE DEF x
  <2> QED BY <1>2, <2>1
<1>13. ASSUME NEW j, NEW g, Become(t, [step |-> "wait", job |-> j, seen |-> g])
       PROVE  \A u \in Tasks : task'[u].step # "ready" \/ task'[u] = task[u]
  <2> DEFINE x == [step |-> "wait", job |-> j, seen |-> g]
  <2>1. x.step # "ready" /\ Become(t, x) BY <1>13
  <2> HIDE DEF x
  <2> QED BY <1>2, <2>1
<1>14. CASE WantReset(t) \/ \E seen \in {None} \cup 0..MaxToken : Want(t, seen)
  BY <1>13, <1>14 DEF Want, WantReset
<1>15. CASE PollQuota(t) BY <1>6, <1>15 DEF PollQuota
<1>16. CASE Authorize(t)
  <2>1. PICK q : Become(t, [step |-> "import", token |-> issued + 1, quota |-> q, at |-> now'])
    BY <1>16 DEF Authorize
  <2> DEFINE x == [step |-> "import", token |-> issued + 1, quota |-> q, at |-> now']
  <2>2. x.step # "ready" /\ Become(t, x) BY <2>1
  <2> HIDE DEF x
  <2> QED BY <1>2, <2>2
<1> QED BY <1>4, <1>8, <1>9, <1>10, <1>11, <1>12, <1>14, <1>15, <1>16

\* Credits and tokens are accounted for by every step of a task.
LEMMA HistoryStep ==
    ASSUME CodexAssumption, Shape, History, Next PROVE History'
<1>1. CASE Crash
  <2>1. /\ UNCHANGED <<replayed, credits>> /\ intent' = intent
        /\ task' = [t \in Tasks |-> Idle]
    BY <1>1 DEF Crash, store, provider
  <2>2. \A u \in Tasks : task'[u].step # "ready" BY <2>1 DEF Idle
  <2> QED BY <2>1, <2>2, HistoryKept
<1>2. ASSUME NEW t \in Tasks, PrepareDispatch(t) PROVE History'
  <2>1. UNCHANGED <<replayed, credits>> BY <1>2 DEF PrepareDispatch, provider
  <2>2. CASE Backend # "sqlite" BY <2>2 DEF History
  <2>3. CASE Backend = "sqlite" /\ ~Blocked
    <3>1. /\ ~replayed /\ credits \in [spent: Nat, recorded: Nat]
          /\ credits.spent <= credits.recorded /\ credits.spent <= credits.recorded + 1
      BY <2>3 DEF History, Blocked
    <3> QED BY <2>1, <3>1 DEF History
  <2>4. CASE Backend = "sqlite" /\ Blocked
    <3>1. intent' = intent /\ Become(t, Idle) BY <1>2, <2>4 DEF PrepareDispatch, GiveUp
    <3>2. \A u \in Tasks : task'[u].step # "ready" \/ task'[u] = task[u]
      BY <3>1 DEF Become, Idle, Shape
    <3> QED BY <2>1, <3>1, <3>2, HistoryKept
  <2> QED BY <2>2, <2>3, <2>4
<1>3. ASSUME NEW t \in Tasks, CallReset(t) PROVE History'
  <2>1. /\ UNCHANGED <<replayed, intent>> /\ task[t].step = "ready" /\ task[t].job = "reset"
    BY <1>3 DEF CallReset, store
  <2>2. CASE Backend # "sqlite" BY <2>2 DEF History
  <2>3. CASE Backend = "sqlite"
    <3>1. /\ ~replayed /\ credits \in [spent: Nat, recorded: Nat]
          /\ credits.spent <= credits.recorded
      BY <2>1, <2>3 DEF History
    <3>2. Holder(task[t], t, db, intent, lock, good, issued) BY <2>1 DEF Shape, Fits, Holding
    <3>3. intent # None /\ intent.job = "reset" /\ lock = t
      <4>1. db = task[t].row /\ db \in Rows BY <2>1, <3>2 DEF Holder, Shape, Credential
      <4>2. task[t].row.gen \in Nat BY <4>1 DEF Rows
      <4> DEFINE i == [by |-> t, job |-> "reset", gen |-> task[t].row.gen]
      <4>3. i \in [by: Tasks, job: {"refresh", "reset"}, gen: Nat] /\ i.job = "reset" BY <4>2
      <4>4. intent = i /\ lock = t BY <2>1, <2>3, <3>2 DEF Holder
      <4> HIDE DEF i
      <4> QED BY <4>3, <4>4 DEF CodexAssumption
    <3>4. PICK a \in {"done", "lost", "unsent"} :
            credits' = [credits EXCEPT !.spent = IF a = "unsent" THEN @ ELSE @ + 1]
      BY <1>3 DEF CallReset
    <3>5. /\ credits' \in [spent: Nat, recorded: Nat]
          /\ credits'.spent <= credits'.recorded + 1
      <4>1. PICK m \in Nat : m = IF a = "unsent" THEN credits.spent ELSE credits.spent + 1 BY <3>1
      <4>2. credits' = [credits EXCEPT !.spent = m] BY <3>4, <4>1
      <4>3. credits' \in [spent: Nat, recorded: Nat] /\ credits'.spent = m
            /\ credits'.recorded = credits.recorded
        BY <3>1, <4>1, <4>2
      <4>4. credits.spent \in Nat /\ credits.recorded \in Nat BY <3>1
      <4> QED BY <3>1, <4>1, <4>3, <4>4
    <3>6. ASSUME NEW u \in Tasks, task'[u].step = "ready" PROVE FALSE
      <4>1. task'[u] = task[u] BY <1>3, <3>6, NotReady
      <4>2. lock = u BY <3>6, <4>1 DEF Shape, Fits, Holder, Holding
      <4>3. u = t BY <3>3, <4>2
      <4>4. PICK r : Become(t, Answered(t, r, None)) BY <1>3 DEF CallReset
      <4>5. task'[t].step = "answer" BY <4>4 DEF Become, Answered, Shape
      <4> QED BY <3>6, <4>3, <4>5
    <3> QED BY <2>1, <3>1, <3>3, <3>5, <3>6 DEF History
  <2> QED BY <2>2, <2>3
<1>4. ASSUME NEW t \in Tasks, CompleteReset(t) PROVE History'
  <2>1. UNCHANGED replayed /\ task[t].step = "answer" /\ task[t].job = "reset"
    BY <1>4 DEF CompleteReset
  <2>2. \A u \in Tasks : task'[u].step # "ready" \/ task'[u] = task[u] BY <1>4, NotReady
  <2>3. CASE ~(task[t].result = "done" /\ Releasable(t))
    <3>1. intent' = intent /\ credits' = credits BY <1>4, <2>3 DEF CompleteReset
    <3> QED BY <2>1, <2>2, <3>1, HistoryKept
  <2>4. CASE task[t].result = "done" /\ Releasable(t)
    <3>1. intent' = None /\ credits' = [credits EXCEPT !.recorded = @ + 1]
      BY <1>4, <2>4 DEF CompleteReset
    <3>2. CASE Backend # "sqlite" BY <3>2 DEF History
    <3>3. CASE Backend = "sqlite"
      <4>1. /\ ~replayed /\ credits \in [spent: Nat, recorded: Nat]
            /\ credits.spent <= credits.recorded + 1
        BY <3>3 DEF History
      <4>2. credits.spent \in Nat /\ credits.recorded \in Nat BY <4>1
      <4>3. /\ credits' \in [spent: Nat, recorded: Nat] /\ credits'.spent = credits.spent
            /\ credits'.recorded = credits.recorded + 1
        BY <3>1, <4>1
      <4>4. credits'.spent <= credits'.recorded /\ credits'.spent <= credits'.recorded + 1
        BY <4>1, <4>2, <4>3
      <4> QED BY <2>1, <4>1, <4>3, <4>4 DEF History
    <3> QED BY <3>2, <3>3
  <2> QED BY <2>3, <2>4
<1>5. ASSUME NEW t \in Tasks, CallRefresh(t) PROVE History'
  <2>1. intent' = intent /\ credits' = credits BY <1>5 DEF CallRefresh, store
  <2>2. \A u \in Tasks : task'[u].step # "ready" \/ task'[u] = task[u] BY <1>5, NotReady
  <2>3. CASE Backend # "sqlite" BY <2>3 DEF History
  <2>4. CASE Backend = "sqlite"
    <3>1. ~replayed /\ ~replayed' BY <1>5, <2>4, RefreshCall DEF History
    <3>2. /\ credits \in [spent: Nat, recorded: Nat]
          /\ credits.spent <= credits.recorded + 1
          /\ intent = None \/ intent.job # "reset" => credits.spent <= credits.recorded
      BY <2>4 DEF History
    <3>3. ASSUME NEW u \in Tasks, task'[u].step = "ready", task'[u].job = "reset"
          PROVE  credits.spent <= credits.recorded
      BY <2>2, <2>4, <3>3 DEF History
    <3> QED BY <2>1, <3>1, <3>2, <3>3 DEF History
  <2> QED BY <2>3, <2>4
<1>6. ASSUME NEW t \in Tasks, CompleteRefresh(t) PROVE History'
  <2>1. UNCHANGED <<replayed, credits>> /\ task[t].step = "answer" /\ task[t].job # "reset"
    BY <1>6 DEF CompleteRefresh, provider
  <2>2. \A u \in Tasks : task'[u].step # "ready" \/ task'[u] = task[u] BY <1>6, NotReady
  <2>3. Backend = "sqlite" => credits.spent <= credits.recorded
    <3>1. Holder(task[t], t, db, intent, lock, good, issued) BY <2>1 DEF Shape, Fits, Holding
    <3>2. Backend = "sqlite" => intent.job # "reset" BY <2>1, <3>1 DEF Holder
    <3> QED BY <3>2 DEF History
  <2> QED BY <2>1, <2>2, <2>3, HistoryKept
<1>7. ASSUME NEW t \in Tasks, Import(t) PROVE History'
  <2>1. UNCHANGED <<replayed, credits>> BY <1>7 DEF Import, provider
  <2>2. \A u \in Tasks : task'[u].step # "ready" \/ task'[u] = task[u] BY <1>7, NotReady
  <2>3. CASE ~(db.live /\ Reauthorizable)
    <3>1. intent' = intent BY <1>7, <2>3 DEF Import, store
    <3> QED BY <2>1, <2>2, <3>1, HistoryKept
  <2>4. CASE db.live /\ Reauthorizable
    <3>1. Backend = "sqlite" => credits.spent <= credits.recorded
      BY <2>4 DEF Reauthorizable, History
    <3> QED BY <2>1, <2>2, <3>1, HistoryKept
  <2> QED BY <2>3, <2>4
<1>8. ASSUME NEW t \in Tasks,
             \/ Lock(t) \/ FailRefresh(t) \/ FetchQuota(t) \/ PersistQuota(t) \/ Load(t)
             \/ Replace(t) \/ (\E seen \in {None} \cup 0..MaxToken : Want(t, seen))
             \/ WantReset(t) \/ PollQuota(t) \/ Delete(t) \/ Authorize(t) \/ Maintain(t)
             \/ \E on \in BOOLEAN : Edit(t, on)
      PROVE  History'
  <2>1. \A u \in Tasks : task'[u].step # "ready" \/ task'[u] = task[u] BY <1>8, NotReady
  <2>2. UNCHANGED <<replayed, credits>> /\ intent' = intent
    BY <1>8 DEF Lock, FailRefresh, FetchQuota, PersistQuota, Load, Replace, Want, WantReset,
      PollQuota, Delete, Authorize, Maintain, Edit, store, provider, IntentAfterFailure
  <2> QED BY <2>1, <2>2, HistoryKept
<1> QED BY <1>1, <1>2, <1>3, <1>4, <1>5, <1>6, <1>7, <1>8 DEF Next, Call

\* Every step preserves what is known of the row and of the tasks.
LEMMA ShapeStep ==
    ASSUME CodexAssumption, Shape, Next PROVE Shape'
<1>1. CASE Crash BY <1>1, CrashStep
<1>2. ASSUME NEW t \in Tasks, Call(t) PROVE Shape'
  BY <1>2, LockStep, DispatchStep, RefreshCall, ResetCall, CompleteSteps, FetchStep, WriteSteps,
    ReadSteps DEF Call
<1>3. ASSUME NEW t \in Tasks,
             \/ \E seen \in {None} \cup 0..MaxToken : Want(t, seen)
             \/ WantReset(t) \/ PollQuota(t) \/ Delete(t) \/ Authorize(t) \/ Maintain(t)
             \/ \E on \in BOOLEAN : Edit(t, on)
      PROVE  Shape'
  BY <1>3, ReadSteps, WriteSteps, AuthorizeStep
<1> QED BY <1>1, <1>2, <1>3 DEF Next

\* The invariant holds of a credential that was just authorized.
LEMMA CodexInit ==
    ASSUME Init PROVE CodexInv
<1> DEFINE d == [live |-> TRUE, enabled |-> TRUE, status |-> "active", reauth |-> FALSE,
                 gen |-> 0, token |-> 1, quota |-> "ok", checked |-> 0]
<1>1. d \in Rows /\ RowSound(d) /\ d.token = 1 /\ ~d.reauth
  BY DEF Rows, RowSound, Statuses, Quotas
<1>2. /\ db = d /\ intent = None /\ good = {1} /\ issued = 1 /\ now = 0 /\ replayed = FALSE
      /\ task = [t \in Tasks |-> Idle] /\ credits = [spent |-> 0, recorded |-> 0]
  BY DEF Init
<1> HIDE DEF d
<1>3. Credential(db, intent, good, issued) BY <1>1, <1>2 DEF Credential
<1>4. Idle.step \in Quiet /\ Idle.step # "ready" BY DEF Idle, Quiet
<1>5. \A t \in Tasks : task[t] = Idle BY <1>2
<1>6. Shape BY <1>2, <1>3, <1>4, <1>5, QuietTask DEF Shape
<1>7. History BY <1>2, <1>4, <1>5 DEF History
<1> QED BY <1>6, <1>7 DEF CodexInv

\* A step that changes nothing preserves the invariant.
LEMMA CodexStutter ==
    ASSUME CodexInv, UNCHANGED vars PROVE CodexInv'
<1>1. /\ UNCHANGED <<db, intent, lock, task, good, issued, now, replayed, credits>> BY DEF vars
<1>2. Shape' BY <1>1 DEF CodexInv, Shape
<1>3. History' BY <1>1 DEF CodexInv, History
<1> QED BY <1>2, <1>3 DEF CodexInv

\* For any tasks, events and crashes on either database: what the holder of the
\* credential knows is true until it gives it back, and on SQLite the intent
\* accounts for every call whose outcome is not stored.
THEOREM CodexInvariant == CodexAssumption /\ Spec => []CodexInv
<1> SUFFICES ASSUME CodexAssumption PROVE Spec => []CodexInv OBVIOUS
<1>1. Init => CodexInv BY CodexInit
<1>2. CodexInv /\ [Next]_vars => CodexInv' BY ShapeStep, HistoryStep, CodexStutter DEF CodexInv
<1> QED BY <1>1, <1>2, PTL DEF Spec

\* On either database a provider call is alone with its credential: the row keeps
\* its generation and token until the answer is stored, a stale 401 refreshes
\* nothing, and no credential is offered that may not be used.
THEOREM CallsAlwaysFenced ==
    CodexAssumption /\ Spec => [](FencedWhileInFlight /\ StaleReportIgnored /\ StatusSound)
<1>1. ASSUME CodexInv PROVE FencedWhileInFlight /\ StaleReportIgnored
  <2>1. ASSUME NEW t \in Tasks, InFlight(t)
        PROVE  /\ db = task[t].row /\ lock = t
               /\ task[t].seen # None => task[t].seen = db.gen
    <3>1. task[t].step \in Holding /\ task[t].step # "held" BY <2>1 DEF InFlight, Holding
    <3> QED BY <1>1, <3>1 DEF CodexInv, Shape, Fits, Holder
  <2>2. ASSUME NEW t \in Tasks, NEW u \in Tasks \ {t}, InFlight(t) PROVE ~InFlight(u)
    BY <2>1, <2>2
  <2> QED BY <2>1, <2>2 DEF FencedWhileInFlight, StaleReportIgnored
<1>2. CodexInv => StatusSound BY DEF CodexInv, Shape, Credential, RowSound, StatusSound
<1> QED BY <1>1, <1>2, CodexInvariant, PTL

\* On SQLite, whatever answer is lost and whenever the process dies: a token that
\* the provider has replaced is marked and never sent again, and at most one
\* redeemed credit is without its event.
THEOREM JournalAlwaysSound ==
    CodexAssumption /\ Backend = "sqlite" /\ Spec =>
        [](ReplacedTokenIsMarked /\ TokenNotReplayed /\ ResetsAccounted)
<1> SUFFICES ASSUME CodexAssumption, Backend = "sqlite"
             PROVE  Spec => [](ReplacedTokenIsMarked /\ TokenNotReplayed /\ ResetsAccounted)
  OBVIOUS
<1>1. CodexInv => ReplacedTokenIsMarked BY DEF CodexInv, Shape, Credential, ReplacedTokenIsMarked
<1>2. CodexInv => TokenNotReplayed /\ ResetsAccounted
  BY DEF CodexInv, History, TokenNotReplayed, ResetsAccounted
<1>3. Spec => []CodexInv BY CodexInvariant
<1> QED BY <1>1, <1>2, <1>3, PTL

\* Both of them: whatever a task, the provider or a crash does, a credential is
\* fenced while the provider is asked and, on SQLite, its journal accounts for
\* every call (_gateway_codex_operations).
THEOREM CodexAlwaysSound == CodexAssumption /\ Spec => []CodexSound
<1>1. CASE Backend = "sqlite"
  <2>1. (FencedWhileInFlight /\ StaleReportIgnored /\ StatusSound)
          /\ (ReplacedTokenIsMarked /\ TokenNotReplayed /\ ResetsAccounted) => CodexSound
    BY DEF CodexSound
  <2> QED BY <1>1, <2>1, CallsAlwaysFenced, JournalAlwaysSound, PTL
<1>2. CASE Backend # "sqlite"
  <2>1. FencedWhileInFlight /\ StaleReportIgnored /\ StatusSound => CodexSound
    BY <1>2 DEF CodexSound
  <2> QED BY <2>1, CallsAlwaysFenced, PTL
<1> QED BY <1>1, <1>2

\* On either database the dates of the quota answers only grow while the
\* credential lives, whichever poll is slower.
THEOREM QuotaAlwaysForward == CodexAssumption /\ Spec => [][QuotaMovesForward]_vars
<1>1. ASSUME CodexInv, Next PROVE QuotaMovesForward
  <2>1. db \in Rows /\ RowSound(db) /\ db.checked \in Nat
    BY <1>1 DEF CodexInv, Shape, Credential, Rows
  <2>2. CASE db' = db BY <2>1, <2>2 DEF QuotaMovesForward
  <2>3. ASSUME NEW t \in Tasks, db.live, CompleteRefresh(t) PROVE db'.checked >= db.checked
    <3>1. CASE db' = db BY <2>1, <3>1
    <3>2. CASE db' = Refreshed(t) /\ task[t].result \in {"rotated", "kept"}
      <4>1. task[t].step = "answer" /\ task[t].job # "reset" BY <2>3 DEF CompleteRefresh
      <4>2. task[t].token \in Nat BY <1>1, <4>1 DEF CodexInv, Shape, Fits, Holder, Holding
      <4>3. PICK k \in Nat : k = task[t].token BY <4>2
      <4>4. db' = Derived(Renewed(db, k)) BY <3>2, <4>3 DEF Refreshed, Renewed
      <4>5. db'.checked = db.checked BY <2>1, <2>3, <4>4, RefreshedRow
      <4> QED BY <2>1, <4>5
    <3> QED BY <2>3, <3>1, <3>2 DEF CompleteRefresh, store
  <2>4. ASSUME NEW t \in Tasks, db.live, FailRefresh(t) PROVE db'.checked >= db.checked
    <3>1. CASE db' = db BY <2>1, <3>1
    <3>2. CASE db' = [db EXCEPT !.reauth = TRUE, !.status = "unavailable"]
      <4>1. db'.checked = db.checked BY <2>1, <3>2 DEF Rows
      <4> QED BY <2>1, <4>1
    <3> QED BY <2>4, <3>1, <3>2 DEF FailRefresh, Failed, store
  <2>5. ASSUME NEW t \in Tasks, db.live, PersistQuota(t) PROVE db'.checked >= db.checked
    <3>1. task[t].quota \in Quotas /\ task[t].at \in Nat
      BY <1>1, <2>5 DEF CodexInv, Shape, Fits, PersistQuota
    <3>2. CASE db' = db BY <2>1, <3>2
    <3>3. CASE db' = Observed(db, task[t].quota, task[t].at)
      <4>1. PICK q \in Quotas, at \in Nat : q = task[t].quota /\ at = task[t].at BY <3>1
      <4>2. db' = Observed(db, q, at) BY <3>3, <4>1
      <4> QED BY <2>1, <2>5, <4>2, ObservedRow
    <3> QED BY <2>5, <3>2, <3>3 DEF PersistQuota
  <2>6. ASSUME NEW t \in Tasks, db.live, Import(t) PROVE db'.checked >= db.checked
    <3>1. task[t].step = "import" BY <2>6 DEF Import
    <3>2. /\ task[t].quota \in Quotas \cup {None} /\ task[t].at \in Nat /\ task[t].token \in Nat
      BY <1>1, <3>1 DEF CodexInv, Shape, Fits
    <3>3. CASE db' = db BY <2>1, <3>3
    <3>4. CASE \E on \in BOOLEAN : db' = Imported(db, task[t].token, task[t].quota, task[t].at, on)
      <4>1. PICK k \in Nat, q \in Quotas \cup {None}, at \in Nat :
              k = task[t].token /\ q = task[t].quota /\ at = task[t].at
        BY <3>2
      <4>2. PICK on \in BOOLEAN : db' = Imported(db, k, q, at, on) BY <3>4, <4>1
      <4> QED BY <2>1, <2>6, <4>2, ImportedRow
    <3> QED BY <2>6, <3>3, <3>4 DEF Import, store
  <2>7. ASSUME NEW t \in Tasks, NEW on \in BOOLEAN, Edit(t, on) PROVE db'.checked >= db.checked
    <3>1. db.live /\ db' = Derived([db EXCEPT !.enabled = on]) BY <2>7 DEF Edit
    <3>2. db'.checked = db.checked BY <2>1, <3>1, EditedRow
    <3> QED BY <2>1, <3>2
  <2>8. ASSUME NEW t \in Tasks, Delete(t) PROVE ~db'.live
    <3>1. db' = Erased(db) BY <2>8 DEF Delete
    <3> QED BY <2>1, <3>1, ErasedRow
  <2>9. \/ db' = db
        \/ \E t \in Tasks : \/ CompleteRefresh(t) \/ FailRefresh(t) \/ PersistQuota(t)
                            \/ Import(t) \/ Delete(t) \/ \E on \in BOOLEAN : Edit(t, on)
    BY <1>1 DEF Next, Call, Lock, PrepareDispatch, CallRefresh, CallReset, CompleteReset,
      FetchQuota, Load, Replace, Want, WantReset, PollQuota, Authorize, Maintain, Crash, store
  <2> QED BY <2>2, <2>3, <2>4, <2>5, <2>6, <2>7, <2>8, <2>9 DEF QuotaMovesForward
<1> QED BY <1>1, CodexInvariant, PTL DEF Spec

=============================================================================
