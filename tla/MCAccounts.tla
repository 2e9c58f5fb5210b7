----------------------------- MODULE MCAccounts -----------------------------
\* Console sessions and requests, connector plugins and the Codex
\* credentials, on small instances.  Each part gives its budget to the
\* operations that its properties are about.
EXTENDS Naturals, FiniteSets, Sequences, TLC

CONSTANTS
  None, Thing,
  root, u1, u2,  \* users
  s1, s2, s3,    \* sessions
  y1, y2,        \* browsers, invitations, administrators, processes or tasks
  d1, d2,        \* plugin images
  j1, j2         \* installation jobs

VARIABLES
  part,  \* the component that this behaviour exercises
  \* ConsoleAuth
  today, user, session, invite, code, windows, browser, tokens, epoch, born, spent,
  auths,
  \* ConsoleApi
  kind, item, sess, page, call, reply, tick, writes, logins, sent,
  \* ConnectorPlugins
  admin, artifact, selection, config, work, disk, staged, loaded, attempted, serving,
  running, request, draft, grant, handed, started, outages,
  \* CodexCredential
  stored, intent, lock, qlock, task, mem, good, issued, instant, replayed, credits,
  calls,
  \* CodexQuotaWindows
  periods, events

AuthOps == {"login", "rotate", "revoke", "password", "temporary", "admin", "delete",
            "invite", "code", "tick"}
Budgeted(f) == [op \in AuthOps |-> IF op \in DOMAIN f THEN f[op] ELSE 0]
SessionBudget == Budgeted(
  [login |-> 2, rotate |-> 2, revoke |-> 1, password |-> 1, admin |-> 2, tick |-> 1])
TemporaryBudget == Budgeted(
  [login |-> 2, password |-> 2, temporary |-> 1, code |-> 1, tick |-> 1])
AccountBudget == Budgeted(
  [login |-> 1, admin |-> 1, delete |-> 1, invite |-> 2, code |-> 1, tick |-> 1])
CodeBudget == Budgeted([login |-> 2, code |-> 4])
DeleteBudget == Budgeted([login |-> 1, admin |-> 1, delete |-> 2, invite |-> 1])
LimiterBudget == Budgeted([login |-> 5, password |-> 1, tick |-> 2])

\* The second image needs another settings schema.
SchemaOf == d1 :> 1 @@ d2 :> 2

Calls(r, q, s, e, i, c) ==
  [refresh |-> r, quota |-> q, reset |-> s, edit |-> e, import |-> i, crash |-> c]

\* Logins, rotations and revocations of one administrator.
Login == INSTANCE ConsoleAuth WITH
  Users <- {root}, Root <- root, Clients <- {y1, y2}, Sessions <- {s1, s2},
  Invites <- {}, None <- None, RefreshTtl <- 2, TempTtl <- 1, InviteTtl <- 1,
  FailureLimit <- 2, FailureWindow <- 2, MaxUses <- {1, 2}, Budget <- SessionBudget,
  now <- today, left <- auths, client <- browser

\* A temporary password and the logins around it.
Temporary == INSTANCE ConsoleAuth WITH
  Users <- {root, u1}, Root <- root, Clients <- {y1, y2}, Sessions <- {s1, s2, s3},
  Invites <- {}, None <- None, RefreshTtl <- 2, TempTtl <- 1, InviteTtl <- 1,
  FailureLimit <- 2, FailureWindow <- 2, MaxUses <- {1, 2}, Budget <- TemporaryBudget,
  now <- today, left <- auths, client <- browser

\* Invitations, registrations and deletions.
Inviting == INSTANCE ConsoleAuth WITH
  Users <- {root, u1}, Root <- root, Clients <- {y1}, Sessions <- {s1, s2},
  Invites <- {y1, y2}, None <- None, RefreshTtl <- 2, TempTtl <- 1, InviteTtl <- 1,
  FailureLimit <- 2, FailureWindow <- 2, MaxUses <- {1, 2}, Budget <- AccountBudget,
  now <- today, left <- auths, client <- browser

\* Two administrators who delete each other.
Deletion == INSTANCE ConsoleAuth WITH
  Users <- {root, u1}, Root <- root, Clients <- {y1, y2}, Sessions <- {s1, s2},
  Invites <- {y1}, None <- None, RefreshTtl <- 2, TempTtl <- 1, InviteTtl <- 1,
  FailureLimit <- 2, FailureWindow <- 2, MaxUses <- {1, 2}, Budget <- DeleteBudget,
  now <- today, left <- auths, client <- browser

\* Registration codes with a limited number of uses.
Codes == INSTANCE ConsoleAuth WITH
  Users <- {root, u1, u2}, Root <- root, Clients <- {y1}, Sessions <- {s1, s2},
  Invites <- {}, None <- None, RefreshTtl <- 2, TempTtl <- 1, InviteTtl <- 1,
  FailureLimit <- 2, FailureWindow <- 2, MaxUses <- {1, 2}, Budget <- CodeBudget,
  now <- today, left <- auths, client <- browser

\* Failing logins.
Limiter == INSTANCE ConsoleAuth WITH
  Users <- {root}, Root <- root, Clients <- {y1, y2}, Sessions <- {s1, s2},
  Invites <- {}, None <- None, RefreshTtl <- 2, TempTtl <- 1, InviteTtl <- 1,
  FailureLimit <- 2, FailureWindow <- 2, MaxUses <- {1, 2}, Budget <- LimiterBudget,
  now <- today, left <- auths, client <- browser

\* Two administrators whose accounts change under their requests.
Actors == INSTANCE ConsoleApi WITH
  Users <- {y1, y2}, Admins <- {y1, y2}, None <- None, Thing <- Thing,
  Kinds <- {"api_key"},
  Acts <- {"get", "update", "revoke", "temporary", "complete", "logout", "profile"},
  MaxWrites <- 2, MaxRequests <- 3, MaxLogins <- 1, now <- tick, form <- page,
  req <- call, row <- item, answer <- reply

\* Two administrators who edit a resource of each sort.
Resources == INSTANCE ConsoleApi WITH
  Users <- {y1, y2}, Admins <- {y1, y2}, None <- None, Thing <- Thing,
  Kinds <- {"registration_code", "model", "api_key", "system_settings"},
  Acts <- {"get", "create", "update", "delete", "profile"}, MaxWrites <- 2,
  MaxRequests <- 3, MaxLogins <- 0, now <- tick, form <- page, req <- call,
  row <- item, answer <- reply

\* Two processes that share a database.
Shared == INSTANCE ConnectorPlugins WITH
  Procs <- {y1, y2}, Digests <- {d1, d2}, Sound <- {d1, d2}, Jobs <- {}, None <- None,
  Schema <- SchemaOf, MaxRetained <- 2, MaxRev <- 3, MaxGrants <- 2, Faults <- 0,
  cfg <- config, up <- running, st <- selection, job <- work, art <- artifact,
  req <- request, form <- draft, snap <- serving, issued <- handed, faults <- outages

\* One process, an artifact that does not load, failing operations.
Running == INSTANCE ConnectorPlugins WITH
  Procs <- {y1}, Digests <- {d1, d2}, Sound <- {d1}, Jobs <- {j1}, None <- None,
  Schema <- SchemaOf, MaxRetained <- 1, MaxRev <- 3, MaxGrants <- 2, Faults <- 1,
  cfg <- config, up <- running, st <- selection, job <- work, art <- artifact,
  req <- request, form <- draft, snap <- serving, issued <- handed, faults <- outages

\* Two installation jobs, and processes that restart.
Installs == INSTANCE ConnectorPlugins WITH
  Procs <- {y1, y2}, Digests <- {d1}, Sound <- {d1}, Jobs <- {j1, j2}, None <- None,
  Schema <- SchemaOf, MaxRetained <- 1, MaxRev <- 2, MaxGrants <- 2, Faults <- 1,
  cfg <- config, up <- running, st <- selection, job <- work, art <- artifact,
  req <- request, form <- draft, snap <- serving, issued <- handed, faults <- outages

\* Refreshes with an operation journal, edits, imports and a crash.
Refreshes == INSTANCE CodexCredential WITH
  Backend <- "sqlite", Tasks <- {y1, y2}, None <- None, MaxToken <- 3, MaxTime <- 1,
  Budget <- Calls(2, 1, 0, 1, 1, 1), db <- stored, now <- instant, left <- calls

\* Quota resets with an operation journal and a crash.
Resets == INSTANCE CodexCredential WITH
  Backend <- "sqlite", Tasks <- {y1, y2}, None <- None, MaxToken <- 2, MaxTime <- 1,
  Budget <- Calls(0, 1, 2, 1, 1, 1), db <- stored, now <- instant, left <- calls

\* Refreshes under the row lock of the database.
Locked == INSTANCE CodexCredential WITH
  Backend <- "postgres", Tasks <- {y1, y2}, None <- None, MaxToken <- 3, MaxTime <- 1,
  Budget <- Calls(2, 1, 0, 1, 1, 0), db <- stored, now <- instant, left <- calls

\* Quota observations that overtake each other.
Quota == INSTANCE CodexCredential WITH
  Backend <- "sqlite", Tasks <- {y1, y2}, None <- None, MaxToken <- 2, MaxTime <- 2,
  Budget <- Calls(0, 2, 1, 1, 1, 0), db <- stored, now <- instant, left <- calls

\* Two windows of a quota.
Windows == INSTANCE CodexQuotaWindows WITH
  Starts <- {1, 4, 5}, Lengths <- {5}, Usages <- {0, 7},
  Reported <- {"primary", "secondary"}, Times <- {3}, Tolerance <- 1, MatchWindow <- 2,
  MaxEvents <- 1, MaxPeriods <- 3, None <- None

\* One window whose reports are imprecise.
Jitter == INSTANCE CodexQuotaWindows WITH
  Starts <- {1, 2, 4, 5, 6, 9}, Lengths <- {3, 4}, Usages <- {0, 7},
  Reported <- {"primary"}, Times <- {1, 5}, Tolerance <- 1, MatchWindow <- 2,
  MaxEvents <- 1, MaxPeriods <- 3, None <- None

ASSUME /\ Login!AuthAssumption /\ Temporary!AuthAssumption /\ Inviting!AuthAssumption
       /\ Deletion!AuthAssumption /\ Codes!AuthAssumption /\ Limiter!AuthAssumption
ASSUME Actors!ApiAssumption /\ Resources!ApiAssumption
ASSUME Shared!PluginAssumption /\ Running!PluginAssumption /\ Installs!PluginAssumption
ASSUME /\ Refreshes!CodexAssumption /\ Resets!CodexAssumption
       /\ Locked!CodexAssumption /\ Quota!CodexAssumption
ASSUME Windows!WindowsAssumption /\ Jitter!WindowsAssumption

--------------------
\* The variables of a component that is not exercised.
Off == <<>>

loginVars == <<today, user, session, invite, code, windows, browser, tokens, epoch, born, spent,
               auths>>
LoginOff ==
  /\ today = Off /\ user = Off /\ session = Off /\ invite = Off /\ code = Off
  /\ windows = Off /\ browser = Off /\ tokens = Off /\ epoch = Off /\ born = Off
  /\ spent = Off /\ auths = Off

actorsVars == <<kind, item, sess, page, call, reply, tick, writes, logins, sent>>
ActorsOff ==
  /\ kind = Off /\ item = Off /\ sess = Off /\ page = Off /\ call = Off
  /\ reply = Off /\ tick = Off /\ writes = Off /\ logins = Off /\ sent = Off

sharedVars == <<admin, artifact, selection, config, work, disk, staged, loaded, attempted, serving,
                running, request, draft, grant, handed, started, outages>>
SharedOff ==
  /\ admin = Off /\ artifact = Off /\ selection = Off /\ config = Off /\ work = Off
  /\ disk = Off /\ staged = Off /\ loaded = Off /\ attempted = Off /\ serving = Off
  /\ running = Off /\ request = Off /\ draft = Off /\ grant = Off /\ handed = Off
  /\ started = Off /\ outages = Off

refreshesVars == <<stored, intent, lock, qlock, task, mem, good, issued, instant, replayed, credits,
                   calls>>
RefreshesOff ==
  /\ stored = Off /\ intent = Off /\ lock = Off /\ qlock = Off /\ task = Off
  /\ mem = Off /\ good = Off /\ issued = Off /\ instant = Off /\ replayed = Off
  /\ credits = Off /\ calls = Off

windowsVars == <<periods, events>>
WindowsOff ==
  /\ periods = Off /\ events = Off

allVars == <<part, loginVars, actorsVars, sharedVars, refreshesVars, windowsVars>>

SuiteInit ==
  \/ /\ part = "sessions" /\ Login!Init /\ ActorsOff /\ SharedOff /\ RefreshesOff
     /\ WindowsOff
  \/ /\ part = "temporary" /\ Temporary!Init /\ ActorsOff /\ SharedOff
     /\ RefreshesOff /\ WindowsOff
  \/ /\ part = "invites" /\ Inviting!Init /\ ActorsOff /\ SharedOff /\ RefreshesOff
     /\ WindowsOff
  \/ /\ part = "deletion" /\ Deletion!Init /\ ActorsOff /\ SharedOff /\ RefreshesOff
     /\ WindowsOff
  \/ /\ part = "codes" /\ Codes!Init /\ ActorsOff /\ SharedOff /\ RefreshesOff
     /\ WindowsOff
  \/ /\ part = "limiter" /\ Limiter!Init /\ ActorsOff /\ SharedOff /\ RefreshesOff
     /\ WindowsOff
  \/ /\ part = "actors" /\ Actors!Init /\ LoginOff /\ SharedOff /\ RefreshesOff
     /\ WindowsOff
  \/ /\ part = "resources" /\ Resources!Init /\ LoginOff /\ SharedOff
     /\ RefreshesOff /\ WindowsOff
  \/ /\ part = "shared" /\ Shared!Init /\ LoginOff /\ ActorsOff /\ RefreshesOff
     /\ WindowsOff
  \/ /\ part = "run" /\ Running!Init /\ LoginOff /\ ActorsOff /\ RefreshesOff
     /\ WindowsOff
  \/ /\ part = "jobs" /\ Installs!Init /\ LoginOff /\ ActorsOff /\ RefreshesOff
     /\ WindowsOff
  \/ /\ part = "tokens" /\ Refreshes!Init /\ LoginOff /\ ActorsOff /\ SharedOff
     /\ WindowsOff
  \/ /\ part = "resets" /\ Resets!Init /\ LoginOff /\ ActorsOff /\ SharedOff
     /\ WindowsOff
  \/ /\ part = "locked" /\ Locked!Init /\ LoginOff /\ ActorsOff /\ SharedOff
     /\ WindowsOff
  \/ /\ part = "quota" /\ Quota!Init /\ LoginOff /\ ActorsOff /\ SharedOff
     /\ WindowsOff
  \/ /\ part = "windows" /\ Windows!Init /\ LoginOff /\ ActorsOff /\ SharedOff
     /\ RefreshesOff
  \/ /\ part = "jitter" /\ Jitter!Init /\ LoginOff /\ ActorsOff /\ SharedOff
     /\ RefreshesOff

SuiteNext ==
  \/ /\ part = "sessions" /\ Login!Next
     /\ UNCHANGED <<part, actorsVars, sharedVars, refreshesVars, windowsVars>>
  \/ /\ part = "temporary" /\ Temporary!Next
     /\ UNCHANGED <<part, actorsVars, sharedVars, refreshesVars, windowsVars>>
  \/ /\ part = "invites" /\ Inviting!Next
     /\ UNCHANGED <<part, actorsVars, sharedVars, refreshesVars, windowsVars>>
  \/ /\ part = "deletion" /\ Deletion!Next
     /\ UNCHANGED <<part, actorsVars, sharedVars, refreshesVars, windowsVars>>
  \/ /\ part = "codes" /\ Codes!Next
     /\ UNCHANGED <<part, actorsVars, sharedVars, refreshesVars, windowsVars>>
  \/ /\ part = "limiter" /\ Limiter!Next
     /\ UNCHANGED <<part, actorsVars, sharedVars, refreshesVars, windowsVars>>
  \/ /\ part = "actors" /\ Actors!Next
     /\ UNCHANGED <<part, loginVars, sharedVars, refreshesVars, windowsVars>>
  \/ /\ part = "resources" /\ Resources!Next
     /\ UNCHANGED <<part, loginVars, sharedVars, refreshesVars, windowsVars>>
  \/ /\ part = "shared" /\ Shared!Next
     /\ UNCHANGED <<part, loginVars, actorsVars, refreshesVars, windowsVars>>
  \/ /\ part = "run" /\ Running!Next
     /\ UNCHANGED <<part, loginVars, actorsVars, refreshesVars, windowsVars>>
  \/ /\ part = "jobs" /\ Installs!Next
     /\ UNCHANGED <<part, loginVars, actorsVars, refreshesVars, windowsVars>>
  \/ /\ part = "tokens" /\ Refreshes!Next
     /\ UNCHANGED <<part, loginVars, actorsVars, sharedVars, windowsVars>>
  \/ /\ part = "resets" /\ Resets!Next
     /\ UNCHANGED <<part, loginVars, actorsVars, sharedVars, windowsVars>>
  \/ /\ part = "locked" /\ Locked!Next
     /\ UNCHANGED <<part, loginVars, actorsVars, sharedVars, windowsVars>>
  \/ /\ part = "quota" /\ Quota!Next
     /\ UNCHANGED <<part, loginVars, actorsVars, sharedVars, windowsVars>>
  \/ /\ part = "windows" /\ Windows!Next
     /\ UNCHANGED <<part, loginVars, actorsVars, sharedVars, refreshesVars>>
  \/ /\ part = "jitter" /\ Jitter!Next
     /\ UNCHANGED <<part, loginVars, actorsVars, sharedVars, refreshesVars>>

SuiteSpec == SuiteInit /\ [][SuiteNext]_allVars

--------------------
\* Browsers, administrators, processes and tasks do the same, so do sessions.
Interchangeable == Permutations({y1, y2}) \cup Permutations({s1, s2})

\* docs/reference/codex-oauth-connect.md:189: an operation with an intent is not
\* resent after a restart; checked against the PostgreSQL backend.
Replay == INSTANCE CodexCredential WITH
  Backend <- "postgres", Tasks <- {y1}, None <- None, MaxToken <- 2, MaxTime <- 0,
  Budget <- Calls(2, 0, 0, 0, 0, 1), db <- stored, now <- instant, left <- calls
ReplayInit ==
  /\ part = "replay" /\ Replay!Init /\ LoginOff /\ ActorsOff /\ SharedOff
  /\ WindowsOff
ReplayNext ==
  /\ Replay!Next
  /\ UNCHANGED <<part, loginVars, actorsVars, sharedVars, windowsVars>>
ReplaySpec == ReplayInit /\ [][ReplayNext]_allVars
TokenNotReplayed == Replay!TokenNotReplayed

\* Who is let in is who the database says at that moment, sessions end with the
\* credentials they were opened with, what is deleted stays deleted, codes are
\* used no more often than allowed, guesses are bounded, and an answer of the
\* API says what was done.
AccessSound ==
  /\ part = "sessions" => Login!AccessSound
  /\ part = "temporary" => Temporary!AccessSound
  /\ part = "invites" => Inviting!AccessSound
  /\ part = "deletion" => Deletion!AccessSound
  /\ part = "codes" => Codes!AccessSound
  /\ part = "limiter" => Limiter!AccessSound
  /\ part = "actors" => Actors!AnswerIsTrue
  /\ part = "resources" => Resources!AnswerIsTrue

\* A refresh token is spent once, a temporary password is replaced by its user
\* only, an administrator remains, a request changes something only in the name
\* of someone entitled to it, and who has a temporary password does nothing but
\* change it.
AccessSteps ==
  [][/\ part = "sessions" => Login!AccessSteps
     /\ part = "temporary" => Temporary!AccessSteps
     /\ part = "invites" => Inviting!AccessSteps
     /\ part = "deletion" => Deletion!AccessSteps
     /\ part = "codes" => Codes!AccessSteps
     /\ part = "limiter" => Limiter!AccessSteps
     /\ part = "actors" => Actors!ApiSteps
     /\ part = "resources" => Resources!ApiSteps]_allVars

\* Nothing newer is overwritten by something older: an update based on an older
\* version is refused and only such a one, plugin settings and images survive
\* reloads, jobs and restarts, and late quota reports are ignored.
NothingOverwritten ==
  [][/\ part = "actors" => Actors!VersionsKept
     /\ part = "resources" => Resources!VersionsKept
     /\ part = "shared" => Shared!PluginSteps
     /\ part = "run" => Running!PluginSteps
     /\ part = "jobs" => Installs!PluginSteps
     /\ part = "quota" => Quota!QuotaMovesForward
     /\ part = "windows" => Windows!UsageIsNewest
     /\ part = "jitter" => Jitter!UsageIsNewest]_allVars

\* The selected image is installed and its stored settings fit it, a generation
\* stands for one content, every write was paid for with a password, and every
\* staged upload has an owner.
PluginsSound ==
  /\ part = "shared" => Shared!PluginsSound
  /\ part = "run" => Running!PluginsSound
  /\ part = "jobs" => Installs!PluginsSound

\* A credential is fenced while the provider is asked, a consumed refresh token
\* is not presented again, late reports about an older generation are ignored,
\* resets are accounted for, and the quota windows follow each other, count
\* every cost once and hide nothing.
CodexSound ==
  /\ part = "tokens" => Refreshes!CodexSound
  /\ part = "resets" => Resets!CodexSound
  /\ part = "locked" => Locked!CodexSound
  /\ part = "quota" => Quota!CodexSound
  /\ part = "windows" => Windows!WindowsSound
  /\ part = "jitter" => Jitter!WindowsSound
=============================================================================
