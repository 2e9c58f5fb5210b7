-------------------------- MODULE ConnectorPlugins --------------------------
\* The life of a connector plugin: packages are uploaded and unpacked into
\* a process's plugin directory, registered as artifacts in the database,
\* selected and configured by an administrator, loaded and published in the
\* runtime snapshot (src/connector_plugins, application/control_plane/
\* plugins.rs, persistence/plugins.rs, http/console/plugins.rs).
\*
\* One plugin id; an artifact is its digest.  Several gateway processes may
\* share the database; each owns a directory of its own.  Within a process
\* the coordinator's mutex covers everything from the read of the plugin's
\* records to the commit, the database transaction only the last part.
EXTENDS Naturals, FiniteSets

CONSTANTS
  Procs, Digests, Jobs,
  Schema,       \* [Digests -> Nat]: settings schema of the image, 0 for none
  Sound,        \* the digests whose image loads and keeps its contract
  None,
  MaxRetained,  \* MAX_RETAINED_LIBRARIES, MAX_LOADED_ARTIFACTS
  MaxRev,       \* bound on the revisions of the plugin's state
  MaxGrants,    \* bound on reauthorizations
  Faults        \* bound on crashes, lost writes, removed files and dropped requests

VARIABLES
  admin,      \* the administrator's account is still active
  art,        \* plugin_artifacts: [Digests -> {"absent", "live", "deleted"}]
  st,         \* plugin_states: [enabled, digest, rev], or None
  cfg,        \* plugin_settings: [schema, val, rev], or None
  job,        \* plugin_install_jobs: [status, proc, digest, at]
  disk,       \* artifacts unpacked in each process's directory
  staged,     \* uploads in each process's staging directory
  loaded, attempted, \* images each process loaded, or tried to
  snap,       \* the plugin in each process's snapshot: [digest, rev, val], or None
  up, req, form, grant, \* running; request in hand; the etags last seen; token held
  issued, started, \* reauthorizations and the writes they paid for
  faults

db == <<art, st, cfg>>
image == <<disk, loaded, attempted>>
rest == <<admin, job, staged, up, form, grant, issued, started, faults>>
vars == <<admin, art, st, cfg, job, disk, staged, loaded, attempted, snap, up,
          req, form, grant, issued, started, faults>>

NoReq == [step |-> "idle"]
NoJob == [status |-> "none", at |-> "new"]
Ended == {"succeeded", "failed"}

\* What the tables, the snapshot and the browser hold.
Values == (Procs \cup {None}) \X Nat
StateRow == [enabled: BOOLEAN, digest: Digests \cup {None}, rev: Nat]
Document == [schema: Nat, val: Values]
SettingsRow == [schema: Nat, val: Values, rev: Nat]
Active == [digest: Digests, rev: Nat, val: Values \cup {None}]
Etag == Nat \X (Digests \cup {None})
Form == [state: Etag, settings: Etag \cup {None}, seen: Values \cup {None}]

PluginAssumption ==
  /\ IsFiniteSet(Procs) /\ MaxRetained \in Nat \ {0}
  /\ \A d \in Digests : Schema[d] \in Nat
  /\ None \notin Digests \cup Values \cup Etag
  /\ None \notin StateRow \cup Document \cup SettingsRow \cup Active \cup Form

Init ==
  /\ admin = TRUE /\ art = [d \in Digests |-> "absent"]
  /\ st = None /\ cfg = None /\ job = [j \in Jobs |-> NoJob]
  /\ disk = [p \in Procs |-> {}] /\ staged = [p \in Procs |-> {}]
  /\ loaded = [p \in Procs |-> {}] /\ attempted = [p \in Procs |-> {}]
  /\ snap = [p \in Procs |-> None] /\ up = [p \in Procs |-> TRUE]
  /\ req = [p \in Procs |-> NoReq] /\ form = [p \in Procs |-> None]
  /\ grant = [p \in Procs |-> FALSE] /\ issued = 0 /\ started = 0 /\ faults = 0

Fault == faults < Faults /\ faults' = faults + 1
Free(p) == up[p] /\ req[p].step # "commit"
Live == {d \in Digests : art[d] = "live"}

--------------------
\* Loading

\* resolve: a loaded artifact does not need its files any more.
Resolve(p, d) == d \in loaded[p] \/ d \in disk[p]

\* linux::load, RetainedLibraries::reserve: an image is tried once.
Room(p, d) ==
  d \notin attempted[p] /\ Cardinality(attempted[p]) < MaxRetained
Loads(p, d) ==
  Resolve(p, d) /\ (d \in loaded[p] \/ (d \in disk[p] /\ Room(p, d) /\ d \in Sound))

\* The attempt is remembered whatever comes of it.
Load(p, d) ==
  /\ loaded' = [loaded EXCEPT ![p] = IF Loads(p, d) THEN @ \cup {d} ELSE @]
  /\ attempted' = [attempted EXCEPT ![p] =
       IF d \notin loaded[p] /\ d \in disk[p] /\ Room(p, d)
         THEN @ \cup {d} ELSE @]
Loadless == UNCHANGED <<loaded, attempted>>

\* configured: the document has the schema of the image.
Fits(d, c) == Schema[d] # 0 => (c # None => c.schema = Schema[d]) /\ c # None

\* compile_runtime_config_with_catalog: the generation the records describe.
Generation(p, s, c, arts) ==
  IF s = None THEN None
  ELSE IF ~s.enabled THEN None
  ELSE IF s.digest \in arts /\ Loads(p, s.digest) /\ Fits(s.digest, c)
    THEN [digest |-> s.digest, rev |-> s.rev,
          val |-> IF Schema[s.digest] = 0 THEN None ELSE c.val]
    ELSE None

LoadSelected(p, s, arts) ==
  IF s = None THEN Loadless
  ELSE IF s.enabled /\ s.digest \in arts THEN Load(p, s.digest) ELSE Loadless

\* The coordinator's reload: compile what is committed and publish it.
Reload(p) ==
  /\ Free(p)
  /\ snap' = [snap EXCEPT ![p] = Generation(p, st, cfg, Live)]
  /\ LoadSelected(p, st, Live)
  /\ UNCHANGED <<disk, req>> /\ UNCHANGED db /\ UNCHANGED rest

--------------------
\* Management requests

\* detail and settings: the two etags the Console shows.
etag(rev, d) == <<rev, d>>
View(p) ==
  /\ up[p] /\ st # None
  /\ form' = [form EXCEPT ![p] =
       [state |-> etag(st.rev, st.digest),
        settings |-> IF cfg = None THEN None ELSE etag(cfg.rev, st.digest),
        seen |-> IF cfg = None THEN None ELSE cfg.val]]
  /\ UNCHANGED <<admin, job, staged, up, grant, issued, started, faults, snap, req>>
  /\ UNCHANGED db /\ UNCHANGED image

\* authorize_plugin_management: one token per session, a new one replaces it.
Reauthorize(p) ==
  /\ up[p] /\ admin /\ issued < MaxGrants
  /\ grant' = [grant EXCEPT ![p] = TRUE] /\ issued' = issued + 1
  /\ UNCHANGED <<admin, job, staged, up, form, started, faults, snap, req>>
  /\ UNCHANGED db /\ UNCHANGED image

\* consume_plugin_authorization: removed before anything else is checked.
Consumed(p) == grant' = [grant EXCEPT ![p] = FALSE]

\* authorize: the token, then the account; the rest of the handler waits.
Authorize(p, op) ==
  /\ up[p] /\ req[p] = NoReq /\ grant[p] /\ Consumed(p)
  /\ started' = started + 1
  /\ req' = IF admin THEN [req EXCEPT ![p] = op] ELSE req
  /\ UNCHANGED <<admin, job, staged, up, form, issued, faults, snap>>
  /\ UNCHANGED db /\ UNCHANGED image

Wants ==
  [step: {"state"}, enabled: BOOLEAN, digest: Digests \cup {None}]
    \cup [step: {"settings"}, schema: {Schema[d] : d \in Digests} \ {0}]
    \cup [step: {"delete"}, digest: Digests]

Drop(p) == req' = [req EXCEPT ![p] = NoReq]

\* migrate_settings and defaults: the document the selected image runs with.
Migrated(d) ==
  IF Schema[d] = 0 THEN None
  ELSE IF cfg = None THEN [schema |-> Schema[d], val |-> <<None, 0>>]
  ELSE IF cfg.schema = Schema[d] THEN [schema |-> cfg.schema, val |-> cfg.val]
  ELSE [schema |-> Schema[d], val |-> <<None, st.rev>>]

\* save_plugin_state up to the transaction: nothing is loaded for a plugin
\* that stays as it was and is switched off.
PrepareState(p) ==
  /\ req[p].step = "state"
  /\ LET w == req[p]
         check == w.digest # None /\ (w.enabled \/ st.digest # w.digest)
         ok == /\ st # None /\ form[p] # None
               /\ form[p].state = etag(st.rev, st.digest)
               /\ check => w.digest \in Live /\ Loads(p, w.digest)
               /\ w.enabled => w.digest # None
     IN IF st = None THEN Drop(p) /\ Loadless ELSE
        /\ IF ok THEN req' = [req EXCEPT ![p] =
                 [step |-> "commit", op |-> "state", rev |-> st.rev,
                  enabled |-> w.enabled, digest |-> w.digest,
                  doc |-> IF check THEN Migrated(w.digest) ELSE None]]
                 ELSE Drop(p)
        /\ IF /\ form[p] # None /\ form[p].state = etag(st.rev, st.digest)
              /\ check /\ w.digest \in Live
             THEN Load(p, w.digest) ELSE Loadless
  /\ UNCHANGED <<disk, snap>> /\ UNCHANGED db /\ UNCHANGED rest

\* save_plugin_settings up to the transaction.
PrepareSettings(p) ==
  /\ req[p].step = "settings"
  /\ IF st = None \/ cfg = None \/ form[p] = None THEN Drop(p) /\ Loadless
     ELSE IF form[p].settings # etag(cfg.rev, st.digest) \/ st.digest = None
       THEN Drop(p) /\ Loadless
     ELSE /\ req' = IF Loads(p, st.digest) /\ Schema[st.digest] = req[p].schema
                      THEN [req EXCEPT ![p] =
                        [step |-> "commit", op |-> "settings", rev |-> st.rev,
                         enabled |-> st.enabled, digest |-> st.digest,
                         doc |-> [schema |-> @.schema, val |-> <<p, st.rev>>]]]
                      ELSE [req EXCEPT ![p] = NoReq]
          /\ Load(p, st.digest)
  /\ UNCHANGED <<disk, snap>> /\ UNCHANGED db /\ UNCHANGED rest

\* delete_plugin_artifact up to the transaction: not while it is loaded here.
PrepareDelete(p) ==
  /\ req[p].step = "delete"
  /\ IF st = None \/ form[p] = None THEN Drop(p)
     ELSE IF form[p].state # etag(st.rev, st.digest) \/ req[p].digest \in loaded[p]
       THEN Drop(p)
     ELSE req' = [req EXCEPT ![p] = [step |-> "commit", op |-> "delete",
                    rev |-> st.rev, digest |-> @.digest]]
  /\ UNCHANGED snap /\ UNCHANGED db /\ UNCHANGED image /\ UNCHANGED rest

\* UPDATE plugin_states ... WHERE revision: the read is still the truth.
Matches(r) == st # None /\ st.rev = r.rev

\* save: the artifact is registered and not deleted.
SaveAllowed(r) == Matches(r) /\ (r.digest # None => r.digest \in Live)

Saved(r) == [enabled |-> r.enabled, digest |-> r.digest, rev |-> st.rev + 1]

\* plugin_settings: written when the document changed.
Stored(r) ==
  IF r.doc = None THEN cfg
  ELSE IF cfg = None THEN [schema |-> r.doc.schema, val |-> r.doc.val, rev |-> 1]
  ELSE IF r.op = "state" /\ r.doc = [schema |-> cfg.schema, val |-> cfg.val]
    THEN cfg
  ELSE [schema |-> r.doc.schema, val |-> r.doc.val, rev |-> cfg.rev + 1]

\* The snapshot the coordinator compiles inside the transaction.
Candidate(p, r) == Generation(p, Saved(r), Stored(r), Live)

\* commit_plugin_change: an enabled plugin is in the candidate snapshot.
CandidateAccepted(p, r) ==
  r.enabled => Candidate(p, r) # None

\* publish_snapshot: the candidate, once the transaction has committed.
Published(p, r) == Candidate(p, r)

\* The transaction of a save and the publication of what it compiled.
CommitSave(p) ==
  /\ req[p].step = "commit"
  /\ LET r == req[p]
     IN /\ r.op \in {"state", "settings"} /\ Drop(p)
        /\ IF admin /\ SaveAllowed(r)
             THEN /\ st.rev < MaxRev
                  /\ LoadSelected(p, Saved(r), Live)
                  /\ IF CandidateAccepted(p, r)
                       THEN /\ st' = Saved(r) /\ cfg' = Stored(r)
                            /\ snap' = [snap EXCEPT ![p] = Published(p, r)]
                       ELSE UNCHANGED <<st, cfg, snap>>
             ELSE UNCHANGED <<st, cfg, snap>> /\ Loadless
  /\ UNCHANGED <<art, disk>> /\ UNCHANGED rest

\* delete_artifact: not the selected one.
DeleteAllowed(r) ==
  Matches(r) /\ art[r.digest] = "live" /\ st.digest # r.digest

CommitDelete(p) ==
  /\ req[p].step = "commit" /\ req[p].op = "delete" /\ Drop(p)
  /\ IF admin /\ DeleteAllowed(req[p])
       THEN /\ st.rev < MaxRev /\ st' = [st EXCEPT !.rev = @ + 1]
            /\ art' = [art EXCEPT ![req[p].digest] = "deleted"]
            /\ snap' = [snap EXCEPT ![p] = Generation(p, st', cfg,
                                            Live \ {req[p].digest})]
            /\ LoadSelected(p, st, Live \ {req[p].digest})
       ELSE UNCHANGED <<st, art, snap>> /\ Loadless
  /\ UNCHANGED <<cfg, disk>> /\ UNCHANGED rest

--------------------
\* Packages

\* register: the artifact, revived if need be, and the plugin's first state.
Registered(d) ==
  /\ art' = [art EXCEPT ![d] = "live"]
  /\ st' = IF st = None THEN [enabled |-> FALSE, digest |-> None, rev |-> 1] ELSE st

\* discover: what is known, deleted or not, is left alone.
Undiscovered(d) == art[d] = "absent"

\* discover_plugin_directory and the job that does the same outside the mutex: a
\* package dropped into incoming is unpacked, and the artifacts on disk are
\* registered one by one.
Import(p, d) ==
  /\ up[p] /\ d \notin disk[p] /\ disk' = [disk EXCEPT ![p] = @ \cup {d}]
  /\ UNCHANGED <<loaded, attempted, snap, req>> /\ UNCHANGED db /\ UNCHANGED rest
Discover(p, d) ==
  /\ up[p] /\ d \in disk[p] /\ Undiscovered(d) /\ Registered(d)
  /\ UNCHANGED <<cfg, snap, req>> /\ UNCHANGED image /\ UNCHANGED rest

Move(j, at, status) ==
  job' = [job EXCEPT ![j] = [status |-> status, proc |-> @.proc, digest |-> @.digest, at |-> at]]

\* install: the body goes to a file of its own in staging, which open creates.
Upload(p, j, d) ==
  /\ req[p] = [step |-> "install"] /\ job[j] = NoJob
  /\ staged' = [staged EXCEPT ![p] = @ \cup {j}]
  /\ job' = [job EXCEPT ![j] =
       [status |-> "none", proc |-> p, digest |-> d, at |-> "opening"]]
  /\ Drop(p)
  /\ UNCHANGED <<admin, snap, up, form, grant, issued, started, faults>>
  /\ UNCHANGED db /\ UNCHANGED image

At(j, s) == job[j] # NoJob /\ up[job[j].proc] /\ job[j].at = s

\* open().await returns and StagedUpload owns the file; a handler dropped at this
\* await leaves it to nobody, as the blocking open is carried out all the same.
Opened(j, dropped) ==
  /\ At(j, "opening")
  /\ IF dropped THEN Fault /\ Move(j, "orphan", "none")
     ELSE UNCHANGED faults /\ Move(j, "handler", "none")
  /\ UNCHANGED <<admin, staged, snap, up, req, form, grant, issued, started>>
  /\ UNCHANGED db /\ UNCHANGED image

\* Mutant of Discarded: a failed request leaves its upload behind.
DiscardedKept(j) == staged' = staged

\* StagedUpload and UploadedPluginArchive: the file goes with its owner.
Discarded(j) == staged' = [staged EXCEPT ![job[j].proc] = @ \ {j}]

\* begin_plugin_job commits the row and starts the runner, which owns the
\* file from then on.
BeginJob(j) ==
  /\ job[j] # NoJob /\ up[job[j].proc]
  /\ job[j].at = "handler"
  /\ IF admin THEN Move(j, "claim", "queued") /\ UNCHANGED staged
     ELSE Move(j, "gone", "none") /\ Discarded(j)
  /\ UNCHANGED <<admin, snap, up, req, form, grant, issued, started, faults>>
  /\ UNCHANGED db /\ UNCHANGED image

\* The client is gone and the handler is dropped: before the row is committed
\* or after, in which case nobody runs the job.
DropUpload(j, committed) ==
  /\ job[j] # NoJob /\ up[job[j].proc]
  /\ job[j].at = "handler" /\ Fault /\ Discarded(j)
  /\ Move(j, "gone", IF committed /\ admin THEN "queued" ELSE "none")
  /\ UNCHANGED <<admin, snap, up, req, form, grant, issued, started>>
  /\ UNCHANGED db /\ UNCHANGED image

\* claim_job.
Claim(j) ==
  /\ At(j, "claim")
  /\ IF admin /\ job[j].status = "queued"
       THEN Move(j, "unpack", "running") /\ UNCHANGED staged
     ELSE Move(j, "fail", job[j].status) /\ Discarded(j)
  /\ UNCHANGED <<admin, snap, up, req, form, grant, issued, started, faults>>
  /\ UNCHANGED db /\ UNCHANGED image

\* install_archive: inspect, verify, rename; the upload goes either way.
Unpack(j, good) ==
  /\ At(j, "unpack") /\ Discarded(j)
  /\ IF good THEN /\ disk' = [disk EXCEPT ![job[j].proc] = @ \cup {job[j].digest}]
                  /\ Move(j, "register", "running")
     ELSE Move(j, "fail", "running") /\ UNCHANGED disk
  /\ UNCHANGED <<admin, snap, up, req, form, grant, issued, started, faults,
                 loaded, attempted>>
  /\ UNCHANGED db

\* mutate(RegisterPluginArtifact): an ordinary management write.
Register(j) ==
  /\ At(j, "register") /\ Free(job[j].proc)
  /\ IF admin THEN Registered(job[j].digest) /\ Move(j, "finish", "running")
     ELSE UNCHANGED <<art, st>> /\ Move(j, "fail", "running")
  /\ UNCHANGED <<admin, cfg, staged, snap, up, req, form, grant, issued,
                 started, faults>> /\ UNCHANGED image

\* finish_job: the artifact is still there and the job still running.
FinishJob(j) ==
  /\ At(j, "finish")
  /\ IF admin /\ art[job[j].digest] = "live" /\ job[j].status = "running"
       THEN Move(j, "gone", "succeeded") ELSE Move(j, "fail", job[j].status)
  /\ UNCHANGED <<admin, staged, snap, up, req, form, grant, issued, started, faults>>
  /\ UNCHANGED db /\ UNCHANGED image

\* fail_job: whatever is not finished.
Failed(j) ==
  IF job[j].status \in {"queued", "running"} THEN "failed" ELSE job[j].status

\* The runner's last write, whose own failure is ignored (lost).
FailJob(j, lost) ==
  /\ At(j, "fail")
  /\ IF lost THEN Fault /\ Move(j, "gone", job[j].status)
     ELSE /\ UNCHANGED faults
          /\ Move(j, "gone", Failed(j))
  /\ UNCHANGED <<admin, staged, snap, up, req, form, grant, issued, started>>
  /\ UNCHANGED db /\ UNCHANGED image

--------------------
\* Faults
Crash(p) ==
  /\ up[p] /\ Fault /\ up' = [up EXCEPT ![p] = FALSE]
  /\ job' = [j \in Jobs |-> IF job[j] = NoJob \/ job[j].proc # p THEN job[j]
                            ELSE [job[j] EXCEPT !.at = "gone"]]
  /\ loaded' = [loaded EXCEPT ![p] = {}] /\ attempted' = [attempted EXCEPT ![p] = {}]
  /\ snap' = [snap EXCEPT ![p] = None] /\ req' = [req EXCEPT ![p] = NoReq]
  /\ form' = [form EXCEPT ![p] = None] /\ grant' = [grant EXCEPT ![p] = FALSE]
  /\ UNCHANGED <<admin, disk, staged, issued, started>> /\ UNCHANGED db

\* interrupt_jobs: whatever is not finished.
interrupt_jobs(j) == job[j].status \in {"queued", "running"}

\* Startup: abandoned staging goes, unfinished jobs are interrupted, the
\* first snapshot is compiled.
Start(p) ==
  /\ ~up[p] /\ up' = [up EXCEPT ![p] = TRUE]
  /\ staged' = [staged EXCEPT ![p] = {}]
  /\ job' = [j \in Jobs |-> IF job[j] = NoJob THEN NoJob ELSE
               IF interrupt_jobs(j) THEN [job[j] EXCEPT !.status = "failed"]
               ELSE job[j]]
  /\ snap' = [snap EXCEPT ![p] = Generation(p, st, cfg, Live)]
  /\ LoadSelected(p, st, Live)
  /\ UNCHANGED <<admin, disk, req, form, grant, issued, started, faults>>
  /\ UNCHANGED db

RemoveFiles(p, d) ==
  /\ d \in disk[p] /\ Fault /\ disk' = [disk EXCEPT ![p] = @ \ {d}]
  /\ UNCHANGED <<admin, job, staged, up, form, grant, issued, started, loaded,
                 attempted, snap, req>> /\ UNCHANGED db

Demote ==
  /\ admin /\ Fault /\ admin' = FALSE
  /\ UNCHANGED <<job, staged, up, form, grant, issued, started, snap, req>>
  /\ UNCHANGED db /\ UNCHANGED image

Next ==
  \/ \E p \in Procs :
       \/ Reload(p) \/ View(p) \/ Reauthorize(p)
       \/ \E w \in Wants \cup [step: {"install"}] : Authorize(p, w)
       \/ PrepareState(p) \/ PrepareSettings(p) \/ PrepareDelete(p)
       \/ CommitSave(p) \/ CommitDelete(p) \/ Crash(p) \/ Start(p)
       \/ \E d \in Digests : Import(p, d) \/ Discover(p, d) \/ RemoveFiles(p, d)
       \/ \E j \in Jobs, d \in Digests : Upload(p, j, d)
  \/ \E j \in Jobs :
       \/ BeginJob(j) \/ Claim(j) \/ Register(j) \/ FinishJob(j)
       \/ \E b \in BOOLEAN :
            Opened(j, b) \/ DropUpload(j, b) \/ Unpack(j, b) \/ FailJob(j, b)
  \/ Demote

Spec == Init /\ [][Next]_vars

\* A spawned runner goes on by itself; the coordinator's mutex is fair and its
\* holder finishes.
Fairness ==
  /\ \A j \in Jobs : /\ WF_vars(Claim(j)) /\ WF_vars(\E b \in BOOLEAN : Unpack(j, b))
                     /\ SF_vars(Register(j)) /\ WF_vars(FinishJob(j))
                     /\ WF_vars(FailJob(j, FALSE))
  /\ \A p \in Procs : WF_vars(CommitSave(p)) /\ WF_vars(CommitDelete(p))
LiveSpec == Spec /\ Fairness

--------------------
\* The artifact a plugin selects is installed: deleting and selecting race
\* across processes, and neither leaves the state pointing at nothing.
SelectedIsInstalled == st # None => (st.digest # None => st.digest \in Live)

\* The stored settings are of the schema the selected image reads, through
\* upgrades, downgrades and settings saved against an older selection.
StoredSettingsFit ==
  st # None => (st.digest # None => Fits(st.digest, cfg))

\* A generation's name, digest and revision, names one configuration: two
\* processes that run the same generation run it with the same settings.
GenerationNamesContent ==
  \A p, q \in Procs : snap[p] # None /\ snap[q] # None =>
    (snap[p].digest = snap[q].digest /\ snap[p].rev = snap[q].rev =>
       snap[p].val = snap[q].val)

\* Settings are replaced by somebody who saw them.
SettingsNotLost ==
  \A p \in Procs :
    /\ req[p].step = "commit" /\ req'[p] = NoReq /\ cfg' # cfg
    /\ req[p].op = "settings"
    => form[p].seen = cfg.val

\* An administrator who is told that the plugin is on has it running here, in
\* the generation just saved.
EnabledRuns ==
  \A p \in Procs :
    req[p].step = "commit" /\ st' # st /\ req'[p] = NoReq /\ st'.enabled
      /\ req[p].op # "delete"
    => snap'[p] # None /\ snap'[p].rev = st'.rev

\* A running plugin does not go away because its files did: a reload of the
\* same selection finds it again.
ActiveSurvivesReload ==
  \A p \in Procs :
    /\ snap[p] # None /\ snap'[p] = None /\ up'[p]
    => st' # st \/ [digest |-> st.digest, rev |-> st.rev]
                     # [digest |-> snap[p].digest, rev |-> snap[p].rev]

\* A deleted artifact comes back by installing it, never by finding its files.
DeletedNotRevived ==
  \A d \in Digests : art[d] = "deleted" /\ art'[d] = "live" =>
    \E j \in Jobs : At(j, "register") /\ job[j].digest = d /\ job'[j].at = "finish"

\* Every management request was paid for with a password.
WritesWithinGrants == started <= issued

\* An upload on disk is being opened or belongs to a request or a runner, or to a
\* process that is down and will discard it; the one file a running process leaves
\* behind, until its next start, is that of a handler dropped while it opens it.
Accounted == {"opening", "handler", "claim", "unpack", "orphan"}
StagingAccounted ==
  \A p \in Procs : up[p] =>
    \A j \in staged[p] : job[j].at \in Accounted

\* After a start no job of an earlier life is left pending: what is queued or
\* running has a runner, or lost one to a fault since.
NoZombieJobs ==
  \A p \in Procs : ~up[p] /\ up'[p] =>
    \A j \in Jobs : (job'[j] # NoJob /\ job'[j].at = "gone") =>
      job'[j].status \in Ended \cup {"none"}

\* What an administrator and the processes can rely on, and what no step does.
PluginsSound ==
  /\ SelectedIsInstalled /\ StoredSettingsFit /\ GenerationNamesContent
  /\ WritesWithinGrants /\ StagingAccounted
PluginSteps ==
  /\ SettingsNotLost /\ EnabledRuns /\ ActiveSurvivesReload
  /\ DeletedNotRevived /\ NoZombieJobs

--------------------
\* The inductive invariant behind them

JobRow ==
  [status: {"none", "queued", "running"} \cup Ended, proc: Procs, digest: Digests,
   at: Accounted \cup {"register", "finish", "fail", "gone"}]
Saving ==
  [step: {"commit"}, op: {"state", "settings"}, rev: Nat, enabled: BOOLEAN,
   digest: Digests \cup {None}, doc: Document \cup {None}]
Deleting == [step: {"commit"}, op: {"delete"}, rev: Nat, digest: Digests]

PluginTypes ==
  /\ art \in [Digests -> {"absent", "live", "deleted"}]
  /\ st \in StateRow \cup {None} /\ cfg \in SettingsRow \cup {None}
  /\ job \in [Jobs -> JobRow \cup {NoJob}] /\ staged \in [Procs -> SUBSET Jobs]
  /\ loaded \in [Procs -> SUBSET Digests] /\ snap \in [Procs -> Active \cup {None}]
  /\ up \in [Procs -> BOOLEAN] /\ grant \in [Procs -> BOOLEAN]
  /\ req \in [Procs -> {NoReq} \cup Wants \cup [step: {"install"}] \cup Saving \cup Deleting]
  /\ form \in [Procs -> Form \cup {None}]
  /\ issued \in Nat /\ started \in Nat

\* Only the first save makes a plugin have settings or run.
RowsSound == (st = None => cfg = None) /\ SelectedIsInstalled /\ StoredSettingsFit

\* What a process runs is loaded, is from now or from an earlier revision, and
\* if from now, is what the records say.
SnapSound(p) ==
  snap[p] # None =>
    /\ up[p] /\ snap[p].digest \in loaded[p]
    /\ st # None /\ snap[p].rev <= st.rev
    /\ snap[p].rev = st.rev =>
         /\ st.enabled /\ st.digest = snap[p].digest
         /\ IF Schema[st.digest] = 0 THEN snap[p].val = None
            ELSE cfg # None /\ snap[p].val = cfg.val

\* The etag of the settings that a browser holds names what it shows.
FormSound(p) ==
  form[p] # None => (form[p].settings # None =>
    /\ cfg # None /\ form[p].settings[1] <= cfg.rev
    /\ form[p].settings[1] = cfg.rev => form[p].seen = cfg.val)

\* A save under way: its document fits its image, and as long as nobody wrote,
\* what it leaves alone is what is stored and what it replaces was seen.
ReqSound(p) ==
  req[p] # NoReq =>
    /\ up[p]
    /\ req[p].step = "commit" =>
         /\ st # None /\ req[p].rev <= st.rev
         /\ req[p].op # "delete" =>
              /\ req[p].doc # None => req[p].digest # None /\ req[p].doc.schema = Schema[req[p].digest]
              /\ (req[p].doc = None /\ req[p].digest # None /\ req[p].rev = st.rev) =>
                   Schema[req[p].digest] = 0 \/ st.digest = req[p].digest
         /\ req[p].op = "settings" =>
              /\ req[p].doc # None
              /\ req[p].rev = st.rev => /\ cfg # None /\ form[p] # None
                                        /\ form[p].seen = cfg.val

Paid == started + Cardinality({p \in Procs : grant[p]}) <= issued

StagedSound(p) ==
  \A j \in staged[p] :
    /\ job[j] # NoJob /\ job[j].proc = p
    /\ up[p] => job[j].at \in Accounted

PluginInv ==
  /\ PluginTypes /\ RowsSound /\ GenerationNamesContent /\ Paid
  /\ \A p \in Procs : SnapSound(p) /\ FormSound(p) /\ ReqSound(p) /\ StagedSound(p)
=============================================================================
