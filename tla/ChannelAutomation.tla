------------------------- MODULE ChannelAutomation -------------------------
\* Automatic disabling of failing channels and their scheduled tests:
\*   src/workers/channel_probe.rs            test rounds, one probe each,
\*   src/application/channel_automation.rs   the queue of failure reports,
\*   automatically_disable_channel, automatically_recover_channel of
\*   src/application/control_plane.rs and the two persistence layers.
\*
\* A report is judged twice: by the published settings when a response
\* fails, and by the stored settings when the worker applies it.  A round
\* keeps the snapshot it started with while administrators, of this or of
\* another process, edit settings and channels.  A change of this process
\* is published with its commit (ControlPlanePublish has the steps).
EXTENDS Integers, Sequences, FiniteSets

CONSTANTS
  Channels,
  Counting,     \* keep the tally (off for liveness, where tests never end)
  Keyword,      \* whether the upstream's error text holds a keyword
  Mode,         \* "global" or "failure_only": which channels are tested
  QueueCap,     \* AUTOMATIC_DISABLE_QUEUE_CAPACITY
  MaxChunks,    \* MAX_PROBE_RESPONSE_BYTES, in chunks
  MaxProbes, MaxRequests, MaxEdits, MaxFlips, MaxErrors

AutomationAssumption == QueueCap \in Nat /\ Counting \in BOOLEAN

Bad == "bad"      \* a status the policy lists
Other == "other"  \* an error status it does not list
Good == "good"    \* 2xx
Text == "keyword" \* the trigger of a keyword
Nothing == "none"

VARIABLES
  up,         \* whether the upstream works, and how often that changed
  stored,     \* the stored settings and channels
  snap,       \* the published snapshot
  queue,      \* reports: <<channel, trigger>>
  worker,     \* the consumer: "run", "drain", "done", "aborted"
  applying,   \* the report it applies, or <<>>
  tester,     \* the probe worker: "idle", "round", "done", "aborted"
  stopping,   \* shutdown was requested
  round,      \* the snapshot of the round, and the channels left
  probe,      \* the probe in flight
  seen,       \* channel -> triggers its responses have shown (history)
  answered,   \* channels whose last test got a complete 2xx answer (history)
  tally,      \* counters of probes and reports (history)
  used        \* how often the bounded inputs were used

vars == <<up, stored, snap, queue, worker, applying, tester, stopping, round, probe,
          seen, answered, tally, used>>

Channel == [enabled : BOOLEAN, allowed : BOOLEAN, reason : {Nothing, Bad, Text}]
Settings == [disable : BOOLEAN, recover : BOOLEAN]

AutoDisabled(c) == c.reason # Nothing
NoProbe == [ch |-> Nothing, step |-> Nothing, status |-> Nothing, matching |-> FALSE, chunks |-> 0]

Init ==
  /\ up = [c \in Channels |-> TRUE]
  /\ stored = [set |-> [disable |-> TRUE, recover |-> TRUE],
               ch |-> [c \in Channels |-> [enabled |-> TRUE, allowed |-> TRUE, reason |-> Nothing]]]
  /\ snap = stored
  /\ queue = <<>> /\ worker = "run" /\ applying = <<>>
  /\ tester = "idle" /\ stopping = FALSE
  /\ round = [snap |-> stored, todo |-> {}] /\ probe = NoProbe
  /\ seen = [c \in Channels |-> {}] /\ answered = {}
  /\ tally = [started |-> 0, logged |-> 0, accepted |-> 0, applied |-> 0]
  /\ used = [requests |-> 0, edits |-> 0, flips |-> 0, errors |-> 0]

Tally(started, logged, accepted, applied) ==
  tally' = IF Counting
           THEN [started |-> tally.started + started, logged |-> tally.logged + logged,
                 accepted |-> tally.accepted + accepted, applied |-> tally.applied + applied]
           ELSE tally

Use(k, max) == used[k] < max /\ used' = [used EXCEPT ![k] = @ + 1]

--------------------
\* AutomaticDisableService

\* try_report: a full or closed queue drops the report.  Events is the number
\* of log events that the same step records.
Report(c, trigger, events) ==
  LET sent == trigger # Nothing /\ worker = "run" /\ Len(queue) < QueueCap
  IN /\ queue' = IF sent THEN Append(queue, <<c, trigger>>) ELSE queue
     /\ Tally(0, events, IF sent THEN 1 ELSE 0, 0)

\* The policy of a snapshot applies to a failed response of a channel.
Watches(s, c) == s.set.disable /\ s.ch[c].allowed

\* A forwarded request fails with a listed status.
RequestFails(c) ==
  /\ Use("requests", MaxRequests)
  /\ ~up[c] /\ snap.ch[c].enabled /\ ~AutoDisabled(snap.ch[c])
  /\ seen' = [seen EXCEPT ![c] = @ \cup {Bad}]
  /\ Report(c, IF Watches(snap, c) THEN Bad ELSE Nothing, 0)
  /\ UNCHANGED <<answered, up, stored, snap, worker, applying, tester, stopping, round, probe>>

TakeReport ==
  /\ worker \in {"run", "drain"} /\ applying = <<>> /\ queue # <<>>
  /\ applying' = Head(queue) /\ queue' = Tail(queue)
  /\ UNCHANGED <<answered, up, stored, snap, worker, tester, stopping, round, probe, seen, tally, used>>

\* automatically_disable_channel, rechecked in its transaction.
DisableMatches(c) ==
  stored.set.disable /\ stored.ch[c].enabled /\ stored.ch[c].allowed
    /\ ~AutoDisabled(stored.ch[c])

ApplyDisable ==
  /\ applying # <<>>
  /\ IF DisableMatches(applying[1])
     THEN /\ stored' = [stored EXCEPT !.ch[applying[1]].reason = applying[2]]
          /\ snap' = stored'
     ELSE UNCHANGED <<stored, snap>>
  /\ applying' = <<>>
  /\ Tally(0, 0, 0, 1)
  /\ UNCHANGED <<answered, up, queue, worker, tester, stopping, round, probe, seen, used>>

\* The transaction fails; the report is logged and forgotten.
ApplyFails ==
  /\ applying # <<>> /\ Use("errors", MaxErrors)
  /\ applying' = <<>>
  /\ Tally(0, 0, 0, 1)
  /\ UNCHANGED <<answered, up, stored, snap, queue, worker, tester, stopping, round, probe, seen>>

\* select! takes either branch; after this one the queue is closed and drained.
WorkerStops ==
  /\ stopping /\ tester \in {"done", "aborted"} /\ worker = "run" /\ applying = <<>>
  /\ worker' = "drain"
  /\ UNCHANGED <<answered, up, stored, snap, queue, applying, tester, stopping, round, probe,
                 seen, answered, tally, used>>

WorkerDone ==
  /\ worker = "drain" /\ applying = <<>> /\ queue = <<>>
  /\ worker' = "done"
  /\ UNCHANGED <<answered, up, stored, snap, queue, applying, tester, stopping, round, probe,
                 seen, answered, tally, used>>

\* The deadline of the drain passes.
WorkerAborted ==
  /\ worker = "drain" /\ Use("errors", MaxErrors)
  /\ worker' = "aborted" /\ applying' = <<>>
  /\ UNCHANGED <<answered, up, stored, snap, queue, tester, stopping, round, probe, seen, tally>>

--------------------
\* ChannelProbeWorker

Eligible(s) ==
  {c \in Channels : s.ch[c].enabled /\ (Mode = "global" \/ AutoDisabled(s.ch[c]))}

\* run_probe_round: the snapshot is read once.
RoundStarts ==
  /\ tester = "idle" /\ Eligible(snap) # {} /\ tally.started < MaxProbes
  /\ tester' = "round"
  /\ round' = [snap |-> snap, todo |-> Eligible(snap)]
  /\ UNCHANGED <<answered, up, stored, snap, queue, worker, applying, stopping, probe, seen,
                 tally, used>>

ProbeStarts(c) ==
  /\ tester = "round" /\ probe = NoProbe /\ c \in round.todo /\ tally.started < MaxProbes
  /\ round' = [snap |-> round.snap, todo |-> round.todo \ {c}]
  /\ probe' = [NoProbe EXCEPT !.ch = c, !.step = "setup"]
  /\ Tally(1, 0, 0, 0)
  /\ UNCHANGED <<answered, up, stored, snap, queue, worker, applying, tester, stopping, seen, used>>

RoundEnds ==
  /\ tester = "round" /\ probe = NoProbe
  /\ round.todo = {} \/ tally.started = MaxProbes
  /\ tester' = "idle" /\ round' = [snap |-> round.snap, todo |-> {}]
  /\ UNCHANGED <<answered, up, stored, snap, queue, worker, applying, stopping, probe, seen,
                 tally, used>>

\* A test that succeeded on a channel disabled in the round's snapshot asks for
\* its recovery.
AfterProbe(ok) ==
  IF /\ ok /\ AutoDisabled(round.snap.ch[probe.ch]) /\ round.snap.set.recover
  THEN [probe EXCEPT !.step = "recover"] ELSE NoProbe

\* finished_probe, and the record of its event.
Finish(ok) == Report(Nothing, Nothing, 1) /\ probe' = AfterProbe(ok)

Broken == answered' = answered \ {probe.ch}

\* The body, headers, URL or client cannot be built.
SetupFails ==
  /\ probe.step = "setup" /\ Use("errors", MaxErrors)
  /\ Finish(FALSE)
  /\ Broken
  /\ UNCHANGED <<up, stored, snap, worker, applying, tester, stopping, round, seen>>

\* No response headers: a refused connection or a timeout.
SendFails ==
  /\ probe.step = "setup" /\ ~up[probe.ch]
  /\ Finish(FALSE)
  /\ Broken
  /\ UNCHANGED <<up, stored, snap, worker, applying, tester, stopping, round, seen, used>>

\* Response headers: a listed status is reported at once.
Headers(s) ==
  /\ probe.step = "setup" /\ (s = Good <=> up[probe.ch])
  /\ probe' = [probe EXCEPT !.step = "body", !.status = s,
                            !.matching = s # Good /\ Watches(round.snap, probe.ch)]
  /\ seen' = [seen EXCEPT ![probe.ch] = IF s = Bad THEN @ \cup {Bad} ELSE @]
  /\ Report(probe.ch, IF s = Bad /\ Watches(round.snap, probe.ch) THEN Bad ELSE Nothing, 0)
  /\ UNCHANGED <<answered, up, stored, snap, worker, applying, tester, stopping, round, used>>

\* Mutant of Chunk: any text of a failed response counts.
ChunkAnyText(keyword) ==
  /\ probe.step = "body" /\ (keyword => Keyword /\ probe.status # Good)
  /\ probe.chunks = MaxChunks => ~up[probe.ch]
  /\ seen' = [seen EXCEPT ![probe.ch] = IF keyword THEN @ \cup {Text} ELSE @]
  /\ LET large == probe.chunks = MaxChunks
     IN /\ Report(probe.ch, IF probe.matching THEN Text ELSE Nothing, IF large THEN 1 ELSE 0)
        /\ probe' = IF large THEN AfterProbe(FALSE)
                    ELSE [probe EXCEPT !.chunks = probe.chunks + 1, !.matching = FALSE]
  /\ answered' = answered \ {probe.ch}
  /\ UNCHANGED <<up, stored, snap, worker, applying, tester, stopping, round, used>>

\* A chunk of the body: the first one with a keyword is reported, and a body
\* past the limit, which a working upstream does not send, ends the test.
Chunk(keyword) ==
  /\ probe.step = "body" /\ (keyword => Keyword /\ probe.status # Good)
  /\ probe.chunks = MaxChunks => ~up[probe.ch]
  /\ seen' = [seen EXCEPT ![probe.ch] = IF keyword THEN @ \cup {Text} ELSE @]
  /\ LET large == probe.chunks = MaxChunks
     IN /\ Report(probe.ch, IF keyword /\ probe.matching THEN Text ELSE Nothing,
                  IF large THEN 1 ELSE 0)
        /\ probe' = IF large THEN AfterProbe(FALSE)
                    ELSE [probe EXCEPT !.chunks = probe.chunks + 1,
                                       !.matching = probe.matching /\ ~keyword]
  /\ answered' = answered \ {probe.ch}
  /\ UNCHANGED <<up, stored, snap, worker, applying, tester, stopping, round, used>>

\* The body breaks off or stays idle too long, whatever the status was.
BodyBreaks ==
  /\ probe.step = "body" /\ ~up[probe.ch]
  /\ Finish(FALSE)
  /\ Broken
  /\ UNCHANGED <<up, stored, snap, worker, applying, tester, stopping, round, seen, used>>

BodyEnds ==
  /\ probe.step = "body"
  /\ Finish(probe.status = Good)
  /\ answered' = IF probe.status = Good THEN answered \cup {probe.ch}
                 ELSE answered \ {probe.ch}
  /\ UNCHANGED <<up, stored, snap, worker, applying, tester, stopping, round, seen, used>>

\* automatically_recover_channel, rechecked in its transaction.
RecoverMatches(c) ==
  stored.set.recover /\ stored.ch[c].enabled /\ AutoDisabled(stored.ch[c])

Recover ==
  /\ probe.step = "recover"
  /\ IF RecoverMatches(probe.ch)
     THEN /\ stored' = [stored EXCEPT !.ch[probe.ch].reason = Nothing]
          /\ snap' = stored'
     ELSE UNCHANGED <<stored, snap>>
  /\ probe' = NoProbe
  /\ UNCHANGED <<answered, up, queue, worker, applying, tester, stopping, round, seen, tally, used>>

RecoverFails ==
  /\ probe.step = "recover" /\ Use("errors", MaxErrors)
  /\ probe' = NoProbe
  /\ UNCHANGED <<answered, up, stored, snap, queue, worker, applying, tester, stopping, round,
                 seen, tally>>

Shutdown ==
  /\ ~stopping /\ stopping' = TRUE
  /\ UNCHANGED <<answered, up, stored, snap, queue, worker, applying, tester, round, probe, seen,
                 tally, used>>

\* Between rounds the request is taken at once; a round is not interrupted ...
TesterStops ==
  /\ stopping /\ tester = "idle"
  /\ tester' = "done"
  /\ UNCHANGED <<answered, up, stored, snap, queue, worker, applying, stopping, round, probe, seen,
                 tally, used>>

\* ... before the deadline.
TesterAborted ==
  /\ stopping /\ tester = "round" /\ Use("errors", MaxErrors)
  /\ tester' = "aborted" /\ probe' = NoProbe
  /\ Tally(IF probe.step \in {Nothing, "recover"} THEN 0 ELSE -1, 0, 0, 0)
  /\ UNCHANGED <<answered, up, stored, snap, queue, worker, applying, stopping, round, seen>>

--------------------
\* Administrators and upstreams

Edits ==
  {[stored EXCEPT !.set.disable = ~@], [stored EXCEPT !.set.recover = ~@]}
    \cup UNION {{[stored EXCEPT !.ch[c].allowed = ~@], [stored EXCEPT !.ch[c].enabled = ~@],
                 [stored EXCEPT !.ch[c].reason = Nothing]} : c \in Channels}

\* An edit is published here, or comes from another process and is published
\* by the next reload.
Edit(here) ==
  /\ Use("edits", MaxEdits)
  /\ \E s \in Edits \ {stored} : stored' = s
  /\ snap' = IF here THEN stored' ELSE snap
  /\ UNCHANGED <<answered, up, queue, worker, applying, tester, stopping, round, probe, seen, tally>>

Reload ==
  /\ snap # stored /\ snap' = stored
  /\ UNCHANGED <<answered, up, stored, queue, worker, applying, tester, stopping, round, probe,
                 seen, answered, tally, used>>

Flip(c) ==
  /\ Use("flips", MaxFlips)
  /\ up' = [up EXCEPT ![c] = ~@]
  /\ UNCHANGED <<answered, stored, snap, queue, worker, applying, tester, stopping, round, probe,
                 seen, tally>>

ProbeStep ==
  \/ SetupFails \/ SendFails \/ BodyBreaks \/ BodyEnds \/ Recover \/ RecoverFails
  \/ \E s \in {Good, Bad, Other} : Headers(s)
  \/ \E k \in BOOLEAN : Chunk(k)

Next ==
  \/ \E c \in Channels : RequestFails(c) \/ ProbeStarts(c) \/ Flip(c)
  \/ TakeReport \/ ApplyDisable \/ ApplyFails \/ WorkerStops \/ WorkerDone \/ WorkerAborted
  \/ RoundStarts \/ RoundEnds \/ ProbeStep
  \/ Shutdown \/ TesterStops \/ TesterAborted
  \/ \E here \in BOOLEAN : Edit(here)
  \/ Reload

Spec == Init /\ [][Next]_vars

\* The runtime polls the two workers, timers fire, and an upstream that works
\* answers.  select! picks at random among its ready branches.
Fairness ==
  /\ WF_vars(RoundStarts) /\ WF_vars(\E c \in Channels : ProbeStarts(c))
  /\ WF_vars(RoundEnds) /\ WF_vars(ProbeStep)
  /\ WF_vars(TakeReport) /\ WF_vars(ApplyDisable) /\ WF_vars(WorkerDone)
  /\ SF_vars(TesterStops) /\ SF_vars(WorkerStops) /\ WF_vars(Reload)

LiveSpec == Spec /\ Fairness

--------------------

Reports == Channels \X {Bad, Text}
Probes == [ch : Channels \cup {Nothing}, step : {Nothing, "setup", "body", "recover"},
           status : {Nothing, Good, Bad, Other}, matching : BOOLEAN, chunks : Int]

TypeOK ==
  /\ stored \in [set : Settings, ch : [Channels -> Channel]]
  /\ worker \in {"run", "drain", "done", "aborted"}
  /\ tester \in {"idle", "round", "done", "aborted"}
  /\ probe \in Probes /\ (probe.step # Nothing => probe.ch \in Channels)
  /\ round.todo \subseteq Channels
  /\ queue \in Seq(Reports) /\ applying \in Reports \cup {<<>>}
  /\ Len(queue) <= QueueCap
  /\ seen \in [Channels -> SUBSET {Bad, Text}] /\ answered \subseteq Channels
  /\ tally \in [started : Int, logged : Int, accepted : Int, applied : Int]
  /\ used \in [requests : Nat, edits : Nat, flips : Nat, errors : Nat]

\* "a stale background event cannot override a just-saved administrator
\* setting": automation changes a channel only as the settings stored at that
\* moment want it, whatever the snapshot, the round or the queued report was
\* made under.
PolicyPrevails ==
  \A c \in Channels :
    /\ stored.ch[c].reason = Nothing /\ stored'.ch[c].reason # Nothing =>
         stored.set.disable /\ stored.ch[c].allowed /\ stored.ch[c].enabled
    /\ stored.ch[c].reason # Nothing /\ stored'.ch[c].reason = Nothing /\ used' = used =>
         stored.set.recover /\ stored.ch[c].enabled

\* A disabled channel's recorded reason is something that a response of this
\* very channel has shown.
DisabledForCause ==
  \A c \in Channels : AutoDisabled(stored.ch[c]) => stored.ch[c].reason \in seen[c]

\* The worker asks for a recovery only on a complete 2xx answer of the channel:
\* a 2xx status whose body breaks off, idles or is too large does not count.
RecoveryIsEarned == probe.step = "recover" => probe.ch \in answered

\* Every test that was started, and so may be billed, is logged exactly once,
\* however it ends; only one cut off at the shutdown deadline is not.
ProbesAreLogged ==
  Counting => tally.started = tally.logged + (IF probe.step \in {"setup", "body"} THEN 1 ELSE 0)

\* An orderly shutdown decides every report that was accepted.
ReportsAreDrained ==
  worker = "done" => queue = <<>> /\ (Counting => tally.applied = tally.accepted)

\* What the automation decides, tests and reports, together.
AutomationSound ==
  DisabledForCause /\ RecoveryIsEarned /\ ProbesAreLogged /\ ReportsAreDrained

--------------------
\* The inductive invariant behind AutomationSound and PolicyPrevails

\* A report that waits or is being applied is something that a response of its
\* channel has shown.
ReportsAreSeen ==
  /\ \A i \in 1..Len(queue) : queue[i][2] \in seen[queue[i][1]]
  /\ applying # <<>> => applying[2] \in seen[applying[1]]

\* Until a deadline cuts the drain off, every accepted report was applied, is
\* being applied or waits.
ReportsAreKept ==
  /\ worker = "done" => queue = <<>> /\ applying = <<>>
  /\ worker # "aborted" /\ Counting =>
       tally.accepted = tally.applied + Len(queue) + (IF applying = <<>> THEN 0 ELSE 1)
  /\ worker = "aborted" => applying = <<>>

AutomationInv ==
  /\ TypeOK /\ ReportsAreSeen /\ ReportsAreKept
  /\ DisabledForCause /\ RecoveryIsEarned /\ ProbesAreLogged

--------------------
\* Shutdown ends both workers.
StopEnds ==
  stopping ~> tester \in {"done", "aborted"} /\ worker \in {"done", "aborted"}

=============================================================================
