---------------------------- MODULE ProxyRequest ----------------------------
\* One HTTP request through the gateway: admission, routing, the retry
\* loop over route candidates, the response stream, and the completion
\* guard that emits the request's one terminal event - also when the
\* client disconnects at any await point.
\*
\* Around it, channels go down and come back, and other requests of the
\* same session bind it to other candidates.  Channel selection, session
\* affinity, health and the request-log spool have modules of their own;
\* a selection is one step here.
EXTENDS Integers, Sequences

CONSTANTS
    Candidates,  \* route candidates of the model rule
    Kind,        \* of a candidate's channel: "open", "plugin" or "codex"
    None,
    MaxRetries,  \* request_retry settings; 0 when disabled
    Retryable,   \* api_operation.permits_automatic_retry
    MaxFrames,   \* bound: chunks of the upstream's body
    MaxEnv       \* bound: what other requests and health checks do

Outcomes == {"succeeded", "http", "sse", "connectTimeout", "headerTimeout", "unavailable",
             "coding", "body", "idle", "transform", "cancelled", "client"}
Terminals == {"completed", "failed"}
Statuses == {"ok", "retry", "bad"}

Leases == [cand: Candidates, hit: BOOLEAN]
Contexts == [cand: Candidates, preserve: BOOLEAN, usage: SUBSET Candidates,
             terminal: Terminals \cup {None}]
Streams == [adapter: BOOLEAN, sse: BOOLEAN, patched: BOOLEAN, left: Int \cup {None},
            open: BOOLEAN, queue: Nat, pending: Terminals \cup {None}, finished: BOOLEAN,
            seen: Terminals \cup {None}, frames: Nat]

ProxyAssumption ==
    /\ Kind \in [Candidates -> {"open", "plugin", "codex"}]
    /\ Retryable \in BOOLEAN /\ {MaxRetries, MaxFrames, MaxEnv} \subseteq Nat
    /\ None \notin Candidates \cup Statuses \cup Terminals \cup Int
    /\ None \notin Leases \cup Contexts \cup Streams

VARIABLES
    pc,         \* where the request is
    admission,  \* it holds its admission lease
    lease,      \* the channel lease: its candidate and whether affinity chose it
    ctx,        \* CompletionContext; None once the event is emitted
    attempted,  \* attempted_candidate_slots
    attempt,    \* the loop's attempt counter
    dispatched, \* history: the candidates the request was sent to, in order
    answer,     \* history: per candidate, the status it answered
    stream,     \* StreamState, or None
    client,     \* what the client sees: open, an error reply, or how the body ended
    events,     \* history: events recorded for this request
    journal,    \* the request-log intent was admitted
    reports,    \* channels reported to automatic disabling
    up,         \* candidates whose channel can be selected
    binding,    \* the session's affinity binding
    env         \* environment steps left

route == <<lease, attempted, attempt>>
outside == <<up, env>>
vars == <<pc, admission, lease, ctx, attempted, attempt, dispatched, answer, stream,
          client, events, journal, reports, up, binding, env>>

TypeOK ==
    /\ pc \in {"idle", "admitted", "prepare", "send", "json", "stream", "done"}
    /\ admission \in BOOLEAN /\ journal \in BOOLEAN
    /\ lease \in Leases \cup {None} /\ ctx \in Contexts \cup {None}
    /\ stream \in Streams \cup {None}
    /\ attempted \subseteq Candidates /\ attempt \in 1..(MaxRetries + 1)
    /\ dispatched \in Seq(Candidates)
    /\ answer \in [Candidates -> Statuses \cup {None}]
    /\ client \in {"open", "refused", "eof", "error", "gone"}
    /\ events \in Seq([outcome: Outcomes \cup {"rejected", "noHealthy"},
                       cand: Candidates \cup {None}, usage: SUBSET Candidates])
    /\ reports \subseteq Candidates /\ up \subseteq Candidates
    /\ binding \in Candidates \cup {None}

Init ==
    /\ pc = "idle" /\ admission = FALSE /\ lease = None /\ ctx = None
    /\ attempted = {} /\ attempt = 1 /\ dispatched = <<>>
    /\ answer = [c \in Candidates |-> None]
    /\ stream = None /\ client = "open" /\ events = <<>> /\ journal = FALSE
    /\ reports = {} /\ up = Candidates
    /\ binding \in Candidates \cup {None}
    /\ env = MaxEnv

--------------------
\* The completion guard

\* evicts_session_affinity
Evicts(outcome) ==
    outcome \in {"http", "sse", "connectTimeout", "headerTimeout", "unavailable",
                 "coding", "body", "idle"}

\* ChannelLease::request_failed: only the binding that led here is removed
Failed(l) == IF l.hit /\ binding = l.cand THEN None ELSE binding

\* Mutant of Rebound: the connector's wish to keep the session is ignored
ReboundAlways(outcome, preserve) ==
    CASE outcome = "succeeded" -> lease.cand
      [] Evicts(outcome) -> Failed(lease)
      [] OTHER -> binding

\* the binding after the request finished with an outcome
Rebound(outcome, preserve) ==
    CASE outcome = "succeeded" -> lease.cand
      [] Evicts(outcome) /\ ~preserve -> Failed(lease)
      [] OTHER -> binding

Event(outcome, c, usage) == [outcome |-> outcome, cand |-> c, usage |-> usage]

\* Mutant of Finish: the context stays, and a second outcome is recorded
FinishAgain(c, outcome) ==
    IF c = None THEN UNCHANGED <<ctx, events, binding>>
    ELSE /\ ctx' = c
         /\ events' = Append(events, Event(outcome, c.cand, c.usage))
         /\ binding' = Rebound(outcome, c.preserve)

\* CompletionGuard::finish on the context c: the first outcome wins
Finish(c, outcome) ==
    IF c = None THEN UNCHANGED <<ctx, events, binding>>
    ELSE /\ ctx' = None
         /\ events' = Append(events, Event(outcome, c.cand, c.usage))
         /\ binding' = Rebound(outcome, c.preserve)

\* Mutant of Drop: the admission lease is not part of the guard
DropKeepsAdmission ==
    /\ pc' = "done"
    /\ lease' = None /\ stream' = None /\ UNCHANGED admission

\* the guard is dropped: both leases are released
Drop ==
    /\ pc' = "done"
    /\ admission' = FALSE /\ lease' = None /\ stream' = None

\* the request ends with an error reply before any byte of a body
Fail(outcome) ==
    /\ Finish(ctx, outcome)
    /\ Drop
    /\ client' = "refused"
    /\ UNCHANGED <<attempted, attempt, dispatched, answer, journal, reports, outside>>

--------------------
\* Before the guard exists

\* admission.admit, or a refusal that is not logged
Admit ==
    /\ pc = "idle"
    /\ \/ pc' = "admitted" /\ admission' = TRUE /\ UNCHANGED client
       \/ pc' = "done" /\ client' = "refused" /\ UNCHANGED admission
    /\ UNCHANGED <<route, ctx, dispatched, answer, stream, events, journal, reports,
                   binding, outside>>

\* the body is read, parsed and filtered; an error is not logged
RejectBody ==
    /\ pc = "admitted"
    /\ pc' = "done" /\ admission' = FALSE /\ client' = "refused"
    /\ UNCHANGED <<route, ctx, dispatched, answer, stream, events, journal, reports,
                   binding, outside>>

\* select_operation_with_affinity(_excluding): a usable binding is followed
Selectable == up \ attempted
Selected(c, hit) ==
    IF binding \in Selectable THEN c = binding /\ hit ELSE c \in Selectable /\ ~hit

\* CompletionGuard::new, and the fields a replaced route resets
Context(c, old) ==
    [cand |-> c, preserve |-> FALSE, terminal |-> None, usage |-> {}]

\* record_rejected, record_no_healthy_channel
Unroutable(outcome) ==
    /\ pc = "admitted"
    /\ outcome = "noHealthy" => up = {}
    /\ events' = Append(events, Event(outcome, None, {}))
    /\ pc' = "done" /\ admission' = FALSE /\ client' = "refused"
    /\ UNCHANGED <<route, ctx, dispatched, answer, stream, journal, reports, binding, outside>>

\* CompletionGuard::new and admit_request_log; without a journal slot nothing
\* is dispatched and nothing recorded
Route(c, hit) ==
    /\ pc = "admitted" /\ Selected(c, hit)
    /\ \/ /\ pc' = "prepare" /\ journal' = TRUE
          /\ lease' = [cand |-> c, hit |-> hit]
          /\ ctx' = Context(c, None)
          /\ UNCHANGED <<admission, client>>
       \/ /\ pc' = "done" /\ client' = "refused"
          /\ admission' = FALSE
          /\ UNCHANGED <<lease, ctx, journal>>
    /\ UNCHANGED <<attempted, attempt, dispatched, answer, stream, events, reports,
                   binding, outside>>

--------------------
\* The retry loop

\* retry_with_route, replace_route_before_dispatch
Replace(c, hit) ==
    /\ binding' = Failed(lease)
    /\ lease' = [cand |-> c, hit |-> hit]
    /\ ctx' = Context(c, ctx)

\* connectors.prepare fails for plugin and Codex channels; a sticky session
\* fails with its binding kept, any other request tries the next candidate
PrepareFails(c, hit) ==
    /\ pc = "prepare" /\ Kind[lease.cand] # "open"
    /\ attempted' = attempted \cup {lease.cand}
    /\ IF ~lease.hit /\ up \ attempted' # {}
       THEN /\ IF binding \in up \ attempted' THEN c = binding /\ hit
               ELSE c \in up \ attempted' /\ ~hit
            /\ Replace(c, hit)
            /\ UNCHANGED <<pc, admission, stream, client, events>>
       ELSE /\ c = lease.cand /\ ~hit
            /\ Finish([ctx EXCEPT !.preserve = lease.hit], "unavailable")
            /\ Drop /\ client' = "refused"
    /\ UNCHANGED <<attempt, dispatched, answer, journal, reports, outside>>

\* the body and headers are rewritten; the candidate is dispatched
Prepare ==
    /\ pc = "prepare"
    /\ attempted' = attempted \cup {lease.cand}
    /\ ctx' = [ctx EXCEPT !.preserve = Kind[lease.cand] = "codex"]
    /\ dispatched' = Append(dispatched, lease.cand)
    /\ pc' = "send"
    /\ UNCHANGED <<admission, lease, attempt, answer, stream, client, events, journal,
                   reports, binding, outside>>

\* a transform, a body or a target that does not work out ends the request
Unprepared(outcome) ==
    /\ pc = "prepare"
    /\ outcome \in {"client", "unavailable"}
    /\ Finish([ctx EXCEPT !.preserve = Kind[lease.cand] = "codex"], outcome)
    /\ Drop /\ client' = "refused"
    /\ UNCHANGED <<attempted, attempt, dispatched, answer, journal, reports, outside>>

\* allows_automatic_retry, permits_automatic_retry, attempt < max_attempts
MayRetry == Kind[lease.cand] = "open" /\ Retryable /\ attempt < MaxRetries + 1

Retry(c, hit) ==
    /\ MayRetry /\ Selected(c, hit)
    /\ Replace(c, hit)
    /\ attempt' = attempt + 1
    /\ pc' = "prepare"
    /\ UNCHANGED <<admission, attempted, dispatched, stream, client, events, journal, outside>>

\* set_upstream_status: another status than success is reported for the channel
\* of the guard, where automatic disabling is configured for it
Reported(status) == IF status = "ok" THEN reports ELSE reports \cup {lease.cand}

\* a configured status is answered, and another candidate takes over
RetryStatus(c, hit) ==
    /\ pc = "send"
    /\ answer' = [answer EXCEPT ![lease.cand] = "retry"]
    /\ reports' = Reported("retry")
    /\ Retry(c, hit)

\* a connection failure, a connect or a response-header timeout
RetryFailure(c, hit) ==
    /\ pc = "send"
    /\ UNCHANGED <<answer, reports>>
    /\ Retry(c, hit)

\* ... when no retry is allowed or no candidate is left
SendFails(outcome) ==
    /\ pc = "send"
    /\ outcome \in {"connectTimeout", "headerTimeout", "unavailable"}
    /\ outcome # "unavailable" => ~(MayRetry /\ Selectable # {})
    /\ Fail(outcome)

--------------------
\* The response

Ok == answer[lease.cand] = "ok"
NewStream(adapter, sse, patched, length) ==
    [adapter |-> adapter, sse |-> sse, patched |-> patched, left |-> length, open |-> TRUE,
     queue |-> 0, pending |-> None, finished |-> FALSE, seen |-> None, frames |-> 0]

\* response_from_upstream.  A coding the gateway cannot decode, a body that does
\* not fit the adapter or a header plan that fails is an error of its own; a
\* response without a body is complete; a JSON adapter reads the body first
Respond(status, how) ==
    /\ pc = "send"
    /\ status = "retry" => ~(MayRetry /\ Selectable # {})
    /\ answer' = [answer EXCEPT ![lease.cand] = status]
    /\ reports' = Reported(status)
    /\ LET outcome == IF status = "ok" THEN "succeeded" ELSE "http"
       IN  \/ /\ how \in {"coding", "transform"}
              /\ Finish(ctx, how) /\ Drop /\ client' = "refused"
           \/ /\ how = "empty"
              /\ Finish(ctx, outcome) /\ Drop /\ client' = "eof"
           \/ /\ how = "json" /\ status = "ok" /\ Kind[lease.cand] # "open"
              /\ pc' = "json"
              /\ UNCHANGED <<admission, lease, stream, ctx, events, binding, client>>
           \/ /\ how \in {"plain", "sized", "sse", "patched", "adapted"}
              /\ how = "adapted" => status = "ok" /\ Kind[lease.cand] # "open"
              /\ stream' = NewStream(how = "adapted", how \in {"sse", "patched", "adapted"},
                                     how = "patched", IF how = "sized" THEN MaxFrames ELSE None)
              /\ pc' = "stream"
              /\ UNCHANGED <<admission, lease, ctx, events, binding, client>>
    /\ UNCHANGED <<attempted, attempt, dispatched, journal, outside>>

\* the whole JSON body was read and adapted, or not
AdaptJson(good) ==
    /\ pc = "json"
    /\ LET c == [ctx EXCEPT !.usage = {lease.cand}]
       IN  Finish(c, IF good THEN "succeeded" ELSE "transform")
    /\ Drop
    /\ client' = IF good THEN "eof" ELSE "refused"
    /\ UNCHANGED <<attempted, attempt, dispatched, answer, journal, reports, outside>>

\* sse_terminal_request_outcome, completed_transport_outcome
TerminalOutcome(terminal) ==
    IF ~Ok THEN "http" ELSE IF terminal = "failed" THEN "sse" ELSE "succeeded"

\* observe_usage: the first terminal event stays
Observed(t) ==
    IF ctx = None THEN None
    ELSE [ctx EXCEPT !.usage = {lease.cand},
                     !.terminal = IF ctx.terminal = None THEN t ELSE ctx.terminal]

Seen(t) == IF stream.seen = None THEN t ELSE stream.seen

\* fail_response_adapter, and every other way a body breaks off
Break(outcome) ==
    /\ Finish(ctx, outcome)
    /\ stream' = [stream EXCEPT !.open = FALSE, !.adapter = FALSE, !.queue = 0]
    /\ client' = "error"

Streaming == pc = "stream" /\ client = "open"
Reading == Streaming /\ stream.open /\ stream.queue = 0

\* record_stream_bytes for a frame with an optional terminal event
RecordBytes(t, s) ==
    LET c == Observed(t)
        complete == s.left = 0
    IN  IF c # None /\ (c.terminal # None \/ complete)
        THEN Finish(c, TerminalOutcome(c.terminal))
        ELSE ctx' = c /\ UNCHANGED <<events, binding>>

\* adapt_stream_frame: the plugin turns a frame into one or more; a terminal
\* one stays single, and nothing follows it
AdaptFrame(t, n, open) ==
    IF stream.finished THEN Break("transform")
    ELSE /\ stream' = [stream EXCEPT !.queue = n, !.frames = stream.frames + 1, !.seen = t,
                                     !.pending = t, !.finished = t # None, !.open = open]
         /\ ctx' = Observed(t)
         /\ UNCHANGED <<events, binding, client>>

Chunk(t, n) ==
    /\ Reading /\ stream.frames < MaxFrames
    /\ t # None => stream.sse
    /\ IF stream.adapter
       THEN n \in 1..(IF t = None THEN 2 ELSE 1) /\ AdaptFrame(t, n, TRUE)
       ELSE LET s == [stream EXCEPT !.frames = stream.frames + 1, !.seen = Seen(t),
                                    !.left = IF stream.left = None THEN None ELSE stream.left - 1]
            IN  n = 1 /\ stream' = s /\ RecordBytes(t, s) /\ UNCHANGED client
    /\ UNCHANGED <<pc, admission, route, dispatched, answer, journal, reports, outside>>

\* an adapted frame is handed to the client; the last one of a terminal ends it
PopFrame ==
    /\ Streaming /\ stream.queue > 0
    /\ stream' = [stream EXCEPT !.queue = stream.queue - 1]
    /\ IF stream.queue = 1 /\ stream.pending # None
       THEN Finish(ctx, TerminalOutcome(stream.pending))
       ELSE UNCHANGED <<ctx, events, binding>>
    /\ UNCHANGED <<pc, admission, route, dispatched, answer, client, journal, reports, outside>>

\* the body fails, is idle for too long, or cannot be transformed
BreakOff(outcome) ==
    /\ Reading
    /\ outcome \in {"body", "idle", "transform"}
    /\ outcome = "transform" => stream.patched \/ stream.adapter
    /\ Break(outcome)
    /\ UNCHANGED <<pc, admission, route, dispatched, answer, journal, reports, outside>>

\* the upstream's body ends: an adapter must have seen the terminal event
EndBody ==
    IF stream.adapter /\ ~stream.finished THEN Break("transform")
    ELSE /\ stream' = [stream EXCEPT !.open = FALSE]
         /\ client' = "eof"
         /\ Finish(ctx, TerminalOutcome(stream.seen))

End ==
    /\ Reading
    /\ stream.left \in {None, 0}
    /\ EndBody
    /\ UNCHANGED <<pc, admission, route, dispatched, answer, journal, reports, outside>>

\* ... within a frame, which is the last one
EndWithResidual(t) ==
    /\ Reading /\ stream.frames < MaxFrames
    /\ stream.patched \/ stream.adapter
    /\ IF stream.adapter THEN AdaptFrame(t, 1, FALSE)
       ELSE LET c == Observed(t)
            IN  /\ stream' = [stream EXCEPT !.seen = Seen(t), !.open = FALSE]
                /\ UNCHANGED client
                /\ IF c = None THEN UNCHANGED <<ctx, events, binding>>
                   ELSE Finish(c, TerminalOutcome(c.terminal))
    /\ UNCHANGED <<pc, admission, route, dispatched, answer, journal, reports, outside>>

\* the poll after the upstream is gone
EndPoll ==
    /\ Streaming /\ ~stream.open /\ stream.queue = 0
    /\ IF stream.adapter /\ ~stream.finished THEN Break("transform")
       ELSE client' = "eof" /\ UNCHANGED <<stream, ctx, events, binding>>
    /\ UNCHANGED <<pc, admission, route, dispatched, answer, journal, reports, outside>>

\* the response is complete and its body dropped
DropBody ==
    /\ pc = "stream" /\ client \in {"eof", "error"}
    /\ Finish(ctx, "cancelled")
    /\ Drop
    /\ UNCHANGED <<attempted, attempt, dispatched, answer, client, journal, reports, outside>>

\* the client goes away: the handler's future or the response body is dropped
Disconnect ==
    /\ pc \in {"admitted", "prepare", "send", "json", "stream"} /\ client = "open"
    /\ Finish(ctx, "cancelled")
    /\ Drop
    /\ client' = "gone"
    /\ UNCHANGED <<attempted, attempt, dispatched, answer, journal, reports, outside>>

--------------------
\* Other requests

Flap(c) ==
    /\ env > 0 /\ env' = env - 1
    /\ up' = IF c \in up THEN up \ {c} ELSE up \cup {c}
    /\ UNCHANGED <<pc, admission, route, ctx, dispatched, answer, stream, client, events,
                   journal, reports, binding>>
OtherBinds(c) ==
    /\ env > 0 /\ env' = env - 1
    /\ binding' = c
    /\ UNCHANGED <<pc, admission, route, ctx, dispatched, answer, stream, client, events,
                   journal, reports, up>>

Loop(c, hit) ==
    \/ Route(c, hit) \/ PrepareFails(c, hit) \/ RetryStatus(c, hit) \/ RetryFailure(c, hit)
Step ==
    \/ Admit \/ RejectBody \/ Unroutable("rejected") \/ Unroutable("noHealthy")
    \/ \E c \in Candidates, hit \in BOOLEAN : Loop(c, hit)
    \/ Prepare
    \/ \E o \in Outcomes : Unprepared(o) \/ SendFails(o) \/ BreakOff(o)
    \/ \E status \in Statuses,
          how \in {"coding", "transform", "empty", "json", "plain", "sized", "sse", "patched",
                   "adapted"} : Respond(status, how)
    \/ \E good \in BOOLEAN : AdaptJson(good)
    \/ \E t \in Terminals \cup {None}, n \in 1..2 : Chunk(t, n)
    \/ \E t \in Terminals \cup {None} : EndWithResidual(t)
    \/ PopFrame \/ End \/ EndPoll \/ DropBody
Next ==
    \/ Step \/ Disconnect
    \/ \E c \in Candidates : Flap(c) \/ OtherBinds(c)

Spec == Init /\ [][Next]_vars

\* Nothing bounds the read of the request body (pc = "admitted"): a stalled upload
\* keeps its admission until the client goes.  Every later await of the handler has
\* a timeout, and the response body, with its idle timer, is polled as the client
\* takes it.
Handled == Step /\ pc \in {"prepare", "send", "json"}
Delivered == Step /\ pc = "stream"
FairSpec == Spec /\ WF_vars(Handled) /\ WF_vars(Delivered)

--------------------
\* Properties

\* Once over, an admitted request has exactly one event, whatever failed, was
\* retried or dropped, and a request refused before admission has none, except
\* the event that no route was found.
OneEvent ==
    /\ Len(events) <= 1
    /\ pc = "done" => (Len(events) = 1 <=>
                         (journal \/ \E i \in DOMAIN events : events[i].cand = None))

\* A request is sent to a candidate at most once, at most MaxRetries times again,
\* and never again once a connector with state of its own has received it.
DispatchedOnce ==
    /\ Len(dispatched) <= MaxRetries + 1
    /\ \A i, j \in DOMAIN dispatched : i < j =>
         dispatched[i] # dispatched[j] /\ Kind[dispatched[i]] = "open" /\ Retryable

\* The event names the candidate that the outcome is about, never one that was
\* given up for another, and bills no usage that
\* another candidate reported before the retry.
BillsLastAttempt ==
    \A i \in DOMAIN events : LET e == events[i] IN
        /\ e.usage \subseteq {e.cand}
        /\ \A j \in DOMAIN dispatched : dispatched[j] = e.cand => j = Len(dispatched)
        /\ e.outcome \in Outcomes \ {"client", "unavailable", "cancelled"} =>
             e.cand = dispatched[Len(dispatched)]

\* Success is recorded only for a success status whose stream did not report a
\* failure; and when the client got the complete body of such a response, that
\* is what is recorded - not a cancellation.
OutcomeHonest ==
    /\ \A i \in DOMAIN events : events[i].outcome = "succeeded" => answer[events[i].cand] = "ok"
    /\ (pc = "stream" /\ stream.seen = "failed" /\ events # <<>>) =>
         events[1].outcome # "succeeded"
    /\ (pc = "stream" /\ client = "eof") =>
         /\ events # <<>>
         /\ events[1].outcome = IF answer[lease.cand] # "ok" THEN "http"
                                ELSE IF stream.seen = "failed" THEN "sse" ELSE "succeeded"

\* Automatic disabling hears only of channels that did answer with an error.
ReportsTrue == \A c \in reports : answer[c] \in {"retry", "bad"}

\* What a request leaves behind, however it was retried, streamed and dropped: one
\* true event about the attempt that answered, and true reports.
RequestsSound ==
    OneEvent /\ DispatchedOnce /\ ReportsTrue /\ BillsLastAttempt /\ OutcomeHonest

\* A session loses its binding only through the request that followed it, so not
\* the one a concurrent request has just made, and never to the failure of a
\* connector that keeps state for the session.
StickyKept ==
    (binding # None /\ binding' = None) =>
      Kind[binding] # "codex" /\ lease # None /\ lease.hit /\ lease.cand = binding

\* A request whose body was read ends and gives its admission and its channel
\* back, although the upstream may never answer or stop in the middle.
Released ==
    (pc \notin {"idle", "admitted"}) ~> (pc = "done" /\ ~admission /\ lease = None)

--------------------
\* The inductive invariant behind RequestsSound and StickyKept

\* Before the guard exists nothing is held or recorded.
Early ==
    pc \in {"idle", "admitted"} =>
      /\ lease = None /\ ctx = None /\ attempted = {} /\ attempt = 1
      /\ dispatched = <<>> /\ ~journal /\ events = <<>> /\ client = "open"

\* The guard is about the candidate of the lease; it is open until it has
\* recorded its event, which only a stream survives.
Guarded ==
    pc \in {"prepare", "send", "json", "stream"} =>
      /\ lease \in Leases /\ journal
      /\ ctx # None => /\ ctx.cand = lease.cand /\ ctx.usage \subseteq {lease.cand}
                       /\ events = <<>>
      /\ pc # "stream" => ctx # None /\ ctx.terminal = None /\ client = "open"
      /\ pc # "prepare" =>
           /\ lease.cand \in attempted /\ dispatched # <<>>
           /\ dispatched[Len(dispatched)] = lease.cand
           /\ ctx # None => ctx.preserve = (Kind[lease.cand] = "codex")
      /\ pc = "prepare" => lease.cand \notin attempted
      /\ pc = "send" => answer[lease.cand] = None
      /\ pc = "json" => answer[lease.cand] = "ok"

\* The loop counts its dispatches, and whoever was tried is not tried again.
Tried ==
    /\ pc \in {"idle", "admitted", "prepare"} => Len(dispatched) = attempt - 1
    /\ pc \in {"send", "json", "stream"} => Len(dispatched) = attempt
    /\ Len(dispatched) <= attempt
    /\ \A i \in DOMAIN dispatched :
         /\ dispatched[i] \in attempted
         /\ i < Len(dispatched) \/ pc = "prepare" => Kind[dispatched[i]] = "open" /\ Retryable
    /\ \A i, j \in DOMAIN dispatched : i < j => dispatched[i] # dispatched[j]
    /\ \A c \in Candidates : answer[c] # None => c \in attempted
    /\ ReportsTrue

\* The outcome that the terminal event of the stream calls for is recorded.
Told == Len(events) = 1 /\ events[1].outcome = TerminalOutcome(stream.seen)

\* What is passed on as it comes ends with the first terminal event, or with the
\* last byte of a body of known length.
Plain ==
    /\ stream.queue = 0
    /\ stream.sse => stream.left = None
    /\ ~stream.sse => stream.seen = None /\ ~stream.patched
    /\ IF ctx = None THEN Told /\ (stream.sse /\ stream.open => stream.seen # None)
       ELSE stream.seen = None /\ ctx.terminal = None /\ stream.open

\* What is adapted ends when the frame of the terminal event has been handed on.
Adapted ==
    /\ stream.sse
    /\ stream.pending = stream.seen /\ (stream.finished <=> stream.seen # None)
    /\ stream.finished => stream.queue <= 1
    /\ IF ctx = None THEN Told /\ stream.finished /\ stream.queue = 0
       ELSE ctx.terminal = stream.seen /\ (stream.finished => stream.queue = 1)

Streamed ==
    pc = "stream" =>
      /\ stream \in Streams /\ client \in {"open", "eof", "error"}
      /\ client = "open" => IF stream.adapter THEN Adapted ELSE Plain
      /\ client = "eof" => ctx = None /\ Told
      /\ client = "error" =>
           /\ ctx = None /\ Len(events) = 1
           /\ stream.seen = "failed" => events[1].outcome # "succeeded"

\* What an event says of the dispatches and the answers.
EventFits(e) ==
    /\ e.usage \subseteq {e.cand}
    /\ \A j \in DOMAIN dispatched : dispatched[j] = e.cand => j = Len(dispatched)
    /\ e.outcome \in Outcomes \ {"client", "unavailable", "cancelled"} =>
         e.cand = dispatched[Len(dispatched)]
    /\ e.outcome = "succeeded" => answer[e.cand] = "ok"

Recorded ==
    /\ Len(events) <= 1
    /\ \A i \in DOMAIN events : EventFits(events[i])
    /\ pc = "done" =>
         /\ ctx = None /\ lease = None
         /\ IF journal THEN Len(events) = 1
            ELSE events = <<>> \/ (Len(events) = 1 /\ events[1].cand = None)

ProxyInv == TypeOK /\ Early /\ Guarded /\ Tried /\ Streamed /\ Recorded
=============================================================================
