---------------------------- MODULE ImageEditBody ----------------------------
\* The body of an Images edit request (src/application/request_body.rs):
\* captured from the client in memory or in a temporary file, inspected,
\* filtered by the client policy, and replayed to every attempt, as it came
\* or rebuilt.  A body is a sequence of parts; a part is the unit in which
\* it is received and replayed.
EXTENDS Naturals, Sequences, FiniteSets, SequencesExt, FiniteSetsExt

CONSTANTS
  Bodies,        \* the bodies clients send: sequences of parts
  Disposition,   \* [names -> {"allow", "ignore", "reject"}], the client policy
  UpstreamModels,
  memory_bytes, max_body_bytes, max_file_bytes,
  MAX_IMAGE_EDIT_IMAGES,
  Overhead,      \* REBUILT_BODY_OVERHEAD_BYTES
  MaxAttempts,   \* bound on the attempts of the request
  Faults         \* bound on storage failures

LimitsAreNat == {memory_bytes, max_body_bytes, max_file_bytes} \subseteq Nat

VARIABLES
  phase,       \* "receive", "inspect", "policy", "ready", "prepared", "sending", "done"
  client,      \* what the client sends
  edit,        \* ImageEditRequestBody without its bytes, once inspected
  attempt,     \* attempts made
  model, fields, \* the model each attempt is for, the text fields billing reads
  obj,         \* bodies by number: 0 as captured, n rebuilt for attempt n
  using,       \* the body each attempt sends
  received,    \* what the upstream of each attempt has read
  stream,      \* "none", "open", "lingering" or "ended", by attempt
  active_files, active_bytes, storage_failures_total,
  faults

vars == <<phase, client, edit, attempt, model, fields, obj, using, received, stream,
          active_files, active_bytes, storage_failures_total, faults>>
gauges == <<active_files, active_bytes>>

Attempts == 1..MaxAttempts
Objects == 0..MaxAttempts
NoBody == [kind |-> "none", parts |-> <<>>, held |-> FALSE, lock |-> 0, pos |-> 0]
NoEdit == [text |-> <<>>, ignored |-> {}, images |-> 0, image_bytes |-> 0,
           masks |-> 0, wire_model |-> ""]

Size(parts) == FoldSeq(LAMBDA p, n : n + p.size, 0, parts)
IsImage(p) == p.name \in {"image", "image[]"}

Init ==
  /\ phase = "receive" /\ client \in Bodies /\ edit = NoEdit /\ attempt = 0
  /\ model = [a \in Attempts |-> ""] /\ fields = [a \in Attempts |-> <<>>]
  /\ obj = [o \in Objects |-> NoBody] /\ using = [a \in Attempts |-> 0]
  /\ received = [a \in Attempts |-> <<>>] /\ stream = [a \in Attempts |-> "none"]
  /\ active_files = 0 /\ active_bytes = 0 /\ storage_failures_total = 0 /\ faults = 0

--------------------
\* Storage

\* write: the memory threshold is compared with the length after the write.
Spills(o, n) == o.kind # "file" /\ Size(o.parts) + n > memory_bytes

Written(o, p) ==
  [o EXCEPT !.parts = Append(@, p), !.held = TRUE,
            !.kind = IF @ = "file" \/ Spills(o, p.size) THEN "file" ELSE "memory"]

\* A writer's whole input, one write after the other.
WrittenAll(parts) == FoldLeft(Written, NoBody, parts)

\* TempFileAccounting lives as long as the body's handle or a stream of it.
Alive(o) == o.kind = "file" /\ (o.held \/ o.lock # 0)

\* TempFileAccounting::new, add_bytes and drop: what a step does to the gauges.
Accounted(before, after) ==
  LET now == {o \in Objects : Alive(after[o])}
      was == {o \in Objects : Alive(before[o])}
      bytes(S, os) == MapThenSumSet(LAMBDA o : Size(os[o].parts), S)
  IN /\ active_files' = (active_files + Cardinality(now \ was)) - Cardinality(was \ now)
     /\ active_bytes' = (active_bytes + bytes(now, after) - bytes(now \cap was, before))
                          - bytes(was \ now, before)
Becomes(os) == obj' = os /\ Accounted(obj, os)

StorageFault == /\ faults < Faults /\ faults' = faults + 1
                /\ storage_failures_total' = storage_failures_total + 1
NoFault == UNCHANGED <<faults, storage_failures_total>>

\* The request is over: its handles go, a stream the HTTP client still has stays.
Released == [o \in Objects |-> [obj[o] EXCEPT !.held = FALSE]]
Linger == [a \in Attempts |-> IF stream[a] = "open" THEN "lingering" ELSE stream[a]]
End == phase' = "done" /\ Becomes(Released) /\ stream' = Linger

--------------------
\* Capture

\* capture: a declared length over the limit is refused before the first byte.
RefuseLength ==
  /\ phase = "receive" /\ obj[0] = NoBody /\ Size(client) > max_body_bytes
  /\ End /\ NoFault /\ UNCHANGED <<client, edit, attempt, model, fields, using, received>>

Receive(fails) ==
  LET o == obj[0]
      p == client[Len(o.parts) + 1]
  IN /\ phase = "receive" /\ Len(o.parts) < Len(client)
     /\ IF Size(o.parts) + p.size > max_body_bytes THEN End /\ NoFault /\ ~fails
        ELSE IF fails
          THEN (Spills(o, p.size) \/ o.kind = "file") /\ StorageFault /\ End
        ELSE /\ Becomes([obj EXCEPT ![0] = Written(o, p)])
             /\ NoFault /\ UNCHANGED <<phase, stream>>
     /\ UNCHANGED <<client, edit, attempt, model, fields, using, received>>

\* finish: flush and rewind; a body in memory cannot fail.
Finish(fails) ==
  /\ phase = "receive" /\ Len(obj[0].parts) = Len(client) /\ obj[0] # NoBody
  /\ IF fails THEN obj[0].kind = "file" /\ StorageFault /\ End
     ELSE phase' = "inspect" /\ NoFault /\ UNCHANGED <<obj, stream, active_files, active_bytes>>
  /\ UNCHANGED <<client, edit, attempt, model, fields, using, received>>

\* inspect_multipart's verdict on the parts.
Acceptable(parts) ==
  LET named(n) == SelectSeq(parts, LAMBDA p : p.name = n)
      images == SelectSeq(parts, IsImage)
  IN /\ Len(images) \in 1..MAX_IMAGE_EDIT_IMAGES /\ Len(named("mask")) <= 1
     /\ Len(named("model")) = 1
     /\ \A p \in Range(parts) :
          p.file => /\ (IsImage(p) \/ p.name = "mask") /\ p.size <= max_file_bytes
                    /\ Disposition[p.name] # "reject"

Inspect ==
  /\ phase = "inspect"
  /\ IF Acceptable(obj[0].parts)
       THEN LET parts == obj[0].parts
            IN /\ edit' = [text |-> SelectSeq(parts, LAMBDA p : ~p.file),
                           ignored |-> {},
                           images |-> Len(SelectSeq(parts, IsImage)),
                           image_bytes |-> Size(SelectSeq(parts, IsImage)),
                           masks |-> Len(SelectSeq(parts, LAMBDA p : p.name = "mask")),
                           wire_model |-> SelectSeq(parts, LAMBDA p : p.name = "model")[1].val]
               /\ phase' = "policy" /\ UNCHANGED <<obj, stream, active_files, active_bytes>>
       ELSE End /\ UNCHANGED edit
  /\ NoFault /\ UNCHANGED <<client, attempt, model, fields, using, received>>

\* apply_field_policy: an ignored name goes from the fields and from the wire.
Filtered(e) ==
  LET gone == {n \in DOMAIN Disposition : Disposition[n] = "ignore"}
      present == {p.name : p \in Range(e.text)}
                   \cup (IF e.images > 0 THEN {"image"} ELSE {})
                   \cup (IF e.masks > 0 THEN {"mask"} ELSE {})
  IN [e EXCEPT !.text = SelectSeq(@, LAMBDA p : p.name \notin gone),
               !.ignored = (gone \cap present)
                  \cup (IF "image" \in gone \cap present THEN {"image[]"} ELSE {}),
               !.images = IF "image" \in gone THEN 0 ELSE @,
               !.image_bytes = IF "image" \in gone THEN 0 ELSE @,
               !.masks = IF "mask" \in gone THEN 0 ELSE @]

ApplyPolicy ==
  /\ phase = "policy"
  /\ IF \E p \in Range(edit.text) : Disposition[p.name] = "reject"
       THEN End /\ UNCHANGED edit
       ELSE /\ edit' = Filtered(edit) /\ phase' = "ready"
            /\ UNCHANGED <<obj, stream, active_files, active_bytes>>
  /\ NoFault /\ UNCHANGED <<client, attempt, model, fields, using, received>>

--------------------
\* Attempts

\* rewrite_model on the attempt's own copy.
Rewritten(m) ==
  [i \in DOMAIN edit.text |->
     IF edit.text[i].name = "model" THEN [edit.text[i] EXCEPT !.val = m] ELSE edit.text[i]]

Kept(parts) == SelectSeq(parts, LAMBDA p : p.name \notin edit.ignored)

\* rebuild_parts: the captured parts without the ignored ones, the model replaced.
Rebuilt(m) ==
  LET kept == Kept(obj[0].parts)
  IN [i \in DOMAIN kept |->
        IF kept[i].name = "model" THEN [kept[i] EXCEPT !.val = m] ELSE kept[i]]

base64_encoded_len(n) == ((n + 2) \div 3) * 4

\* to_plugin_body: the plugin's literals around the images that are left.
\* What the plugin plans (its model, its tier) is external.
Projected(plan) ==
  LET images == SelectSeq(Kept(obj[0].parts), IsImage)
      encoded == [i \in DOMAIN images |->
                    [images[i] EXCEPT !.size = base64_encoded_len(@)]]
  IN <<[name |-> "model", size |-> 1, val |-> plan.model, file |-> FALSE]>> \o encoded

\* validate_projected_image_body, the image count and the size limit.
PlanAccepted(m, plan) ==
  /\ plan.model = m /\ ~plan.service_tier /\ edit.masks = 0
  /\ Len(SelectSeq(Kept(obj[0].parts), IsImage)) = edit.images
  /\ Size(Projected(plan)) <=
       base64_encoded_len(edit.image_bytes) + 6 * Size(edit.text) + Overhead

\* Reading the captured body, whole, needs its file.
Readable == obj[0].lock = 0

\* Reading it or writing the new one fails.
CopyFails(o) == (obj[0].kind = "file" \/ o.kind = "file") /\ StorageFault

\* into_openai_replayable: nothing to change.
AsCaptured(m) == m = edit.wire_model /\ edit.ignored = {}

Begin(m) ==
  /\ phase = "ready" /\ attempt < MaxAttempts /\ attempt' = attempt + 1
  /\ model' = [model EXCEPT ![attempt'] = m]
  /\ fields' = [fields EXCEPT ![attempt'] = Rewritten(m)]

\* An attempt on an OpenAI-compatible channel.
PrepareReplay(m, fails) ==
  /\ Begin(m)
  /\ IF AsCaptured(m)
       THEN /\ ~fails /\ phase' = "prepared" /\ NoFault
            /\ using' = [using EXCEPT ![attempt'] = 0]
            /\ UNCHANGED <<obj, stream, active_files, active_bytes>>
       ELSE /\ Readable /\ using' = [using EXCEPT ![attempt'] = attempt']
            /\ IF fails
                 THEN CopyFails(WrittenAll(Rebuilt(m))) /\ End
                 ELSE /\ phase' = "prepared" /\ NoFault /\ UNCHANGED stream
                      /\ Becomes([obj EXCEPT ![attempt'] = WrittenAll(Rebuilt(m))])
  /\ UNCHANGED <<client, edit, received>>

\* An attempt on a connector whose plugin wants JSON.
PrepareProjected(m, plan, fails) ==
  /\ Begin(m) /\ Readable /\ using' = [using EXCEPT ![attempt'] = attempt']
  /\ IF fails THEN CopyFails(WrittenAll(Projected(plan))) /\ End
     ELSE /\ NoFault
          /\ IF PlanAccepted(m, plan)
               THEN /\ phase' = "prepared" /\ UNCHANGED stream
                    /\ Becomes([obj EXCEPT ![attempt'] = WrittenAll(Projected(plan))])
               ELSE End
  /\ UNCHANGED <<client, edit, received>>

\* stream: seek to the start once the file is ours.
Rewound(o) == 0

\* reqwest_body: a body in a file is streamed under its lock, one in memory is
\* cloned.
Open ==
  LET o == using[attempt]
  IN /\ phase = "prepared"
     /\ obj[o].kind = "file" => obj[o].lock = 0
     /\ phase' = "sending" /\ stream' = [stream EXCEPT ![attempt] = "open"]
     /\ IF obj[o].kind = "file"
          THEN obj' = [obj EXCEPT ![o].lock = attempt, ![o].pos = Rewound(obj[o])]
          ELSE obj' = [obj EXCEPT ![o].pos = 0]
     /\ NoFault /\ UNCHANGED <<client, edit, attempt, model, fields, using, received>>
     /\ UNCHANGED gauges

\* The seek fails: the request ends.
OpenFails ==
  /\ phase = "prepared" /\ obj[using[attempt]].kind = "file" /\ obj[using[attempt]].lock = 0
  /\ StorageFault /\ End
  /\ UNCHANGED <<client, edit, attempt, model, fields, using, received>>

\* The HTTP client pulls the next chunk.
Pull(a) ==
  LET o == using[a]
      next == IF obj[o].kind = "file" THEN obj[o].pos ELSE Len(received[a])
  IN /\ stream[a] \in {"open", "lingering"} /\ next < Len(obj[o].parts)
     /\ received' = [received EXCEPT ![a] = Append(@, obj[o].parts[next + 1])]
     /\ obj' = [obj EXCEPT ![o].pos = next + 1]
     /\ UNCHANGED <<phase, client, edit, attempt, model, fields, using, stream>>
     /\ UNCHANGED gauges /\ NoFault

Unlocked(o) == [o EXCEPT !.lock = 0]

\* A read of the file fails, which ends the stream.
PullFails(a) ==
  /\ stream[a] \in {"open", "lingering"} /\ obj[using[a]].lock = a /\ StorageFault
  /\ stream' = [stream EXCEPT ![a] = "ended"]
  /\ Becomes([obj EXCEPT ![using[a]] = Unlocked(@)])
  /\ UNCHANGED <<phase, client, edit, attempt, model, fields, using, received>>

\* The stream is dropped, at its end or not: the file is free, and gone if
\* nothing else holds it.
Close(a) ==
  /\ \/ stream[a] = "lingering"
     \/ stream[a] = "open" /\ Len(received[a]) = Len(obj[using[a]].parts)
  /\ stream' = [stream EXCEPT ![a] = "ended"]
  /\ IF obj[using[a]].lock = a
       THEN Becomes([obj EXCEPT ![using[a]] = Unlocked(@)])
       ELSE UNCHANGED <<obj, active_files, active_bytes>>
  /\ NoFault /\ UNCHANGED <<phase, client, edit, attempt, model, fields, using, received>>

\* The attempt failed and may be retried: its own body goes, the stream the
\* HTTP client has may still be there.
Retry ==
  /\ phase = "sending" /\ phase' = "ready" /\ stream' = Linger
  /\ IF using[attempt] = 0 THEN UNCHANGED <<obj, active_files, active_bytes>>
     ELSE Becomes([obj EXCEPT ![using[attempt]].held = FALSE])
  /\ NoFault /\ UNCHANGED <<client, edit, attempt, model, fields, using, received>>

\* The answer was given, or the client went away.
Leave ==
  /\ phase # "done" /\ End /\ NoFault
  /\ UNCHANGED <<client, edit, attempt, model, fields, using, received>>

Plans == [model: UpstreamModels, service_tier: BOOLEAN]

Next ==
  \/ RefuseLength \/ Inspect \/ ApplyPolicy \/ Open \/ OpenFails \/ Retry \/ Leave
  \/ \E fails \in BOOLEAN : Receive(fails) \/ Finish(fails)
  \/ \E m \in UpstreamModels, fails \in BOOLEAN :
       PrepareReplay(m, fails) \/ \E plan \in Plans : PrepareProjected(m, plan, fails)
  \/ \E a \in Attempts : Pull(a) \/ PullFails(a) \/ Close(a)

Spec == Init /\ [][Next]_vars

\* The gateway's own steps, and the HTTP client drops the streams it is done with.
Fairness == WF_vars(Open) /\ \A a \in Attempts : WF_vars(Pull(a)) /\ WF_vars(Close(a))
LiveSpec == Spec /\ Fairness

--------------------
\* Every attempt is sent its body from the first byte, whatever an earlier
\* attempt read of the same file and however late its stream goes away.
ReplayExact ==
  \A a \in Attempts : stream[a] \in {"open", "lingering"} =>
    IsPrefix(received[a], obj[using[a]].parts)

\* What an upstream reads: nothing the policy dropped, one model, the one the
\* attempt was for, and the other parts as the client sent them, in order.
WireIsAllowed ==
  \A a \in Attempts : \A i \in DOMAIN received[a] :
    LET p == received[a][i]
    IN Disposition[IF IsImage(p) THEN "image" ELSE p.name] = "allow"
       /\ (p.name = "model" => p.val = model[a])

\* Billing and routing read the fields of the very body that is sent.
FieldsAreOnTheWire ==
  \A a \in Attempts : \A p \in Range(received[a]) :
    p.file \/ \E q \in Range(fields[a]) : q.name = p.name /\ q.val = p.val

\* The gauges count the temporary files that exist and the bytes in them.
SpoolAccounted ==
  LET files == {o \in Objects : obj[o].kind = "file" /\ (obj[o].held \/ obj[o].lock # 0)}
  IN /\ active_files = Cardinality(files)
     /\ active_bytes = MapThenSumSet(LAMBDA o : Size(obj[o].parts), files)

\* No body in memory is larger than the threshold, none at all than its limit.
MemoryBounded ==
  /\ \A o \in Objects : obj[o].kind = "memory" => Size(obj[o].parts) <= memory_bytes
  /\ Size(obj[0].parts) <= max_body_bytes
=============================================================================
