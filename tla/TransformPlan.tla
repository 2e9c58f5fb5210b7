--------------------------- MODULE TransformPlan ---------------------------
\* The JSON side of transform documents (transforms/mod.rs): how the
\* operations of a template's and a channel's document are compiled, how
\* the two layers are composed, and what the composed plan does to a
\* request body or to the JSON of a stream event.
\*
\* A JSON document is the function from the pointers of its nodes (tuples
\* of tokens) to nodes.  A node is an object, an array of scalars or a
\* scalar; pointers into arrays are left out, the array operations are
\* not.
EXTENDS Integers, Sequences, FiniteSets, SequencesExt

CONSTANTS
    Scopes,      \* what the plan is for: "request", "chat", "responses"
    Operations,  \* the operations an administrator may write
    Documents,   \* the documents a plan may meet, a set for every scope
    MaxDefaults, \* operations in the template's document
    MaxOverrides \* operations in the channel's document

--------------------
\* Documents.

Obj      == [kind |-> "object", items |-> <<>>]
Arr(s)   == [kind |-> "array", items |-> s]
Scalar(v) == [kind |-> "scalar", items |-> <<v>>]

Exists(doc, p) == p \in DOMAIN doc

\* The subtree at p, as a document of its own.
SubDoc(doc, p) ==
    [q \in {SubSeq(r, Len(p) + 1, Len(r)) : r \in {x \in DOMAIN doc : IsPrefix(p, x)}}
        |-> doc[p \o q]]

Prune(doc, p) == [q \in {x \in DOMAIN doc : ~IsPrefix(p, x)} |-> doc[q]]

\* Put the document v at p, in place of what was there.
Graft(doc, p, v) ==
    LET rest == Prune(doc, p)
        new == {p \o q : q \in DOMAIN v}
    IN [x \in DOMAIN rest \cup new |->
            IF x \in new THEN v[SubSeq(x, Len(p) + 1, Len(x))] ELSE rest[x]]

Failed == [q \in {} |-> Obj]     \* no document has an empty domain

--------------------
\* Pointers.

\* transforms/mod.rs pointers_conflict: one is a prefix of the other.
PointersConflict(p, q) == IsPrefix(p, q) \/ IsPrefix(q, p)

Tokens(p) == {p[i] : i \in DOMAIN p}

\* is_array_item_or_its_index
ArrayItem(p, array) ==
    /\ array \in Tokens(p)
    /\ Len(p) <= 1 + CHOOSE i \in DOMAIN p :
                        p[i] = array /\ \A j \in DOMAIN p : p[j] = array => i <= j

\* transforms/mod.rs is_immutable_sse_path
ImmutableSse(p, scope) ==
    CASE scope = "chat" ->
           \/ p[1] \in {"id", "model"}
           \/ ArrayItem(p, "choices")
           \/ Tokens(p) \cap {"id", "index"} # {}
      [] scope = "responses" ->
           \/ p[1] \in {"type", "sequence_number"}
           \/ p = <<"response">>
           \/ Len(p) >= 2 /\ p[1] = "response" /\ p[2] \in {"id", "status"}
           \/ ArrayItem(p, "output")
           \/ Tokens(p) \cap {"id", "type"} # {}

\* parse_pointer, validate_pointer
PointerAllowed(p, scope) ==
    /\ p # <<>>
    /\ IF scope = "request" THEN Tokens(p) \cap {"model", "stream"} = {}
       ELSE ~ImmutableSse(p, scope)

--------------------
\* Operations: [version, op, path, expr, when, index].  An expression is a
\* literal document, the current value, an object around it, or a template
\* that renders it as text.

ArrayOps == {"array_append", "array_prepend", "array_insert", "array_remove"}
ValueOps == {"add", "replace", "array_append", "array_prepend", "array_insert", "merge"}

\* compile_v1_patch_operation: literals only, no condition
CompilesV1(o) ==
    /\ o.op \in {"add", "replace", "remove"}
    /\ o.when.test = "none"
    /\ o.expr.form \in IF o.op = "remove" THEN {"none"} ELSE {"literal"}

\* compile_v2_patch_operation, compile_patch_condition
CompilesV2(o) ==
    /\ (o.expr.form # "none") = (o.op \in ValueOps)
    /\ o.index = 0 \/ o.op \in {"array_insert", "array_remove"}
    /\ o.op # "add" => o.when # [test |-> "exists", arg |-> "false"]

Compiles(o, scope) ==
    /\ PointerAllowed(o.path, scope)
    /\ IF o.version = 1 THEN CompilesV1(o) ELSE CompilesV2(o)

\* json_operations_conflict
OperationsConflict(o, q) ==
    /\ PointersConflict(o.path, q.path)
    /\ ~(o.path = q.path /\ o.op \in ArrayOps /\ q.op \in ArrayOps)

\* JsonCondition::matches on the value at the operation's target
ConditionMatches(w, doc, p) ==
    CASE w.test = "none"   -> TRUE
      [] w.test = "exists" -> Exists(doc, p) = (w.arg = "true")
      [] w.test = "type"   -> Exists(doc, p) /\ doc[p].kind = w.arg
      [] w.test = "equals" -> Exists(doc, p) /\ doc[p] = Scalar(w.arg)

\* JsonValueExpression::resolve; Failed when it needs a value that is not there
Resolve(e, doc, p) ==
    IF e.form = "literal" THEN e.value
    ELSE IF ~Exists(doc, p) THEN Failed
    ELSE CASE e.form = "current"  -> SubDoc(doc, p)
           [] e.form = "wrapped"  -> Graft(e.value, <<"x">>, SubDoc(doc, p))
           [] e.form = "template" -> [q \in {<<>>} |-> Scalar("text")]

\* The external json_patch crate, on pointers through objects: the parent of
\* an added value must be an object, a replaced or removed one must exist.
PatchAdd(doc, p, v) ==
    LET parent == Front(p)
    IN IF Exists(doc, parent) /\ doc[parent].kind = "object" THEN Graft(doc, p, v) ELSE Failed

PatchReplace(doc, p, v) == IF Exists(doc, p) THEN Graft(doc, p, v) ELSE Failed

PatchRemove(doc, p) == IF Exists(doc, p) THEN Prune(doc, p) ELSE Failed

\* array_append, array_prepend and array_insert of a scalar, array_remove
ArrayPatch(doc, o, v) ==
    LET old == doc[o.path].items
        item == IF v = Failed THEN "none" ELSE v[<<>>].items[1]
        new == CASE o.op = "array_append"  -> Append(old, item)
                 [] o.op = "array_prepend" -> <<item>> \o old
                 [] o.op = "array_insert"  -> InsertAt(old, o.index + 1, item)
                 [] o.op = "array_remove"  -> RemoveAt(old, o.index + 1)
        fits == /\ o.op = "array_insert" => o.index <= Len(old)
                /\ o.op = "array_remove" => o.index < Len(old)
    IN IF ~Exists(doc, o.path) THEN Failed
       ELSE IF doc[o.path].kind # "array" \/ ~fits THEN Failed
       ELSE [doc EXCEPT ![o.path] = Arr(new)]

\* A shallow merge: every field of v replaces the field of that name.
MergePatch(doc, p, v) ==
    LET fields == {q \in DOMAIN v : Len(q) = 1}
        keep == {x \in DOMAIN doc : ~\E q \in fields : IsPrefix(p \o q, x)}
        new == {p \o q : q \in DOMAIN v \ {<<>>}}
    IN IF ~Exists(doc, p) THEN Failed
       ELSE IF doc[p].kind # "object" \/ v[<<>>].kind # "object" THEN Failed
       ELSE [x \in keep \cup new |->
                IF x \in new THEN v[SubSeq(x, Len(p) + 1, Len(x))] ELSE doc[x]]

\* apply_advanced_patch (a version 1 operation has no condition and literals)
ApplyOperation(doc, o) ==
    LET v == IF o.op \in ValueOps THEN Resolve(o.expr, doc, o.path) ELSE Failed
    IN IF ~ConditionMatches(o.when, doc, o.path) THEN doc
       ELSE IF o.op \in ValueOps /\ v = Failed THEN Failed
       ELSE CASE o.op = "add"     -> PatchAdd(doc, o.path, v)
              [] o.op = "replace" -> PatchReplace(doc, o.path, v)
              [] o.op = "remove"  -> PatchRemove(doc, o.path)
              [] o.op = "merge"   -> MergePatch(doc, o.path, v)
              [] o.op \in ArrayOps -> ArrayPatch(doc, o, v)

\* The reference for a whole plan: stop at the first failure.
ApplyAll(doc, plan) ==
    FoldLeft(LAMBDA d, o : IF d = Failed THEN Failed ELSE ApplyOperation(d, o), doc, plan)

\* removed_path_invalidates_operation: what the defaults remove, an override
\* may only create again.
RemovedInvalidates(p, o) == IsPrefix(p, o.path) /\ (p # o.path \/ o.op # "add")

\* reject_removed_ancestors, reject_sse_removed_ancestors for one event
LayersCompose(defaults, overrides) ==
    \A i \in DOMAIN defaults, j \in DOMAIN overrides :
        defaults[i].op = "remove" => ~RemovedInvalidates(defaults[i].path, overrides[j])

--------------------
VARIABLES
    scope,      \* what the plan is for
    defaults,   \* the template's compiled operations
    overrides,  \* the channel's compiled operations
    pc,         \* "defaults", "overrides", "composed", "applying", "done", "failed", "refused"
    received,   \* the document as it came
    document,   \* the document as the caller sees it
    candidate,  \* the copy the operations run on
    next        \* the next operation of the composed plan

vars == <<scope, defaults, overrides, pc, received, document, candidate, next>>

Plan == defaults \o overrides

Init ==
    /\ scope \in Scopes
    /\ defaults = <<>> /\ overrides = <<>>
    /\ pc = "defaults"
    /\ received = Failed /\ document = Failed /\ candidate = Failed
    /\ next = 1

\* compile_patch takes one more operation into the layer or refuses the
\* document.
CompileOperation(layer, o) ==
    Compiles(o, scope) /\ \A i \in DOMAIN layer : ~OperationsConflict(layer[i], o)

CompileDefault ==
    /\ pc = "defaults" /\ Len(defaults) < MaxDefaults
    /\ \E o \in Operations :
         /\ CompileOperation(defaults, o)
         /\ defaults' = Append(defaults, o)
    /\ UNCHANGED <<scope, overrides, pc, received, document, candidate, next>>

CompileOverride ==
    /\ pc \in {"defaults", "overrides"} /\ Len(overrides) < MaxOverrides
    /\ \E o \in Operations :
         /\ CompileOperation(overrides, o)
         /\ overrides' = Append(overrides, o)
    /\ pc' = "overrides"
    /\ UNCHANGED <<scope, defaults, received, document, candidate, next>>

\* TransformPlan::compose
Compose ==
    /\ pc \in {"defaults", "overrides"}
    /\ Plan # <<>>
    /\ pc' = IF LayersCompose(defaults, overrides) THEN "composed" ELSE "refused"
    /\ UNCHANGED <<scope, defaults, overrides, received, document, candidate, next>>

\* apply_json_patch_value: the operations run on a clone.
Receive ==
    /\ pc = "composed"
    /\ \E d \in Documents[scope] :
         received' = d /\ document' = d /\ candidate' = d
    /\ pc' = "applying"
    /\ UNCHANGED <<scope, defaults, overrides, next>>

\* Mutant of Step: the operations run on the caller's document.
StepInPlace ==
    /\ pc = "applying" /\ next <= Len(Plan)
    /\ LET d == ApplyOperation(candidate, Plan[next])
       IN IF d = Failed THEN pc' = "failed" /\ UNCHANGED <<document, candidate, next>>
          ELSE document' = d /\ candidate' = d /\ next' = next + 1 /\ UNCHANGED pc
    /\ UNCHANGED <<scope, defaults, overrides, received>>

Step ==
    /\ pc = "applying" /\ next <= Len(Plan)
    /\ LET d == ApplyOperation(candidate, Plan[next])
       IN IF d = Failed THEN pc' = "failed" /\ UNCHANGED <<candidate, next>>
          ELSE candidate' = d /\ next' = next + 1 /\ UNCHANGED pc
    /\ UNCHANGED <<scope, defaults, overrides, received, document>>

Commit ==
    /\ pc = "applying" /\ next > Len(Plan)
    /\ document' = candidate
    /\ pc' = "done"
    /\ UNCHANGED <<scope, defaults, overrides, received, candidate, next>>

Next == CompileDefault \/ CompileOverride \/ Compose \/ Receive \/ Step \/ Commit

Spec == Init /\ [][Next]_vars

--------------------
\* What a plan for the scope may not touch: the routed model of a request,
\* the identity of a stream event.
Protected(sc) ==
    CASE sc = "request"   -> {<<"model">>}
      [] sc = "chat"      -> {<<"id">>, <<"model">>, <<"choices">>}
      [] sc = "responses" -> {<<"type">>, <<"response", "id">>, <<"response", "output">>}

\* Whatever operations two accepted documents combine, the model a request is
\* routed and billed by and the identity of a stream event come out as they
\* came in, or the plan fails (transforms/mod.rs validate_pointer,
\* is_immutable_sse_path).
IdentityKept ==
    pc = "done" =>
        \A p \in Protected(scope) :
            /\ Exists(document, p) = Exists(received, p)
            /\ Exists(received, p) => document[p] = received[p]

\* A plan that fails, at whichever operation, leaves the document as it came:
\* nothing half rewritten is sent (transforms/mod.rs apply_json_patch_value).
FailureIsAtomic == pc # "done" => document = received

\* The operations of one document mean the same in any order: the compiler
\* refuses the pairs for which the order would matter (compile_patch,
\* json_operations_conflict), array operations on one array apart.
OrderIsIrrelevant ==
    pc = "applying" /\ next = 1 =>
        \A layer \in {defaults, overrides} :
            (\A i, j \in DOMAIN layer :
                i # j => ~(layer[i].op \in ArrayOps /\ layer[i].path = layer[j].path))
            => ApplyAll(received, Reverse(layer)) = ApplyAll(received, layer)

ReadsCurrent(o) == o.expr.form \in {"current", "wrapped", "template"}

\* Composition is safe for removals: when the template's document only removes
\* fields and neither document fails on its own, the two together do not
\* fail, as long as the channel's document does not read what it replaces
\* (TransformPlan::compose, reject_removed_ancestors).
RemovalsDoNotBreakOverrides ==
    pc = "failed" =>
        \/ \E i \in DOMAIN defaults : defaults[i].op # "remove"
        \/ \E j \in DOMAIN overrides : ReadsCurrent(overrides[j])
        \/ ApplyAll(received, defaults) = Failed
        \/ ApplyAll(received, overrides) = Failed
=============================================================================
