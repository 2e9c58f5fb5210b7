----------------------------- MODULE MCRequests -----------------------------
\* What happens to a request and to a connection, on small instances:
\* admission, the retry loop and its completion guard, the spooled body of
\* an image edit, the WebSocket sessions and their pooled upstream
\* connections, and the shutdown of the gateway.
EXTENDS Admission, TLC

CONSTANTS
  k1, k2,      \* keys
  c1, c2, c3,  \* candidates, channels, connections
  s1, s2,      \* WebSocket sessions
  i1, i2,      \* upstream identities
  absent

VARIABLES
  part,  \* the component that this behaviour exercises
  \* ProxyRequest
  pc, admission, lease, ctx, attempted, attempt, dispatched, answer, stream, client,
  events, journal, reports, up, binding, env,
  \* ImageEditBody
  bodyPhase, bodyClient, edit, bodyAttempt, model, fields, obj, using, received,
  bodyStream, active_files, active_bytes, storage_failures_total, faults,
  \* ResponsesWebSocket
  snap, pool, leased, wsConn, wsPhase, cleared, reloads, sess,
  \* GatewayShutdown
  gatePhase, sessions, conn, woken, server, main, drained

\* A key before and after its limits were tightened.
TwoTerms ==
  { [rpm |-> 2, concurrent |-> Unlimited, quota |-> Unlimited],
    [rpm |-> 2, concurrent |-> 1, quota |-> 2] }

KindMixed == c1 :> "open" @@ c2 :> "plugin" @@ c3 :> "codex"
KindOpen == c1 :> "open" @@ c2 :> "open" @@ c3 :> "codex"

Field(n, s, v, f) == [name |-> n, size |-> s, val |-> v, file |-> f]
ModelField == Field("model", 1, "alias", FALSE)
ImageField == Field("image", 2, "", TRUE)

\* A plain edit, one with an ignored field and a second image, one with a mask,
\* and bodies that are refused at one stage or another.
SomeBodies ==
  { <<ModelField, ImageField>>,
    <<Field("moderation", 1, "auto", FALSE), ImageField, ModelField,
      Field("image[]", 1, "", TRUE)>>,
    <<ImageField, ModelField, Field("mask", 1, "", TRUE)>>,
    <<ModelField, ModelField, ImageField>>, <<ModelField, Field("image", 3, "", TRUE)>>,
    <<ImageField, ImageField, ImageField>>,
    <<ModelField, Field("extra", 1, "", FALSE), ImageField>> }
Policy == [n \in {"model", "image", "image[]", "mask", "moderation", "extra"} |->
  CASE n = "moderation" -> "ignore" [] n = "extra" -> "reject" [] OTHER -> "allow"]

\* Two sockets of one client, or of two.
ClientsOfTwo == s1 :> k1 @@ s2 :> k1
ClientsApart == s1 :> k1 @@ s2 :> k2

\* The channel is re-keyed, the key loses WebSocket, the feature is disabled.
Config(all, on, keys, chan, max) ==
  [on |-> on, key |-> [k \in all |-> k \in keys], chan |-> chan, max |-> max]
RekeyConfigs ==
  {Config({k1}, TRUE, {k1}, c1 :> i1 @@ c2 :> i1, 1),
   Config({k1}, TRUE, {k1}, c1 :> i2 @@ c2 :> i1, 2)}
SwitchConfigs ==
  {Config({k1, k2}, TRUE, {k1, k2}, c1 :> i1, 2),
   Config({k1, k2}, TRUE, {k2}, c1 :> i1, 2),
   Config({k1, k2}, FALSE, {k1, k2}, c1 :> i1, 2),
   Config({k1, k2}, TRUE, {k1, k2}, c1 :> absent, 0)}

\* Candidates that fail and recover, a binding that others move.
Retry == INSTANCE ProxyRequest WITH
  Candidates <- {c1, c2, c3}, Kind <- KindOpen, None <- None, MaxRetries <- 1,
  Retryable <- TRUE, MaxFrames <- 1, MaxEnv <- 2

\* A streamed answer of every kind of connector.
Streaming == INSTANCE ProxyRequest WITH
  Candidates <- {c1, c2, c3}, Kind <- KindMixed, None <- None, MaxRetries <- 1,
  Retryable <- TRUE, MaxFrames <- 3, MaxEnv <- 0

\* Bodies that are kept in memory, spilled, or refused; two I/O faults.
Image == INSTANCE ImageEditBody WITH
  Bodies <- SomeBodies, Disposition <- Policy, UpstreamModels <- {"alias", "real"},
  memory_bytes <- 3, max_body_bytes <- 5, max_file_bytes <- 2,
  MAX_IMAGE_EDIT_IMAGES <- 2, Overhead <- 4, MaxAttempts <- 2, Faults <- 2,
  phase <- bodyPhase, client <- bodyClient, attempt <- bodyAttempt,
  stream <- bodyStream

\* Two sockets of a client while a channel changes its credentials, and a shutdown.
Rekey == INSTANCE ResponsesWebSocket WITH
  Sessions <- {s1, s2}, Clients <- {k1}, ClientOf <- ClientsOfTwo, Chans <- {c1, c2},
  Idents <- {i1, i2}, Absent <- absent, Configs <- RekeyConfigs, MaxRetries <- 1,
  MaxConns <- 2, MaxMessages <- 1, MaxReloads <- 1, Stops <- TRUE, conn <- wsConn,
  phase <- wsPhase

\* Two clients, and a setting that is withdrawn.
Switch == INSTANCE ResponsesWebSocket WITH
  Sessions <- {s1, s2}, Clients <- {k1, k2}, ClientOf <- ClientsApart, Chans <- {c1},
  Idents <- {i1}, Absent <- absent, Configs <- SwitchConfigs, MaxRetries <- 0,
  MaxConns <- 2, MaxMessages <- 2, MaxReloads <- 1, Stops <- FALSE, conn <- wsConn,
  phase <- wsPhase

\* Upgrades that race the two phases of the shutdown.
Shutdown == INSTANCE GatewayShutdown WITH
  Conns <- Requests, Listeners <- {"public", "console"}, Public <- "public",
  phase <- gatePhase, active <- sessions

ASSUME Retry!ProxyAssumption /\ Streaming!ProxyAssumption
ASSUME Rekey!SocketAssumption /\ Switch!SocketAssumption
ASSUME Shutdown!ShutdownAssumption

--------------------
\* The variables of a component that is not exercised.
Off == <<>>

retryVars == <<pc, admission, lease, ctx, attempted, attempt, dispatched, answer, stream, client,
               events, journal, reports, up, binding, env>>
RetryOff ==
  /\ pc = Off /\ admission = Off /\ lease = Off /\ ctx = Off /\ attempted = Off
  /\ attempt = Off /\ dispatched = Off /\ answer = Off /\ stream = Off
  /\ client = Off /\ events = Off /\ journal = Off /\ reports = Off /\ up = Off
  /\ binding = Off /\ env = Off

imageVars == <<bodyPhase, bodyClient, edit, bodyAttempt, model, fields, obj, using, received,
               bodyStream, active_files, active_bytes, storage_failures_total, faults>>
ImageOff ==
  /\ bodyPhase = Off /\ bodyClient = Off /\ edit = Off /\ bodyAttempt = Off
  /\ model = Off /\ fields = Off /\ obj = Off /\ using = Off /\ received = Off
  /\ bodyStream = Off /\ active_files = Off /\ active_bytes = Off
  /\ storage_failures_total = Off /\ faults = Off

rekeyVars == <<snap, pool, leased, wsConn, wsPhase, cleared, reloads, sess>>
RekeyOff ==
  /\ snap = Off /\ pool = Off /\ leased = Off /\ wsConn = Off /\ wsPhase = Off
  /\ cleared = Off /\ reloads = Off /\ sess = Off

shutdownVars == <<gatePhase, sessions, conn, woken, server, main, drained>>
ShutdownOff ==
  /\ gatePhase = Off /\ sessions = Off /\ conn = Off /\ woken = Off /\ server = Off
  /\ main = Off /\ drained = Off

allVars == <<part, vars, retryVars, imageVars, rekeyVars, shutdownVars>>

SuiteInit ==
  \/ /\ part = "admission" /\ Init /\ RetryOff /\ ImageOff /\ RekeyOff
     /\ ShutdownOff
  \/ /\ part = "retry" /\ Retry!Init /\ Init /\ ImageOff /\ RekeyOff /\ ShutdownOff
  \/ /\ part = "stream" /\ Streaming!Init /\ Init /\ ImageOff /\ RekeyOff
     /\ ShutdownOff
  \/ /\ part = "image" /\ Image!Init /\ Init /\ RetryOff /\ RekeyOff /\ ShutdownOff
  \/ /\ part = "rekey" /\ Rekey!Init /\ Init /\ RetryOff /\ ImageOff /\ ShutdownOff
  \/ /\ part = "switch" /\ Switch!Init /\ Init /\ RetryOff /\ ImageOff
     /\ ShutdownOff
  \/ /\ part = "shutdown" /\ Shutdown!Init /\ Init /\ RetryOff /\ ImageOff
     /\ RekeyOff

SuiteNext ==
  \/ /\ part = "admission" /\ Next
     /\ UNCHANGED <<part, retryVars, imageVars, rekeyVars, shutdownVars>>
  \/ /\ part = "retry" /\ Retry!Next
     /\ UNCHANGED <<part, vars, imageVars, rekeyVars, shutdownVars>>
  \/ /\ part = "stream" /\ Streaming!Next
     /\ UNCHANGED <<part, vars, imageVars, rekeyVars, shutdownVars>>
  \/ /\ part = "image" /\ Image!Next
     /\ UNCHANGED <<part, vars, retryVars, rekeyVars, shutdownVars>>
  \/ /\ part = "rekey" /\ Rekey!Next
     /\ UNCHANGED <<part, vars, retryVars, imageVars, shutdownVars>>
  \/ /\ part = "switch" /\ Switch!Next
     /\ UNCHANGED <<part, vars, retryVars, imageVars, shutdownVars>>
  \/ /\ part = "shutdown" /\ Shutdown!Next
     /\ UNCHANGED <<part, vars, retryVars, imageVars, rekeyVars>>

SuiteSpec == SuiteInit /\ [][SuiteNext]_allVars

--------------------
\* The requests of a key, and the connections, do the same.
Interchangeable == Permutations(Requests)

\* A request ends with one event that says what happened and bills the attempt
\* that answered, no candidate is asked twice, and the health reports are true.
RequestsSound ==
  /\ part = "retry" => Retry!RequestsSound
  /\ part = "stream" => Streaming!RequestsSound

\* A session stays bound to its channel when an attempt that another request
\* has overtaken fails.
SessionKept ==
  [][/\ part = "retry" => Retry!StickyKept
     /\ part = "stream" => Streaming!StickyKept]_allVars

\* What requests share: whatever is dropped, swept and created again, a key is
\* admitted at most twice its rate in any window; the body of an image edit is
\* replayed exactly, within its limits, and what it occupies is given back;
\* pooled upstream connections belong to the current credentials, are leased
\* exactly as often as they are counted and carry nobody else's state; the
\* number of sessions is exact, none is opened after the shutdown was forced,
\* and nobody sleeps on a notification that was already given.
ConnectionsSound ==
  /\ part = "admission" => RateHolds
  /\ part = "image" =>
       /\ Image!MemoryBounded /\ Image!SpoolAccounted /\ Image!ReplayExact
       /\ Image!WireIsAllowed /\ Image!FieldsAreOnTheWire
  /\ part = "rekey" => Rekey!SocketsSound
  /\ part = "switch" => Switch!SocketsSound
  /\ part = "shutdown" => /\ Shutdown!ActiveExact /\ Shutdown!NoSessionAfterStop
                           /\ Shutdown!NoMissedWakeup
=============================================================================
