------------------------- MODULE ResponsesWebSocket -------------------------
\* The Responses WebSocket proxy (application/proxy/websocket.rs) and the
\* pool of upstream connections (upstream/websocket.rs).
\*
\* A session is one downstream socket; every response.create on it is a
\* logical request of its own, authenticated against a fresh snapshot and
\* routed anew.  An upstream connection is pinned for one request and goes
\* back to the pool only after a clean terminal event, because the state a
\* previous_response_id refers to lives in it.  Reloads replace what the
\* pool permits and then the snapshot; the process may begin to drain or
\* force the sessions to close at any await.
\*
\* A channel's connectivity (connector, credential and access revisions,
\* network policy, plugin generation) is one identity of Idents; what a
\* pool key adds to it is the client: API key and identity headers.
EXTENDS Integers, FiniteSets, Sequences

CONSTANTS Sessions, Clients, ClientOf,  \* ClientOf[s]: key and identity of s
          Chans, Idents, Absent,        \* Absent: no WebSocket candidate
          Configs,                      \* [on, key, chan, max] snapshots
          MaxRetries,
          MaxConns, MaxMessages, MaxReloads, Stops  \* bounds of the instance

NoConn == 0

ConfigSpace == [on: BOOLEAN, key: [Clients -> BOOLEAN], chan: [Chans -> Idents \cup {Absent}],
                max: Nat]

\* Finitely many sockets, each of a client, and snapshots that say something of
\* every client and channel.
SocketAssumption ==
  /\ IsFiniteSet(Sessions) /\ ClientOf \in [Sessions -> Clients]
  /\ Configs \subseteq ConfigSpace

VARIABLES snap,      \* the published snapshot
          pool,      \* [cfg, idle]: what the pool permits and its idle queue
          leased,    \* leased_connections
          conn,      \* conn[i]: the upstream connections made so far
          phase,     \* of the WebSocket lifecycle
          cleared,   \* begin/force_websocket_shutdown has emptied the pool
          reloads,   \* reloads started; a reload is pending while pool.cfg # snap
          sess       \* sess[s]: the session and its current request

vars == <<snap, pool, leased, conn, phase, cleared, reloads, sess>>

Key(client, c, ident) == [client |-> client, chan |-> c, ident |-> ident]
\* A connection: its key, whether a response is unfinished on it, the client
\* whose responses it has completed, and whether the peer, the idle timeout or
\* the maximum age has ended it.
Conns == 1 .. Len(conn)
Fresh(key) == [key |-> key, busy |-> FALSE, served |-> FALSE, ended |-> FALSE]

\* The request of a session: the snapshot it holds, previous_response_id, the
\* candidate, the ones tried, the retries counted, the preference hit and
\* whether its completion guard is open.
NoRequest == [cfg |-> CHOOSE g \in Configs : TRUE, prev |-> FALSE, cand |-> Absent, tried |-> {},
              retries |-> 0, hit |-> FALSE, open |-> FALSE]

Init ==
  /\ snap \in Configs
  /\ pool = [cfg |-> snap, idle |-> <<>>]
  /\ leased = 0 /\ conn = <<>>
  /\ phase = "running" /\ cleared = FALSE /\ reloads = 0
  /\ sess = [s \in Sessions |-> [pc |-> "recv", next |-> "recv", msgs |-> 0, pinned |-> NoConn, reusable |-> FALSE,
                                 events |-> 0, sends |-> 0, req |-> NoRequest]]

--------------------
\* The pool.

\* Mutant of Permits: the identity of the channel is not compared.
PermitsAnyIdentity(cfg, key) == cfg.key[key.client] /\ cfg.chan[key.chan] # Absent

Permits(cfg, key) == cfg.key[key.client] /\ cfg.chan[key.chan] = key.ident

\* What a queue retains: its items in S, in their order.
Place(P, n) == Cardinality({m \in P : m <= n})
Nth(P, i) == CHOOSE n \in P : Place(P, n) = i
Retained(q, S) ==
  LET P == {n \in 1 .. Len(q) : q[n] \in S}
  IN  [i \in 1 .. Cardinality(P) |-> q[Nth(P, i)]]

\* prune_idle: closed, idle for too long, or too old.
Pruned(idle) == Retained(idle, {i \in Conns : ~conn[i].ended})

\* trim_to_capacity drops the oldest.
Trimmed(idle, max) == SubSeq(idle, Len(idle) - (IF Len(idle) < max THEN Len(idle) ELSE max) + 1, Len(idle))

\* The newest idle connection of this key, or NoConn.
Newest(idle, key) ==
  LET found == {n \in 1 .. Len(idle) : conn[idle[n]].key = key}
  IN  IF found = {} THEN NoConn ELSE idle[CHOOSE n \in found : \A m \in found : m <= n]

Acquired(key) ==
  IF pool.cfg.on /\ Permits(pool.cfg, key) THEN Newest(Pruned(pool.idle), key) ELSE NoConn

\* preferred_candidate: the newest idle connection of the client, whatever the
\* rest of its key.
Preferred(client) ==
  LET idle == Pruned(pool.idle)
      found == {n \in 1 .. Len(idle) : conn[idle[n]].key.client = client}
  IN  IF ~pool.cfg.on \/ found = {} THEN Absent
      ELSE conn[idle[CHOOSE n \in found : \A m \in found : m <= n]].key.chan

\* release: discarded, or it replaces what the pool holds for its key.
Kept(i) ==
  LET idle == Pruned(pool.idle)
  IN  IF \/ ~pool.cfg.on \/ ~Permits(pool.cfg, conn[i].key) \/ pool.cfg.max = 0 \/ conn[i].ended
      THEN idle
      ELSE Trimmed(Append(Retained(idle, {j \in Conns : conn[j].key # conn[i].key}), i), pool.cfg.max)

\* reconcile: the idle connections the new snapshot no longer permits go.
Reconciled(cfg) ==
  Trimmed(Retained(Pruned(pool.idle), {i \in Conns : cfg.on /\ Permits(cfg, conn[i].key)}), cfg.max)

Reconcile ==
  /\ reloads < MaxReloads /\ pool.cfg = snap
  /\ \E cfg \in Configs \ {snap} : pool' = [cfg |-> cfg, idle |-> Reconciled(cfg)]
  /\ reloads' = reloads + 1
  /\ UNCHANGED <<snap, leased, conn, phase, cleared, sess>>

\* The end of ControlPlaneCoordinator::publish.
ReplaceSnapshot ==
  /\ snap # pool.cfg
  /\ snap' = pool.cfg
  /\ UNCHANGED <<pool, leased, conn, phase, cleared, reloads, sess>>

\* The reaper task.
Reap ==
  /\ Pruned(pool.idle) # pool.idle
  /\ pool' = [pool EXCEPT !.idle = Trimmed(Pruned(pool.idle), pool.cfg.max)]
  /\ UNCHANGED <<snap, leased, conn, phase, cleared, reloads, sess>>

\* A connection ends by itself: closed by the peer, or past one of its ages.
ConnEnds(i) ==
  /\ ~conn[i].ended
  /\ conn' = [conn EXCEPT ![i].ended = TRUE]
  /\ UNCHANGED <<snap, pool, leased, phase, cleared, reloads, sess>>

--------------------
\* Shutdown.

BeginDraining ==
  /\ Stops /\ phase = "running" /\ phase' = "draining" /\ cleared' = FALSE
  /\ UNCHANGED <<snap, pool, leased, conn, reloads, sess>>

ForceClose ==
  /\ phase = "draining" /\ cleared /\ phase' = "forceClosing" /\ cleared' = FALSE
  /\ UNCHANGED <<snap, pool, leased, conn, reloads, sess>>

\* clear_websockets, after either.
ClearPool ==
  /\ phase # "running" /\ ~cleared
  /\ cleared' = TRUE
  /\ pool' = [pool EXCEPT !.idle = <<>>]
  /\ UNCHANGED <<snap, leased, conn, phase, reloads, sess>>

--------------------
\* ResponsesWebSocketSession::run and forward_response_create.

Set(s, r) == sess' = [sess EXCEPT ![s] = r]

\* The completion guard finishes the log event of the request, once.
Finished(r) == [r EXCEPT !.events = r.events + (IF r.req.open THEN 1 ELSE 0), !.req = NoRequest]

\* The session goes on at p with i pinned, or nothing; not reusable before a
\* clean terminal event.
Pinned(r, p, i) == [r EXCEPT !.pc = p, !.pinned = i, !.reusable = FALSE]

\* release_pinned reads the phase; a reusable connection then goes to the pool
\* in a step of its own, any other is discarded.
Releasing(r, then) ==
  IF r.pinned = NoConn THEN [r EXCEPT !.pc = then]
  ELSE IF r.reusable /\ phase = "running" THEN [r EXCEPT !.pc = "release", !.next = then]
  ELSE Pinned(r, then, NoConn)

\* discard_leased, when Releasing let the connection go.
Dropped(r, r2) == IF r.pinned # NoConn /\ r2.pinned = NoConn THEN leased - 1 ELSE leased

Return(s, r, then) ==
  LET r2 == Releasing(r, then)
  IN  Set(s, r2) /\ leased' = Dropped(r, r2)

\* The second half of release_pinned: UpstreamWebSocketPool::release.
ReleaseToPool(s) ==
  /\ sess[s].pc = "release"
  /\ Set(s, Pinned(sess[s], sess[s].next, NoConn))
  /\ pool' = [pool EXCEPT !.idle = Kept(sess[s].pinned)]
  /\ leased' = leased - 1
  /\ UNCHANGED <<snap, conn, phase, cleared, reloads>>

\* A text message: the snapshot is taken, the key authenticated, the request
\* admitted and parsed.  The refusals here are not logged and close.
Receive(s) ==
  /\ sess[s].pc = "recv" /\ sess[s].msgs < MaxMessages /\ phase = "running"
  /\ \E prev \in BOOLEAN, accepted \in BOOLEAN :
       /\ accepted => snap.on /\ snap.key[ClientOf[s]]
       /\ Set(s, [sess[s] EXCEPT !.pc = IF accepted THEN "route" ELSE "closing", !.msgs = sess[s].msgs + 1,
                    !.events = 0, !.sends = 0,
                    !.req = IF accepted THEN [NoRequest EXCEPT !.cfg = snap, !.prev = prev] ELSE NoRequest])
  /\ UNCHANGED <<snap, pool, leased, conn, phase, cleared, reloads>>

\* The candidates a selection may return: WebSocket channels of the held
\* snapshot that are healthy and not excluded.  Health is any subset.
Selectable(r, up) == {c \in up : r.cfg.chan[c] # Absent /\ c \notin r.tried}

\* select_websocket_route: the preferred candidate if it is selectable.
Choice(r, up, pref) == IF pref \in Selectable(r, up) THEN {pref} ELSE Selectable(r, up)

PrevRoutable(prev, hit) == prev => hit

\* The first selection.  Without a candidate the request is logged at once; a
\* previous_response_id answers "not found" and goes on, as it does when the
\* candidate is not the preferred one.  A model nobody routes is logged and
\* closes, a log that does not admit just closes.
RouteFirst(s) ==
  LET r == sess[s]
      pref == Preferred(ClientOf[s])
  IN  /\ r.pc = "route"
      /\ pool' = [pool EXCEPT !.idle = Pruned(pool.idle)]
      /\ \E up \in SUBSET Chans :
           \/ /\ Selectable(r.req, up) = {}
              /\ Return(s, [r EXCEPT !.events = 1, !.req = NoRequest], IF r.req.prev THEN "recv" ELSE "closing")
           \/ \E events \in {0, 1} :
                Set(s, [r EXCEPT !.pc = "closing", !.events = events, !.req = NoRequest]) /\ UNCHANGED leased
           \/ \E c \in Choice(r.req, up, pref) :
                LET routed == [r.req EXCEPT !.cand = c, !.tried = {c}, !.hit = (c = pref), !.open = TRUE]
                IN  IF PrevRoutable(r.req.prev, c = pref)
                    THEN Set(s, [r EXCEPT !.pc = "attempt", !.req = routed]) /\ UNCHANGED leased
                    ELSE Return(s, Finished([r EXCEPT !.req = routed]), "recv")
      /\ UNCHANGED <<snap, conn, phase, cleared, reloads>>

\* Another candidate is tried, as the n-th retry.
Onto(q, c, n) ==
  [q EXCEPT !.cand = c, !.tried = q.tried \cup {c}, !.retries = n, !.hit = FALSE]

PinnedKey(r, s) == Key(ClientOf[s], r.req.cand, r.req.cfg.chan[r.req.cand])

\* connectors.prepare or prepare_upstream_attempt fails: nothing was sent.  The
\* request is refused, or, unless it is bound to its candidate, routed again.
PrepareFails(s) ==
  LET r == sess[s]
  IN  /\ r.pc = "attempt"
      /\ \/ r.req.prev /\ Return(s, Finished(r), "recv")
         \/ Return(s, Finished(r), "closing")
         \/ /\ ~r.req.prev /\ ~r.req.hit /\ UNCHANGED leased
            /\ \E c \in Selectable(r.req, Chans) :
                 Set(s, [r EXCEPT !.req = Onto(r.req, c, r.req.retries)])
      /\ UNCHANGED <<snap, pool, conn, phase, cleared, reloads>>

\* Nothing idle has the key: a previous_response_id is not found, any other
\* request opens a connection.
NoPooled(s, r) ==
  IF r.req.prev THEN Return(s, Finished(r), "recv")
  ELSE Set(s, [r EXCEPT !.pc = "connect"]) /\ UNCHANGED leased

\* The attempt is prepared: a pooled connection of exactly this key is taken.
Attempt(s) ==
  LET r == sess[s]
      i == Acquired(PinnedKey(r, s))
  IN  /\ r.pc = "attempt"
      /\ \/ /\ i # NoConn
            /\ pool' = [pool EXCEPT !.idle = Retained(Pruned(pool.idle), Conns \ {i})]
            /\ leased' = leased + 1
            /\ Set(s, Pinned(r, "send", i))
         \/ /\ i = NoConn
            /\ pool' = [pool EXCEPT !.idle = Pruned(pool.idle)]
            /\ NoPooled(s, r)
      /\ UNCHANGED <<snap, conn, phase, cleared, reloads>>

\* connect_upstream_websocket succeeds with the configuration the request
\* holds, however old it is.
Connect(s) ==
  LET r == sess[s]
  IN  /\ r.pc = "connect" /\ Len(conn) < MaxConns
      /\ conn' = Append(conn, Fresh(PinnedKey(r, s)))
      /\ leased' = leased + 1
      /\ Set(s, Pinned(r, "send", Len(conn) + 1))
      /\ UNCHANGED <<snap, pool, phase, cleared, reloads>>

\* The handshake fails: refused by the upstream, or another candidate while
\* retries are left; a candidate that could not be prepared is not one of them.
ConnectFails(s) ==
  LET r == sess[s]
  IN  /\ r.pc = "connect"
      /\ \/ Set(s, [Finished(r) EXCEPT !.pc = "closing"])
         \/ /\ r.req.retries < MaxRetries
            /\ \E c \in Selectable(r.req, Chans) :
                 Set(s, [r EXCEPT !.pc = "attempt", !.req = Onto(r.req, c, r.req.retries + 1)])
      /\ UNCHANGED <<snap, pool, leased, conn, phase, cleared, reloads>>

\* The request is written, or the write fails or times out: it is never sent
\* again, on this connection or another.
Send(s) ==
  LET r == sess[s]
      sent == [r EXCEPT !.sends = r.sends + 1]
  IN  /\ r.pc = "send"
      /\ conn' = [conn EXCEPT ![r.pinned].busy = TRUE]
      /\ \/ Set(s, [sent EXCEPT !.pc = "relay"]) /\ UNCHANGED leased
         \/ Return(s, Finished(sent), "gone")
      /\ UNCHANGED <<snap, pool, phase, cleared, reloads>>

Reusable(terminal) == terminal = "completed"
Completed(k) == [k EXCEPT !.busy = FALSE, !.served = TRUE]

\* relay_upstream_response reads a terminal event: completed, failed or
\* incomplete, or an error that says the upstream lost the session's state.
Terminal(s) ==
  LET r == sess[s]
  IN  /\ r.pc = "relay"
      /\ \E t \in {"completed", "failed", "stateLost"} :
           /\ conn' = IF t = "completed"
                      THEN [conn EXCEPT ![r.pinned] = Completed(conn[r.pinned])] ELSE conn
           /\ Return(s, Finished([r EXCEPT !.reusable = Reusable(t)]), "recv")
      /\ UNCHANGED <<snap, pool, phase, cleared, reloads>>

\* Anything else that ends the relay: the upstream closes, fails, is silent
\* for too long or sends what cannot be forwarded; the client closes or sends a
\* second message.
RelayBreaks(s) ==
  /\ sess[s].pc = "relay"
  /\ Return(s, Finished([sess[s] EXCEPT !.reusable = FALSE]), "gone")
  /\ UNCHANGED <<snap, pool, conn, phase, cleared, reloads>>

\* force_requested wins the select around forward_response_create: the future
\* is dropped at one of its awaits and the guard records a cancellation.
Force(s) ==
  /\ phase = "forceClosing"
  /\ sess[s].pc \in {"connect", "send", "relay"}
  /\ Set(s, [Finished(sess[s]) EXCEPT !.pc = "closing"])
  /\ UNCHANGED <<snap, pool, leased, conn, phase, cleared, reloads>>

\* The end of run: what is still pinned is released.
Leave(s) ==
  /\ sess[s].pc \in {"closing", "recv"}    \* the client leaves, or the gateway stops
  /\ Return(s, sess[s], "gone")
  /\ UNCHANGED <<snap, pool, conn, phase, cleared, reloads>>

Next ==
  \/ Reconcile \/ ReplaceSnapshot \/ Reap \/ BeginDraining \/ ForceClose \/ ClearPool
  \/ \E i \in Conns : ConnEnds(i)
  \/ \E s \in Sessions :
       \/ ReleaseToPool(s) \/ Receive(s) \/ RouteFirst(s) \/ PrepareFails(s) \/ Attempt(s)
       \/ Connect(s) \/ ConnectFails(s) \/ Send(s) \/ Terminal(s) \/ RelayBreaks(s)
       \/ Force(s) \/ Leave(s)

Spec == Init /\ [][Next]_vars

--------------------
\* Properties.

\* The pool holds only what its configuration permits, one connection per key
\* and no more than its capacity - also when a connection comes back after a
\* reload replaced the channel it was opened for.
PoolCurrent ==
  /\ \A n \in 1 .. Len(pool.idle) :
       LET k == conn[pool.idle[n]].key
       IN  pool.cfg.on /\ pool.cfg.key[k.client] /\ pool.cfg.chan[k.chan] = k.ident
  /\ Len(pool.idle) <= pool.cfg.max

OnePerKey ==
  \A m, n \in 1 .. Len(pool.idle) : conn[pool.idle[m]].key = conn[pool.idle[n]].key => m = n

\* leased_connections is the number of connections in the sessions' hands, on
\* every path out of a request, and none is held by two or also idle.
LeasedExact ==
  /\ leased = Cardinality({s \in Sessions : sess[s].pinned # NoConn})
  /\ \A s, t \in Sessions : sess[s].pinned # NoConn /\ s # t => sess[s].pinned # sess[t].pinned
  /\ \A s \in Sessions, n \in 1 .. Len(pool.idle) : pool.idle[n] # sess[s].pinned

\* A connection with an unfinished response is never offered again: the next
\* client would read the rest of it.
IdleQuiet == \A n \in 1 .. Len(pool.idle) : ~conn[pool.idle[n]].busy

\* A previous_response_id only travels over a connection that has completed a
\* response of the same client, and no connection carries two clients.
StateStaysHome ==
  \A s \in Sessions :
    sess[s].pc \in {"send", "relay"} =>
      LET k == conn[sess[s].pinned]
      IN  k.key.client = ClientOf[s] /\ (sess[s].req.prev => k.served)

\* A request is written upstream at most once, and when the session waits for
\* the next one (or is gone) it has left exactly one log event, unless it was
\* refused before admission (then none).
SentOnce ==
  \A s \in Sessions :
    /\ sess[s].sends <= 1
    /\ sess[s].events <= 1
    /\ sess[s].pc \in {"recv", "gone", "closing"} => ~sess[s].req.open

\* No message starts with a connection still pinned by the one before it, so
\* the client's preference comes from the pool alone.
NothingPinnedBetween ==
  \A s \in Sessions : sess[s].pc = "recv" => sess[s].pinned = NoConn

\* What the pool and the sessions promise each other, together.
SocketsSound ==
  /\ PoolCurrent /\ OnePerKey /\ LeasedExact /\ IdleQuiet
  /\ StateStaysHome /\ SentOnce /\ NothingPinnedBetween

--------------------
\* The inductive invariant behind them.

KeySpace == [client: Clients, chan: Chans, ident: Idents \cup {Absent}]
Connection == [key: KeySpace, busy: BOOLEAN, served: BOOLEAN, ended: BOOLEAN]
Request == [cfg: Configs, prev: BOOLEAN, cand: Chans \cup {Absent}, tried: SUBSET Chans,
            retries: Nat, hit: BOOLEAN, open: BOOLEAN]
Places == {"recv", "route", "attempt", "connect", "send", "relay", "release", "closing", "gone"}
Session == [pc: Places, next: {"recv", "closing", "gone"}, msgs: Nat, pinned: Nat,
            reusable: BOOLEAN, events: Nat, sends: Nat, req: Request]

SocketTypes ==
  /\ snap \in Configs /\ pool \in [cfg: Configs, idle: Seq(Nat)]
  /\ conn \in Seq(Connection)
  /\ phase \in {"running", "draining", "forceClosing"}

\* The idle connections: each is there once, for the key it has alone, under what
\* the pool permits, and has completed whatever was asked of it.
Items(q) == {q[n] : n \in 1 .. Len(q)}
Distinct(q) == \A m, n \in 1 .. Len(q) : q[m] = q[n] => m = n
Idle(i) ==
  /\ i \in Conns /\ ~conn[i].busy /\ conn[i].served
  /\ pool.cfg.on /\ Permits(pool.cfg, conn[i].key)
PoolInv ==
  /\ Distinct(pool.idle) /\ Len(pool.idle) <= pool.cfg.max
  /\ \A i \in Items(pool.idle) : Idle(i)
  /\ \A i, j \in Items(pool.idle) : conn[i].key = conn[j].key => i = j

\* What a request has done and still owes at each point.
Working == {"attempt", "connect", "send", "relay"}
Progress(r) ==
  /\ r.pc \in {"recv", "route", "attempt", "connect", "gone"} => r.pinned = NoConn
  /\ r.pc \in {"send", "relay", "release"} => r.pinned # NoConn
  /\ r.reusable <=> r.pc = "release"
  /\ r.pc \in Working <=> r.req.open
  /\ r.pc \in {"attempt", "connect", "send", "relay"} => r.req.cand \in Chans
  /\ r.pc \in {"route", "attempt", "connect", "send"} => r.sends = 0
  /\ r.pc \in Working \cup {"route"} => r.events = 0
  /\ r.pc = "connect" => ~r.req.prev
  /\ r.sends <= 1 /\ r.events <= 1

\* What is pinned is the session's own, and good for what was asked.
Pinning(s, r) ==
  r.pinned # NoConn =>
    /\ r.pinned \in Conns /\ r.pinned \notin Items(pool.idle)
    /\ conn[r.pinned].key.client = ClientOf[s]
    /\ r.pc \in {"send", "relay"} /\ r.req.prev => conn[r.pinned].served
    /\ r.reusable => conn[r.pinned].served /\ ~conn[r.pinned].busy

Holders == {s \in Sessions : sess[s].pinned # NoConn}

SocketsInv ==
  /\ SocketTypes /\ PoolInv /\ sess \in [Sessions -> Session]
  /\ \A s \in Sessions : Progress(sess[s]) /\ Pinning(s, sess[s])
  /\ \A s, t \in Holders : sess[s].pinned = sess[t].pinned => s = t
  /\ leased = Cardinality(Holders)
=============================================================================
