-------------------------- MODULE GatewayShutdown --------------------------
\* How the gateway stops: run_servers of main.rs drains the listeners and
\* the detached Responses WebSocket tasks, which are counted by
\* WebSocketLifecycle (application/proxy/websocket/lifecycle.rs) because
\* hyper forgets a connection once it is upgraded.
\*
\* A connection is one HTTP connection that may become a WebSocket
\* session.  Every atomic load, add and compare-exchange of the lifecycle
\* is a step of its own; the read-modify-write operations are taken in
\* their program order (they are on the targets the gateway is built for).
\* A task that awaits a Notify first creates the Notified future: from
\* then on notify_waiters reaches it, polled or not.
EXTENDS Naturals, FiniteSets, FiniteSetTheorems, TLAPS

CONSTANTS Conns,      \* the connections that may arrive at the public listener
          Listeners,  \* the public listener and, when configured, the Console
          Public      \* the listener that serves Responses WebSockets

ShutdownAssumption == IsFiniteSet(Conns) /\ Public \in Listeners

VARIABLES phase,      \* AtomicU8 of WebSocketLifecycleInner
          active,     \* AtomicUsize of the same
          conn,       \* conn[c]: where the connection or its session stands
          woken,      \* woken[c]: phase_changed reached the Notified of c
          server,     \* server[l]: the task run_server_until of the listener
          main,       \* the program counter of run_servers
          drained     \* drained.notify_waiters() reached the waiter of main

vars == <<phase, active, conn, woken, server, main, drained>>

\* The states of a connection in which a WebSocketSessionGuard exists.
Guarded == {"upgrading", "loop", "arming", "armed", "parked", "forwarding", "leaving"}

\* The states in which an HTTP connection task is still in the JoinSet of its
\* listener: an upgraded socket is in none.
InServer == {"accepted", "checked", "added", "refused", "upgrading"}

ConnStates == {"none", "gone"} \cup Guarded \cup InServer

TypeOK ==
  /\ phase \in {"running", "draining", "forceClosing"}
  /\ active \in 0 .. Cardinality(Conns)
  /\ conn \in [Conns -> ConnStates]
  /\ woken \in [Conns -> BOOLEAN]
  /\ server \in [Listeners -> {"accepting", "draining", "ended", "joined"}]
  /\ main \in {"serving", "begun", "loop", "selecting", "joining", "arming", "armed", "parked",
               "forced", "forcedArming", "forcedArmed", "forcedParked", "stopped", "overrun"}
  /\ drained \in BOOLEAN

Init ==
  /\ phase = "running" /\ active = 0
  /\ conn = [c \in Conns |-> "none"]
  /\ woken = [c \in Conns |-> FALSE]
  /\ server = [l \in Listeners |-> "accepting"]
  /\ main = "serving" /\ drained = FALSE

At(c, from, to) == conn[c] = from /\ conn' = [conn EXCEPT ![c] = to]

--------------------
\* WebSocketLifecycle::reserve and the release of its guard.

\* The listener's accept: serve_connection is spawned.
Accept(c) ==
  /\ server[Public] = "accepting"
  /\ At(c, "none", "accepted")
  /\ UNCHANGED <<phase, active, woken, server, main, drained>>

\* The first load of the phase: a gateway that stops answers 503.
ReserveCheck(c) ==
  /\ At(c, "accepted", IF phase = "running" THEN "checked" ELSE "gone")
  /\ UNCHANGED <<phase, active, woken, server, main, drained>>

ReserveAdd(c) ==
  /\ At(c, "checked", "added")
  /\ active' = active + 1
  /\ UNCHANGED <<phase, woken, server, main, drained>>

Recheck(c) == IF phase = "running" THEN "upgrading" ELSE "refused"

\* The second load of the phase.
ReserveRecheck(c) ==
  /\ At(c, "added", Recheck(c))
  /\ UNCHANGED <<phase, active, woken, server, main, drained>>

\* fetch_sub; the last one reaches a waiter that has created its Notified.
Released ==
  /\ active' = active - 1
  /\ drained' = (drained \/ (/\ active = 1
                            /\ main \in {"armed", "parked", "forcedArmed", "forcedParked"}))

\* The guard is dropped: a reservation refused by the second load, an upgrade
\* that fails (no route, or the connection is lost), or the end of run.
Release(c) ==
  /\ conn[c] \in {"refused", "upgrading", "leaving"}
  /\ conn' = [conn EXCEPT ![c] = "gone"]
  /\ Released
  /\ UNCHANGED <<phase, woken, server, main>>

--------------------
\* ResponsesWebSocketSession::run.

Upgrade(c) ==
  /\ At(c, "upgrading", "loop")
  /\ UNCHANGED <<phase, active, woken, server, main, drained>>

\* The top of the loop and the first check of shutdown_requested: an idle
\* session of a stopping gateway leaves.
AwaitShutdown(c) ==
  /\ At(c, "loop", IF phase = "running" THEN "arming" ELSE "leaving")
  /\ UNCHANGED <<phase, active, woken, server, main, drained>>

\* phase_changed.notified().
ArmShutdown(c) ==
  /\ At(c, "arming", "armed")
  /\ woken' = [woken EXCEPT ![c] = FALSE]
  /\ UNCHANGED <<phase, active, server, main, drained>>

ArmedNext(c) == IF phase = "running" THEN "parked" ELSE "leaving"

AwaitShutdownRecheck(c) ==
  /\ At(c, "armed", ArmedNext(c))
  /\ UNCHANGED <<phase, active, woken, server, main, drained>>

\* The Notified completes: shutdown_requested reads the phase again.
ShutdownWakes(c) ==
  /\ woken[c]
  /\ At(c, "parked", IF phase = "running" THEN "loop" ELSE "leaving")
  /\ UNCHANGED <<phase, active, woken, server, main, drained>>

\* A text message arrives first: is_draining is read once more, then the
\* request is forwarded.
Message(c) ==
  /\ At(c, "parked", IF phase = "running" THEN "forwarding" ELSE "leaving")
  /\ UNCHANGED <<phase, active, woken, server, main, drained>>

\* The client closes, fails or sends a binary message.
ClientCloses(c) ==
  /\ At(c, "parked", "leaving")
  /\ UNCHANGED <<phase, active, woken, server, main, drained>>

\* forward_response_create returns Continue or Close; its own timers bound it.
Forwarded(c) ==
  /\ \E to \in {"loop", "leaving"} : At(c, "forwarding", to)
  /\ UNCHANGED <<phase, active, woken, server, main, drained>>

\* force_requested wins the select and the forward future is dropped.
ForcedOut(c) ==
  /\ phase = "forceClosing"
  /\ At(c, "forwarding", "leaving")
  /\ UNCHANGED <<phase, active, woken, server, main, drained>>

--------------------
\* run_server_until and drain_connections.

\* The watch channel is read, or the accept fails: no connection is accepted
\* any more and those there are get drained.
ServerDrains(l) ==
  /\ server[l] = "accepting" /\ main \notin {"serving", "begun"}
  /\ server' = [server EXCEPT ![l] = "draining"]
  /\ UNCHANGED <<phase, active, conn, woken, main, drained>>

ListenerFails(l) ==
  /\ server[l] = "accepting"
  /\ server' = [server EXCEPT ![l] = "draining"]
  /\ UNCHANGED <<phase, active, conn, woken, main, drained>>

\* join_connections ends when no HTTP connection is left.
ServerEnds(l) ==
  /\ server[l] = "draining"
  /\ l = Public => \A c \in Conns : conn[c] \notin InServer
  /\ server' = [server EXCEPT ![l] = "ended"]
  /\ UNCHANGED <<phase, active, conn, woken, main, drained>>

\* What is left of the HTTP connections when their tasks are aborted: a task
\* in the middle of reserve, which never awaits, runs on; a guard that exists
\* is dropped by Release.
Aborted(c) == IF conn[c] = "accepted" THEN "gone" ELSE conn[c]

\* The grace period of drain_connections passes: the connections are aborted.
ServerAborts(l) ==
  /\ server[l] = "draining"
  /\ server' = [server EXCEPT ![l] = "ended"]
  /\ conn' = IF l = Public THEN [c \in Conns |-> Aborted(c)] ELSE conn
  /\ UNCHANGED <<phase, active, woken, main, drained>>

--------------------
\* run_servers.

\* servers.join_next() returns the tasks that have ended.
Join == server' = [l \in Listeners |-> IF server[l] = "ended" THEN "joined" ELSE server[l]]

\* The signal, or the end of a listener, and then begin_draining:
\* compare_exchange and phase_changed.notify_waiters().
BeginDraining ==
  /\ main = "serving" /\ main' = "begun"
  /\ Join
  /\ phase' = IF phase = "running" THEN "draining" ELSE phase
  /\ woken' = [c \in Conns |-> woken[c] \/ conn[c] \in {"armed", "parked"}]
  /\ UNCHANGED <<active, conn, drained>>

\* shutdown_sender.send(()).
SendShutdown ==
  /\ main = "begun" /\ main' = "loop"
  /\ UNCHANGED <<phase, active, conn, woken, server, drained>>

AllJoined == \A l \in Listeners : server[l] = "joined"

\* The head of the loop loads the count: everything is gone, or select! is entered.
DrainLoop ==
  /\ main = "loop"
  /\ main' = IF AllJoined /\ active = 0 THEN "stopped" ELSE "selecting"
  /\ UNCHANGED <<phase, active, conn, woken, server, drained>>

\* The precondition of the branch wait_for_websocket_shutdown loads it again: the
\* branch is disabled if the last session has gone by now.
DrainSelect ==
  /\ main = "selecting"
  /\ main' = IF active > 0 THEN "arming" ELSE "joining"
  /\ UNCHANGED <<phase, active, conn, woken, server, drained>>

\* The last release fell between the two loads after the last listener had been
\* joined: every branch but sleep_until(deadline) is disabled.
OnlyDeadline == main = "joining" /\ AllJoined

\* drained.notified().
ArmDrain ==
  /\ main \in {"arming", "forcedArming"}
  /\ main' = IF main = "arming" THEN "armed" ELSE "forcedArmed"
  /\ drained' = FALSE
  /\ UNCHANGED <<phase, active, conn, woken, server>>

\* join_next wins the select.
JoinNext ==
  /\ main \in {"joining", "armed", "parked"}
  /\ \E l \in Listeners : server[l] = "ended"
  /\ Join
  /\ main' = "loop"
  /\ UNCHANGED <<phase, active, conn, woken, drained>>

\* Mutant of DrainRecheck: the count is not read again.
DrainRecheckBlind ==
  /\ main \in {"armed", "forcedArmed"}
  /\ main' = IF main = "armed" THEN "parked" ELSE "forcedParked"
  /\ UNCHANGED <<phase, active, conn, woken, server, drained>>

\* wait_drained reads the count again before it awaits.
DrainRecheck ==
  /\ main \in {"armed", "forcedArmed"}
  /\ main' = IF active = 0 THEN (IF main = "armed" THEN "loop" ELSE "stopped")
             ELSE IF main = "armed" THEN "parked" ELSE "forcedParked"
  /\ UNCHANGED <<phase, active, conn, woken, server, drained>>

\* The Notified completes: wait_drained loads the count again and returns to the
\* head of the loop, or arms anew.
DrainWakes ==
  /\ main = "parked"
  /\ drained
  /\ main' = IF active = 0 THEN "loop" ELSE "arming"
  /\ UNCHANGED <<phase, active, conn, woken, server, drained>>

ForcedWakes ==
  /\ main = "forcedParked"
  /\ drained
  /\ main' = IF active = 0 THEN "stopped" ELSE "forced"
  /\ UNCHANGED <<phase, active, conn, woken, server, drained>>

ForcePhase == "forceClosing"

\* The deadline: force_close, then the listeners are aborted with the HTTP
\* connections they hold.
Deadline ==
  /\ main \in {"joining", "armed", "parked"}
  /\ main' = "forced"
  /\ phase' = ForcePhase
  /\ woken' = [c \in Conns |-> woken[c] \/ conn[c] \in {"armed", "parked"}]
  /\ server' = [l \in Listeners |-> "joined"]
  /\ conn' = [c \in Conns |-> Aborted(c)]
  /\ UNCHANGED <<active, drained>>

\* wait_drained under the one-second timeout.
ForcedWait ==
  /\ main = "forced"
  /\ main' = IF active = 0 THEN "stopped" ELSE "forcedArming"
  /\ UNCHANGED <<phase, active, conn, woken, server, drained>>

\* The second passes: run_servers returns with a warning.
ForcedTimeout ==
  /\ main \in {"forcedArmed", "forcedParked"} /\ active > 0
  /\ main' = "overrun"
  /\ UNCHANGED <<phase, active, conn, woken, server, drained>>

--------------------
Session(c) ==
  \/ ReserveCheck(c) \/ ReserveAdd(c) \/ ReserveRecheck(c)
  \/ Upgrade(c) \/ AwaitShutdown(c) \/ ArmShutdown(c) \/ AwaitShutdownRecheck(c) \/ ShutdownWakes(c)
  \/ ForcedOut(c) \/ Release(c)

Server(l) == ServerDrains(l) \/ ServerEnds(l)

Main ==
  \/ SendShutdown \/ DrainLoop \/ DrainSelect \/ ArmDrain \/ JoinNext \/ DrainRecheck
  \/ DrainWakes \/ ForcedWakes \/ ForcedWait

Next ==
  \/ \E c \in Conns : Accept(c) \/ Session(c) \/ Message(c) \/ ClientCloses(c) \/ Forwarded(c)
  \/ \E l \in Listeners : Server(l) \/ ListenerFails(l) \/ ServerAborts(l)
  \/ BeginDraining \/ Main \/ Deadline \/ ForcedTimeout

Spec == Init /\ [][Next]_vars

\* Every task that can run does; nobody has to connect, to send or to close, a
\* response may stream for ever, the signal need not come, and neither deadline
\* is relied on: Timers adds them.
Fairness ==
  /\ \A c \in Conns : WF_vars(Session(c))
  /\ \A l \in Listeners : WF_vars(Server(l))
  /\ WF_vars(Main)

Timers == WF_vars(Deadline \/ ForcedTimeout)

FairSpec == Spec /\ Fairness

--------------------
\* Properties.

\* run_servers returns, and the workers behind it are stopped, only when no
\* session holds a guard: a reservation that raced the end of the drain was
\* turned away by the second load.  (After "overrun" it returned on purpose.)
NoSessionAfterStop ==
  main = "stopped" => \A c \in Conns : conn[c] \notin Guarded

\* The counter never drifts: it is the number of reservations not yet given
\* back, so it neither underflows nor keeps a finished drain waiting.
ActiveExact ==
  active = Cardinality({c \in Conns : conn[c] \in Guarded \cup {"added", "refused"}})

\* Nobody sleeps on a notification that has already been given: run_servers waits
\* for the last release only while a session is counted, and a session waits
\* for the phase to change only while it has not.  A drain whose select! leaves the
\* sessions out, although it may then sleep to its deadline with nothing left to
\* wait for (OnlyDeadline), never sleeps past one: no session holds a guard.
NoMissedWakeup ==
  /\ main \in {"parked", "forcedParked"} /\ active = 0 => drained
  /\ \A c \in Conns : conn[c] = "parked" /\ phase # "running" => woken[c]
  /\ main = "joining" => \A c \in Conns : conn[c] \notin Guarded

--------------------
\* Proofs, for any number of connections and listeners.

\* A reservation is counted from fetch_add to fetch_sub.
Counted == Guarded \cup {"added", "refused"}
Reserved == {c \in Conns : conn[c] \in Counted}

Types ==
  /\ phase \in {"running", "draining", "forceClosing"} /\ active \in Nat
  /\ conn \in [Conns -> ConnStates] /\ woken \in [Conns -> BOOLEAN]
  /\ drained \in BOOLEAN

\* Once run_servers has left its first wait no reservation passes both loads.
PhaseFollows == main # "serving" => phase # "running"

ShutdownInv ==
  Types /\ ActiveExact /\ PhaseFollows /\ NoSessionAfterStop /\ NoMissedWakeup

\* Only finitely many reservations are held.
LEMMA ReservedFinite ==
  ASSUME ShutdownAssumption
  PROVE  /\ IsFiniteSet(Reserved) /\ Cardinality(Reserved) \in Nat
         /\ IsFiniteSet(Reserved') /\ Cardinality(Reserved') \in Nat
<1>1. Reserved \subseteq Conns /\ Reserved' \subseteq Conns BY DEF Reserved
<1> QED BY <1>1, FS_Subset, FS_CardinalityType DEF ShutdownAssumption

\* A step that neither reserves nor releases leaves the count exact.
LEMMA SameReserved ==
  ASSUME ShutdownAssumption, ShutdownInv, active' = active,
         \A c \in Conns : conn'[c] \in Counted <=> conn[c] \in Counted
  PROVE  ActiveExact'
<1>1. Reserved' = Reserved BY DEF Reserved
<1> QED BY <1>1 DEF ShutdownInv, ActiveExact, Reserved, Counted

\* The count changes with the reservations: fetch_add and fetch_sub are the only
\* steps that touch either.
LEMMA StepCount ==
  ASSUME ShutdownAssumption, ShutdownInv, Next PROVE ActiveExact'
<1> USE DEF ShutdownInv, Types
<1>1. ASSUME NEW c \in Conns, ReserveAdd(c) PROVE ActiveExact'
  <2>1. c \notin Reserved /\ Reserved' = Reserved \cup {c}
    BY <1>1 DEF ReserveAdd, At, Reserved, Counted, Guarded
  <2>2. Cardinality(Reserved') = Cardinality(Reserved) + 1 BY <2>1, ReservedFinite, FS_AddElement
  <2> QED BY <1>1, <2>2 DEF ReserveAdd, ActiveExact, Reserved, Counted
<1>2. ASSUME NEW c \in Conns, Release(c) PROVE ActiveExact'
  <2>1. c \in Reserved /\ Reserved' = Reserved \ {c}
    BY <1>2 DEF Release, Reserved, Counted, Guarded
  <2>2. Cardinality(Reserved') = Cardinality(Reserved) - 1
    BY <2>1, ReservedFinite, FS_RemoveElement
  <2> QED BY <1>2, <2>2 DEF Release, Released, ActiveExact, Reserved, Counted
<1>3. ASSUME NEW c \in Conns,
             Accept(c) \/ ReserveCheck(c) \/ ReserveRecheck(c) \/ Upgrade(c) \/ AwaitShutdown(c)
               \/ ArmShutdown(c) \/ AwaitShutdownRecheck(c) \/ ShutdownWakes(c) \/ ForcedOut(c)
               \/ Message(c) \/ ClientCloses(c) \/ Forwarded(c)
      PROVE  ActiveExact'
  <2>1. active' = active
    BY <1>3 DEF Upgrade, AwaitShutdown, ArmShutdown, AwaitShutdownRecheck, ShutdownWakes,
      ForcedOut, Message, ClientCloses, Forwarded, Accept, ReserveCheck, ReserveRecheck
  <2>2. \A d \in Conns : conn'[d] \in Counted <=> conn[d] \in Counted
    BY <1>3 DEF Counted, Guarded, At, Recheck, ArmedNext, Upgrade, AwaitShutdown, ArmShutdown,
      AwaitShutdownRecheck, ShutdownWakes, ForcedOut, Message, ClientCloses, Forwarded, Accept,
      ReserveCheck, ReserveRecheck
  <2> QED BY <2>1, <2>2, SameReserved
<1>4. ASSUME NEW l \in Listeners, Server(l) \/ ListenerFails(l) \/ ServerAborts(l)
      PROVE  ActiveExact'
  <2>1. active' = active BY <1>4 DEF Server, ServerDrains, ServerEnds, ListenerFails, ServerAborts
  <2>2. \A d \in Conns : conn'[d] \in Counted <=> conn[d] \in Counted
    BY <1>4 DEF Counted, Guarded, Aborted, Server, ServerDrains, ServerEnds, ListenerFails,
      ServerAborts
  <2> QED BY <2>1, <2>2, SameReserved
<1>5. ASSUME BeginDraining \/ Main \/ Deadline \/ ForcedTimeout PROVE ActiveExact'
  <2>1. active' = active
    BY <1>5 DEF BeginDraining, Main, Deadline, SendShutdown, DrainLoop, DrainSelect, ArmDrain,
      JoinNext, DrainRecheck, DrainWakes, ForcedWakes, ForcedWait, ForcedTimeout
  <2>2. \A d \in Conns : conn'[d] \in Counted <=> conn[d] \in Counted
    BY <1>5 DEF Counted, Guarded, Aborted, BeginDraining, Main, Deadline, SendShutdown, DrainLoop,
      DrainSelect, ArmDrain, JoinNext, DrainRecheck, DrainWakes, ForcedWakes, ForcedWait,
      ForcedTimeout
  <2> QED BY <2>1, <2>2, SameReserved
<1> QED BY <1>1, <1>2, <1>3, <1>4, <1>5 DEF Next, Session

\* What a connection or its session does preserves the invariant.
LEMMA StepConnection ==
  ASSUME ShutdownAssumption, ShutdownInv, ActiveExact', NEW c \in Conns,
         Accept(c) \/ Session(c) \/ Message(c) \/ ClientCloses(c) \/ Forwarded(c)
  PROVE  ShutdownInv'
<1> USE DEF ShutdownInv
<1>1. main' = main /\ phase' = phase /\ server' = server
  BY DEF Session, Accept, ReserveCheck, ReserveAdd, ReserveRecheck, Release, Upgrade,
    AwaitShutdown, ArmShutdown, AwaitShutdownRecheck, ShutdownWakes, ForcedOut, Message,
    ClientCloses, Forwarded
<1>2. /\ conn' = [conn EXCEPT ![c] = conn'[c]]
      /\ conn'[c] \in ConnStates
  BY DEF Types, Session, At, Recheck, ArmedNext, ConnStates, Guarded, InServer, Accept,
    ReserveCheck, ReserveAdd, ReserveRecheck, Release, Upgrade, AwaitShutdown, ArmShutdown,
    AwaitShutdownRecheck, ShutdownWakes, ForcedOut, Message, ClientCloses, Forwarded
<1>3. active' \in Nat BY ReservedFinite DEF ActiveExact, Reserved, Counted
<1>4. woken' \in [Conns -> BOOLEAN] /\ drained' \in BOOLEAN
  BY DEF Types, Session, Released, Accept, ReserveCheck, ReserveAdd, ReserveRecheck, Release,
    Upgrade, AwaitShutdown, ArmShutdown, AwaitShutdownRecheck, ShutdownWakes, ForcedOut, Message,
    ClientCloses, Forwarded
<1>5. Types' /\ PhaseFollows' BY <1>1, <1>2, <1>3, <1>4 DEF Types, PhaseFollows
<1>6. /\ NoSessionAfterStop'
      /\ main = "joining" => \A d \in Conns : conn'[d] \notin Guarded
  <2> SUFFICES ASSUME main \in {"stopped", "joining"} PROVE conn'[c] \notin Guarded
    BY <1>1, <1>2 DEF NoSessionAfterStop, NoMissedWakeup, Types
  <2>1. phase # "running" /\ conn[c] \notin Guarded
    BY DEF PhaseFollows, NoSessionAfterStop, NoMissedWakeup
  <2> QED
    BY <2>1 DEF Types, Session, At, Recheck, Guarded, Accept, ReserveCheck, ReserveAdd,
      ReserveRecheck, Release, Upgrade, AwaitShutdown, ArmShutdown, AwaitShutdownRecheck,
      ShutdownWakes, ForcedOut, Message, ClientCloses, Forwarded
<1>7. main \in {"parked", "forcedParked"} /\ active' = 0 => drained'
  <2>1. CASE Release(c)
    <3> SUFFICES ASSUME main \in {"parked", "forcedParked"}, active' = 0 PROVE drained' OBVIOUS
    <3>1. active = 1 BY <2>1 DEF Release, Released, Types
    <3>2. drained' = (drained \/ (/\ active = 1
                               /\ main \in {"armed", "parked", "forcedArmed", "forcedParked"}))
      BY <2>1 DEF Release, Released
    <3> QED BY <3>1, <3>2, Zenon
  <2>2. CASE ReserveAdd(c) BY <2>2 DEF ReserveAdd, Types
  <2>3. CASE active' = active /\ drained' = drained BY <2>3 DEF NoMissedWakeup
  <2> QED
    BY <2>1, <2>2, <2>3 DEF Session, Accept, ReserveCheck, ReserveAdd, ReserveRecheck, Release,
      Upgrade, AwaitShutdown, ArmShutdown, AwaitShutdownRecheck, ShutdownWakes, ForcedOut,
      Message, ClientCloses, Forwarded
<1>8. conn'[c] = "parked" /\ phase # "running" => woken'[c]
  BY DEF Types, NoMissedWakeup, Session, At, Recheck, ArmedNext, Accept, ReserveCheck, ReserveAdd,
    ReserveRecheck, Release, Upgrade, AwaitShutdown, ArmShutdown, AwaitShutdownRecheck,
    ShutdownWakes, ForcedOut, Message, ClientCloses, Forwarded
<1>9. \A d \in Conns : d # c => woken'[d] = woken[d] /\ conn'[d] = conn[d]
  BY <1>2 DEF Types, Session, Accept, ReserveCheck, ReserveAdd, ReserveRecheck, Release, Upgrade,
    AwaitShutdown, ArmShutdown, AwaitShutdownRecheck, ShutdownWakes, ForcedOut, Message,
    ClientCloses, Forwarded
<1>10. NoMissedWakeup' BY <1>1, <1>6, <1>7, <1>8, <1>9 DEF NoMissedWakeup
<1> QED BY <1>5, <1>6, <1>10

\* What a listener does preserves the invariant.
LEMMA StepServer ==
  ASSUME ShutdownInv, ActiveExact', NEW l \in Listeners,
         Server(l) \/ ListenerFails(l) \/ ServerAborts(l)
  PROVE  ShutdownInv'
<1> USE DEF ShutdownInv
<1>1. UNCHANGED <<phase, active, woken, main, drained>>
  BY DEF Server, ServerDrains, ServerEnds, ListenerFails, ServerAborts
<1>2. conn' = conn \/ conn' = [c \in Conns |-> Aborted(c)]
  BY DEF Server, ServerDrains, ServerEnds, ListenerFails, ServerAborts
<1>3. \A c \in Conns : conn'[c] = conn[c] \/ conn'[c] = "gone" BY <1>2 DEF Aborted
<1>4. conn' \in [Conns -> ConnStates] BY <1>2 DEF Types, Aborted, ConnStates
<1> QED BY <1>1, <1>3, <1>4 DEF Types, PhaseFollows, NoSessionAfterStop, NoMissedWakeup, Guarded

\* What run_servers does preserves the invariant.
LEMMA StepMain ==
  ASSUME ShutdownInv, ActiveExact', ShutdownAssumption,
         BeginDraining \/ Main \/ Deadline \/ ForcedTimeout
  PROVE  ShutdownInv'
<1> USE DEF ShutdownInv
<1>1. active' = active
  BY DEF BeginDraining, Main, Deadline, SendShutdown, DrainLoop, DrainSelect, ArmDrain, JoinNext,
    DrainRecheck, DrainWakes, ForcedWakes, ForcedWait, ForcedTimeout
<1>2. CASE BeginDraining
  BY <1>1, <1>2 DEF BeginDraining, Types, PhaseFollows, NoSessionAfterStop, NoMissedWakeup
<1>3. CASE Deadline
  <2>1. conn' \in [Conns -> ConnStates] BY <1>3 DEF Deadline, Types, Aborted, ConnStates
  <2>2. \A c \in Conns : conn'[c] = conn[c] \/ conn'[c] = "gone" BY <1>3 DEF Deadline, Aborted
  <2> QED
    BY <1>1, <1>3, <2>1, <2>2 DEF Deadline, ForcePhase, Types, PhaseFollows, NoSessionAfterStop,
      NoMissedWakeup
<1>4. CASE Main \/ ForcedTimeout
  <2>1. UNCHANGED <<phase, conn, woken>> /\ main # "serving" /\ drained' \in BOOLEAN
    BY <1>4 DEF Main, Types, SendShutdown, DrainLoop, DrainSelect, ArmDrain, JoinNext,
      DrainRecheck, DrainWakes, ForcedWakes, ForcedWait, ForcedTimeout
  <2>2. main' \in {"stopped", "joining"} => active = 0
    BY <1>4 DEF Types, Main, SendShutdown, DrainLoop, DrainSelect, ArmDrain, JoinNext,
      DrainRecheck, DrainWakes, ForcedWakes, ForcedWait, ForcedTimeout
  <2>3. active = 0 => \A c \in Conns : conn[c] \notin Guarded
    <3> SUFFICES ASSUME active = 0 PROVE Reserved = {} BY DEF Reserved, Counted
    <3> QED BY ReservedFinite, FS_EmptySet DEF ActiveExact, Reserved, Counted
  <2>4. NoSessionAfterStop' BY <2>1, <2>2, <2>3 DEF NoSessionAfterStop
  <2>5. main' \in {"parked", "forcedParked"} => active # 0
    BY <1>4 DEF Main, SendShutdown, DrainLoop, DrainSelect, ArmDrain, JoinNext, DrainRecheck,
      DrainWakes, ForcedWakes, ForcedWait, ForcedTimeout
  <2>6. main' = "joining" => \A c \in Conns : conn'[c] \notin Guarded BY <2>1, <2>2, <2>3
  <2> QED BY <1>1, <2>1, <2>4, <2>5, <2>6 DEF Types, PhaseFollows, NoMissedWakeup
<1> QED BY <1>2, <1>3, <1>4

\* For any number of connections: the counter of WebSocketLifecycle is exact, and
\* no reservation passes both loads once the drain has begun.
THEOREM ShutdownInvariant ==
  ASSUME ShutdownAssumption PROVE Spec => []ShutdownInv
<1>1. Init => ShutdownInv
  <2> SUFFICES ASSUME Init PROVE ShutdownInv OBVIOUS
  <2>1. Reserved = {} BY DEF Init, Reserved, Counted, Guarded
  <2>2. ActiveExact BY <2>1, FS_EmptySet DEF Init, ActiveExact, Reserved, Counted
  <2> QED
    BY <2>2 DEF Init, ShutdownInv, Types, ConnStates, PhaseFollows, NoSessionAfterStop,
      NoMissedWakeup
<1>2. ShutdownInv /\ [Next]_vars => ShutdownInv'
  <2> SUFFICES ASSUME ShutdownInv, [Next]_vars PROVE ShutdownInv' OBVIOUS
  <2>1. CASE Next BY <2>1, StepCount, StepConnection, StepServer, StepMain DEF Next
  <2>2. CASE UNCHANGED vars
    BY <2>2 DEF vars, ShutdownInv, Types, ActiveExact, PhaseFollows, NoSessionAfterStop,
      NoMissedWakeup
  <2> QED BY <2>1, <2>2
<1> QED BY <1>1, <1>2, PTL DEF Spec

\* run_servers returns from a completed drain only when no session holds a guard,
\* however reservations, drops and aborts race with it.
THEOREM StopsWithoutSessions ==
  ASSUME ShutdownAssumption PROVE Spec => [](ActiveExact /\ NoSessionAfterStop)
<1>1. ShutdownInv => ActiveExact /\ NoSessionAfterStop BY DEF ShutdownInv
<1> QED BY <1>1, ShutdownInvariant, PTL

\* wait_drained and shutdown_requested create their Notified before they read the
\* state again, so that no interleaving loses a notification; and although the
\* select! of run_servers may be entered without its branch for the sessions and
\* sleep to the deadline, it is never one of them that it leaves unawaited.
THEOREM WakeupsNeverMissed ==
  ASSUME ShutdownAssumption PROVE Spec => []NoMissedWakeup
<1>1. ShutdownInv => NoMissedWakeup BY DEF ShutdownInv
<1> QED BY <1>1, ShutdownInvariant, PTL

=============================================================================
