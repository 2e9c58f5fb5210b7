-------------------------- MODULE SqliteOwnership ---------------------------
\* How a process claims the SQLite database file, src/persistence/sqlite/
\* {ownership,mod,migrations}.rs.  A claim locks the directory and the
\* database file (flock, kept until the process exits), reads or creates
\* the identity marker beside it and makes it durable; then SQLite opens
\* the file BY NAME, the identity is written into it, the schema is
\* installed in one transaction and the process serves.
\*
\* Faults: a process dies anywhere and its page-cache writes survive; the
\* power fails and what was not synced may be gone; an operator moves
\* another directory, database or marker to the path while it is claimed.
\* A file is named by the generation of its inode.  Moving the original
\* back between two checks is outside what the checks can see and is not
\* modelled.
EXTENDS Integers

CONSTANTS
    Processes,      \* processes that may open the path
    Tasks,          \* request tasks that write
    ProcessOf,      \* [Tasks -> Processes]
    Migrations,     \* [Processes -> Nat]: length of the binary's manifest
    MaxIds,         \* bound: identities generated
    MaxReplaced     \* bound: operator replacements

Nothing == "none"
Absent == -1        \* no marker file
Partial == -2       \* marker file created, text incomplete
Foreign == 99       \* identity of a database from elsewhere
Parts == {"dir", "db", "marker"}
Generations == 1..(MaxReplaced + 1)

OwnershipAssumption ==
    /\ ProcessOf \in [Tasks -> Processes] /\ Migrations \in [Processes -> Nat]
    /\ Nothing \notin Processes
    /\ MaxIds \in Nat /\ MaxReplaced \in Nat

VARIABLES
    at,             \* generations of the directory, database and marker at the path
    content,        \* content[g]: identity and history stored in database file g
    marker,         \* marker file: text seen by readers, text on stable storage
    holder,         \* holder of the flock on directory or database g
    proc,           \* proc[p]: the process's claim
    conn,           \* conn[p]: database file its connections are open on, 0 if none
    tx,             \* tx[t]: "idle" | "verified" | "begun"
    late,           \* late[p]: commits into a file no longer at the path
    ids             \* identities generated so far

vars == <<at, content, marker, holder, proc, conn, tx, late, ids>>

NoClaim == [pc |-> "dead", held |-> [q \in Parts |-> 0], id |-> 0, fenced |-> FALSE]
Fresh == [id |-> 0, history |-> 0]

Claims ==
    [pc: {"creating", "reading", "writing", "claimed", "open", "ready", "closed"},
     held: [Parts -> Generations], id: 1..MaxIds, fenced: BOOLEAN]
Databases == [id: 0..MaxIds \cup {Foreign}, history: Nat]

TypeOK ==
    /\ at \in [Parts -> Generations]
    /\ content \in [Generations -> Databases]
    /\ marker \in [text: {Absent, Partial} \cup 1..MaxIds, disk: {Absent, Partial} \cup 1..MaxIds]
    /\ holder \in [{"dir", "db"} \X Generations -> Processes \cup {Nothing}]
    /\ proc \in [Processes -> Claims \cup {NoClaim}]
    /\ conn \in [Processes -> {0} \cup Generations]
    /\ tx \in [Tasks -> {"idle", "verified", "begun"}]
    /\ late \in [Processes -> Nat] /\ ids \in 0..MaxIds

Init ==
    /\ at = [q \in Parts |-> 1]
    /\ content = [g \in Generations |-> Fresh]
    /\ marker = [text |-> Absent, disk |-> Absent]
    /\ holder = [l \in {"dir", "db"} \X Generations |-> Nothing]
    /\ proc = [p \in Processes |-> NoClaim]
    /\ conn = [p \in Processes |-> 0]
    /\ tx = [t \in Tasks |-> "idle"]
    /\ late = [p \in Processes |-> 0]
    /\ ids = 0

--------------------
\* The claim.

\* ProcessOwner::verify_paths: directory, database and marker at the path are
\* the ones this process holds, and the marker still names its identity.
PathsIntact(p) ==
    /\ at = proc[p].held
    /\ marker.text = proc[p].id

\* The process exits (or dies): every descriptor closes, locks included.
Exited(p) ==
    /\ proc' = [proc EXCEPT ![p] = NoClaim]
    /\ conn' = [conn EXCEPT ![p] = 0]
    /\ holder' = [l \in DOMAIN holder |-> IF holder[l] = p THEN Nothing ELSE holder[l]]
    /\ tx' = [t \in Tasks |-> IF ProcessOf[t] = p THEN "idle" ELSE tx[t]]
    /\ late' = [late EXCEPT ![p] = 0]

\* ProcessOwner::acquire up to the marker: both locks are free and are taken;
\* an existing marker must be complete, and a missing one may be created only
\* beside an empty database.
MarkerUsable ==
    \/ marker.text \in 1..MaxIds
    \/ marker.text = Absent /\ content[at["db"]].id = 0

Acquire(p) ==
    /\ proc[p].pc = "dead"
    /\ holder[<<"dir", at["dir"]>>] = Nothing
    /\ holder[<<"db", at["db"]>>] = Nothing
    /\ MarkerUsable
    /\ marker.text = Absent => ids < MaxIds
    /\ holder' = [holder EXCEPT ![<<"dir", at["dir"]>>] = p, ![<<"db", at["db"]>>] = p]
    /\ IF marker.text = Absent
       THEN /\ marker' = [marker EXCEPT !.text = Partial]
            /\ ids' = ids + 1
            /\ proc' = [proc EXCEPT ![p] = [pc |-> "creating", held |-> at,
                                            id |-> ids + 1, fenced |-> FALSE]]
       ELSE /\ proc' = [proc EXCEPT ![p] = [pc |-> "reading", held |-> at,
                                            id |-> marker.text, fenced |-> FALSE]]
            /\ UNCHANGED <<marker, ids>>
    /\ UNCHANGED <<at, content, conn, tx, late>>

\* marker.write_all of the new identity.
WriteMarker(p) ==
    /\ proc[p].pc = "creating"
    /\ marker' = [marker EXCEPT !.text = proc[p].id]
    /\ proc' = [proc EXCEPT ![p].pc = "writing"]
    /\ UNCHANGED <<at, content, holder, conn, tx, late, ids>>

\* What marker.sync_all and directory.sync_all leave on stable storage.
Synced(p) == marker.text

\* The marker is made durable, whoever wrote it, and the claim verified.
SyncMarker(p) ==
    /\ proc[p].pc \in {"reading", "writing"}
    /\ marker' = [marker EXCEPT !.disk = Synced(p)]
    /\ IF PathsIntact(p)
       THEN /\ proc' = [proc EXCEPT ![p].pc = "claimed"]
            /\ UNCHANGED <<holder, conn, tx, late>>
       ELSE Exited(p)
    /\ UNCHANGED <<at, content, ids>>

--------------------
\* Opening and installing the schema.

\* SQLite opens whatever file is at the path.
Connect(p) ==
    /\ proc[p].pc = "claimed"
    /\ conn[p] = 0
    /\ conn' = [conn EXCEPT ![p] = at["db"]]
    /\ UNCHANGED <<at, content, marker, holder, proc, tx, late, ids>>

\* after_connect: the paths are verified once the connection is open.
ConnectionVerified(p) == PathsIntact(p)

\* check_identity against the claim: a blank database or this identity.
IdentityAccepted(p) == content[conn[p]].id \in {0, proc[p].id}

\* initialize: a blank database takes the claim's identity, another keeps its own.
Identified(p) == IF content[conn[p]].id = 0 THEN proc[p].id ELSE content[conn[p]].id

\* open_owned: the connection is verified, the identity checked and, in a blank
\* database, stored in one transaction; otherwise the opening fails.
Initialize(p) ==
    /\ proc[p].pc = "claimed"
    /\ conn[p] # 0
    /\ IF ConnectionVerified(p) /\ IdentityAccepted(p)
       THEN /\ content' = [content EXCEPT ![conn[p]].id = Identified(p)]
            /\ proc' = [proc EXCEPT ![p].pc = "open"]
            /\ UNCHANGED <<holder, conn, tx, late>>
       ELSE UNCHANGED content /\ Exited(p)
    /\ UNCHANGED <<at, marker, ids>>

\* validate_history: the applied versions are an initial part of the manifest.
HistoryAccepted(p) == content[conn[p]].history <= Migrations[p]

\* What one committed run leaves: the complete manifest.
Installed(p) ==
    {IF content[conn[p]].history <= Migrations[p] THEN Migrations[p] ELSE content[conn[p]].history}

\* migrations::run: every pending migration, the history rows and the final
\* checks in one BEGIN IMMEDIATE transaction behind the commit gate; a refused
\* history or a failing hook rolls back and ends the process.
Install(p) ==
    /\ proc[p].pc = "open"
    /\ IF HistoryAccepted(p)
       THEN \E n \in Installed(p) :
              /\ content' = [content EXCEPT ![conn[p]].history = n]
              /\ IF n >= Migrations[p]
                 THEN proc' = [proc EXCEPT ![p].pc = "ready"] /\ UNCHANGED <<holder, conn, tx, late>>
                 ELSE Exited(p)
       ELSE UNCHANGED content /\ Exited(p)
    /\ UNCHANGED <<at, marker, ids>>

InstallFails(p) ==
    /\ proc[p].pc = "open"
    /\ content[conn[p]].history < Migrations[p]
    /\ Exited(p)
    /\ UNCHANGED <<at, content, marker, ids>>

--------------------
\* Serving.

Usable(p) == ~proc[p].fenced /\ PathsIntact(p)

\* verify: a failed check fences the claim for good.
Fence(p) == proc' = [proc EXCEPT ![p].fenced = ~Usable(p)]

\* begin_write, first half: pools() hands out the pools of a verified claim.
Borrow(t) ==
    LET p == ProcessOf[t] IN
    /\ proc[p].pc = "ready"
    /\ tx[t] = "idle"
    /\ ~proc[p].fenced
    /\ Fence(p)
    /\ tx' = [tx EXCEPT ![t] = IF Usable(p) THEN "verified" ELSE "idle"]
    /\ UNCHANGED <<at, content, marker, holder, conn, late, ids>>

BeginAccepted(p) == Usable(p)

\* begin_write, second half: the sole write connection and SQLite's write lock
\* are free; the claim is verified again under them.
Begin(t) ==
    LET p == ProcessOf[t] IN
    /\ tx[t] = "verified"
    /\ conn[p] # 0
    /\ \A u \in Tasks : ProcessOf[u] = p => tx[u] # "begun"
    /\ Fence(p)
    /\ tx' = [tx EXCEPT ![t] = IF BeginAccepted(p) THEN "begun" ELSE "idle"]
    /\ UNCHANGED <<at, content, marker, holder, conn, late, ids>>

\* The transaction commits into the file its connection is open on.
Commit(t) ==
    LET p == ProcessOf[t] IN
    /\ tx[t] = "begun"
    /\ tx' = [tx EXCEPT ![t] = "idle"]
    /\ late' = [late EXCEPT ![p] = IF at = proc[p].held THEN @ ELSE @ + 1]
    /\ UNCHANGED <<at, content, marker, holder, proc, conn, ids>>

\* The process lease outlives the pools: close releases no lock.
CloseReleases(p) == {}

\* SqliteDatabase::close: waiting borrowers fail, borrowed connections are
\* returned first, the lease stays; a connection that SQLx abandoned while it
\* was being opened may outlive the close.
Close(p) ==
    /\ proc[p].pc = "ready"
    /\ \A t \in Tasks : ProcessOf[t] = p => tx[t] # "begun"
    /\ proc' = [proc EXCEPT ![p].pc = "closed"]
    /\ tx' = [t \in Tasks |-> IF ProcessOf[t] = p THEN "idle" ELSE tx[t]]
    /\ holder' = [l \in DOMAIN holder |-> IF l \in CloseReleases(p) THEN Nothing ELSE holder[l]]
    /\ UNCHANGED <<at, content, marker, conn, late, ids>>

\* The last native handle of a closed database goes away; the path may then be
\* opened again by this process.
HandlesGone(p) ==
    /\ proc[p].pc = "closed"
    /\ conn[p] # 0
    /\ conn' = [conn EXCEPT ![p] = 0]
    /\ UNCHANGED <<at, content, marker, holder, proc, tx, late, ids>>

\* DatabaseOwner::acquire on a path this process has claimed before: the lease
\* is verified, fenced if that fails, and the logical opener taken.
Reopen(p) ==
    /\ proc[p].pc = "closed"
    /\ conn[p] = 0
    /\ ~proc[p].fenced
    /\ proc' = IF Usable(p) THEN [proc EXCEPT ![p].pc = "claimed"]
               ELSE [proc EXCEPT ![p].fenced = TRUE]
    /\ UNCHANGED <<at, content, marker, holder, conn, tx, late, ids>>

--------------------
\* Faults.

Crash(p) ==
    /\ proc[p].pc # "dead"
    /\ Exited(p)
    /\ UNCHANGED <<at, content, marker, ids>>

\* What a power failure may leave of the marker file.
Survivors ==
    IF marker.disk = marker.text THEN {marker.text} ELSE {marker.disk, marker.text, Partial}

\* Every process dies; the marker falls back to what was synced, or to any
\* part of what was written since.
PowerCut ==
    /\ \E text \in Survivors : marker' = [text |-> text, disk |-> text]
    /\ proc' = [p \in Processes |-> NoClaim]
    /\ conn' = [p \in Processes |-> 0]
    /\ holder' = [l \in DOMAIN holder |-> Nothing]
    /\ tx' = [t \in Tasks |-> "idle"]
    /\ late' = [p \in Processes |-> 0]
    /\ UNCHANGED <<at, content, ids>>

\* The operator moves a restored copy, or a database from elsewhere, to the
\* path.  (The marker of a restored directory has the same text.)
Replace(part) ==
    /\ at[part] <= MaxReplaced
    /\ at' = [q \in Parts |-> IF part \in {q, "dir"} THEN at[q] + 1 ELSE at[q]]
    /\ \A q \in Parts : at'[q] \in Generations
    /\ \E c \in {content[at["db"]], [id |-> Foreign, history |-> 0]} :
         content' = IF part = "marker" THEN content
                    ELSE [content EXCEPT ![at["db"] + 1] = c]
    /\ UNCHANGED <<marker, holder, proc, conn, tx, late, ids>>

Next ==
    \/ PowerCut
    \/ \E part \in Parts : Replace(part)
    \/ \E p \in Processes :
         \/ Acquire(p) \/ WriteMarker(p) \/ SyncMarker(p)
         \/ Connect(p) \/ Initialize(p) \/ Install(p) \/ InstallFails(p)
         \/ Close(p) \/ HandlesGone(p) \/ Reopen(p) \/ Crash(p)
    \/ \E t \in Tasks : Borrow(t) \/ Begin(t) \/ Commit(t)

Spec == Init /\ [][Next]_vars

--------------------
\* Properties.

\* DatabaseOwner: a file that may be written through a process's connections is
\* locked by that process.  SQLite opens by name, the lock is on the inode and
\* the lease outlives the pools: no replacement, close or crash lets two
\* processes write one database file.
WritersOwnTheirFile ==
    \A p \in Processes :
        proc[p].pc \in {"open", "ready", "closed"} /\ conn[p] # 0
            => holder[<<"db", conn[p]>>] = p

\* ProcessOwner::acquire: once the identity is stored in the database, the
\* durable marker carries it, whichever process created the marker and wherever
\* it died: a power failure never separates an initialised database from its
\* marker, after which nobody could open it again.
IdentityIsDurable ==
    at = [q \in Parts |-> 1] /\ content[1].id # 0 => marker.disk = content[1].id

\* open_owned, migrations::run: a process serves only the database its marker
\* names, and at exactly its own schema, across upgrades, downgrades, crashes
\* and files moved to the path.
ServesItsOwn ==
    \A p \in Processes : proc[p].pc = "ready" =>
        content[conn[p]] = [id |-> proc[p].id, history |-> Migrations[p]]

\* migrations::run: a database file never holds part of a manifest.
HistoryIsWhole ==
    \A g \in Generations : content[g].history \in {0} \cup {Migrations[p] : p \in Processes}

\* begin_write: after the files at the path were replaced, a claim commits at
\* most the one transaction that was already under the write lock.
OneLateCommit == \A p \in Processes : late[p] <= 1

\* What the claim protects: the file, its identity and its history.
OwnershipSound ==
    WritersOwnTheirFile /\ IdentityIsDurable /\ ServesItsOwn /\ HistoryIsWhole /\ OneLateCommit

--------------------
\* The inductive invariant behind OwnershipSound.

Alive(p) == proc[p].pc # "dead"

\* A claim holds the locks of the files it found at the path, which are still
\* there or were replaced since.
ClaimsHold ==
    \A p \in Processes : Alive(p) =>
      /\ holder[<<"dir", proc[p].held["dir"]>>] = p
      /\ holder[<<"db", proc[p].held["db"]>>] = p
      /\ \A q \in Parts : proc[p].held[q] <= at[q]

\* Every claim is of the identity in the marker; while it is being created,
\* there is one claim only, and whoever has synced it finds it on disk.
MarkerNamesClaims ==
    \A p \in Processes : Alive(p) =>
      /\ proc[p].pc = "creating" =>
           marker.text = Partial /\ \A q \in Processes \ {p} : ~Alive(q)
      /\ proc[p].pc # "creating" => marker.text = proc[p].id
      /\ proc[p].pc \in {"claimed", "open", "ready", "closed"} => marker.disk = marker.text

\* A connection is open on the file that was claimed, or on one moved to the path
\* since, until it is verified; then the file is the claim's.
ConnectionsFit ==
    \A p \in Processes :
      /\ proc[p].pc \in {"dead", "creating", "reading", "writing"} => conn[p] = 0
      /\ conn[p] # 0 => proc[p].held["db"] <= conn[p] /\ conn[p] <= at["db"]
      /\ proc[p].pc \in {"open", "ready", "closed"} /\ conn[p] # 0 => conn[p] = proc[p].held["db"]
      /\ proc[p].pc \in {"open", "ready"} => conn[p] # 0 /\ content[conn[p]].id = proc[p].id
      /\ proc[p].pc = "ready" => content[conn[p]].history = Migrations[p]

\* The database that is at the path from the beginning has the marker's identity.
OriginalNamed ==
    at = [q \in Parts |-> 1] /\ content[1].id # 0 =>
      marker.disk = content[1].id /\ marker.text = content[1].id

\* One transaction at a time is under the write lock of a process; the one that
\* committed late was the last.
WritesFenced ==
    /\ \A t \in Tasks : tx[t] # "idle" => proc[ProcessOf[t]].pc = "ready"
    /\ \A t, u \in Tasks :
         tx[t] = "begun" /\ tx[u] = "begun" /\ ProcessOf[t] = ProcessOf[u] => t = u
    /\ \A p \in Processes :
         /\ late[p] <= 1
         /\ late[p] = 1 => /\ Alive(p) /\ at # proc[p].held
                           /\ \A t \in Tasks : ProcessOf[t] = p => tx[t] # "begun"

OwnershipInv ==
    /\ TypeOK /\ ClaimsHold /\ MarkerNamesClaims /\ ConnectionsFit /\ OriginalNamed
    /\ HistoryIsWhole /\ WritesFenced
=============================================================================
