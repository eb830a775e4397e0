--------------------------- MODULE DataDirectory ----------------------------
(***************************************************************************)
(* Where the memory of one owner lies on disk and who moves it there: the  *)
(* boot of the server in single- and multi-user mode with the adoption of  *)
(* single-user data (cmd/lard/main.go: run; tenant.go: AdoptLegacy), the   *)
(* first contact that opens a tenant (httpapi/tenant.go: TenantFor), and   *)
(* the commands backup and restore (backup.go, store.go: Snapshot), next   *)
(* to a server that keeps writing.  Server and commands may die between    *)
(* any two steps.                                                          *)
(*                                                                         *)
(* A database is its facts, in the order of their ids, and the watermark   *)
(* of the one subject; the memory directory is the facts in the subject's  *)
(* file.  A death may leave a sidecar beside a database, without which its *)
(* facts cannot be read for sure: the rollback journal of the transaction  *)
(* it died in, or the write-ahead log of a database that is in that mode.  *)
(* -shm is rebuilt from the log, and left out.                             *)
(***************************************************************************)
EXTENDS Integers, Sequences, FiniteSets, SequencesExt

CONSTANTS Tokens,    \* facts to be learned
          Sidecars,  \* kinds of sidecar a death may leave
          MaxClock,  \* bound on the clock of the suffix .superseded-<stamp>
          MaxRuns,   \* bound on backups and restores
          MaxFlips,  \* bound on changes of multi_user
          MaxBreaks  \* bound on deaths and failures half-way

ASSUME DirectoryAssumption ==
    /\ IsFiniteSet(Tokens)
    /\ Sidecars \subseteq {"journal", "wal"}
    /\ {MaxClock, MaxRuns, MaxFlips, MaxBreaks} \subseteq Nat

VARIABLES
    multi,   \* multi_user
    primary, \* primary_user is set, or multi_user is off and does not need it
    server,  \* "down", adopting, or "up"
    open,    \* the owner's store is open
    pass,    \* the synthesis of the subject: where it is and how many facts it read
    db, mem, \* per place: the database and the memory directory
    dir,     \* the tenant's directory, and its copy's, exist
    aside,   \* per place and stamp: what a restore moved out of the way
    hot,     \* per place: the sidecar a death has left there, or "none"
    tool,    \* the backup or restore that is running
    now,     \* the second the last forced restore read
    runs, flips, breaks,
    \* observers
    learned, \* facts ever stored
    broken,  \* places something was left half-done at, or copied from such a place
    clashed, \* a restore moved a database over one moved aside in the same second
    parted   \* a database was moved away from its sidecar

fileVars == <<db, mem, dir, aside, hot>>
serverVars == <<server, open, pass>>
boundVars == <<runs, flips, breaks>>
obsVars == <<learned, broken, clashed, parted>>
vars == <<multi, primary, serverVars, fileVars, tool, now, boundVars, obsVars>>

\* "legacy" is db and memory_dir of a single-user server, "tenant" the directory
\* of primary_user; "single" and "users" are their places in a backup.
Live == {"legacy", "tenant"}
Places == Live \cup {"single", "users"}
CopyOf == [legacy |-> "single", tenant |-> "users"]

NoFile == [kind |-> "none", facts |-> <<>>, mark |-> 0]
\* A file of no bytes.
Zero == [kind |-> "zero", facts |-> <<>>, mark |-> 0]
Empty == [kind |-> "db", facts |-> <<>>, mark |-> 0]
NoDir == [there |-> FALSE, has |-> {}]
EmptyDir == [there |-> TRUE, has |-> {}]
NoPass == [at |-> "none", n |-> 0]
Idle == [at |-> "idle", place |-> "legacy", force |-> FALSE, stamp |-> 0]

Database == [kind : {"none", "zero", "db"}, facts : Seq(Tokens), mark : Nat]
Directory == [there : BOOLEAN, has : SUBSET Tokens]
Stamps == 0..MaxClock
Commands == [at : {"idle", "remove", "snapshot", "files", "db", "mem", "tree", "treeDB", "treeMem"},
             place : Live, force : BOOLEAN, stamp : Stamps]

\* Facts a database file holds.
FactsIn(d) == ToSet(d.facts)

TypeOK ==
    /\ multi \in BOOLEAN /\ primary \in BOOLEAN /\ open \in BOOLEAN
    /\ clashed \in BOOLEAN /\ parted \in BOOLEAN
    /\ server \in {"down", "moveDB", "moveSide", "moveMem", "up"}
    /\ pass \in [at : {"none", "calling", "renamed"}, n : Nat]
    /\ db \in [Places -> Database] /\ mem \in [Places -> Directory]
    /\ dir \in [{"tenant", "users"} -> BOOLEAN]
    /\ aside \in [Live \X Stamps -> [db : Database, mem : Directory]]
    /\ hot \in [Live -> Sidecars \cup {"none"}]
    /\ tool \in Commands /\ now \in Stamps
    /\ runs \in 0..MaxRuns /\ flips \in 0..MaxFlips /\ breaks \in 0..MaxBreaks
    /\ learned \subseteq Tokens
    /\ broken \subseteq Places
    \* a watermark is the id of a fact
    /\ \A p \in Places : db[p].mark <= Len(db[p].facts)
    /\ open => server = "up"

Init ==
    /\ multi = FALSE /\ primary = TRUE
    /\ server = "down" /\ open = FALSE /\ pass = NoPass
    /\ db = [p \in Places |-> NoFile]
    /\ mem = [p \in Places |-> NoDir]
    /\ dir = [d \in {"tenant", "users"} |-> FALSE]
    /\ aside = [a \in Live \X Stamps |-> [db |-> NoFile, mem |-> NoDir]]
    /\ hot = [p \in Live |-> "none"]
    /\ tool = Idle
    /\ now = 0
    /\ runs = 0 /\ flips = 0 /\ breaks = 0
    /\ learned = {} /\ broken = {} /\ clashed = FALSE /\ parted = FALSE
-----------------------------------------------------------------------------
(* The server.                                                             *)

\* The place this configuration serves and copies.
Here == IF multi THEN "tenant" ELSE "legacy"

Restoring == tool.at \in {"db", "mem", "tree", "treeDB", "treeMem"}

\* The configuration is changed and the server is still to be started.
Flip ==
    /\ server = "down"
    /\ flips < MaxFlips
    /\ flips' = flips + 1
    /\ \/ multi' = ~multi /\ primary' \in {TRUE, ~multi'}
       \/ multi /\ primary' = ~primary /\ UNCHANGED multi
    /\ UNCHANGED <<serverVars, fileVars, tool, now, runs, breaks, obsVars>>

\* What may be read of a database whose sidecar is missing, or is of another one.
Damaged(d) ==
    UNION {{[kind |-> d.kind, facts |-> SubSeq(d.facts, 1, k), mark |-> m] : m \in 0..k} :
              k \in 0..Len(d.facts)}

\* SQLite applies the sidecar it finds at p and deletes it, and deletes that of an
\* empty database.
Settled(p) == [hot EXCEPT ![p] = "none"]

\* sqlite3 <db> PRAGMA wal_checkpoint, run by a hook on a database that has moved.
TouchZero ==
    /\ db["legacy"] = NoFile
    /\ multi
    /\ db' = [db EXCEPT !["legacy"] = Zero]
    /\ hot' = Settled("legacy")
    /\ UNCHANGED <<multi, primary, serverVars, mem, dir, aside, tool, now, boundVars, obsVars>>

\* store.Open creates what is missing; an empty file is an empty database.
Opened(p) ==
    /\ db' = [db EXCEPT ![p] = IF @.kind = "db" THEN @ ELSE Empty]
    /\ mem' = [mem EXCEPT ![p] = IF @.there THEN @ ELSE EmptyDir]
    /\ hot' = Settled(p)
    /\ open' = TRUE

\* Mutant of Refuses: a file of no bytes is a database worth serving.
RefusesAbsent == db["tenant"] # NoFile /\ db["legacy"] = NoFile

\* multi_user was turned off, and the memory is in a tenant's directory.
Refuses == db["tenant"] # NoFile /\ db["legacy"].kind # "db"

BootSingle ==
    /\ server = "down" /\ ~multi /\ ~Restoring
    /\ ~Refuses
    /\ server' = "up"
    /\ Opened("legacy")
    /\ UNCHANGED <<multi, primary, pass, dir, aside, tool, now, boundVars, obsVars>>

\* Mutant of Adopts: whatever is there is moved over.
AdoptsAlways == primary /\ db["legacy"] # NoFile

\* AdoptLegacy is called only for a primary_user, and is of no effect once the
\* tenant's directory exists.
Adopts == primary /\ db["legacy"] # NoFile /\ ~dir["tenant"]

BootMulti ==
    /\ server = "down" /\ multi /\ ~Restoring
    /\ ~Adopts
    /\ server' = "up"
    /\ UNCHANGED <<multi, primary, open, pass, fileVars, tool, now, boundVars, obsVars>>

\* AdoptLegacy makes the tenant's directory, ...
Adopt ==
    /\ server = "down" /\ multi /\ ~Restoring
    /\ Adopts
    /\ server' = "moveDB"
    /\ dir' = [dir EXCEPT !["tenant"] = TRUE]
    /\ broken' = broken \cup {"tenant"}
    /\ UNCHANGED <<multi, primary, open, pass, db, mem, aside, hot, tool, now, boundVars,
                   learned, clashed, parted>>

\* ... moves the database, but never a journal, ...
AdoptDB ==
    /\ server = "moveDB"
    /\ server' = "moveSide"
    /\ \E d \in IF hot["legacy"] = "journal" THEN Damaged(db["legacy"]) ELSE {db["legacy"]} :
         db' = [db EXCEPT !["tenant"] = d, !["legacy"] = NoFile]
    /\ parted' = (parted \/ hot["legacy"] = "journal")
    /\ UNCHANGED <<multi, primary, open, pass, mem, dir, aside, hot, tool, now, boundVars, learned,
                   broken, clashed>>

\* ... then its log, ...
AdoptSide ==
    /\ server = "moveSide"
    /\ server' = "moveMem"
    /\ hot' = IF hot["legacy"] = "wal" THEN [Settled("legacy") EXCEPT !["tenant"] = "wal"] ELSE hot
    /\ UNCHANGED <<multi, primary, open, pass, db, mem, dir, aside, tool, now, boundVars, obsVars>>

\* ... and the memory directory, and the server goes on.
AdoptMem ==
    /\ server = "moveMem"
    /\ server' = "up"
    /\ mem' = IF mem["legacy"].there
              THEN [mem EXCEPT !["tenant"] = mem["legacy"], !["legacy"] = NoDir] ELSE mem
    /\ broken' = (broken \ Live) \cup {p \in {"tenant"} : "legacy" \in broken}
    /\ UNCHANGED <<multi, primary, open, pass, db, dir, aside, hot, tool, now, boundVars,
                   learned, clashed, parted>>

\* TenantFor, at the first request of the owner and under s.mu.
Contact ==
    /\ server = "up" /\ multi /\ ~open
    /\ dir' = [dir EXCEPT !["tenant"] = TRUE]
    /\ Opened("tenant")
    /\ UNCHANGED <<multi, primary, server, pass, aside, tool, now, boundVars, obsVars>>

\* The server stops, or dies.  An adoption it dies in, or an error ends it in, stays
\* half-done, and may leave the log behind; a store it had open may need a sidecar.
Down ==
    /\ server # "down"
    /\ \E s \in IF open THEN Sidecars \cup {"none"} ELSE {hot[Here]} :
         /\ hot' = [hot EXCEPT ![Here] = s]
         /\ breaks' = IF server = "up" /\ s = hot[Here] THEN breaks ELSE breaks + 1
    /\ breaks' <= MaxBreaks
    /\ server' = "down" /\ open' = FALSE /\ pass' = NoPass
    /\ LET loses == server = "moveSide" /\ hot["legacy"] = "wal" IN
         /\ \E d \in IF loses THEN Damaged(db["tenant"]) ELSE {db["tenant"]} :
              db' = [db EXCEPT !["tenant"] = d]
         /\ parted' = (parted \/ loses)
    /\ UNCHANGED <<multi, primary, mem, dir, aside, tool, now, runs, flips, learned, broken, clashed>>
-----------------------------------------------------------------------------
(* What the server writes.                                                 *)

SaveFacts(t) ==
    /\ open
    /\ t \notin learned
    /\ db' = [db EXCEPT ![Here].facts = Append(@, t)]
    /\ learned' = learned \cup {t}
    /\ UNCHANGED <<multi, primary, serverVars, mem, dir, aside, hot, tool, now, boundVars,
                   broken, clashed, parted>>

\* The subject is dirty and its facts are read ...
ReadFacts ==
    /\ open /\ pass = NoPass
    /\ Len(db[Here].facts) > db[Here].mark
    /\ pass' = [at |-> "calling", n |-> Len(db[Here].facts)]
    /\ UNCHANGED <<multi, primary, server, open, fileVars, tool, now, boundVars, obsVars>>

\* ... its file is renamed into place ...
WriteBody ==
    /\ pass.at = "calling"
    /\ mem' = [mem EXCEPT ![Here].has = {db[Here].facts[i] : i \in 1..pass.n}]
    /\ pass' = [pass EXCEPT !.at = "renamed"]
    /\ UNCHANGED <<multi, primary, server, open, db, dir, aside, hot, tool, now, boundVars,
                   obsVars>>

\* Mutant of WriteRow: the watermark is the next id.
WriteRowNext ==
    /\ pass.at = "renamed"
    /\ db' = [db EXCEPT ![Here].mark = pass.n + 1]
    /\ pass' = NoPass
    /\ UNCHANGED <<multi, primary, server, open, mem, dir, aside, hot, tool, now, boundVars,
                   obsVars>>

\* ... and the watermark follows.
WriteRow ==
    /\ pass.at = "renamed"
    /\ db' = [db EXCEPT ![Here].mark = pass.n]
    /\ pass' = NoPass
    /\ UNCHANGED <<multi, primary, server, open, mem, dir, aside, hot, tool, now, boundVars,
                   obsVars>>
-----------------------------------------------------------------------------
(* backup.Run.                                                             *)

\* Mutant of After: the files are copied before the database.
AfterFilesFirst == [start |-> "files", files |-> "remove", remove |-> "snapshot", snapshot |-> "idle"]

\* What follows what.
After == [start |-> "remove", remove |-> "snapshot", snapshot |-> "files", files |-> "idle"]

\* The command begins, with the configuration of this moment.
Begin(at, force, stamp) ==
    /\ tool = Idle
    /\ runs < MaxRuns
    /\ runs' = runs + 1
    /\ tool' = [at |-> at, place |-> Here, force |-> force, stamp |-> stamp]

\* It goes on to its next step, or has come to its end.
Continue(at) == tool' = IF at = "idle" THEN Idle ELSE [tool EXCEPT !.at = at]

\* Plan finds a database.
StartBackup ==
    /\ db[Here] # NoFile
    /\ Begin(After["start"], FALSE, 0)
    /\ broken' = broken \cup {CopyOf[Here]}
    /\ UNCHANGED <<multi, primary, serverVars, fileVars, now, flips, breaks, learned, clashed,
                   parted>>

\* The copy of a backup is whole when its last step is done, unless what it copied
\* was not, is a file of no bytes, or was moved away by an adoption in the meantime.
Copied(at) ==
    broken' = IF /\ After[at] = "idle" /\ tool.place \notin broken
                 /\ db[tool.place].kind = "db" /\ db'[CopyOf[tool.place]].kind = "db"
              THEN broken \ {CopyOf[tool.place]} ELSE broken

\* Snapshot stats the database and removes that of the last run, which VACUUM INTO
\* would refuse to overwrite, ...
BackupRemove ==
    /\ tool.at = "remove"
    /\ db[tool.place] # NoFile
    /\ db' = [db EXCEPT ![CopyOf[tool.place]] = NoFile]
    /\ dir' = IF tool.place = "tenant" THEN [dir EXCEPT !["users"] = TRUE] ELSE dir
    /\ Continue(After["remove"])
    /\ UNCHANGED <<multi, primary, serverVars, mem, aside, hot, now, boundVars, obsVars>>

\* ... or finds that an adoption has moved it, ...
BackupFails ==
    /\ tool.at = "remove"
    /\ db[tool.place] = NoFile
    /\ Continue("idle")
    /\ UNCHANGED <<multi, primary, serverVars, fileVars, now, boundVars, obsVars>>

\* ... and copies the database in one transaction.  Where it was moved since the
\* stat, SQLite creates an empty one.
BackupSnapshot ==
    /\ tool.at = "snapshot"
    /\ LET from == IF db[tool.place] = NoFile THEN Zero ELSE db[tool.place]
       IN db' = [db EXCEPT ![tool.place] = from, ![CopyOf[tool.place]] = from]
    /\ hot' = Settled(tool.place)
    /\ Continue(After["snapshot"])
    /\ Copied("snapshot")
    /\ UNCHANGED <<multi, primary, serverVars, mem, dir, aside, now, boundVars, learned, clashed,
                   parted>>

\* copyTree copies the subject file over that of the last run, and makes the
\* directories anyway.
BackupFiles ==
    /\ tool.at = "files"
    /\ LET from == mem[tool.place]
           to == CopyOf[tool.place]
       IN mem' = IF from.has # {} THEN [mem EXCEPT ![to] = from]
                 ELSE IF from.there THEN [mem EXCEPT ![to].there = TRUE] ELSE mem
    /\ Continue(After["files"])
    /\ UNCHANGED <<multi, primary, serverVars, db, dir, aside, hot, now, boundVars, learned,
                   clashed, parted>>
    /\ Copied("files")
-----------------------------------------------------------------------------
(* backup.Restore, with the server stopped.                                *)

\* looksMultiUser agrees with the configuration.
Looks == IF multi THEN dir["users"] ELSE db["single"] # NoFile /\ ~dir["users"]

\* The stamp matters only to a restore that may move data aside: the clock stands
\* at, or has gone on since, the last one.
StartRestore(force) ==
    /\ server = "down"
    /\ Looks
    /\ now' \in IF force THEN now..MaxClock ELSE {now}
    /\ Begin(IF multi THEN "tree" ELSE "db", force, IF force THEN now' ELSE 0)
    /\ UNCHANGED <<multi, primary, serverVars, fileVars, flips, breaks, obsVars>>

\* What is there is moved aside.  A file is moved over a file of that name, a
\* directory only over an empty one.
Aside == <<tool.place, tool.stamp>>

MemInTheWay == mem["legacy"].there /\ mem["single"].there
MemMovable == aside[Aside].mem.has = {}
TreeMovable == aside[Aside] = [db |-> NoFile, mem |-> NoDir]

\* ErrExists on the first path that is there, or its directory cannot be moved.
RestoreRefused ==
    /\ \/ tool.at = "db" /\ db["legacy"] # NoFile /\ ~tool.force
       \/ tool.at = "mem" /\ MemInTheWay /\ ~(tool.force /\ MemMovable)
       \/ tool.at = "tree" /\ dir["tenant"] /\ ~(tool.force /\ TreeMovable)
    /\ Continue("idle")
    /\ UNCHANGED <<multi, primary, serverVars, fileVars, now, boundVars, obsVars>>

\* The database alone; its sidecar stays for the one that is restored.
MoveAsideDB ==
    /\ tool.at = "db" /\ tool.force
    /\ db["legacy"] # NoFile
    /\ \E d \in IF hot["legacy"] = "none" THEN {db["legacy"]} ELSE Damaged(db["legacy"]) :
         aside' = [aside EXCEPT ![Aside].db = d]
    /\ parted' = (parted \/ hot["legacy"] # "none")
    /\ clashed' = (clashed \/ aside[Aside].db # NoFile)
    /\ db' = [db EXCEPT !["legacy"] = NoFile]
    /\ broken' = broken \cup {"legacy"}
    /\ UNCHANGED <<multi, primary, serverVars, mem, dir, hot, tool, now, boundVars, learned>>

MoveAsideMem ==
    /\ tool.at = "mem" /\ tool.force
    /\ MemInTheWay /\ MemMovable
    /\ aside' = [aside EXCEPT ![Aside].mem = mem["legacy"]]
    /\ mem' = [mem EXCEPT !["legacy"] = NoDir]
    /\ UNCHANGED <<multi, primary, serverVars, db, dir, hot, tool, now, boundVars, obsVars>>

MoveAsideTree ==
    /\ tool.at = "tree" /\ tool.force
    /\ dir["tenant"] /\ TreeMovable
    /\ aside' = [aside EXCEPT ![Aside] = [db |-> db["tenant"], mem |-> mem["tenant"]]]
    /\ db' = [db EXCEPT !["tenant"] = NoFile]
    /\ mem' = [mem EXCEPT !["tenant"] = NoDir]
    /\ dir' = [dir EXCEPT !["tenant"] = FALSE]
    /\ hot' = Settled("tenant")
    /\ broken' = broken \cup {"tenant"}
    /\ UNCHANGED <<multi, primary, serverVars, tool, now, boundVars, learned, clashed, parted>>

\* copyPath of the database of a single user, beside whatever sidecar lies there, ...
RestoreDB ==
    /\ tool.at = "db"
    /\ db["legacy"] = NoFile
    /\ \E d \in IF hot["legacy"] = "none" THEN {db["single"]} ELSE Damaged(db["single"]) :
         db' = [db EXCEPT !["legacy"] = d]
    /\ broken' = broken \cup {"legacy"}
    /\ Continue("mem")
    /\ UNCHANGED <<multi, primary, serverVars, mem, dir, aside, hot, now, boundVars, learned,
                   clashed, parted>>

\* The restored place is as whole as the backup.
Restored(p) == broken' = IF CopyOf[p] \in broken THEN broken ELSE broken \ {p}

\* ... and of its memory directory, if the backup has one.
RestoreMem ==
    /\ tool.at = "mem"
    /\ ~MemInTheWay
    /\ mem' = IF mem["single"].there THEN [mem EXCEPT !["legacy"] = mem["single"]] ELSE mem
    /\ Restored("legacy")
    /\ Continue("idle")
    /\ UNCHANGED <<multi, primary, serverVars, db, dir, aside, hot, now, boundVars, learned,
                   clashed, parted>>

\* copyPath of a tenant: its directory, the database and the files, in the order
\* of a walk.
RestoreTree ==
    /\ tool.at = "tree"
    /\ ~dir["tenant"]
    /\ dir' = [dir EXCEPT !["tenant"] = TRUE]
    /\ broken' = broken \cup {"tenant"}
    /\ Continue("treeDB")
    /\ UNCHANGED <<multi, primary, serverVars, db, mem, aside, hot, now, boundVars, learned,
                   clashed, parted>>

RestoreTreeDB ==
    /\ tool.at = "treeDB"
    /\ db' = [db EXCEPT !["tenant"] = db["users"]]
    /\ Continue("treeMem")
    /\ UNCHANGED <<multi, primary, serverVars, mem, dir, aside, hot, now, boundVars, obsVars>>

RestoreTreeMem ==
    /\ tool.at = "treeMem"
    /\ mem' = [mem EXCEPT !["tenant"] = mem["users"]]
    /\ Restored("tenant")
    /\ Continue("idle")
    /\ UNCHANGED <<multi, primary, serverVars, db, dir, aside, hot, now, boundVars, learned,
                   clashed, parted>>

\* The command dies, or a file operation of it fails.  A database it was copying
\* may be left without a byte.
Break ==
    /\ tool.at # "idle"
    /\ breaks < MaxBreaks
    /\ breaks' = breaks + 1
    /\ \/ UNCHANGED <<db, broken>>
       \/ /\ tool.at = "treeDB" \/ (tool.at = "db" /\ db["legacy"] = NoFile)
          /\ db' = [db EXCEPT ![tool.place] = Zero]
          /\ broken' = broken \cup {tool.place}
    /\ Continue("idle")
    /\ UNCHANGED <<multi, primary, serverVars, mem, dir, aside, hot, now, runs, flips, learned,
                   clashed, parted>>

-----------------------------------------------------------------------------
ServerStep ==
    \/ BootSingle \/ BootMulti \/ Adopt \/ AdoptDB \/ AdoptSide \/ AdoptMem \/ Contact \/ Down
    \/ \E t \in Tokens : SaveFacts(t)
    \/ ReadFacts \/ WriteBody \/ WriteRow

ToolStep ==
    \/ StartBackup \/ BackupRemove \/ BackupFails \/ BackupSnapshot \/ BackupFiles
    \/ \E force \in BOOLEAN : StartRestore(force)
    \/ RestoreRefused \/ MoveAsideDB \/ MoveAsideMem \/ MoveAsideTree
    \/ RestoreDB \/ RestoreMem \/ RestoreTree \/ RestoreTreeDB \/ RestoreTreeMem
    \/ Break

Next == Flip \/ TouchZero \/ ServerStep \/ ToolStep

Spec == Init /\ [][Next]_vars
-----------------------------------------------------------------------------
\* backup.go:107-109, "Existing data is never deleted", and tenant.go:151-153:
\* every fact that was ever stored is still in a database that is served or lies
\* aside, through adoptions, restores, changes of the mode and deaths of any of
\* them half-way.  Two things may lose it.  Two restores within one second, of which
\* the second moves the database of the first over what that moved aside; and a
\* server that died in a transaction: until the next one has opened the database, an
\* adoption leaves its journal behind (and its log, if it dies before it moves that),
\* and a forced restore either.
NothingLost ==
    clashed \/ parted \/ \A t \in learned :
        \/ \E p \in Live : t \in FactsIn(db[p])
        \/ \E a \in DOMAIN aside : t \in FactsIn(aside[a].db)

\* backup.go:1-7: a copy that was taken while the server wrote, and a store that
\* was restored from it or adopted, hides no fact: what its watermark covers is
\* in its file.  What was left half-done is excepted until it is done again, and
\* everything once a database has been parted from its sidecar.
CopiesWhole ==
    parted \/ \A p \in Places \ broken : \A i \in 1..db[p].mark : db[p].facts[i] \in mem[p].has

\* main.go:194-195 and 211-214: the server creates a new, empty database only where
\* there is no memory to serve; it adopts what there is, or refuses.  With multi_user
\* and no primary_user it does not: it adopts nothing, and opens an empty database
\* for the owner beside the memory of a single user (main.go:196).
NeverAnew ==
    [][\A p \in Live \ broken :
         primary /\ db[p].kind # "db" /\ db'[p] = Empty /\ server' = "up" =>
            \A q \in Live : FactsIn(db[q]) = {}]_vars
=============================================================================
