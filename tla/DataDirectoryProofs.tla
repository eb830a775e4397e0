------------------------ MODULE DataDirectoryProofs -------------------------
(***************************************************************************)
(* Where the memory lies, for any facts, backups, restores, changes of the *)
(* mode and deaths half-way.                                               *)
(*                                                                         *)
(* Control says which file operations can meet: what an adoption, a backup *)
(* or a restore finds at each of its steps, whatever the server does       *)
(* beside it.  The facts follow from it (NothingLost, Synthesis,           *)
(* FilesFollow and MemFollows), and Bare says how a tenant's directory     *)
(* comes to be there without a database, so that creating one there hides  *)
(* nothing.  Beside says where a sidecar can lie while no database does,   *)
(* so that none is met by another database until one has been parted from  *)
(* its own.                                                                *)
(***************************************************************************)
EXTENDS DataDirectory, TLAPS

\* A file that is not a database has no facts, a directory that is not there no files.
Plain ==
    /\ \A p \in Places : db[p].kind # "db" => db[p].facts = <<>> /\ db[p].mark = 0
    /\ \A p \in Places : ~mem[p].there => mem[p].has = {}

Backing == tool.at \in {"remove", "snapshot", "files"}
Adopting == server \in {"moveDB", "moveSide", "moveMem"}

\* What is open is there.
Held == open => db[Here].kind = "db" /\ mem[Here].there

\* The server, between two of its steps.
Serving ==
    /\ ~dir["tenant"] => db["tenant"].kind = "none"
    /\ Adopting => multi /\ dir["tenant"] /\ "tenant" \in broken
    /\ server = "moveDB" => db["tenant"].kind = "none" /\ db["legacy"].kind # "none"
    /\ server \in {"moveSide", "moveMem"} => db["tenant"].kind # "none" /\ db["legacy"].kind # "db"
    /\ multi /\ primary /\ server = "up" /\ ~dir["tenant"] => db["legacy"].kind # "db"

\* The command, between two of its steps.
Commanding ==
    /\ Backing => CopyOf[tool.place] \in broken
    /\ Backing /\ tool.place = "tenant" => db["tenant"].kind # "none"
    /\ Restoring => server = "down"
    /\ tool.at \in {"db", "mem"} => tool.place = "legacy" /\ ~dir["users"] /\ db["single"].kind # "none"
    /\ tool.at \in {"tree", "treeDB", "treeMem"} => tool.place = "tenant" /\ dir["users"]
    /\ tool.at \in {"treeDB", "treeMem"} => dir["tenant"] /\ "tenant" \in broken
    /\ tool.at = "treeDB" => db["tenant"].kind = "none"
    /\ tool.at = "treeMem" => db["tenant"] = db["users"]
    /\ tool.at = "mem" => /\ "legacy" \in broken /\ db["legacy"].kind = db["single"].kind
                          /\ parted \/ db["legacy"] = db["single"]

\* No sidecar lies where the database has gone, but the log that an adoption is about
\* to move after it.
Beside ==
    parted \/ db["legacy"].kind # "none" \/ hot["legacy"] = "none"
           \/ (server = "moveSide" /\ hot["legacy"] = "wal")

Control == Held /\ Serving /\ Commanding

\* What a file of the subject holds of the facts a database has.
Covered(d, n, m) == \A i \in 1..n : d.facts[i] \in m.has

\* What a pass has read is there, and what it has written is in the file.
Synthesis ==
    /\ pass.at # "none" => open /\ db[Here].mark <= pass.n /\ pass.n <= Len(db[Here].facts)
    /\ pass.at = "renamed" => Covered(db[Here], pass.n, mem[Here])

\* The copy has nothing behind its watermark that the original has not.
Follows(c, d) == c.mark <= d.mark /\ \A i \in 1..c.mark : c.facts[i] = d.facts[i]

\* The copy follows what is copied from the snapshot on, or that has been adopted.
FilesFollow == tool.at = "files" =>
    \/ parted
    \/ Follows(db[CopyOf[tool.place]], db[tool.place])
    \/ tool.place = "legacy" /\ db["legacy"].kind # "db" /\ db["tenant"].kind # "none"

\* The directory that an adoption is about to move belongs to the database it has moved.
MemFollows == server \in {"moveSide", "moveMem"} /\ "legacy" \notin broken =>
    parted \/ Covered(db["tenant"], db["tenant"].mark, mem["legacy"])

\* A copy of a tenant that is whole is one of a database.
Backups == dir["users"] => "users" \in broken \/ db["users"].kind = "db"

\* No tenant has been copied yet, and nothing a single user has copied.
NoCopies == ~dir["users"] => db["single"].kind # "db"

\* Where the tenant's directory is there with no database, whole, it was adopted
\* from a file of no bytes before anything was stored.
Bare ==
    /\ dir["tenant"] /\ "tenant" \notin broken /\ db["tenant"].kind # "db" =>
         db["tenant"].kind = "zero" /\ db["legacy"].kind # "db" /\ NoCopies
    /\ ~dir["tenant"] /\ "legacy" \notin broken /\ db["legacy"].kind # "db" => NoCopies
    /\ server = "moveDB" /\ "legacy" \notin broken /\ db["legacy"].kind # "db" => NoCopies
    /\ server \in {"moveSide", "moveMem"} /\ "legacy" \notin broken /\ db["tenant"].kind # "db" => NoCopies

DataInv ==
    /\ TypeOK /\ Plain /\ Control /\ Beside /\ Synthesis
    /\ NothingLost
    /\ FilesFollow /\ MemFollows /\ CopiesWhole
    /\ Backups /\ Bare

-----------------------------------------------------------------------------
(* Types.                                                                  *)

LEMMA FileTypes ==
  /\ NoFile \in Database /\ Zero \in Database /\ Empty \in Database
  /\ NoDir \in Directory /\ EmptyDir \in Directory
  BY DEF NoFile, Zero, Empty, NoDir, EmptyDir, Database, Directory

LEMMA NoFacts ==
  /\ NoFile.mark = 0 /\ NoFile.facts = <<>> /\ NoFile.kind = "none"
  /\ Zero.mark = 0 /\ Zero.facts = <<>> /\ Zero.kind = "zero"
  /\ Empty.mark = 0 /\ Empty.facts = <<>> /\ Empty.kind = "db"
  /\ NoDir.has = {} /\ EmptyDir.has = {} /\ ~NoDir.there /\ EmptyDir.there
  /\ Len(<<>>) = 0
  BY DEF NoFile, Zero, Empty, NoDir, EmptyDir

LEMMA BoundTypes ==
  MaxClock \in Nat /\ MaxRuns \in Nat /\ MaxFlips \in Nat /\ MaxBreaks \in Nat
  BY DirectoryAssumption DEF DirectoryAssumption

LEMMA PlaceTypes ==
  /\ Here \in Live /\ Live \subseteq Places
  /\ \A p \in Live : CopyOf[p] \in Places /\ CopyOf[p] \notin Live
  BY DEF Here, Live, Places, CopyOf

\* A database that is read without its sidecar has no fact it had not.
LEMMA DamagedFile ==
  ASSUME NEW d \in Database, NEW e \in Damaged(d)
  PROVE  /\ e \in Database /\ e.kind = d.kind /\ e.mark <= Len(e.facts)
         /\ d.facts = <<>> => e.facts = <<>> /\ e.mark = 0
  <1>0. PICK k \in 0..Len(d.facts) :
           e \in {[kind |-> d.kind, facts |-> SubSeq(d.facts, 1, k), mark |-> m] : m \in 0..k}
    BY DEF Damaged
  <1>1. PICK m \in 0..k : e = [kind |-> d.kind, facts |-> SubSeq(d.facts, 1, k), mark |-> m]
    BY <1>0
  <1>2. d.facts \in Seq(Tokens) /\ Len(d.facts) \in Nat /\ d.kind \in {"none", "zero", "db"}
    BY DEF Database
  <1>3. SubSeq(d.facts, 1, k) \in Seq(Tokens) /\ Len(SubSeq(d.facts, 1, k)) = k
    BY <1>2
  <1>4. d.facts = <<>> => k = 0 /\ m = 0 /\ SubSeq(d.facts, 1, k) = <<>>
    BY <1>2, <1>3
  <1>. QED BY <1>1, <1>2, <1>3, <1>4 DEF Database

LEMMA SaveFactsEffect ==
  ASSUME TypeOK, NEW t \in Tokens, SaveFacts(t)
  PROVE  /\ db' \in [Places -> Database]
         /\ db'[Here].kind = db[Here].kind /\ db'[Here].mark = db[Here].mark
         /\ db'[Here].facts = Append(db[Here].facts, t)
         /\ \A p \in Places \ {Here} : db'[p] = db[p]
  <1>1. db' = [db EXCEPT ![Here].facts = Append(@, t)]
    BY DEF SaveFacts
  <1>2. db[Here] \in Database
    BY PlaceTypes DEF TypeOK
  <1>3. Append(db[Here].facts, t) \in Seq(Tokens)
    BY <1>2 DEF Database
  <1>. QED BY <1>1, <1>2, <1>3, PlaceTypes DEF TypeOK, Database

LEMMA AfterValues ==
  /\ After["start"] = "remove" /\ After["remove"] = "snapshot"
  /\ After["snapshot"] = "files" /\ After["files"] = "idle"
  BY DEF After

LEMMA ToolTypes ==
  ASSUME TypeOK
  PROVE  /\ tool.place \in Live /\ tool.force \in BOOLEAN /\ tool.stamp \in Stamps
         /\ Aside \in Live \X Stamps
         /\ Idle \in Commands /\ Idle.at = "idle"
  <1>1. tool.place \in Live /\ tool.force \in BOOLEAN /\ tool.stamp \in Stamps
    BY DEF TypeOK, Commands
  <1>2. Idle \in Commands /\ Idle.at = "idle"
    BY BoundTypes DEF Commands, Stamps, Idle, Live
  <1>. QED BY <1>1, <1>2 DEF Aside

\* A command that goes on is at its next step, and all else of it is the same.
LEMMA ContinueEffect ==
  ASSUME TypeOK, Continue("idle") PROVE tool' = Idle /\ tool' \in Commands /\ tool'.at = "idle"
  BY ToolTypes DEF Continue

LEMMA GoOnEffect ==
  ASSUME TypeOK, NEW at \in {"snapshot", "files", "mem", "treeDB", "treeMem"}, Continue(at)
  PROVE  /\ tool' \in Commands
         /\ tool'.at = at /\ tool'.place = tool.place
         /\ tool'.force = tool.force /\ tool'.stamp = tool.stamp
  BY ToolTypes DEF Continue, TypeOK, Commands

LEMMA BeginEffect ==
  ASSUME TypeOK, NEW at \in {"remove", "db", "tree"}, NEW force \in BOOLEAN, NEW stamp \in Stamps,
         Begin(at, force, stamp)
  PROVE  /\ tool' \in Commands /\ tool.at = "idle"
         /\ tool'.at = at /\ tool'.place = Here /\ tool'.force = force /\ tool'.stamp = stamp
         /\ runs' \in 0..MaxRuns
  BY PlaceTypes, BoundTypes DEF Begin, TypeOK, Commands, Idle

LEMMA SettledType ==
  ASSUME TypeOK, NEW p \in Live
  PROVE  Settled(p) \in [Live -> Sidecars \cup {"none"}] /\ \A q \in Live \ {p} : Settled(p)[q] = hot[q]
  BY DEF Settled, TypeOK

\* What opening a store leaves.
LEMMA OpenedEffect ==
  ASSUME TypeOK, Plain, NEW p \in Live, Opened(p)
  PROVE  /\ open'
         /\ db' \in [Places -> Database] /\ mem' \in [Places -> Directory]
         /\ \A q \in Places \ {p} : db'[q] = db[q] /\ mem'[q] = mem[q]
         /\ db[p].kind = "db" => db'[p] = db[p]
         /\ db[p].kind # "db" => db'[p] = Empty
         /\ mem[p].there => mem'[p] = mem[p]
         /\ ~mem[p].there => mem'[p] = EmptyDir
         /\ mem'[p].has = mem[p].has
         /\ db'[p].kind = "db" /\ db'[p].facts = db[p].facts /\ db'[p].mark = db[p].mark
         /\ hot' = Settled(p)
  <1>. USE PlaceTypes, FileTypes
  <1>1. p \in Places
    OBVIOUS
  <1>2. /\ db' = [db EXCEPT ![p] = IF db[p].kind = "db" THEN db[p] ELSE Empty]
        /\ mem' = [mem EXCEPT ![p] = IF mem[p].there THEN mem[p] ELSE EmptyDir]
        /\ open'
    BY DEF Opened
  <1>3. db[p] \in Database /\ mem[p] \in Directory
    BY <1>1 DEF TypeOK
  <1>4. db' \in [Places -> Database] /\ (db[p].kind = "db" => db'[p] = db[p])
        /\ (db[p].kind # "db" => db'[p] = Empty) /\ \A q \in Places \ {p} : db'[q] = db[q]
    <2>1. CASE db[p].kind = "db"
      BY <1>1, <1>2, <1>3, <2>1 DEF TypeOK
    <2>2. CASE db[p].kind # "db"
      BY <1>1, <1>2, <1>3, <2>2 DEF TypeOK
    <2>. QED BY <2>1, <2>2
  <1>5. mem' \in [Places -> Directory] /\ (mem[p].there => mem'[p] = mem[p])
        /\ (~mem[p].there => mem'[p] = EmptyDir) /\ \A q \in Places \ {p} : mem'[q] = mem[q]
    <2>1. CASE mem[p].there
      BY <1>1, <1>2, <1>3, <2>1 DEF TypeOK
    <2>2. CASE ~mem[p].there
      BY <1>1, <1>2, <1>3, <2>2 DEF TypeOK
    <2>. QED BY <2>1, <2>2
  <1>6. mem'[p].has = mem[p].has
    <2>1. CASE mem[p].there
      BY <1>5, <2>1
    <2>2. CASE ~mem[p].there
      <3>1. mem[p].has = {}
        BY <1>1, <2>2, Zenon DEF Plain
      <3>2. mem'[p] = EmptyDir /\ EmptyDir.has = {}
        BY <1>5, <2>2 DEF EmptyDir
      <3>. QED BY <3>1, <3>2
    <2>. QED BY <2>1, <2>2
  <1>7. db'[p].kind = "db" /\ db'[p].facts = db[p].facts /\ db'[p].mark = db[p].mark
    BY <1>1, <1>4 DEF Plain, Empty
  <1>8. hot' = Settled(p)
    BY DEF Opened
  <1>. QED BY <1>1, <1>2, <1>4, <1>5, <1>6, <1>7, <1>8

\* The facts a pass has read, as the file gets them.
Read == {db[Here].facts[i] : i \in 1..pass.n}

LEMMA WriteBodyEffect ==
  ASSUME TypeOK, Synthesis, WriteBody
  PROVE  /\ mem' \in [Places -> Directory]
         /\ mem'[Here].there = mem[Here].there /\ mem'[Here].has = Read
         /\ \A p \in Places \ {Here} : mem'[p] = mem[p]
         /\ pass' = [at |-> "renamed", n |-> pass.n]
  <1>1. mem' = [mem EXCEPT ![Here].has = Read] /\ pass.at = "calling"
    BY DEF WriteBody, Read
  <1>2. mem[Here] \in Directory /\ db[Here] \in Database
    BY PlaceTypes DEF TypeOK
  <1>3. Read \subseteq Tokens
    <2>1. pass.n \in Nat /\ pass.n <= Len(db[Here].facts) /\ db[Here].facts \in Seq(Tokens)
      BY <1>1, <1>2 DEF TypeOK, Synthesis, Database
    <2>. QED BY <2>1 DEF Read
  <1>4. pass' = [at |-> "renamed", n |-> pass.n]
    BY DEF WriteBody, TypeOK
  <1>. QED BY <1>1, <1>2, <1>3, <1>4, PlaceTypes DEF TypeOK, Directory

LEMMA WriteRowEffect ==
  ASSUME TypeOK, WriteRow
  PROVE  /\ db' \in [Places -> Database]
         /\ db'[Here].kind = db[Here].kind /\ db'[Here].mark = pass.n
         /\ db'[Here].facts = db[Here].facts
         /\ \A p \in Places \ {Here} : db'[p] = db[p]
  <1>1. db' = [db EXCEPT ![Here].mark = pass.n] /\ pass.n \in Nat
    BY DEF WriteRow, TypeOK
  <1>2. db[Here] \in Database
    BY PlaceTypes DEF TypeOK
  <1>. QED BY <1>1, <1>2, PlaceTypes DEF TypeOK, Database

LEMMA BackupSnapshotEffect ==
  ASSUME TypeOK, BackupSnapshot
  PROVE  /\ db' \in [Places -> Database]
         /\ db'[CopyOf[tool.place]] = db'[tool.place]
         /\ db[tool.place].kind # "none" => db'[tool.place] = db[tool.place]
         /\ db[tool.place].kind = "none" => db'[tool.place] \in {Zero, db[tool.place]}
         /\ \A p \in Places \ {tool.place, CopyOf[tool.place]} : db'[p] = db[p]
         /\ tool' \in Commands /\ tool'.at = "files" /\ tool'.place = tool.place
         /\ broken' = broken
  <1>. DEFINE from == IF db[tool.place] = NoFile THEN Zero ELSE db[tool.place]
  <1>1. db' = [db EXCEPT ![tool.place] = from, ![CopyOf[tool.place]] = from]
    BY DEF BackupSnapshot
  <1>2. tool.place \in Places /\ CopyOf[tool.place] \in Places
    BY ToolTypes, PlaceTypes
  <1>3. from \in Database
    BY <1>2, FileTypes DEF TypeOK
  <1>4. /\ db[tool.place].kind # "none" => from = db[tool.place]
        /\ db[tool.place].kind = "none" => from \in {Zero, db[tool.place]}
    BY DEF NoFile
  <1>5. tool' \in Commands /\ tool'.at = "files" /\ tool'.place = tool.place
    BY GoOnEffect, AfterValues DEF BackupSnapshot
  <1>6. broken' = broken
    BY AfterValues DEF BackupSnapshot, Copied
  <1>. HIDE DEF from
  <1>. QED BY <1>1, <1>2, <1>3, <1>4, <1>5, <1>6 DEF TypeOK

LEMMA BackupFilesEffect ==
  ASSUME TypeOK, Plain, BackupFiles
  PROVE  /\ mem' \in [Places -> Directory]
         /\ \A p \in Places \ {CopyOf[tool.place]} : mem'[p] = mem[p]
         /\ mem[tool.place].has # {} => mem'[CopyOf[tool.place]] = mem[tool.place]
         /\ ~mem'[CopyOf[tool.place]].there => mem'[CopyOf[tool.place]].has = {}
         /\ tool' = Idle
         /\ broken' = broken \/ broken' = broken \ {CopyOf[tool.place]}
         /\ broken' # broken => /\ tool.place \notin broken /\ db[tool.place].kind = "db"
                                /\ db[CopyOf[tool.place]].kind = "db"
  <1>. DEFINE to == CopyOf[tool.place]
              from == mem[tool.place]
  <1>1. tool.place \in Places /\ to \in Places
    BY ToolTypes, PlaceTypes
  <1>2. from \in Directory /\ mem[to] \in Directory
    BY <1>1 DEF TypeOK
  <1>3. tool' = Idle
    BY ContinueEffect, AfterValues DEF BackupFiles
  <1>4. /\ broken' = broken \/ broken' = broken \ {to}
        /\ broken' # broken => tool.place \notin broken /\ db[tool.place].kind = "db" /\ db[to].kind = "db"
    BY DEF BackupFiles, Copied
  <1>5. CASE from.has # {}
    <2>1. mem' = [mem EXCEPT ![to] = from]
      BY <1>5 DEF BackupFiles
    <2>2. mem' \in [Places -> Directory] /\ mem'[to] = from /\ \A p \in Places \ {to} : mem'[p] = mem[p]
      BY <1>1, <1>2, <2>1 DEF TypeOK
    <2>3. ~from.there => from.has = {}
      BY <1>1, Zenon DEF Plain
    <2>4. ~mem'[to].there => mem'[to].has = {}
      BY <2>2, <2>3
    <2>. QED BY <2>2, <2>4, <1>3, <1>4, Zenon
  <1>6. CASE from.has = {} /\ from.there
    <2>1. mem' = [mem EXCEPT ![to].there = TRUE]
      BY <1>6 DEF BackupFiles
    <2>2. mem' \in [Places -> Directory] /\ mem'[to] = [there |-> TRUE, has |-> mem[to].has]
          /\ \A p \in Places \ {to} : mem'[p] = mem[p]
      BY <1>1, <1>2, <2>1 DEF TypeOK, Directory
    <2>3. mem'[to].there
      BY <2>2
    <2>. QED BY <2>2, <2>3, <1>6, <1>3, <1>4, Zenon
  <1>7. CASE from.has = {} /\ ~from.there
    <2>1. mem' = mem
      BY <1>7 DEF BackupFiles
    <2>2. ~mem'[to].there => mem'[to].has = {}
      BY <1>1, <2>1, Zenon DEF Plain
    <2>3. mem' \in [Places -> Directory] /\ \A p \in Places \ {to} : mem'[p] = mem[p]
      BY <2>1 DEF TypeOK
    <2>. QED BY <1>7, <2>2, <2>3, <1>3, <1>4, Zenon
  <1>. QED
    <2>1. from.there \in BOOLEAN
      BY <1>2 DEF Directory
    <2>. QED BY <2>1, <1>5, <1>6, <1>7, Zenon

Asides == [Live \X Stamps -> [db : Database, mem : Directory]]

LEMMA MoveAsideDBEffect ==
  ASSUME TypeOK, MoveAsideDB
  PROVE  /\ aside' \in Asides
         /\ ~parted' => ~parted /\ aside'[Aside].db = db["legacy"]
         /\ \A a \in (Live \X Stamps) \ {Aside} : aside'[a] = aside[a]
         /\ parted' \in BOOLEAN
         /\ ~parted' => hot["legacy"] = "none"
  <1>1. PICK d \in IF hot["legacy"] = "none" THEN {db["legacy"]} ELSE Damaged(db["legacy"]) :
           aside' = [aside EXCEPT ![Aside].db = d]
    BY DEF MoveAsideDB
  <1>2. db["legacy"] \in Database /\ parted' = (parted \/ hot["legacy"] # "none")
    BY DEF MoveAsideDB, TypeOK, Places, Live
  <1>3. d \in Database /\ (hot["legacy"] = "none" => d = db["legacy"])
    <2>1. CASE hot["legacy"] = "none"
      BY <1>2, <2>1
    <2>2. CASE hot["legacy"] # "none"
      BY <1>2, <2>2, DamagedFile
    <2>. QED BY <2>1, <2>2
  <1>4. aside[Aside] \in [db : Database, mem : Directory] /\ Aside \in Live \X Stamps
    BY ToolTypes DEF TypeOK
  <1>5. aside' \in Asides /\ aside'[Aside].db = d /\ \A a \in (Live \X Stamps) \ {Aside} : aside'[a] = aside[a]
    <2>. HIDE DEF Aside
    <2>. QED BY <1>1, <1>3, <1>4 DEF TypeOK, Asides
  <1>. QED BY <1>2, <1>3, <1>5

\* A database of d is left at p: that of d, or what can be read of it.
Left(p, d) ==
    /\ db'[p] \in Database /\ db'[p].kind = d.kind /\ db'[p].mark <= Len(db'[p].facts)
    /\ d.facts = <<>> => db'[p].facts = <<>> /\ db'[p].mark = 0

LEMMA LeftAs ==
  ASSUME NEW p, NEW d \in Database, d.mark <= Len(d.facts), d.facts = <<>> => d.mark = 0,
         db'[p] = d \/ db'[p] \in Damaged(d)
  PROVE  Left(p, d)
  BY DamagedFile DEF Left

\* An adoption moves the database, and all of it unless it leaves a journal behind.
LEMMA AdoptDBEffect ==
  ASSUME TypeOK, Plain, AdoptDB
  PROVE  /\ db' \in [Places -> Database] /\ db'["legacy"] = NoFile
         /\ \A p \in Places \ Live : db'[p] = db[p]
         /\ Left("tenant", db["legacy"])
         /\ ~parted' => ~parted /\ hot["legacy"] # "journal" /\ db'["tenant"] = db["legacy"]
         /\ parted' \in BOOLEAN
         /\ server = "moveDB" /\ server' = "moveSide"
         /\ UNCHANGED <<multi, primary, open, pass, mem, dir, aside, hot, tool, now, runs, flips, breaks,
                        learned, broken, clashed>>
  <1>1. PICK d \in IF hot["legacy"] = "journal" THEN Damaged(db["legacy"]) ELSE {db["legacy"]} :
           db' = [db EXCEPT !["tenant"] = d, !["legacy"] = NoFile]
    BY DEF AdoptDB
  <1>2. /\ db["legacy"] \in Database /\ db["legacy"].mark <= Len(db["legacy"].facts)
        /\ db["legacy"].facts = <<>> => db["legacy"].mark = 0
    BY NoFacts DEF TypeOK, Database, Places, Live
  <1>3. d \in Database /\ (d = db["legacy"] \/ d \in Damaged(db["legacy"]))
        /\ (hot["legacy"] # "journal" => d = db["legacy"])
    BY <1>1, <1>2, DamagedFile
  <1>4. /\ db' \in [Places -> Database] /\ db'["tenant"] = d /\ db'["legacy"] = NoFile
        /\ \A p \in Places \ Live : db'[p] = db[p]
    BY <1>1, <1>3, FileTypes DEF TypeOK, Places, Live
  <1>5. Left("tenant", db["legacy"])
    BY <1>2, <1>3, <1>4, LeftAs
  <1>6. parted' = (parted \/ hot["legacy"] = "journal")
    BY DEF AdoptDB
  <1>. QED BY <1>3, <1>4, <1>5, <1>6 DEF AdoptDB, boundVars

\* A server that dies leaves its databases, unless it was about to move the log of one.
LEMMA DownEffect ==
  ASSUME TypeOK, Plain, Down
  PROVE  /\ db' \in [Places -> Database]
         /\ \A p \in Places \ {"tenant"} : db'[p] = db[p]
         /\ Left("tenant", db["tenant"])
         /\ ~parted' => ~parted /\ db' = db /\ ~(server = "moveSide" /\ hot["legacy"] = "wal")
         /\ parted' \in BOOLEAN /\ breaks' \in 0..MaxBreaks
         /\ hot' \in [Live -> Sidecars \cup {"none"}]
         /\ ~open \/ multi => hot'["legacy"] = hot["legacy"]
         /\ server # "down" /\ server' = "down" /\ ~open' /\ open' \in BOOLEAN /\ pass' = NoPass
         /\ UNCHANGED <<multi, primary, mem, dir, aside, tool, now, runs, flips, learned, broken, clashed>>
  <1>. DEFINE loses == server = "moveSide" /\ hot["legacy"] = "wal"
  <1>1. PICK d \in IF loses THEN Damaged(db["tenant"]) ELSE {db["tenant"]} : db' = [db EXCEPT !["tenant"] = d]
    BY DEF Down
  <1>2. /\ db["tenant"] \in Database /\ db["tenant"].mark <= Len(db["tenant"].facts)
        /\ db["tenant"].facts = <<>> => db["tenant"].mark = 0
    BY NoFacts DEF TypeOK, Database, Places, Live
  <1>3. d \in Database /\ (d = db["tenant"] \/ d \in Damaged(db["tenant"])) /\ (~loses => d = db["tenant"])
    BY <1>1, <1>2, DamagedFile
  <1>4. /\ db' \in [Places -> Database] /\ db'["tenant"] = d /\ (d = db["tenant"] => db' = db)
        /\ \A p \in Places \ {"tenant"} : db'[p] = db[p]
    BY <1>1, <1>3 DEF TypeOK, Places, Live
  <1>5. Left("tenant", db["tenant"])
    BY <1>2, <1>3, <1>4, LeftAs
  <1>6. parted' = (parted \/ loses)
    BY DEF Down
  <1>7. PICK s \in IF open THEN Sidecars \cup {"none"} ELSE {hot[Here]} :
           /\ hot' = [hot EXCEPT ![Here] = s]
           /\ breaks' = IF server = "up" /\ s = hot[Here] THEN breaks ELSE breaks + 1
    BY DEF Down
  <1>8. breaks' \in 0..MaxBreaks
    <2>1. breaks' <= MaxBreaks
      BY DEF Down
    <2>2. breaks' = breaks \/ breaks' = breaks + 1
      BY <1>7
    <2>. QED BY <2>1, <2>2, BoundTypes DEF TypeOK
  <1>9. hot' \in [Live -> Sidecars \cup {"none"}] /\ (~open \/ multi => hot'["legacy"] = hot["legacy"])
    <2>1. Here \in Live /\ hot[Here] \in Sidecars \cup {"none"}
      BY PlaceTypes DEF TypeOK
    <2>2. s \in Sidecars \cup {"none"} /\ (~open => s = hot[Here])
      BY <1>7, <2>1
    <2>3. hot' \in [Live -> Sidecars \cup {"none"}]
      BY <1>7, <2>1, <2>2 DEF TypeOK
    <2>4. ~open => hot'["legacy"] = hot["legacy"]
      BY <1>7, <2>1, <2>2 DEF TypeOK, Live
    <2>5. multi => hot'["legacy"] = hot["legacy"]
      BY <1>7 DEF TypeOK, Live, Here
    <2>. QED BY <2>3, <2>4, <2>5
  <1>10. open' \in BOOLEAN /\ ~open' /\ server # "down" /\ server' = "down" /\ pass' = NoPass
    BY DEF Down
  <1>. HIDE DEF loses
  <1>11. ~parted' => ~parted /\ db' = db /\ ~loses
    BY <1>3, <1>4, <1>6
  <1>12. UNCHANGED <<multi, primary, mem, dir, aside, tool, now, runs, flips, learned, broken, clashed>>
    BY DEF Down
  <1>13. parted' \in BOOLEAN
    BY <1>6
  <1>. USE DEF loses
  <1>. QED BY <1>4, <1>5, <1>8, <1>9, <1>10, <1>11, <1>12, <1>13

\* A restore copies the database, and all of it unless it puts it beside a sidecar.
LEMMA RestoreDBEffect ==
  ASSUME TypeOK, Plain, RestoreDB
  PROVE  /\ db' \in [Places -> Database]
         /\ \A p \in Places \ {"legacy"} : db'[p] = db[p]
         /\ Left("legacy", db["single"])
         /\ hot["legacy"] = "none" => db'["legacy"] = db["single"]
         /\ tool' \in Commands /\ tool'.at = "mem" /\ tool'.place = tool.place
         /\ tool.at = "db" /\ db["legacy"] = NoFile
         /\ broken' = broken \cup {"legacy"}
         /\ UNCHANGED <<multi, primary, server, open, pass, mem, dir, aside, hot, now, runs, flips, breaks,
                        learned, clashed, parted>>
  <1>1. PICK d \in IF hot["legacy"] = "none" THEN {db["single"]} ELSE Damaged(db["single"]) :
           db' = [db EXCEPT !["legacy"] = d]
    BY DEF RestoreDB
  <1>2. /\ db["single"] \in Database /\ db["single"].mark <= Len(db["single"].facts)
        /\ db["single"].facts = <<>> => db["single"].mark = 0
    BY NoFacts DEF TypeOK, Database, Places, Live
  <1>3. d \in Database /\ (d = db["single"] \/ d \in Damaged(db["single"]))
        /\ (hot["legacy"] = "none" => d = db["single"])
    BY <1>1, <1>2, DamagedFile
  <1>4. db' \in [Places -> Database] /\ db'["legacy"] = d /\ \A p \in Places \ {"legacy"} : db'[p] = db[p]
    BY <1>1, <1>3 DEF TypeOK, Places, Live
  <1>5. Left("legacy", db["single"])
    BY <1>2, <1>3, <1>4, LeftAs
  <1>6. tool' \in Commands /\ tool'.at = "mem" /\ tool'.place = tool.place
    BY GoOnEffect DEF RestoreDB
  <1>. QED BY <1>3, <1>4, <1>5, <1>6 DEF RestoreDB, serverVars, boundVars

LEMMA MoveAsideMemEffect ==
  ASSUME TypeOK, MoveAsideMem
  PROVE  /\ aside' \in Asides
         /\ \A a \in Live \X Stamps : aside'[a].db = aside[a].db
  <1>1. aside' = [aside EXCEPT ![Aside].mem = mem["legacy"]] /\ mem["legacy"] \in Directory
    BY DEF MoveAsideMem, TypeOK, Places, Live
  <1>2. aside[Aside] \in [db : Database, mem : Directory] /\ Aside \in Live \X Stamps
    BY ToolTypes DEF TypeOK
  <1>. QED BY <1>1, <1>2 DEF TypeOK, Asides

LEMMA MoveAsideTreeEffect ==
  ASSUME TypeOK, MoveAsideTree
  PROVE  /\ aside' \in Asides
         /\ aside'[Aside].db = db["tenant"]
         /\ \A a \in (Live \X Stamps) \ {Aside} : aside'[a] = aside[a]
         /\ aside[Aside].db = NoFile
  <1>1. aside' = [aside EXCEPT ![Aside] = [db |-> db["tenant"], mem |-> mem["tenant"]]]
        /\ db["tenant"] \in Database /\ mem["tenant"] \in Directory
        /\ aside[Aside] = [db |-> NoFile, mem |-> NoDir]
    BY DEF MoveAsideTree, TreeMovable, TypeOK, Places, Live
  <1>2. Aside \in Live \X Stamps
    BY ToolTypes
  <1>. QED BY <1>1, <1>2 DEF TypeOK, Asides

LEMMA TypeStep == TypeOK /\ Plain /\ Control /\ Synthesis /\ [Next]_vars => TypeOK'
  <1>. SUFFICES ASSUME TypeOK, Plain, Control, Synthesis, [Next]_vars PROVE TypeOK'
    OBVIOUS
  <1>. USE FileTypes, BoundTypes, PlaceTypes DEF TypeOK
  <1>1. CASE Flip
    <2>1. multi' \in BOOLEAN /\ primary' \in BOOLEAN
      BY <1>1, Zenon DEF Flip
    <2>. QED BY <1>1, <2>1 DEF Flip, serverVars, fileVars, boundVars, obsVars
  <1>2. CASE TouchZero
    <2>1. db' \in [Places -> Database] /\ db'["legacy"] = Zero
          /\ \A p \in Places \ {"legacy"} : db'[p] = db[p]
      BY <1>2 DEF TouchZero, Places, Live
    <2>2. \A p \in Places : db'[p].mark <= Len(db'[p].facts)
      BY <2>1, NoFacts
    <2>3. hot' \in [Live -> Sidecars \cup {"none"}]
      BY <1>2, SettledType DEF TouchZero, Live
    <2>. QED BY <1>2, <2>1, <2>2, <2>3 DEF TouchZero, serverVars, boundVars, obsVars
  <1>3. CASE BootSingle
    <2>1. hot' \in [Live -> Sidecars \cup {"none"}]
      BY <1>3, OpenedEffect, SettledType DEF BootSingle, Live
    <2>. QED BY <1>3, <2>1, OpenedEffect DEF BootSingle, Live, Refuses, boundVars, obsVars
  <1>4. CASE BootMulti
    BY <1>4 DEF BootMulti, serverVars, fileVars, boundVars, obsVars
  <1>5. CASE Adopt
    BY <1>5 DEF Adopt, Places, Live, serverVars, fileVars, boundVars, obsVars
  <1>6. CASE AdoptDB
    <2>1. \A p \in Places : db'[p].mark <= Len(db'[p].facts)
      BY <1>6, AdoptDBEffect, NoFacts DEF Left, Places, Live
    <2>. QED BY <1>6, <2>1, AdoptDBEffect
  <1>7. CASE AdoptMem
    BY <1>7 DEF AdoptMem, Places, Live, serverVars, fileVars, boundVars, obsVars
  <1>8. CASE Contact
    <2>1. hot' \in [Live -> Sidecars \cup {"none"}]
      BY <1>8, OpenedEffect, SettledType DEF Contact, Live
    <2>. QED BY <1>8, <2>1, OpenedEffect DEF Contact, Live, boundVars, obsVars
  <1>9. CASE Down
    <2>1. \A p \in Places : db'[p].mark <= Len(db'[p].facts)
      BY <1>9, DownEffect DEF Left
    <2>2. pass' \in [at : {"none", "calling", "renamed"}, n : Nat] /\ server' = "down"
      BY <1>9, DownEffect DEF NoPass
    <2>. QED BY <1>9, <2>1, <2>2, DownEffect
  <1>10. CASE \E t \in Tokens : SaveFacts(t)
    <2>. PICK t \in Tokens : SaveFacts(t)
      BY <1>10
    <2>1. db[Here] \in Database
      OBVIOUS
    <2>2. Len(Append(db[Here].facts, t)) = Len(db[Here].facts) + 1 /\ db[Here].mark \in Nat
          /\ Len(db[Here].facts) \in Nat
      BY <2>1 DEF Database
    <2>3. ASSUME NEW p \in Places PROVE db'[p].mark <= Len(db'[p].facts)
      <3>1. CASE p = Here
        <4>1. db'[p].mark = db[Here].mark /\ db'[p].facts = Append(db[Here].facts, t)
          BY <3>1, SaveFactsEffect
        <4>2. db[Here].mark <= Len(db[Here].facts)
          OBVIOUS
        <4>. QED BY <2>2, <4>1, <4>2
      <3>2. CASE p # Here
        BY <3>2, SaveFactsEffect
      <3>. QED BY <3>1, <3>2
    <2>. QED BY <2>3, SaveFactsEffect DEF SaveFacts, serverVars, fileVars, boundVars, obsVars
  <1>11. CASE ReadFacts
    BY <1>11 DEF ReadFacts, Database, serverVars, fileVars, boundVars, obsVars
  <1>12. CASE WriteBody
    BY <1>12, WriteBodyEffect DEF WriteBody, serverVars, fileVars, boundVars, obsVars
  <1>13. CASE WriteRow
    BY <1>13, WriteRowEffect DEF WriteRow, Synthesis, NoPass, serverVars, fileVars, boundVars, obsVars
  <1>14. CASE StartBackup
    <2>1. Begin("remove", FALSE, 0)
      BY <1>14, AfterValues DEF StartBackup
    <2>2. 0 \in Stamps
      BY DEF Stamps
    <2>3. tool' \in Commands /\ runs' \in 0..MaxRuns
      BY <2>1, <2>2, BeginEffect
    <2>. QED BY <1>14, <2>3 DEF StartBackup, serverVars, fileVars, boundVars, obsVars
  <1>15. CASE BackupRemove
    <2>. DEFINE to == CopyOf[tool.place]
    <2>1. to \in Places /\ tool' \in Commands
      BY <1>15, GoOnEffect, AfterValues, ToolTypes DEF BackupRemove
    <2>2. db' \in [Places -> Database] /\ db'[to] = NoFile
          /\ \A p \in Places \ {to} : db'[p] = db[p]
      BY <1>15, <2>1 DEF BackupRemove
    <2>3. \A p \in Places : db'[p].mark <= Len(db'[p].facts)
      BY <2>2, NoFacts
    <2>4. dir' \in [{"tenant", "users"} -> BOOLEAN]
      BY <1>15 DEF BackupRemove
    <2>. QED BY <1>15, <2>1, <2>2, <2>3, <2>4 DEF BackupRemove, serverVars, fileVars, boundVars, obsVars
  <1>16. CASE BackupFails
    BY <1>16, ContinueEffect DEF BackupFails, serverVars, fileVars, boundVars, obsVars
  <1>17. CASE BackupSnapshot
    <2>1. \A p \in Places : db'[p].mark <= Len(db'[p].facts)
      BY <1>17, BackupSnapshotEffect, ToolTypes, NoFacts
    <2>2. hot' \in [Live -> Sidecars \cup {"none"}]
      BY <1>17, SettledType, ToolTypes DEF BackupSnapshot
    <2>. QED BY <1>17, <2>1, <2>2, BackupSnapshotEffect DEF BackupSnapshot, serverVars, boundVars, obsVars
  <1>18. CASE BackupFiles
    BY <1>18, BackupFilesEffect, ToolTypes DEF BackupFiles, serverVars, fileVars, boundVars, obsVars
  <1>19. CASE \E force \in BOOLEAN : StartRestore(force)
    BY <1>19, BeginEffect DEF Stamps, StartRestore, serverVars, fileVars, boundVars, obsVars
  <1>20. CASE RestoreRefused
    BY <1>20, ContinueEffect DEF RestoreRefused, serverVars, fileVars, boundVars, obsVars
  <1>21. CASE MoveAsideDB
    <2>1. db' \in [Places -> Database] /\ db'["legacy"] = NoFile
          /\ \A p \in Places \ {"legacy"} : db'[p] = db[p]
      BY <1>21 DEF MoveAsideDB, Places, Live
    <2>2. \A p \in Places : db'[p].mark <= Len(db'[p].facts)
      BY <2>1, NoFacts
    <2>3. clashed' \in BOOLEAN /\ broken' \subseteq Places
      BY <1>21 DEF MoveAsideDB, Places, Live
    <2>. QED BY <1>21, <2>1, <2>2, <2>3, MoveAsideDBEffect DEF MoveAsideDB, Asides, serverVars, fileVars, boundVars, obsVars
  <1>22. CASE MoveAsideMem
    BY <1>22, MoveAsideMemEffect DEF MoveAsideMem, Places, Live, Asides, serverVars, fileVars, boundVars, obsVars
  <1>23. CASE MoveAsideTree
    <2>1. db' \in [Places -> Database] /\ db'["tenant"] = NoFile
          /\ \A p \in Places \ {"tenant"} : db'[p] = db[p]
      BY <1>23 DEF MoveAsideTree, Places, Live
    <2>2. \A p \in Places : db'[p].mark <= Len(db'[p].facts)
      BY <2>1, NoFacts
    <2>3. mem' \in [Places -> Directory] /\ dir' \in [{"tenant", "users"} -> BOOLEAN]
      BY <1>23 DEF MoveAsideTree, Places, Live
    <2>4. hot' \in [Live -> Sidecars \cup {"none"}]
      BY <1>23, SettledType DEF MoveAsideTree, Live
    <2>. QED BY <1>23, <2>1, <2>2, <2>3, <2>4, MoveAsideTreeEffect DEF MoveAsideTree, Places, Live, Asides, serverVars, boundVars, obsVars
  <1>24. CASE RestoreDB
    <2>1. \A p \in Places : db'[p].mark <= Len(db'[p].facts)
      BY <1>24, RestoreDBEffect DEF Left
    <2>2. broken' \subseteq Places
      BY <1>24, RestoreDBEffect DEF Places, Live
    <2>. QED BY <1>24, <2>1, <2>2, RestoreDBEffect
  <1>25. CASE RestoreMem
    BY <1>25, ContinueEffect DEF RestoreMem, Places, Live, Restored, CopyOf, serverVars, fileVars, boundVars, obsVars
  <1>26. CASE RestoreTree
    BY <1>26, GoOnEffect DEF RestoreTree, Places, Live, serverVars, fileVars, boundVars, obsVars
  <1>27. CASE RestoreTreeDB
    BY <1>27, GoOnEffect DEF RestoreTreeDB, Places, Live, serverVars, fileVars, boundVars, obsVars
  <1>28. CASE RestoreTreeMem
    BY <1>28, ContinueEffect DEF RestoreTreeMem, Places, Live, Restored, serverVars, fileVars, boundVars, obsVars
  <1>29. CASE Break
    <2>1. /\ db' \in [Places -> Database] /\ broken' \subseteq Places
          /\ \A p \in Places : db'[p] = db[p] \/ db'[p] = Zero
      BY <1>29, ToolTypes DEF Break
    <2>2. \A p \in Places : db'[p].mark <= Len(db'[p].facts)
      BY <2>1, NoFacts
    <2>. QED BY <1>29, <2>1, <2>2, ContinueEffect DEF Break, serverVars, fileVars, boundVars, obsVars
  <1>30. CASE UNCHANGED vars
    BY <1>30 DEF vars, serverVars, fileVars, boundVars, obsVars
  <1>31. CASE AdoptSide
    <2>1. Settled("legacy") \in [Live -> Sidecars \cup {"none"}]
      BY SettledType DEF Live
    <2>2. hot' \in [Live -> Sidecars \cup {"none"}]
      <3>1. CASE hot["legacy"] = "wal"
        <4>1. hot["legacy"] \in Sidecars \cup {"none"}
          BY DEF Live
        <4>. QED BY <1>31, <2>1, <3>1, <4>1 DEF AdoptSide
      <3>2. CASE hot["legacy"] # "wal"
        BY <1>31, <3>2 DEF AdoptSide
      <3>. QED BY <3>1, <3>2
    <2>. QED BY <1>31, <2>2 DEF AdoptSide, boundVars, obsVars
  <1>. QED BY <1>1, <1>2, <1>3, <1>4, <1>5, <1>6, <1>7, <1>8, <1>9, <1>10, <1>11, <1>12, <1>13, <1>14, <1>15, <1>16, <1>17, <1>18, <1>19, <1>20, <1>21, <1>22, <1>23, <1>24, <1>25, <1>26, <1>27, <1>28, <1>29, <1>30, <1>31 DEF Next, ServerStep, ToolStep

LEMMA PlainStep == TypeOK /\ Plain /\ Control /\ Synthesis /\ [Next]_vars => Plain'
  <1>. SUFFICES ASSUME TypeOK, Plain, Control, Synthesis, [Next]_vars PROVE Plain'
    OBVIOUS
  <1>. USE NoFacts, PlaceTypes DEF TypeOK, Plain
  <1>1. CASE Flip
    BY <1>1 DEF Flip, serverVars, fileVars, boundVars, obsVars
  <1>2. CASE TouchZero
    BY <1>2 DEF TouchZero, Places, Live, serverVars, fileVars, boundVars, obsVars
  <1>3. CASE BootSingle
    BY <1>3, OpenedEffect DEF BootSingle, Places, Live, serverVars, fileVars, boundVars, obsVars
  <1>4. CASE BootMulti
    BY <1>4 DEF BootMulti, serverVars, fileVars, boundVars, obsVars
  <1>5. CASE Adopt
    BY <1>5 DEF Adopt, Places, Live, serverVars, fileVars, boundVars, obsVars
  <1>6. CASE AdoptDB
    BY <1>6, AdoptDBEffect DEF Left, Places, Live
  <1>7. CASE AdoptMem
    <2>1. UNCHANGED db
      BY <1>7 DEF AdoptMem
    <2>2. \A p \in Places : mem'[p] \in {mem[p], mem["legacy"], NoDir}
      BY <1>7 DEF AdoptMem, Places, Live
    <2>3. ASSUME NEW p \in Places PROVE ~mem'[p].there => mem'[p].has = {}
      BY <2>2, NoFacts, Zenon DEF Places, Live
    <2>. QED BY <2>1, <2>3
  <1>8. CASE Contact
    BY <1>8, OpenedEffect DEF Contact, Places, Live, serverVars, fileVars, boundVars, obsVars
  <1>9. CASE Down
    BY <1>9, DownEffect DEF Left, NoPass, Places, Live
  <1>10. CASE \E t \in Tokens : SaveFacts(t)
    <2>1. db[Here].kind = "db" /\ UNCHANGED mem
      BY <1>10 DEF SaveFacts, Control, Held
    <2>2. ASSUME NEW p \in Places PROVE db'[p].kind # "db" => db'[p] = db[p]
      BY <1>10, <2>1, SaveFactsEffect
    <2>. QED BY <2>1, <2>2
  <1>11. CASE ReadFacts
    BY <1>11 DEF ReadFacts, serverVars, fileVars, boundVars, obsVars
  <1>12. CASE WriteBody
    <2>1. mem[Here].there /\ UNCHANGED db
      BY <1>12 DEF WriteBody, Synthesis, Control, Held
    <2>2. ASSUME NEW p \in Places PROVE ~mem'[p].there => mem'[p].has = {}
      <3>1. CASE p = Here
        BY <3>1, <1>12, <2>1, WriteBodyEffect
      <3>2. CASE p # Here
        <4>1. mem'[p] = mem[p]
          BY <3>2, <1>12, WriteBodyEffect
        <4>. QED BY <4>1, Zenon
      <3>. QED BY <3>1, <3>2
    <2>. QED BY <2>1, <2>2
  <1>13. CASE WriteRow
    <2>1. db[Here].kind = "db" /\ UNCHANGED mem
      BY <1>13 DEF WriteRow, Synthesis, Control, Held
    <2>2. ASSUME NEW p \in Places PROVE db'[p].kind # "db" => db'[p] = db[p]
      BY <1>13, <2>1, WriteRowEffect
    <2>. QED BY <2>1, <2>2
  <1>14. CASE StartBackup
    BY <1>14, BeginEffect, AfterValues DEF StartBackup, Stamps, serverVars, fileVars, boundVars, obsVars
  <1>15. CASE BackupRemove
    BY <1>15, GoOnEffect, AfterValues, ToolTypes DEF BackupRemove, serverVars, fileVars, boundVars, obsVars
  <1>16. CASE BackupFails
    BY <1>16, ContinueEffect DEF BackupFails, serverVars, fileVars, boundVars, obsVars
  <1>17. CASE BackupSnapshot
    BY <1>17, BackupSnapshotEffect, ToolTypes DEF BackupSnapshot, serverVars, fileVars, boundVars, obsVars
  <1>18. CASE BackupFiles
    BY <1>18, BackupFilesEffect, ToolTypes DEF BackupFiles, serverVars, fileVars, boundVars, obsVars
  <1>19. CASE \E force \in BOOLEAN : StartRestore(force)
    BY <1>19, BeginEffect DEF Stamps, StartRestore, serverVars, fileVars, boundVars, obsVars
  <1>20. CASE RestoreRefused
    BY <1>20, ContinueEffect DEF RestoreRefused, serverVars, fileVars, boundVars, obsVars
  <1>21. CASE MoveAsideDB
    BY <1>21, MoveAsideDBEffect DEF MoveAsideDB, Places, Live, serverVars, fileVars, boundVars, obsVars
  <1>22. CASE MoveAsideMem
    <2>1. \A p \in Places : mem'[p] \in {mem[p], NoDir} /\ db'[p] \in {db[p], NoFile}
      BY <1>22 DEF MoveAsideMem, Places, Live
    <2>2. ASSUME NEW p \in Places PROVE ~mem'[p].there => mem'[p].has = {}
      BY <2>1, NoFacts, Zenon
    <2>3. ASSUME NEW p \in Places PROVE db'[p].kind # "db" => db'[p].facts = <<>> /\ db'[p].mark = 0
      BY <2>1, NoFacts
    <2>. QED BY <2>2, <2>3
  <1>23. CASE MoveAsideTree
    <2>1. \A p \in Places : mem'[p] \in {mem[p], NoDir} /\ db'[p] \in {db[p], NoFile}
      BY <1>23 DEF MoveAsideTree, Places, Live
    <2>2. ASSUME NEW p \in Places PROVE ~mem'[p].there => mem'[p].has = {}
      BY <2>1, NoFacts, Zenon
    <2>3. ASSUME NEW p \in Places PROVE db'[p].kind # "db" => db'[p].facts = <<>> /\ db'[p].mark = 0
      BY <2>1, NoFacts
    <2>. QED BY <2>2, <2>3
  <1>24. CASE RestoreDB
    BY <1>24, RestoreDBEffect DEF Left, Places, Live
  <1>25. CASE RestoreMem
    BY <1>25, ContinueEffect DEF RestoreMem, Places, Live, Restored, CopyOf, serverVars, fileVars, boundVars, obsVars
  <1>26. CASE RestoreTree
    BY <1>26, GoOnEffect DEF RestoreTree, Places, Live, serverVars, fileVars, boundVars, obsVars
  <1>27. CASE RestoreTreeDB
    BY <1>27, GoOnEffect DEF RestoreTreeDB, Places, Live, serverVars, fileVars, boundVars, obsVars
  <1>28. CASE RestoreTreeMem
    BY <1>28, ContinueEffect DEF RestoreTreeMem, Places, Live, Restored, CopyOf, serverVars, fileVars, boundVars, obsVars
  <1>29. CASE Break
    BY <1>29, ContinueEffect, ToolTypes DEF Break, serverVars, fileVars, boundVars, obsVars
  <1>30. CASE UNCHANGED vars
    BY <1>30 DEF vars, serverVars, fileVars, boundVars, obsVars
  <1>31. CASE AdoptSide
    BY <1>31 DEF AdoptSide, boundVars, obsVars
  <1>. QED BY <1>1, <1>2, <1>3, <1>4, <1>5, <1>6, <1>7, <1>8, <1>9, <1>10, <1>11, <1>12, <1>13, <1>14, <1>15, <1>16, <1>17, <1>18, <1>19, <1>20, <1>21, <1>22, <1>23, <1>24, <1>25, <1>26, <1>27, <1>28, <1>29, <1>30, <1>31 DEF Next, ServerStep, ToolStep

\* A restore runs beside a server that is down.
LEMMA Stopped ==
  ASSUME TypeOK, Control, Restoring
  PROVE  server = "down" /\ ~open
  BY DEF TypeOK, Control, Commanding

LEMMA BreakEffect ==
  ASSUME TypeOK, Break
  PROVE  /\ tool' = Idle /\ broken \subseteq broken'
         /\ UNCHANGED <<multi, primary, server, open, pass, mem, dir, aside, hot, learned, clashed, parted>>
         /\ \/ db' = db /\ broken' = broken
            \/ /\ tool.at = "treeDB" \/ (tool.at = "db" /\ db["legacy"].kind = "none")
               /\ db'[tool.place] = Zero /\ broken' = broken \cup {tool.place}
               /\ \A p \in Places \ {tool.place} : db'[p] = db[p]
  <1>1. tool.place \in Places /\ (db["legacy"] = NoFile => db["legacy"].kind = "none")
    BY ToolTypes, PlaceTypes, NoFacts
  <1>2. tool' = Idle
    BY ContinueEffect DEF Break
  <1>3. UNCHANGED <<multi, primary, server, open, pass, mem, dir, aside, hot, learned, clashed, parted>>
    BY DEF Break, serverVars
  <1>. QED BY <1>1, <1>2, <1>3 DEF Break, TypeOK

LEMMA KindOf ==
  ASSUME TypeOK, Plain, NEW p \in Places
  PROVE  /\ db[p].kind = "none" <=> db[p] = NoFile
         /\ db[p].kind = "zero" <=> db[p] = Zero
  <1>1. db[p] \in Database
    BY DEF TypeOK
  <1>. QED BY <1>1 DEF Plain, Database, NoFile, Zero

\* A backup touches its copy, and what it copies only where that is not there.
LEMMA RemoveEffect ==
  ASSUME TypeOK, BackupRemove
  PROVE  /\ db'[CopyOf[tool.place]] = NoFile
         /\ \A p \in Places \ {CopyOf[tool.place]} : db'[p] = db[p]
         /\ dir'["tenant"] = dir["tenant"] /\ (dir["users"] => dir'["users"])
         /\ tool.place = "tenant" => dir'["users"]
         /\ tool.place # "tenant" => dir'["users"] = dir["users"]
         /\ tool' \in Commands /\ tool'.at = "snapshot" /\ tool'.place = tool.place
         /\ UNCHANGED <<multi, primary, server, open, pass, mem, aside, hot, broken, learned, clashed, parted>>
  <1>1. tool.place \in Places /\ CopyOf[tool.place] \in Places
    BY ToolTypes, PlaceTypes
  <1>2. tool' \in Commands /\ tool'.at = "snapshot" /\ tool'.place = tool.place
    BY GoOnEffect, AfterValues DEF BackupRemove
  <1>3. UNCHANGED <<multi, primary, server, open, pass, mem, aside, hot, broken, learned, clashed, parted>>
    BY DEF BackupRemove, serverVars, obsVars
  <1>4. db'[CopyOf[tool.place]] = NoFile /\ \A p \in Places \ {CopyOf[tool.place]} : db'[p] = db[p]
    BY <1>1 DEF BackupRemove, TypeOK
  <1>5. /\ tool.place = "tenant" => dir' = [dir EXCEPT !["users"] = TRUE]
        /\ tool.place # "tenant" => dir' = dir
    BY DEF BackupRemove
  <1>6. /\ dir'["tenant"] = dir["tenant"] /\ (dir["users"] => dir'["users"])
        /\ tool.place = "tenant" => dir'["users"]
        /\ tool.place # "tenant" => dir'["users"] = dir["users"]
    BY <1>5 DEF TypeOK
  <1>. QED BY <1>2, <1>3, <1>4, <1>6

LEMMA HeldStep == TypeOK /\ Plain /\ Control /\ Synthesis /\ [Next]_vars => Held'
  <1>. SUFFICES ASSUME TypeOK, Plain, Control, Synthesis, [Next]_vars PROVE Held'
    OBVIOUS
  <1>. USE NoFacts, PlaceTypes DEF TypeOK, Held, Here, Control
  <1>1. CASE Flip
    BY <1>1 DEF Flip, serverVars, fileVars, boundVars, obsVars
  <1>2. CASE TouchZero
    BY <1>2 DEF TouchZero, Places, Live, serverVars, fileVars, boundVars, obsVars
  <1>3. CASE BootSingle
    BY <1>3, OpenedEffect DEF BootSingle, Places, Live, serverVars, fileVars, boundVars, obsVars
  <1>4. CASE BootMulti
    BY <1>4 DEF BootMulti, serverVars, fileVars, boundVars, obsVars
  <1>5. CASE Adopt
    BY <1>5 DEF Adopt, Places, Live, serverVars, fileVars, boundVars, obsVars
  <1>6. CASE AdoptDB
    BY <1>6, AdoptDBEffect DEF Left, Places, Live
  <1>7. CASE AdoptMem
    BY <1>7 DEF AdoptMem, Places, Live, serverVars, fileVars, boundVars, obsVars
  <1>8. CASE Contact
    BY <1>8, OpenedEffect DEF Contact, Places, Live, serverVars, fileVars, boundVars, obsVars
  <1>9. CASE Down
    BY <1>9, DownEffect DEF Left, NoPass, Places, Live
  <1>10. CASE \E t \in Tokens : SaveFacts(t)
    BY <1>10, SaveFactsEffect DEF SaveFacts, serverVars, fileVars, boundVars, obsVars
  <1>11. CASE ReadFacts
    BY <1>11 DEF ReadFacts, serverVars, fileVars, boundVars, obsVars
  <1>12. CASE WriteBody
    BY <1>12, WriteBodyEffect DEF WriteBody, serverVars, fileVars, boundVars, obsVars
  <1>13. CASE WriteRow
    BY <1>13, WriteRowEffect DEF WriteRow, NoPass, serverVars, fileVars, boundVars, obsVars
  <1>14. CASE StartBackup
    BY <1>14, BeginEffect, AfterValues DEF StartBackup, Stamps, serverVars, fileVars, boundVars, obsVars
  <1>15. CASE BackupRemove
    BY <1>15, GoOnEffect, AfterValues, ToolTypes DEF BackupRemove, serverVars, fileVars, boundVars, obsVars
  <1>16. CASE BackupFails
    BY <1>16, ContinueEffect DEF BackupFails, serverVars, fileVars, boundVars, obsVars
  <1>17. CASE BackupSnapshot
    BY <1>17, BackupSnapshotEffect, ToolTypes DEF BackupSnapshot, serverVars, fileVars, boundVars, obsVars
  <1>18. CASE BackupFiles
    BY <1>18, BackupFilesEffect, ToolTypes DEF BackupFiles, serverVars, fileVars, boundVars, obsVars
  <1>19. CASE \E force \in BOOLEAN : StartRestore(force)
    BY <1>19, BeginEffect DEF Stamps, StartRestore, serverVars, fileVars, boundVars, obsVars
  <1>20. CASE RestoreRefused
    BY <1>20, ContinueEffect DEF RestoreRefused, serverVars, fileVars, boundVars, obsVars
  <1>21. CASE MoveAsideDB
    BY <1>21, Stopped DEF MoveAsideDB, Restoring, serverVars, fileVars, boundVars, obsVars
  <1>22. CASE MoveAsideMem
    BY <1>22, Stopped DEF MoveAsideMem, Restoring, serverVars, fileVars, boundVars, obsVars
  <1>23. CASE MoveAsideTree
    BY <1>23, Stopped DEF MoveAsideTree, Restoring, serverVars, fileVars, boundVars, obsVars
  <1>24. CASE RestoreDB
    BY <1>24, RestoreDBEffect DEF Left, Places, Live
  <1>25. CASE RestoreMem
    BY <1>25, ContinueEffect DEF RestoreMem, Places, Live, Restored, CopyOf, serverVars, fileVars, boundVars, obsVars
  <1>26. CASE RestoreTree
    BY <1>26, GoOnEffect DEF RestoreTree, Places, Live, serverVars, fileVars, boundVars, obsVars
  <1>27. CASE RestoreTreeDB
    BY <1>27, Stopped DEF RestoreTreeDB, Restoring, serverVars, fileVars, boundVars, obsVars
  <1>28. CASE RestoreTreeMem
    BY <1>28, Stopped DEF RestoreTreeMem, Restoring, serverVars, fileVars, boundVars, obsVars
  <1>29. CASE Break
    <2>1. CASE open
      <3>1. UNCHANGED <<multi, open, db, mem>>
        BY <1>29, <2>1, BreakEffect, Stopped DEF Restoring
      <3>. QED BY <3>1
    <2>2. CASE ~open
      BY <1>29, <2>2, BreakEffect
    <2>. QED BY <2>1, <2>2
  <1>30. CASE UNCHANGED vars
    BY <1>30 DEF vars, serverVars, fileVars, boundVars, obsVars
  <1>31. CASE AdoptSide
    BY <1>31 DEF AdoptSide, boundVars, obsVars
  <1>. QED BY <1>1, <1>2, <1>3, <1>4, <1>5, <1>6, <1>7, <1>8, <1>9, <1>10, <1>11, <1>12, <1>13, <1>14, <1>15, <1>16, <1>17, <1>18, <1>19, <1>20, <1>21, <1>22, <1>23, <1>24, <1>25, <1>26, <1>27, <1>28, <1>29, <1>30, <1>31 DEF Next, ServerStep, ToolStep

LEMMA ServingStep == TypeOK /\ Plain /\ Control /\ Synthesis /\ [Next]_vars => Serving'
  <1>. SUFFICES ASSUME TypeOK, Plain, Control, Synthesis, [Next]_vars PROVE Serving'
    OBVIOUS
  <1>. USE NoFacts, PlaceTypes DEF TypeOK, Serving, Adopting, Control
  <1>1. CASE Flip
    BY <1>1 DEF Flip, serverVars, fileVars, boundVars, obsVars
  <1>2. CASE TouchZero
    BY <1>2 DEF TouchZero, Places, Live, serverVars, fileVars, boundVars, obsVars
  <1>3. CASE BootSingle
    BY <1>3, OpenedEffect DEF BootSingle, Places, Live, serverVars, fileVars, boundVars, obsVars
  <1>4. CASE BootMulti
    BY <1>4 DEF BootMulti, Adopts, Places, Live, serverVars, fileVars, boundVars, obsVars
  <1>5. CASE Adopt
    <2>1. db["legacy"].kind # "none" /\ db["tenant"].kind = "none"
      BY <1>5, KindOf DEF Adopt, Adopts, Places, Live
    <2>. QED BY <1>5, <2>1 DEF Adopt, serverVars, fileVars, boundVars, obsVars
  <1>6. CASE AdoptDB
    BY <1>6, AdoptDBEffect DEF Left, Places, Live
  <1>7. CASE AdoptMem
    BY <1>7 DEF AdoptMem, Places, Live, serverVars, fileVars, boundVars, obsVars
  <1>8. CASE Contact
    BY <1>8, OpenedEffect DEF Contact, Places, Live, serverVars, fileVars, boundVars, obsVars
  <1>9. CASE Down
    BY <1>9, DownEffect DEF Left, NoPass, Places, Live
  <1>10. CASE \E t \in Tokens : SaveFacts(t)
    BY <1>10, SaveFactsEffect DEF SaveFacts, serverVars, fileVars, boundVars, obsVars
  <1>11. CASE ReadFacts
    BY <1>11 DEF ReadFacts, serverVars, fileVars, boundVars, obsVars
  <1>12. CASE WriteBody
    BY <1>12, WriteBodyEffect DEF WriteBody, serverVars, fileVars, boundVars, obsVars
  <1>13. CASE WriteRow
    BY <1>13, WriteRowEffect DEF WriteRow, NoPass, serverVars, fileVars, boundVars, obsVars
  <1>14. CASE StartBackup
    BY <1>14, BeginEffect, AfterValues DEF StartBackup, Stamps, serverVars, fileVars, boundVars, obsVars
  <1>15. CASE BackupRemove
    <2>1. UNCHANGED <<db["tenant"], db["legacy"], dir["tenant"], multi, primary, server, broken>>
      BY <1>15, RemoveEffect, ToolTypes DEF Places, Live
    <2>. QED BY <2>1
  <1>16. CASE BackupFails
    BY <1>16, ContinueEffect DEF BackupFails, serverVars, fileVars, boundVars, obsVars
  <1>17. CASE BackupSnapshot
    <2>1. UNCHANGED <<dir, multi, primary, server, broken>>
      BY <1>17, BackupSnapshotEffect DEF BackupSnapshot, serverVars
    <2>2. tool.place = "tenant" => db["tenant"].kind # "none"
      BY <1>17 DEF BackupSnapshot, Commanding, Backing
    <2>3. db'["tenant"] = db["tenant"]
      BY <1>17, <2>2, BackupSnapshotEffect, ToolTypes DEF Places, Live
    <2>4. db'["legacy"] = db["legacy"] \/ (db["legacy"].kind = "none" /\ db'["legacy"] = Zero)
      BY <1>17, BackupSnapshotEffect, ToolTypes DEF Places, Live
    <2>. QED BY <2>1, <2>3, <2>4
  <1>18. CASE BackupFiles
    <2>1. UNCHANGED <<dir, multi, primary, server, db>>
      BY <1>18 DEF BackupFiles, serverVars
    <2>2. "tenant" \in broken => "tenant" \in broken'
      BY <1>18, BackupFilesEffect, ToolTypes DEF Live
    <2>. QED BY <2>1, <2>2
  <1>19. CASE \E force \in BOOLEAN : StartRestore(force)
    BY <1>19, BeginEffect DEF Stamps, StartRestore, serverVars, fileVars, boundVars, obsVars
  <1>20. CASE RestoreRefused
    BY <1>20, ContinueEffect DEF RestoreRefused, serverVars, fileVars, boundVars, obsVars
  <1>21. CASE MoveAsideDB
    <2>1. server' = "down"
      BY <1>21, Stopped DEF MoveAsideDB, Restoring, serverVars
    <2>. QED BY <1>21, <2>1 DEF MoveAsideDB, Commanding, Restored, serverVars, fileVars, boundVars, obsVars
  <1>22. CASE MoveAsideMem
    BY <1>22, MoveAsideMemEffect DEF MoveAsideMem, Places, Live, serverVars, fileVars, boundVars, obsVars
  <1>23. CASE MoveAsideTree
    <2>1. server' = "down"
      BY <1>23, Stopped DEF MoveAsideTree, Restoring, serverVars
    <2>2. db'["tenant"].kind = "none"
      BY <1>23 DEF MoveAsideTree, Places, Live
    <2>. QED BY <2>1, <2>2
  <1>24. CASE RestoreDB
    <2>1. server' = "down"
      BY <1>24, Stopped DEF RestoreDB, Restoring, serverVars
    <2>. QED BY <1>24, <2>1 DEF RestoreDB, Commanding, Restored, serverVars, fileVars, boundVars, obsVars
  <1>25. CASE RestoreMem
    BY <1>25, ContinueEffect DEF RestoreMem, Places, Live, Restored, CopyOf, serverVars, fileVars, boundVars, obsVars
  <1>26. CASE RestoreTree
    BY <1>26, GoOnEffect DEF RestoreTree, Places, Live, serverVars, fileVars, boundVars, obsVars
  <1>27. CASE RestoreTreeDB
    <2>1. server' = "down"
      BY <1>27, Stopped DEF RestoreTreeDB, Restoring, serverVars
    <2>. QED BY <1>27, <2>1 DEF RestoreTreeDB, Commanding, Restored, serverVars, fileVars, boundVars, obsVars
  <1>28. CASE RestoreTreeMem
    <2>1. server' = "down"
      BY <1>28, Stopped DEF RestoreTreeMem, Restoring, serverVars
    <2>. QED BY <1>28, <2>1 DEF RestoreTreeMem, Commanding, Restored, serverVars, fileVars, boundVars, obsVars
  <1>29. CASE Break
    <2>1. CASE server = "down"
      <3>1. server' = "down" /\ dir' = dir
        BY <1>29, <2>1, BreakEffect
      <3>2. ~dir["tenant"] => db'["tenant"] = db["tenant"]
        BY <1>29, BreakEffect, ToolTypes DEF Commanding, Live, Places
      <3>. QED BY <3>1, <3>2
    <2>2. CASE server # "down"
      <3>1. UNCHANGED <<multi, primary, server, dir, db, broken>>
        BY <1>29, <2>2, BreakEffect, Stopped DEF Restoring
      <3>. QED BY <3>1
    <2>. QED BY <2>1, <2>2
  <1>30. CASE UNCHANGED vars
    BY <1>30 DEF vars, serverVars, fileVars, boundVars, obsVars
  <1>31. CASE AdoptSide
    BY <1>31 DEF AdoptSide, boundVars, obsVars
  <1>. QED BY <1>1, <1>2, <1>3, <1>4, <1>5, <1>6, <1>7, <1>8, <1>9, <1>10, <1>11, <1>12, <1>13, <1>14, <1>15, <1>16, <1>17, <1>18, <1>19, <1>20, <1>21, <1>22, <1>23, <1>24, <1>25, <1>26, <1>27, <1>28, <1>29, <1>30, <1>31 DEF Next, ServerStep, ToolStep

LEMMA CommandingStep == TypeOK /\ Plain /\ Control /\ Beside /\ Synthesis /\ [Next]_vars => Commanding'
  <1>. SUFFICES ASSUME TypeOK, Plain, Control, Beside, Synthesis, [Next]_vars PROVE Commanding'
    OBVIOUS
  <1>. USE NoFacts, PlaceTypes DEF TypeOK, Commanding, Backing, Restoring, Serving, Control
  <1>1. CASE Flip
    BY <1>1 DEF Flip, serverVars, fileVars, boundVars, obsVars
  <1>2. CASE TouchZero
    BY <1>2 DEF TouchZero, Places, Live, serverVars, fileVars, boundVars, obsVars
  <1>3. CASE BootSingle
    BY <1>3, OpenedEffect DEF BootSingle, Places, Live, serverVars, fileVars, boundVars, obsVars
  <1>4. CASE BootMulti
    BY <1>4 DEF BootMulti, serverVars, fileVars, boundVars, obsVars
  <1>5. CASE Adopt
    BY <1>5 DEF Adopt, Places, Live, serverVars, fileVars, boundVars, obsVars
  <1>6. CASE AdoptDB
    BY <1>6, AdoptDBEffect DEF Left, Places, Live
  <1>7. CASE AdoptMem
    <2>1. tool' = tool /\ db' = db /\ dir' = dir /\ server = "moveMem"
      BY <1>7 DEF AdoptMem
    <2>2. ~Restoring
      BY <2>1
    <2>3. CopyOf[tool.place] \in broken => CopyOf[tool.place] \in broken'
      BY <1>7, ToolTypes DEF AdoptMem
    <2>. QED BY <2>1, <2>2, <2>3
  <1>8. CASE Contact
    BY <1>8, OpenedEffect DEF Contact, Places, Live, serverVars, fileVars, boundVars, obsVars
  <1>9. CASE Down
    BY <1>9, DownEffect DEF Left, NoPass, Places, Live
  <1>10. CASE \E t \in Tokens : SaveFacts(t)
    BY <1>10, SaveFactsEffect DEF SaveFacts, serverVars, fileVars, boundVars, obsVars
  <1>11. CASE ReadFacts
    BY <1>11 DEF ReadFacts, serverVars, fileVars, boundVars, obsVars
  <1>12. CASE WriteBody
    BY <1>12, WriteBodyEffect DEF WriteBody, serverVars, fileVars, boundVars, obsVars
  <1>13. CASE WriteRow
    <2>1. UNCHANGED <<tool, dir, broken, server>> /\ server # "down"
      BY <1>13 DEF WriteRow, Synthesis, serverVars, fileVars, boundVars, obsVars
    <2>2. ~Restoring
      BY <2>1
    <2>3. db'["tenant"].kind = db["tenant"].kind
      BY <1>13, WriteRowEffect DEF Places, Live
    <2>. QED BY <2>1, <2>2, <2>3
  <1>14. CASE StartBackup
    <2>1. Begin("remove", FALSE, 0)
      BY <1>14, AfterValues DEF StartBackup
    <2>2. 0 \in Stamps
      BY BoundTypes DEF Stamps
    <2>3. tool'.at = "remove" /\ tool'.place = Here
      BY <2>1, <2>2, BeginEffect
    <2>4. UNCHANGED <<db, dir, server>> /\ broken' = broken \cup {CopyOf[Here]} /\ db[Here] # NoFile
      BY <1>14 DEF StartBackup, serverVars, fileVars, boundVars, obsVars
    <2>5. Here = "tenant" => db["tenant"].kind # "none"
      BY <2>4, KindOf DEF Places, Live
    <2>. QED BY <2>3, <2>4, <2>5
  <1>15. CASE BackupRemove
    BY <1>15, GoOnEffect, AfterValues, ToolTypes DEF BackupRemove, serverVars, fileVars, boundVars, obsVars
  <1>16. CASE BackupFails
    BY <1>16, ContinueEffect DEF BackupFails, serverVars, fileVars, boundVars, obsVars
  <1>17. CASE BackupSnapshot
    BY <1>17, BackupSnapshotEffect, ToolTypes DEF BackupSnapshot, serverVars, fileVars, boundVars, obsVars
  <1>18. CASE BackupFiles
    BY <1>18, BackupFilesEffect, ToolTypes DEF BackupFiles, serverVars, fileVars, boundVars, obsVars
  <1>19. CASE \E force \in BOOLEAN : StartRestore(force)
    <2>. PICK force \in BOOLEAN : StartRestore(force)
      BY <1>19
    <2>1. PICK stamp \in Stamps : Begin(IF multi THEN "tree" ELSE "db", force, stamp)
      <3>1. (IF force THEN now' ELSE 0) \in Stamps
        <4>1. CASE force
          BY <4>1, BoundTypes DEF StartRestore, Stamps
        <4>2. CASE ~force
          BY <4>2, BoundTypes DEF Stamps
        <4>. QED BY <4>1, <4>2
      <3>. QED BY <3>1 DEF StartRestore
    <2>2. UNCHANGED <<db, dir, server, broken>> /\ Looks /\ server = "down"
      BY DEF StartRestore, serverVars, fileVars, boundVars, obsVars
    <2>3. CASE multi
      <3>1. tool'.at = "tree" /\ tool'.place = "tenant"
        BY <2>1, <2>3, BeginEffect DEF Here
      <3>. QED BY <2>2, <2>3, <3>1 DEF Looks
    <2>4. CASE ~multi
      <3>1. tool'.at = "db" /\ tool'.place = "legacy"
        BY <2>1, <2>4, BeginEffect DEF Here
      <3>2. db["single"].kind # "none"
        BY <2>2, <2>4, KindOf DEF Looks, Places
      <3>. QED BY <2>2, <2>4, <3>1, <3>2 DEF Looks
    <2>. QED BY <2>3, <2>4
  <1>20. CASE RestoreRefused
    BY <1>20, ContinueEffect DEF RestoreRefused, serverVars, fileVars, boundVars, obsVars
  <1>21. CASE MoveAsideDB
    BY <1>21, MoveAsideDBEffect DEF MoveAsideDB, Places, Live, serverVars, fileVars, boundVars, obsVars
  <1>22. CASE MoveAsideMem
    BY <1>22, MoveAsideMemEffect DEF MoveAsideMem, Places, Live, serverVars, fileVars, boundVars, obsVars
  <1>23. CASE MoveAsideTree
    BY <1>23, MoveAsideTreeEffect DEF MoveAsideTree, Places, Live, serverVars, fileVars, boundVars, obsVars
  <1>24. CASE RestoreDB
    <2>1. server = "down" /\ db["legacy"].kind = "none" /\ db'["single"] = db["single"]
      BY <1>24, RestoreDBEffect, Stopped DEF Places
    <2>2. parted' \/ db'["legacy"] = db'["single"]
      BY <1>24, <2>1, RestoreDBEffect DEF Beside
    <2>3. db'["legacy"].kind = db'["single"].kind
      BY <1>24, <2>1, RestoreDBEffect DEF Left
    <2>. QED BY <1>24, <2>1, <2>2, <2>3, RestoreDBEffect
  <1>25. CASE RestoreMem
    BY <1>25, ContinueEffect DEF RestoreMem, Places, Live, Restored, CopyOf, serverVars, fileVars, boundVars, obsVars
  <1>26. CASE RestoreTree
    BY <1>26, GoOnEffect DEF RestoreTree, Places, Live, serverVars, fileVars, boundVars, obsVars
  <1>27. CASE RestoreTreeDB
    BY <1>27, GoOnEffect DEF RestoreTreeDB, Places, Live, serverVars, fileVars, boundVars, obsVars
  <1>28. CASE RestoreTreeMem
    BY <1>28, ContinueEffect DEF RestoreTreeMem, Places, Live, Restored, CopyOf, serverVars, fileVars, boundVars, obsVars
  <1>29. CASE Break
    BY <1>29, ContinueEffect, ToolTypes DEF Break, serverVars, fileVars, boundVars, obsVars
  <1>30. CASE UNCHANGED vars
    BY <1>30 DEF vars, serverVars, fileVars, boundVars, obsVars
  <1>31. CASE AdoptSide
    BY <1>31 DEF AdoptSide, boundVars, obsVars
  <1>. QED BY <1>1, <1>2, <1>3, <1>4, <1>5, <1>6, <1>7, <1>8, <1>9, <1>10, <1>11, <1>12, <1>13, <1>14, <1>15, <1>16, <1>17, <1>18, <1>19, <1>20, <1>21, <1>22, <1>23, <1>24, <1>25, <1>26, <1>27, <1>28, <1>29, <1>30, <1>31 DEF Next, ServerStep, ToolStep

\* A journal that an adoption has left behind has parted from its database.
LEMMA BesideStep ==
  ASSUME TypeOK, Plain, Control, Beside, Synthesis, [Next]_vars
  PROVE  Beside'
  <1>. USE NoFacts, PlaceTypes, ToolTypes DEF TypeOK, Beside
  <1>1. CASE UNCHANGED vars \/ Flip \/ BootMulti \/ Adopt \/ AdoptMem \/ ReadFacts \/ WriteBody
    BY <1>1 DEF vars, Flip, BootMulti, Adopt, AdoptMem, ReadFacts, WriteBody, fileVars, serverVars, obsVars, Control, Serving
  <1>2. CASE StartBackup \/ BackupFails \/ BackupFiles \/ (\E force \in BOOLEAN : StartRestore(force)) \/ RestoreRefused
    BY <1>2 DEF StartBackup, BackupFails, BackupFiles, StartRestore, RestoreRefused, fileVars, serverVars, obsVars
  <1>3. CASE MoveAsideMem \/ RestoreMem \/ RestoreTree \/ RestoreTreeMem
    BY <1>3 DEF MoveAsideMem, RestoreMem, RestoreTree, RestoreTreeMem, serverVars, obsVars
  <1>4. CASE TouchZero
    BY <1>4 DEF TouchZero, Settled, Places, Live
  <1>5. CASE BootSingle
    BY <1>5, OpenedEffect DEF BootSingle, Live
  <1>6. CASE Contact
    <2>1. hot'["legacy"] = hot["legacy"] /\ db'["legacy"] = db["legacy"]
      BY <1>6, OpenedEffect, SettledType DEF Contact, Places, Live
    <2>. QED BY <1>6, <2>1 DEF Contact, obsVars
  <1>7. CASE AdoptDB
    <2>1. hot["legacy"] \in {"journal", "wal", "none"}
      BY DirectoryAssumption DEF DirectoryAssumption, Live
    <2>. QED BY <1>7, <2>1, AdoptDBEffect
  <1>8. CASE AdoptSide
    <2>1. CASE hot["legacy"] = "wal"
      BY <1>8, <2>1 DEF AdoptSide, Settled, Live
    <2>2. CASE hot["legacy"] # "wal"
      BY <1>8, <2>2 DEF AdoptSide, obsVars
    <2>. QED BY <2>1, <2>2
  <1>9. CASE Down
    <2>1. CASE open /\ ~multi
      <3>1. db["legacy"].kind = "db" /\ db'["legacy"] = db["legacy"]
        BY <1>9, <2>1, DownEffect DEF Control, Held, Here, Places, Live
      <3>. QED BY <3>1
    <2>2. CASE ~open \/ multi
      <3>1. hot'["legacy"] = hot["legacy"] /\ db'["legacy"] = db["legacy"]
        BY <1>9, <2>2, DownEffect DEF Places, Live
      <3>. QED BY <1>9, <3>1, DownEffect
    <2>. QED BY <2>1, <2>2
  <1>10. CASE \E t \in Tokens : SaveFacts(t)
    BY <1>10, SaveFactsEffect DEF SaveFacts, serverVars, Places, Live
  <1>11. CASE WriteRow
    BY <1>11, WriteRowEffect DEF WriteRow, obsVars, Places, Live
  <1>12. CASE BackupRemove
    BY <1>12, RemoveEffect DEF Places, Live
  <1>13. CASE BackupSnapshot
    <2>1. hot' = Settled(tool.place) /\ UNCHANGED <<server, parted>>
      BY <1>13 DEF BackupSnapshot, serverVars
    <2>2. CASE tool.place = "legacy"
      BY <2>1, <2>2 DEF Settled, Live
    <2>3. CASE tool.place = "tenant"
      <3>1. hot'["legacy"] = hot["legacy"] /\ db'["legacy"] = db["legacy"]
        BY <1>13, <2>1, <2>3, BackupSnapshotEffect, SettledType DEF Places, Live
      <3>. QED BY <2>1, <3>1
    <2>. QED BY <2>2, <2>3 DEF Live
  <1>14. CASE MoveAsideDB
    BY <1>14, MoveAsideDBEffect DEF MoveAsideDB
  <1>15. CASE MoveAsideTree
    BY <1>15 DEF MoveAsideTree, Settled, serverVars, Places, Live
  <1>16. CASE RestoreDB
    <2>1. db["single"].kind # "none"
      BY <1>16, RestoreDBEffect DEF Control, Commanding
    <2>. QED BY <1>16, <2>1, RestoreDBEffect DEF Left
  <1>17. CASE RestoreTreeDB
    <2>1. db'["legacy"] = db["legacy"]
      BY <1>17 DEF RestoreTreeDB, Places, Live
    <2>. QED BY <1>17, <2>1 DEF RestoreTreeDB, serverVars, obsVars
  <1>18. CASE Break
    BY <1>18, BreakEffect DEF Places, Live
  <1>. QED
    BY <1>1, <1>2, <1>3, <1>4, <1>5, <1>6, <1>7, <1>8, <1>9, <1>10, <1>11, <1>12, <1>13, <1>14, <1>15, <1>16, <1>17,
       <1>18
    DEF Next, ServerStep, ToolStep

\* What the server serves is its own while it serves it.
ToolOnly == TouchZero \/ ToolStep

LEMMA Undisturbed ==
  ASSUME TypeOK, Plain, Control, open, ToolOnly
  PROVE  multi' = multi /\ open' = open /\ pass' = pass /\ db'[Here] = db[Here] /\ mem'[Here] = mem[Here]
  <1>. USE NoFacts, PlaceTypes DEF TypeOK, Control, Held
  <1>1. CASE TouchZero
    BY <1>1 DEF TouchZero, Places, Live, serverVars, fileVars, boundVars, obsVars
  <1>2. CASE StartBackup
    BY <1>2, BeginEffect, AfterValues DEF StartBackup, Stamps, serverVars, fileVars, boundVars, obsVars
  <1>3. CASE BackupRemove
    BY <1>3, RemoveEffect, ToolTypes
  <1>4. CASE BackupFails
    BY <1>4, ContinueEffect DEF BackupFails, serverVars, fileVars, boundVars, obsVars
  <1>5. CASE BackupSnapshot
    BY <1>5, BackupSnapshotEffect, ToolTypes DEF BackupSnapshot, serverVars, fileVars, boundVars, obsVars
  <1>6. CASE BackupFiles
    BY <1>6, BackupFilesEffect, ToolTypes DEF BackupFiles, serverVars, fileVars, boundVars, obsVars
  <1>7. CASE \E force \in BOOLEAN : StartRestore(force)
    BY <1>7, BeginEffect DEF Stamps, StartRestore, serverVars, fileVars, boundVars, obsVars
  <1>8. CASE RestoreRefused
    BY <1>8, ContinueEffect DEF RestoreRefused, serverVars, fileVars, boundVars, obsVars
  <1>9. CASE MoveAsideDB
    BY <1>9, Stopped DEF MoveAsideDB, Restoring
  <1>10. CASE MoveAsideMem
    BY <1>10, Stopped DEF MoveAsideMem, Restoring
  <1>11. CASE MoveAsideTree
    BY <1>11, Stopped DEF MoveAsideTree, Restoring
  <1>12. CASE RestoreDB
    BY <1>12, Stopped DEF RestoreDB, Restoring
  <1>13. CASE RestoreMem
    BY <1>13, Stopped DEF RestoreMem, Restoring
  <1>14. CASE RestoreTree
    BY <1>14, Stopped DEF RestoreTree, Restoring
  <1>15. CASE RestoreTreeDB
    BY <1>15, Stopped DEF RestoreTreeDB, Restoring
  <1>16. CASE RestoreTreeMem
    BY <1>16, Stopped DEF RestoreTreeMem, Restoring
  <1>17. CASE Break
    BY <1>17, BreakEffect, Stopped DEF Restoring
  <1>. QED BY <1>1, <1>2, <1>3, <1>4, <1>5, <1>6, <1>7, <1>8, <1>9, <1>10, <1>11, <1>12, <1>13, <1>14, <1>15, <1>16, <1>17 DEF ToolOnly, ToolStep

LEMMA SynthesisKept ==
  ASSUME Synthesis, pass' = pass,
         pass.at # "none" => open' = open /\ multi' = multi /\ db'[Here] = db[Here] /\ mem'[Here] = mem[Here]
  PROVE  Synthesis'
  BY DEF Synthesis, Covered, Here

LEMMA SynthesisStep == TypeOK /\ Plain /\ Control /\ Synthesis /\ [Next]_vars => Synthesis'
  <1>. SUFFICES ASSUME TypeOK, Plain, Control, Synthesis, [Next]_vars PROVE Synthesis'
    OBVIOUS
  <1>1. pass.at # "none" => open /\ server = "up"
    BY DEF Synthesis, TypeOK
  <1>2. CASE ToolOnly
    <2>1. pass' = pass
      BY <1>2, BreakEffect, RemoveEffect DEF ToolOnly, ToolStep, TouchZero, StartBackup, BackupFails, BackupSnapshot,
         BackupFiles, StartRestore, RestoreRefused, MoveAsideDB, MoveAsideMem, MoveAsideTree, RestoreDB, RestoreMem,
         RestoreTree, RestoreTreeDB, RestoreTreeMem, serverVars
    <2>. QED BY <1>1, <1>2, <2>1, Undisturbed, SynthesisKept
  <1>3. CASE Flip \/ BootSingle \/ BootMulti \/ Adopt \/ AdoptDB \/ AdoptSide \/ AdoptMem \/ Contact
    <2>1. ~open /\ pass' = pass
      BY <1>3 DEF TypeOK, Flip, BootSingle, BootMulti, Adopt, AdoptDB, AdoptSide, AdoptMem, Contact, serverVars
    <2>. QED BY <1>1, <2>1, SynthesisKept
  <1>4. CASE Down
    BY <1>4 DEF Down, NoPass, Synthesis
  <1>5. CASE \E t \in Tokens : SaveFacts(t)
    <2>. PICK t \in Tokens : SaveFacts(t)
      BY <1>5
    <2>1. UNCHANGED <<multi, open, pass, mem>>
      BY DEF SaveFacts, serverVars
    <2>2. db[Here].facts \in Seq(Tokens) /\ pass.n \in Nat
      BY PlaceTypes DEF TypeOK, Database
    <2>3. db'[Here].mark = db[Here].mark /\ db'[Here].facts = Append(db[Here].facts, t)
      BY SaveFactsEffect
    <2>4. Len(db'[Here].facts) = Len(db[Here].facts) + 1
          /\ \A i \in 1..Len(db[Here].facts) : db'[Here].facts[i] = db[Here].facts[i]
      BY <2>2, <2>3
    <2>5. pass.at # "none" => open' /\ db'[Here].mark <= pass.n /\ pass.n <= Len(db'[Here].facts)
      BY <2>1, <2>2, <2>3, <2>4 DEF Synthesis
    <2>6. pass.at = "renamed" => \A i \in 1..pass.n : db'[Here].facts[i] \in mem[Here].has
      BY <2>2, <2>4 DEF Synthesis, Covered
    <2>. QED BY <2>1, <2>5, <2>6 DEF Synthesis, Covered, Here
  <1>6. CASE ReadFacts
    <2>1. db[Here].facts \in Seq(Tokens) /\ db[Here].mark \in Nat
      BY PlaceTypes DEF TypeOK, Database
    <2>2. pass'.at = "calling" /\ pass'.n = Len(db[Here].facts) /\ UNCHANGED <<multi, open, db, mem>> /\ open
          /\ Len(db[Here].facts) > db[Here].mark
      BY <1>6 DEF ReadFacts, fileVars
    <2>. QED BY <2>1, <2>2 DEF Synthesis, Here
  <1>7. CASE WriteBody
    <2>1. UNCHANGED <<multi, open, db>> /\ pass.at = "calling"
      BY <1>7 DEF WriteBody
    <2>2. pass'.at = "renamed" /\ pass'.n = pass.n /\ mem'[Here].has = Read
      BY <1>7, WriteBodyEffect
    <2>. QED BY <2>1, <2>2 DEF Synthesis, Covered, Read, Here
  <1>8. CASE WriteRow
    BY <1>8 DEF WriteRow, NoPass, Synthesis
  <1>9. CASE UNCHANGED vars
    BY <1>9, SynthesisKept DEF vars, serverVars, fileVars
  <1>. QED BY <1>2, <1>3, <1>4, <1>5, <1>6, <1>7, <1>8, <1>9 DEF Next, ServerStep, ToolOnly

-----------------------------------------------------------------------------
(* Nothing is lost.                                                        *)

\* The database of a place keeps its facts, or has none.
Kept(p) == db[p].facts = <<>> \/ db'[p].facts = db[p].facts

Moves == AdoptDB \/ MoveAsideDB \/ MoveAsideTree \/ \E t \in Tokens : SaveFacts(t)

LEMMA NothingMoved ==
  ASSUME TypeOK, Plain, Control, Synthesis, [Next]_vars, ~Moves, ~parted'
  PROVE  /\ \A p \in Live : Kept(p)
         /\ \A a \in Live \X Stamps : aside'[a].db = aside[a].db
         /\ learned' = learned /\ clashed' = clashed /\ ~parted
  <1>. USE NoFacts, PlaceTypes, ToolTypes DEF TypeOK, Kept, serverVars, fileVars, boundVars, obsVars
  <1>1. CASE UNCHANGED vars
    BY <1>1 DEF vars
  <1>2. CASE Flip \/ BootMulti \/ Adopt \/ AdoptSide \/ AdoptMem \/ ReadFacts \/ WriteBody
    BY <1>2 DEF Flip, BootMulti, Adopt, AdoptSide, AdoptMem, ReadFacts, WriteBody
  <1>3. CASE StartBackup \/ BackupFails \/ BackupFiles \/ (\E force \in BOOLEAN : StartRestore(force)) \/ RestoreRefused
    BY <1>3 DEF StartBackup, BackupFails, BackupFiles, StartRestore, RestoreRefused
  <1>4. CASE RestoreMem \/ RestoreTree \/ RestoreTreeMem
    BY <1>4 DEF RestoreMem, RestoreTree, RestoreTreeMem
  <1>5. CASE MoveAsideMem
    BY <1>5, MoveAsideMemEffect DEF MoveAsideMem
  <1>6. CASE TouchZero
    BY <1>6 DEF TouchZero, Places, Live
  <1>7. CASE BootSingle
    BY <1>7, OpenedEffect DEF BootSingle, Live
  <1>8. CASE Contact
    BY <1>8, OpenedEffect DEF Contact, Live
  <1>9. CASE WriteRow
    BY <1>9, WriteRowEffect DEF WriteRow
  <1>10. CASE BackupRemove
    BY <1>10, RemoveEffect
  <1>11. CASE BackupSnapshot
    BY <1>11, BackupSnapshotEffect DEF BackupSnapshot, Plain
  <1>12. CASE RestoreDB
    BY <1>12, RestoreDBEffect DEF Places, Live
  <1>13. CASE RestoreTreeDB
    BY <1>13 DEF RestoreTreeDB, Control, Commanding, Plain, Places, Live
  <1>14. CASE Break
    BY <1>14, BreakEffect DEF Control, Commanding, Plain, Live
  <1>15. CASE Down
    BY <1>15, DownEffect
  <1>. QED
    BY <1>15, <1>1, <1>2, <1>3, <1>4, <1>5, <1>6, <1>7, <1>8, <1>9, <1>10, <1>11, <1>12, <1>13, <1>14
    DEF Next, ServerStep, ToolStep, Moves

\* A fact that some database holds.
Found(t) ==
    \/ \E p \in Live : t \in FactsIn(db[p])
    \/ \E a \in Live \X Stamps : t \in FactsIn(aside[a].db)

LEMMA LostMeans ==
  ASSUME TypeOK
  PROVE  NothingLost <=> clashed \/ parted \/ \A t \in learned : Found(t)
  <1>1. DOMAIN aside = Live \X Stamps
    BY DEF TypeOK
  <1>. QED BY <1>1 DEF NothingLost, Found

LEMMA FactsOf ==
  ASSUME NEW c, NEW d
  PROVE  /\ c.facts = d.facts => FactsIn(c) = FactsIn(d)
         /\ c.facts = <<>> => FactsIn(c) = {}
  BY DEF FactsIn, ToSet

LEMMA AppendFacts ==
  ASSUME NEW s \in Seq(Tokens), NEW t \in Tokens
  PROVE  ToSet(Append(s, t)) = ToSet(s) \cup {t}
  <1>1. /\ DOMAIN Append(s, t) = 1..(Len(s) + 1) /\ DOMAIN s = 1..Len(s)
        /\ Append(s, t)[Len(s) + 1] = t /\ Len(s) + 1 \in 1..(Len(s) + 1)
        /\ \A i \in 1..Len(s) : Append(s, t)[i] = s[i] /\ i \in 1..(Len(s) + 1)
        /\ \A i \in 1..(Len(s) + 1) : i \in 1..Len(s) \/ i = Len(s) + 1
    OBVIOUS
  <1>2. \A u : u \in ToSet(Append(s, t)) <=> u \in ToSet(s) \/ u = t
    BY <1>1, Zenon DEF ToSet
  <1>. QED BY <1>2

\* What has parted once has parted.
LEMMA NotParted ==
  ASSUME TypeOK, Plain, Control, Synthesis, [Next]_vars, ~parted'
  PROVE  ~parted
  BY NothingMoved, AdoptDBEffect, MoveAsideDBEffect DEF Moves, MoveAsideTree, SaveFacts

LEMMA LostStep ==
  ASSUME TypeOK, TypeOK', Plain, Control, Synthesis, NothingLost, [Next]_vars
  PROVE  NothingLost'
  <1>. USE PlaceTypes, NoFacts, FactsOf
  <1>1. DOMAIN aside' = Live \X Stamps
    BY DEF TypeOK
  <1>2. SUFFICES ASSUME ~parted' PROVE clashed' \/ \A t \in learned' : Found(t)'
    BY <1>1 DEF NothingLost, Found
  <1>0. ~parted
    BY <1>2, NotParted
  <1>3. clashed \/ \A t \in learned : Found(t)
    BY <1>0, LostMeans
  <1>4. CASE ~Moves
    <2>1. /\ \A p \in Live : FactsIn(db[p]) = {} \/ FactsIn(db'[p]) = FactsIn(db[p])
          /\ \A a \in Live \X Stamps : aside'[a].db = aside[a].db
          /\ learned' = learned /\ clashed' = clashed
      BY <1>2, <1>4, NothingMoved DEF Kept
    <2>. QED BY <1>3, <2>1, Zenon DEF Found
  <1>5. CASE AdoptDB
    <2>1. db["tenant"].facts = <<>> /\ server = "moveDB"
      BY <1>5, AdoptDBEffect DEF Control, Serving, Plain, Places, Live
    <2>2. /\ FactsIn(db["tenant"]) = {} /\ db'["tenant"] = db["legacy"]
          /\ UNCHANGED <<aside, learned, clashed>>
      BY <1>2, <1>5, <2>1, AdoptDBEffect
    <2>. QED BY <1>3, <2>2, Zenon DEF Found, Live
  <1>6. CASE MoveAsideDB
    <2>1. /\ learned' = learned /\ clashed' = (clashed \/ aside[Aside].db # NoFile)
          /\ db'["tenant"] = db["tenant"] /\ aside'[Aside].db = db["legacy"]
          /\ \A a \in (Live \X Stamps) \ {Aside} : aside'[a] = aside[a]
      BY <1>2, <1>6, MoveAsideDBEffect DEF MoveAsideDB, TypeOK, Places, Live
    <2>2. CASE clashed'
      BY <2>2
    <2>3. CASE ~clashed'
      <3>1. ~clashed /\ FactsIn(aside[Aside].db) = {}
        BY <2>1, <2>3
      <3>2. ASSUME NEW t \in learned PROVE Found(t)'
        <4>1. CASE t \in FactsIn(db["legacy"])
          BY <4>1, <2>1, ToolTypes, Zenon DEF Found
        <4>2. CASE t \in FactsIn(db["tenant"])
          BY <4>2, <2>1, Zenon DEF Found, Live
        <4>3. CASE \E a \in Live \X Stamps : t \in FactsIn(aside[a].db)
          BY <4>3, <2>1, <3>1, Zenon DEF Found
        <4>. QED BY <1>3, <3>1, <4>1, <4>2, <4>3, Zenon DEF Found, Live
      <3>. QED BY <2>1, <3>2
    <2>. QED BY <2>2, <2>3
  <1>7. CASE MoveAsideTree
    <2>1. /\ learned' = learned /\ clashed' = clashed
          /\ db'["legacy"] = db["legacy"] /\ aside'[Aside].db = db["tenant"]
          /\ aside[Aside].db = NoFile
          /\ \A a \in (Live \X Stamps) \ {Aside} : aside'[a] = aside[a]
      BY <1>7, MoveAsideTreeEffect DEF MoveAsideTree, TypeOK, Places, Live
    <2>2. ASSUME ~clashed, NEW t \in learned PROVE Found(t)'
      <3>1. FactsIn(aside[Aside].db) = {}
        BY <2>1
      <3>2. CASE t \in FactsIn(db["tenant"])
        BY <3>2, <2>1, ToolTypes, Zenon DEF Found
      <3>3. CASE t \in FactsIn(db["legacy"])
        BY <3>3, <2>1, Zenon DEF Found, Live
      <3>4. CASE \E a \in Live \X Stamps : t \in FactsIn(aside[a].db)
        BY <3>4, <2>1, <3>1, Zenon DEF Found
      <3>. QED BY <1>3, <2>2, <3>2, <3>3, <3>4, Zenon DEF Found, Live
    <2>. QED BY <2>1, <2>2
  <1>8. CASE \E t \in Tokens : SaveFacts(t)
    <2>. PICK t \in Tokens : SaveFacts(t)
      BY <1>8
    <2>1. learned' = learned \cup {t} /\ UNCHANGED <<aside, clashed>>
      BY DEF SaveFacts
    <2>2. FactsIn(db'[Here]) = FactsIn(db[Here]) \cup {t}
      <3>1. db[Here].facts \in Seq(Tokens) /\ db'[Here].facts = Append(db[Here].facts, t)
        BY SaveFactsEffect DEF TypeOK, Database
      <3>. QED BY <3>1, AppendFacts DEF FactsIn
    <2>3. \A p \in Live \ {Here} : db'[p] = db[p]
      BY SaveFactsEffect
    <2>4. ASSUME NEW u \in learned', ~clashed PROVE Found(u)'
      <3>1. CASE u = t
        BY <3>1, <2>2, Zenon DEF Found
      <3>2. CASE u # t
        <4>1. Found(u)
          BY <1>3, <2>1, <2>4, <3>2
        <4>. QED BY <4>1, <2>1, <2>2, <2>3, Zenon DEF Found
      <3>. QED BY <3>1, <3>2
    <2>. QED BY <2>1, <2>4
  <1>. QED BY <1>4, <1>5, <1>6, <1>7, <1>8 DEF Moves

-----------------------------------------------------------------------------
(* Copies are whole.                                                       *)

\* A place hides no fact.
Whole(p) == Covered(db[p], db[p].mark, mem[p])

LEMMA WholeMeans == CopiesWhole <=> parted \/ \A p \in Places \ broken : Whole(p)
  BY DEF CopiesWhole, Whole, Covered

\* A step that leaves a place as it is, or without a watermark, leaves it whole.
Same(p) == db'[p].facts = db[p].facts /\ db'[p].mark = db[p].mark

LEMMA WholeKept ==
  ASSUME NEW p, Whole(p), Same(p), mem[p].has \subseteq mem'[p].has
  PROVE  Whole(p)'
  BY DEF Whole, Covered, Same

LEMMA WholeEmpty ==
  ASSUME NEW p, db'[p].mark = 0
  PROVE  Whole(p)'
  BY DEF Whole, Covered

\* What neither learns nor synthesizes nor moves a database leaves all as they are.
Writes == AdoptDB \/ WriteRow \/ \E t \in Tokens : SaveFacts(t)

LEMMA SameAll ==
  ASSUME TypeOK, Plain, Control, Synthesis, TouchZero \/ Flip \/ ServerStep \/ UNCHANGED vars, ~Writes, ~parted'
  PROVE  \A p \in Places : Same(p)
  <1>. USE NoFacts, PlaceTypes DEF TypeOK, Same, serverVars, fileVars, boundVars, obsVars
  <1>1. CASE UNCHANGED vars
    BY <1>1 DEF vars
  <1>2. CASE Flip \/ BootMulti \/ Adopt \/ AdoptSide \/ AdoptMem \/ ReadFacts \/ WriteBody
    BY <1>2 DEF Flip, BootMulti, Adopt, AdoptSide, AdoptMem, ReadFacts, WriteBody
  <1>3. CASE TouchZero
    BY <1>3 DEF TouchZero, Places, Live
  <1>4. CASE BootSingle
    BY <1>4, OpenedEffect DEF BootSingle, Live
  <1>5. CASE Contact
    BY <1>5, OpenedEffect DEF Contact, Live
  <1>6. CASE Down
    BY <1>6, DownEffect
  <1>. QED BY <1>6, <1>1, <1>2, <1>3, <1>4, <1>5 DEF ServerStep, Writes

\* What each write of the server does to the places.
LEMMA ServerWrites ==
  ASSUME TypeOK, Plain, Control, Synthesis, WriteRow \/ \E t \in Tokens : SaveFacts(t)
  PROVE  /\ \A p \in Places \ {Here} : db'[p] = db[p]
         /\ db[Here].mark \in Nat /\ db[Here].mark <= Len(db[Here].facts)
         /\ db[Here].mark <= db'[Here].mark
         /\ db'[Here].kind = "db" /\ db[Here].kind = "db"
         /\ \A i \in 1..Len(db[Here].facts) : db'[Here].facts[i] = db[Here].facts[i]
         /\ UNCHANGED <<tool, server, broken, mem>>
  <1>1. db[Here].mark \in Nat /\ db[Here].mark <= Len(db[Here].facts) /\ db[Here].facts \in Seq(Tokens)
    BY PlaceTypes DEF TypeOK, Database
  <1>2. CASE WriteRow
    <2>1. db[Here].kind = "db" /\ db[Here].mark <= pass.n
      BY <1>2 DEF WriteRow, Synthesis, Control, Held
    <2>. QED BY <1>1, <1>2, <2>1, WriteRowEffect DEF WriteRow, obsVars
  <1>3. CASE \E t \in Tokens : SaveFacts(t)
    <2>. PICK t \in Tokens : SaveFacts(t)
      BY <1>3
    <2>1. db[Here].kind = "db"
      BY DEF SaveFacts, Control, Held
    <2>2. db'[Here].facts = Append(db[Here].facts, t) /\ db'[Here].mark = db[Here].mark
          /\ db'[Here].kind = db[Here].kind /\ \A p \in Places \ {Here} : db'[p] = db[p]
      BY SaveFactsEffect
    <2>3. UNCHANGED <<tool, server, broken, mem>>
      BY DEF SaveFacts, serverVars
    <2>. QED BY <1>1, <2>1, <2>2, <2>3
  <1>. QED BY <1>2, <1>3

LEMMA FollowsKept ==
  ASSUME NEW c, NEW d, NEW e, Follows(c, d), c.mark \in Int, d.mark \in Int, e.mark \in Int,
         Len(d.facts) \in Nat, d.mark <= Len(d.facts),
         d.mark <= e.mark, \A i \in 1..Len(d.facts) : e.facts[i] = d.facts[i]
  PROVE  Follows(c, e)
  BY DEF Follows

LEMMA FollowStep ==
  ASSUME TypeOK, TypeOK', Plain, Control, Synthesis, FilesFollow, [Next]_vars
  PROVE  FilesFollow'
  <1>. SUFFICES ASSUME ~parted' PROVE FilesFollow'
    BY DEF FilesFollow
  <1>0. ~parted
    BY NotParted
  <1>. USE PlaceTypes, ToolTypes, NoFacts
  <1>1. CASE BackupSnapshot
    <2>1. db'[CopyOf[tool.place]] = db'[tool.place] /\ tool'.place = tool.place
      BY <1>1, BackupSnapshotEffect
    <2>2. db'[tool.place].mark \in Nat
      BY DEF TypeOK, Database
    <2>. QED BY <2>1, <2>2 DEF FilesFollow, Follows
  <1>2. CASE ToolStep /\ ~BackupSnapshot
    <2>1. tool'.at # "files"
      <3>1. CASE StartBackup
        <4>1. Begin("remove", FALSE, 0)
          BY <3>1, AfterValues DEF StartBackup
        <4>2. 0 \in Stamps
          BY BoundTypes DEF Stamps
        <4>. QED BY <4>1, <4>2, BeginEffect
      <3>2. CASE \E force \in BOOLEAN : StartRestore(force)
        BY <3>2 DEF StartRestore, Begin
      <3>3. CASE BackupRemove
        BY <3>3, RemoveEffect
      <3>4. CASE BackupFails \/ BackupFiles \/ RestoreRefused \/ RestoreMem \/ RestoreTreeMem \/ Break
        BY <3>4, ContinueEffect, AfterValues DEF BackupFails, BackupFiles, RestoreRefused, RestoreMem, RestoreTreeMem, Break
      <3>5. CASE MoveAsideDB \/ MoveAsideMem \/ MoveAsideTree
        BY <3>5 DEF MoveAsideDB, MoveAsideMem, MoveAsideTree
      <3>6. CASE RestoreDB \/ RestoreTree \/ RestoreTreeDB
        BY <3>6, GoOnEffect DEF RestoreDB, RestoreTree, RestoreTreeDB
      <3>. QED BY <1>2, <3>1, <3>2, <3>3, <3>4, <3>5, <3>6 DEF ToolStep
    <2>. QED BY <2>1 DEF FilesFollow
  <1>3. CASE TouchZero \/ Flip \/ ServerStep \/ UNCHANGED vars
    <2>. SUFFICES ASSUME tool'.at = "files"
                  PROVE  \/ Follows(db'[CopyOf[tool'.place]], db'[tool'.place])
                         \/ tool'.place = "legacy" /\ db'["legacy"].kind # "db" /\ db'["tenant"].kind # "none"
      BY DEF FilesFollow
    <2>. DEFINE at == tool.place
    <2>1. tool' = tool /\ Backing
      BY <1>3 DEF TouchZero, Flip, ServerStep, BootSingle, BootMulti, Adopt, AdoptDB, AdoptSide, AdoptMem, Contact, Down,
         SaveFacts, ReadFacts, WriteBody, WriteRow, vars, Backing
    <2>2. \A p \in Places : /\ db[p].mark \in Nat /\ Len(db[p].facts) \in Nat /\ db[p].mark <= Len(db[p].facts)
                            /\ db'[p].mark \in Nat
      BY DEF TypeOK, Database
    <2>3. CASE ~Writes
      <3>1. \A p \in Places : Same(p)
        BY <1>3, <2>3, SameAll
      <3>2. CASE Follows(db[CopyOf[at]], db[at])
        BY <2>1, <3>1, <3>2 DEF Same, Follows
      <3>3. CASE at = "legacy" /\ db["legacy"].kind # "db" /\ db["tenant"].kind # "none"
        <4>1. db'["legacy"].kind # "db" /\ db'["tenant"].kind # "none"
          <5>1. ~BootSingle
            BY <3>3 DEF BootSingle, Refuses
          <5>2. CASE Contact
            BY <3>3, <5>2, OpenedEffect DEF Contact, Places, Live
          <5>3. CASE TouchZero
            BY <3>3, <5>3 DEF TouchZero, TypeOK, Places, Live
          <5>4. CASE ~Contact /\ ~TouchZero
            <6>1. db' = db
              BY <1>3, <2>3, <5>1, <5>4, DownEffect DEF ServerStep, Writes, Flip, BootMulti, Adopt, AdoptSide, AdoptMem, ReadFacts,
                 WriteBody, vars, fileVars
            <6>. QED BY <3>3, <6>1
          <5>. QED BY <5>2, <5>3, <5>4
        <4>. QED BY <2>1, <3>3, <4>1
      <3>. QED BY <1>0, <2>1, <3>2, <3>3 DEF FilesFollow
    <2>4. CASE AdoptDB
      <3>1. at = "legacy"
        BY <2>1, <2>4 DEF AdoptDB, Control, Serving, Commanding, Live
      <3>2. db'["legacy"].kind = "none" /\ db'["tenant"].kind # "none"
        BY <2>4, AdoptDBEffect DEF Left, Control, Serving
      <3>. QED BY <2>1, <3>1, <3>2
    <2>5. CASE WriteRow \/ \E t \in Tokens : SaveFacts(t)
      <3>1. CASE Follows(db[CopyOf[at]], db[at])
        <4>1. db'[CopyOf[at]] = db[CopyOf[at]]
          BY <2>5, ServerWrites
        <4>2. db[at].mark <= db'[at].mark /\ \A i \in 1..Len(db[at].facts) : db'[at].facts[i] = db[at].facts[i]
          <5>1. CASE at = Here
            BY <2>5, <5>1, ServerWrites
          <5>2. CASE at # Here
            BY <2>2, <2>5, <5>2, ServerWrites
          <5>. QED BY <5>1, <5>2
        <4>3. at \in Places /\ CopyOf[at] \in Places
          OBVIOUS
        <4>4. Follows(db[CopyOf[at]], db'[at])
          <5>. HIDE DEF at
          <5>. QED BY <2>2, <3>1, <4>2, <4>3, FollowsKept
        <4>. QED BY <2>1, <4>1, <4>4
      <3>2. CASE at = "legacy" /\ db["legacy"].kind # "db" /\ db["tenant"].kind # "none"
        BY <2>1, <2>5, <3>2, ServerWrites DEF Live
      <3>. QED BY <1>0, <2>1, <3>1, <3>2 DEF FilesFollow
    <2>. QED BY <2>3, <2>4, <2>5 DEF Writes
  <1>. QED BY <1>1, <1>2, <1>3 DEF Next

\* Beside an adoption only a backup runs, which leaves what it moves alone.
LEMMA BesideAdoption ==
  ASSUME TypeOK, Plain, Control, server \in {"moveSide", "moveMem"}, ToolOnly
  PROVE  /\ db'["tenant"] = db["tenant"] /\ mem'["legacy"] = mem["legacy"]
         /\ "legacy" \in broken => "legacy" \in broken'
  <1>. USE NoFacts, PlaceTypes, ToolTypes DEF TypeOK, Control, Serving, Places, Live
  <1>1. CASE TouchZero
    BY <1>1 DEF TouchZero, obsVars
  <1>2. CASE StartBackup \/ BackupFails \/ (\E force \in BOOLEAN : StartRestore(force)) \/ RestoreRefused
    BY <1>2 DEF StartBackup, BackupFails, StartRestore, RestoreRefused, fileVars, obsVars
  <1>3. CASE BackupRemove
    BY <1>3, RemoveEffect
  <1>4. CASE BackupSnapshot
    BY <1>4, BackupSnapshotEffect DEF BackupSnapshot
  <1>5. CASE BackupFiles
    BY <1>5, BackupFilesEffect DEF BackupFiles
  <1>6. CASE Break
    BY <1>6, BreakEffect, Stopped DEF Restoring
  <1>7. CASE MoveAsideDB \/ MoveAsideMem \/ MoveAsideTree \/ RestoreDB \/ RestoreMem \/ RestoreTree \/ RestoreTreeDB \/ RestoreTreeMem
    BY <1>7, Stopped DEF MoveAsideDB, MoveAsideMem, MoveAsideTree, RestoreDB, RestoreMem, RestoreTree, RestoreTreeDB,
       RestoreTreeMem, Restoring
  <1>. QED BY <1>1, <1>2, <1>3, <1>4, <1>5, <1>6, <1>7 DEF ToolOnly, ToolStep

LEMMA MemFollowsStep ==
  ASSUME TypeOK, Plain, Control, Synthesis, MemFollows, CopiesWhole, [Next]_vars
  PROVE  MemFollows'
  <1>. SUFFICES ASSUME server' \in {"moveSide", "moveMem"}, "legacy" \notin broken', ~parted'
                PROVE  Covered(db'["tenant"], db'["tenant"].mark, mem'["legacy"])
    BY DEF MemFollows
  <1>0. ~parted
    BY NotParted
  <1>1. CASE AdoptDB
    <2>1. db'["tenant"] = db["legacy"] /\ mem' = mem /\ "legacy" \notin broken
      BY <1>1, AdoptDBEffect
    <2>2. Whole("legacy")
      BY <1>0, <2>1, WholeMeans DEF Places, Live
    <2>. QED BY <2>1, <2>2 DEF Whole
  <1>2. CASE ToolOnly
    <2>1. server \in {"moveSide", "moveMem"}
      BY <1>2, BreakEffect, RemoveEffect DEF ToolOnly, ToolStep, TouchZero, StartBackup, BackupFails, BackupSnapshot,
         BackupFiles, StartRestore, RestoreRefused, MoveAsideDB, MoveAsideMem, MoveAsideTree, RestoreDB, RestoreMem,
         RestoreTree, RestoreTreeDB, RestoreTreeMem, serverVars
    <2>2. UNCHANGED <<db["tenant"], mem["legacy"]>> /\ "legacy" \notin broken
      BY <1>2, <2>1, BesideAdoption
    <2>. QED BY <1>0, <2>1, <2>2 DEF MemFollows
  <1>3. CASE AdoptSide \/ UNCHANGED vars
    BY <1>0, <1>3 DEF MemFollows, AdoptSide, vars, serverVars, fileVars, obsVars
  <1>4. CASE Flip \/ (ServerStep /\ ~AdoptDB /\ ~AdoptSide)
    BY <1>4 DEF Flip, ServerStep, BootSingle, BootMulti, Adopt, AdoptMem, Contact, Down, SaveFacts, ReadFacts, WriteBody,
       WriteRow, Synthesis, TypeOK, serverVars
  <1>. QED BY <1>1, <1>2, <1>3, <1>4 DEF Next, ToolOnly

\* A command leaves no place less whole than it was, or says so.
LEMMA ToolWhole ==
  ASSUME TypeOK, Plain, Control, Synthesis, FilesFollow, CopiesWhole, ToolStep, ~parted',
         NEW p \in Places, p \notin broken'
  PROVE  Whole(p)'
  <1>a. ~parted
    BY NotParted DEF Next
  <1>. USE PlaceTypes, ToolTypes, NoFacts
  <1>. DEFINE to == CopyOf[tool.place]
  <1>0. \A q \in Places : q \notin broken => Whole(q)
    BY <1>a, WholeMeans
  <1>1. CASE StartBackup \/ BackupFails \/ (\E force \in BOOLEAN : StartRestore(force)) \/ RestoreRefused \/ RestoreTree
    <2>1. db' = db /\ mem' = mem /\ p \notin broken
      BY <1>1 DEF StartBackup, BackupFails, StartRestore, RestoreRefused, RestoreTree, fileVars, obsVars
    <2>. QED BY <1>0, <2>1, WholeKept DEF Same
  <1>2. CASE BackupRemove
    <2>1. CASE p = to
      BY <1>2, <2>1, RemoveEffect, WholeEmpty
    <2>2. CASE p # to
      BY <1>0, <1>2, <2>2, RemoveEffect, WholeKept DEF Same
    <2>. QED BY <2>1, <2>2
  <1>3. CASE BackupSnapshot
    <2>1. p # to /\ p \notin broken /\ mem' = mem
      BY <1>3, BackupSnapshotEffect DEF BackupSnapshot, Control, Commanding, Backing
    <2>2. db'[p] = db[p] \/ db'[p].mark = 0
      BY <1>3, <2>1, BackupSnapshotEffect
    <2>. QED BY <1>0, <2>1, <2>2, WholeKept, WholeEmpty DEF Same
  <1>4. CASE BackupFiles
    <2>0. db' = db
      BY <1>4 DEF BackupFiles
    <2>1. CASE p = to
      <3>1. broken' # broken
        BY <1>4, <2>1 DEF BackupFiles, Control, Commanding, Backing
      <3>2. tool.place \notin broken /\ db[tool.place].kind = "db"
        BY <1>4, <3>1, BackupFilesEffect
      <3>3. Whole(tool.place) /\ Follows(db[to], db[tool.place])
        BY <1>0, <1>a, <1>4, <3>2 DEF FilesFollow, BackupFiles
      <3>4. db[to].mark \in Nat /\ db[tool.place].mark \in Nat
        BY DEF TypeOK, Database
      <3>5. Covered(db[to], db[to].mark, mem[tool.place])
        BY <3>3, <3>4 DEF Whole, Covered, Follows
      <3>6. CASE mem[tool.place].has # {}
        BY <1>4, <2>0, <2>1, <3>5, <3>6, BackupFilesEffect DEF Whole
      <3>7. CASE mem[tool.place].has = {}
        <4>1. db[to].mark = 0
          <5>1. 1 \notin 1..db[to].mark
            BY <3>5, <3>7 DEF Covered
          <5>. QED BY <3>4, <5>1
        <4>. QED BY <2>0, <2>1, <4>1, WholeEmpty
      <3>. QED BY <3>6, <3>7
    <2>2. CASE p # to
      <3>1. p \notin broken /\ mem'[p] = mem[p]
        BY <1>4, <2>2, BackupFilesEffect
      <3>. QED BY <1>0, <2>0, <3>1, WholeKept DEF Same
    <2>. QED BY <2>1, <2>2
  <1>5. CASE MoveAsideDB
    <2>1. db'["legacy"] = NoFile /\ \A q \in Places \ {"legacy"} : db'[q] = db[q]
      BY <1>5 DEF MoveAsideDB, TypeOK, Places, Live
    <2>2. mem' = mem /\ p \notin broken
      BY <1>5 DEF MoveAsideDB
    <2>. QED BY <1>0, <2>1, <2>2, WholeKept, WholeEmpty DEF Same
  <1>6. CASE MoveAsideMem
    <2>1. db' = db /\ p \notin broken /\ "legacy" \in broken
      <3>1. db' = db /\ broken' = broken /\ tool.at = "mem"
        BY <1>6 DEF MoveAsideMem, obsVars
      <3>. QED BY <3>1 DEF Control, Commanding
    <2>2. mem'[p] = mem[p]
      BY <1>6, <2>1 DEF MoveAsideMem, TypeOK
    <2>. QED BY <1>0, <2>1, <2>2, WholeKept DEF Same
  <1>7. CASE MoveAsideTree
    <2>1. /\ db'["tenant"] = NoFile
          /\ \A q \in Places \ {"tenant"} : db'[q] = db[q] /\ mem'[q] = mem[q]
      BY <1>7 DEF MoveAsideTree, TypeOK, Places, Live
    <2>2. p \notin broken
      BY <1>7 DEF MoveAsideTree
    <2>. QED BY <1>0, <2>1, <2>2, WholeKept, WholeEmpty DEF Same
  <1>8. CASE RestoreDB \/ RestoreTreeDB
    <2>1. mem' = mem /\ p \notin broken /\ tool.place \in broken' /\ tool.place = (IF tool.at = "db" THEN "legacy" ELSE "tenant")
      BY <1>8 DEF RestoreDB, RestoreTreeDB, obsVars, Control, Commanding
    <2>2. db'[p] = db[p]
      BY <1>8, <2>1, RestoreDBEffect DEF RestoreTreeDB, TypeOK
    <2>. QED BY <1>0, <2>1, <2>2, WholeKept DEF Same
  <1>9. CASE RestoreMem
    <2>0. db' = db
      BY <1>9 DEF RestoreMem
    <2>1. CASE p = "legacy"
      <3>a. "legacy" \in broken /\ db["legacy"] = db["single"]
        BY <1>a, <1>9 DEF RestoreMem, obsVars, Control, Commanding
      <3>1. "single" \notin broken /\ db["legacy"] = db["single"]
        BY <1>9, <2>1, <3>a DEF RestoreMem, Restored, CopyOf
      <3>2. Whole("single")
        BY <1>0, <3>1 DEF Places
      <3>3. CASE mem["single"].there
        <4>1. mem'["legacy"] = mem["single"]
          BY <1>9, <3>3 DEF RestoreMem, TypeOK, Places, Live
        <4>. QED BY <2>0, <2>1, <3>1, <3>2, <4>1 DEF Whole
      <3>4. CASE ~mem["single"].there
        <4>1. mem["single"].has = {}
          BY <3>4, Zenon DEF Plain, Places
        <4>. QED BY <2>0, <2>1, <3>1, <3>2, <4>1 DEF Whole, Covered
      <3>. QED BY <3>3, <3>4
    <2>2. CASE p # "legacy"
      <3>1. mem'[p] = mem[p] /\ p \notin broken
        BY <1>9, <2>2 DEF RestoreMem, Restored, TypeOK
      <3>. QED BY <1>0, <2>0, <3>1, WholeKept DEF Same
    <2>. QED BY <2>1, <2>2
  <1>10. CASE RestoreTreeMem
    <2>0. db' = db
      BY <1>10 DEF RestoreTreeMem
    <2>1. CASE p = "tenant"
      <3>1. "users" \notin broken /\ db["tenant"] = db["users"]
        BY <1>10, <2>1 DEF RestoreTreeMem, Restored, CopyOf, Control, Commanding
      <3>2. Whole("users") /\ mem'["tenant"] = mem["users"]
        BY <1>0, <1>10, <3>1 DEF RestoreTreeMem, TypeOK, Places, Live
      <3>. QED BY <2>0, <2>1, <3>1, <3>2 DEF Whole
    <2>2. CASE p # "tenant"
      <3>1. mem'[p] = mem[p] /\ p \notin broken
        BY <1>10, <2>2 DEF RestoreTreeMem, Restored, TypeOK
      <3>. QED BY <1>0, <2>0, <3>1, WholeKept DEF Same
    <2>. QED BY <2>1, <2>2
  <1>11. CASE Break
    <2>1. p \notin broken /\ mem' = mem /\ (db'[p] = db[p] \/ db'[p] = Zero)
      BY <1>11, BreakEffect
    <2>. QED BY <1>0, <2>1, WholeKept, WholeEmpty DEF Same
  <1>. QED BY <1>1, <1>2, <1>3, <1>4, <1>5, <1>6, <1>7, <1>8, <1>9, <1>10, <1>11 DEF ToolStep

LEMMA WholeStep ==
  ASSUME TypeOK, Plain, Control, Synthesis, FilesFollow, MemFollows, CopiesWhole, [Next]_vars
  PROVE  CopiesWhole'
  <1>. USE PlaceTypes, ToolTypes, NoFacts
  <1>. SUFFICES ASSUME ~parted', NEW p \in Places, p \notin broken' PROVE Whole(p)'
    BY DEF CopiesWhole, Whole, Covered
  <1>a. ~parted
    BY NotParted
  <1>0. p \notin broken => Whole(p)
    BY <1>a, WholeMeans
  <1>1. CASE AdoptMem
    <2>1. p # "tenant" /\ p # "legacy" => p \notin broken /\ mem'[p] = mem[p]
      BY <1>1 DEF AdoptMem, TypeOK, Places, Live
    <2>2. CASE p = "tenant"
      <3>1. "legacy" \notin broken /\ db' = db
        BY <1>1, <2>2 DEF AdoptMem, Live
      <3>2. Covered(db["tenant"], db["tenant"].mark, mem["legacy"])
        BY <1>a, <1>1, <3>1 DEF AdoptMem, MemFollows
      <3>3. CASE mem["legacy"].there
        <4>1. mem'["tenant"] = mem["legacy"]
          BY <1>1, <3>3 DEF AdoptMem, TypeOK, Places, Live
        <4>. QED BY <2>2, <3>1, <3>2, <4>1 DEF Whole
      <3>4. CASE ~mem["legacy"].there
        <4>1. mem["legacy"].has = {}
          BY <3>4, Zenon DEF Plain, Places, Live
        <4>. QED BY <2>2, <3>1, <3>2, <4>1 DEF Whole, Covered
      <3>. QED BY <3>3, <3>4
    <2>3. CASE p = "legacy"
      <3>1. db'[p].mark = 0
        BY <1>1, <2>3 DEF AdoptMem, Control, Serving, Plain, Places, Live
      <3>. QED BY <3>1, WholeEmpty
    <2>4. CASE p # "tenant" /\ p # "legacy"
      BY <1>0, <1>1, <2>1, <2>4, WholeKept DEF AdoptMem, Same
    <2>. QED BY <2>2, <2>3, <2>4
  <1>2. CASE AdoptDB
    <2>1. CASE p = "legacy"
      <3>1. db'[p].mark = 0
        BY <1>2, <2>1, AdoptDBEffect
      <3>. QED BY <3>1, WholeEmpty
    <2>2. p # "tenant"
      BY <1>2 DEF AdoptDB, Control, Serving, Adopting, obsVars
    <2>3. CASE p # "legacy"
      <3>1. db'[p] = db[p] /\ mem' = mem /\ p \notin broken
        BY <1>2, <2>2, <2>3, AdoptDBEffect DEF Live
      <3>. QED BY <1>0, <3>1, WholeKept DEF Same
    <2>. QED BY <2>1, <2>3
  <1>3. CASE (TouchZero \/ Flip \/ ServerStep \/ UNCHANGED vars) /\ ~AdoptMem /\ ~Writes
    <2>1. Same(p)
      BY <1>3, SameAll
    <2>2. p \notin broken
      BY <1>3 DEF TouchZero, Flip, ServerStep, BootSingle, BootMulti, Adopt, AdoptSide, Contact, Down, ReadFacts, WriteBody,
         Writes, vars, obsVars
    <2>3. CASE WriteBody
      <3>1. db' = db
        BY <2>3 DEF WriteBody
      <3>2. CASE p = Here
        <4>1. mem'[p].has = Read
          BY <2>3, <3>2, WriteBodyEffect
        <4>2. db[p].mark <= pass.n /\ db[p].mark \in Nat /\ pass.n \in Nat
          BY <2>3, <3>2 DEF WriteBody, Synthesis, TypeOK, Database
        <4>3. \A i \in 1..db[p].mark : db[p].facts[i] \in Read
          BY <3>2, <4>2 DEF Read
        <4>. QED BY <3>1, <4>1, <4>3 DEF Whole, Covered
      <3>3. CASE p # Here
        BY <1>0, <2>1, <2>2, <2>3, <3>3, WriteBodyEffect, WholeKept
      <3>. QED BY <3>2, <3>3
    <2>4. CASE ~WriteBody
      <3>1. mem'[p].has = mem[p].has
        <4>1. CASE BootSingle
          BY <4>1, OpenedEffect DEF BootSingle, Live
        <4>2. CASE Contact
          BY <4>2, OpenedEffect DEF Contact, Live
        <4>3. CASE ~BootSingle /\ ~Contact
          <5>1. UNCHANGED mem
            BY <1>3, <2>4, <4>3 DEF TouchZero, Flip, ServerStep, BootMulti, Adopt, AdoptDB, AdoptSide, Down, ReadFacts,
               Writes, vars, fileVars
          <5>. QED BY <5>1
        <4>. QED BY <4>1, <4>2, <4>3
      <3>. QED BY <1>0, <2>1, <2>2, <3>1, WholeKept
    <2>. QED BY <2>3, <2>4
  <1>4. CASE \E t \in Tokens : SaveFacts(t)
    <2>. PICK t \in Tokens : SaveFacts(t)
      BY <1>4
    <2>1. db[p].mark \in Nat /\ db[p].mark <= Len(db[p].facts) /\ Len(db[p].facts) \in Nat
      BY DEF TypeOK, Database
    <2>2. UNCHANGED <<broken, mem>>
      BY DEF SaveFacts
    <2>3. db'[p].mark = db[p].mark
      BY SaveFactsEffect
    <2>4. \A i \in 1..Len(db[p].facts) : db'[p].facts[i] = db[p].facts[i]
      BY <1>4, ServerWrites
    <2>. QED BY <1>0, <2>1, <2>2, <2>3, <2>4 DEF Whole, Covered
  <1>5. CASE WriteRow
    <2>1. UNCHANGED <<broken, mem>>
      BY <1>5 DEF WriteRow, obsVars
    <2>2. CASE p = Here
      <3>1. db'[p].mark = pass.n /\ db'[p].facts = db[p].facts
        BY <1>5, <2>2, WriteRowEffect
      <3>2. Covered(db[p], pass.n, mem[p])
        BY <1>5, <2>2 DEF WriteRow, Synthesis
      <3>. QED BY <2>1, <3>1, <3>2 DEF Whole, Covered
    <2>3. CASE p # Here
      BY <1>0, <1>5, <2>1, <2>3, WriteRowEffect, WholeKept DEF Same
    <2>. QED BY <2>2, <2>3
  <1>6. CASE ToolStep
    BY <1>6, ToolWhole
  <1>. QED BY <1>1, <1>2, <1>3, <1>4, <1>5, <1>6 DEF Next, Writes, ServerStep

-----------------------------------------------------------------------------
(* Nothing is made anew beside memory.                                     *)

LEMMA BackupsStep == TypeOK /\ Plain /\ Control /\ Synthesis /\ Backups /\ [Next]_vars => Backups'
  <1>. SUFFICES ASSUME TypeOK, Plain, Control, Synthesis, Backups, [Next]_vars PROVE Backups'
    OBVIOUS
  <1>. USE NoFacts, PlaceTypes, ToolTypes DEF TypeOK, Backups
  <1>1. CASE Flip
    BY <1>1 DEF Flip, serverVars, fileVars, boundVars, obsVars
  <1>2. CASE TouchZero
    BY <1>2 DEF TouchZero, Places, Live, serverVars, fileVars, boundVars, obsVars
  <1>3. CASE BootSingle
    BY <1>3, OpenedEffect DEF BootSingle, Places, Live, serverVars, fileVars, boundVars, obsVars
  <1>4. CASE BootMulti
    BY <1>4 DEF BootMulti, serverVars, fileVars, boundVars, obsVars
  <1>5. CASE Adopt
    BY <1>5 DEF Adopt, Places, Live, serverVars, fileVars, boundVars, obsVars
  <1>6. CASE AdoptDB
    BY <1>6, AdoptDBEffect DEF Left, Places, Live
  <1>7. CASE AdoptMem
    BY <1>7 DEF AdoptMem, Places, Live, serverVars, fileVars, boundVars, obsVars
  <1>8. CASE Contact
    BY <1>8, OpenedEffect DEF Contact, Places, Live, serverVars, fileVars, boundVars, obsVars
  <1>9. CASE Down
    BY <1>9, DownEffect DEF Left, NoPass, Places, Live
  <1>10. CASE \E t \in Tokens : SaveFacts(t)
    BY <1>10, SaveFactsEffect DEF SaveFacts, serverVars, fileVars, boundVars, obsVars
  <1>11. CASE ReadFacts
    BY <1>11 DEF ReadFacts, serverVars, fileVars, boundVars, obsVars
  <1>12. CASE WriteBody
    BY <1>12, WriteBodyEffect DEF WriteBody, serverVars, fileVars, boundVars, obsVars
  <1>13. CASE WriteRow
    BY <1>13, WriteRowEffect DEF WriteRow, NoPass, serverVars, fileVars, boundVars, obsVars
  <1>14. CASE StartBackup
    BY <1>14, BeginEffect, AfterValues DEF StartBackup, Stamps, serverVars, fileVars, boundVars, obsVars
  <1>15. CASE BackupRemove
    <2>1. CASE tool.place = "tenant"
      BY <1>15, <2>1, RemoveEffect DEF BackupRemove, Control, Commanding, Backing, CopyOf
    <2>2. CASE tool.place = "legacy"
      <3>1. dir'["users"] = dir["users"] /\ db'["users"] = db["users"] /\ broken' = broken
        BY <1>15, <2>2, RemoveEffect DEF CopyOf, Places
      <3>. QED BY <3>1
    <2>. QED BY <2>1, <2>2 DEF Live
  <1>16. CASE BackupFails
    BY <1>16, ContinueEffect DEF BackupFails, serverVars, fileVars, boundVars, obsVars
  <1>17. CASE BackupSnapshot
    <2>1. dir' = dir /\ broken' = broken
      BY <1>17, BackupSnapshotEffect DEF BackupSnapshot
    <2>2. CASE tool.place = "tenant"
      BY <1>17, <2>1, <2>2 DEF BackupSnapshot, Control, Commanding, Backing, CopyOf
    <2>3. CASE tool.place = "legacy"
      BY <1>17, <2>1, <2>3, BackupSnapshotEffect DEF CopyOf, Places
    <2>. QED BY <2>2, <2>3 DEF Live
  <1>18. CASE BackupFiles
    BY <1>18, BackupFilesEffect, ToolTypes DEF BackupFiles, serverVars, fileVars, boundVars, obsVars
  <1>19. CASE \E force \in BOOLEAN : StartRestore(force)
    BY <1>19, BeginEffect DEF Stamps, StartRestore, serverVars, fileVars, boundVars, obsVars
  <1>20. CASE RestoreRefused
    BY <1>20, ContinueEffect DEF RestoreRefused, serverVars, fileVars, boundVars, obsVars
  <1>21. CASE MoveAsideDB
    BY <1>21, MoveAsideDBEffect DEF MoveAsideDB, Places, Live, serverVars, fileVars, boundVars, obsVars
  <1>22. CASE MoveAsideMem
    BY <1>22, MoveAsideMemEffect DEF MoveAsideMem, Places, Live, serverVars, fileVars, boundVars, obsVars
  <1>23. CASE MoveAsideTree
    BY <1>23, MoveAsideTreeEffect DEF MoveAsideTree, Places, Live, serverVars, fileVars, boundVars, obsVars
  <1>24. CASE RestoreDB
    BY <1>24, RestoreDBEffect DEF Left, Places, Live
  <1>25. CASE RestoreMem
    BY <1>25, ContinueEffect DEF RestoreMem, Places, Live, Restored, CopyOf, serverVars, fileVars, boundVars, obsVars
  <1>26. CASE RestoreTree
    BY <1>26, GoOnEffect DEF RestoreTree, Places, Live, serverVars, fileVars, boundVars, obsVars
  <1>27. CASE RestoreTreeDB
    BY <1>27, GoOnEffect DEF RestoreTreeDB, Places, Live, serverVars, fileVars, boundVars, obsVars
  <1>28. CASE RestoreTreeMem
    BY <1>28, ContinueEffect DEF RestoreTreeMem, Places, Live, Restored, CopyOf, serverVars, fileVars, boundVars, obsVars
  <1>29. CASE Break
    <2>1. dir' = dir /\ broken \subseteq broken' /\ db'["users"] = db["users"]
      BY <1>29, BreakEffect DEF Places, Live
    <2>. QED BY <2>1
  <1>30. CASE UNCHANGED vars
    BY <1>30 DEF vars, serverVars, fileVars, boundVars, obsVars
  <1>31. CASE AdoptSide
    BY <1>31 DEF AdoptSide, boundVars, obsVars
  <1>. QED BY <1>1, <1>2, <1>3, <1>4, <1>5, <1>6, <1>7, <1>8, <1>9, <1>10, <1>11, <1>12, <1>13, <1>14, <1>15, <1>16, <1>17, <1>18, <1>19, <1>20, <1>21, <1>22, <1>23, <1>24, <1>25, <1>26, <1>27, <1>28, <1>29, <1>30, <1>31 DEF Next, ServerStep, ToolStep

LEMMA BareStep == TypeOK /\ Plain /\ Control /\ Synthesis /\ Backups /\ Bare /\ [Next]_vars => Bare'
  <1>. SUFFICES ASSUME TypeOK, Plain, Control, Synthesis, Backups, Bare, [Next]_vars PROVE Bare'
    OBVIOUS
  <1>. USE NoFacts, PlaceTypes, ToolTypes DEF TypeOK, Bare, NoCopies, Serving, Commanding, Control
  <1>1. CASE Flip
    BY <1>1 DEF Flip, serverVars, fileVars, boundVars, obsVars
  <1>2. CASE TouchZero
    BY <1>2 DEF TouchZero, Places, Live, serverVars, fileVars, boundVars, obsVars
  <1>3. CASE BootSingle
    <2>1. db'["tenant"] = db["tenant"] /\ db'["legacy"].kind = "db" /\ db'["single"] = db["single"]
      BY <1>3, OpenedEffect DEF BootSingle, Places, Live
    <2>2. db["tenant"].kind = "none" \/ db["legacy"].kind = "db"
      BY <1>3, NoFacts DEF BootSingle, Refuses
    <2>3. UNCHANGED <<dir, broken>> /\ server' = "up"
      BY <1>3 DEF BootSingle, obsVars
    <2>. QED BY <2>1, <2>2, <2>3
  <1>4. CASE BootMulti
    BY <1>4 DEF BootMulti, serverVars, fileVars, boundVars, obsVars
  <1>5. CASE Adopt
    <2>1. server' = "moveDB" /\ db' = db /\ dir'["tenant"] /\ dir'["users"] = dir["users"] /\ ~dir["tenant"]
      BY <1>5 DEF Adopt, Adopts, fileVars
    <2>2. "tenant" \in broken' /\ ("legacy" \in broken => "legacy" \in broken')
      BY <1>5 DEF Adopt
    <2>. QED BY <2>1, <2>2
  <1>6. CASE AdoptDB
    <2>1. server' = "moveSide" /\ server = "moveDB" /\ dir' = dir /\ broken' = broken
          /\ db'["tenant"].kind = db["legacy"].kind /\ db'["single"] = db["single"]
      BY <1>6, AdoptDBEffect DEF Left, Places, Live
    <2>2. "tenant" \in broken /\ dir["tenant"]
      BY <2>1 DEF Adopting
    <2>. QED BY <2>1, <2>2
  <1>7. CASE AdoptMem
    <2>1. server' = "up" /\ server = "moveMem" /\ dir' = dir /\ db' = db
          /\ ("tenant" \notin broken' => "legacy" \notin broken)
      BY <1>7 DEF AdoptMem, Live
    <2>2. dir["tenant"] /\ db["tenant"].kind # "none" /\ db["legacy"].kind # "db"
      BY <2>1 DEF Adopting
    <2>3. db["tenant"].kind \in {"none", "zero", "db"}
      BY DEF Places, Live, Database
    <2>. QED BY <2>1, <2>2, <2>3
  <1>8. CASE Contact
    BY <1>8, OpenedEffect DEF Contact, Places, Live, serverVars, fileVars, boundVars, obsVars
  <1>9. CASE Down
    BY <1>9, DownEffect DEF Left, NoPass, Places, Live
  <1>10. CASE \E t \in Tokens : SaveFacts(t)
    BY <1>10, SaveFactsEffect DEF SaveFacts, serverVars, fileVars, boundVars, obsVars
  <1>11. CASE ReadFacts
    BY <1>11 DEF ReadFacts, serverVars, fileVars, boundVars, obsVars
  <1>12. CASE WriteBody
    BY <1>12, WriteBodyEffect DEF WriteBody, serverVars, fileVars, boundVars, obsVars
  <1>13. CASE WriteRow
    BY <1>13, WriteRowEffect DEF WriteRow, NoPass, serverVars, fileVars, boundVars, obsVars
  <1>14. CASE StartBackup
    BY <1>14, BeginEffect, AfterValues DEF StartBackup, Stamps, serverVars, fileVars, boundVars, obsVars
  <1>15. CASE BackupRemove
    <2>1. UNCHANGED <<db["tenant"], db["legacy"], dir["tenant"], server, broken>>
      BY <1>15, RemoveEffect DEF Places, Live
    <2>2. NoCopies => NoCopies'
      <3>1. CASE tool.place = "tenant"
        BY <1>15, <3>1, RemoveEffect
      <3>2. CASE tool.place = "legacy"
        BY <1>15, <3>2, RemoveEffect DEF CopyOf
      <3>. QED BY <3>1, <3>2 DEF Live
    <2>. QED BY <2>1, <2>2
  <1>16. CASE BackupFails
    BY <1>16, ContinueEffect DEF BackupFails, serverVars, fileVars, boundVars, obsVars
  <1>17. CASE BackupSnapshot
    <2>1. UNCHANGED <<dir, server, broken>>
      BY <1>17, BackupSnapshotEffect DEF BackupSnapshot, serverVars
    <2>2. db'["tenant"] = db["tenant"]
      BY <1>17, BackupSnapshotEffect DEF BackupSnapshot, Backing, Places, Live
    <2>3. db'["legacy"] = db["legacy"] \/ (db["legacy"].kind = "none" /\ db'["legacy"] = Zero)
      BY <1>17, BackupSnapshotEffect DEF Places, Live
    <2>4. db["legacy"].kind # "db" /\ NoCopies => NoCopies'
      <3>1. CASE tool.place = "tenant"
        BY <1>17, <2>1, <3>1, BackupSnapshotEffect DEF CopyOf, Places
      <3>2. CASE tool.place = "legacy"
        BY <1>17, <2>1, <2>3, <3>2, BackupSnapshotEffect DEF CopyOf
      <3>. QED BY <3>1, <3>2 DEF Live
    <2>. QED BY <2>1, <2>2, <2>3, <2>4
  <1>18. CASE BackupFiles
    BY <1>18, BackupFilesEffect, ToolTypes DEF BackupFiles, serverVars, fileVars, boundVars, obsVars
  <1>19. CASE \E force \in BOOLEAN : StartRestore(force)
    BY <1>19, BeginEffect DEF Stamps, StartRestore, serverVars, fileVars, boundVars, obsVars
  <1>20. CASE RestoreRefused
    BY <1>20, ContinueEffect DEF RestoreRefused, serverVars, fileVars, boundVars, obsVars
  <1>21. CASE MoveAsideDB
    BY <1>21, MoveAsideDBEffect DEF MoveAsideDB, Places, Live, serverVars, fileVars, boundVars, obsVars
  <1>22. CASE MoveAsideMem
    BY <1>22, MoveAsideMemEffect DEF MoveAsideMem, Places, Live, serverVars, fileVars, boundVars, obsVars
  <1>23. CASE MoveAsideTree
    BY <1>23, MoveAsideTreeEffect DEF MoveAsideTree, Places, Live, serverVars, fileVars, boundVars, obsVars
  <1>24. CASE RestoreDB
    BY <1>24, RestoreDBEffect DEF Left, Places, Live
  <1>25. CASE RestoreMem
    <2>1. UNCHANGED <<db, dir, server>> /\ server = "down" /\ ~dir["users"]
          /\ db["legacy"].kind = db["single"].kind
      BY <1>25, Stopped DEF RestoreMem, Restoring, Control, Commanding, serverVars
    <2>2. "tenant" \notin broken' => "tenant" \notin broken
      BY <1>25 DEF RestoreMem, Restored
    <2>3. db["legacy"].kind # "db" => NoCopies'
      BY <2>1
    <2>. QED BY <2>1, <2>2, <2>3
  <1>26. CASE RestoreTree
    BY <1>26, GoOnEffect DEF RestoreTree, Places, Live, serverVars, fileVars, boundVars, obsVars
  <1>27. CASE RestoreTreeDB
    BY <1>27, GoOnEffect DEF RestoreTreeDB, Places, Live, serverVars, fileVars, boundVars, obsVars
  <1>28. CASE RestoreTreeMem
    <2>1. UNCHANGED <<db, dir, server>> /\ server = "down" /\ dir["tenant"] /\ dir["users"]
      BY <1>28, Stopped DEF RestoreTreeMem, Restoring, serverVars
    <2>2. "tenant" \notin broken' => db["tenant"].kind = "db"
      BY <1>28, <2>1 DEF RestoreTreeMem, Restored, CopyOf, Backups
    <2>. QED BY <2>1, <2>2
  <1>29. CASE Break
    <2>1. UNCHANGED <<dir, server, db["single"]>> /\ broken \subseteq broken'
      BY <1>29, BreakEffect DEF Places, Live
    <2>2. db' = db \/ tool.place \in broken'
      BY <1>29, BreakEffect
    <2>3. CASE db' = db
      BY <2>1, <2>3
    <2>4. CASE tool.at = "treeDB" /\ db' # db
      <3>1. server = "down" /\ dir["tenant"] /\ tool.place = "tenant" /\ "tenant" \in broken'
        BY <2>2, <2>4, Stopped DEF Restoring
      <3>. QED BY <2>1, <3>1
    <2>5. CASE tool.at = "db" /\ db' # db
      <3>1. server = "down" /\ tool.place = "legacy" /\ "legacy" \in broken'
        BY <2>2, <2>5, Stopped DEF Restoring
      <3>2. db'["tenant"] = db["tenant"] /\ db'["legacy"].kind # "db"
        BY <1>29, <2>5, <3>1, BreakEffect DEF Places, Live
      <3>. QED BY <2>1, <3>1, <3>2
    <2>. QED BY <1>29, <2>3, <2>4, <2>5, BreakEffect
  <1>30. CASE UNCHANGED vars
    BY <1>30 DEF vars, serverVars, fileVars, boundVars, obsVars
  <1>31. CASE AdoptSide
    BY <1>31 DEF AdoptSide, boundVars, obsVars
  <1>. QED BY <1>1, <1>2, <1>3, <1>4, <1>5, <1>6, <1>7, <1>8, <1>9, <1>10, <1>11, <1>12, <1>13, <1>14, <1>15, <1>16, <1>17, <1>18, <1>19, <1>20, <1>21, <1>22, <1>23, <1>24, <1>25, <1>26, <1>27, <1>28, <1>29, <1>30, <1>31 DEF Next, ServerStep, ToolStep

\* A database comes to be where there was none: at the start of the server or at the
\* first contact.
LEMMA MadeBy ==
  ASSUME TypeOK, Plain, Control, Synthesis, [Next]_vars,
         NEW p \in Live, db[p].kind # "db", db'[p] = Empty, server' = "up"
  PROVE  (BootSingle /\ p = "legacy") \/ (Contact /\ p = "tenant")
  <1>. USE NoFacts, PlaceTypes, ToolTypes DEF TypeOK
  <1>1. db'[p].kind = "db" /\ db'[p] # db[p]
    OBVIOUS
  <1>2. CASE UNCHANGED vars \/ Flip \/ BootMulti \/ Adopt \/ AdoptSide \/ AdoptMem \/ Down \/ ReadFacts \/ WriteBody
    BY <1>1, <1>2 DEF Flip, BootMulti, Adopt, AdoptSide, AdoptMem, Down, ReadFacts, WriteBody, vars, fileVars
  <1>3. CASE StartBackup \/ BackupFails \/ BackupFiles \/ (\E force \in BOOLEAN : StartRestore(force)) \/ RestoreRefused
    BY <1>1, <1>3 DEF StartBackup, BackupFails, BackupFiles, StartRestore, RestoreRefused, fileVars
  <1>4. CASE MoveAsideDB \/ MoveAsideMem \/ MoveAsideTree \/ RestoreDB \/ RestoreMem \/ RestoreTree \/ RestoreTreeDB \/ RestoreTreeMem
    <2>1. server' = "down"
      BY <1>4, Stopped DEF MoveAsideDB, MoveAsideMem, MoveAsideTree, RestoreDB, RestoreMem, RestoreTree, RestoreTreeDB,
         RestoreTreeMem, Restoring, serverVars
    <2>. QED BY <2>1
  <1>5. CASE AdoptDB
    BY <1>5 DEF AdoptDB
  <1>6. CASE TouchZero
    BY <1>1, <1>6 DEF TouchZero, Places, Live
  <1>7. CASE BootSingle
    BY <1>1, <1>7, OpenedEffect DEF BootSingle, Live
  <1>8. CASE Contact
    BY <1>1, <1>8, OpenedEffect DEF Contact, Live
  <1>9. CASE WriteRow \/ \E t \in Tokens : SaveFacts(t)
    BY <1>1, <1>9, ServerWrites
  <1>10. CASE BackupRemove
    BY <1>1, <1>10, RemoveEffect
  <1>11. CASE BackupSnapshot
    BY <1>1, <1>11, BackupSnapshotEffect
  <1>12. CASE Break
    BY <1>1, <1>12, BreakEffect
  <1>. QED
    BY <1>2, <1>3, <1>4, <1>5, <1>6, <1>7, <1>8, <1>9, <1>10, <1>11, <1>12 DEF Next, ServerStep, ToolStep

LEMMA AnewStep ==
  ASSUME DataInv, [Next]_vars,
         NEW p \in Live \ broken, primary, db[p].kind # "db", db'[p] = Empty, server' = "up", NEW q \in Live
  PROVE  FactsIn(db[q]) = {}
  <1>. USE DEF DataInv
  <1>1. SUFFICES db[q].kind # "db"
    BY PlaceTypes, FactsOf DEF Plain
  <1>2. CASE BootSingle /\ p = "legacy"
    <2>1. db["tenant"] = NoFile
      BY <1>2 DEF BootSingle, Refuses
    <2>. QED BY <1>2, <2>1, NoFacts DEF Live
  <1>3. CASE Contact /\ p = "tenant"
    <2>1. multi /\ server = "up"
      BY <1>3 DEF Contact
    <2>2. CASE dir["tenant"]
      BY <1>3, <2>2 DEF Bare, Live
    <2>3. CASE ~dir["tenant"]
      BY <1>3, <2>1, <2>3 DEF Control, Serving, Live
    <2>. QED BY <2>2, <2>3
  <1>. QED BY <1>2, <1>3, MadeBy

-----------------------------------------------------------------------------
(* The theorems.                                                           *)

LEMMA InitInv == Init => DataInv
  <1>. SUFFICES ASSUME Init PROVE DataInv
    OBVIOUS
  <1>. USE NoFacts, FileTypes, BoundTypes DEF Init
  <1>1. TypeOK
    <2>1. pass \in [at : {"none", "calling", "renamed"}, n : Nat]
      BY DEF NoPass
    <2>2. tool \in Commands /\ now \in Stamps
      BY DEF Idle, Commands, Stamps, Live
    <2>3. aside \in [Live \X Stamps -> [db : Database, mem : Directory]]
      OBVIOUS
    <2>4. dir \in [{"tenant", "users"} -> BOOLEAN]
      OBVIOUS
    <2>5. \A p \in Places : db[p].mark <= Len(db[p].facts)
      OBVIOUS
    <2>6. db \in [Places -> Database] /\ mem \in [Places -> Directory]
      OBVIOUS
    <2>7. runs \in 0..MaxRuns /\ flips \in 0..MaxFlips /\ breaks \in 0..MaxBreaks
      OBVIOUS
    <2>8. learned \subseteq Tokens /\ broken \subseteq Places
      OBVIOUS
    <2>9. /\ multi \in BOOLEAN /\ primary \in BOOLEAN /\ open \in BOOLEAN
          /\ clashed \in BOOLEAN /\ parted \in BOOLEAN
          /\ hot \in [Live -> Sidecars \cup {"none"}]
          /\ server \in {"down", "moveDB", "moveSide", "moveMem", "up"} /\ (open => server = "up")
      OBVIOUS
    <2>. QED BY <2>1, <2>2, <2>3, <2>4, <2>5, <2>6, <2>7, <2>8, <2>9, Zenon DEF TypeOK
  <1>2. Plain /\ Held /\ Serving
    BY DEF Plain, Held, Serving, Adopting, Places, Live
  <1>3. Commanding /\ FilesFollow
    BY DEF Commanding, Backing, Restoring, FilesFollow, Idle
  <1>4. Synthesis /\ MemFollows
    BY DEF Synthesis, MemFollows, NoPass
  <1>5. NothingLost
    BY DEF NothingLost
  <1>6. CopiesWhole
    BY DEF CopiesWhole
  <1>7. Backups /\ Bare /\ Beside
    BY DEF Backups, Bare, Beside, NoCopies, Places, Live
  <1>. QED BY <1>1, <1>2, <1>3, <1>4, <1>5, <1>6, <1>7 DEF DataInv, Control

LEMMA InvStep == DataInv /\ [Next]_vars => DataInv'
  <1>. SUFFICES ASSUME DataInv, [Next]_vars PROVE DataInv'
    OBVIOUS
  <1>. USE DEF DataInv
  <1>1. TypeOK' /\ Plain'
    BY TypeStep, PlainStep
  <1>2. Control'
    BY HeldStep, ServingStep, CommandingStep DEF Control
  <1>3. Synthesis' /\ NothingLost'
    BY <1>1, SynthesisStep, LostStep
  <1>4. FilesFollow' /\ MemFollows' /\ CopiesWhole'
    BY <1>1, FollowStep, MemFollowsStep, WholeStep
  <1>5. Backups' /\ Bare' /\ Beside'
    BY BackupsStep, BareStep, BesideStep
  <1>. QED BY <1>1, <1>2, <1>3, <1>4, <1>5

LEMMA Inductive == Spec => []DataInv
  BY InitInv, InvStep, PTL DEF Spec

\* Databases, directories, the command and the synthesis under way are well typed, and
\* no watermark is past the facts of its database.
THEOREM TypeCorrect == Spec => []TypeOK
  <1>1. DataInv => TypeOK
    BY DEF DataInv
  <1>. QED BY <1>1, Inductive, PTL

\* backup.go:107-109: no fact leaves the disk, through adoptions, restores, changes of
\* the mode and deaths half-way, unless two restores move a database to one name, or a
\* database is moved away from the journal or log of a server that died.
THEOREM NothingLostHolds == Spec => []NothingLost
  <1>1. DataInv => NothingLost
    BY DEF DataInv
  <1>. QED BY <1>1, Inductive, PTL

\* backup.go:77: what is copied, restored or adopted hides no fact behind a watermark,
\* although the server writes all the while, until a database is parted from its journal
\* or log.
THEOREM CopiesWholeHolds == Spec => []CopiesWhole
  <1>1. DataInv => CopiesWhole
    BY DEF DataInv
  <1>. QED BY <1>1, Inductive, PTL

\* main.go:194-195 and 211-214: with a primary_user, or a single one, no new database is
\* made beside memory that is served nowhere.
THEOREM NeverAnewHolds == Spec => NeverAnew
  <1>1. DataInv /\ [Next]_vars =>
          [\A p \in Live \ broken :
             primary /\ db[p].kind # "db" /\ db'[p] = Empty /\ server' = "up" =>
                \A q \in Live : FactsIn(db[q]) = {}]_vars
    BY AnewStep
  <1>. QED BY <1>1, Inductive, PTL DEF Spec, NeverAnew
=============================================================================
