---------------------------- MODULE SubjectFiles ----------------------------
(***************************************************************************)
(* The file and the index row of one subject, and everybody who writes     *)
(* them: the HTTP and MCP doors (subjects.go: ApplyPatch, AppendLine;      *)
(* store.go: DeleteSubject) and the pipeline (consolidate.go:              *)
(* ensureSubject, synthesizeSubject).  All of them end in                  *)
(* Store.PutSubject: fill <path>.tmp, rename it to <path>, upsert the row. *)
(* There is no lock around any of this.                                    *)
(*                                                                         *)
(* Files are inodes, so that two writers of the one temporary file and     *)
(* readers of a file that is renamed over see what a POSIX system shows.   *)
(* Every operation writes one line of its own, its number, and is assumed  *)
(* to keep the lines it read: what it loses it loses to the interleaving.  *)
(***************************************************************************)
EXTENDS Integers

CONSTANTS Writers,     \* requests and pipeline goroutines at this subject
          Kinds,       \* per writer: the kinds of operation it performs
          Readers,     \* GET requests, context bundles, backups
          Inodes,      \* file objects alive at once
          NoInode,     \* no such file
          MaxOps,      \* bound on operations
          MaxFails,    \* bound on failed upserts
          MaxCrashes,  \* bound on crashes
          Serial       \* requests do not overlap from their load to their end

\* What a client may ask for, by HTTP or by the memory tools of an agent.  "patch"
\* and "create" are a write with the version token that was read, and with the
\* token "new", which opts out of the check.
ClientKinds == {"patch", "create", "append", "delete"}

\* ... and what a pass does to a subject.
PassKinds == {"ensure", "synthesize"}

AllKinds == ClientKinds \cup PassKinds

ASSUME SubjectAssumption ==
    /\ Kinds \in [Writers -> SUBSET AllKinds]
    /\ NoInode \notin Inodes
    /\ {MaxOps, MaxFails, MaxCrashes} \subseteq Nat
    /\ Serial \in BOOLEAN

VARIABLES
    inode,   \* per inode: its content
    path,    \* the inode of <path>
    tmp,     \* the inode of <path>.tmp
    row,     \* the operation the index row is from, or NoRow
    pc,      \* per writer: where it is
    kind,    \* per writer: the kind of its operation
    op,      \* per writer: the number of its operation
    seen,    \* per writer: the content its client based a patch on
    mine,    \* per writer: the content it is about to write
    fd,      \* per writer: the inode it has open
    rfd,     \* per reader: the inode it has open
    ops, fails, crashes,
    \* observers
    got,     \* per reader: the content it read last
    acked,   \* lines of acknowledged writes that no deletion has removed
    stale    \* a crash or a failed upsert left the row behind the file

fileVars == <<inode, path, tmp>>
writerVars == <<pc, kind, op, seen, mine, fd>>
readerVars == <<rfd, got>>
boundVars == <<ops, fails, crashes>>
vars == <<fileVars, row, writerVars, readerVars, boundVars, acked, stale>>

NoRow == -1
\* Any content that is not the whole of what one operation rendered: an empty
\* file that was just opened, or a mixture of two.
Torn == [lines |-> {}, by |-> 0]
Nothing == [lines |-> {}, by |-> NoRow]
Content == [lines : SUBSET (1..MaxOps), by : (0..MaxOps) \cup {NoRow}]

TypeOK ==
    /\ inode \in [Inodes -> Content]
    /\ path \in Inodes \cup {NoInode}
    /\ tmp \in Inodes \cup {NoInode}
    /\ path = tmp => path = NoInode
    /\ row \in (1..MaxOps) \cup {NoRow}
    /\ pc \in [Writers -> {"idle", "asked", "loaded", "opened", "filled", "renamed", "removed"}]
    /\ kind \in [Writers -> AllKinds]
    /\ op \in [Writers -> 0..MaxOps]
    /\ seen \in [Writers -> Content]
    /\ mine \in [Writers -> Content]
    /\ fd \in [Writers -> Inodes \cup {NoInode}]
    /\ rfd \in [Readers -> Inodes \cup {NoInode}]
    /\ ops \in 0..MaxOps /\ fails \in 0..MaxFails /\ crashes \in 0..MaxCrashes
    /\ got \in [Readers -> Content]
    /\ acked \subseteq 1..MaxOps
    /\ stale \in BOOLEAN

Init ==
    /\ inode = [i \in Inodes |-> Torn]
    /\ path = NoInode
    /\ tmp = NoInode
    /\ row = NoRow
    /\ pc = [w \in Writers |-> "idle"]
    /\ kind = [w \in Writers |-> "append"]
    /\ op = [w \in Writers |-> 0]
    /\ seen = [w \in Writers |-> Nothing]
    /\ mine = [w \in Writers |-> Nothing]
    /\ fd = [w \in Writers |-> NoInode]
    /\ rfd = [r \in Readers |-> NoInode]
    /\ ops = 0 /\ fails = 0 /\ crashes = 0
    /\ got = [r \in Readers |-> Nothing]
    /\ acked = {}
    /\ stale = FALSE
-----------------------------------------------------------------------------
\* GetSubject: the subject as its file has it, or nil.
Current == IF path = NoInode THEN Nothing ELSE inode[path]

\* The writer is done with its operation.
Done(w) ==
    /\ pc' = [pc EXCEPT ![w] = "idle"]
    /\ kind' = [kind EXCEPT ![w] = "append"]
    /\ op' = [op EXCEPT ![w] = 0]
    /\ seen' = [seen EXCEPT ![w] = Nothing]
    /\ mine' = [mine EXCEPT ![w] = Nothing]
    /\ fd' = [fd EXCEPT ![w] = NoInode]

\* An operation is asked for.  The client of a patch has read the subject, with
\* its version token, and writes its line into what it read; the client of a
\* create has found none.
Ask(w, k) ==
    /\ pc[w] = "idle"
    /\ k \in Kinds[w]
    /\ k = "patch" => Current # Nothing
    /\ k = "create" => Current = Nothing
    /\ ops < MaxOps
    /\ ops' = ops + 1
    /\ pc' = [pc EXCEPT ![w] = "asked"]
    /\ kind' = [kind EXCEPT ![w] = k]
    /\ op' = [op EXCEPT ![w] = ops + 1]
    /\ seen' = [seen EXCEPT ![w] = IF k = "patch" THEN Current ELSE Nothing]
    /\ UNCHANGED <<fileVars, row, mine, fd, readerVars, fails, crashes, acked, stale>>

\* Mutant of Rendered: an append or synthesis starts from an empty body.
RenderedAfresh(w) ==
    [lines |-> IF kind[w] = "patch" THEN seen[w].lines \cup {op[w]}
               ELSE {op[w]} \ {n \in {op[w]} : kind[w] = "ensure"},
     by    |-> op[w]]

\* The content the operation of w is going to write, given what it loads.
Rendered(w) ==
    [lines |-> CASE kind[w] = "ensure" -> {}
                 [] kind[w] = "create" -> {op[w]}
                 [] kind[w] = "patch"  -> seen[w].lines \cup {op[w]}
                 [] OTHER              -> Current.lines \cup {op[w]},
     by    |-> op[w]]

\* ErrVersionConflict: the file is not what the client has seen.
Conflict(w) ==
    kind[w] = "patch" /\ Current \notin {Nothing, seen[w]}

\* ensureSubject finds the subject in the index or on disk.
Ensured(w) == kind[w] = "ensure" /\ (row # NoRow \/ path # NoInode)

\* What Serial asks for: every other request has ended or not begun.
MayBegin(w) == Serial => \A v \in Writers \ {w} : pc[v] \in {"idle", "asked"}

\* The handler or goroutine loads the subject and goes on to write it ...
Load(w) ==
    /\ pc[w] = "asked"
    /\ kind[w] # "delete"
    /\ MayBegin(w)
    /\ ~Conflict(w) /\ ~Ensured(w)
    /\ mine' = [mine EXCEPT ![w] = Rendered(w)]
    /\ pc' = [pc EXCEPT ![w] = "loaded"]
    /\ UNCHANGED <<fileVars, row, kind, op, seen, fd, readerVars, boundVars, acked, stale>>

\* ... or is refused, or has nothing to do.
Refuse(w) ==
    /\ pc[w] = "asked"
    /\ MayBegin(w)
    /\ Conflict(w) \/ Ensured(w)
    /\ Done(w)
    /\ UNCHANGED <<fileVars, row, readerVars, boundVars, acked, stale>>
-----------------------------------------------------------------------------
(* PutSubject.                                                             *)

InUse == {path, tmp} \cup {fd[w] : w \in Writers} \cup {rfd[r] : r \in Readers}

\* Mutant of OpenTmp: the live file is opened for writing.
OpenTmpInPlace(w) ==
    /\ pc[w] = "loaded"
    /\ \E i \in Inodes :
         /\ IF path = NoInode THEN i \notin InUse ELSE i = path
         /\ tmp' = i
         /\ inode' = [inode EXCEPT ![i] = Torn]
         /\ fd' = [fd EXCEPT ![w] = i]
    /\ pc' = [pc EXCEPT ![w] = "opened"]
    /\ UNCHANGED <<path, row, kind, op, seen, mine, readerVars, boundVars, acked, stale>>

\* os.WriteFile creates <path>.tmp, or truncates the one it finds ...
OpenTmp(w) ==
    /\ pc[w] = "loaded"
    /\ \E i \in Inodes :
         /\ IF tmp = NoInode THEN i \notin InUse ELSE i = tmp
         /\ tmp' = i
         /\ inode' = [inode EXCEPT ![i] = Torn]
         /\ fd' = [fd EXCEPT ![w] = i]
    /\ pc' = [pc EXCEPT ![w] = "opened"]
    /\ UNCHANGED <<path, row, kind, op, seen, mine, readerVars, boundVars, acked, stale>>

\* ... and fills it from the start: over the bytes of another writer of the same
\* inode the result is its own content, or a mixture if the other's was longer.
FillTmp(w) ==
    /\ pc[w] = "opened"
    /\ \E c \in {mine[w]} \cup (IF inode[fd[w]] = Torn THEN {} ELSE {Torn}) :
         inode' = [inode EXCEPT ![fd[w]] = c]
    /\ pc' = [pc EXCEPT ![w] = "filled"]
    /\ fd' = [fd EXCEPT ![w] = NoInode]
    /\ UNCHANGED <<path, tmp, row, kind, op, seen, mine, readerVars, boundVars, acked, stale>>

\* Mutant of Rename: the temporary file is linked, and its name stays.
RenameLinks(w) ==
    /\ pc[w] = "filled"
    /\ tmp # NoInode
    /\ path' = tmp
    /\ pc' = [pc EXCEPT ![w] = "renamed"]
    /\ UNCHANGED <<inode, tmp, row, kind, op, seen, mine, fd, readerVars, boundVars, acked, stale>>

\* os.Rename, whoever filled <path>.tmp last.
Rename(w) ==
    /\ pc[w] = "filled"
    /\ tmp # NoInode
    /\ path' = tmp
    /\ tmp' = NoInode
    /\ pc' = [pc EXCEPT ![w] = "renamed"]
    /\ UNCHANGED <<inode, row, kind, op, seen, mine, fd, readerVars, boundVars, acked, stale>>

\* The disk is full or, at no cost of the bound, another writer has renamed the
\* temporary file away: the request fails, and leaves what it has filled.
PutFails(w) ==
    /\ pc[w] \in {"loaded", "opened", "filled"}
    /\ fails' = IF pc[w] = "filled" /\ tmp = NoInode THEN fails ELSE fails + 1
    /\ fails' <= MaxFails
    /\ Done(w)
    /\ UNCHANGED <<fileVars, row, readerVars, ops, crashes, acked, stale>>

\* Mutant of Upsert: an index row that is there is left as it is.
UpsertIgnored(w) ==
    /\ pc[w] = "renamed"
    /\ row' = IF row = NoRow THEN op[w] ELSE row
    /\ acked' = acked \cup (mine[w].lines \cap {op[w]})
    /\ stale' = FALSE
    /\ Done(w)
    /\ UNCHANGED <<fileVars, readerVars, boundVars>>

\* The row takes the frontmatter, and the request is answered.
Upsert(w) ==
    /\ pc[w] = "renamed"
    /\ row' = op[w]
    /\ acked' = acked \cup (mine[w].lines \cap {op[w]})
    /\ stale' = FALSE
    /\ Done(w)
    /\ UNCHANGED <<fileVars, readerVars, boundVars>>

\* The database refuses: the file stays and the row does not follow.
UpsertFails(w) ==
    /\ pc[w] \in {"renamed", "removed"}
    /\ fails < MaxFails
    /\ fails' = fails + 1
    /\ stale' = TRUE
    /\ Done(w)
    /\ UNCHANGED <<fileVars, row, readerVars, ops, crashes, acked>>
-----------------------------------------------------------------------------
\* DeleteSubject removes the file ...
Remove(w) ==
    /\ pc[w] = "asked"
    /\ MayBegin(w)
    /\ kind[w] = "delete"
    /\ path' = NoInode
    /\ acked' = acked \ Current.lines
    /\ pc' = [pc EXCEPT ![w] = "removed"]
    /\ UNCHANGED <<inode, tmp, row, kind, op, seen, mine, fd, readerVars, boundVars, stale>>

\* ... and then the row.
DeleteRow(w) ==
    /\ pc[w] = "removed"
    /\ row' = NoRow
    /\ stale' = FALSE
    /\ Done(w)
    /\ UNCHANGED <<fileVars, readerVars, boundVars, acked>>

\* os.ReadFile opens the file, and reads it while it may be renamed over.
OpenRead(r) ==
    /\ rfd[r] = NoInode
    /\ path # NoInode
    /\ rfd' = [rfd EXCEPT ![r] = path]
    /\ UNCHANGED <<fileVars, row, writerVars, got, boundVars, acked, stale>>

Read(r) ==
    /\ rfd[r] # NoInode
    /\ got' = [got EXCEPT ![r] = inode[rfd[r]]]
    /\ rfd' = [rfd EXCEPT ![r] = NoInode]
    /\ UNCHANGED <<fileVars, row, writerVars, boundVars, acked, stale>>

\* The server process dies; the files and the row stay, a <path>.tmp too.
Crash ==
    /\ crashes < MaxCrashes
    /\ crashes' = crashes + 1
    /\ stale' = (stale \/ \E w \in Writers : pc[w] \in {"renamed", "removed"})
    /\ pc' = [w \in Writers |-> "idle"]
    /\ kind' = [w \in Writers |-> "append"]
    /\ op' = [w \in Writers |-> 0]
    /\ seen' = [w \in Writers |-> Nothing]
    /\ mine' = [w \in Writers |-> Nothing]
    /\ fd' = [w \in Writers |-> NoInode]
    /\ rfd' = [r \in Readers |-> NoInode]
    /\ UNCHANGED <<fileVars, row, ops, fails, got, acked>>
-----------------------------------------------------------------------------
WriterStep(w) ==
    \/ \E k \in AllKinds : Ask(w, k)
    \/ Load(w) \/ Refuse(w)
    \/ OpenTmp(w) \/ FillTmp(w) \/ Rename(w) \/ PutFails(w)
    \/ Upsert(w) \/ UpsertFails(w)
    \/ Remove(w) \/ DeleteRow(w)

Next ==
    \/ \E w \in Writers : WriterStep(w)
    \/ \E r \in Readers : OpenRead(r) \/ Read(r)
    \/ Crash

Spec == Init /\ [][Next]_vars
-----------------------------------------------------------------------------
\* backup.go:6-8, "every write to them lands via a rename": no reader, and no
\* loading writer, ever sees a file that is not the whole of one write, whatever
\* is renamed over it or crashes meanwhile.
NeverTorn ==
    /\ path # NoInode => inode[path] # Torn
    /\ \A r \in Readers : got[r] # Torn

\* spec.md:130, "an index over the markdown files": with nobody in the middle of
\* a write, the row is of the operation the file is of; a crash or a failed
\* upsert leaves it behind only until the next write.
IndexFollows ==
    (\A w \in Writers : pc[w] \notin {"renamed", "removed"}) /\ ~stale =>
        row = Current.by

\* The writes under way, as the register sees them.
UnderWay ==
    {[line |-> op[w], read |-> seen[w].lines, waives |-> kind[w] = "create"] :
        w \in {v \in Writers : pc[v] # "idle"}}

\* spec.md:341-343: requests that do not overlap are steps of the register,
\* whatever was written between the read of a client and its patch, and with
\* readers, failures and crashes anywhere.  A line in the file is lost by a
\* deletion only, or to a client that waived the check.
Register == INSTANCE SubjectRegister WITH
    value <- [exists |-> path # NoInode, lines |-> Current.lines],
    writes <- UnderWay

RegisterSpec == Register!RegisterSpec

\* spec.md:341-343, "concurrent edits safe - a mismatched write is refused rather
\* than clobbering", and spec.md:508, "hand edits to a subject file survive
\* synthesis": a line whose write was acknowledged stays until a deletion.
LinesKept ==
    (\A w \in Writers : pc[w] # "removed") => acked \subseteq Current.lines
=============================================================================
