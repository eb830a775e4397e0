------------------------- MODULE SubjectFilesProofs -------------------------
(***************************************************************************)
(* The file of one subject for any writers, readers, operations, failures  *)
(* and crashes.  It is well typed however requests interleave; and if they *)
(* do not overlap from their load to their end (Serial), no torn file is   *)
(* seen, the row follows the file, and the file implements the register.   *)
(*                                                                         *)
(* SerialInv says what the one request under way has done so far: what it  *)
(* is about to write is still what it would render now (Based), the file   *)
(* it has filled is the whole of it and nobody's else (Filling), and the   *)
(* file and the row are in the order its place says (Settled).             *)
(***************************************************************************)
EXTENDS SubjectFiles, TLAPS

Places == {"idle", "asked", "loaded", "opened", "filled", "renamed", "removed"}
Busy(w) == pc[w] \notin {"idle", "asked"}

\* An operation under way has a number.
Numbered == \A w \in Writers : pc[w] # "idle" => op[w] \in 1..MaxOps

TypeInv == TypeOK /\ Numbered

\* One request at a time is past its load.
OneBusy == \A v, w \in Writers : Busy(v) /\ Busy(w) => v = w

\* What a request is about to write is what it rendered, and would render again:
\* nothing it rests on changes until the rename.
Based ==
    \A w \in Writers : pc[w] \in {"loaded", "opened", "filled"} =>
        /\ mine[w] = Rendered(w)
        /\ kind[w] # "delete"
        /\ ~Conflict(w)
        /\ kind[w] = "ensure" => path = NoInode

\* Who writes which file: the temporary one is of the request that opened it, and
\* no reader has it.
Filling ==
    /\ \A w \in Writers : pc[w] # "opened" => fd[w] = NoInode
    /\ \A w \in Writers : pc[w] = "opened" =>
         tmp # NoInode /\ fd[w] = tmp /\ inode[tmp] = Torn
    /\ \A w \in Writers : pc[w] = "filled" => tmp # NoInode /\ inode[tmp] = mine[w]
    /\ \A r \in Readers : rfd[r] # NoInode => rfd[r] # tmp

\* What can be seen is whole.
Whole ==
    /\ path # NoInode => inode[path].by \in 1..MaxOps
    /\ \A r \in Readers : rfd[r] # NoInode => inode[rfd[r]].by \in 1..MaxOps
    /\ \A r \in Readers : got[r] # Torn

\* The file is ahead of the row while its writer goes from the one to the other.
Settled ==
    /\ \A w \in Writers : pc[w] = "renamed" => Current.by = op[w]
    /\ \A w \in Writers : pc[w] = "removed" => path = NoInode
    /\ IndexFollows

SerialInv == OneBusy /\ Based /\ Filling /\ Whole /\ Settled

-----------------------------------------------------------------------------
(* Type correctness.                                                       *)

LEMMA BoundTypes ==
  /\ MaxOps \in Nat /\ MaxFails \in Nat /\ MaxCrashes \in Nat
  /\ NoInode \notin Inodes
  /\ Kinds \in [Writers -> SUBSET AllKinds]
  /\ Serial \in BOOLEAN
  <1>1. {MaxOps, MaxFails, MaxCrashes} \subseteq Nat
    BY SubjectAssumption DEF SubjectAssumption
  <1>. QED BY <1>1, SubjectAssumption DEF SubjectAssumption

LEMMA ConstantContents == Torn \in Content /\ Nothing \in Content
  BY BoundTypes DEF Torn, Nothing, Content, NoRow

LEMMA CurrentContent == TypeOK => Current \in Content
  BY ConstantContents DEF TypeOK, Current

LEMMA RenderedContent ==
  ASSUME TypeInv, NEW w \in Writers, pc[w] # "idle"
  PROVE  Rendered(w) \in Content /\ Rendered(w).by = op[w]
  <1>1. seen[w].lines \in SUBSET (1..MaxOps) /\ Current.lines \in SUBSET (1..MaxOps)
    BY CurrentContent DEF TypeInv, TypeOK, Content
  <1>2. op[w] \in 1..MaxOps
    BY DEF TypeInv, Numbered
  <1>. QED BY <1>1, <1>2 DEF Rendered, Content

\* The end of an operation.
LEMMA DoneType ==
  ASSUME TypeInv, NEW w \in Writers, Done(w)
  PROVE  /\ pc' \in [Writers -> Places]
         /\ kind' \in [Writers -> AllKinds]
         /\ op' \in [Writers -> 0..MaxOps]
         /\ seen' \in [Writers -> Content]
         /\ mine' \in [Writers -> Content]
         /\ fd' \in [Writers -> Inodes \cup {NoInode}]
         /\ Numbered'
  BY BoundTypes, ConstantContents
     DEF TypeInv, TypeOK, Numbered, Done, Places, AllKinds, ClientKinds, PassKinds

LEMMA InitType == Init => TypeInv
  <1>. SUFFICES ASSUME Init PROVE TypeInv
    OBVIOUS
  <1>1. 0 \in 0..MaxOps /\ 0 \in 0..MaxFails /\ 0 \in 0..MaxCrashes
    BY BoundTypes
  <1>2. Numbered /\ row \in (1..MaxOps) \cup {NoRow}
    BY DEF Init, Numbered
  <1>. QED BY <1>1, <1>2, ConstantContents
           DEF Init, TypeInv, TypeOK, AllKinds, ClientKinds, PassKinds

LEMMA TypeStep == TypeInv /\ [Next]_vars => TypeInv'
  <1>. SUFFICES ASSUME TypeInv, [Next]_vars PROVE TypeInv'
    OBVIOUS
  <1>. USE BoundTypes, ConstantContents
  <1>1. ASSUME NEW w \in Writers, NEW k \in AllKinds, Ask(w, k) PROVE TypeInv'
    <2>1. seen'[w] \in Content /\ seen' = [seen EXCEPT ![w] = seen'[w]]
      BY <1>1, CurrentContent DEF Ask, TypeInv, TypeOK
    <2>2. ops + 1 \in 1..MaxOps
      BY <1>1 DEF Ask, TypeInv, TypeOK
    <2>. QED BY <1>1, <2>1, <2>2
             DEF Ask, TypeInv, TypeOK, Numbered, fileVars, readerVars
  <1>2. ASSUME NEW w \in Writers, Load(w) PROVE TypeInv'
    BY <1>2, RenderedContent
       DEF Load, TypeInv, TypeOK, Numbered, fileVars, readerVars, boundVars
  <1>3. ASSUME NEW w \in Writers, Refuse(w) PROVE TypeInv'
    BY <1>3, DoneType DEF Refuse, TypeInv, TypeOK, Places, fileVars, readerVars, boundVars
  <1>4. ASSUME NEW w \in Writers, OpenTmp(w) PROVE TypeInv'
    BY <1>4 DEF OpenTmp, InUse, TypeInv, TypeOK, Numbered, readerVars, boundVars
  <1>5. ASSUME NEW w \in Writers, FillTmp(w) PROVE TypeInv'
    <2>1. PICK c \in Content : inode' = [inode EXCEPT ![fd[w]] = c]
      BY <1>5 DEF FillTmp, TypeInv, TypeOK
    <2>. QED BY <1>5, <2>1 DEF FillTmp, TypeInv, TypeOK, Numbered, readerVars, boundVars
  <1>6. ASSUME NEW w \in Writers, Rename(w) PROVE TypeInv'
    BY <1>6 DEF Rename, TypeInv, TypeOK, Numbered, readerVars, boundVars
  <1>7. ASSUME NEW w \in Writers, PutFails(w) PROVE TypeInv'
    <2>1. fails' \in 0..MaxFails
      BY <1>7 DEF PutFails, TypeInv, TypeOK
    <2>. QED BY <1>7, <2>1, DoneType
             DEF PutFails, TypeInv, TypeOK, Places, fileVars, readerVars
  <1>8. ASSUME NEW w \in Writers, Upsert(w) PROVE TypeInv'
    <2>1. op[w] \in 1..MaxOps
      BY <1>8 DEF Upsert, TypeInv, Numbered
    <2>2. acked' \subseteq 1..MaxOps
      BY <1>8, <2>1 DEF Upsert, TypeInv, TypeOK
    <2>. QED BY <1>8, <2>1, <2>2, DoneType
             DEF Upsert, TypeInv, TypeOK, Places, fileVars, readerVars, boundVars
  <1>9. ASSUME NEW w \in Writers, UpsertFails(w) PROVE TypeInv'
    <2>1. fails' \in 0..MaxFails
      BY <1>9 DEF UpsertFails, TypeInv, TypeOK
    <2>. QED BY <1>9, <2>1, DoneType
             DEF UpsertFails, TypeInv, TypeOK, Places, fileVars, readerVars
  <1>10. ASSUME NEW w \in Writers, Remove(w) PROVE TypeInv'
    BY <1>10 DEF Remove, TypeInv, TypeOK, Numbered, readerVars, boundVars
  <1>11. ASSUME NEW w \in Writers, DeleteRow(w) PROVE TypeInv'
    BY <1>11, DoneType
       DEF DeleteRow, TypeInv, TypeOK, Places, fileVars, readerVars, boundVars
  <1>12. ASSUME NEW r \in Readers, OpenRead(r) PROVE TypeInv'
    BY <1>12 DEF OpenRead, TypeInv, TypeOK, Numbered, fileVars, writerVars, boundVars
  <1>13. ASSUME NEW r \in Readers, Read(r) PROVE TypeInv'
    <2>1. inode[rfd[r]] \in Content
      BY <1>13 DEF Read, TypeInv, TypeOK
    <2>. QED BY <1>13, <2>1 DEF Read, TypeInv, TypeOK, Numbered, fileVars, writerVars, boundVars
  <1>14. CASE Crash
    BY <1>14 DEF Crash, TypeInv, TypeOK, Numbered, fileVars, AllKinds, ClientKinds, PassKinds
  <1>15. CASE UNCHANGED vars
    BY <1>15 DEF vars, fileVars, writerVars, readerVars, boundVars, TypeInv, TypeOK, Numbered
  <1>. QED BY <1>1, <1>2, <1>3, <1>4, <1>5, <1>6, <1>7, <1>8, <1>9, <1>10, <1>11, <1>12,
              <1>13, <1>14, <1>15 DEF Next, WriterStep

\* The file, its row and everybody at it are well typed, however requests
\* overlap, whatever fails and whenever the process dies.
THEOREM TypeCorrect == Spec => []TypeOK
  <1>1. TypeInv => TypeOK
    BY DEF TypeInv
  <1>. QED BY <1>1, InitType, TypeStep, PTL DEF Spec

LEMMA TypeInvHolds == Spec => []TypeInv
  BY InitType, TypeStep, PTL DEF Spec
-----------------------------------------------------------------------------
(* Requests that do not overlap.                                           *)

LEMMA WriteNotTorn ==
  ASSUME TypeInv, SerialInv, NEW w \in Writers, pc[w] \in {"loaded", "opened", "filled"}
  PROVE  mine[w] # Torn /\ mine[w].by = op[w] /\ op[w] \in 1..MaxOps
  BY RenderedContent, BoundTypes DEF SerialInv, Based, Torn, TypeInv, Numbered

LEMMA InitSerial == Init => SerialInv
  BY DEF Init, SerialInv, OneBusy, Busy, Based, Filling, Whole, Settled, IndexFollows,
     Current, Nothing, Torn, NoRow

\* Nothing but its own request matters to what a writer has rendered.
LEMMA SameRendering ==
  ASSUME Current' = Current, path' = path, NEW w \in Writers, kind'[w] = kind[w],
         op'[w] = op[w], seen'[w] = seen[w]
  PROVE  Rendered(w)' = Rendered(w) /\ Conflict(w)' = Conflict(w)
  BY DEF Rendered, Conflict

\* A request that ends leaves nobody busy; the files are as it left them.
LEMMA DoneSerial ==
  ASSUME TypeInv, SerialInv, NEW w \in Writers, Busy(w), Done(w),
         UNCHANGED <<fileVars, readerVars>>, IndexFollows'
  PROVE  SerialInv'
  <1>1. \A v \in Writers : pc'[v] \in {"idle", "asked"}
    BY DEF SerialInv, OneBusy, Busy, Done, TypeInv, TypeOK
  <1>2. OneBusy' /\ Based'
    BY <1>1 DEF OneBusy, Based, Busy
  <1>3. Filling'
    BY <1>1 DEF SerialInv, Filling, Done, TypeInv, TypeOK, fileVars, readerVars
  <1>4. Whole' /\ Settled'
    BY <1>1 DEF SerialInv, Whole, Settled, fileVars, readerVars
  <1>. QED BY <1>2, <1>3, <1>4 DEF SerialInv

LEMMA OthersRest ==
  ASSUME TypeInv, SerialInv, NEW w \in Writers, Busy(w), NEW v \in Writers, v # w
  PROVE  pc[v] \in {"idle", "asked"}
  BY DEF SerialInv, OneBusy, Busy

LEMMA AskSerial ==
  ASSUME TypeInv, SerialInv, NEW w \in Writers, NEW k \in AllKinds, Ask(w, k)
  PROVE  SerialInv'
  <1>1. pc[w] = "idle" /\ pc' = [pc EXCEPT ![w] = "asked"]
    BY DEF Ask
  <1>2. OneBusy'
    BY <1>1 DEF SerialInv, OneBusy, Busy, TypeInv, TypeOK
  <1>3. Based'
    <2>. SUFFICES ASSUME NEW v \in Writers, pc'[v] \in {"loaded", "opened", "filled"}
                  PROVE  /\ mine'[v] = Rendered(v)'
                         /\ kind'[v] # "delete"
                         /\ ~Conflict(v)'
                         /\ kind'[v] = "ensure" => path' = NoInode
      BY DEF Based
    <2>1. v # w /\ pc[v] = pc'[v] /\ kind'[v] = kind[v] /\ op'[v] = op[v] /\ seen'[v] = seen[v]
          /\ mine' = mine
      BY <1>1 DEF Ask, TypeInv, TypeOK
    <2>2. path' = path /\ Current' = Current
      BY DEF Ask, Current, fileVars
    <2>. QED BY <2>1, <2>2, SameRendering DEF SerialInv, Based
  <1>4. Filling' /\ Whole'
    BY <1>1 DEF SerialInv, Filling, Whole, Ask, TypeInv, TypeOK, fileVars, readerVars
  <1>5. Settled'
    BY <1>1 DEF SerialInv, Settled, IndexFollows, Current, Ask, TypeInv, TypeOK, fileVars
  <1>. QED BY <1>2, <1>3, <1>4, <1>5 DEF SerialInv

\* The version check and the rendering of a request that nobody overlaps.
LEMMA LoadSerial ==
  ASSUME TypeInv, SerialInv, Serial, NEW w \in Writers, Load(w)
  PROVE  SerialInv'
  <1>1. \A v \in Writers \ {w} : pc[v] \in {"idle", "asked"} /\ pc'[v] = pc[v]
    BY DEF Load, MayBegin, TypeInv, TypeOK
  <1>2. pc'[w] = "loaded" /\ pc[w] = "asked"
    BY DEF Load, TypeInv, TypeOK
  <1>3. OneBusy'
    BY <1>1 DEF OneBusy, Busy
  <1>4. Based'
    <2>1. Current' = Current /\ path' = path /\ kind' = kind /\ op' = op /\ seen' = seen
      BY DEF Load, Current, fileVars
    <2>2. Rendered(w)' = Rendered(w) /\ Conflict(w)' = Conflict(w)
      BY <2>1, SameRendering
    <2>3. mine'[w] = Rendered(w) /\ ~Conflict(w) /\ kind[w] # "delete"
          /\ (kind[w] = "ensure" => path = NoInode)
      BY DEF Load, Ensured, TypeInv, TypeOK
    <2>. QED BY <1>1, <2>1, <2>2, <2>3 DEF Based
  <1>5. Filling' /\ Whole'
    BY <1>1, <1>2 DEF SerialInv, Filling, Whole, Load, TypeInv, TypeOK, fileVars, readerVars
  <1>6. Settled'
    BY <1>1, <1>2 DEF SerialInv, Settled, IndexFollows, Current, Load, fileVars
  <1>. QED BY <1>3, <1>4, <1>5, <1>6 DEF SerialInv

\* A refused request has touched nothing.
LEMMA RefuseSerial ==
  ASSUME TypeInv, SerialInv, Serial, NEW w \in Writers, Refuse(w)
  PROVE  SerialInv'
  <1>1. \A v \in Writers : pc'[v] \in {"idle", "asked"} /\ pc[v] \in {"idle", "asked"}
    BY DEF Refuse, Done, MayBegin, TypeInv, TypeOK
  <1>2. OneBusy' /\ Based'
    BY <1>1 DEF OneBusy, Based, Busy
  <1>3. Filling' /\ Whole'
    BY <1>1 DEF SerialInv, Filling, Whole, Refuse, Done, TypeInv, TypeOK, fileVars, readerVars
  <1>4. Settled'
    BY <1>1 DEF SerialInv, Settled, IndexFollows, Current, Refuse, fileVars
  <1>. QED BY <1>2, <1>3, <1>4 DEF SerialInv

\* A step of a request in the middle of PutSubject that leaves the live file alone.
LEMMA InPutSerial ==
  ASSUME TypeInv, SerialInv, NEW w \in Writers, pc[w] \in {"loaded", "opened"},
         NEW at \in {"opened", "filled"}, pc' = [pc EXCEPT ![w] = at],
         UNCHANGED <<path, row, kind, op, seen, mine, stale>>,
         path # NoInode => inode'[path] = inode[path]
  PROVE  OneBusy' /\ Based' /\ Settled'
  <1>1. \A v \in Writers : v # w => pc[v] \in {"idle", "asked"} /\ pc'[v] = pc[v]
    BY OthersRest DEF Busy, TypeInv, TypeOK
  <1>2. pc'[w] = at
    BY DEF TypeInv, TypeOK
  <1>3. OneBusy'
    BY <1>1 DEF OneBusy, Busy
  <1>4. Current' = Current
    BY DEF Current
  <1>5. Rendered(w)' = Rendered(w) /\ Conflict(w)' = Conflict(w)
    BY <1>4, SameRendering
  <1>6. Based'
    BY <1>1, <1>5 DEF SerialInv, Based
  <1>7. Settled'
    BY <1>1, <1>2, <1>4 DEF SerialInv, Settled, IndexFollows
  <1>. QED BY <1>3, <1>6, <1>7

LEMMA OpenTmpSerial ==
  ASSUME TypeInv, SerialInv, NEW w \in Writers, OpenTmp(w)
  PROVE  SerialInv'
  <1>1. PICK i \in Inodes :
          /\ IF tmp = NoInode THEN i \notin InUse ELSE i = tmp
          /\ tmp' = i
          /\ inode' = [inode EXCEPT ![i] = Torn]
          /\ fd' = [fd EXCEPT ![w] = i]
    BY DEF OpenTmp
  <1>2. i # path /\ \A r \in Readers : rfd[r] # i
    BY <1>1, BoundTypes DEF InUse, SerialInv, Filling, TypeInv, TypeOK
  <1>3. OneBusy' /\ Based' /\ Settled'
    BY <1>1, <1>2, InPutSerial DEF OpenTmp, TypeInv, TypeOK
  <1>4. \A v \in Writers : v # w => pc[v] \in {"idle", "asked"} /\ pc'[v] = pc[v]
    BY OthersRest DEF OpenTmp, Busy, TypeInv, TypeOK
  <1>5. Filling'
    BY <1>1, <1>2, <1>4, BoundTypes DEF SerialInv, Filling, OpenTmp, TypeInv, TypeOK, readerVars
  <1>6. Whole'
    BY <1>1, <1>2 DEF SerialInv, Whole, OpenTmp, TypeInv, TypeOK, readerVars
  <1>. QED BY <1>3, <1>5, <1>6 DEF SerialInv

LEMMA FillTmpSerial ==
  ASSUME TypeInv, SerialInv, NEW w \in Writers, FillTmp(w)
  PROVE  SerialInv'
  <1>1. tmp \in Inodes /\ fd[w] = tmp /\ inode[tmp] = Torn /\ tmp # path
        /\ \A r \in Readers : rfd[r] # tmp
    BY BoundTypes DEF FillTmp, SerialInv, Filling, TypeInv, TypeOK
  <1>2. inode' = [inode EXCEPT ![tmp] = mine[w]]
    BY <1>1 DEF FillTmp
  <1>3. OneBusy' /\ Based' /\ Settled'
    BY <1>1, <1>2, InPutSerial DEF FillTmp, TypeInv, TypeOK
  <1>4. \A v \in Writers : v # w => pc[v] \in {"idle", "asked"} /\ pc'[v] = pc[v]
    BY OthersRest DEF FillTmp, Busy, TypeInv, TypeOK
  <1>5. Filling'
    BY <1>1, <1>2, <1>4 DEF SerialInv, Filling, FillTmp, TypeInv, TypeOK, readerVars
  <1>6. Whole'
    BY <1>1, <1>2 DEF SerialInv, Whole, FillTmp, TypeInv, TypeOK, readerVars
  <1>. QED BY <1>3, <1>5, <1>6 DEF SerialInv

\* The rename puts the whole of its own content in the place of the file.
LEMMA RenameSerial ==
  ASSUME TypeInv, SerialInv, NEW w \in Writers, Rename(w)
  PROVE  SerialInv'
  <1>1. \A v \in Writers : v # w => pc[v] \in {"idle", "asked"} /\ pc'[v] = pc[v]
    BY OthersRest DEF Rename, Busy, TypeInv, TypeOK
  <1>2. pc'[w] = "renamed" /\ pc[w] = "filled"
    BY DEF Rename, TypeInv, TypeOK
  <1>3. tmp # NoInode /\ inode[tmp] = mine[w] /\ mine[w].by = op[w] /\ op[w] \in 1..MaxOps
    BY <1>2, WriteNotTorn DEF SerialInv, Filling
  <1>4. OneBusy' /\ Based'
    BY <1>1, <1>2 DEF OneBusy, Based, Busy
  <1>5. Filling'
    BY <1>1, <1>2 DEF SerialInv, Filling, Rename, readerVars
  <1>6. Whole'
    BY <1>3 DEF SerialInv, Whole, Rename, readerVars
  <1>7. Settled'
    <2>1. Current'.by = op'[w]
      BY <1>3 DEF Rename, Current
    <2>. QED BY <1>1, <1>2, <2>1 DEF Settled, IndexFollows
  <1>. QED BY <1>4, <1>5, <1>6, <1>7 DEF SerialInv

\* The five ways for a busy request to end.
LEMMA EndSerial ==
  ASSUME TypeInv, SerialInv, NEW w \in Writers,
         PutFails(w) \/ Upsert(w) \/ UpsertFails(w) \/ DeleteRow(w)
  PROVE  SerialInv'
  <1>1. Busy(w) /\ Done(w) /\ UNCHANGED <<fileVars, readerVars>>
    BY DEF PutFails, Upsert, UpsertFails, DeleteRow, Busy
  <1>2. Current' = Current /\ path' = path
    BY <1>1 DEF Current, fileVars
  <1>3. CASE PutFails(w)
    <2>1. \A v \in Writers : pc[v] \notin {"renamed", "removed"}
      BY <1>1, <1>3, OthersRest DEF PutFails
    <2>2. IndexFollows'
      BY <1>2, <1>3, <2>1 DEF SerialInv, Settled, IndexFollows, PutFails
    <2>. QED BY <1>1, <2>2, DoneSerial
  <1>4. CASE Upsert(w)
    <2>1. row' = op[w] /\ Current.by = op[w]
      BY <1>4 DEF Upsert, SerialInv, Settled
    <2>. QED BY <1>1, <1>2, <2>1, DoneSerial DEF IndexFollows
  <1>5. CASE UpsertFails(w)
    BY <1>1, <1>5, DoneSerial DEF UpsertFails, IndexFollows
  <1>6. CASE DeleteRow(w)
    <2>1. row' = NoRow /\ Current.by = NoRow
      BY <1>6 DEF DeleteRow, SerialInv, Settled, Current, Nothing
    <2>. QED BY <1>1, <1>2, <2>1, DoneSerial DEF IndexFollows
  <1>. QED BY <1>3, <1>4, <1>5, <1>6

LEMMA RemoveSerial ==
  ASSUME TypeInv, SerialInv, Serial, NEW w \in Writers, Remove(w)
  PROVE  SerialInv'
  <1>1. \A v \in Writers : v # w => pc[v] \in {"idle", "asked"} /\ pc'[v] = pc[v]
    BY DEF Remove, MayBegin, TypeInv, TypeOK
  <1>2. pc'[w] = "removed" /\ pc[w] = "asked"
    BY DEF Remove, TypeInv, TypeOK
  <1>3. OneBusy' /\ Based'
    BY <1>1, <1>2 DEF OneBusy, Based, Busy
  <1>4. Filling'
    BY <1>1, <1>2 DEF SerialInv, Filling, Remove, readerVars
  <1>5. Whole' /\ Settled'
    BY <1>1, <1>2 DEF SerialInv, Whole, Settled, IndexFollows, Remove, readerVars
  <1>. QED BY <1>3, <1>4, <1>5 DEF SerialInv

LEMMA ReaderSerial ==
  ASSUME TypeInv, SerialInv, NEW r \in Readers, OpenRead(r) \/ Read(r)
  PROVE  SerialInv'
  <1>1. UNCHANGED <<fileVars, row, writerVars, stale>>
    BY DEF OpenRead, Read
  <1>2. OneBusy'
    BY <1>1 DEF SerialInv, OneBusy, Busy, writerVars
  <1>3. Current' = Current /\ path' = path
    BY <1>1 DEF Current, fileVars
  <1>4. Based'
    <2>1. \A w \in Writers : Rendered(w)' = Rendered(w) /\ Conflict(w)' = Conflict(w)
      BY <1>1, <1>3, SameRendering DEF writerVars
    <2>. QED BY <1>1, <1>3, <2>1 DEF SerialInv, Based, writerVars
  <1>5. Settled'
    BY <1>1, <1>3 DEF SerialInv, Settled, IndexFollows, writerVars
  <1>6. Filling'
    BY <1>1 DEF SerialInv, Filling, OpenRead, Read, TypeInv, TypeOK, fileVars, writerVars
  <1>7. Whole'
    <2>1. CASE OpenRead(r)
      BY <2>1 DEF SerialInv, Whole, OpenRead, TypeInv, TypeOK, fileVars
    <2>2. CASE Read(r)
      <3>1. inode[rfd[r]] # Torn
        BY <2>2, BoundTypes DEF SerialInv, Whole, Read, Torn
      <3>. QED BY <2>2, <3>1 DEF SerialInv, Whole, Read, TypeInv, TypeOK, fileVars
    <2>. QED BY <2>1, <2>2
  <1>. QED BY <1>2, <1>4, <1>5, <1>6, <1>7 DEF SerialInv

LEMMA CrashSerial ==
  ASSUME TypeInv, SerialInv, Crash
  PROVE  SerialInv'
  <1>1. \A w \in Writers : pc'[w] = "idle"
    BY DEF Crash
  <1>2. OneBusy' /\ Based'
    BY <1>1 DEF OneBusy, Based, Busy
  <1>3. Filling' /\ Whole'
    BY <1>1 DEF SerialInv, Filling, Whole, Crash, fileVars
  <1>4. Current' = Current
    BY DEF Crash, Current, fileVars
  <1>5. Settled'
    BY <1>1, <1>4 DEF SerialInv, Settled, IndexFollows, Crash
  <1>. QED BY <1>2, <1>3, <1>5 DEF SerialInv

LEMMA SerialStep ==
  ASSUME Serial, TypeInv, SerialInv, [Next]_vars
  PROVE  SerialInv'
  <1>1. CASE UNCHANGED vars
    <2>1. Current' = Current /\ path' = path
      BY <1>1 DEF Current, vars, fileVars
    <2>2. \A w \in Writers : Rendered(w)' = Rendered(w) /\ Conflict(w)' = Conflict(w)
      BY <1>1, <2>1, SameRendering DEF vars, writerVars
    <2>3. OneBusy' /\ Based' /\ Settled'
      BY <1>1, <2>1, <2>2
         DEF SerialInv, OneBusy, Busy, Based, Settled, IndexFollows, vars, writerVars
    <2>4. Filling' /\ Whole'
      BY <1>1 DEF SerialInv, Filling, Whole, vars, fileVars, writerVars, readerVars
    <2>. QED BY <2>3, <2>4 DEF SerialInv
  <1>. QED BY <1>1, AskSerial, LoadSerial, RefuseSerial, OpenTmpSerial, FillTmpSerial,
              RenameSerial, EndSerial, RemoveSerial, ReaderSerial, CrashSerial
           DEF Next, WriterStep

LEMMA SerialInvHolds == Serial => (Spec => [](TypeInv /\ SerialInv))
  <1>. SUFFICES ASSUME Serial PROVE Spec => [](TypeInv /\ SerialInv)
    OBVIOUS
  <1>1. Init => TypeInv /\ SerialInv
    BY InitType, InitSerial
  <1>2. TypeInv /\ SerialInv /\ [Next]_vars => (TypeInv /\ SerialInv)'
    BY TypeStep, SerialStep
  <1>. QED BY <1>1, <1>2, PTL DEF Spec

\* backup.go:6-8, "every write to them lands via a rename": if requests do not
\* overlap, no reader and no load ever sees a torn file, for any writers, readers,
\* failures and crashes.
THEOREM NeverTornHolds == Serial => (Spec => []NeverTorn)
  <1>1. TypeInv /\ SerialInv => NeverTorn
    BY BoundTypes DEF SerialInv, Whole, NeverTorn, Torn
  <1>. QED BY <1>1, SerialInvHolds, PTL

\* spec.md:130, "an index over the markdown files": between requests the row is of
\* the operation the file is of, but after a crash or a failed upsert.
THEOREM IndexFollowsHolds == Serial => (Spec => []IndexFollows)
  <1>1. TypeInv /\ SerialInv => IndexFollows
    BY DEF SerialInv, Settled
  <1>. QED BY <1>1, SerialInvHolds, PTL
-----------------------------------------------------------------------------
(* The register.                                                           *)

\* A step that leaves the live file alone is a stutter of the register.
LEMMA SameValue ==
  ASSUME path' = path, path # NoInode => inode'[path] = inode[path]
  PROVE  UNCHANGED [exists |-> path # NoInode, lines |-> Current.lines]
  BY DEF Current

\* What the rename of w makes of the file is the write of w, or the placeholder.
LEMMA RenameWrites ==
  ASSUME TypeInv, SerialInv, NEW w \in Writers, Rename(w)
  PROVE  Register!RegisterNext
  <1>. DEFINE value == [exists |-> path # NoInode, lines |-> Current.lines]
              write == [line |-> op[w], read |-> seen[w].lines, waives |-> kind[w] = "create"]
  <1>1. pc[w] = "filled" /\ tmp # NoInode /\ path' = tmp /\ inode' = inode
    BY DEF Rename
  <1>2. inode[tmp] = Rendered(w) /\ kind[w] # "delete" /\ ~Conflict(w)
        /\ (kind[w] = "ensure" => path = NoInode)
    BY <1>1 DEF SerialInv, Filling, Based
  <1>3. value' = Register!Holding(Rendered(w).lines)
    BY <1>1, <1>2 DEF Current, Register!Holding
  <1>4. write \in UnderWay
    BY <1>1 DEF UnderWay
  <1>5. CASE kind[w] = "ensure"
    <2>1. Register!Place
      BY <1>2, <1>3, <1>5 DEF Register!Place, Rendered
    <2>. QED BY <2>1 DEF Register!RegisterNext
  <1>6. CASE kind[w] = "create"
    <2>1. Register!Overwrite(write)
      BY <1>3, <1>6 DEF Register!Overwrite, Rendered
    <2>. QED BY <1>4, <2>1 DEF Register!RegisterNext
  <1>7. CASE kind[w] = "patch" /\ Current = Nothing
    <2>1. path = NoInode
      BY <1>7 DEF SerialInv, Whole, Current, Nothing, NoRow
    <2>2. Register!Revive(write)
      BY <1>3, <1>7, <2>1 DEF Register!Revive, Rendered
    <2>. QED BY <1>4, <2>2 DEF Register!RegisterNext
  <1>8. CASE kind[w] = "patch" /\ Current = seen[w]
    <2>1. Register!Add(write)
      BY <1>3, <1>8 DEF Register!Add, Rendered
    <2>. QED BY <1>4, <2>1 DEF Register!RegisterNext
  <1>9. CASE kind[w] \in {"append", "synthesize"}
    <2>1. Register!Add(write)
      BY <1>3, <1>9 DEF Register!Add, Rendered
    <2>. QED BY <1>4, <2>1 DEF Register!RegisterNext
  <1>10. kind[w] \in AllKinds
    BY DEF TypeInv, TypeOK
  <1>. QED BY <1>2, <1>5, <1>6, <1>7, <1>8, <1>9, <1>10
           DEF Conflict, AllKinds, ClientKinds, PassKinds

LEMMA RegisterStep ==
  ASSUME Serial, TypeInv, SerialInv, [Next]_vars
  PROVE  [Register!RegisterNext]_[exists |-> path # NoInode, lines |-> Current.lines]
  <1>1. ASSUME NEW w \in Writers, Rename(w)
        PROVE  Register!RegisterNext
    BY <1>1, RenameWrites
  <1>2. ASSUME NEW w \in Writers, Remove(w)
        PROVE  Register!RegisterNext
    <2>1. Register!Delete
      BY <1>2 DEF Remove, Register!Delete, Register!Absent, Current, Nothing
    <2>. QED BY <2>1 DEF Register!RegisterNext
  <1>3. ASSUME NEW w \in Writers, OpenTmp(w)
        PROVE  UNCHANGED [exists |-> path # NoInode, lines |-> Current.lines]
    <2>1. PICK i \in Inodes : i # path /\ inode' = [inode EXCEPT ![i] = Torn]
      BY <1>3, BoundTypes DEF OpenTmp, InUse, TypeInv, TypeOK
    <2>. QED BY <1>3, <2>1, SameValue DEF OpenTmp, TypeInv, TypeOK
  <1>4. ASSUME NEW w \in Writers, FillTmp(w)
        PROVE  UNCHANGED [exists |-> path # NoInode, lines |-> Current.lines]
    <2>1. fd[w] # path
      BY <1>4 DEF FillTmp, SerialInv, Filling, TypeInv, TypeOK
    <2>. QED BY <1>4, <2>1, SameValue DEF FillTmp, TypeInv, TypeOK
  <1>5. CASE UNCHANGED fileVars
    BY <1>5, SameValue DEF fileVars
  <1>6. ASSUME NEW w \in Writers, WriterStep(w)
        PROVE  UNCHANGED fileVars \/ OpenTmp(w) \/ FillTmp(w) \/ Rename(w) \/ Remove(w)
    BY <1>6 DEF WriterStep, Ask, Load, Refuse, PutFails, Upsert, UpsertFails, DeleteRow
  <1>7. \/ UNCHANGED fileVars
        \/ \E w \in Writers : OpenTmp(w) \/ FillTmp(w) \/ Rename(w) \/ Remove(w)
    BY <1>6 DEF Next, OpenRead, Read, Crash, vars
  <1>. QED BY <1>1, <1>2, <1>3, <1>4, <1>5, <1>7

\* spec.md:341-343: files, row, failures, readers and crashes implement the
\* register.  A line is lost to a deletion or to a waived check, if requests do not
\* overlap.
THEOREM ImplementsRegister == Serial => (Spec => RegisterSpec)
  <1>. SUFFICES ASSUME Serial PROVE Spec => RegisterSpec
    OBVIOUS
  <1>1. Init => Register!RegisterInit
    BY DEF Init, Register!RegisterInit, Register!Absent, Current, Nothing
  <1>2. TypeInv /\ SerialInv /\ [Next]_vars =>
          [Register!RegisterNext]_[exists |-> path # NoInode, lines |-> Current.lines]
    BY RegisterStep
  <1>3. Spec => [](TypeInv /\ SerialInv)
    BY SerialInvHolds
  <1>. QED BY <1>1, <1>2, <1>3, PTL DEF Spec, RegisterSpec, Register!RegisterSpec
=============================================================================
