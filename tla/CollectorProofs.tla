-------------------------- MODULE CollectorProofs ---------------------------
(***************************************************************************)
(* The collector for any collectors, routes, sessions, batch size, clock,  *)
(* failures and crashes.                                                   *)
(*                                                                         *)
(* A watermark is a second, so all depends on what a session that changes  *)
(* can be confused with: every watermark, saved, loaded or in the making,  *)
(* is in the past, or of this second and then its workspace was listed in  *)
(* it (Stamped).  So a session that changes is past them all, or has       *)
(* slipped.  CollectorInv then follows each listed session from the        *)
(* listing to the batch and to the server.                                 *)
(***************************************************************************)
EXTENDS Collector, TLAPS

Places == {"idle", "list", "read", "post", "save"}

\* What a place implies: where the listing and the batch are empty.
Empties ==
    \A c \in Collectors :
        /\ pc[c] # "read" => unread[c] = {}
        /\ pc[c] \notin {"read", "post"} => batch[c] = {}
        /\ pc[c] \in {"idle", "list"} => top[c] = 0
        /\ pc[c] = "idle" => mem[c] = [w \in Workspaces |-> 0] /\ place[c] = 1

\* Nobody has more turns of a session than Crush.
Bounded ==
    /\ now >= 1
    /\ \A s \in Sessions : at[s] = 0 => turns[s] = 0
    /\ \A s \in Sessions : at[s] <= now
    /\ \A s \in Sessions : stored[s] <= delivered[s] /\ delivered[s] <= turns[s]
    /\ \A c \in Collectors : \A u \in batch[c] : u.turns <= turns[u.session]
    /\ \A B \in limbo : \A u \in B : u.turns <= turns[u.session]

TypeInv == TypeOK /\ Empties /\ Bounded

\* A listing names a session of the workspace once, and a batch has it once.
Single(c) ==
    /\ \A l, m \in unread[c] : l.session = m.session => l = m
    /\ \A u, v \in batch[c] : u.session = v.session => u = v
    /\ \A l \in unread[c], u \in batch[c] : l.session # u.session
    /\ \A l \in unread[c] : Home[l.session] = Here(c)

Distinct == \A c \in Collectors : Single(c)

\* A second of a watermark of w.
Past(w, x) == x <= now /\ (x = now => w \in heard)

Timed(c) ==
    /\ \A w \in Workspaces : Past(w, mem[c][w])
    /\ Past(Here(c), top[c])
    /\ \A l \in unread[c] : Past(Here(c), l.at)

Stamped ==
    /\ \A w \in Workspaces : Past(w, file[w])
    /\ \A c \in Collectors : Timed(c)

\* The server has all of s.
Reached(s) == delivered[s] = turns[s] /\ (~raced => stored[s] = turns[s])

\* A watermark that is saved or loaded covers s ...
Watermarked(s) ==
    \/ at[s] <= file[Home[s]]
    \/ \E c \in Collectors : at[s] <= mem[c][Home[s]]

\* ... or one that c is about to make does.
Claimed(c, s) ==
    /\ Home[s] = Here(c)
    /\ at[s] <= top[c] \/ \E l \in unread[c] : at[s] <= l.at

\* All of s is in what c has still to upload, or c will read it.
Carried(c, s) ==
    \/ \E u \in batch[c] : u.session = s /\ u.turns = turns[s]
    \/ \E l \in unread[c] : l.session = s

Changing == {s \in Sessions \ slipped : at[s] > 0}

Delivered ==
    /\ \A s \in Changing : Watermarked(s) => Reached(s)
    /\ \A s \in Changing, c \in Collectors : Claimed(c, s) => Reached(s) \/ Carried(c, s)

\* A collector that has been alone has in its batch all of what is claimed.
Alone ==
    ~raced =>
        /\ limbo = {}
        /\ \A c, d \in Collectors : pc[c] # "idle" /\ pc[d] # "idle" => c = d
        /\ \A c \in Collectors : \A u \in batch[c] :
             u.session \in Changing /\ (Watermarked(u.session) \/ Claimed(c, u.session)) =>
                u.turns = turns[u.session]

CollectorInv == Distinct /\ Stamped /\ Delivered /\ Alone

\* Crush had s when the run of c began, has it as it was, and it is not delivered.
Behind(c, s) ==
    /\ s \notin slipped
    /\ at[s] < began[c].at
    /\ delivered[s] # turns[s]

\* A run without a failure has left nothing behind in the workspaces it has passed,
\* and carries what it has to of the one where it is.
Passed(c) ==
    \A s \in Sessions : Behind(c, s) =>
        /\ \A i \in 1..(place[c] - 1) : Route[c][i] # Home[s]
        /\ pc[c] \in {"read", "post", "save"} /\ Home[s] = Here(c) => Carried(c, s)

Cover(c) ==
    /\ began[c].fails <= fails /\ began[c].at <= now
    /\ pc[c] # "idle" /\ began[c].fails = fails => Passed(c)

Covers == \A c \in Collectors : Cover(c)

-----------------------------------------------------------------------------
(* Type correctness.                                                       *)

LEMMA BoundTypes ==
  /\ MaxClock \in Nat /\ MaxClock >= 1 /\ MaxFails \in Nat
  /\ MaxTurns \in [Sessions -> Nat] /\ Home \in [Sessions -> Workspaces]
  /\ Sessions \subseteq Nat
  BY CollectorAssumption DEF CollectorAssumption

LEMMA RouteType ==
  ASSUME NEW c \in Collectors
  PROVE  /\ Route[c] \in Seq(Workspaces) /\ Len(Route[c]) \in Nat /\ 1 \in 1..Len(Route[c])
         /\ \A i \in 1..Len(Route[c]) : Route[c][i] \in Workspaces
  <1>1. Route[c] \in Seq(Workspaces) /\ Route[c] # <<>>
    BY CollectorAssumption DEF CollectorAssumption
  <1>. QED BY <1>1

LEMMA HereType ==
  ASSUME TypeOK, NEW c \in Collectors
  PROVE  Here(c) \in Workspaces /\ Since(c) \in Seconds
  <1>1. Here(c) \in Workspaces
    BY RouteType DEF TypeOK, Here
  <1>2. Since(c) \in Seconds
    BY <1>1, BoundTypes DEF TypeOK, Since, Seconds
  <1>. QED BY <1>1, <1>2

LEMMA InitType == Init => TypeInv
  <1>. SUFFICES ASSUME Init PROVE TypeInv
    OBVIOUS
  <1>1. 0 \in Seconds /\ 1 \in Seconds /\ 0 \in 0..MaxFails
    BY BoundTypes DEF Seconds
  <1>2. [s \in Sessions |-> 0] \in Counts
    BY BoundTypes DEF Counts
  <1>3. \A c \in Collectors : place[c] \in 1..Len(Route[c])
    BY RouteType DEF Init
  <1>4. TypeOK
    BY <1>1, <1>2, <1>3 DEF Init, TypeOK
  <1>. QED BY <1>4 DEF Init, TypeInv, Empties, Bounded

\* The variables of a collector, and what a step makes of them.
SyncOK(c) ==
    /\ pc[c] \in Places
    /\ full[c] \in BOOLEAN
    /\ mem[c] \in [Workspaces -> Seconds]
    /\ place[c] \in 1..Len(Route[c])
    /\ unread[c] \in SUBSET Listed
    /\ batch[c] \in SUBSET Upload
    /\ top[c] \in Seconds
    /\ began[c] \in [at : Seconds, fails : 0..MaxFails]
    /\ pc[c] = "post" => batch[c] # {}
    /\ pc[c] # "read" => unread[c] = {}
    /\ pc[c] \notin {"read", "post"} => batch[c] = {}
    /\ pc[c] \in {"idle", "list"} => top[c] = 0
    /\ pc[c] = "idle" => mem[c] = [w \in Workspaces |-> 0] /\ place[c] = 1
    /\ \A u \in batch[c] : u.turns <= turns[u.session]

SyncMaps ==
    /\ pc = [c \in Collectors |-> pc[c]]
    /\ full = [c \in Collectors |-> full[c]]
    /\ mem = [c \in Collectors |-> mem[c]]
    /\ place = [c \in Collectors |-> place[c]]
    /\ unread = [c \in Collectors |-> unread[c]]
    /\ batch = [c \in Collectors |-> batch[c]]
    /\ top = [c \in Collectors |-> top[c]]
    /\ began = [c \in Collectors |-> began[c]]

\* What is not of one collector.
CommonOK ==
    /\ now \in Seconds /\ turns \in Counts /\ at \in [Sessions -> Seconds]
    /\ stored \in Counts /\ delivered \in Counts /\ limbo \subseteq SUBSET Upload
    /\ file \in [Workspaces -> Seconds] /\ fails \in 0..MaxFails
    /\ heard \subseteq Workspaces /\ slipped \subseteq Sessions /\ raced \in BOOLEAN
    /\ now >= 1
    /\ \A s \in Sessions : at[s] = 0 => turns[s] = 0
    /\ \A s \in Sessions : at[s] <= now
    /\ \A s \in Sessions : stored[s] <= delivered[s] /\ delivered[s] <= turns[s]
    /\ \A B \in limbo : \A u \in B : u.turns <= turns[u.session]

LEMMA TypeParts ==
  TypeInv <=> CommonOK /\ SyncMaps /\ \A c \in Collectors : SyncOK(c)
  <1>1. TypeInv => CommonOK
    BY DEF TypeInv, TypeOK, Bounded, CommonOK
  <1>2. TypeInv => SyncMaps
    BY DEF TypeInv, TypeOK, SyncMaps
  <1>3. ASSUME TypeInv, NEW c \in Collectors PROVE SyncOK(c)
    <2>1. place[c] \in 1..Len(Route[c])
      BY <1>3 DEF TypeInv, TypeOK
    <2>. QED BY <1>3, <2>1 DEF TypeInv, TypeOK, Empties, Bounded, SyncOK, Places
  <1>4. ASSUME CommonOK, SyncMaps, \A c \in Collectors : SyncOK(c) PROVE TypeInv
    <2>1. place \in [Collectors -> Nat]
      <3>1. \A c \in Collectors : place[c] \in Nat
        BY <1>4, RouteType DEF SyncOK
      <3>. QED BY <1>4, <3>1 DEF SyncMaps
    <2>2. TypeOK
      <3>1. pc \in [Collectors -> Places] /\ full \in [Collectors -> BOOLEAN]
        BY <1>4 DEF SyncOK, SyncMaps
      <3>2. mem \in [Collectors -> [Workspaces -> Seconds]] /\ top \in [Collectors -> Seconds]
        BY <1>4 DEF SyncOK, SyncMaps
      <3>3. unread \in [Collectors -> SUBSET Listed] /\ batch \in [Collectors -> SUBSET Upload]
        BY <1>4 DEF SyncOK, SyncMaps
      <3>4. began \in [Collectors -> [at : Seconds, fails : 0..MaxFails]]
        BY <1>4 DEF SyncOK, SyncMaps
      <3>5. \A c \in Collectors : place[c] \in 1..Len(Route[c]) /\ (pc[c] = "post" => batch[c] # {})
        BY <1>4 DEF SyncOK
      <3>. QED BY <1>4, <2>1, <3>1, <3>2, <3>3, <3>4, <3>5 DEF CommonOK, TypeOK, Places
    <2>3. Empties
      BY <1>4 DEF SyncOK, Empties
    <2>4. Bounded
      BY <1>4 DEF SyncOK, CommonOK, Bounded
    <2>. QED BY <2>2, <2>3, <2>4 DEF TypeInv
  <1>. QED BY <1>1, <1>2, <1>3, <1>4

\* A step of c leaves the other collectors alone.
Same(d) ==
    /\ pc'[d] = pc[d] /\ full'[d] = full[d] /\ mem'[d] = mem[d] /\ place'[d] = place[d]
    /\ unread'[d] = unread[d] /\ batch'[d] = batch[d] /\ top'[d] = top[d] /\ began'[d] = began[d]

LEMMA SameOK ==
  ASSUME NEW d \in Collectors, SyncOK(d), Same(d), turns' = turns
  PROVE  SyncOK(d)'
  BY DEF SyncOK, Same

\* The server keeps the turns of a request, and the most it has seen.
LEMMA IngestEffect ==
  ASSUME CommonOK, NEW B \in SUBSET Upload, \A u \in B : u.turns <= turns[u.session], Ingest(B)
  PROVE  /\ stored' \in Counts /\ delivered' \in Counts
         /\ \A s \in Sessions :
              /\ \/ stored'[s] = stored[s] /\ \A u \in B : u.session # s
                 \/ \E u \in B : u.session = s /\ stored'[s] = u.turns
              /\ delivered[s] <= delivered'[s] /\ stored'[s] <= delivered'[s]
              /\ delivered'[s] <= turns[s]
              /\ stored'[s] = turns[s] => delivered'[s] = turns[s]
  <1>. DEFINE sent(s) == {u.turns : u \in {b \in B : b.session = s}}
  <1>1. /\ stored' = [s \in Sessions |->
                         IF sent(s) = {} THEN stored[s] ELSE CHOOSE n \in sent(s) : TRUE]
        /\ delivered' = [s \in Sessions |->
                         IF stored'[s] > delivered[s] THEN stored'[s] ELSE delivered[s]]
    BY DEF Ingest
  <1>2. \A s \in Sessions :
          \/ stored'[s] = stored[s] /\ \A u \in B : u.session # s
          \/ \E u \in B : u.session = s /\ stored'[s] = u.turns
    <2>. SUFFICES ASSUME NEW s \in Sessions
                  PROVE  \/ stored'[s] = stored[s] /\ \A u \in B : u.session # s
                         \/ \E u \in B : u.session = s /\ stored'[s] = u.turns
      OBVIOUS
    <2>1. CASE sent(s) = {}
      BY <1>1, <2>1
    <2>2. CASE sent(s) # {}
      <3>1. stored'[s] = CHOOSE n \in sent(s) : TRUE
        BY <1>1, <2>2
      <3>2. stored'[s] \in sent(s)
        BY <2>2, <3>1
      <3>. QED BY <3>2
    <2>. QED BY <2>1, <2>2
  <1>3. \A s \in Sessions :
          /\ stored[s] \in Nat /\ delivered[s] \in Nat /\ turns[s] \in Nat /\ MaxTurns[s] \in Nat
          /\ stored[s] <= delivered[s] /\ delivered[s] <= turns[s] /\ turns[s] <= MaxTurns[s]
    BY BoundTypes DEF CommonOK, Counts
  <1>4. \A s \in Sessions : stored'[s] \in Nat /\ stored'[s] <= turns[s]
    BY <1>2, <1>3 DEF Upload
  <1>5. \A s \in Sessions : delivered'[s] = IF stored'[s] > delivered[s] THEN stored'[s] ELSE delivered[s]
    BY <1>1
  <1>6. \A s \in Sessions :
          /\ delivered[s] <= delivered'[s] /\ stored'[s] <= delivered'[s]
          /\ delivered'[s] <= turns[s] /\ delivered'[s] \in Nat
          /\ stored'[s] = turns[s] => delivered'[s] = turns[s]
    BY <1>3, <1>4, <1>5
  <1>7. stored' \in [Sessions -> Nat] /\ delivered' \in [Sessions -> Nat]
    <2>1. stored' = [s \in Sessions |-> stored'[s]] /\ delivered' = [s \in Sessions |-> delivered'[s]]
      BY <1>1
    <2>. QED BY <1>4, <1>6, <2>1
  <1>8. stored' \in Counts /\ delivered' \in Counts
    <2>1. \A s \in Sessions : stored'[s] <= MaxTurns[s] /\ delivered'[s] <= MaxTurns[s]
      BY <1>3, <1>4, <1>6
    <2>. QED BY <1>7, <2>1 DEF Counts
  <1>. QED BY <1>2, <1>6, <1>8

\* What a collector has let go: it is done, or at its next workspace.
Dropped(c) ==
    /\ unread'[c] = {} /\ batch'[c] = {} /\ top'[c] = 0
    /\ \/ /\ pc'[c] = "idle" /\ place'[c] = 1 /\ full'[c] = FALSE
          /\ mem'[c] = [w \in Workspaces |-> 0] /\ began'[c] = [at |-> 0, fails |-> 0]
       \/ /\ pc'[c] = "list" /\ place[c] < Len(Route[c]) /\ place'[c] = place[c] + 1
          /\ mem'[c] = mem[c] /\ full'[c] = full[c] /\ began'[c] = began[c]

Others(c) == SyncMaps' /\ \A d \in Collectors : d # c => Same(d)

LEMMA ReturnDrops ==
  ASSUME SyncMaps, NEW c \in Collectors, Return(c)
  PROVE  Dropped(c) /\ pc'[c] = "idle" /\ Others(c)
  <1>1. Dropped(c) /\ pc'[c] = "idle"
    BY DEF SyncMaps, Return, Dropped
  <1>2. SyncMaps'
    BY DEF SyncMaps, Return
  <1>3. \A d \in Collectors : d # c => Same(d)
    BY DEF SyncMaps, Return, Same
  <1>. QED BY <1>1, <1>2, <1>3 DEF Others

LEMMA AdvanceDrops ==
  ASSUME SyncMaps, NEW c \in Collectors, Advance(c)
  PROVE  /\ Dropped(c) /\ Others(c)
         /\ pc'[c] = "idle" => place[c] = Len(Route[c])
  <1>1. CASE place[c] = Len(Route[c]) /\ Return(c)
    BY <1>1, ReturnDrops
  <1>2. CASE ~(place[c] = Len(Route[c]) /\ Return(c))
    <2>. DEFINE Goes == /\ place[c] < Len(Route[c])
                        /\ place' = [place EXCEPT ![c] = place[c] + 1]
                        /\ pc' = [pc EXCEPT ![c] = "list"]
                        /\ unread' = [unread EXCEPT ![c] = {}]
                        /\ batch' = [batch EXCEPT ![c] = {}]
                        /\ top' = [top EXCEPT ![c] = 0]
                        /\ UNCHANGED <<full, mem, began>>
    <2>1. Goes
      BY <1>2 DEF Advance
    <2>2. Dropped(c) /\ pc'[c] = "list"
      BY <2>1 DEF SyncMaps, Dropped
    <2>3. SyncMaps'
      BY <2>1 DEF SyncMaps
    <2>4. \A d \in Collectors : d # c => Same(d)
      BY <2>1 DEF SyncMaps, Same
    <2>. QED BY <2>2, <2>3, <2>4 DEF Others
  <1>. QED BY <1>1, <1>2

LEMMA DroppedOK ==
  ASSUME NEW c \in Collectors, SyncOK(c), Dropped(c)
  PROVE  SyncOK(c)'
  <1>1. place'[c] \in 1..Len(Route[c])
    BY RouteType DEF SyncOK, Dropped
  <1>2. 0 \in Seconds /\ [at |-> 0, fails |-> 0] \in [at : Seconds, fails : 0..MaxFails]
    BY BoundTypes DEF Seconds
  <1>. QED BY <1>1, <1>2 DEF SyncOK, Dropped, Places

LEMMA TypePartsNext ==
  (CommonOK /\ SyncMaps /\ \A c \in Collectors : SyncOK(c))' => TypeInv'
  BY TypeParts, PTL

LEMMA StepOK ==
  ASSUME TypeInv, CommonOK', turns' = turns, NEW c \in Collectors, SyncOK(c)', Others(c)
  PROVE  TypeInv'
  <1>1. \A d \in Collectors : SyncOK(d)'
    BY TypeParts, SameOK DEF Others
  <1>. QED BY <1>1, TypePartsNext DEF Others

LEMMA FailsType == CommonOK /\ fails < MaxFails => fails + 1 \in 0..MaxFails
  BY BoundTypes DEF CommonOK

LEMMA TickType ==
  ASSUME TypeInv, Tick
  PROVE  TypeInv'
  <1>1. now + 1 \in Seconds
    BY BoundTypes DEF Tick, TypeInv, TypeOK, Seconds
  <1>2. TypeOK'
    BY <1>1 DEF Tick, TypeInv, TypeOK, serverVars, syncVars
  <1>3. Empties'
    BY DEF Tick, TypeInv, Empties, syncVars
  <1>4. Bounded'
    BY <1>1 DEF Tick, TypeInv, TypeOK, Bounded, Seconds, serverVars, syncVars
  <1>. QED BY <1>2, <1>3, <1>4 DEF TypeInv

LEMMA TouchType ==
  ASSUME TypeInv, NEW s \in Sessions, NEW k \in {0, 1}, Touch(s, k)
  PROVE  TypeInv'
  <1>1. \A r \in Sessions : turns[r] \in Nat /\ turns[r] <= MaxTurns[r]
    BY DEF TypeInv, TypeOK, Counts
  <1>2. turns' = [turns EXCEPT ![s] = turns[s] + k] /\ turns[s] + k <= MaxTurns[s]
        /\ at' = [at EXCEPT ![s] = now]
    BY DEF Touch
  <1>3. turns' \in Counts
    <2>1. turns \in [Sessions -> Nat] /\ turns[s] + k \in Nat
      BY <1>1 DEF TypeInv, TypeOK, Counts
    <2>2. turns' \in [Sessions -> Nat]
      BY <1>2, <2>1
    <2>3. \A r \in Sessions : turns'[r] <= MaxTurns[r]
      BY <1>1, <1>2, <2>1
    <2>. QED BY <2>2, <2>3 DEF Counts
  <1>4. \A r \in Sessions : turns[r] <= turns'[r]
    BY <1>1, <1>2 DEF TypeInv, TypeOK, Counts
  <1>5. slipped' \subseteq Sessions
    BY DEF Touch, TypeInv, TypeOK
  <1>6. TypeOK'
    BY <1>2, <1>3, <1>5 DEF Touch, TypeInv, TypeOK, serverVars, syncVars
  <1>7. Empties'
    BY DEF Touch, TypeInv, Empties, syncVars
  <1>8. Bounded'
    <2>1. now' >= 1 /\ (\A r \in Sessions : at'[r] <= now') /\ (\A r \in Sessions : at'[r] = 0 => turns'[r] = 0)
      BY <1>2 DEF Touch, TypeInv, TypeOK, Bounded, Counts, Seconds
    <2>2. \A r \in Sessions : stored'[r] <= delivered'[r] /\ delivered'[r] <= turns'[r]
      BY <1>1, <1>3, <1>4 DEF Touch, TypeInv, TypeOK, Bounded, Counts, serverVars
    <2>3. ASSUME NEW u \in Upload, u.turns <= turns[u.session] PROVE u.turns <= turns'[u.session]
      BY <1>1, <1>3, <1>4, <2>3 DEF Upload, Counts
    <2>4. \A c \in Collectors : \A u \in batch'[c] : u.turns <= turns'[u.session]
      BY <2>3 DEF Touch, TypeInv, TypeOK, Bounded, syncVars
    <2>5. \A B \in limbo' : \A u \in B : u.turns <= turns'[u.session]
      BY <2>3 DEF Touch, TypeInv, TypeOK, Bounded, serverVars
    <2>. QED BY <2>1, <2>2, <2>4, <2>5 DEF Bounded
  <1>. QED BY <1>6, <1>7, <1>8 DEF TypeInv

LEMMA StartType ==
  ASSUME TypeInv, NEW c \in Collectors, NEW all \in BOOLEAN, Start(c, all)
  PROVE  TypeInv'
  <1>1. SyncMaps /\ SyncOK(c) /\ CommonOK
    BY TypeParts
  <1>2. CommonOK'
    BY <1>1 DEF Start, CommonOK, crushVars, serverVars
  <1>3. Others(c)
    BY <1>1 DEF Start, Others, SyncMaps, Same
  <1>4. [at |-> now, fails |-> fails] \in [at : Seconds, fails : 0..MaxFails]
    BY <1>1 DEF CommonOK
  <1>5. SyncOK(c)'
    BY <1>1, <1>4 DEF Start, SyncMaps, SyncOK, CommonOK, Places, crushVars
  <1>. QED BY <1>2, <1>3, <1>5, StepOK DEF Start, crushVars

\* A session that has changed is listed with the second it changed in.
LEMMA ChangedType ==
  ASSUME TypeOK, NEW w \in Workspaces, NEW x \in Seconds
  PROVE  /\ Changed(w, x) \subseteq Listed
         /\ \A l \in Changed(w, x) :
              Home[l.session] = w /\ l.at = at[l.session] /\ l.at > x
         /\ \A s \in Sessions : Home[s] = w /\ at[s] > x =>
              \E l \in Changed(w, x) : l.session = s /\ l.at = at[s]
  <1>. DEFINE listed(s) == [session |-> s, at |-> at[s]]
              S == {s \in Sessions : Home[s] = w /\ at[s] > x}
  <1>1. \A s \in Sessions : listed(s) \in Listed /\ listed(s).session = s /\ listed(s).at = at[s]
    BY DEF TypeOK, Listed
  <1>2. Changed(w, x) = {listed(s) : s \in S}
    BY DEF Changed
  <1>3. \A l \in Changed(w, x) : \E s \in S : l = listed(s)
    BY <1>2
  <1>4. \A s \in S : listed(s) \in Changed(w, x)
    BY <1>2
  <1>. HIDE DEF listed
  <1>. QED BY <1>1, <1>3, <1>4

\* SessionSince finds something, and its turns are to be read.
Lists(c) ==
    LET new == Changed(Here(c), Since(c))
    IN /\ new # {}
       /\ unread'[c] = new /\ top'[c] = Since(c) /\ pc'[c] = "read"
       /\ full'[c] = full[c] /\ mem'[c] = mem[c] /\ place'[c] = place[c]
       /\ batch'[c] = batch[c] /\ began'[c] = began[c]

LEMMA ListCases ==
  ASSUME TypeInv, NEW c \in Collectors, List(c)
  PROVE  /\ Others(c)
         /\ \/ /\ Dropped(c) /\ Changed(Here(c), Since(c)) = {}
               /\ pc'[c] = "idle" => place[c] = Len(Route[c])
            \/ Lists(c)
  <1>1. SyncMaps
    BY TypeParts
  <1>2. CASE Changed(Here(c), Since(c)) = {} /\ Advance(c)
    BY <1>1, <1>2, AdvanceDrops
  <1>3. CASE ~(Changed(Here(c), Since(c)) = {} /\ Advance(c))
    <2>1. /\ Changed(Here(c), Since(c)) # {}
          /\ unread' = [unread EXCEPT ![c] = Changed(Here(c), Since(c))]
          /\ top' = [top EXCEPT ![c] = Since(c)]
          /\ pc' = [pc EXCEPT ![c] = "read"]
          /\ UNCHANGED <<full, mem, place, batch, began>>
      BY <1>3 DEF List
    <2>2. Lists(c)
      BY <1>1, <2>1 DEF Lists, SyncMaps
    <2>3. Others(c)
      BY <1>1, <2>1 DEF Others, SyncMaps, Same
    <2>. QED BY <2>2, <2>3
  <1>. QED BY <1>2, <1>3

LEMMA ListType ==
  ASSUME TypeInv, NEW c \in Collectors, List(c)
  PROVE  TypeInv'
  <1>1. SyncOK(c) /\ CommonOK /\ Here(c) \in Workspaces /\ Since(c) \in Seconds
    BY TypeParts, HereType DEF TypeInv
  <1>2. CommonOK'
    BY <1>1 DEF List, CommonOK, crushVars, serverVars
  <1>3. SyncOK(c)'
    <2>1. CASE Dropped(c)
      BY <1>1, <2>1, DroppedOK
    <2>2. CASE Lists(c)
      <3>1. Changed(Here(c), Since(c)) \subseteq Listed
        BY <1>1, ChangedType DEF TypeInv
      <3>. QED BY <1>1, <2>2, <3>1 DEF List, Lists, SyncOK, Places, crushVars
    <2>. QED BY <2>1, <2>2, ListCases
  <1>. QED BY <1>2, <1>3, ListCases, StepOK DEF List, crushVars

\* The turns of l are read: something to upload, or nothing.
Reads(c, l) ==
    /\ unread'[c] = unread[c] \ {l}
    /\ \/ /\ turns[l.session] > 0
          /\ batch'[c] = batch[c] \cup {[session |-> l.session, turns |-> turns[l.session]]}
          /\ top'[c] = (IF l.at > top[c] THEN l.at ELSE top[c])
       \/ /\ turns[l.session] = 0
          /\ batch'[c] = batch[c]
          /\ top'[c] = top[c]
    /\ pc'[c] = (IF unread[c] = {l} THEN "post" ELSE "read")
    /\ pc'[c] = "post" => batch'[c] # {}
    /\ full'[c] = full[c] /\ mem'[c] = mem[c] /\ place'[c] = place[c] /\ began'[c] = began[c]

LEMMA ReadCases ==
  ASSUME TypeInv, NEW c \in Collectors, NEW l \in Listed, ReadTurns(c, l)
  PROVE  /\ Others(c)
         /\ pc[c] = "read" /\ l \in unread[c] /\ l.session \in Sessions /\ l.at \in Seconds
         /\ \/ /\ Dropped(c) /\ unread[c] = {l} /\ batch[c] = {} /\ turns[l.session] = 0
               /\ pc'[c] = "idle" => place[c] = Len(Route[c])
            \/ Reads(c, l)
  <1>. DEFINE turned == [session |-> l.session, turns |-> turns[l.session]]
              read == {u \in {turned} : u.turns > 0}
  <1>1. SyncMaps /\ pc[c] = "read" /\ l \in unread[c]
    BY TypeParts DEF ReadTurns
  <1>2. l.session \in Sessions /\ l.at \in Seconds /\ turns[l.session] \in Nat
    BY DEF Listed, TypeInv, TypeOK, Counts
  <1>3. \/ turns[l.session] > 0 /\ read = {turned}
        \/ turns[l.session] = 0 /\ read = {}
    BY <1>2
  <1>4. CASE unread[c] = {l} /\ batch[c] \cup read = {} /\ Advance(c)
    <2>1. batch[c] = {} /\ turns[l.session] = 0
      BY <1>3, <1>4
    <2>. QED BY <1>1, <1>2, <1>4, <2>1, AdvanceDrops
  <1>5. CASE ~(unread[c] = {l} /\ batch[c] \cup read = {} /\ Advance(c))
    <2>1. /\ unread[c] # {l} \/ batch[c] \cup read # {}
          /\ unread' = [unread EXCEPT ![c] = unread[c] \ {l}]
          /\ batch' = [batch EXCEPT ![c] = batch[c] \cup read]
          /\ top' = [top EXCEPT ![c] = IF read # {} /\ l.at > top[c] THEN l.at ELSE top[c]]
          /\ pc' = [pc EXCEPT ![c] = IF unread[c] = {l} THEN "post" ELSE "read"]
          /\ UNCHANGED <<full, mem, place, began>>
      BY <1>5 DEF ReadTurns
    <2>2. Others(c)
      BY <1>1, <2>1 DEF Others, SyncMaps, Same
    <2>3. /\ unread'[c] = unread[c] \ {l}
          /\ batch'[c] = batch[c] \cup read
          /\ top'[c] = (IF read # {} /\ l.at > top[c] THEN l.at ELSE top[c])
          /\ pc'[c] = (IF unread[c] = {l} THEN "post" ELSE "read")
          /\ full'[c] = full[c] /\ mem'[c] = mem[c] /\ place'[c] = place[c] /\ began'[c] = began[c]
      BY <1>1, <2>1 DEF SyncMaps
    <2>4. Reads(c, l)
      <3>1. CASE turns[l.session] > 0 /\ read = {turned}
        BY <2>3, <3>1 DEF Reads
      <3>2. CASE turns[l.session] = 0 /\ read = {}
        BY <2>1, <2>3, <3>2 DEF Reads
      <3>. QED BY <1>3, <3>1, <3>2
    <2>. QED BY <1>1, <1>2, <2>2, <2>4
  <1>. QED BY <1>4, <1>5

LEMMA ReadType ==
  ASSUME TypeInv, NEW c \in Collectors, NEW l \in Listed, ReadTurns(c, l)
  PROVE  TypeInv'
  <1>1. SyncOK(c) /\ CommonOK
    BY TypeParts
  <1>2. CommonOK'
    BY <1>1 DEF ReadTurns, CommonOK, crushVars, serverVars
  <1>3. SyncOK(c)'
    <2>1. CASE Dropped(c)
      BY <1>1, <2>1, DroppedOK
    <2>2. CASE Reads(c, l)
      <3>1. pc'[c] \in Places /\ pc'[c] \notin {"idle", "list", "save"} /\ (pc'[c] # "read" => unread'[c] = {})
        BY <2>2 DEF Reads, Places
      <3>2. pc[c] = "read" /\ l.session \in Sessions /\ l.at \in Seconds /\ turns[l.session] \in Nat
        BY <1>1, ReadCases DEF CommonOK, Counts
      <3>3. turns[l.session] > 0 => [session |-> l.session, turns |-> turns[l.session]] \in Upload
        BY <3>2 DEF Upload
      <3>4. batch'[c] \in SUBSET Upload /\ \A u \in batch'[c] : u.turns <= turns[u.session]
        BY <1>1, <2>2, <3>2, <3>3 DEF Reads, SyncOK
      <3>5. top'[c] \in Seconds
        BY <1>1, <2>2, <3>2 DEF Reads, SyncOK
      <3>6. turns' = turns
        BY DEF ReadTurns, crushVars
      <3>. QED BY <1>1, <2>2, <3>1, <3>4, <3>5, <3>6 DEF Reads, SyncOK
    <2>. QED BY <2>1, <2>2, ReadCases
  <1>. QED BY <1>2, <1>3, ReadCases, StepOK DEF ReadTurns, crushVars

\* A request has some of the batch in it.
LEMMA SliceType ==
  ASSUME TypeInv, NEW c \in Collectors, NEW B \in Slices(c)
  PROVE  B \subseteq batch[c] /\ B \in SUBSET Upload /\ \A u \in B : u.turns <= turns[u.session]
  BY DEF Slices, TypeInv, TypeOK, Bounded

LEMMA IngestCommon ==
  ASSUME CommonOK, NEW B \in SUBSET Upload, \A u \in B : u.turns <= turns[u.session], Ingest(B),
         UNCHANGED <<now, turns, at, file, heard, slipped>>, fails' \in 0..MaxFails,
         limbo' \subseteq limbo, raced' \in BOOLEAN
  PROVE  CommonOK'
  BY IngestEffect DEF CommonOK

LEMMA AcceptedType ==
  ASSUME TypeInv, NEW c \in Collectors, Accepted(c)
  PROVE  TypeInv' /\ Others(c)
  <1>1. SyncMaps /\ SyncOK(c) /\ CommonOK
    BY TypeParts
  <1>2. PICK B \in Slices(c) :
          /\ Ingest(B)
          /\ batch' = [batch EXCEPT ![c] = batch[c] \ B]
          /\ pc' = [pc EXCEPT ![c] = IF B = batch[c] THEN "save" ELSE "post"]
    BY DEF Accepted
  <1>3. CommonOK'
    BY <1>1, <1>2, SliceType, IngestCommon DEF Accepted, CommonOK, crushVars
  <1>4. Others(c)
    BY <1>1, <1>2 DEF Accepted, Others, SyncMaps, Same
  <1>5. SyncOK(c)'
    <2>1. pc'[c] = (IF B = batch[c] THEN "save" ELSE "post") /\ batch'[c] = batch[c] \ B
      BY <1>1, <1>2 DEF SyncMaps
    <2>2. B \subseteq batch[c]
      BY <1>2, SliceType
    <2>. QED BY <1>1, <2>1, <2>2 DEF Accepted, SyncOK, Places, crushVars
  <1>. QED BY <1>3, <1>4, <1>5, StepOK DEF Accepted, crushVars

\* The ways for a run to be cut short, or to go on without a workspace.
LEMMA CutType ==
  ASSUME TypeInv, NEW c \in Collectors,
         CollectFails(c) \/ Failed(c) \/ AnswerLost(c) \/ GivenUp(c) \/ Crash(c)
  PROVE  TypeInv' /\ Dropped(c) /\ Others(c) /\ pc[c] # "idle" /\ fails' = fails + 1
         /\ UNCHANGED <<crushVars, file, heard, slipped>> /\ (raced => raced')
  <1>1. SyncMaps /\ SyncOK(c) /\ CommonOK
    BY TypeParts
  <1>2. Dropped(c) /\ Others(c)
    BY <1>1, ReturnDrops, AdvanceDrops DEF CollectFails, Failed, AnswerLost, GivenUp, Crash
  <1>3. /\ pc[c] # "idle" /\ fails' = fails + 1 /\ fails' \in 0..MaxFails
        /\ UNCHANGED <<crushVars, file, heard, slipped>> /\ (raced => raced')
    BY <1>1, FailsType DEF CollectFails, Failed, AnswerLost, GivenUp, Crash
  <1>4. CommonOK'
    <2>1. CASE UNCHANGED <<serverVars, raced>>
      BY <1>1, <1>3, <2>1 DEF CommonOK, crushVars, serverVars
    <2>2. CASE AnswerLost(c)
      <3>1. PICK B \in Slices(c) : Ingest(B)
        BY <2>2 DEF AnswerLost
      <3>. QED BY <1>1, <1>3, <2>2, <3>1, SliceType, IngestCommon DEF AnswerLost, CommonOK, crushVars
    <2>3. CASE GivenUp(c)
      <3>1. PICK B \in Slices(c) : limbo' = limbo \cup {B}
        BY <2>3 DEF GivenUp
      <3>2. limbo' \subseteq SUBSET Upload /\ \A D \in limbo' : \A u \in D : u.turns <= turns[u.session]
        BY <1>1, <3>1, SliceType DEF CommonOK
      <3>. QED BY <1>1, <1>3, <2>3, <3>2 DEF GivenUp, CommonOK, crushVars
    <2>. QED BY <2>1, <2>2, <2>3 DEF CollectFails, Failed, Crash
  <1>. QED BY <1>1, <1>2, <1>3, <1>4, DroppedOK, StepOK DEF crushVars

LEMMA ArriveType ==
  ASSUME TypeInv, NEW B \in limbo, Arrive(B)
  PROVE  TypeInv'
  <1>1. CommonOK /\ SyncMaps /\ \A c \in Collectors : SyncOK(c)
    BY TypeParts
  <1>2. CommonOK'
    <2>1. B \in SUBSET Upload /\ \A u \in B : u.turns <= turns[u.session]
      BY <1>1 DEF CommonOK
    <2>. QED BY <1>1, <2>1, IngestCommon DEF Arrive, CommonOK, crushVars
  <1>3. SyncMaps' /\ \A c \in Collectors : SyncOK(c)'
    BY <1>1 DEF Arrive, SyncMaps, SyncOK, syncVars, crushVars
  <1>. QED BY <1>2, <1>3, TypePartsNext

\* The state file is saved, or not, and the loop goes on with what it says.
Saves(c) ==
    /\ pc[c] = "save"
    /\ unread'[c] = {} /\ batch'[c] = {} /\ top'[c] = 0
    /\ \/ file' = Moved(c) /\ fails' = fails
       \/ file' = file /\ fails < MaxFails /\ fails' = fails + 1
    /\ \/ /\ pc'[c] = "idle" /\ place'[c] = 1 /\ place[c] = Len(Route[c]) /\ full'[c] = FALSE
          /\ mem'[c] = [w \in Workspaces |-> 0] /\ began'[c] = [at |-> 0, fails |-> 0]
       \/ /\ pc'[c] = "list" /\ place[c] < Len(Route[c]) /\ place'[c] = place[c] + 1
          /\ mem'[c] = Moved(c) /\ full'[c] = full[c] /\ began'[c] = began[c]

LEMMA SaveCases ==
  ASSUME TypeInv, NEW c \in Collectors, Save(c)
  PROVE  /\ Saves(c) /\ Others(c)
         /\ UNCHANGED <<crushVars, serverVars, heard, slipped, raced>>
         /\ Moved(c) \in [Workspaces -> Seconds]
         /\ \A w \in Workspaces : Moved(c)[w] = IF w = Here(c) THEN top[c] ELSE mem[c][w]
  <1>1. SyncMaps /\ SyncOK(c) /\ Here(c) \in Workspaces
    BY TypeParts, HereType DEF TypeInv
  <1>2. Moved(c) \in [Workspaces -> Seconds]
        /\ \A w \in Workspaces : Moved(c)[w] = IF w = Here(c) THEN top[c] ELSE mem[c][w]
    BY <1>1 DEF Moved, SyncOK
  <1>3. UNCHANGED <<crushVars, serverVars, heard, slipped, raced>> /\ pc[c] = "save"
    BY DEF Save
  <1>4. /\ \/ file' = Moved(c) /\ fails' = fails
           \/ file' = file /\ fails < MaxFails /\ fails' = fails + 1
        /\ \/ place[c] = Len(Route[c]) /\ Return(c)
           \/ /\ place[c] < Len(Route[c])
              /\ mem' = [mem EXCEPT ![c] = Moved(c)]
              /\ place' = [place EXCEPT ![c] = place[c] + 1]
              /\ pc' = [pc EXCEPT ![c] = "list"]
              /\ top' = [top EXCEPT ![c] = 0]
              /\ UNCHANGED <<full, unread, batch, began>>
    BY DEF Save
  <1>5. CASE place[c] = Len(Route[c]) /\ Return(c)
    <2>1. Others(c)
      BY <1>1, <1>5, ReturnDrops
    <2>2. Saves(c)
      BY <1>1, <1>3, <1>4, <1>5 DEF Saves, Return, SyncMaps
    <2>. QED BY <1>2, <1>3, <2>1, <2>2
  <1>6. CASE ~(place[c] = Len(Route[c]) /\ Return(c))
    <2>1. Others(c)
      BY <1>1, <1>4, <1>6 DEF Others, SyncMaps, Same
    <2>2. Saves(c)
      BY <1>1, <1>3, <1>4, <1>6 DEF Saves, SyncMaps, SyncOK
    <2>. QED BY <1>2, <1>3, <2>1, <2>2
  <1>. QED BY <1>5, <1>6

LEMMA SaveType ==
  ASSUME TypeInv, NEW c \in Collectors, Save(c)
  PROVE  TypeInv'
  <1>1. SyncOK(c) /\ CommonOK
    BY TypeParts
  <1>2. CommonOK'
    BY <1>1, SaveCases, FailsType DEF Saves, CommonOK, crushVars, serverVars
  <1>3. SyncOK(c)'
    <2>0. /\ Saves(c) /\ Moved(c) \in [Workspaces -> Seconds] /\ turns' = turns
          /\ place[c] \in 1..Len(Route[c]) /\ Len(Route[c]) \in Nat
      BY <1>1, SaveCases, RouteType DEF SyncOK, crushVars
    <2>1. 0 \in Seconds /\ [at |-> 0, fails |-> 0] \in [at : Seconds, fails : 0..MaxFails]
          /\ [w \in Workspaces |-> 0] \in [Workspaces -> Seconds]
      BY BoundTypes DEF Seconds
    <2>2. CASE pc'[c] = "idle"
      BY <1>1, <2>0, <2>1, <2>2, RouteType DEF Saves, SyncOK, Places
    <2>3. CASE pc'[c] # "idle"
      <3>1. /\ pc'[c] = "list" /\ place[c] < Len(Route[c]) /\ place'[c] = place[c] + 1
            /\ mem'[c] = Moved(c) /\ full'[c] = full[c] /\ began'[c] = began[c]
        BY <2>0, <2>3 DEF Saves
      <3>2. place'[c] \in 1..Len(Route[c])
        BY <2>0, <3>1
      <3>. QED BY <1>1, <2>0, <2>1, <3>1, <3>2 DEF Saves, SyncOK, Places
    <2>. QED BY <2>2, <2>3
  <1>. QED BY <1>2, <1>3, SaveCases, StepOK DEF crushVars

LEMMA TypeStep == TypeInv /\ [Next]_vars => TypeInv'
  <1>. SUFFICES ASSUME TypeInv, [Next]_vars PROVE TypeInv'
    OBVIOUS
  <1>1. CASE UNCHANGED vars
    BY <1>1 DEF vars, crushVars, serverVars, syncVars, TypeInv, TypeOK, Empties, Bounded
  <1>. QED BY <1>1, TickType, TouchType, StartType, ListType, ReadType, AcceptedType, CutType,
              ArriveType, SaveType
           DEF Next, SyncStep

\* sync.go: state file, batches and watermarks are well typed for any route and
\* batch size, and no request is ever empty.
THEOREM TypeCorrect == Spec => []TypeOK
  <1>1. TypeInv => TypeOK
    BY DEF TypeInv
  <1>. QED BY <1>1, InitType, TypeStep, PTL DEF Spec
-----------------------------------------------------------------------------
(* The watermarks.                                                         *)

\* What the proofs use of TypeInv.
LEMMA Facts ==
  ASSUME TypeInv
  PROVE  /\ now \in Nat /\ now >= 1
         /\ \A s \in Sessions :
              /\ at[s] \in Nat /\ at[s] <= now
              /\ turns[s] \in Nat /\ stored[s] \in Nat /\ delivered[s] \in Nat
              /\ stored[s] <= delivered[s] /\ delivered[s] <= turns[s]
              /\ at[s] = 0 => turns[s] = 0
              /\ Home[s] \in Workspaces
         /\ \A w \in Workspaces : file[w] \in Nat
         /\ \A c \in Collectors : (\A w \in Workspaces : mem[c][w] \in Nat) /\ top[c] \in Nat
         /\ \A c \in Collectors : \A l \in unread[c] : l.at \in Nat /\ l.session \in Sessions
         /\ \A c \in Collectors : \A u \in batch[c] :
              u.session \in Sessions /\ u.turns \in Nat /\ u.turns > 0 /\ u.turns <= turns[u.session]
  <1>1. now \in Nat /\ now >= 1
    BY DEF TypeInv, TypeOK, Bounded, Seconds
  <1>2. ASSUME NEW s \in Sessions
        PROVE  /\ at[s] \in Nat /\ at[s] <= now
               /\ turns[s] \in Nat /\ stored[s] \in Nat /\ delivered[s] \in Nat
               /\ stored[s] <= delivered[s] /\ delivered[s] <= turns[s]
               /\ at[s] = 0 => turns[s] = 0
               /\ Home[s] \in Workspaces
    BY BoundTypes DEF TypeInv, TypeOK, Bounded, Seconds, Counts
  <1>3. \A w \in Workspaces : file[w] \in Nat
    BY DEF TypeInv, TypeOK, Seconds
  <1>4. \A c \in Collectors : (\A w \in Workspaces : mem[c][w] \in Nat) /\ top[c] \in Nat
    BY DEF TypeInv, TypeOK, Seconds
  <1>5. \A c \in Collectors : \A l \in unread[c] : l.at \in Nat /\ l.session \in Sessions
    BY DEF TypeInv, TypeOK, Seconds, Listed
  <1>6. \A c \in Collectors : \A u \in batch[c] :
          u.session \in Sessions /\ u.turns \in Nat /\ u.turns > 0 /\ u.turns <= turns[u.session]
    BY DEF TypeInv, TypeOK, Bounded, Upload
  <1>. QED BY <1>1, <1>2, <1>3, <1>4, <1>5, <1>6

\* In a second in which its workspace was not listed, no watermark has come to a
\* session that changes.
LEMMA Unmarked ==
  ASSUME TypeInv, Stamped, NEW s \in Sessions, Home[s] \notin heard
  PROVE  /\ ~(now <= file[Home[s]])
         /\ \A c \in Collectors :
              /\ ~(now <= mem[c][Home[s]])
              /\ Home[s] = Here(c) =>
                    ~(now <= top[c]) /\ \A l \in unread[c] : ~(now <= l.at)
  BY Facts DEF Stamped, Timed, Past

\* The watermark 0 covers nothing.
LEMMA PastZero == TypeInv => \A w : Past(w, 0)
  BY Facts DEF Past

\* A collector that is not running claims nothing.
LEMMA IdleClaims ==
  ASSUME TypeInv, NEW c \in Collectors, pc[c] = "idle", NEW s \in Changing
  PROVE  ~Claimed(c, s) /\ batch[c] = {}
  <1>1. top[c] = 0 /\ unread[c] = {} /\ batch[c] = {}
    BY DEF TypeInv, Empties
  <1>2. at[s] > 0 /\ at[s] \in Nat
    BY Facts DEF Changing
  <1>. QED BY <1>1, <1>2 DEF Claimed

\* What is Crush's, and what another collector claims, a step of c leaves alone.
LEMMA SameClaims ==
  ASSUME NEW d \in Collectors, Same(d), turns' = turns, at' = at, NEW s
  PROVE  /\ Here(d)' = Here(d)
         /\ Claimed(d, s)' <=> Claimed(d, s)
         /\ Carried(d, s)' <=> Carried(d, s)
  BY DEF Same, Here, Claimed, Carried

\* A request of a collector that has been alone does not take a session back that
\* the server has all of.
LEMMA IngestKeeps ==
  ASSUME TypeInv, CollectorInv, NEW c \in Collectors, pc[c] # "idle", NEW B \in SUBSET batch[c],
         Ingest(B), turns' = turns, raced => raced',
         NEW s \in Changing, Reached(s),
         Watermarked(s) \/ \E d \in Collectors : Claimed(d, s)
  PROVE  Reached(s)'
  <1>1. CommonOK /\ SyncOK(c)
    BY TypeParts
  <1>2. B \in SUBSET Upload /\ \A u \in B : u.turns <= turns[u.session]
    BY <1>1 DEF SyncOK
  <1>3. s \in Sessions
    BY DEF Changing
  <1>4. /\ \/ stored'[s] = stored[s]
           \/ \E u \in B : u.session = s /\ stored'[s] = u.turns
        /\ delivered[s] <= delivered'[s] /\ delivered'[s] <= turns[s] /\ delivered' \in Counts
    BY <1>1, <1>2, <1>3, IngestEffect
  <1>5. delivered'[s] = turns[s]
    BY <1>3, <1>4, Facts DEF Reached, Counts
  <1>6. ASSUME ~raced PROVE stored'[s] = turns[s]
    <2>1. CASE stored'[s] = stored[s]
      BY <1>6, <2>1 DEF Reached
    <2>2. CASE \E u \in B : u.session = s /\ stored'[s] = u.turns
      <3>1. PICK u \in batch[c] : u.session = s /\ stored'[s] = u.turns
        BY <2>2
      <3>2. \A d \in Collectors : d # c => pc[d] = "idle"
        BY <1>6 DEF CollectorInv, Alone
      <3>3. Watermarked(s) \/ Claimed(c, s)
        BY <3>2, IdleClaims
      <3>. QED BY <1>6, <3>1, <3>3 DEF CollectorInv, Alone
    <2>. QED BY <1>4, <2>1, <2>2
  <1>. QED BY <1>5, <1>6 DEF Reached
-----------------------------------------------------------------------------
(* What the watermarks cover has been delivered.                           *)

LEMMA InitInv == Init => CollectorInv
  <1>. SUFFICES ASSUME Init PROVE CollectorInv
    OBVIOUS
  <1>1. Distinct
    BY DEF Init, Distinct, Single
  <1>2. Stamped
    <2>1. \A w : Past(w, 0)
      BY InitType, PastZero
    <2>. QED BY <2>1 DEF Init, Stamped, Timed
  <1>3. Changing = {}
    BY DEF Init, Changing
  <1>4. Delivered
    BY <1>3 DEF Delivered
  <1>5. Alone
    BY DEF Init, Alone
  <1>. QED BY <1>1, <1>2, <1>4, <1>5 DEF CollectorInv

LEMMA UnchangedInv ==
  ASSUME CollectorInv, UNCHANGED vars
  PROVE  CollectorInv'
  <1>1. Distinct'
    BY DEF CollectorInv, Distinct, Single, Here, vars, syncVars
  <1>2. Stamped'
    BY DEF CollectorInv, Stamped, Timed, Past, Here, vars, crushVars, syncVars
  <1>3. Delivered'
    BY DEF CollectorInv, Delivered, Changing, Watermarked, Claimed, Carried, Reached, Here,
           vars, crushVars, serverVars, syncVars
  <1>4. Alone'
    BY DEF CollectorInv, Alone, Changing, Watermarked, Claimed, Here,
           vars, crushVars, serverVars, syncVars
  <1>. QED BY <1>1, <1>2, <1>3, <1>4 DEF CollectorInv

LEMMA TickInv ==
  ASSUME TypeInv, CollectorInv, Tick
  PROVE  CollectorInv'
  <1>1. Distinct'
    BY DEF Tick, CollectorInv, Distinct, Single, Here, syncVars
  <1>2. \A w, x \in Nat : Past(w, x) => Past(w, x)'
    BY Facts DEF Tick, Past
  <1>3. Stamped'
    BY <1>2, Facts DEF Tick, CollectorInv, Stamped, Timed, Here, syncVars, Past
  <1>4. Delivered'
    BY DEF Tick, CollectorInv, Delivered, Changing, Watermarked, Claimed, Carried, Reached, Here,
           serverVars, syncVars
  <1>5. Alone'
    BY DEF Tick, CollectorInv, Alone, Changing, Watermarked, Claimed, Here, serverVars, syncVars
  <1>. QED BY <1>1, <1>3, <1>4, <1>5 DEF CollectorInv

\* A session that changes is past all watermarks, or has slipped, or is new and has
\* nothing to deliver.
LEMMA TouchInv ==
  ASSUME TypeInv, CollectorInv, NEW s \in Sessions, NEW k \in {0, 1}, Touch(s, k)
  PROVE  CollectorInv'
  <1>. USE DEF Touch, serverVars, syncVars
  <1>1. Distinct'
    BY DEF CollectorInv, Distinct, Single, Here
  <1>2. Stamped'
    BY DEF CollectorInv, Stamped, Timed, Past, Here
  <1>3. ASSUME NEW r \in Sessions, r # s
        PROVE  /\ at'[r] = at[r] /\ turns'[r] = turns[r]
               /\ r \in Changing' <=> r \in Changing
    BY <1>3 DEF TypeInv, TypeOK, Counts, Changing
  <1>4. at'[s] = now /\ turns'[s] = turns[s] + k
    BY DEF TypeInv, TypeOK, Counts
  <1>5. ASSUME s \in Changing'
        PROVE  \/ Home[s] \notin heard
               \/ Home[s] \in heard /\ k = 0 /\ at[s] = 0
    BY <1>5 DEF Changing
  <1>6. ASSUME Home[s] \notin heard
        PROVE  ~Watermarked(s)' /\ \A c \in Collectors : ~Claimed(c, s)'
    <2>1. Stamped
      BY DEF CollectorInv
    <2>. QED BY <1>4, <1>6, <2>1, Unmarked DEF Watermarked, Claimed, Here
  <1>7. ASSUME k = 0, at[s] = 0 PROVE Reached(s)'
    BY <1>4, <1>7, Facts DEF Reached
  <1>8. Delivered'
    <2>1. ASSUME NEW r \in Changing', Watermarked(r)' PROVE Reached(r)'
      <3>1. CASE r = s
        BY <1>5, <1>6, <1>7, <2>1, <3>1
      <3>2. CASE r # s
        <4>1. r \in Sessions
          BY DEF Changing
        <4>. QED BY <1>3, <2>1, <3>2, <4>1 DEF CollectorInv, Delivered, Watermarked, Reached
      <3>. QED BY <3>1, <3>2
    <2>2. ASSUME NEW r \in Changing', NEW c \in Collectors, Claimed(c, r)'
          PROVE  Reached(r)' \/ Carried(c, r)'
      <3>1. CASE r = s
        BY <1>5, <1>6, <1>7, <2>2, <3>1
      <3>2. CASE r # s
        <4>1. r \in Sessions
          BY DEF Changing
        <4>2. Claimed(c, r)
          BY <1>3, <2>2, <3>2, <4>1 DEF Claimed, Here
        <4>3. Reached(r) \/ Carried(c, r)
          BY <1>3, <3>2, <4>1, <4>2 DEF CollectorInv, Delivered
        <4>. QED BY <1>3, <3>2, <4>1, <4>3 DEF Reached, Carried
      <3>. QED BY <3>1, <3>2
    <2>. QED BY <2>1, <2>2 DEF Delivered
  <1>9. Alone'
    <2>1. ASSUME ~raced, NEW c \in Collectors, NEW u \in batch[c], u.session \in Changing',
                 Watermarked(u.session)' \/ Claimed(c, u.session)'
          PROVE  u.turns = turns'[u.session]
      <3>1. CASE u.session = s
        <4>1. k = 0 /\ at[s] = 0
          BY <1>5, <1>6, <2>1, <3>1
        <4>. QED BY <3>1, <4>1, Facts
      <3>2. CASE u.session # s
        <4>1. u.session \in Sessions
          BY Facts
        <4>2. Watermarked(u.session) \/ Claimed(c, u.session)
          BY <1>3, <2>1, <3>2, <4>1 DEF Watermarked, Claimed, Here
        <4>. QED BY <1>3, <2>1, <3>2, <4>1, <4>2 DEF CollectorInv, Alone
      <3>. QED BY <3>1, <3>2
    <2>. QED BY <2>1 DEF CollectorInv, Alone
  <1>. QED BY <1>1, <1>2, <1>8, <1>9 DEF CollectorInv

LEMMA StartInv ==
  ASSUME TypeInv, CollectorInv, NEW c \in Collectors, NEW all \in BOOLEAN, Start(c, all)
  PROVE  CollectorInv'
  <1>. USE DEF Start, crushVars, serverVars
  <1>1. Distinct'
    BY DEF CollectorInv, Distinct, Single, Here
  <1>2. \A d \in Collectors : mem'[d] = IF d = c THEN file ELSE mem[d]
    BY DEF TypeInv, TypeOK
  <1>3. Stamped'
    BY <1>2 DEF CollectorInv, Stamped, Timed, Past, Here
  <1>4. \A s : Watermarked(s)' => Watermarked(s)
    BY <1>2 DEF Watermarked
  <1>5. \A s, d : (Claimed(d, s)' <=> Claimed(d, s)) /\ (Carried(d, s)' <=> Carried(d, s))
    BY DEF Claimed, Carried, Here
  <1>6. \A s : Reached(s) => Reached(s)'
    BY DEF Reached
  <1>7. Changing' = Changing
    BY DEF Changing
  <1>8. Delivered'
    BY <1>4, <1>5, <1>6, <1>7 DEF CollectorInv, Delivered
  <1>9. Alone'
    <2>. SUFFICES ASSUME ~raced' PROVE Alone'
      BY DEF Alone
    <2>1. ~raced /\ \A d \in Collectors : pc[d] = "idle"
      OBVIOUS
    <2>2. \A d \in Collectors : batch'[d] = {} /\ (d # c => pc'[d] = "idle")
      BY <2>1 DEF TypeInv, TypeOK, Empties
    <2>. QED BY <2>1, <2>2 DEF CollectorInv, Alone
  <1>. QED BY <1>1, <1>3, <1>8, <1>9 DEF CollectorInv
\* What a step of c has to establish of c, the rest follows.
LEMMA StepInv ==
  ASSUME TypeInv, CollectorInv, NEW c \in Collectors, pc[c] # "idle", Others(c),
         UNCHANGED <<crushVars, slipped>>, heard \subseteq heard',
         raced => raced', ~raced' => limbo' = {},
         Single(c)', Timed(c)', \A w \in Workspaces : Past(w, file[w])',
         \A s \in Changing : Watermarked(s)' => Reached(s)',
         \A s \in Changing, d \in Collectors : Reached(s) /\ Claimed(d, s) => Reached(s)',
         \A s \in Changing : Claimed(c, s)' => Reached(s)' \/ Carried(c, s)',
         ~raced' => \A u \in batch'[c] :
             u.session \in Changing /\ (Watermarked(u.session)' \/ Claimed(c, u.session)') =>
                u.turns = turns[u.session]
  PROVE  CollectorInv'
  <1>. USE DEF crushVars
  <1>1. \A d \in Collectors : d # c => Same(d)
    BY DEF Others
  <1>2. Distinct'
    BY <1>1 DEF CollectorInv, Distinct, Single, Same, Here
  <1>3. Stamped'
    <2>1. \A w, x : Past(w, x) => Past(w, x)'
      BY DEF Past
    <2>2. \A d \in Collectors : d # c => Timed(d)'
      BY <1>1, <2>1 DEF CollectorInv, Stamped, Timed, Same, Here
    <2>. QED BY <2>2 DEF Stamped
  <1>4. Changing' = Changing
    BY DEF Changing
  <1>5. ASSUME NEW d \in Collectors, d # c, NEW s \in Changing, Claimed(d, s)'
        PROVE  Reached(s)' \/ Carried(d, s)'
    <2>1. Claimed(d, s)
      BY <1>1, <1>5, SameClaims
    <2>2. Reached(s) \/ Carried(d, s)
      BY <2>1 DEF CollectorInv, Delivered
    <2>. QED BY <1>1, <1>5, <2>1, <2>2, SameClaims
  <1>6. Delivered'
    BY <1>4, <1>5 DEF Delivered
  <1>7. Alone'
    <2>. SUFFICES ASSUME ~raced' PROVE Alone'
      BY DEF Alone
    <2>1. \A d \in Collectors : d # c => pc[d] = "idle"
      BY DEF CollectorInv, Alone
    <2>2. \A d \in Collectors : d # c => pc'[d] = "idle" /\ batch'[d] = {}
      BY <1>1, <2>1 DEF Same, TypeInv, Empties
    <2>. QED BY <1>4, <2>2 DEF Alone
  <1>. QED BY <1>2, <1>3, <1>6, <1>7 DEF CollectorInv
\* A collector that lets go of what it has claims nothing any more.
LEMMA DropInv ==
  ASSUME TypeInv, CollectorInv, NEW c \in Collectors, pc[c] # "idle", Others(c), Dropped(c),
         UNCHANGED <<crushVars, file, slipped>>, heard \subseteq heard',
         raced => raced', ~raced' => limbo' = {},
         \A s \in Changing :
            Reached(s) /\ (Watermarked(s) \/ \E d \in Collectors : Claimed(d, s)) => Reached(s)'
  PROVE  CollectorInv'
  <1>. USE DEF crushVars
  <1>1. unread'[c] = {} /\ batch'[c] = {} /\ top'[c] = 0
    BY DEF Dropped
  <1>2. Single(c)'
    BY <1>1 DEF Single
  <1>3. \A w, x : Past(w, x) => Past(w, x)'
    BY DEF Past
  <1>4. \A w : Past(w, 0)'
    BY <1>3, PastZero
  <1>5. \A w \in Workspaces : mem'[c][w] = mem[c][w] \/ mem'[c][w] = 0
    BY DEF Dropped
  <1>6. Timed(c)'
    <2>1. \A w \in Workspaces : Past(w, mem[c][w])'
      <3>. SUFFICES ASSUME NEW w \in Workspaces PROVE Past(w, mem[c][w])'
        OBVIOUS
      <3>1. CASE mem'[c][w] = 0
        BY <1>4, <3>1 DEF Past
      <3>2. CASE mem'[c][w] = mem[c][w]
        BY <3>2 DEF Past, CollectorInv, Stamped, Timed
      <3>. QED BY <1>5, <3>1, <3>2
    <2>2. Past(Here(c), top[c])'
      BY <1>1, <1>4 DEF Past
    <2>. QED BY <1>1, <2>1, <2>2 DEF Timed
  <1>7. \A w \in Workspaces : Past(w, file[w])'
    BY DEF CollectorInv, Stamped, Past
  <1>8. \A s \in Changing : at[s] \in Nat /\ at[s] > 0 /\ Home[s] \in Workspaces
    BY Facts DEF Changing
  <1>9. ASSUME NEW s \in Changing, Watermarked(s)' PROVE Watermarked(s)
    <2>1. CASE at[s] <= file[Home[s]]
      BY <2>1 DEF Watermarked
    <2>2. CASE \E d \in Collectors : at'[s] <= mem'[d][Home[s]]
      <3>1. PICK d \in Collectors : at[s] <= mem'[d][Home[s]]
        BY <2>2
      <3>2. CASE d = c
        <4>1. mem'[c][Home[s]] # 0
          BY <1>8, <3>1, <3>2
        <4>. QED BY <1>5, <1>8, <3>1, <3>2, <4>1 DEF Watermarked
      <3>3. CASE d # c
        BY <3>1, <3>3 DEF Others, Same, Watermarked
      <3>. QED BY <3>2, <3>3
    <2>. QED BY <1>9, <2>1, <2>2 DEF Watermarked
  <1>10. \A s \in Changing : Watermarked(s)' => Reached(s)'
    BY <1>9 DEF CollectorInv, Delivered
  <1>11. \A s \in Changing : ~Claimed(c, s)'
    BY <1>1, <1>8 DEF Claimed
  <1>. QED BY <1>1, <1>2, <1>6, <1>7, <1>10, <1>11, StepInv

LEMMA ListInv ==
  ASSUME TypeInv, CollectorInv, NEW c \in Collectors, List(c)
  PROVE  CollectorInv'
  <1>1. /\ pc[c] = "list" /\ heard' = heard \cup {Here(c)} /\ raced' = raced /\ limbo' = limbo
        /\ stored' = stored /\ delivered' = delivered
        /\ UNCHANGED <<crushVars, file, slipped>>
    BY DEF List, serverVars
  <1>2. pc[c] # "idle" /\ Others(c) /\ batch[c] = {}
    BY <1>1, ListCases DEF TypeInv, Empties
  <1>3. /\ ~raced' => limbo' = {}
        /\ \A s : Reached(s) => Reached(s)'
    BY <1>1 DEF CollectorInv, Alone, Reached, crushVars
  <1>4. CASE Dropped(c)
    BY <1>1, <1>2, <1>3, <1>4, DropInv
  <1>5. CASE Lists(c)
    <2>1. /\ unread'[c] = Changed(Here(c), Since(c)) /\ top'[c] = Since(c)
          /\ mem'[c] = mem[c] /\ Here(c)' = Here(c) /\ batch'[c] = {}
          /\ at' = at /\ now' = now /\ file' = file
      BY <1>1, <1>2, <1>5 DEF Lists, Here, crushVars
    <2>2. Here(c) \in Workspaces /\ Since(c) \in Seconds
      BY HereType DEF TypeInv
    <2>3. /\ unread'[c] \subseteq Listed
          /\ \A l \in unread'[c] :
               Home[l.session] = Here(c) /\ l.at = at[l.session] /\ l.at > Since(c)
          /\ \A s \in Sessions : Home[s] = Here(c) /\ at[s] > Since(c) =>
               \E l \in unread'[c] : l.session = s /\ l.at = at[s]
      BY <2>1, <2>2, ChangedType DEF TypeInv
    <2>4. Since(c) = 0 \/ Since(c) = mem[c][Here(c)]
      BY DEF Since
    <2>5. Single(c)'
      <3>1. \A l, m \in unread'[c] : l.session = m.session => l = m
        BY <2>3 DEF Listed
      <3>. QED BY <2>1, <2>3, <3>1 DEF Single
    <2>6. \A w, x : Past(w, x) => Past(w, x)'
      BY <1>1, <2>1 DEF Past
    <2>7. Timed(c)'
      <3>1. \A w \in Workspaces : Past(w, mem[c][w])'
        BY <2>1, <2>6 DEF CollectorInv, Stamped, Timed, Past
      <3>2. Past(Here(c), Since(c))
        BY <2>2, <2>4, PastZero DEF CollectorInv, Stamped, Timed
      <3>3. Past(Here(c), top[c])'
        BY <1>1, <2>1, <3>2 DEF Past
      <3>4. \A l \in unread'[c] : l.at <= now
        BY <2>3, Facts DEF Listed
      <3>5. (\A l \in unread[c] : Past(Here(c), l.at))'
        BY <1>1, <2>1, <3>4 DEF Past
      <3>. QED BY <3>1, <3>3, <3>5 DEF Timed
    <2>8. \A w \in Workspaces : Past(w, file[w])'
      BY <1>1, <2>1 DEF CollectorInv, Stamped, Past
    <2>9. ASSUME NEW s \in Changing, Watermarked(s)' PROVE Reached(s)'
      <3>1. Watermarked(s)
        BY <1>2, <2>1, <2>9 DEF Watermarked, Others, Same
      <3>. QED BY <1>3, <3>1 DEF CollectorInv, Delivered
    <2>10. ASSUME NEW s \in Changing, Claimed(c, s)' PROVE Reached(s)' \/ Carried(c, s)'
      <3>1. s \in Sessions /\ at[s] > 0 /\ at[s] \in Nat /\ Home[s] = Here(c)
        BY <2>1, <2>10, Facts DEF Changing, Claimed
      <3>2. CASE at[s] > Since(c)
        BY <2>3, <3>1, <3>2 DEF Carried
      <3>3. CASE ~(at[s] > Since(c))
        <4>1. at[s] <= mem[c][Home[s]]
          BY <2>2, <2>4, <3>1, <3>3 DEF Seconds
        <4>. QED BY <1>3, <4>1 DEF Watermarked, CollectorInv, Delivered
      <3>. QED BY <3>2, <3>3
    <2>. QED BY <1>1, <1>2, <1>3, <2>1, <2>5, <2>7, <2>8, <2>9, <2>10, StepInv
  <1>. QED BY <1>4, <1>5, ListCases
LEMMA ReadInv ==
  ASSUME TypeInv, CollectorInv, NEW c \in Collectors, NEW l \in Listed, ReadTurns(c, l)
  PROVE  CollectorInv'
  <1>1. /\ heard' = heard /\ raced' = raced /\ limbo' = limbo
        /\ stored' = stored /\ delivered' = delivered /\ file' = file
        /\ UNCHANGED <<crushVars, file, slipped>>
    BY DEF ReadTurns, serverVars
  <1>2. pc[c] # "idle" /\ Others(c) /\ l \in unread[c] /\ l.session \in Sessions /\ l.at \in Seconds
    BY ReadCases
  <1>3. /\ ~raced' => limbo' = {}
        /\ \A s : Reached(s) => Reached(s)'
    BY <1>1 DEF CollectorInv, Alone, Reached, crushVars
  <1>4. CASE Dropped(c)
    BY <1>1, <1>2, <1>3, <1>4, DropInv
  <1>5. CASE Reads(c, l)
    <2>. DEFINE turned == [session |-> l.session, turns |-> turns[l.session]]
    <2>1. /\ Here(c)' = Here(c) /\ mem'[c] = mem[c] /\ unread'[c] = unread[c] \ {l}
          /\ batch'[c] = batch[c] \cup {turned} \/ (turns[l.session] = 0 /\ batch'[c] = batch[c])
          /\ top'[c] = top[c] \/ top'[c] = l.at
          /\ at' = at /\ now' = now /\ turns' = turns
      BY <1>1, <1>5 DEF Reads, Here, crushVars
    <2>2. turned.session = l.session /\ turned.turns = turns[l.session]
      OBVIOUS
    <2>. HIDE DEF turned
    <2>3. Single(c)
      BY DEF CollectorInv, Distinct
    <2>4. Single(c)'
      BY <1>2, <2>1, <2>2, <2>3 DEF Single
    <2>5. Timed(c)'
      <3>1. Timed(c)
        BY DEF CollectorInv, Stamped
      <3>. QED BY <1>1, <1>2, <2>1, <3>1 DEF Timed, Past
    <2>6. \A w \in Workspaces : Past(w, file[w])'
      BY <1>1, <2>1 DEF CollectorInv, Stamped, Past
    <2>7. ASSUME NEW s, Watermarked(s)' PROVE Watermarked(s)
      BY <1>1, <1>2, <2>1, <2>7 DEF Watermarked, Others, Same
    <2>8. ASSUME NEW s, Claimed(c, s)' PROVE Claimed(c, s)
      BY <1>2, <2>1, <2>8 DEF Claimed
    <2>9. ASSUME NEW s \in Changing, Carried(c, s) PROVE Reached(s)' \/ Carried(c, s)'
      <3>1. CASE \E u \in batch[c] : u.session = s /\ u.turns = turns[s]
        BY <2>1, <3>1 DEF Carried
      <3>2. CASE \E m \in unread[c] : m # l /\ m.session = s
        BY <2>1, <3>2 DEF Carried
      <3>3. CASE l.session = s
        <4>1. CASE batch'[c] = batch[c] \cup {turned}
          BY <2>1, <2>2, <3>3, <4>1 DEF Carried
        <4>2. CASE turns[s] = 0
          <5>1. Reached(s)
            BY <1>2, <3>3, <4>2, Facts DEF Reached
          <5>. QED BY <1>3, <5>1
        <4>. QED BY <2>1, <3>3, <4>1, <4>2
      <3>. QED BY <2>9, <3>1, <3>2, <3>3 DEF Carried
    <2>10. \A s \in Changing : Watermarked(s)' => Reached(s)'
      BY <1>3, <2>7 DEF CollectorInv, Delivered
    <2>11. \A s \in Changing : Claimed(c, s)' => Reached(s)' \/ Carried(c, s)'
      BY <1>3, <2>8, <2>9 DEF CollectorInv, Delivered
    <2>12. ASSUME ~raced', NEW u \in batch'[c], u.session \in Changing,
                  Watermarked(u.session)' \/ Claimed(c, u.session)'
           PROVE  u.turns = turns[u.session]
      <3>1. CASE u \in batch[c]
        BY <1>1, <2>7, <2>8, <2>12, <3>1 DEF CollectorInv, Alone
      <3>2. CASE u = turned
        BY <2>2, <3>2
      <3>. QED BY <2>1, <2>12, <3>1, <3>2
    <2>. QED BY <1>1, <1>2, <1>3, <2>4, <2>5, <2>6, <2>10, <2>11, <2>12, StepInv
  <1>. QED BY <1>4, <1>5, ReadCases

\* What was in the request and is all of a session, the server has.
LEMMA AcceptedInv ==
  ASSUME TypeInv, CollectorInv, NEW c \in Collectors, Accepted(c)
  PROVE  CollectorInv'
  <1>1. /\ heard' = heard /\ raced' = raced /\ limbo' = limbo
        /\ file' = file /\ mem' = mem /\ place' = place /\ unread' = unread /\ top' = top
        /\ UNCHANGED <<crushVars, file, slipped>> /\ at' = at /\ now' = now /\ turns' = turns
    BY DEF Accepted, crushVars
  <1>2. PICK B \in Slices(c) : Ingest(B) /\ batch' = [batch EXCEPT ![c] = batch[c] \ B]
    BY DEF Accepted
  <1>3. pc[c] # "idle" /\ Others(c) /\ batch'[c] = batch[c] \ B
    BY <1>2, AcceptedType DEF Accepted, TypeInv, TypeOK
  <1>4. B \in SUBSET batch[c] /\ B \in SUBSET Upload /\ \A u \in B : u.turns <= turns[u.session]
    BY SliceType
  <1>5. \A s \in Changing :
          Reached(s) /\ (Watermarked(s) \/ \E d \in Collectors : Claimed(d, s)) => Reached(s)'
    BY <1>1, <1>2, <1>3, <1>4, IngestKeeps
  <1>6. Single(c)' /\ Timed(c)' /\ \A w \in Workspaces : Past(w, file[w])'
    <2>1. Single(c) /\ Timed(c) /\ \A w \in Workspaces : Past(w, file[w])
      BY DEF CollectorInv, Distinct, Stamped
    <2>. QED BY <1>1, <1>3, <2>1 DEF Single, Timed, Past, Here
  <1>7. \A s : (Watermarked(s)' <=> Watermarked(s)) /\ (Claimed(c, s)' <=> Claimed(c, s))
    BY <1>1 DEF Watermarked, Claimed, Here
  <1>8. ASSUME NEW s \in Changing, Carried(c, s) PROVE Reached(s)' \/ Carried(c, s)'
    <2>1. CASE \E u \in B : u.session = s /\ u.turns = turns[s]
      <3>1. PICK u \in B : u.session = s /\ u.turns = turns[s]
        BY <2>1
      <3>2. s \in Sessions /\ CommonOK
        BY TypeParts DEF Changing
      <3>3. /\ \/ stored'[s] = stored[s] /\ \A v \in B : v.session # s
               \/ \E v \in B : v.session = s /\ stored'[s] = v.turns
            /\ stored'[s] = turns[s] => delivered'[s] = turns[s]
        BY <1>2, <1>4, <3>2, IngestEffect
      <3>4. \A v \in B : v.session = s => v = u
        BY <1>4, <3>1 DEF CollectorInv, Distinct, Single
      <3>. QED BY <1>1, <3>1, <3>3, <3>4 DEF Reached
    <2>2. CASE ~\E u \in B : u.session = s /\ u.turns = turns[s]
      BY <1>1, <1>3, <1>8, <2>2 DEF Carried
    <2>. QED BY <2>1, <2>2
  <1>9. \A s \in Changing : Watermarked(s)' => Reached(s)'
    BY <1>5, <1>7 DEF CollectorInv, Delivered
  <1>10. \A s \in Changing : Claimed(c, s)' => Reached(s)' \/ Carried(c, s)'
    BY <1>5, <1>7, <1>8 DEF CollectorInv, Delivered
  <1>11. ~raced' => limbo' = {} /\ \A u \in batch'[c] :
            u.session \in Changing /\ (Watermarked(u.session)' \/ Claimed(c, u.session)') =>
               u.turns = turns[u.session]
    BY <1>1, <1>3, <1>7 DEF CollectorInv, Alone
  <1>. QED BY <1>1, <1>3, <1>5, <1>6, <1>9, <1>10, <1>11, StepInv

LEMMA CutInv ==
  ASSUME TypeInv, CollectorInv, NEW c \in Collectors,
         CollectFails(c) \/ Failed(c) \/ AnswerLost(c) \/ GivenUp(c) \/ Crash(c)
  PROVE  CollectorInv'
  <1>1. /\ Dropped(c) /\ Others(c) /\ pc[c] # "idle" /\ (raced => raced')
        /\ UNCHANGED <<crushVars, file, slipped>> /\ heard' = heard /\ turns' = turns
    BY CutType DEF crushVars
  <1>2. ~raced' => limbo' = {}
    BY DEF CollectFails, Failed, AnswerLost, GivenUp, Crash, CollectorInv, Alone, serverVars
  <1>3. \A s \in Changing :
          Reached(s) /\ (Watermarked(s) \/ \E d \in Collectors : Claimed(d, s)) => Reached(s)'
    <2>1. CASE stored' = stored /\ delivered' = delivered
      BY <1>1, <2>1 DEF Reached
    <2>2. CASE AnswerLost(c)
      <3>1. PICK B \in Slices(c) : Ingest(B)
        BY <2>2 DEF AnswerLost
      <3>2. B \in SUBSET batch[c]
        BY SliceType
      <3>. QED BY <1>1, <3>1, <3>2, IngestKeeps
    <2>. QED BY <2>1, <2>2 DEF CollectFails, Failed, GivenUp, Crash, serverVars
  <1>. QED BY <1>1, <1>2, <1>3, DropInv

\* A request that comes late may take a session back, and that is known.
LEMMA ArriveInv ==
  ASSUME TypeInv, CollectorInv, NEW B \in limbo, Arrive(B)
  PROVE  CollectorInv'
  <1>. USE DEF Arrive, crushVars, syncVars
  <1>1. raced
    BY DEF CollectorInv, Alone
  <1>2. \A s \in Sessions : Reached(s) => Reached(s)'
    <2>1. CommonOK /\ B \in SUBSET Upload /\ \A u \in B : u.turns <= turns[u.session]
      BY TypeParts DEF CommonOK
    <2>2. \A s \in Sessions :
            delivered[s] <= delivered'[s] /\ delivered'[s] <= turns[s] /\ delivered'[s] \in Nat
      BY <2>1, IngestEffect DEF Counts
    <2>. QED BY <1>1, <2>2, Facts DEF Reached
  <1>3. Distinct'
    BY DEF CollectorInv, Distinct, Single, Here
  <1>4. Stamped'
    BY DEF CollectorInv, Stamped, Timed, Past, Here
  <1>5. Changing' = Changing /\ Changing \subseteq Sessions
    BY DEF Changing
  <1>6. \A s : Watermarked(s)' <=> Watermarked(s)
    BY DEF Watermarked
  <1>7. \A s, c : (Claimed(c, s)' <=> Claimed(c, s)) /\ (Carried(c, s)' <=> Carried(c, s))
    BY DEF Claimed, Carried, Here
  <1>8. Delivered'
    BY <1>2, <1>5, <1>6, <1>7 DEF CollectorInv, Delivered
  <1>9. Alone'
    BY <1>1 DEF Alone
  <1>. QED BY <1>3, <1>4, <1>8, <1>9 DEF CollectorInv

\* The watermark that is saved covers what its collector has uploaded.
LEMMA SaveInv ==
  ASSUME TypeInv, CollectorInv, NEW c \in Collectors, Save(c)
  PROVE  CollectorInv'
  <1>1. /\ Saves(c) /\ Others(c) /\ pc[c] # "idle"
        /\ heard' = heard /\ raced' = raced /\ limbo' = limbo
        /\ stored' = stored /\ delivered' = delivered
        /\ UNCHANGED <<crushVars, slipped>> /\ at' = at /\ now' = now /\ turns' = turns
        /\ \A w \in Workspaces : Moved(c)[w] = IF w = Here(c) THEN top[c] ELSE mem[c][w]
    BY SaveCases DEF Saves, crushVars, serverVars
  <1>2. /\ unread[c] = {} /\ batch[c] = {}
        /\ unread'[c] = {} /\ batch'[c] = {} /\ top'[c] = 0
    BY <1>1 DEF Saves, TypeInv, Empties
  <1>3. \A s : Reached(s) => Reached(s)'
    BY <1>1 DEF Reached
  <1>4. \A w \in Workspaces :
          /\ file'[w] = file[w] \/ file'[w] = Moved(c)[w]
          /\ mem'[c][w] = 0 \/ mem'[c][w] = Moved(c)[w]
    BY <1>1 DEF Saves
  <1>5. \A w \in Workspaces : Past(w, file[w]) /\ Past(w, Moved(c)[w]) /\ Past(w, 0)
    BY <1>1, PastZero DEF CollectorInv, Stamped, Timed
  <1>6. \A w \in Workspaces : Past(w, file[w])' /\ Past(w, mem[c][w])' /\ Past(w, 0)'
    BY <1>1, <1>4, <1>5 DEF Past
  <1>7. Single(c)' /\ Timed(c)'
    <2>1. Past(Here(c), top[c])'
      BY <1>1, <1>2, PastZero DEF Past
    <2>. QED BY <1>2, <1>6, <2>1 DEF Single, Timed
  <1>8. ASSUME NEW s \in Changing, Claimed(c, s) PROVE Reached(s)
    BY <1>2, <1>8 DEF CollectorInv, Delivered, Carried
  <1>9. ASSUME NEW s \in Changing, at[s] <= Moved(c)[Home[s]] PROVE Reached(s)
    <2>1. Home[s] \in Workspaces
      BY Facts DEF Changing
    <2>2. CASE Home[s] = Here(c)
      BY <1>1, <1>8, <1>9, <2>1, <2>2 DEF Claimed
    <2>3. CASE Home[s] # Here(c)
      BY <1>1, <1>9, <2>1, <2>3 DEF Watermarked, CollectorInv, Delivered
    <2>. QED BY <2>2, <2>3
  <1>10. ASSUME NEW s \in Changing, Watermarked(s)' PROVE Reached(s)'
    <2>1. Home[s] \in Workspaces /\ at[s] > 0 /\ at[s] \in Nat
      BY Facts DEF Changing
    <2>2. CASE at[s] <= file'[Home[s]]
      BY <1>3, <1>4, <1>9, <2>1, <2>2 DEF Watermarked, CollectorInv, Delivered
    <2>3. CASE \E d \in Collectors : at[s] <= mem'[d][Home[s]]
      <3>1. PICK d \in Collectors : at[s] <= mem'[d][Home[s]]
        BY <2>3
      <3>2. CASE d = c
        BY <1>3, <1>4, <1>9, <2>1, <3>1, <3>2
      <3>3. CASE d # c
        BY <1>1, <1>3, <3>1, <3>3 DEF Others, Same, Watermarked, CollectorInv, Delivered
      <3>. QED BY <3>2, <3>3
    <2>. QED BY <1>1, <1>10, <2>2, <2>3 DEF Watermarked
  <1>11. \A s \in Changing : ~Claimed(c, s)'
    BY <1>1, <1>2, Facts DEF Claimed, Changing
  <1>12. ~raced' => limbo' = {}
    BY <1>1 DEF CollectorInv, Alone
  <1>. QED BY <1>1, <1>2, <1>3, <1>6, <1>7, <1>10, <1>11, <1>12, StepInv

LEMMA InvStep == TypeInv /\ CollectorInv /\ [Next]_vars => CollectorInv'
  <1>. SUFFICES ASSUME TypeInv, CollectorInv, [Next]_vars PROVE CollectorInv'
    OBVIOUS
  <1>. QED BY UnchangedInv, TickInv, TouchInv, StartInv, ListInv, ReadInv, AcceptedInv, CutInv,
              ArriveInv, SaveInv
           DEF Next, SyncStep

\* sync.go:24, "watermarks only advance after a successful upload": for any
\* collectors, routes, batch size, clock, lost answers, late requests and crashes,
\* what Crush has of a session at or before the watermark has reached the server.
THEOREM WatermarkDeliveredHolds == Spec => []WatermarkDelivered
  <1>1. CollectorInv => WatermarkDelivered
    BY DEF CollectorInv, Delivered, Changing, Watermarked, Reached, WatermarkDelivered
  <1>. QED BY <1>1, InitType, InitInv, TypeStep, InvStep, PTL DEF Spec
-----------------------------------------------------------------------------
(* A run in which nothing failed has covered its route.                    *)

\* What RunCovers says of the end of a run of c.
Ends(c) ==
    pc[c] # "idle" /\ pc'[c] = "idle" /\ fails' = began[c].fails =>
        \A s \in Sessions \ slipped :
            at[s] < began[c].at /\ (\E i \in 1..Len(Route[c]) : Route[c][i] = Home[s])
                => delivered'[s] = turns[s]

LEMMA CoverFacts ==
  ASSUME TypeInv, NEW c \in Collectors
  PROVE  /\ fails \in Nat /\ began[c].fails \in Nat /\ began[c].at \in Nat
         /\ place[c] \in 1..Len(Route[c]) /\ Len(Route[c]) \in Nat
         /\ Here(c) = Route[c][place[c]]
  <1>1. fails \in Nat /\ began[c] \in [at : Seconds, fails : 0..MaxFails]
    BY DEF TypeInv, TypeOK
  <1>2. place[c] \in 1..Len(Route[c]) /\ Len(Route[c]) \in Nat
    BY RouteType DEF TypeInv, TypeOK
  <1>. QED BY <1>1, <1>2 DEF Here, Seconds

\* What is behind is after the watermark the run has loaded.
LEMMA BehindSince ==
  ASSUME TypeInv, CollectorInv, NEW c \in Collectors, NEW s \in Sessions, Behind(c, s)
  PROVE  at[s] > 0 /\ turns[s] > 0 /\ at[s] > mem[c][Home[s]]
  <1>1. at[s] > 0 /\ turns[s] > 0
    BY Facts DEF Behind
  <1>2. s \in Changing /\ ~Reached(s)
    BY <1>1 DEF Changing, Behind, Reached
  <1>3. ~(at[s] <= mem[c][Home[s]])
    BY <1>2 DEF CollectorInv, Delivered, Watermarked
  <1>. QED BY <1>1, <1>3, Facts

\* The step of another collector.
LEMMA CoverSame ==
  ASSUME TypeInv, TypeInv', NEW d \in Collectors, Same(d), Cover(d),
         UNCHANGED <<crushVars, slipped>>, fails <= fails',
         \A s \in Sessions : delivered[s] <= delivered'[s]
  PROVE  Cover(d)' /\ Ends(d)
  <1>. USE DEF crushVars
  <1>1. fails \in Nat /\ fails' \in Nat /\ began[d].fails \in Nat
    BY CoverFacts DEF TypeInv, TypeOK
  <1>2. began'[d] = began[d] /\ pc'[d] = pc[d] /\ place'[d] = place[d] /\ Here(d)' = Here(d)
    BY DEF Same, Here
  <1>3. ASSUME NEW s \in Sessions, Behind(d, s)' PROVE Behind(d, s)
    <2>1. /\ delivered[s] \in Nat /\ turns[s] \in Nat /\ delivered[s] <= delivered'[s]
          /\ delivered'[s] \in Nat /\ delivered'[s] <= turns[s]
      BY Facts DEF TypeInv, TypeOK, Bounded, Counts
    <2>. QED BY <1>2, <1>3, <2>1 DEF Behind
  <1>4. \A s : Carried(d, s)' <=> Carried(d, s)
    BY SameClaims
  <1>5. Cover(d)'
    <2>1. began'[d].fails <= fails' /\ began'[d].at <= now'
      BY <1>1, <1>2 DEF Cover
    <2>2. ASSUME pc'[d] # "idle", began'[d].fails = fails' PROVE Passed(d)'
      <3>1. Passed(d)
        BY <1>1, <1>2, <2>2 DEF Cover
      <3>. QED BY <1>2, <1>3, <1>4, <3>1 DEF Passed
    <2>. QED BY <2>1, <2>2 DEF Cover
  <1>. QED BY <1>2, <1>5 DEF Ends

\* What a step of c has to establish of c.
LEMMA CoverStep ==
  ASSUME TypeInv, TypeInv', Covers, NEW c \in Collectors, Others(c),
         UNCHANGED <<crushVars, slipped>>, fails <= fails',
         \A s \in Sessions : delivered[s] <= delivered'[s],
         Cover(c)', Ends(c)
  PROVE  Covers' /\ \A d \in Collectors : Ends(d)
  <1>1. ASSUME NEW d \in Collectors, d # c PROVE Cover(d)' /\ Ends(d)
    BY <1>1, CoverSame DEF Others, Covers
  <1>. QED BY <1>1 DEF Covers

\* The run leaves a workspace where nothing is behind.
LEMMA LeavesCovered ==
  ASSUME TypeInv, NEW c \in Collectors, pc[c] # "idle", Cover(c),
         UNCHANGED <<crushVars, slipped>>, fails' = fails, delivered' = delivered,
         began[c].fails = fails =>
            \A s \in Sessions : Behind(c, s) => Home[s] # Here(c),
         \/ pc'[c] = "idle" /\ place[c] = Len(Route[c]) /\ began'[c] = [at |-> 0, fails |-> 0]
         \/ pc'[c] = "list" /\ place'[c] = place[c] + 1 /\ began'[c] = began[c]
  PROVE  Cover(c)' /\ Ends(c)
  <1>. USE DEF crushVars
  <1>1. /\ fails \in Nat /\ now \in Nat /\ began[c].fails \in Nat
        /\ place[c] \in 1..Len(Route[c]) /\ Len(Route[c]) \in Nat /\ Here(c) = Route[c][place[c]]
    BY CoverFacts, Facts
  <1>2. ASSUME began[c].fails = fails, NEW s \in Sessions, Behind(c, s)
        PROVE  \A i \in 1..place[c] : Route[c][i] # Home[s]
    <2>1. \A i \in 1..(place[c] - 1) : Route[c][i] # Home[s]
      BY <1>2 DEF Cover, Passed
    <2>2. Route[c][place[c]] # Home[s]
      BY <1>1, <1>2
    <2>. QED BY <1>1, <2>1, <2>2
  <1>3. CASE pc'[c] = "idle" /\ place[c] = Len(Route[c]) /\ began'[c] = [at |-> 0, fails |-> 0]
    <2>1. Cover(c)'
      BY <1>1, <1>3 DEF Cover
    <2>2. Ends(c)
      BY <1>2, <1>3 DEF Ends, Behind
    <2>. QED BY <2>1, <2>2
  <1>4. CASE pc'[c] = "list" /\ place'[c] = place[c] + 1 /\ began'[c] = began[c]
    <2>1. ASSUME began[c].fails = fails PROVE Passed(c)'
      <3>1. \A s \in Sessions : Behind(c, s)' => Behind(c, s)
        BY <1>4 DEF Behind
      <3>2. place'[c] - 1 = place[c]
        BY <1>1, <1>4
      <3>. QED BY <1>2, <1>4, <2>1, <3>1, <3>2 DEF Passed
    <2>. QED BY <1>4, <2>1 DEF Cover, Ends
  <1>. QED BY <1>3, <1>4

LEMMA InitCovers == Init => Covers
  BY DEF Init, Covers, Cover

LEMMA TickCovers ==
  ASSUME TypeInv, Covers, Tick
  PROVE  Covers' /\ \A c \in Collectors : Ends(c)
  <1>. USE DEF Tick, serverVars, syncVars
  <1>1. ASSUME NEW c \in Collectors PROVE Cover(c)' /\ Ends(c)
    <2>1. began[c].at <= now'
      BY CoverFacts, Facts DEF Covers, Cover
    <2>2. Passed(c)' <=> Passed(c)
      BY DEF Passed, Behind, Carried, Here
    <2>. QED BY <2>1, <2>2 DEF Covers, Cover, Ends
  <1>. QED BY <1>1 DEF Covers

\* What changes during a run is not what the run found.
LEMMA TouchCovers ==
  ASSUME TypeInv, Covers, NEW s \in Sessions, NEW k \in {0, 1}, Touch(s, k)
  PROVE  Covers' /\ \A c \in Collectors : Ends(c)
  <1>. USE DEF Touch, serverVars, syncVars
  <1>1. \A r \in Sessions :
          /\ r # s => at'[r] = at[r] /\ turns'[r] = turns[r] /\ (r \in slipped' <=> r \in slipped)
          /\ at'[s] = now
    BY DEF TypeInv, TypeOK, Counts
  <1>2. ASSUME NEW c \in Collectors PROVE Cover(c)' /\ Ends(c)
    <2>1. ASSUME NEW r \in Sessions, Behind(c, r)' PROVE r # s /\ Behind(c, r)
      <3>1. ~(now < began[c].at)
        BY CoverFacts, Facts DEF Covers, Cover
      <3>. QED BY <1>1, <2>1, <3>1 DEF Behind
    <2>2. \A r \in Sessions : r # s => (Carried(c, r)' <=> Carried(c, r))
      BY <1>1 DEF Carried
    <2>3. Passed(c) => Passed(c)'
      BY <2>1, <2>2 DEF Passed, Here
    <2>. QED BY <2>3 DEF Covers, Cover, Ends
  <1>. QED BY <1>2 DEF Covers

LEMMA StartCovers ==
  ASSUME TypeInv, TypeInv', Covers, NEW c \in Collectors, NEW all \in BOOLEAN, Start(c, all)
  PROVE  Covers' /\ \A d \in Collectors : Ends(d)
  <1>1. /\ pc[c] = "idle" /\ pc'[c] = "list" /\ place' = place
        /\ began'[c] = [at |-> now, fails |-> fails]
        /\ UNCHANGED <<crushVars, slipped>> /\ fails' = fails /\ delivered' = delivered /\ now' = now
    BY DEF Start, TypeInv, TypeOK, crushVars, serverVars
  <1>2. place'[c] = 1
    BY <1>1 DEF TypeInv, Empties
  <1>3. Cover(c)' /\ Ends(c)
    BY <1>1, <1>2, Facts, CoverFacts DEF Cover, Passed, Ends
  <1>4. Others(c)
    BY TypeParts DEF Start, Others, SyncMaps, Same
  <1>. QED BY <1>1, <1>3, <1>4, CoverStep, Facts, CoverFacts
LEMMA ListCovers ==
  ASSUME TypeInv, TypeInv', CollectorInv, Covers, NEW c \in Collectors, List(c)
  PROVE  Covers' /\ \A d \in Collectors : Ends(d)
  <1>1. /\ pc[c] = "list" /\ fails' = fails /\ delivered' = delivered
        /\ UNCHANGED <<crushVars, slipped>> /\ at' = at /\ turns' = turns /\ now' = now
    BY DEF List, serverVars, crushVars
  <1>2. Here(c) \in Workspaces /\ Since(c) \in Seconds /\ Cover(c) /\ pc[c] # "idle"
    BY <1>1, HereType DEF TypeInv, Covers
  <1>3. ASSUME NEW s \in Sessions, Behind(c, s), Home[s] = Here(c)
        PROVE  \E l \in Changed(Here(c), Since(c)) : l.session = s
    <2>1. at[s] > 0 /\ at[s] > mem[c][Home[s]]
      BY <1>3, BehindSince
    <2>2. at[s] > Since(c)
      BY <1>3, <2>1 DEF Since
    <2>. QED BY <1>2, <1>3, <2>2, ChangedType DEF TypeInv
  <1>4. Cover(c)' /\ Ends(c)
    <2>1. CASE /\ Dropped(c) /\ Changed(Here(c), Since(c)) = {}
               /\ pc'[c] = "idle" => place[c] = Len(Route[c])
      <3>1. \A s \in Sessions : Behind(c, s) => Home[s] # Here(c)
        BY <1>3, <2>1
      <3>2. \/ pc'[c] = "idle" /\ place[c] = Len(Route[c]) /\ began'[c] = [at |-> 0, fails |-> 0]
            \/ pc'[c] = "list" /\ place'[c] = place[c] + 1 /\ began'[c] = began[c]
        BY <2>1 DEF Dropped
      <3>. QED BY <1>1, <1>2, <3>1, <3>2, LeavesCovered
    <2>2. CASE Lists(c)
      <3>1. /\ pc'[c] = "read" /\ unread'[c] = Changed(Here(c), Since(c))
            /\ place'[c] = place[c] /\ began'[c] = began[c] /\ Here(c)' = Here(c)
        BY <2>2 DEF Lists, Here
      <3>2. ASSUME NEW s \in Sessions, Behind(c, s)' PROVE Behind(c, s)
        BY <1>1, <3>1, <3>2 DEF Behind
      <3>3. Passed(c) => Passed(c)'
        BY <1>3, <3>1, <3>2 DEF Passed, Carried
      <3>. QED BY <1>1, <1>2, <3>1, <3>3 DEF Cover, Ends
    <2>. QED BY <2>1, <2>2, ListCases
  <1>. QED BY <1>1, <1>4, ListCases, CoverStep, Facts, CoverFacts

LEMMA ReadCovers ==
  ASSUME TypeInv, TypeInv', CollectorInv, Covers, NEW c \in Collectors, NEW l \in Listed,
         ReadTurns(c, l)
  PROVE  Covers' /\ \A d \in Collectors : Ends(d)
  <1>1. /\ pc[c] = "read" /\ fails' = fails /\ delivered' = delivered
        /\ UNCHANGED <<crushVars, slipped>> /\ at' = at /\ turns' = turns /\ now' = now
    BY DEF ReadTurns, serverVars, crushVars
  <1>2. Cover(c) /\ pc[c] # "idle"
    BY <1>1 DEF Covers
  <1>3. \A s \in Sessions : Behind(c, s) => turns[s] > 0
    BY BehindSince
  <1>4. Cover(c)' /\ Ends(c)
    <2>1. CASE /\ Dropped(c) /\ unread[c] = {l} /\ batch[c] = {} /\ turns[l.session] = 0
               /\ pc'[c] = "idle" => place[c] = Len(Route[c])
      <3>1. began[c].fails = fails => \A s \in Sessions : Behind(c, s) => Home[s] # Here(c)
        BY <1>1, <1>2, <1>3, <2>1 DEF Cover, Passed, Carried
      <3>2. \/ pc'[c] = "idle" /\ place[c] = Len(Route[c]) /\ began'[c] = [at |-> 0, fails |-> 0]
            \/ pc'[c] = "list" /\ place'[c] = place[c] + 1 /\ began'[c] = began[c]
        BY <2>1 DEF Dropped
      <3>. QED BY <1>1, <1>2, <3>1, <3>2, LeavesCovered
    <2>2. CASE Reads(c, l)
      <3>. DEFINE turned == [session |-> l.session, turns |-> turns[l.session]]
      <3>1. /\ pc'[c] \in {"read", "post"} /\ unread'[c] = unread[c] \ {l}
            /\ batch'[c] = batch[c] \cup {turned} \/ (turns[l.session] = 0 /\ batch'[c] = batch[c])
            /\ place'[c] = place[c] /\ began'[c] = began[c] /\ Here(c)' = Here(c)
        BY <2>2 DEF Reads, Here
      <3>2. turned.session = l.session /\ turned.turns = turns[l.session]
        OBVIOUS
      <3>. HIDE DEF turned
      <3>3. ASSUME NEW s \in Sessions, Behind(c, s)' PROVE Behind(c, s)
        BY <1>1, <3>1, <3>3 DEF Behind
      <3>4. ASSUME NEW s \in Sessions, turns[s] > 0, Carried(c, s) PROVE Carried(c, s)'
        <4>1. CASE l.session = s
          <5>1. turned \in batch'[c]
            BY <3>1, <3>4, <4>1
          <5>. QED BY <1>1, <3>2, <4>1, <5>1 DEF Carried
        <4>2. CASE l.session # s
          BY <1>1, <3>1, <3>4, <4>2 DEF Carried
        <4>. QED BY <4>1, <4>2
      <3>5. Passed(c) => Passed(c)'
        BY <1>1, <1>3, <3>1, <3>3, <3>4 DEF Passed
      <3>. QED BY <1>1, <1>2, <3>1, <3>5 DEF Cover, Ends
    <2>. QED BY <2>1, <2>2, ReadCases
  <1>. QED BY <1>1, <1>4, ReadCases, CoverStep, Facts, CoverFacts

LEMMA AcceptedCovers ==
  ASSUME TypeInv, TypeInv', CollectorInv, Covers, NEW c \in Collectors, Accepted(c)
  PROVE  Covers' /\ \A d \in Collectors : Ends(d)
  <1>1. /\ pc[c] = "post" /\ fails' = fails /\ place' = place /\ began' = began /\ unread' = unread
        /\ UNCHANGED <<crushVars, slipped>> /\ at' = at /\ turns' = turns /\ now' = now
    BY DEF Accepted, crushVars
  <1>2. PICK B \in Slices(c) :
          /\ Ingest(B)
          /\ batch' = [batch EXCEPT ![c] = batch[c] \ B]
          /\ pc' = [pc EXCEPT ![c] = IF B = batch[c] THEN "save" ELSE "post"]
    BY DEF Accepted
  <1>3. /\ Others(c) /\ batch'[c] = batch[c] \ B /\ pc'[c] \in {"save", "post"}
        /\ Here(c)' = Here(c)
    BY <1>1, <1>2, AcceptedType DEF TypeInv, TypeOK, Here
  <1>4. B \in SUBSET batch[c] /\ B \in SUBSET Upload /\ \A u \in B : u.turns <= turns[u.session]
    BY SliceType
  <1>5. \A s \in Sessions :
          /\ \/ stored'[s] = stored[s] /\ \A v \in B : v.session # s
             \/ \E v \in B : v.session = s /\ stored'[s] = v.turns
          /\ delivered[s] <= delivered'[s] /\ delivered'[s] <= turns[s] /\ delivered'[s] \in Nat
          /\ stored'[s] = turns[s] => delivered'[s] = turns[s]
    <2>1. CommonOK
      BY TypeParts
    <2>. QED BY <1>2, <1>4, <2>1, IngestEffect DEF Counts
  <1>6. ASSUME NEW s \in Sessions, Behind(c, s)' PROVE Behind(c, s) /\ (Carried(c, s) => Carried(c, s)')
    <2>1. delivered'[s] # turns[s]
      BY <1>1, <1>6 DEF Behind
    <2>2. Behind(c, s)
      BY <1>1, <1>5, <1>6, <2>1, Facts DEF Behind
    <2>3. ASSUME NEW u \in B, u.session = s, u.turns = turns[s] PROVE FALSE
      <3>1. \A v \in B : v.session = s => v = u
        BY <1>4, <2>3 DEF CollectorInv, Distinct, Single
      <3>. QED BY <1>5, <2>1, <2>3, <3>1
    <2>4. Carried(c, s) => Carried(c, s)'
      BY <1>1, <1>3, <2>3 DEF Carried
    <2>. QED BY <2>2, <2>4
  <1>7. Passed(c) => Passed(c)'
    BY <1>1, <1>3, <1>6 DEF Passed
  <1>8. Cover(c)' /\ Ends(c)
    BY <1>1, <1>3, <1>7 DEF Covers, Cover, Ends
  <1>. QED BY <1>1, <1>3, <1>5, <1>8, CoverStep, CoverFacts

\* A run that was cut short is one in which something failed.
LEMMA CutCovers ==
  ASSUME TypeInv, TypeInv', Covers, NEW c \in Collectors,
         CollectFails(c) \/ Failed(c) \/ AnswerLost(c) \/ GivenUp(c) \/ Crash(c)
  PROVE  Covers' /\ \A d \in Collectors : Ends(d)
  <1>1. /\ Dropped(c) /\ Others(c) /\ pc[c] # "idle" /\ fails' = fails + 1
        /\ UNCHANGED <<crushVars, slipped>> /\ now' = now
    BY CutType DEF crushVars
  <1>2. /\ fails \in Nat /\ began[c].fails \in Nat /\ began[c].fails <= fails
        /\ now \in Nat /\ began[c].at <= now
    BY Facts, CoverFacts DEF Covers, Cover
  <1>3. began'[c] = began[c] \/ (pc'[c] = "idle" /\ began'[c] = [at |-> 0, fails |-> 0])
    BY <1>1 DEF Dropped
  <1>4. Cover(c)' /\ Ends(c)
    BY <1>1, <1>2, <1>3 DEF Cover, Ends
  <1>5. \A s \in Sessions : delivered[s] <= delivered'[s]
    <2>1. CASE delivered' = delivered
      BY <2>1, Facts
    <2>2. CASE AnswerLost(c)
      <3>1. PICK B \in Slices(c) : Ingest(B)
        BY <2>2 DEF AnswerLost
      <3>2. CommonOK
        BY TypeParts
      <3>. QED BY <3>1, <3>2, SliceType, IngestEffect
    <2>. QED BY <2>1, <2>2 DEF CollectFails, Failed, GivenUp, Crash, serverVars
  <1>. QED BY <1>1, <1>2, <1>4, <1>5, CoverStep

LEMMA ArriveCovers ==
  ASSUME TypeInv, TypeInv', Covers, NEW B \in limbo, Arrive(B)
  PROVE  Covers' /\ \A d \in Collectors : Ends(d)
  <1>1. B \in SUBSET Upload /\ (\A u \in B : u.turns <= turns[u.session]) /\ CommonOK
    BY TypeParts DEF CommonOK
  <1>2. \A s \in Sessions : delivered[s] <= delivered'[s]
    BY <1>1, IngestEffect DEF Arrive
  <1>3. \A d \in Collectors : Same(d)
    BY DEF Arrive, Same, syncVars
  <1>4. UNCHANGED <<crushVars, slipped>> /\ fails <= fails'
    BY CoverFacts, <1>1 DEF Arrive, CommonOK
  <1>. QED BY <1>2, <1>3, <1>4, CoverSame DEF Covers

LEMMA SaveCovers ==
  ASSUME TypeInv, TypeInv', Covers, NEW c \in Collectors, Save(c)
  PROVE  Covers' /\ \A d \in Collectors : Ends(d)
  <1>1. /\ Saves(c) /\ Others(c) /\ pc[c] = "save" /\ delivered' = delivered
        /\ UNCHANGED <<crushVars, slipped>> /\ now' = now
    BY SaveCases DEF Saves, crushVars, serverVars
  <1>2. /\ fails \in Nat /\ began[c].fails \in Nat /\ began[c].fails <= fails
        /\ now \in Nat /\ began[c].at <= now /\ Cover(c)
    BY Facts, CoverFacts DEF Covers, Cover
  <1>3. \/ pc'[c] = "idle" /\ place[c] = Len(Route[c]) /\ began'[c] = [at |-> 0, fails |-> 0]
        \/ pc'[c] = "list" /\ place'[c] = place[c] + 1 /\ began'[c] = began[c]
    BY <1>1 DEF Saves
  <1>4. batch[c] = {} /\ unread[c] = {}
    BY <1>1 DEF TypeInv, Empties
  <1>5. fails' = fails \/ fails' = fails + 1
    BY <1>1 DEF Saves
  <1>6. Cover(c)' /\ Ends(c)
    <2>1. CASE fails' = fails
      <3>1. began[c].fails = fails => \A s \in Sessions : Behind(c, s) => Home[s] # Here(c)
        BY <1>1, <1>2, <1>4 DEF Cover, Passed, Carried
      <3>. QED BY <1>1, <1>2, <1>3, <2>1, <3>1, LeavesCovered
    <2>2. CASE fails' = fails + 1
      BY <1>2, <1>1, <1>3, <2>2 DEF Cover, Ends
    <2>. QED BY <1>5, <2>1, <2>2
  <1>. QED BY <1>1, <1>2, <1>5, <1>6, CoverStep, Facts

LEMMA CoversStep ==
  TypeInv /\ TypeInv' /\ CollectorInv /\ Covers /\ [Next]_vars =>
    Covers' /\ [\A c \in Collectors : Ends(c)]_vars
  <1>. SUFFICES ASSUME TypeInv, TypeInv', CollectorInv, Covers, [Next]_vars
                PROVE  Covers' /\ [\A c \in Collectors : Ends(c)]_vars
    OBVIOUS
  <1>1. CASE UNCHANGED vars
    BY <1>1 DEF Covers, Cover, Passed, Behind, Carried, Here, vars, crushVars, serverVars, syncVars
  <1>2. CASE Next
    BY <1>2, TickCovers, TouchCovers, StartCovers, ListCovers, ReadCovers, AcceptedCovers, CutCovers,
       ArriveCovers, SaveCovers
       DEF Next, SyncStep
  <1>. QED BY <1>1, <1>2

\* sync.go:49-78: a Sync in which nothing failed has left nothing behind of what
\* the workspaces of its route had when it began, however the steps of Crush, of
\* other collectors and of late requests came between its own.
THEOREM RunCoversHolds == Spec => RunCovers
  <1>1. [\A c \in Collectors : Ends(c)]_vars =>
          [\A c \in Collectors :
             pc[c] # "idle" /\ pc'[c] = "idle" /\ fails' = began[c].fails =>
                \A s \in Sessions \ slipped :
                  at[s] < began[c].at /\ (\E i \in 1..Len(Route[c]) : Route[c][i] = Home[s])
                    => delivered'[s] = turns[s]]_vars
    BY DEF Ends
  <1>. QED BY <1>1, InitType, InitInv, InitCovers, TypeStep, InvStep, CoversStep, PTL
           DEF Spec, RunCovers
=============================================================================
