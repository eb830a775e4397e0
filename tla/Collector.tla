----------------------------- MODULE Collector ------------------------------
(***************************************************************************)
(* The edge collector (internal/client: sync.go, crush.go, and State of    *)
(* client.go): it reads the sessions of Crush that changed since the       *)
(* watermark of their workspace, uploads them in batches, and then saves   *)
(* the new watermark.  Crush writes meanwhile, several collectors may run  *)
(* on one machine (the service and a user's "sync"), and a request may be  *)
(* refused, lose its answer, or be handled after the collector gave up.    *)
(*                                                                         *)
(* What Crush has of a session is the number of its user turns and         *)
(* updated_at, in seconds.                                                 *)
(***************************************************************************)
EXTENDS Integers, Sequences, FiniteSets

CONSTANTS Collectors,  \* Sync calls that may be running at once
          Workspaces,
          Route,       \* per collector: the workspaces it goes through, in order
          Sessions,    \* numbered in the order of created_at
          Home,        \* the workspace of each session
          BatchSize,   \* maxBatch
          Modes,       \* per collector: may it ignore the watermarks (backfill)?
          MaxTurns,    \* per session: bound on its user turns
          MaxClock,    \* bound on the clock
          MaxFails     \* bound on failures and crashes

ASSUME CollectorAssumption ==
    /\ Sessions \subseteq Nat /\ IsFiniteSet(Sessions)
    /\ Home \in [Sessions -> Workspaces]
    /\ \A c \in Collectors : Route[c] \in Seq(Workspaces) /\ Route[c] # <<>>
    /\ Modes \in [Collectors -> SUBSET BOOLEAN]
    /\ BatchSize \in Nat \ {0}
    /\ MaxTurns \in [Sessions -> Nat]
    /\ MaxClock \in Nat \ {0} /\ MaxFails \in Nat

VARIABLES
    now,        \* the clock
    turns, at,  \* Crush: user turns and updated_at per session, 0 if there is none
    stored,     \* the server: turns stored of each session
    limbo,      \* batches of requests the collector gave up and the server did not
    file,       \* the state file: a watermark per workspace
    pc,         \* per collector: where it is
    full,       \* per collector: watermarks are ignored
    mem,        \* per collector: the watermarks it has loaded
    place,      \* per collector: where on its route it is
    unread,     \* per collector: listed sessions whose turns it has not read yet
    batch,      \* per collector: what it has read and not uploaded yet
    top,        \* per collector: the new watermark
    began,      \* per collector: the second its run began in, and the failures by then
    fails,
    \* observers
    delivered,  \* the most turns of a session the server has ever stored
    heard,      \* workspaces listed in this second
    slipped,    \* sessions last changed in a second after a listing in that second
    raced       \* two collectors overlapped, or a request was given up

crushVars == <<now, turns, at>>
serverVars == <<stored, limbo, delivered>>
syncVars == <<pc, full, mem, place, unread, batch, top, began>>
vars == <<crushVars, serverVars, file, syncVars, fails, heard, slipped, raced>>

Seconds == 0..MaxClock
Listed == [session : Sessions, at : Seconds]
Upload == [session : Sessions, turns : Nat \ {0}]
Counts == {n \in [Sessions -> Nat] : \A s \in Sessions : n[s] <= MaxTurns[s]}

TypeOK ==
    /\ now \in Seconds
    /\ turns \in Counts
    /\ at \in [Sessions -> Seconds]
    /\ stored \in Counts
    /\ limbo \subseteq SUBSET Upload
    /\ file \in [Workspaces -> Seconds]
    /\ pc \in [Collectors -> {"idle", "list", "read", "post", "save"}]
    /\ full \in [Collectors -> BOOLEAN]
    /\ mem \in [Collectors -> [Workspaces -> Seconds]]
    /\ place \in [Collectors -> Nat]
    /\ \A c \in Collectors : place[c] \in 1..Len(Route[c])
    /\ unread \in [Collectors -> SUBSET Listed]
    /\ batch \in [Collectors -> SUBSET Upload]
    /\ top \in [Collectors -> Seconds]
    /\ fails \in 0..MaxFails
    /\ delivered \in Counts
    /\ began \in [Collectors -> [at : Seconds, fails : 0..MaxFails]]
    /\ heard \subseteq Workspaces
    /\ slipped \subseteq Sessions
    /\ raced \in BOOLEAN
    \* a request is never empty
    /\ \A c \in Collectors : pc[c] = "post" => batch[c] # {}

Init ==
    /\ now = 1
    /\ turns = [s \in Sessions |-> 0]
    /\ at = [s \in Sessions |-> 0]
    /\ stored = [s \in Sessions |-> 0]
    /\ limbo = {}
    /\ file = [w \in Workspaces |-> 0]
    /\ pc = [c \in Collectors |-> "idle"]
    /\ full = [c \in Collectors |-> FALSE]
    /\ mem = [c \in Collectors |-> [w \in Workspaces |-> 0]]
    /\ place = [c \in Collectors |-> 1]
    /\ unread = [c \in Collectors |-> {}]
    /\ batch = [c \in Collectors |-> {}]
    /\ top = [c \in Collectors |-> 0]
    /\ fails = 0
    /\ delivered = [s \in Sessions |-> 0]
    /\ began = [c \in Collectors |-> [at |-> 0, fails |-> 0]]
    /\ heard = {}
    /\ slipped = {}
    /\ raced = FALSE
-----------------------------------------------------------------------------
(* Crush, and the clock.                                                   *)

Tick ==
    /\ now < MaxClock
    /\ now' = now + 1
    /\ heard' = {}
    /\ UNCHANGED <<turns, at, serverVars, file, syncVars, fails, slipped, raced>>

\* A session is created (k = 0) or gets a message of the user (k = 1), and
\* updated_at with it.  Messages of the assistant that only move updated_at are
\* left out: they make a session be sent again as it is.
Touch(s, k) ==
    /\ turns[s] + k <= MaxTurns[s]
    /\ k = 1 \/ at[s] = 0
    /\ turns' = [turns EXCEPT ![s] = @ + k]
    /\ at' = [at EXCEPT ![s] = now]
    /\ slipped' = IF Home[s] \notin heard THEN slipped \ {s}
                  ELSE IF k = 1 THEN slipped \cup {s} ELSE slipped
    /\ UNCHANGED <<now, serverVars, file, syncVars, fails, heard, raced>>
-----------------------------------------------------------------------------
(* One Sync.                                                               *)

\* Sync returns, done or not.
Return(c) ==
    /\ pc' = [pc EXCEPT ![c] = "idle"]
    /\ full' = [full EXCEPT ![c] = FALSE]
    /\ mem' = [mem EXCEPT ![c] = [w \in Workspaces |-> 0]]
    /\ place' = [place EXCEPT ![c] = 1]
    /\ unread' = [unread EXCEPT ![c] = {}]
    /\ batch' = [batch EXCEPT ![c] = {}]
    /\ top' = [top EXCEPT ![c] = 0]
    /\ began' = [began EXCEPT ![c] = [at |-> 0, fails |-> 0]]

\* Mutant of Advance: a workspace with nothing to upload ends the run.
AdvanceNot(c) == Return(c)

\* The loop over the workspaces goes on.
Advance(c) ==
    \/ place[c] = Len(Route[c]) /\ Return(c)
    \/ /\ place[c] < Len(Route[c])
       /\ place' = [place EXCEPT ![c] = @ + 1]
       /\ pc' = [pc EXCEPT ![c] = "list"]
       /\ unread' = [unread EXCEPT ![c] = {}]
       /\ batch' = [batch EXCEPT ![c] = {}]
       /\ top' = [top EXCEPT ![c] = 0]
       /\ UNCHANGED <<full, mem, began>>

\* LoadState, and the workspaces are known.
Start(c, all) ==
    /\ pc[c] = "idle"
    /\ all \in Modes[c]
    /\ pc' = [pc EXCEPT ![c] = "list"]
    /\ full' = [full EXCEPT ![c] = all]
    /\ mem' = [mem EXCEPT ![c] = file]
    /\ raced' = (raced \/ \E d \in Collectors : pc[d] # "idle")
    /\ began' = [began EXCEPT ![c] = [at |-> now, fails |-> fails]]
    /\ UNCHANGED <<crushVars, serverVars, file, place, unread, batch, top, fails, heard, slipped>>

\* The workspace c is at.
Here(c) == Route[c][place[c]]

Since(c) == IF full[c] THEN 0 ELSE mem[c][Here(c)]

\* SessionSince.
Changed(w, since) ==
    {[session |-> s, at |-> at[s]] : s \in {r \in Sessions : Home[r] = w /\ at[r] > since}}

List(c) ==
    /\ pc[c] = "list"
    /\ LET new == Changed(Here(c), Since(c))
       IN \/ new = {} /\ Advance(c)
          \/ /\ new # {}
             /\ unread' = [unread EXCEPT ![c] = new]
             /\ top' = [top EXCEPT ![c] = Since(c)]
             /\ pc' = [pc EXCEPT ![c] = "read"]
             /\ UNCHANGED <<full, mem, place, batch, began>>
    /\ heard' = heard \cup {Here(c)}
    /\ UNCHANGED <<crushVars, serverVars, file, fails, slipped, raced>>

\* Mutant of ReadTurns: a listing without any user turn is uploaded, too.
ReadTurnsEmpty(c, l) ==
    LET read == {u \in {[session |-> l.session, turns |-> turns[l.session]]} : u.turns > 0}
    IN /\ pc[c] = "read"
       /\ l \in unread[c]
       /\ \A m \in unread[c] : l.session <= m.session
       /\ unread' = [unread EXCEPT ![c] = @ \ {l}]
       /\ batch' = [batch EXCEPT ![c] = @ \cup read]
       /\ top' = [top EXCEPT ![c] = IF read # {} /\ l.at > @ THEN l.at ELSE @]
       /\ pc' = [pc EXCEPT ![c] = IF unread[c] = {l} THEN "post" ELSE "read"]
       /\ UNCHANGED <<full, mem, place, began>>
       /\ UNCHANGED <<crushVars, serverVars, file, fails, heard, slipped, raced>>

\* userTurns of the next session, one query each and outside a transaction.  A
\* session without user turns is passed over, and does not move the watermark.
\* After the last, there is something to upload or the loop goes on.
ReadTurns(c, l) ==
    LET read == {u \in {[session |-> l.session, turns |-> turns[l.session]]} : u.turns > 0}
        upload == batch[c] \cup read
    IN /\ pc[c] = "read"
       /\ l \in unread[c]
       /\ \A m \in unread[c] : l.session <= m.session
       /\ \/ unread[c] = {l} /\ upload = {} /\ Advance(c)
          \/ /\ unread[c] # {l} \/ upload # {}
             /\ unread' = [unread EXCEPT ![c] = @ \ {l}]
             /\ batch' = [batch EXCEPT ![c] = upload]
             /\ top' = [top EXCEPT ![c] = IF read # {} /\ l.at > @ THEN l.at ELSE @]
             /\ pc' = [pc EXCEPT ![c] = IF unread[c] = {l} THEN "post" ELSE "read"]
             /\ UNCHANGED <<full, mem, place, began>>
       /\ UNCHANGED <<crushVars, serverVars, file, fails, heard, slipped, raced>>

\* A query fails: the workspace is left for the next run.
CollectFails(c) ==
    /\ pc[c] \in {"list", "read"}
    /\ fails < MaxFails
    /\ fails' = fails + 1
    /\ Advance(c)
    /\ UNCHANGED <<crushVars, serverVars, file, heard, slipped, raced>>
-----------------------------------------------------------------------------
(* Uploads.                                                                *)

\* The next maxBatch of the sessions.
Slices(c) ==
    {B \in SUBSET batch[c] :
        /\ \/ Cardinality(B) = BatchSize
           \/ Cardinality(B) < BatchSize /\ B = batch[c]
        /\ \A u \in B, v \in batch[c] \ B : u.session < v.session}

\* IngestSessions: the turns of each session are replaced.
Ingest(B) ==
    LET sent(s) == {u.turns : u \in {b \in B : b.session = s}}
    IN /\ stored' = [s \in Sessions |->
                        IF sent(s) = {} THEN stored[s] ELSE CHOOSE n \in sent(s) : TRUE]
       /\ delivered' = [s \in Sessions |->
                        IF stored'[s] > delivered[s] THEN stored'[s] ELSE delivered[s]]

\* The server takes the request and the collector hears of it.
Accepted(c) ==
    /\ pc[c] = "post"
    /\ \E B \in Slices(c) :
         /\ Ingest(B)
         /\ batch' = [batch EXCEPT ![c] = @ \ B]
         /\ pc' = [pc EXCEPT ![c] = IF B = batch[c] THEN "save" ELSE "post"]
    /\ UNCHANGED <<crushVars, limbo, file, full, mem, place, unread, top, fails, began, heard,
                   slipped, raced>>

\* Mutant of Failed: the workspaces go on, and the watermark with them.
FailedIgnored(c) ==
    /\ pc[c] = "post"
    /\ fails < MaxFails
    /\ fails' = fails + 1
    /\ pc' = [pc EXCEPT ![c] = "save"]
    /\ batch' = [batch EXCEPT ![c] = {}]
    /\ UNCHANGED <<crushVars, serverVars, file, full, mem, place, unread, top, began, heard, slipped, raced>>

\* The request fails, and Sync with it: it was refused or lost, ...
Failed(c) ==
    /\ pc[c] = "post"
    /\ fails < MaxFails
    /\ fails' = fails + 1
    /\ Return(c)
    /\ UNCHANGED <<crushVars, serverVars, file, heard, slipped, raced>>

\* ... or taken and its answer lost, ...
AnswerLost(c) ==
    /\ pc[c] = "post"
    /\ fails < MaxFails
    /\ fails' = fails + 1
    /\ \E B \in Slices(c) : Ingest(B)
    /\ Return(c)
    /\ UNCHANGED <<crushVars, limbo, file, heard, slipped, raced>>

\* ... or is still waiting for the database when the collector times out.
GivenUp(c) ==
    /\ pc[c] = "post"
    /\ fails < MaxFails
    /\ fails' = fails + 1
    /\ \E B \in Slices(c) : limbo' = limbo \cup {B}
    /\ raced' = TRUE
    /\ Return(c)
    /\ UNCHANGED <<crushVars, stored, delivered, file, heard, slipped>>

Arrive(B) ==
    /\ B \in limbo
    /\ limbo' = limbo \ {B}
    /\ Ingest(B)
    /\ UNCHANGED <<crushVars, file, syncVars, fails, heard, slipped, raced>>

\* The file with the watermark of the current workspace moved, those of other
\* workspaces as they were loaded.
Moved(c) == [mem[c] EXCEPT ![Here(c)] = top[c]]

\* State.Save, whose error is only logged, and on to the next workspace.
Save(c) ==
    /\ pc[c] = "save"
    /\ \/ file' = Moved(c) /\ UNCHANGED fails
       \/ /\ fails < MaxFails
          /\ fails' = fails + 1
          /\ UNCHANGED file
    /\ \/ place[c] = Len(Route[c]) /\ Return(c)
       \/ /\ place[c] < Len(Route[c])
          /\ mem' = [mem EXCEPT ![c] = Moved(c)]
          /\ place' = [place EXCEPT ![c] = @ + 1]
          /\ pc' = [pc EXCEPT ![c] = "list"]
          /\ top' = [top EXCEPT ![c] = 0]
          /\ UNCHANGED <<full, unread, batch, began>>
    /\ UNCHANGED <<crushVars, serverVars, heard, slipped, raced>>

\* The run is killed, or its context ends: what it has done stays done.
Crash(c) ==
    /\ pc[c] # "idle"
    /\ fails < MaxFails
    /\ fails' = fails + 1
    /\ Return(c)
    /\ UNCHANGED <<crushVars, serverVars, file, heard, slipped, raced>>
-----------------------------------------------------------------------------
SyncStep(c) ==
    \/ List(c)
    \/ \E l \in Listed : ReadTurns(c, l)
    \/ Accepted(c)
    \/ Save(c)

Next ==
    \/ Tick
    \/ \E s \in Sessions, k \in {0, 1} : Touch(s, k)
    \/ \E c \in Collectors :
         \/ \E all \in BOOLEAN : Start(c, all)
         \/ SyncStep(c)
         \/ CollectFails(c) \/ Failed(c) \/ AnswerLost(c) \/ GivenUp(c) \/ Crash(c)
    \/ \E B \in limbo : Arrive(B)

Spec == Init /\ [][Next]_vars

-----------------------------------------------------------------------------
\* sync.go:24, "watermarks only advance after a successful upload": what Crush
\* has of a session at or before the watermark has reached the server, through
\* lost answers, requests handled late, crashes, and collectors side by side.
\* What may be missing is what a user wrote in the very second of a listing,
\* after it; and only where requests overtook each other may the server have
\* gone back to something older since.
WatermarkDelivered ==
    \A s \in Sessions \ slipped :
        0 < at[s] /\ at[s] <= file[Home[s]] =>
            /\ delivered[s] = turns[s]
            /\ ~raced => stored[s] = turns[s]

\* sync.go:49-78: a Sync in which nothing failed has left nothing behind of what
\* the workspaces of its route had when it began, whether this run uploaded it or
\* the watermark says that another had.
RunCovers ==
    [][\A c \in Collectors :
         pc[c] # "idle" /\ pc'[c] = "idle" /\ fails' = began[c].fails =>
            \A s \in Sessions \ slipped :
                at[s] < began[c].at /\ (\E i \in 1..Len(Route[c]) : Route[c][i] = Home[s])
                    => delivered'[s] = turns[s]]_vars
=============================================================================
