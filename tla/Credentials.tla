----------------------------- MODULE Credentials -----------------------------
(***************************************************************************)
(* The login of one machine: the tokens in client.toml, the commands that  *)
(* load, refresh, replace and wipe them (client/config.go, client/oauth.go,*)
(* client/device.go, setup/setup.go, lard-client/main.go), the             *)
(* authorization server that issues them, and the lard server that honours *)
(* them (module Introspection).                                            *)
(*                                                                         *)
(* Each request slot of the verifier is one process of the machine: the    *)
(* background agent, which syncs again and again, and the user, who runs   *)
(* any command, one at a time.  A process loads the file once, at the      *)
(* start of its command, and every save writes back the whole of what it   *)
(* holds.  Nothing locks the file.                                         *)
(*                                                                         *)
(* Every step of a command may be its last, and every call to either       *)
(* server may fail, before or after the server has acted.                  *)
(***************************************************************************)
EXTENDS Introspection

CONSTANTS Refreshes,    \* refresh tokens the authorization server may issue
          Daemon,       \* the process of the background agent
          Uploaders,    \* the processes whose syncs have several batches to upload
          Slack,        \* the minute before its expiry in which a token counts as expired
          MaxFaults     \* bound on lost calls, failed saves and deaths of a command

ASSUME CredentialsAssumption ==
    /\ NoToken \notin Refreshes
    /\ Daemon \in Requests
    /\ Uploaders \subseteq Requests
    /\ Slack \in Nat
    /\ MaxFaults \in Nat

VARIABLES
    file,     \* client.toml: the access and the refresh token, or none
    live,     \* refresh tokens the authorization server honours
    mem,      \* per process: the configuration it has loaded
    goal,     \* per process: what the command is after
    pc,       \* per process: where the command is
    faults,   \* faults so far
    \* Observers, read by no action:
    alone,    \* no two commands have overlapped, nothing has failed, and no live grant
              \* was stranded by a refusal of its claims, since the file last held the
              \* only grant
    excused   \* something has happened that may cost the machine its login: a
              \* forced login, a login or logout beside another command, a rotated
              \* token lost before its save, or rotated once more before it, a
              \* logout cut short

vars == <<verifierVars, file, live, mem, goal, pc, faults, alone, excused>>

Pair == [access : Tokens \cup {NoToken}, refresh : Refreshes \cup {NoToken}]
Nothing == [access |-> NoToken, refresh |-> NoToken]

\* "sync" is the first request of a sync and "more" any later one; "keep", "need"
\* and "final" are the calls of Verify in authenticate for saved credentials, in
\* authenticate for any, and in Run.
Syncing == {"sync", "more"}
Goals == Syncing \cup {"none", "keep", "need", "final", "logout"}

TypeOK ==
    /\ VerifierTypeOK
    /\ file \in Pair
    /\ live \subseteq Refreshes
    /\ mem \in [Requests -> Pair]
    /\ goal \in [Requests -> Goals]
    /\ pc \in [Requests -> {"idle", "revoke", "bearer", "saving", "ready", "sent",
                            "device", "commit", "wipe"}]
    /\ faults \in 0..MaxFaults
    /\ alone \in BOOLEAN
    /\ excused \in BOOLEAN
    /\ \A p \in Requests : pc[p] = "idle" <=> goal[p] = "none"

\* A machine that has logged in.
Init ==
    /\ \E a \in Tokens, r \in Refreshes :
         /\ file = [access |-> a, refresh |-> r]
         /\ live = {r}
         /\ life = [b \in Tokens |-> IF b = a THEN TokenTTL ELSE 0]
         /\ gone = [b \in Tokens |-> IF b = a THEN 0 ELSE Lag]
    /\ revoked = {}
    /\ cache = [a \in Tokens |-> NoEntry]
    /\ req = [p \in Requests |-> Idle]
    /\ mem = [p \in Requests |-> Nothing]
    /\ goal = [p \in Requests |-> "none"]
    /\ pc = [p \in Requests |-> "idle"]
    /\ faults = 0
    /\ alone = TRUE
    /\ excused = FALSE
-----------------------------------------------------------------------------
faultVars == <<faults, alone>>

Fault ==
    /\ faults < MaxFaults
    /\ faults' = faults + 1
    /\ alone' = FALSE

Goto(p, l, g) ==
    /\ pc' = [pc EXCEPT ![p] = l]
    /\ goal' = [goal EXCEPT ![p] = g]

\* The command returns, with or without an error.
End(p) ==
    /\ Goto(p, "idle", "none")
    /\ mem' = [mem EXCEPT ![p] = Nothing]

\* The request was refused, or not even sent: a sync gives up, Run too;
\* authenticate goes on to its second Verify, then to the device grant.
Fallback(g) == CASE g = "keep" -> "bearer" [] g = "need" -> "device" [] OTHER -> "idle"

Failure(p) ==
    IF Fallback(goal[p]) = "idle" THEN End(p)
    ELSE Goto(p, Fallback(goal[p]), "need") /\ UNCHANGED mem

\* It was accepted: a sync is done, or uploads its next batch with the token it
\* has; authenticate is content, and Run saves what it has verified.
Success(p) ==
    \/ goal[p] \in Syncing /\ End(p)
    \/ goal[p] \in Syncing /\ p \in Uploaders /\ Goto(p, "ready", "more") /\ UNCHANGED mem
    \/ goal[p] \in {"keep", "need"} /\ Goto(p, "bearer", "final") /\ UNCHANGED mem
    \/ goal[p] = "final" /\ Goto(p, "commit", "final") /\ UNCHANGED mem

Held(x) ==
    \E c \in {file} \cup {mem[p] : p \in Requests} : c.access = x \/ c.refresh = x

\* Values for new tokens: those that stand for none that is left.
FreeTokens == {a \in Tokens : Unknown(a) /\ ~Held(a)}
FreeRefreshes == {r \in Refreshes \ live : ~Held(r)}

\* The authorization server issues an access token beside the refresh token r.
IssueFor(p, r) ==
    \E a \in FreeTokens :
      /\ Issue(a)
      /\ mem' = [mem EXCEPT ![p] = [access |-> a, refresh |-> r]]

\* It takes a refresh token, and keeps or rotates it.
Exchange(old, new) ==
    /\ old \in live
    /\ new \in {old} \cup FreeRefreshes
    /\ live' = (live \ {old}) \cup {new}

\* It forgets a grant that nobody uses.
Lapse(r) ==
    /\ r \in live
    /\ ~Held(r)
    /\ live' = live \ {r}
    /\ UNCHANGED <<verifierVars, file, mem, goal, pc, faultVars, excused>>
-----------------------------------------------------------------------------
(* Commands begin by loading the file.                                     *)

Quiet == \A p \in Requests : pc[p] = "idle"

\* No command is under way, and the login in the file, if any, can be refreshed.
Settled == Quiet /\ file.refresh \in live \cup {NoToken}

\* The command that p begins for the goal g may undo another's work, or the login itself.
Risky(p, l, g) ==
    \/ l = "revoke" /\ g = "need"
    \/ \E q \in Requests \ {p} :
         pc[q] # "idle" /\ ~({g, goal[q]} \subseteq Syncing)

Load(p, l, g) ==
    /\ pc[p] = "idle"
    /\ req[p] = Idle
    /\ mem' = [mem EXCEPT ![p] = file]
    /\ Goto(p, l, g)
    /\ alone' = (Quiet /\ (alone \/ (Settled /\ live \subseteq {file.refresh})))
    /\ excused' = (Risky(p, l, g) \/ (excused /\ ~Settled))
    /\ UNCHANGED <<verifierVars, file, live, faults>>

\* sync, backfill, daemon, consolidate, status, service install.
Sync(p) == Load(p, "bearer", "sync")

Login(p) == Load(p, "bearer", IF file.access = NoToken THEN "need" ELSE "keep")

LoginForced(p) == Load(p, IF file.refresh = NoToken THEN "bearer" ELSE "revoke", "need")

Logout(p) == Load(p, IF file.refresh = NoToken THEN "wipe" ELSE "revoke", "logout")
-----------------------------------------------------------------------------
(* BearerToken, and the request that carries the token.                    *)

\* Mutant of Expired: no minute of slack.
ExpiredLate(a) == a = NoToken \/ life[a] = 0

Expired(a) == a = NoToken \/ life[a] <= Slack

\* The token is sent, from the file, just refreshed, or once more.
Send(p) ==
    /\ \/ pc[p] = "bearer" /\ ~Expired(mem[p].access)
       \/ pc[p] = "ready"
    /\ Lookup(p, mem[p].access)
    /\ Goto(p, "sent", goal[p])
    /\ UNCHANGED <<file, live, mem, faultVars, excused>>

\* No login: the request goes out bare and is refused.
SendBare(p) ==
    /\ pc[p] = "bearer"
    /\ mem[p].access = NoToken
    /\ Failure(p)
    /\ UNCHANGED <<verifierVars, file, live, faultVars, excused>>

Refreshing(p) == pc[p] = "bearer" /\ mem[p].access # NoToken /\ Expired(mem[p].access)

\* Observer: another command is about to save the token that is rotated here.
Overtakes(p) ==
    excused' = (excused \/ \E q \in Requests \ {p} :
                             pc[q] = "saving" /\ mem[q].refresh \in live \ live')

\* Mutant of Refresh: the rotated refresh token is not taken over.
RefreshKeepsOld(p) ==
    /\ Refreshing(p)
    /\ \E r \in Refreshes : Exchange(mem[p].refresh, r) /\ IssueFor(p, mem[p].refresh)
    /\ Overtakes(p)
    /\ Goto(p, "saving", goal[p])
    /\ UNCHANGED <<file, faultVars>>

Refresh(p) ==
    /\ Refreshing(p)
    /\ \E r \in Refreshes : Exchange(mem[p].refresh, r) /\ IssueFor(p, r)
    /\ Overtakes(p)
    /\ Goto(p, "saving", goal[p])
    /\ UNCHANGED <<file, faultVars>>

\* The refresh token was spent or revoked.  A sync ends; Verify goes on
\* without a header and is refused.
RefreshDenied(p) ==
    /\ Refreshing(p)
    /\ mem[p].refresh \notin live
    /\ Failure(p)
    /\ UNCHANGED <<verifierVars, file, live, faultVars, excused>>

\* The exchange fails on its way there, or on its way back.
RefreshLost(p) ==
    /\ Refreshing(p)
    /\ Fault
    /\ Failure(p)
    /\ \/ UNCHANGED <<live, excused>>
       \/ /\ \E r \in Refreshes : Exchange(mem[p].refresh, r)
          /\ excused' = (excused \/ live' # live)
    /\ UNCHANGED <<verifierVars, file>>

\* Save writes the whole configuration.
SaveRefreshed(p) ==
    /\ pc[p] = "saving"
    /\ file' = mem[p]
    /\ Goto(p, "ready", goal[p])
    /\ UNCHANGED <<verifierVars, live, mem, faultVars, excused>>

\* ... or fails; a login still holds the new tokens.
SaveFails(p) ==
    /\ pc[p] = "saving"
    /\ Fault
    /\ Failure(p)
    /\ excused' = TRUE
    /\ UNCHANGED <<verifierVars, file, live>>

Accepted(p) ==
    /\ pc[p] = "sent"
    /\ req[p].stage = "accepted"
    /\ Respond(p)
    /\ Success(p)
    /\ UNCHANGED <<file, live, faultVars, excused>>

\* Refused, or the answer of the server is lost.
Refused(p) ==
    /\ pc[p] = "sent"
    /\ \/ req[p].stage = "refused" /\ UNCHANGED faultVars
       \/ req[p].stage = "accepted" /\ Fault
    /\ Respond(p)
    /\ Failure(p)
    /\ UNCHANGED <<file, live, excused>>

\* Observer: the login that is refused replaces the grant it holds, which nobody
\* revokes, or drops the one it was just given.
Strands(p) ==
    /\ mem[p].refresh \in live
    /\ goal[p] = "need" \/ mem[p].refresh # file.refresh

\* The token is active, but its audience, account or scope is not admitted: 403.
\* To the command that is a refusal like any other.
Forbidden(p) ==
    /\ pc[p] = "sent"
    /\ req[p].stage = "accepted"
    /\ Respond(p)
    /\ Failure(p)
    /\ alone' = (alone /\ ~Strands(p))
    /\ UNCHANGED <<file, live, faults, excused>>
-----------------------------------------------------------------------------
(* Revocation, the device grant, and the last save.                        *)

\* Mutant of RevokeOld: a logout leaves the grant alone.
RevokeOldNot(p) ==
    /\ pc[p] = "revoke"
    /\ \/ UNCHANGED <<verifierVars, live, faultVars>>
       \/ Fault /\ UNCHANGED <<verifierVars, live>>
    /\ UNCHANGED <<file, mem, excused>>
    /\ Goto(p, IF goal[p] = "logout" THEN "wipe" ELSE "bearer", goal[p])

\* RevokeToken, best effort.  The access token may be revoked with it.
RevokeOld(p) ==
    /\ pc[p] = "revoke"
    /\ \/ /\ live' = live \ {mem[p].refresh}
          /\ \/ UNCHANGED verifierVars
             \/ mem[p].refresh \in live /\ mem[p].access # NoToken /\ Revoke(mem[p].access)
          /\ UNCHANGED faultVars
       \/ Fault /\ UNCHANGED <<verifierVars, live>>
    /\ UNCHANGED <<file, mem, excused>>
    /\ Goto(p, IF goal[p] = "logout" THEN "wipe" ELSE "bearer", goal[p])

\* LoginDevice: the user approves and a poll gets the tokens.
DeviceGranted(p) ==
    /\ pc[p] = "device"
    /\ \E r \in FreeRefreshes : live' = live \cup {r} /\ IssueFor(p, r)
    /\ Goto(p, "bearer", "final")
    /\ UNCHANGED <<file, faultVars, excused>>

\* The user declines, or the code expires, or the poll that was answered with
\* the tokens is lost, after which the code is spent.
DeviceFails(p) ==
    /\ pc[p] = "device"
    /\ \/ UNCHANGED <<live, faultVars>>
       \/ Fault /\ \E r \in FreeRefreshes : live' = live \cup {r}
    /\ End(p)
    /\ UNCHANGED <<verifierVars, file, excused>>

\* Run's last step.
Commit(p) ==
    /\ pc[p] = "commit"
    /\ \/ file' = mem[p] /\ UNCHANGED faultVars
       \/ Fault /\ UNCHANGED file
    /\ End(p)
    /\ UNCHANGED <<verifierVars, live, excused>>

\* Logout's last step.
Wipe(p) ==
    /\ pc[p] = "wipe"
    /\ \/ file' = Nothing /\ UNCHANGED <<faultVars, excused>>
       \/ Fault /\ excused' = TRUE /\ UNCHANGED file
    /\ End(p)
    /\ UNCHANGED <<verifierVars, live>>
-----------------------------------------------------------------------------
\* A command dies, or is interrupted.  The server finishes its request.
Die(p) ==
    /\ pc[p] # "idle"
    /\ Fault
    /\ End(p)
    /\ excused' = (excused \/ pc[p] \in {"saving", "wipe"})
    /\ UNCHANGED <<verifierVars, file, live>>

\* A step of the server for a request, or for one whose command has died.
ServerStep(p) ==
    /\ \/ Answer(p)
       \/ Remember(p)
       \/ pc[p] # "sent" /\ Respond(p)
    /\ UNCHANGED <<file, live, mem, goal, pc, faultVars, excused>>

\* ... or its failure, which the death of the command brings about by itself.
ServerFails(p) ==
    /\ \/ pc[p] # "sent" /\ UNCHANGED faultVars
       \/ Fault
    /\ IntrospectFails(p)
    /\ UNCHANGED <<file, live, mem, goal, pc, excused>>

\* A tick is a minute.  A command leaves a minute behind only while it waits for
\* the server or for a person: its other calls and its own steps are faster.
Tick ==
    /\ \A p \in Requests : pc[p] \in {"idle", "sent", "device"}
    /\ VerifierTick
    /\ UNCHANGED <<file, live, mem, goal, pc, faultVars, excused>>

CommandStep(p) ==
    \/ Send(p) \/ SendBare(p) \/ Accepted(p) \/ Refused(p) \/ Forbidden(p)
    \/ Refresh(p) \/ RefreshDenied(p) \/ RefreshLost(p)
    \/ SaveRefreshed(p) \/ SaveFails(p)
    \/ RevokeOld(p) \/ DeviceGranted(p) \/ DeviceFails(p) \/ Commit(p) \/ Wipe(p)

Next ==
    \/ \E p \in Requests : Sync(p) \/ CommandStep(p) \/ Die(p)
    \/ \E p \in Requests \ {Daemon} : Login(p) \/ LoginForced(p) \/ Logout(p)
    \/ \E p \in Requests : ServerStep(p) \/ ServerFails(p)
    \/ \E r \in Refreshes : Lapse(r)
    \/ Tick

Spec == Init /\ [][Next]_vars
-----------------------------------------------------------------------------
\* Syncs that overlap, and commands that fail or die at most of their steps, leave
\* a login in the file that can still be refreshed, or none.  What may cost it is
\* what excused names, and nothing else.
LoginKept == Quiet /\ ~excused => file.refresh \in live \cup {NoToken}

\* Commands that do not overlap, and do not fail, leave no grant behind: what
\* the authorization server still honours is what is in the file.  One way is left
\* out: a login whose live token the server refuses for its claims, unless it is
\* forced, replaces the grant and does not revoke it (setup.go:206-248), and one
\* whose new token is refused so does not keep it.
NoOrphan == Quiet /\ alone => live \subseteq {file.refresh}

\* lard-client/main.go:394, "a background run never fails on a stale credential":
\* the first request of a sync on its own, with a login that can be refreshed, is
\* accepted as active, whatever has expired, rotated and been remembered meanwhile.
\* (Whether its claims are admitted is another matter, and its later requests bear
\* the same token, expired or not.)
SyncServed ==
    [][\A p \in Requests :
         goal[p] = "sync" /\ pc'[p] = "idle" /\ alone' /\ mem[p].refresh \in live
         => req[p].stage = "accepted"]_vars
=============================================================================
