-------------------------- MODULE CredentialsProofs --------------------------
(***************************************************************************)
(* The promises of the verifier hold when its requests are the commands of *)
(* a machine that refreshes, replaces and revokes the tokens: each step of *)
(* Credentials is a step of Introspection, or leaves it alone, because a   *)
(* command that sends or has just saved a token holds one (Carries).       *)
(*                                                                         *)
(* KeptInv is what makes LoginKept inductive.  Nothing is orphaned and a   *)
(* sync is served because of AloneInv, which needs three facts that hold of*)
(* commands that overlap too: what the machine knows of its grants         *)
(* (GrantInv), that no answer denies a live token (Honest), and that what  *)
(* was just refreshed has its whole life before it (Recent).               *)
(***************************************************************************)
EXTENDS Credentials, IntrospectionProofs

Places == {"idle", "revoke", "bearer", "saving", "ready", "sent", "device", "commit", "wipe"}

MachineOK ==
    /\ file \in Pair
    /\ live \in SUBSET Refreshes
    /\ mem \in [Requests -> Pair]
    /\ goal \in [Requests -> Goals]
    /\ pc \in [Requests -> Places]
    /\ faults \in 0..MaxFaults
    /\ alone \in BOOLEAN
    /\ excused \in BOOLEAN
    /\ \A p \in Requests : pc[p] = "idle" <=> goal[p] = "none"

Carries ==
    \A p \in Requests :
        pc[p] \in {"saving", "ready", "sent"} => mem[p].access \in Tokens

IInv == MachineOK /\ Carries

LEMMA TypeParts == TypeOK <=> VerifierTypeOK /\ MachineOK
  BY DEF TypeOK, MachineOK, Places

LEMMA MachineInit == Init => IInv /\ VerifierInv
  <1>. SUFFICES ASSUME Init PROVE IInv /\ VerifierInv
    OBVIOUS
  <1>1. IInv
    <2>1. file \in Pair /\ live \in SUBSET Refreshes
      BY DEF Init, Pair
    <2>2. Nothing \in Pair /\ "none" \in Goals /\ "idle" \in Places
      BY DEF Nothing, Pair, Goals, Places
    <2>3. faults \in 0..MaxFaults
      BY CredentialsAssumption DEF Init, CredentialsAssumption
    <2>. QED BY <2>1, <2>2, <2>3 DEF Init, IInv, MachineOK, Carries
  <1>2. VerifierInv
    BY BoundTypes DEF Init, VerifierInv, VerifierTypeOK, Fresh, Bounded, Short,
       LiveNow, Live, Idle, Request, NoEntry
  <1>. QED BY <1>1, <1>2
-----------------------------------------------------------------------------
\* What the ends of a command and of a request do to the machine.
LEMMA EndOK ==
  ASSUME IInv, NEW p \in Requests, End(p)
  PROVE  /\ mem' \in [Requests -> Pair]
         /\ goal' \in [Requests -> Goals]
         /\ pc' \in [Requests -> Places]
         /\ \A q \in Requests : pc'[q] = "idle" <=> goal'[q] = "none"
         /\ Carries'
  BY DEF IInv, MachineOK, Carries, End, Goto, Pair, Nothing, Goals, Places

LEMMA FailureOK ==
  ASSUME IInv, NEW p \in Requests, Failure(p)
  PROVE  /\ mem' \in [Requests -> Pair]
         /\ goal' \in [Requests -> Goals]
         /\ pc' \in [Requests -> Places]
         /\ \A q \in Requests : pc'[q] = "idle" <=> goal'[q] = "none"
         /\ Carries'
  <1>1. Fallback(goal[p]) \in {"bearer", "device", "idle"}
    BY DEF Fallback
  <1>2. CASE Fallback(goal[p]) = "idle"
    BY <1>2, EndOK DEF Failure
  <1>3. CASE Fallback(goal[p]) # "idle"
    <2>1. /\ pc' = [pc EXCEPT ![p] = Fallback(goal[p])]
          /\ goal' = [goal EXCEPT ![p] = "need"]
          /\ mem' = mem
      BY <1>3 DEF Failure, Goto
    <2>. QED BY <1>1, <1>3, <2>1 DEF IInv, MachineOK, Carries, Goals, Places
  <1>. QED BY <1>2, <1>3

LEMMA SuccessOK ==
  ASSUME IInv, NEW p \in Requests, pc[p] = "sent", Success(p)
  PROVE  /\ mem' \in [Requests -> Pair]
         /\ goal' \in [Requests -> Goals]
         /\ pc' \in [Requests -> Places]
         /\ \A q \in Requests : pc'[q] = "idle" <=> goal'[q] = "none"
         /\ Carries'
  BY DEF IInv, MachineOK, Carries, Success, Syncing, End, Goto, Pair, Nothing, Goals, Places

LEMMA FaultOK == MachineOK /\ Fault => faults' \in 0..MaxFaults /\ alone' = FALSE
  BY CredentialsAssumption DEF MachineOK, Fault, CredentialsAssumption

LEMMA ExchangeOK ==
  ASSUME IInv, NEW p \in Requests, NEW r \in Refreshes, Exchange(mem[p].refresh, r)
  PROVE  live' \in SUBSET Refreshes
  BY DEF IInv, MachineOK, Exchange
-----------------------------------------------------------------------------
\* Each step keeps the machine well typed, and is the verifier's or none of its.
Steps == IInv' /\ [VerifierNext]_verifierVars

LEMMA LoadStep ==
  ASSUME IInv, NEW p \in Requests, NEW l \in {"bearer", "revoke", "wipe"},
         NEW g \in Goals \ {"none"}, Load(p, l, g)
  PROVE  Steps
  <1>1. /\ mem' = [mem EXCEPT ![p] = file]
        /\ pc' = [pc EXCEPT ![p] = l] /\ goal' = [goal EXCEPT ![p] = g]
        /\ UNCHANGED <<verifierVars, file, live, faults>>
        /\ alone' \in BOOLEAN /\ excused' \in BOOLEAN
    BY DEF Load, Goto
  <1>. QED BY <1>1 DEF Steps, IInv, MachineOK, Carries, Places

\* A token that is sent is one of the authorization server's.
LEMMA SendStep ==
  ASSUME IInv, NEW p \in Requests, Send(p)
  PROVE  Steps
  <1>1. mem[p].access \in Tokens
    BY DEF IInv, MachineOK, Carries, Send, Expired, Pair
  <1>2. VerifierNext
    BY <1>1 DEF Send, VerifierNext
  <1>3. IInv'
    BY <1>1 DEF Send, Goto, IInv, MachineOK, Carries, faultVars, Goals, Places
  <1>. QED BY <1>2, <1>3 DEF Steps

LEMMA SendBareStep ==
  ASSUME IInv, NEW p \in Requests, SendBare(p)
  PROVE  Steps
  BY FailureOK DEF SendBare, Steps, IInv, MachineOK, faultVars

LEMMA AcceptedStep ==
  ASSUME IInv, NEW p \in Requests, Accepted(p)
  PROVE  Steps
  <1>1. VerifierNext
    BY DEF Accepted, VerifierNext
  <1>. QED BY <1>1, SuccessOK DEF Accepted, Steps, IInv, MachineOK, faultVars

LEMMA RefusedStep ==
  ASSUME IInv, NEW p \in Requests, Refused(p)
  PROVE  Steps
  <1>1. VerifierNext
    BY DEF Refused, VerifierNext
  <1>2. faults' \in 0..MaxFaults /\ alone' \in BOOLEAN
    BY FaultOK DEF Refused, IInv, MachineOK, faultVars
  <1>. QED BY <1>1, <1>2, FailureOK DEF Refused, Steps, IInv, MachineOK

LEMMA ForbiddenStep ==
  ASSUME IInv, NEW p \in Requests, Forbidden(p)
  PROVE  Steps
  <1>1. VerifierNext
    BY DEF Forbidden, VerifierNext
  <1>2. faults' \in 0..MaxFaults /\ alone' \in BOOLEAN
    BY DEF Forbidden, IInv, MachineOK
  <1>. QED BY <1>1, <1>2, FailureOK DEF Forbidden, Steps, IInv, MachineOK

\* A token that is issued is held by the command that asked for it.
LEMMA IssueForOK ==
  ASSUME IInv, NEW p \in Requests, NEW r \in Refreshes, IssueFor(p, r)
  PROVE  /\ VerifierNext
         /\ mem' \in [Requests -> Pair]
         /\ mem'[p].access \in Tokens
         /\ \A q \in Requests \ {p} : mem'[q] = mem[q]
  <1>1. PICK a \in Tokens : Issue(a) /\ mem' = [mem EXCEPT ![p] = [access |-> a, refresh |-> r]]
    BY DEF IssueFor, FreeTokens
  <1>2. VerifierNext
    BY <1>1 DEF VerifierNext
  <1>. QED BY <1>1, <1>2 DEF IInv, MachineOK, Pair

LEMMA RefreshStep ==
  ASSUME IInv, NEW p \in Requests, Refresh(p)
  PROVE  Steps
  <1>1. PICK r \in Refreshes : Exchange(mem[p].refresh, r) /\ IssueFor(p, r)
    BY DEF Refresh
  <1>2. live' \in SUBSET Refreshes
    BY <1>1, ExchangeOK
  <1>3. /\ pc' = [pc EXCEPT ![p] = "saving"] /\ goal' = [goal EXCEPT ![p] = goal[p]]
        /\ UNCHANGED <<file, faults, alone>> /\ excused' \in BOOLEAN
        /\ pc[p] = "bearer"
    BY DEF Refresh, Refreshing, Overtakes, Goto, faultVars, IInv, MachineOK
  <1>. QED BY <1>1, <1>2, <1>3, IssueForOK DEF Steps, IInv, MachineOK, Carries, Places

LEMMA RefreshDeniedStep ==
  ASSUME IInv, NEW p \in Requests, RefreshDenied(p)
  PROVE  Steps
  BY FailureOK DEF RefreshDenied, Steps, IInv, MachineOK, faultVars

LEMMA RefreshLostStep ==
  ASSUME IInv, NEW p \in Requests, RefreshLost(p)
  PROVE  Steps
  <1>1. live' \in SUBSET Refreshes /\ excused' \in BOOLEAN
    BY ExchangeOK DEF RefreshLost, IInv, MachineOK
  <1>. QED BY <1>1, FailureOK, FaultOK DEF RefreshLost, Steps, IInv, MachineOK

LEMMA SaveRefreshedStep ==
  ASSUME IInv, NEW p \in Requests, SaveRefreshed(p)
  PROVE  Steps
  BY DEF SaveRefreshed, Goto, Steps, IInv, MachineOK, Carries, faultVars, Places

LEMMA SaveFailsStep ==
  ASSUME IInv, NEW p \in Requests, SaveFails(p)
  PROVE  Steps
  BY FailureOK, FaultOK DEF SaveFails, Steps, IInv, MachineOK

LEMMA RevokeOldStep ==
  ASSUME IInv, NEW p \in Requests, RevokeOld(p)
  PROVE  Steps
  <1>1. [VerifierNext]_verifierVars
    <2>1. CASE UNCHANGED verifierVars
      BY <2>1
    <2>2. CASE mem[p].access # NoToken /\ Revoke(mem[p].access)
      <3>1. mem[p].access \in Tokens
        BY <2>2 DEF IInv, MachineOK, Pair
      <3>. QED BY <2>2, <3>1 DEF VerifierNext
    <2>. QED BY <2>1, <2>2 DEF RevokeOld
  <1>2. live' \in SUBSET Refreshes /\ faults' \in 0..MaxFaults /\ alone' \in BOOLEAN
    BY FaultOK DEF RevokeOld, IInv, MachineOK, faultVars
  <1>3. PICK l \in {"wipe", "bearer"} :
          pc' = [pc EXCEPT ![p] = l] /\ goal' = [goal EXCEPT ![p] = goal[p]]
    BY DEF RevokeOld, Goto
  <1>4. UNCHANGED <<file, mem, excused>> /\ pc[p] = "revoke"
    BY DEF RevokeOld
  <1>. QED BY <1>1, <1>2, <1>3, <1>4 DEF Steps, IInv, MachineOK, Carries, Places

LEMMA DeviceGrantedStep ==
  ASSUME IInv, NEW p \in Requests, DeviceGranted(p)
  PROVE  Steps
  <1>1. PICK r \in Refreshes : live' = live \cup {r} /\ IssueFor(p, r)
    BY DEF DeviceGranted, FreeRefreshes
  <1>2. /\ pc' = [pc EXCEPT ![p] = "bearer"] /\ goal' = [goal EXCEPT ![p] = "final"]
        /\ UNCHANGED <<file, faults, alone, excused>>
    BY DEF DeviceGranted, Goto, faultVars
  <1>. QED BY <1>1, <1>2, IssueForOK DEF Steps, IInv, MachineOK, Carries, Places, Goals

LEMMA DeviceFailsStep ==
  ASSUME IInv, NEW p \in Requests, DeviceFails(p)
  PROVE  Steps
  <1>1. live' \in SUBSET Refreshes /\ faults' \in 0..MaxFaults /\ alone' \in BOOLEAN
    BY FaultOK DEF DeviceFails, FreeRefreshes, IInv, MachineOK, faultVars
  <1>. QED BY <1>1, EndOK DEF DeviceFails, Steps, IInv, MachineOK

LEMMA CommitStep ==
  ASSUME IInv, NEW p \in Requests, Commit(p)
  PROVE  Steps
  <1>1. file' \in Pair /\ faults' \in 0..MaxFaults /\ alone' \in BOOLEAN
    BY FaultOK DEF Commit, IInv, MachineOK, faultVars
  <1>. QED BY <1>1, EndOK DEF Commit, Steps, IInv, MachineOK

LEMMA WipeStep ==
  ASSUME IInv, NEW p \in Requests, Wipe(p)
  PROVE  Steps
  <1>1. Nothing \in Pair
    BY DEF Nothing, Pair
  <1>2. file' \in Pair
    BY <1>1 DEF Wipe, IInv, MachineOK
  <1>3. faults' \in 0..MaxFaults /\ alone' \in BOOLEAN /\ excused' \in BOOLEAN
    BY FaultOK DEF Wipe, IInv, MachineOK, faultVars
  <1>. QED BY <1>2, <1>3, EndOK DEF Wipe, Steps, IInv, MachineOK

LEMMA DieStep ==
  ASSUME IInv, NEW p \in Requests, Die(p)
  PROVE  Steps
  <1>1. excused' \in BOOLEAN
    BY DEF Die, IInv, MachineOK
  <1>. QED BY <1>1, EndOK, FaultOK DEF Die, Steps, IInv, MachineOK

LEMMA ServerSteps ==
  ASSUME IInv, NEW p \in Requests, ServerStep(p) \/ ServerFails(p)
  PROVE  Steps
  <1>1. VerifierNext
    BY DEF ServerStep, ServerFails, VerifierNext
  <1>2. /\ UNCHANGED <<file, live, mem, goal, pc, excused>>
        /\ faults' \in 0..MaxFaults /\ alone' \in BOOLEAN
    BY FaultOK DEF ServerStep, ServerFails, IInv, MachineOK, faultVars
  <1>. QED BY <1>1, <1>2 DEF Steps, IInv, MachineOK, Carries

LEMMA TickStep == IInv /\ Tick => Steps
  BY DEF Tick, VerifierNext, Steps, IInv, MachineOK, Carries, faultVars

LEMMA LapseStep ==
  ASSUME IInv, NEW r \in Refreshes, Lapse(r)
  PROVE  Steps
  BY DEF Lapse, Steps, IInv, MachineOK, Carries, faultVars

LEMMA NextSteps == IInv /\ [Next]_vars => Steps
  <1>. SUFFICES ASSUME IInv, [Next]_vars PROVE Steps
    OBVIOUS
  <1>1. ASSUME NEW p \in Requests, Sync(p) \/ Login(p) \/ LoginForced(p) \/ Logout(p)
        PROVE  Steps
    BY <1>1, LoadStep DEF Sync, Login, LoginForced, Logout, Goals, Syncing
  <1>2. ASSUME NEW p \in Requests, CommandStep(p) PROVE Steps
    BY <1>2, SendStep, SendBareStep, AcceptedStep, RefusedStep, ForbiddenStep, RefreshStep,
       RefreshDeniedStep, RefreshLostStep, SaveRefreshedStep, SaveFailsStep, RevokeOldStep, DeviceGrantedStep,
       DeviceFailsStep, CommitStep, WipeStep DEF CommandStep
  <1>3. ASSUME NEW p \in Requests, Die(p) \/ ServerStep(p) \/ ServerFails(p) PROVE Steps
    BY <1>3, DieStep, ServerSteps
  <1>4. CASE Tick
    BY <1>4, TickStep
  <1>5. ASSUME NEW r \in Refreshes, Lapse(r) PROVE Steps
    BY <1>5, LapseStep
  <1>6. CASE UNCHANGED vars
    BY <1>6 DEF vars, Steps, IInv, MachineOK, Carries
  <1>. QED BY <1>1, <1>2, <1>3, <1>4, <1>5, <1>6 DEF Next
-----------------------------------------------------------------------------
\* The state is well typed for any processes, tokens, bounds and times.
THEOREM TypeCorrect == Spec => []TypeOK
  <1>1. IInv /\ VerifierInv /\ [Next]_vars => IInv' /\ VerifierInv'
    BY NextSteps, StepInv DEF Steps
  <1>2. IInv /\ VerifierInv => TypeOK
    BY TypeParts DEF IInv, VerifierInv
  <1>. QED BY MachineInit, <1>1, <1>2, PTL DEF Spec

\* AcceptsRecent holds of a machine whose commands race for the tokens.
THEOREM MachineAcceptsRecent == Spec => AcceptsRecent
  <1>1. IInv /\ VerifierInv /\ [Next]_vars => IInv' /\ VerifierInv'
    BY NextSteps, StepInv DEF Steps
  <1>2. IInv /\ VerifierInv /\ [Next]_vars
          => [\A q \in Requests : Accepts(q) => gone[req'[q].token] < Lag]_verifierVars
    BY NextSteps, StepAccepts DEF Steps
  <1>. QED BY MachineInit, <1>1, <1>2, PTL DEF Spec, AcceptsRecent

\* ... and so does ExpiryHonoured.
THEOREM MachineExpiryHonoured == Spec => ExpiryHonoured
  <1>1. IInv /\ VerifierInv /\ [Next]_vars => IInv' /\ VerifierInv'
    BY NextSteps, StepInv DEF Steps
  <1>2. IInv /\ VerifierInv /\ [Next]_vars
          => [\A q \in Requests :
                Accepts(q) /\ req[q].stage = "idle" /\ cache[req'[q].token].exp
                => life[req'[q].token] > 0]_verifierVars
    BY NextSteps, StepAccepts DEF Steps
  <1>. QED BY MachineInit, <1>1, <1>2, PTL DEF Spec, ExpiryHonoured
-----------------------------------------------------------------------------
(* The login is kept.                                                      *)

Good(x) == x \in live \cup {NoToken}

\* What a place says of the goal.
Placed ==
    \A p \in Requests :
        /\ pc[p] = "revoke" => goal[p] \in {"logout", "need"}
        /\ pc[p] = "wipe" => goal[p] = "logout"
        /\ pc[p] = "device" => goal[p] = "need"
        /\ pc[p] = "commit" => goal[p] = "final"

\* Only syncs overlap, and nobody revokes a grant to replace it.
Solo ==
    /\ \A p, q \in Requests : p # q /\ pc[p] # "idle" /\ pc[q] # "idle" => goal[p] \in Syncing
    /\ \A p \in Requests : pc[p] = "revoke" => goal[p] = "logout"

\* What is about to be saved is good; so is the file, or it is about to be
\* replaced or wiped; and so is what a login holds.
Savable ==
    /\ \A p \in Requests : pc[p] = "saving" => mem[p].refresh \in live
    /\ Good(file.refresh) \/ \E p \in Requests : pc[p] \in {"saving", "wipe"}
    /\ \A p \in Requests : goal[p] \in {"keep", "need", "final"} => Good(mem[p].refresh)

KeptInv == Placed /\ (~excused => Solo /\ Savable)

LEMMA GoodTypes ==
  /\ NoToken \notin Refreshes /\ NoToken \notin Tokens
  /\ Nothing.refresh = NoToken /\ Nothing.access = NoToken
  BY CredentialsAssumption, BoundTypes DEF CredentialsAssumption, Nothing

LEMMA InitKept == Init => KeptInv
  <1>. SUFFICES ASSUME Init PROVE KeptInv
    OBVIOUS
  <1>1. file.refresh \in live
    BY DEF Init
  <1>. QED BY <1>1 DEF Init, KeptInv, Placed, Solo, Savable, Good

\* The step of a command that is under way, which changes nothing of the others.
LEMMA StepKept ==
  ASSUME IInv, KeptInv, NEW p \in Requests, pc[p] # "idle",
         \A q \in Requests \ {p} : pc'[q] = pc[q] /\ goal'[q] = goal[q] /\ mem'[q] = mem[q],
         pc'[p] # "revoke",
         pc'[p] = "wipe" => goal'[p] = "logout",
         pc'[p] = "device" => goal'[p] = "need",
         pc'[p] = "commit" => goal'[p] = "final",
         pc'[p] = "idle" \/ (goal[p] \in Syncing => goal'[p] \in Syncing),
         ~excused' => ~excused,
         ~excused' => (pc'[p] = "saving" => mem'[p].refresh \in live'),
         ~excused' => \A q \in Requests \ {p} :
             pc[q] = "saving" /\ mem[q].refresh \in live => mem[q].refresh \in live',
         ~excused' => (goal'[p] \in {"keep", "need", "final"} => Good(mem[p].refresh)'),
         ~excused' => \/ Good(file.refresh)' \/ pc'[p] \in {"saving", "wipe"}
                      \/ \E q \in Requests \ {p} : pc[q] \in {"saving", "wipe"}
  PROVE  KeptInv'
  <1>1. Placed'
    BY DEF KeptInv, Placed
  <1>2. ASSUME ~excused' PROVE Solo'
    <2>1. Solo
      BY <1>2 DEF KeptInv
    <2>. QED BY <2>1 DEF Solo
  <1>3. ASSUME ~excused' PROVE Savable'
    <2>1. Solo /\ Savable
      BY <1>3 DEF KeptInv
    <2>2. \A q \in Requests : pc'[q] = "saving" => mem'[q].refresh \in live'
      BY <1>3, <2>1 DEF Savable
    <2>3. Good(file.refresh)' \/ \E q \in Requests : pc'[q] \in {"saving", "wipe"}
      BY <1>3
    <2>4. ASSUME NEW q \in Requests, goal'[q] \in {"keep", "need", "final"}
          PROVE  Good(mem[q].refresh)'
      <3>1. CASE q = p
        BY <1>3, <2>4, <3>1
      <3>2. CASE q # p
        <4>1. goal[q] \notin Syncing /\ pc[q] # "idle"
          BY <2>4, <3>2 DEF IInv, MachineOK, Syncing
        <4>. QED BY <2>1, <3>2, <4>1 DEF Solo
      <3>. QED BY <3>1, <3>2
    <2>. QED BY <2>2, <2>3, <2>4 DEF Savable
  <1>. QED BY <1>1, <1>2, <1>3 DEF KeptInv

\* A command that returns leaves the file to the others.
LEMMA EndKept ==
  ASSUME IInv, KeptInv, NEW p \in Requests, pc[p] # "idle", End(p),
         live \subseteq live', ~excused' => ~excused,
         ~excused' => \/ file' = file /\ pc[p] \notin {"saving", "wipe"}
                      \/ file'.refresh \in live' \cup {NoToken}
  PROVE  KeptInv'
  <1>1. /\ pc'[p] = "idle" /\ goal'[p] = "none" /\ mem'[p] = Nothing
        /\ \A q \in Requests \ {p} : pc'[q] = pc[q] /\ goal'[q] = goal[q] /\ mem'[q] = mem[q]
    BY DEF End, Goto, IInv, MachineOK
  <1>2. ASSUME ~excused'
        PROVE  Good(file.refresh)' \/ \E q \in Requests \ {p} : pc[q] \in {"saving", "wipe"}
    <2>1. CASE file'.refresh \in live' \cup {NoToken}
      BY <2>1 DEF Good
    <2>2. CASE file' = file /\ pc[p] \notin {"saving", "wipe"}
      <3>1. Good(file.refresh) \/ \E q \in Requests : pc[q] \in {"saving", "wipe"}
        BY <1>2 DEF KeptInv, Savable
      <3>. QED BY <2>2, <3>1 DEF Good
    <2>. QED BY <1>2, <2>1, <2>2
  <1>. QED BY <1>1, <1>2, StepKept

\* A login that was refused goes on with what it holds.
LEMMA FailureKept ==
  ASSUME IInv, KeptInv, NEW p \in Requests, pc[p] # "idle", Failure(p),
         live \subseteq live', ~excused' => ~excused,
         ~excused' => file' = file /\ pc[p] \notin {"saving", "wipe"}
  PROVE  KeptInv'
  <1>1. CASE Fallback(goal[p]) = "idle"
    BY <1>1, EndKept DEF Failure
  <1>2. CASE Fallback(goal[p]) # "idle"
    <2>1. goal[p] \in {"keep", "need"} /\ Fallback(goal[p]) \in {"bearer", "device"}
      BY <1>2 DEF Fallback
    <2>2. /\ pc'[p] \in {"bearer", "device"} /\ goal'[p] = "need" /\ mem' = mem
          /\ \A q \in Requests \ {p} : pc'[q] = pc[q] /\ goal'[q] = goal[q] /\ mem'[q] = mem[q]
      BY <1>2, <2>1 DEF Failure, Goto, IInv, MachineOK
    <2>3. ASSUME ~excused'
          PROVE  /\ Good(mem[p].refresh)'
                 /\ Good(file.refresh)' \/ \E q \in Requests \ {p} : pc[q] \in {"saving", "wipe"}
      <3>1. Savable /\ file' = file /\ pc[p] \notin {"saving", "wipe"}
        BY <2>3 DEF KeptInv
      <3>. QED BY <2>1, <2>2, <3>1 DEF Savable, Good
    <2>4. goal[p] \notin Syncing
      BY <2>1 DEF Syncing
    <2>. QED BY <2>2, <2>3, <2>4, StepKept
  <1>. QED BY <1>1, <1>2

\* A step that goes on with what the command holds.
LEMMA GoesOnKept ==
  ASSUME IInv, KeptInv, NEW p \in Requests, pc[p] # "idle",
         NEW l \in {"bearer", "ready", "sent", "commit"}, NEW g \in Goals, Goto(p, l, g),
         mem' = mem, live \subseteq live', ~excused' => ~excused,
         g \in Syncing \/ (g \in {"keep", "need", "final", "logout"} /\ goal[p] \notin Syncing),
         g \in {"keep", "need", "final"} => goal[p] \in {"keep", "need", "final"},
         l = "commit" => g = "final",
         \/ file' = file /\ pc[p] \notin {"saving", "wipe"}
         \/ ~excused' => file'.refresh \in live' \cup {NoToken}
  PROVE  KeptInv'
  <1>1. /\ pc'[p] = l /\ goal'[p] = g
        /\ \A q \in Requests \ {p} : pc'[q] = pc[q] /\ goal'[q] = goal[q] /\ mem'[q] = mem[q]
    BY DEF Goto, IInv, MachineOK
  <1>2. ASSUME ~excused', g \in {"keep", "need", "final"} PROVE Good(mem[p].refresh)'
    BY <1>2 DEF KeptInv, Savable, Good
  <1>3. ASSUME ~excused'
        PROVE  Good(file.refresh)' \/ \E q \in Requests \ {p} : pc[q] \in {"saving", "wipe"}
    <2>1. CASE file'.refresh \in live' \cup {NoToken}
      BY <2>1 DEF Good
    <2>2. CASE file' = file /\ pc[p] \notin {"saving", "wipe"}
      <3>1. Good(file.refresh) \/ \E q \in Requests : pc[q] \in {"saving", "wipe"}
        BY <1>3 DEF KeptInv, Savable
      <3>. QED BY <2>2, <3>1 DEF Good
    <2>. QED BY <1>3, <2>1, <2>2
  <1>. QED BY <1>1, <1>2, <1>3, StepKept

\* A command that begins: beside others only a sync, and alone with a good login.
LEMMA LoadKept ==
  ASSUME IInv, KeptInv, NEW p \in Requests, NEW l \in {"bearer", "revoke", "wipe"},
         NEW g \in Goals \ {"none"}, Load(p, l, g),
         l = "revoke" => g \in {"logout", "need"}, l = "wipe" => g = "logout"
  PROVE  KeptInv'
  <1>1. /\ pc[p] = "idle" /\ pc'[p] = l /\ goal'[p] = g /\ mem'[p] = file
        /\ \A q \in Requests \ {p} : pc'[q] = pc[q] /\ goal'[q] = goal[q] /\ mem'[q] = mem[q]
        /\ file' = file /\ live' = live
        /\ excused' = (Risky(p, l, g) \/ (excused /\ ~Settled))
    BY DEF Load, Goto, IInv, MachineOK
  <1>2. Placed'
    BY <1>1 DEF KeptInv, Placed
  <1>3. ASSUME ~excused' PROVE Solo' /\ Savable'
    <2>1. /\ l = "revoke" => g = "logout"
          /\ \A q \in Requests \ {p} : pc[q] # "idle" => g \in Syncing /\ goal[q] \in Syncing
      BY <1>1, <1>3 DEF Risky
    <2>2. Settled \/ (Solo /\ Savable)
      BY <1>1, <1>3 DEF KeptInv
    <2>3. Settled => Quiet /\ Good(file.refresh)
      BY DEF Settled, Good
    <2>4. Solo'
      BY <1>1, <2>1, <2>2, <2>3 DEF Solo, Quiet
    <2>5. Good(file.refresh) \/ \E q \in Requests : pc[q] \in {"saving", "wipe"}
      BY <2>2, <2>3 DEF Savable
    <2>6. \A q \in Requests : pc'[q] = "saving" => mem'[q].refresh \in live'
      BY <1>1, <2>2, <2>3 DEF Savable, Quiet
    <2>7. Good(file.refresh)' \/ \E q \in Requests : pc'[q] \in {"saving", "wipe"}
      BY <1>1, <2>5 DEF Good
    <2>8. ASSUME NEW q \in Requests, goal'[q] \in {"keep", "need", "final"}
          PROVE  Good(mem[q].refresh)'
      <3>1. goal'[q] \notin Syncing
        BY <2>8 DEF Syncing
      <3>2. CASE q = p
        <4>1. \A r \in Requests : pc[r] = "idle"
          BY <1>1, <2>1, <3>1, <3>2
        <4>2. Good(file.refresh)
          BY <2>5, <4>1
        <4>. QED BY <1>1, <3>2, <4>2 DEF Good
      <3>3. CASE q # p
        <4>1. goal[q] \in {"keep", "need", "final"} /\ pc[q] # "idle"
          BY <1>1, <2>8, <3>3 DEF IInv, MachineOK
        <4>2. Savable
          BY <2>2, <2>3, <4>1 DEF Quiet
        <4>. QED BY <1>1, <3>3, <4>1, <4>2 DEF Savable, Good
      <3>. QED BY <3>2, <3>3
    <2>. QED BY <2>4, <2>6, <2>7, <2>8 DEF Savable
  <1>. QED BY <1>2, <1>3 DEF KeptInv

LEMMA SendKept ==
  ASSUME IInv, KeptInv, NEW p \in Requests, Send(p)
  PROVE  KeptInv'
  <1>1. /\ pc[p] \in {"bearer", "ready"} /\ Goto(p, "sent", goal[p])
        /\ UNCHANGED <<file, live, mem, excused>>
    BY DEF Send, faultVars
  <1>2. goal[p] \in Goals /\ goal[p] # "none"
    BY <1>1 DEF IInv, MachineOK
  <1>. QED BY <1>1, <1>2, GoesOnKept DEF Goals

LEMMA AcceptedKept ==
  ASSUME IInv, KeptInv, NEW p \in Requests, Accepted(p)
  PROVE  KeptInv'
  <1>1. pc[p] = "sent" /\ Success(p) /\ UNCHANGED <<file, live, excused>>
    BY DEF Accepted, faultVars
  <1>2. CASE End(p)
    BY <1>1, <1>2, EndKept
  <1>3. CASE goal[p] \in Syncing /\ Goto(p, "ready", "more") /\ UNCHANGED mem
    <2>1. "more" \in Goals /\ "more" \in Syncing
      BY DEF Goals, Syncing
    <2>. QED BY <1>1, <1>3, <2>1, GoesOnKept
  <1>4. CASE goal[p] \in {"keep", "need"} /\ Goto(p, "bearer", "final") /\ UNCHANGED mem
    <2>1. "final" \in Goals /\ goal[p] \notin Syncing
      BY <1>4 DEF Goals, Syncing
    <2>. QED BY <1>1, <1>4, <2>1, GoesOnKept
  <1>5. CASE goal[p] = "final" /\ Goto(p, "commit", "final") /\ UNCHANGED mem
    <2>1. "final" \in Goals /\ goal[p] \notin Syncing
      BY <1>5 DEF Goals, Syncing
    <2>. QED BY <1>1, <1>5, <2>1, GoesOnKept
  <1>. QED BY <1>1, <1>2, <1>3, <1>4, <1>5 DEF Success

LEMMA DeniedKept ==
  ASSUME IInv, KeptInv, NEW p \in Requests,
         SendBare(p) \/ Refused(p) \/ Forbidden(p) \/ RefreshDenied(p)
  PROVE  KeptInv'
  <1>1. /\ pc[p] \in {"bearer", "sent"} /\ Failure(p) /\ UNCHANGED <<file, live, excused>>
    BY DEF SendBare, Refused, Forbidden, RefreshDenied, Refreshing, faultVars
  <1>. QED BY <1>1, FailureKept

\* A token that is rotated away is nobody's to save, or that is known.
LEMMA RefreshKept ==
  ASSUME IInv, KeptInv, NEW p \in Requests, Refresh(p)
  PROVE  KeptInv'
  <1>1. PICK r \in Refreshes : Exchange(mem[p].refresh, r) /\ IssueFor(p, r)
    BY DEF Refresh
  <1>2. /\ pc[p] = "bearer" /\ pc' = [pc EXCEPT ![p] = "saving"]
        /\ goal' = [goal EXCEPT ![p] = goal[p]] /\ file' = file
        /\ excused' = (excused \/ \E q \in Requests \ {p} :
                                    pc[q] = "saving" /\ mem[q].refresh \in live \ live')
    BY DEF Refresh, Refreshing, Overtakes, Goto
  <1>3. PICK a : mem' = [mem EXCEPT ![p] = [access |-> a, refresh |-> r]]
    BY <1>1 DEF IssueFor
  <1>4. mem'[p].refresh = r /\ r \in live'
    BY <1>1, <1>3 DEF IInv, MachineOK, Exchange
  <1>5. /\ pc'[p] = "saving" /\ goal'[p] = goal[p]
        /\ \A q \in Requests \ {p} : pc'[q] = pc[q] /\ goal'[q] = goal[q] /\ mem'[q] = mem[q]
    BY <1>2, <1>3 DEF IInv, MachineOK
  <1>6. ASSUME ~excused'
        PROVE  ~excused /\ \A q \in Requests \ {p} :
                  pc[q] = "saving" /\ mem[q].refresh \in live => mem[q].refresh \in live'
    BY <1>2, <1>6
  <1>7. Good(mem[p].refresh)'
    BY <1>4 DEF Good
  <1>. QED BY <1>2, <1>4, <1>5, <1>6, <1>7, StepKept

LEMMA RefreshLostKept ==
  ASSUME IInv, KeptInv, NEW p \in Requests, RefreshLost(p)
  PROVE  KeptInv'
  <1>1. /\ pc[p] = "bearer" /\ Failure(p) /\ file' = file
        /\ ~excused' => live' = live /\ ~excused
    <2>1. \/ live' = live /\ excused' = excused
          \/ excused' = (excused \/ live' # live)
      BY DEF RefreshLost
    <2>2. ~excused' => live' = live /\ ~excused
      BY <2>1
    <2>3. pc[p] = "bearer" /\ Failure(p) /\ file' = file
      BY DEF RefreshLost, Refreshing
    <2>. QED BY <2>2, <2>3
  <1>2. CASE live' = live
    BY <1>1, <1>2, FailureKept
  <1>3. CASE live' # live
    <2>1. excused' /\ excused' \in BOOLEAN
      BY <1>1, <1>3, RefreshLostStep DEF Steps, IInv, MachineOK
    <2>2. CASE Fallback(goal[p]) = "idle"
      <3>1. /\ pc'[p] = "idle"
            /\ \A q \in Requests \ {p} : pc'[q] = pc[q] /\ goal'[q] = goal[q] /\ mem'[q] = mem[q]
        BY <1>1, <2>2 DEF Failure, End, Goto, IInv, MachineOK
      <3>. QED BY <1>1, <2>1, <3>1, StepKept
    <2>3. CASE Fallback(goal[p]) # "idle"
      <3>1. goal[p] \in {"keep", "need"} /\ Fallback(goal[p]) \in {"bearer", "device"}
        BY <2>3 DEF Fallback
      <3>2. /\ pc'[p] \in {"bearer", "device"} /\ goal'[p] = "need"
            /\ \A q \in Requests \ {p} : pc'[q] = pc[q] /\ goal'[q] = goal[q] /\ mem'[q] = mem[q]
        BY <1>1, <2>3, <3>1 DEF Failure, Goto, IInv, MachineOK
      <3>3. goal[p] \notin Syncing
        BY <3>1 DEF Syncing
      <3>. QED BY <1>1, <2>1, <3>2, <3>3, StepKept
    <2>. QED BY <2>2, <2>3
  <1>. QED BY <1>2, <1>3

LEMMA SaveKept ==
  ASSUME IInv, KeptInv, NEW p \in Requests, SaveRefreshed(p) \/ SaveFails(p)
  PROVE  KeptInv'
  <1>1. CASE SaveRefreshed(p)
    <2>1. /\ pc[p] = "saving" /\ file' = mem[p] /\ Goto(p, "ready", goal[p])
          /\ UNCHANGED <<live, mem, excused>>
      BY <1>1 DEF SaveRefreshed, faultVars
    <2>2. goal[p] \in Goals /\ goal[p] # "none"
      BY <2>1 DEF IInv, MachineOK
    <2>3. ~excused' => file'.refresh \in live' \cup {NoToken}
      BY <2>1 DEF KeptInv, Savable
    <2>. QED BY <2>1, <2>2, <2>3, GoesOnKept DEF Goals
  <1>2. CASE SaveFails(p)
    <2>1. pc[p] = "saving" /\ Failure(p) /\ excused' = TRUE /\ live' = live
      BY <1>2 DEF SaveFails
    <2>. QED BY <2>1, FailureKept
  <1>. QED BY <1>1, <1>2

\* A grant is revoked by a logout that is alone, and its login is wiped next.
LEMMA RevokeOldKept ==
  ASSUME IInv, KeptInv, NEW p \in Requests, RevokeOld(p)
  PROVE  KeptInv'
  <1>1. /\ pc[p] = "revoke" /\ UNCHANGED <<file, mem, excused>>
        /\ Goto(p, IF goal[p] = "logout" THEN "wipe" ELSE "bearer", goal[p])
    BY DEF RevokeOld
  <1>2. /\ pc'[p] = (IF goal[p] = "logout" THEN "wipe" ELSE "bearer") /\ goal'[p] = goal[p]
        /\ \A q \in Requests \ {p} : pc'[q] = pc[q] /\ goal'[q] = goal[q] /\ mem'[q] = mem[q]
    BY <1>1 DEF Goto, IInv, MachineOK
  <1>3. ASSUME ~excused'
        PROVE  goal[p] = "logout" /\ \A q \in Requests \ {p} : pc[q] = "idle"
    BY <1>1, <1>3 DEF KeptInv, Solo, Syncing
  <1>. QED BY <1>1, <1>2, <1>3, StepKept

LEMMA DeviceKept ==
  ASSUME IInv, KeptInv, NEW p \in Requests, DeviceGranted(p) \/ DeviceFails(p)
  PROVE  KeptInv'
  <1>1. CASE DeviceGranted(p)
    <2>1. PICK r \in Refreshes : live' = live \cup {r} /\ IssueFor(p, r)
      BY <1>1 DEF DeviceGranted, FreeRefreshes
    <2>2. PICK a : mem' = [mem EXCEPT ![p] = [access |-> a, refresh |-> r]]
      BY <2>1 DEF IssueFor
    <2>3. /\ pc[p] = "device" /\ pc' = [pc EXCEPT ![p] = "bearer"]
          /\ goal' = [goal EXCEPT ![p] = "final"] /\ UNCHANGED <<file, excused>>
      BY <1>1 DEF DeviceGranted, Goto, faultVars
    <2>4. /\ pc'[p] = "bearer" /\ goal'[p] = "final" /\ mem'[p].refresh = r
          /\ \A q \in Requests \ {p} : pc'[q] = pc[q] /\ goal'[q] = goal[q] /\ mem'[q] = mem[q]
      BY <2>2, <2>3 DEF IInv, MachineOK
    <2>5. goal[p] \notin Syncing
      BY <2>3 DEF KeptInv, Placed, Syncing
    <2>6. ASSUME ~excused'
          PROVE  Good(file.refresh)' \/ \E q \in Requests \ {p} : pc[q] \in {"saving", "wipe"}
      <3>1. Good(file.refresh) \/ \E q \in Requests : pc[q] \in {"saving", "wipe"}
        BY <2>3, <2>6 DEF KeptInv, Savable
      <3>. QED BY <2>1, <2>3, <3>1 DEF Good
    <2>7. Good(mem[p].refresh)'
      BY <2>1, <2>4 DEF Good
    <2>. QED BY <2>1, <2>3, <2>4, <2>5, <2>6, <2>7, StepKept
  <1>2. CASE DeviceFails(p)
    <2>1. /\ pc[p] = "device" /\ End(p) /\ live \subseteq live' /\ UNCHANGED <<file, excused>>
      BY <1>2 DEF DeviceFails
    <2>. QED BY <2>1, EndKept
  <1>. QED BY <1>1, <1>2

LEMMA LastKept ==
  ASSUME IInv, KeptInv, NEW p \in Requests, Commit(p) \/ Wipe(p) \/ Die(p)
  PROVE  KeptInv'
  <1>1. pc[p] # "idle" /\ End(p) /\ live' = live
    BY DEF Commit, Wipe, Die
  <1>2. CASE Commit(p)
    <2>1. pc[p] = "commit" /\ excused' = excused /\ (file' = mem[p] \/ file' = file)
      BY <1>2 DEF Commit
    <2>2. ~excused' => mem[p].refresh \in live' \cup {NoToken}
      BY <1>1, <2>1 DEF KeptInv, Placed, Savable, Good
    <2>. QED BY <1>1, <2>1, <2>2, EndKept
  <1>3. CASE Wipe(p)
    <2>1. \/ file' = Nothing /\ excused' = excused
          \/ excused' = TRUE
      BY <1>3 DEF Wipe
    <2>. QED BY <1>1, <2>1, GoodTypes, EndKept
  <1>4. CASE Die(p)
    <2>1. excused' = (excused \/ pc[p] \in {"saving", "wipe"}) /\ file' = file
      BY <1>4 DEF Die
    <2>2. ~excused' => ~excused /\ pc[p] \notin {"saving", "wipe"}
      BY <2>1
    <2>. QED BY <1>1, <2>1, <2>2, EndKept
  <1>. QED BY <1>2, <1>3, <1>4

\* What does not touch the commands; a grant lapses only when nobody holds it.
LEMMA ElseKept ==
  ASSUME IInv, KeptInv, UNCHANGED <<file, mem, goal, pc, excused>>,
         live' = live \/ \E r \in Refreshes : ~Held(r) /\ live' = live \ {r}
  PROVE  KeptInv'
  <1>1. \A p \in Requests : mem[p].refresh \in live => mem[p].refresh \in live'
    BY DEF Held
  <1>2. file.refresh \in live => file.refresh \in live'
    BY DEF Held
  <1>. QED BY <1>1, <1>2 DEF KeptInv, Placed, Solo, Savable, Good

LEMMA NextKept == IInv /\ KeptInv /\ [Next]_vars => KeptInv'
  <1>. SUFFICES ASSUME IInv, KeptInv, [Next]_vars PROVE KeptInv'
    OBVIOUS
  <1>1. ASSUME NEW p \in Requests, Sync(p) \/ Login(p) \/ LoginForced(p) \/ Logout(p)
        PROVE  KeptInv'
    <2>1. CASE Sync(p)
      BY <2>1, LoadKept DEF Sync, Goals, Syncing
    <2>2. CASE Login(p)
      BY <2>2, LoadKept DEF Login, Goals, Syncing
    <2>3. CASE LoginForced(p)
      BY <2>3, LoadKept DEF LoginForced, Goals, Syncing
    <2>4. CASE Logout(p)
      BY <2>4, LoadKept DEF Logout, Goals, Syncing
    <2>. QED BY <1>1, <2>1, <2>2, <2>3, <2>4
  <1>2. ASSUME NEW p \in Requests, CommandStep(p) PROVE KeptInv'
    BY <1>2, SendKept, AcceptedKept, DeniedKept, RefreshKept, RefreshLostKept, SaveKept,
       RevokeOldKept, DeviceKept, LastKept DEF CommandStep
  <1>3. ASSUME NEW p \in Requests, Die(p) PROVE KeptInv'
    BY <1>3, LastKept
  <1>4. ASSUME NEW p \in Requests, ServerStep(p) \/ ServerFails(p) PROVE KeptInv'
    BY <1>4, ElseKept DEF ServerStep, ServerFails
  <1>5. CASE Tick
    BY <1>5, ElseKept DEF Tick
  <1>6. ASSUME NEW r \in Refreshes, Lapse(r) PROVE KeptInv'
    BY <1>6, ElseKept DEF Lapse
  <1>7. CASE UNCHANGED vars
    BY <1>7, ElseKept DEF vars
  <1>. QED BY <1>1, <1>2, <1>3, <1>4, <1>5, <1>6, <1>7 DEF Next

\* oauth.go:58-90, client.toml: what excused names is all that can cost the machine
\* its login, for any commands, tokens and faults: overlapping refreshes, lost
\* requests and deaths of a command at any other step do not.
THEOREM LoginKeptHolds == Spec => []LoginKept
  <1>1. IInv /\ KeptInv => LoginKept
    BY DEF KeptInv, Savable, Good, LoginKept, Quiet
  <1>2. IInv /\ VerifierInv /\ [Next]_vars => IInv' /\ VerifierInv'
    BY NextSteps, StepInv DEF Steps
  <1>. QED BY <1>1, <1>2, MachineInit, InitKept, NextKept, PTL DEF Spec
-----------------------------------------------------------------------------
(* Nothing is orphaned, and a sync is served.                              *)

\* The pairs of tokens the machine has.
Holdings == {file} \cup {mem[p] : p \in Requests}

\* A pair is whole, its access token was issued with its refresh token only, and
\* is not revoked while that can be exchanged.
GrantInv ==
    /\ \A c \in Holdings : c.access = NoToken => c.refresh = NoToken
    /\ \A c, d \in Holdings : c.access = d.access /\ c.access # NoToken => c.refresh = d.refresh
    /\ \A c \in Holdings : c.access \in revoked => c.refresh \notin live

\* No answer says that a live token is dead.
Honest ==
    \A a \in Tokens : Live(a) =>
        /\ cache[a].left > 0 => cache[a].active
        /\ \A q \in Requests : req[q].token = a /\ req[q].stage = "answered" => req[q].active

\* A token that was just refreshed has its whole life before it.
Recent ==
    \A p \in Requests :
        pc[p] \in {"saving", "ready"} /\ goal[p] # "more" => life[mem[p].access] = TokenTTL

\* A request of a command on its own is not refused while its login is good.
Served(p) ==
    pc[p] = "sent" /\ goal[p] # "more" /\ mem[p].refresh \in live =>
        /\ req[p].token = mem[p].access
        /\ \/ req[p].stage = "asking" /\ life[mem[p].access] + req[p].age > Timeout
           \/ req[p].stage = "answered" /\ req[p].active
           \/ req[p].stage = "accepted"

\* A command on its own holds the only grant, which is in the file unless the
\* command is about to save it, or to replace or wipe the file.
Only(p) ==
    pc[p] # "idle" =>
        /\ \A q \in Requests \ {p} : pc[q] = "idle"
        /\ live \subseteq {mem[p].refresh}
        /\ goal[p] \in Syncing /\ pc[p] # "saving" => file.refresh = mem[p].refresh
        /\ pc[p] \in {"wipe", "device"} => live = {}

AloneInv ==
    /\ Quiet => live \subseteq {file.refresh}
    /\ \A p \in Requests : Only(p) /\ Served(p)

\* What is taken for granted of the configured times: an introspection times out
\* within the minute of slack, and within the life of a token that is just issued.
Timely == Timeout <= Slack /\ Timeout < TokenTTL

LEMMA InitGrant == Init => GrantInv /\ Honest /\ Recent /\ AloneInv
  <1>. SUFFICES ASSUME Init PROVE GrantInv /\ Honest /\ Recent /\ AloneInv
    OBVIOUS
  <1>1. PICK a \in Tokens, r \in Refreshes :
          /\ file = [access |-> a, refresh |-> r]
          /\ live = {r}
    BY DEF Init
  <1>2. /\ revoked = {} /\ mem = [p \in Requests |-> Nothing]
        /\ pc = [p \in Requests |-> "idle"]
        /\ cache = [b \in Tokens |-> NoEntry] /\ req = [p \in Requests |-> Idle]
    BY DEF Init
  <1>3. file.access = a /\ file.refresh = r
    BY <1>1
  <1>4. \A c \in Holdings : c = file \/ c = Nothing
    BY <1>2 DEF Holdings
  <1>5. GrantInv
    BY <1>2, <1>3, <1>4, GoodTypes DEF GrantInv
  <1>6. Honest
    BY <1>2 DEF Honest, NoEntry, Idle, Request
  <1>7. Recent /\ AloneInv
    BY <1>1, <1>2 DEF Recent, AloneInv, Only, Served
  <1>. QED BY <1>5, <1>6, <1>7

\* Whoever asks gets what is true at that moment, and a value is issued again only
\* when no answer about it is left.
LEMMA HonestStep == VerifierTypeOK /\ Honest /\ [VerifierNext]_verifierVars => Honest'
  <1>. SUFFICES ASSUME VerifierTypeOK, Honest, [VerifierNext]_verifierVars PROVE Honest'
    OBVIOUS
  <1>1. ASSUME NEW a \in Tokens, Issue(a) PROVE Honest'
    BY <1>1 DEF Issue, Unknown, Known, Honest, Live, VerifierTypeOK
  <1>2. ASSUME NEW a \in Tokens, Revoke(a) PROVE Honest'
    BY <1>2 DEF Revoke, Honest, Live, VerifierTypeOK
  <1>3. ASSUME NEW q \in Requests, NEW a \in Tokens, Lookup(q, a) PROVE Honest'
    <2>1. req'[q].stage # "answered"
      BY <1>3 DEF Lookup, Request, Verdict, VerifierTypeOK
    <2>2. \A p \in Requests \ {q} : req'[p] = req[p]
      BY <1>3 DEF Lookup, VerifierTypeOK
    <2>. QED BY <1>3, <2>1, <2>2 DEF Lookup, Honest, Live
  <1>4. ASSUME NEW q \in Requests, Answer(q) PROVE Honest'
    <2>1. req'[q].active = Live(req'[q].token)
      BY <1>4 DEF Answer, VerifierTypeOK
    <2>2. \A p \in Requests \ {q} : req'[p] = req[p]
      BY <1>4 DEF Answer, VerifierTypeOK
    <2>3. UNCHANGED <<life, revoked, cache>>
      BY <1>4 DEF Answer
    <2>4. \A a \in Tokens : Live(a)' <=> Live(a)
      BY <2>3 DEF Live
    <2>5. ASSUME NEW a \in Tokens, Live(a)', NEW p \in Requests,
                 req'[p].token = a, req'[p].stage = "answered"
          PROVE  req'[p].active
      <3>1. CASE p = q
        BY <2>1, <2>4, <2>5, <3>1
      <3>2. CASE p # q
        BY <2>2, <2>4, <2>5, <3>2 DEF Honest
      <3>. QED BY <3>1, <3>2
    <2>. QED BY <2>3, <2>4, <2>5 DEF Honest
  <1>5. ASSUME NEW q \in Requests, Remember(q) PROVE Honest'
    <2>1. /\ req'[q].stage # "answered"
          /\ \A p \in Requests \ {q} : req'[p] = req[p]
          /\ UNCHANGED <<life, revoked>>
      BY <1>5 DEF Remember, Request, Verdict, VerifierTypeOK
    <2>2. \A a \in Tokens : Live(a)' <=> Live(a)
      BY <2>1 DEF Live
    <2>3. ASSUME NEW a \in Tokens PROVE cache'[a] = cache[a] \/ (req[q].token = a /\ cache'[a].active = req[q].active)
      BY <1>5 DEF Remember, VerifierTypeOK
    <2>4. req[q].stage = "answered"
      BY <1>5 DEF Remember
    <2>5. ASSUME NEW a \in Tokens, Live(a), cache'[a].left > 0 PROVE cache'[a].active
      <3>1. CASE cache'[a] = cache[a]
        BY <2>5, <3>1 DEF Honest
      <3>2. CASE req[q].token = a /\ cache'[a].active = req[q].active
        BY <2>4, <2>5, <3>2 DEF Honest
      <3>. QED BY <2>3, <3>1, <3>2
    <2>. QED BY <2>1, <2>2, <2>5 DEF Honest
  <1>6. ASSUME NEW q \in Requests, IntrospectFails(q) \/ Respond(q) PROVE Honest'
    <2>1. /\ req'[q].stage # "answered"
          /\ \A p \in Requests \ {q} : req'[p] = req[p]
          /\ UNCHANGED <<life, revoked, cache>>
      BY <1>6 DEF IntrospectFails, Respond, Request, Idle, VerifierTypeOK
    <2>. QED BY <2>1 DEF Honest, Live
  <1>7. CASE VerifierTick
    <2>1. \A a \in Tokens : Live(a)' => Live(a)
      BY <1>7 DEF VerifierTick, VerifierTypeOK, Live
    <2>2. ASSUME NEW a \in Tokens, cache'[a].left > 0
          PROVE  cache[a].left > 0 /\ cache'[a].active = cache[a].active
      <3>1. cache'[a] = IF cache[a].left > 1
                        THEN [active |-> cache[a].active, exp |-> cache[a].exp,
                              left |-> cache[a].left - 1]
                        ELSE NoEntry
        BY <1>7 DEF VerifierTick
      <3>2. CASE cache[a].left > 1
        BY <3>1, <3>2 DEF VerifierTypeOK
      <3>3. CASE ~(cache[a].left > 1)
        BY <2>2, <3>1, <3>3 DEF NoEntry
      <3>. QED BY <3>2, <3>3
    <2>3. \A q \in Requests : req'[q].stage = "answered" =>
            req[q].stage = "answered" /\ req'[q].token = req[q].token /\ req'[q].active = req[q].active
      BY <1>7 DEF VerifierTick, VerifierTypeOK
    <2>. QED BY <2>1, <2>2, <2>3 DEF Honest
  <1>8. CASE UNCHANGED verifierVars
    BY <1>8 DEF verifierVars, Honest, Live
  <1>. QED BY <1>1, <1>2, <1>3, <1>4, <1>5, <1>6, <1>7, <1>8 DEF VerifierNext
-----------------------------------------------------------------------------
\* A grant that is not held is none the machine has ...
LEMMA FreeNotHeld ==
  ASSUME live' \subseteq live \cup FreeRefreshes, NEW c \in Holdings, c.refresh \in live'
  PROVE  c.refresh \in live
  BY DEF FreeRefreshes, Held, Holdings

\* ... so what the machine drops or passes on keeps GrantInv.
LEMMA SameGrant ==
  ASSUME IInv, GrantInv, live' \subseteq live \cup FreeRefreshes, revoked' \subseteq revoked,
         file' \in Holdings \cup {Nothing},
         \A p \in Requests : mem'[p] \in Holdings \cup {Nothing}
  PROVE  GrantInv'
  <1>1. \A c \in Holdings' : c \in Holdings \/ c = Nothing
    BY DEF Holdings
  <1>2. NoToken \notin live'
    BY GoodTypes DEF IInv, MachineOK, FreeRefreshes
  <1>3. \A c \in Holdings' : c.access = NoToken => c.refresh = NoToken
    BY <1>1, GoodTypes DEF GrantInv
  <1>4. \A c \in Holdings' : c.access \in revoked' => c.refresh \notin live'
    BY <1>1, <1>2, FreeNotHeld, GoodTypes DEF GrantInv
  <1>5. \A c \in Holdings' : c \in Holdings \/ c.access = NoToken
    BY <1>1, GoodTypes
  <1>6. ASSUME NEW c \in Holdings', NEW d \in Holdings', c.access = d.access, c.access # NoToken
        PROVE  c.refresh = d.refresh
    BY <1>5, <1>6 DEF GrantInv
  <1>. QED BY <1>3, <1>4, <1>6 DEF GrantInv

\* A pair that is issued has an access token nobody holds.
LEMMA NewGrant ==
  ASSUME IInv, GrantInv, live' \subseteq live \cup FreeRefreshes, file' = file,
         NEW p \in Requests, NEW r \in Refreshes, IssueFor(p, r)
  PROVE  GrantInv'
  <1>1. PICK a \in FreeTokens :
          Issue(a) /\ mem' = [mem EXCEPT ![p] = [access |-> a, refresh |-> r]]
    BY DEF IssueFor
  <1>2. \A c \in Holdings' : c \in Holdings \/ c = [access |-> a, refresh |-> r]
    BY <1>1 DEF Holdings, IInv, MachineOK
  <1>3. revoked' = revoked \ {a} /\ a \in Tokens
    BY <1>1 DEF Issue, FreeTokens
  <1>4. \A c \in Holdings : c.access # a
    BY <1>1 DEF FreeTokens, Held, Holdings
  <1>. QED BY <1>2, <1>3, <1>4, FreeNotHeld, GoodTypes DEF GrantInv

\* Whatever ends, fails or goes on holds what it held, or nothing.
LEMMA EndHolds ==
  ASSUME IInv, NEW p \in Requests, End(p) \/ Failure(p) \/ Success(p)
  PROVE  \A q \in Requests : mem'[q] \in Holdings \cup {Nothing}
  <1>1. \A q \in Requests : mem'[q] \in {mem[q], Nothing}
    BY DEF End, Failure, Success, IInv, MachineOK
  <1>. QED BY <1>1 DEF Holdings

LEMMA RevokeGrant ==
  ASSUME IInv, GrantInv, NEW p \in Requests, RevokeOld(p)
  PROVE  GrantInv'
  <1>1. UNCHANGED <<file, mem>> /\ Holdings' = Holdings
    BY DEF RevokeOld, Holdings
  <1>2. CASE UNCHANGED verifierVars /\ live' \subseteq live
    BY <1>1, <1>2, SameGrant DEF verifierVars, Holdings
  <1>3. CASE live' = live \ {mem[p].refresh} /\ mem[p].access # NoToken /\ Revoke(mem[p].access)
    <2>1. revoked' = revoked \cup {mem[p].access} /\ mem[p].access # NoToken
      BY <1>3 DEF Revoke
    <2>. QED BY <1>1, <1>3, <2>1 DEF GrantInv, Holdings
  <1>. QED BY <1>2, <1>3 DEF RevokeOld

LEMMA GrantStep == IInv /\ GrantInv /\ [Next]_vars => GrantInv'
  <1>. SUFFICES ASSUME IInv, GrantInv, [Next]_vars PROVE GrantInv'
    OBVIOUS
  <1>0. file \in Holdings /\ \A p \in Requests : mem[p] \in Holdings
    BY DEF Holdings
  <1>1. ASSUME NEW p \in Requests, NEW l, NEW g, Load(p, l, g) PROVE GrantInv'
    <2>1. UNCHANGED <<file, live, revoked>> /\ \A q \in Requests : mem'[q] \in {file, mem[q]}
      BY <1>1 DEF Load, IInv, MachineOK, verifierVars
    <2>. QED BY <1>0, <2>1, SameGrant
  <1>2. ASSUME NEW p \in Requests, Refresh(p) PROVE GrantInv'
    <2>1. PICK r \in Refreshes : Exchange(mem[p].refresh, r) /\ IssueFor(p, r)
      BY <1>2 DEF Refresh
    <2>2. live' \subseteq live \cup FreeRefreshes /\ file' = file
      BY <1>2, <2>1 DEF Refresh, Exchange
    <2>. QED BY <2>1, <2>2, NewGrant
  <1>3. ASSUME NEW p \in Requests, DeviceGranted(p) PROVE GrantInv'
    <2>1. PICK r \in FreeRefreshes : live' = live \cup {r} /\ IssueFor(p, r)
      BY <1>3 DEF DeviceGranted
    <2>2. r \in Refreshes /\ live' \subseteq live \cup FreeRefreshes /\ file' = file
      BY <1>3, <2>1 DEF DeviceGranted, FreeRefreshes
    <2>. QED BY <2>1, <2>2, NewGrant
  <1>4. ASSUME NEW p \in Requests,
               SendBare(p) \/ Accepted(p) \/ Refused(p) \/ Forbidden(p) \/ RefreshDenied(p)
                 \/ RefreshLost(p) \/ SaveFails(p) \/ DeviceFails(p) \/ Commit(p) \/ Wipe(p) \/ Die(p)
        PROVE  GrantInv'
    <2>1. End(p) \/ Failure(p) \/ Success(p)
      BY <1>4 DEF SendBare, Accepted, Refused, Forbidden, RefreshDenied, RefreshLost, SaveFails,
                  DeviceFails, Commit, Wipe, Die
    <2>2. revoked' = revoked
      BY <1>4 DEF SendBare, Accepted, Refused, Forbidden, RefreshDenied, RefreshLost, SaveFails,
                  DeviceFails, Commit, Wipe, Die, Respond, verifierVars
    <2>3. live' \subseteq live \cup FreeRefreshes
      BY <1>4 DEF SendBare, Accepted, Refused, Forbidden, RefreshDenied, RefreshLost, SaveFails,
                  DeviceFails, Commit, Wipe, Die, Exchange
    <2>4. file' \in {file, mem[p], Nothing}
      BY <1>4 DEF SendBare, Accepted, Refused, Forbidden, RefreshDenied, RefreshLost, SaveFails,
                  DeviceFails, Commit, Wipe, Die
    <2>. QED BY <1>0, <2>1, <2>2, <2>3, <2>4, EndHolds, SameGrant
  <1>5. ASSUME NEW p \in Requests, SaveRefreshed(p) PROVE GrantInv'
    <2>1. file' = mem[p] /\ UNCHANGED <<live, mem, revoked>>
      BY <1>5 DEF SaveRefreshed, verifierVars
    <2>. QED BY <1>0, <2>1, SameGrant
  <1>6. CASE UNCHANGED <<file, mem>> /\ live' \subseteq live /\ revoked' \subseteq revoked
    BY <1>0, <1>6, SameGrant
  <1>7. ASSUME NEW p \in Requests, Send(p) \/ ServerStep(p) \/ ServerFails(p)
        PROVE  UNCHANGED <<file, mem>> /\ live' \subseteq live /\ revoked' \subseteq revoked
    BY <1>7 DEF Send, ServerStep, ServerFails, Lookup, Answer, Remember, Respond, IntrospectFails
  <1>8. ASSUME NEW r \in Refreshes, Lapse(r)
        PROVE  UNCHANGED <<file, mem>> /\ live' \subseteq live /\ revoked' \subseteq revoked
    BY <1>8 DEF Lapse, verifierVars
  <1>9. CASE Tick
    BY <1>6, <1>9 DEF Tick, VerifierTick
  <1>10. CASE UNCHANGED vars
    BY <1>6, <1>10 DEF vars, verifierVars
  <1>. QED BY <1>1, <1>2, <1>3, <1>4, <1>5, <1>6, <1>7, <1>8, <1>9, <1>10, RevokeGrant
    DEF Next, CommandStep, Sync, Login, LoginForced, Logout

\* The access token of a pair stands for no other, and is not issued twice.
LEMMA RecentStep == IInv /\ VerifierTypeOK /\ Recent /\ [Next]_vars => Recent'
  <1>. SUFFICES ASSUME IInv, VerifierTypeOK, Recent, [Next]_vars PROVE Recent'
    OBVIOUS
  <1>1. ASSUME NEW p \in Requests, NEW r \in Refreshes, IssueFor(p, r),
               pc' = [pc EXCEPT ![p] = pc'[p]], goal' = [goal EXCEPT ![p] = goal'[p]]
        PROVE  Recent'
    <2>1. PICK a \in FreeTokens :
            Issue(a) /\ mem' = [mem EXCEPT ![p] = [access |-> a, refresh |-> r]]
      BY <1>1 DEF IssueFor
    <2>2. life' = [life EXCEPT ![a] = TokenTTL] /\ a \in Tokens
      BY <2>1 DEF Issue, FreeTokens
    <2>3. mem'[p].access = a /\ \A q \in Requests \ {p} : mem'[q] = mem[q] /\ mem[q].access # a
      BY <2>1 DEF FreeTokens, Held, IInv, MachineOK
    <2>4. life'[a] = TokenTTL /\ \A b \in Tokens : b # a => life'[b] = life[b]
      BY <2>2 DEF VerifierTypeOK
    <2>5. \A q \in Requests \ {p} : pc'[q] = pc[q] /\ goal'[q] = goal[q]
      BY <1>1 DEF IInv, MachineOK
    <2>6. ASSUME NEW q \in Requests \ {p}, pc'[q] \in {"saving", "ready"}, goal'[q] # "more"
          PROVE  life'[mem'[q].access] = TokenTTL
      <3>1. mem[q].access \in Tokens
        BY <2>5, <2>6 DEF IInv, Carries
      <3>. QED BY <2>3, <2>4, <2>5, <2>6, <3>1 DEF Recent
    <2>. QED BY <2>3, <2>4, <2>6 DEF Recent
  <1>2. ASSUME life' = life,
               \A q \in Requests : pc'[q] \in {"saving", "ready"} /\ goal'[q] # "more" =>
                  pc[q] \in {"saving", "ready"} /\ goal[q] # "more" /\ mem'[q] = mem[q]
        PROVE  Recent'
    BY <1>2 DEF Recent
  <1>3. ASSUME NEW p \in Requests, NEW l \in {"bearer", "revoke", "wipe"}, NEW g, Load(p, l, g)
        PROVE  Recent'
    <2>1. life' = life /\ pc'[p] = l /\ \A q \in Requests \ {p} :
            pc'[q] = pc[q] /\ goal'[q] = goal[q] /\ mem'[q] = mem[q]
      BY <1>3 DEF Load, Goto, verifierVars, IInv, MachineOK
    <2>. QED BY <1>2, <2>1
  <1>4. ASSUME NEW p \in Requests,
               Sync(p) \/ Login(p) \/ LoginForced(p) \/ Logout(p)
        PROVE  Recent'
    BY <1>3, <1>4 DEF Sync, Login, LoginForced, Logout
  <1>5. ASSUME NEW p \in Requests, Refresh(p) PROVE Recent'
    <2>1. PICK r \in Refreshes : IssueFor(p, r)
      BY <1>5 DEF Refresh
    <2>2. pc' = [pc EXCEPT ![p] = pc'[p]] /\ goal' = [goal EXCEPT ![p] = goal'[p]]
      BY <1>5 DEF Refresh, Goto, IInv, MachineOK
    <2>. QED BY <1>1, <2>1, <2>2
  <1>6. ASSUME NEW p \in Requests, DeviceGranted(p) PROVE Recent'
    <2>1. PICK r \in Refreshes : IssueFor(p, r)
      BY <1>6 DEF DeviceGranted, FreeRefreshes
    <2>2. pc' = [pc EXCEPT ![p] = pc'[p]] /\ goal' = [goal EXCEPT ![p] = goal'[p]]
      BY <1>6 DEF DeviceGranted, Goto, IInv, MachineOK
    <2>. QED BY <1>1, <2>1, <2>2
  <1>7. ASSUME NEW p \in Requests, End(p) \/ Failure(p) \/ Success(p), life' = life
        PROVE  Recent'
    <2>1. /\ pc'[p] \notin {"saving", "ready"} \/ goal'[p] = "more"
          /\ \A q \in Requests \ {p} : pc'[q] = pc[q] /\ goal'[q] = goal[q] /\ mem'[q] = mem[q]
      BY <1>7 DEF End, Failure, Fallback, Success, Goto, IInv, MachineOK
    <2>. QED BY <1>2, <1>7, <2>1
  <1>8. ASSUME NEW p \in Requests,
               SendBare(p) \/ Accepted(p) \/ Refused(p) \/ Forbidden(p) \/ RefreshDenied(p)
                 \/ RefreshLost(p) \/ SaveFails(p) \/ DeviceFails(p) \/ Commit(p) \/ Wipe(p) \/ Die(p)
        PROVE  Recent'
    <2>1. End(p) \/ Failure(p) \/ Success(p)
      BY <1>8 DEF SendBare, Accepted, Refused, Forbidden, RefreshDenied, RefreshLost, SaveFails,
                  DeviceFails, Commit, Wipe, Die
    <2>2. life' = life
      BY <1>8 DEF SendBare, Accepted, Refused, Forbidden, RefreshDenied, RefreshLost, SaveFails,
                  DeviceFails, Commit, Wipe, Die, Respond, verifierVars
    <2>. QED BY <1>7, <2>1, <2>2
  <1>9. ASSUME NEW p \in Requests, Send(p) \/ SaveRefreshed(p) \/ RevokeOld(p)
        PROVE  Recent'
    <2>1. life' = life /\ mem' = mem
      BY <1>9 DEF Send, SaveRefreshed, RevokeOld, Lookup, Revoke, verifierVars
    <2>2. \A q \in Requests : pc'[q] \in {"saving", "ready"} =>
             pc[q] \in {"saving", "ready"} /\ goal'[q] = goal[q]
      BY <1>9 DEF Send, SaveRefreshed, RevokeOld, Goto, IInv, MachineOK
    <2>. QED BY <1>2, <2>1, <2>2
  <1>10. CASE UNCHANGED <<life, mem, goal, pc>>
    BY <1>2, <1>10
  <1>11. ASSUME NEW p \in Requests, ServerStep(p) \/ ServerFails(p)
        PROVE  UNCHANGED <<life, mem, goal, pc>>
    BY <1>11 DEF ServerStep, ServerFails, Answer, Remember, Respond, IntrospectFails
  <1>12. ASSUME NEW r \in Refreshes, Lapse(r) PROVE UNCHANGED <<life, mem, goal, pc>>
    BY <1>12 DEF Lapse, verifierVars
  <1>13. CASE Tick
    BY <1>13 DEF Tick, Recent
  <1>14. CASE UNCHANGED vars
    BY <1>10, <1>14 DEF vars, verifierVars
  <1>. QED BY <1>4, <1>5, <1>6, <1>8, <1>9, <1>10, <1>11, <1>12, <1>13, <1>14 DEF Next, CommandStep
-----------------------------------------------------------------------------
\* A step of the one command that is under way.
LEMMA OnlyStep ==
  ASSUME AloneInv, NEW p \in Requests, pc[p] # "idle",
         \A q \in Requests \ {p} : pc'[q] = pc[q],
         pc'[p] = "idle" => live' \subseteq {file'.refresh},
         pc'[p] # "idle" => live' \subseteq {mem'[p].refresh},
         pc'[p] # "idle" /\ goal'[p] \in Syncing /\ pc'[p] # "saving"
            => file'.refresh = mem'[p].refresh,
         pc'[p] \in {"wipe", "device"} => live' = {},
         Served(p)'
  PROVE  AloneInv'
  <1>1. \A q \in Requests \ {p} : pc'[q] = "idle"
    BY DEF AloneInv, Only
  <1>2. \A q \in Requests : Served(q)'
    BY <1>1 DEF Served
  <1>3. \A q \in Requests : Only(q)'
    BY <1>1 DEF Only
  <1>4. Quiet' => live' \subseteq {file'.refresh}
    BY DEF Quiet
  <1>. QED BY <1>2, <1>3, <1>4 DEF AloneInv

\* A command whose grant is dead may fail wherever it is.
LEMMA DeadStep ==
  ASSUME IInv, AloneInv, NEW p \in Requests, pc[p] # "idle", live' = {},
         Failure(p) \/ End(p)
  PROVE  AloneInv'
  <1>1. \A q \in Requests \ {p} : pc'[q] = pc[q]
    BY DEF Failure, End, Goto, IInv, MachineOK
  <1>2. pc'[p] = "idle" \/ (pc'[p] \in {"bearer", "device"} /\ goal'[p] = "need")
    BY DEF Failure, Fallback, End, Goto, IInv, MachineOK
  <1>3. goal'[p] = "need" => goal'[p] \notin Syncing
    BY DEF Syncing
  <1>4. Served(p)'
    BY <1>2 DEF Served
  <1>. QED BY <1>1, <1>2, <1>3, <1>4, OnlyStep

\* Without a token there is no grant.
LEMMA NoGrant ==
  ASSUME IInv, GrantInv, AloneInv, NEW p \in Requests, pc[p] # "idle",
         mem[p].access = NoToken \/ mem[p].refresh \notin live
  PROVE  live = {}
  <1>1. mem[p] \in Holdings
    BY DEF Holdings
  <1>2. mem[p].refresh \notin live
    BY <1>1, GoodTypes DEF GrantInv, IInv, MachineOK
  <1>3. live \subseteq {mem[p].refresh}
    BY DEF AloneInv, Only
  <1>. QED BY <1>2, <1>3

\* A command that begins alone has the only grant.
LEMMA LoadAlone ==
  ASSUME IInv, alone => AloneInv, NEW p \in Requests, NEW l \in {"bearer", "revoke", "wipe"},
         NEW g \in Goals \ {"none"}, Load(p, l, g), alone',
         l = "wipe" => file.refresh = NoToken
  PROVE  AloneInv'
  <1>1. /\ Quiet /\ UNCHANGED <<file, live>>
        /\ mem'[p] = file /\ pc'[p] = l /\ goal'[p] = g
        /\ \A q \in Requests \ {p} : pc'[q] = pc[q]
    BY DEF Load, Goto, IInv, MachineOK
  <1>2. live \subseteq {file.refresh}
    BY <1>1 DEF Load, AloneInv
  <1>3. \A q \in Requests \ {p} : pc'[q] = "idle"
    BY <1>1 DEF Quiet
  <1>4. \A q \in Requests : Served(q)'
    BY <1>1, <1>3 DEF Served
  <1>5. l = "wipe" => live = {}
    BY <1>2, GoodTypes DEF IInv, MachineOK
  <1>6. \A q \in Requests : Only(q)'
    BY <1>1, <1>2, <1>3, <1>5 DEF Only
  <1>7. ~Quiet'
    BY <1>1 DEF Quiet
  <1>. QED BY <1>4, <1>6, <1>7 DEF AloneInv

\* A token is sent with more life before it than the introspection may take, and
\* what the server remembers of it is that it is live.
LEMMA SendAlone ==
  ASSUME Timely, IInv, VerifierTypeOK, GrantInv, Honest, Recent, AloneInv,
         NEW p \in Requests, Send(p)
  PROVE  AloneInv'
  <1> DEFINE a == mem[p].access
  <1>1. /\ pc[p] \in {"bearer", "ready"} /\ pc'[p] = "sent" /\ goal'[p] = goal[p]
        /\ \A q \in Requests \ {p} : pc'[q] = pc[q]
        /\ UNCHANGED <<file, live, mem>>
    BY DEF Send, Goto, IInv, MachineOK
  <1>2. a \in Tokens
    BY DEF Send, Expired, IInv, MachineOK, Carries, Pair
  <1>3. ASSUME goal[p] # "more" PROVE life[a] > Timeout
    <2>1. CASE pc[p] = "bearer"
      <3>1. ~(life[a] <= Slack)
        BY <2>1 DEF Send, Expired
      <3>. QED BY <1>2, <3>1, BoundTypes, CredentialsAssumption
               DEF Timely, VerifierTypeOK, CredentialsAssumption
    <2>2. CASE pc[p] = "ready"
      BY <1>3, <2>2, BoundTypes DEF Recent, Timely
    <2>. QED BY <1>1, <2>1, <2>2
  <1>4. ASSUME goal[p] # "more", mem[p].refresh \in live PROVE Live(a)
    <2>1. a \notin revoked
      BY <1>4 DEF GrantInv, Holdings
    <2>. QED BY <1>2, <1>3, <1>4, <2>1, BoundTypes DEF Live, VerifierTypeOK
  <1>5. req'[p] = Request(IF cache[a].left > 0 THEN Verdict(cache[a].active) ELSE "asking", a)
        /\ life' = life
    BY DEF Send, Lookup, VerifierTypeOK
  <1>6. ASSUME goal[p] # "more", mem[p].refresh \in live
        PROVE  req'[p].stage = "accepted" \/ (req'[p].stage = "asking" /\ req'[p].age = 0)
    BY <1>2, <1>4, <1>5, <1>6 DEF Honest, Request, Verdict
  <1>7. req'[p].token = a
    BY <1>5 DEF Request
  <1>8. Served(p)'
    BY <1>1, <1>2, <1>3, <1>5, <1>6, <1>7, BoundTypes DEF Served, VerifierTypeOK
  <1>. QED BY <1>1, <1>8, OnlyStep DEF AloneInv, Only

LEMMA AcceptedAlone ==
  ASSUME IInv, AloneInv, NEW p \in Requests, Accepted(p)
  PROVE  AloneInv'
  <1>1. pc[p] = "sent" /\ Success(p) /\ UNCHANGED <<file, live>>
    BY DEF Accepted
  <1>2. /\ live \subseteq {mem[p].refresh}
        /\ goal[p] \in Syncing => file.refresh = mem[p].refresh
    BY <1>1 DEF AloneInv, Only
  <1>3. \A q \in Requests \ {p} : pc'[q] = pc[q]
    BY <1>1 DEF Success, End, Goto, IInv, MachineOK
  <1>4. \/ pc'[p] = "idle" /\ goal[p] \in Syncing
        \/ pc'[p] = "ready" /\ goal[p] \in Syncing /\ mem' = mem
        \/ pc'[p] \in {"bearer", "commit"} /\ goal'[p] = "final" /\ mem' = mem
    BY <1>1 DEF Success, End, Goto, IInv, MachineOK
  <1>5. goal'[p] = "final" => goal'[p] \notin Syncing
    BY DEF Syncing
  <1>6. Served(p)'
    BY <1>4 DEF Served
  <1>. QED BY <1>1, <1>2, <1>3, <1>4, <1>5, <1>6, OnlyStep

\* A request that is refused bears a token whose grant is dead, or is a later one
\* of a sync, which the file still has the login of.
LEMMA RefusedAlone ==
  ASSUME IInv, AloneInv, GrantInv, NEW p \in Requests, Refused(p), alone'
  PROVE  AloneInv' /\ (goal[p] # "more" => mem[p].refresh \notin live)
  <1>1. /\ pc[p] = "sent" /\ req[p].stage = "refused" /\ Failure(p)
        /\ UNCHANGED <<file, live>>
    BY DEF Refused, Fault
  <1>2. goal[p] # "more" => mem[p].refresh \notin live
    BY <1>1 DEF AloneInv, Served
  <1>3. CASE goal[p] # "more"
    BY <1>1, <1>2, <1>3, NoGrant, DeadStep
  <1>4. CASE goal[p] = "more"
    <2>1. pc'[p] = "idle" /\ \A q \in Requests \ {p} : pc'[q] = pc[q]
      BY <1>1, <1>4 DEF Failure, Fallback, End, Goto, IInv, MachineOK
    <2>2. live \subseteq {file.refresh}
      BY <1>1, <1>4 DEF AloneInv, Only, Syncing
    <2>3. Served(p)'
      BY <2>1 DEF Served
    <2>. QED BY <1>1, <1>2, <2>1, <2>2, <2>3, OnlyStep
  <1>. QED BY <1>2, <1>3, <1>4

\* A request that is forbidden leaves a live grant alone, but for those that strand it.
LEMMA ForbiddenAlone ==
  ASSUME IInv, AloneInv, GrantInv, NEW p \in Requests, Forbidden(p), alone'
  PROVE  AloneInv'
  <1>1. pc[p] = "sent" /\ Failure(p) /\ ~Strands(p) /\ UNCHANGED <<file, live>>
    BY DEF Forbidden
  <1>2. \A q \in Requests \ {p} : pc'[q] = pc[q]
    BY <1>1 DEF Failure, End, Goto, IInv, MachineOK
  <1>3. live \subseteq {mem[p].refresh}
    BY <1>1 DEF AloneInv, Only
  <1>4. CASE mem[p].refresh \notin live
    BY <1>1, <1>4, NoGrant, DeadStep
  <1>5. CASE mem[p].refresh \in live /\ goal[p] = "keep"
    <2>1. pc'[p] = "bearer" /\ goal'[p] = "need" /\ mem' = mem
      BY <1>1, <1>5 DEF Failure, Fallback, Goto, IInv, MachineOK
    <2>2. goal'[p] \notin Syncing /\ Served(p)'
      BY <2>1 DEF Syncing, Served
    <2>. QED BY <1>1, <1>2, <1>3, <2>1, <2>2, OnlyStep
  <1>6. CASE mem[p].refresh \in live /\ goal[p] # "keep"
    <2>1. goal[p] # "need" /\ mem[p].refresh = file.refresh
      BY <1>1, <1>6 DEF Strands
    <2>2. pc'[p] = "idle"
      BY <1>1, <1>6, <2>1 DEF Failure, Fallback, End, Goto, IInv, MachineOK
    <2>3. live' \subseteq {file'.refresh}
      BY <1>1, <1>3, <2>1
    <2>4. Served(p)'
      BY <2>2 DEF Served
    <2>. QED BY <1>1, <1>2, <2>2, <2>3, <2>4, OnlyStep
  <1>. QED BY <1>4, <1>5, <1>6

LEMMA DeniedAlone ==
  ASSUME IInv, AloneInv, GrantInv, NEW p \in Requests, SendBare(p) \/ RefreshDenied(p)
  PROVE  AloneInv'
  <1>1. /\ pc[p] = "bearer" /\ live' = live /\ Failure(p)
        /\ mem[p].access = NoToken \/ mem[p].refresh \notin live
    BY DEF SendBare, RefreshDenied, Refreshing
  <1>. QED BY <1>1, NoGrant, DeadStep

\* The grant passes to the token that is about to be saved, and then to the file.
LEMMA RefreshAlone ==
  ASSUME IInv, AloneInv, NEW p \in Requests, Refresh(p) \/ SaveRefreshed(p)
  PROVE  AloneInv'
  <1>1. CASE Refresh(p)
    <2>1. PICK r \in Refreshes : Exchange(mem[p].refresh, r) /\ IssueFor(p, r)
      BY <1>1 DEF Refresh
    <2>2. mem'[p].refresh = r
      BY <2>1 DEF IssueFor, IInv, MachineOK
    <2>3. pc[p] = "bearer" /\ pc'[p] = "saving" /\ \A q \in Requests \ {p} : pc'[q] = pc[q]
      BY <1>1 DEF Refresh, Refreshing, Goto, IInv, MachineOK
    <2>4. live \subseteq {mem[p].refresh}
      BY <2>3 DEF AloneInv, Only
    <2>5. live' = {r}
      BY <2>1, <2>4 DEF Exchange
    <2>6. Served(p)'
      BY <2>3 DEF Served
    <2>. QED BY <2>2, <2>3, <2>5, <2>6, OnlyStep
  <1>2. CASE SaveRefreshed(p)
    <2>1. /\ pc[p] = "saving" /\ pc'[p] = "ready" /\ \A q \in Requests \ {p} : pc'[q] = pc[q]
          /\ file' = mem[p] /\ mem' = mem /\ live' = live
      BY <1>2 DEF SaveRefreshed, Goto, IInv, MachineOK
    <2>2. live \subseteq {mem[p].refresh}
      BY <2>1 DEF AloneInv, Only
    <2>3. Served(p)'
      BY <2>1 DEF Served
    <2>. QED BY <2>1, <2>2, <2>3, OnlyStep
  <1>. QED BY <1>1, <1>2

\* A revoked grant leaves none, so that the next one is the only one.
LEMMA RevokeAlone ==
  ASSUME IInv, KeptInv, AloneInv, NEW p \in Requests, RevokeOld(p), alone'
  PROVE  AloneInv'
  <1>1. /\ pc[p] = "revoke" /\ live' = live \ {mem[p].refresh} /\ UNCHANGED <<file, mem>>
        /\ \A q \in Requests \ {p} : pc'[q] = pc[q]
        /\ pc'[p] \in {"wipe", "bearer"}
    BY DEF RevokeOld, Fault, Goto, IInv, MachineOK
  <1>2. live' = {}
    BY <1>1 DEF AloneInv, Only
  <1>3. goal'[p] \notin Syncing
    BY <1>1 DEF RevokeOld, Goto, IInv, MachineOK, KeptInv, Placed, Syncing
  <1>4. Served(p)'
    BY <1>1 DEF Served
  <1>. QED BY <1>1, <1>2, <1>3, <1>4, OnlyStep

LEMMA DeviceAlone ==
  ASSUME IInv, AloneInv, NEW p \in Requests, DeviceGranted(p) \/ DeviceFails(p), alone'
  PROVE  AloneInv'
  <1>0. pc[p] = "device"
    BY DEF DeviceGranted, DeviceFails
  <1>1. live = {}
    BY <1>0 DEF AloneInv, Only
  <1>2. CASE DeviceGranted(p)
    <2>1. PICK r \in Refreshes : live' = live \cup {r} /\ IssueFor(p, r)
      BY <1>2 DEF DeviceGranted, FreeRefreshes
    <2>2. mem'[p].refresh = r
      BY <2>1 DEF IssueFor, IInv, MachineOK
    <2>3. /\ pc'[p] = "bearer" /\ goal'[p] = "final"
          /\ \A q \in Requests \ {p} : pc'[q] = pc[q]
      BY <1>2 DEF DeviceGranted, Goto, IInv, MachineOK
    <2>4. goal'[p] \notin Syncing /\ Served(p)'
      BY <2>3 DEF Syncing, Served
    <2>. QED BY <1>0, <1>1, <2>1, <2>2, <2>3, <2>4, OnlyStep
  <1>3. CASE DeviceFails(p)
    <2>1. live' = {} /\ End(p)
      BY <1>1, <1>3 DEF DeviceFails, Fault
    <2>. QED BY <1>0, <2>1, DeadStep
  <1>. QED BY <1>2, <1>3

LEMMA LastAlone ==
  ASSUME IInv, AloneInv, NEW p \in Requests, Commit(p) \/ Wipe(p), alone'
  PROVE  AloneInv'
  <1>1. CASE Commit(p)
    <2>1. /\ pc[p] = "commit" /\ pc'[p] = "idle" /\ file' = mem[p] /\ live' = live
          /\ \A q \in Requests \ {p} : pc'[q] = pc[q]
      BY <1>1 DEF Commit, Fault, End, Goto, IInv, MachineOK
    <2>2. live \subseteq {mem[p].refresh}
      BY <2>1 DEF AloneInv, Only
    <2>3. Served(p)'
      BY <2>1 DEF Served
    <2>. QED BY <2>1, <2>2, <2>3, OnlyStep
  <1>2. CASE Wipe(p)
    <2>1. pc[p] = "wipe" /\ End(p) /\ live' = live
      BY <1>2 DEF Wipe
    <2>2. live = {}
      BY <2>1 DEF AloneInv, Only
    <2>. QED BY <2>1, <2>2, DeadStep
  <1>. QED BY <1>1, <1>2

\* The server asks about a token with a good grant while it is live, so that what
\* it hears is that it is.
LEMMA ServerAlone ==
  ASSUME IInv, VerifierTypeOK, GrantInv, AloneInv, alone',
         NEW p \in Requests, ServerStep(p) \/ ServerFails(p)
  PROVE  AloneInv'
  <1>1. UNCHANGED <<file, live, mem, goal, pc, life>>
    BY DEF ServerStep, ServerFails, Answer, Remember, Respond, IntrospectFails
  <1>2. \A q \in Requests \ {p} : req'[q] = req[q]
    BY DEF ServerStep, ServerFails, Answer, Remember, Respond, IntrospectFails, VerifierTypeOK
  <1>3. ASSUME pc[p] = "sent", goal[p] # "more", mem[p].refresh \in live
        PROVE  /\ req'[p].token = mem[p].access
               /\ \/ req'[p].stage = "asking" /\ life[mem[p].access] + req'[p].age > Timeout
                  \/ req'[p].stage = "answered" /\ req'[p].active
                  \/ req'[p].stage = "accepted"
    <2> DEFINE a == mem[p].access
    <2>1. /\ req[p].token = a
          /\ \/ req[p].stage = "asking" /\ life[a] + req[p].age > Timeout
             \/ req[p].stage = "answered" /\ req[p].active
             \/ req[p].stage = "accepted"
      BY <1>3 DEF AloneInv, Served
    <2>2. CASE Answer(p)
      <3>1. req[p].stage = "asking" /\ life[a] + req[p].age > Timeout
        BY <2>1, <2>2 DEF Answer
      <3>2. a \in Tokens /\ life[a] \in Nat /\ req[p].age \in 0..Timeout
        BY <1>3, BoundTypes DEF IInv, Carries, VerifierTypeOK
      <3>3. a \notin revoked
        BY <1>3 DEF GrantInv, Holdings
      <3>4. Live(a)
        BY <3>1, <3>2, <3>3, BoundTypes DEF Live
      <3>5. req'[p].stage = "answered" /\ req'[p].token = a /\ req'[p].active = Live(a)
        BY <2>1, <2>2 DEF Answer, VerifierTypeOK
      <3>. QED BY <3>4, <3>5
    <2>3. CASE Remember(p)
      <3>1. req[p].stage = "answered" /\ req[p].active
        BY <2>1, <2>3 DEF Remember
      <3>2. req'[p] = Request(Verdict(req[p].active), req[p].token)
        BY <2>3 DEF Remember, VerifierTypeOK
      <3>. QED BY <2>1, <3>1, <3>2 DEF Request, Verdict
    <2>4. Answer(p) \/ Remember(p)
      BY <1>3 DEF ServerStep, ServerFails, Fault
    <2>. QED BY <2>2, <2>3, <2>4
  <1>4. \A q \in Requests : Served(q)'
    BY <1>1, <1>2, <1>3 DEF AloneInv, Served
  <1>. QED BY <1>1, <1>4 DEF AloneInv, Only, Quiet

\* Time passes for a request no longer than the introspection may take.
LEMMA TickAlone ==
  ASSUME IInv, VerifierTypeOK, AloneInv, Tick
  PROVE  AloneInv'
  <1>1. UNCHANGED <<file, live, mem, goal, pc>> /\ VerifierTick
    BY DEF Tick
  <1>2. ASSUME NEW p \in Requests PROVE Served(p)'
    <2>. SUFFICES ASSUME pc[p] = "sent", goal[p] # "more", mem[p].refresh \in live
                  PROVE  /\ req'[p].token = mem[p].access
                         /\ \/ req'[p].stage = "asking" /\ life'[mem[p].access] + req'[p].age > Timeout
                            \/ req'[p].stage = "answered" /\ req'[p].active
                            \/ req'[p].stage = "accepted"
      BY <1>1 DEF Served
    <2> DEFINE a == mem[p].access
    <2>1. /\ req[p].token = a
          /\ \/ req[p].stage = "asking" /\ life[a] + req[p].age > Timeout
             \/ req[p].stage = "answered" /\ req[p].active
             \/ req[p].stage = "accepted"
      BY DEF AloneInv, Served
    <2>2. a \in Tokens /\ life[a] \in Nat /\ req[p].age \in 0..Timeout
      BY BoundTypes DEF IInv, Carries, VerifierTypeOK
    <2>3. CASE req[p].stage = "asking"
      <3>1. req[p].age < Timeout
        BY <1>1, <2>3 DEF VerifierTick, InTime
      <3>2. life'[a] = life[a] - 1
        BY <1>1, <2>1, <2>2, <2>3, <3>1, BoundTypes DEF VerifierTick
      <3>3. req'[p].stage = "asking" /\ req'[p].token = a /\ req'[p].age = req[p].age + 1
        BY <1>1, <2>1, <2>3 DEF VerifierTick
      <3>. QED BY <2>1, <2>2, <2>3, <3>2, <3>3, BoundTypes
    <2>4. CASE req[p].stage = "answered"
      BY <1>1, <2>1, <2>4 DEF VerifierTick
    <2>5. CASE req[p].stage = "accepted"
      BY <1>1, <2>1, <2>5 DEF VerifierTick
    <2>. QED BY <2>1, <2>3, <2>4, <2>5
  <1>. QED BY <1>1, <1>2 DEF AloneInv, Only, Quiet

LEMMA NextAlone ==
  ASSUME Timely, IInv, VerifierTypeOK, KeptInv, GrantInv, Honest, Recent,
         alone => AloneInv, [Next]_vars, alone'
  PROVE  AloneInv'
  <1>1. ASSUME NEW p \in Requests, Sync(p) \/ Login(p) \/ LoginForced(p) \/ Logout(p)
        PROVE  AloneInv'
    <2>1. CASE Sync(p)
      BY <2>1, LoadAlone DEF Sync, Goals, Syncing
    <2>2. CASE Login(p)
      BY <2>2, LoadAlone DEF Login, Goals, Syncing
    <2>3. CASE LoginForced(p)
      BY <2>3, LoadAlone DEF LoginForced, Goals, Syncing
    <2>4. CASE Logout(p)
      BY <2>4, LoadAlone DEF Logout, Goals, Syncing
    <2>. QED BY <1>1, <2>1, <2>2, <2>3, <2>4
  <1>2. ASSUME NEW p \in Requests,
               RefreshLost(p) \/ SaveFails(p) \/ Die(p)
        PROVE  FALSE
    BY <1>2 DEF RefreshLost, SaveFails, Die, Fault
  <1>3. CASE UNCHANGED vars
    BY <1>3 DEF vars, verifierVars, AloneInv, Only, Served, Quiet
  <1>4. ASSUME NEW r \in Refreshes, Lapse(r) PROVE AloneInv'
    <2>1. /\ UNCHANGED <<verifierVars, file, mem, goal, pc, alone>> /\ live' \subseteq live
      BY <1>4 DEF Lapse, faultVars
    <2>. QED BY <2>1 DEF verifierVars, AloneInv, Only, Served, Quiet
  <1>5. ASSUME NEW p \in Requests, CommandStep(p) PROVE AloneInv'
    <2>1. alone
      BY <1>2, <1>5 DEF CommandStep, Send, SendBare, Accepted, Refused, Forbidden, Refresh, RefreshDenied,
            SaveRefreshed, RevokeOld, DeviceGranted, DeviceFails, Commit, Wipe, faultVars, Fault
    <2>. QED BY <1>2, <1>5, <2>1, SendAlone, AcceptedAlone, RefusedAlone, ForbiddenAlone, DeniedAlone,
                RefreshAlone, RevokeAlone, DeviceAlone, LastAlone DEF CommandStep
  <1>6. ASSUME NEW p \in Requests, ServerStep(p) \/ ServerFails(p) PROVE AloneInv'
    <2>1. alone
      BY <1>6 DEF ServerStep, ServerFails, faultVars, Fault
    <2>. QED BY <1>6, <2>1, ServerAlone
  <1>7. CASE Tick
    BY <1>7, TickAlone DEF Tick, faultVars
  <1>. QED BY <1>1, <1>2, <1>3, <1>4, <1>5, <1>6, <1>7 DEF Next

\* All of it together is inductive.
MachineInv ==
    /\ IInv /\ VerifierInv /\ KeptInv /\ GrantInv /\ Honest /\ Recent
    /\ alone => AloneInv

LEMMA MachineStep == Timely /\ MachineInv /\ [Next]_vars => MachineInv'
  <1>. SUFFICES ASSUME Timely, MachineInv, [Next]_vars PROVE MachineInv'
    OBVIOUS
  <1>1. /\ IInv /\ VerifierInv /\ VerifierTypeOK /\ KeptInv /\ GrantInv /\ Honest /\ Recent
        /\ alone => AloneInv
    BY DEF MachineInv, VerifierInv
  <1>2. IInv' /\ [VerifierNext]_verifierVars
    BY <1>1, NextSteps DEF Steps
  <1>3. VerifierInv' /\ Honest'
    BY <1>1, <1>2, StepInv, HonestStep
  <1>4. KeptInv' /\ GrantInv' /\ Recent'
    BY <1>1, NextKept, GrantStep, RecentStep
  <1>5. alone' => AloneInv'
    BY <1>1, NextAlone
  <1>. QED BY <1>2, <1>3, <1>4, <1>5 DEF MachineInv

LEMMA MachineInductive == Timely => (Spec => []MachineInv)
  <1>. SUFFICES ASSUME Timely PROVE Spec => []MachineInv
    OBVIOUS
  <1>1. Init => MachineInv
    BY MachineInit, InitKept, InitGrant DEF MachineInv
  <1>2. MachineInv /\ [Next]_vars => MachineInv'
    BY MachineStep
  <1>. QED BY <1>1, <1>2, PTL DEF Spec

\* setup.go:215: commands that do not overlap and do not fail leave no grant behind
\* but the one in the file, for any commands, tokens and times the code allows: a
\* login replaces a grant only when it was revoked, or was refused because it is dead,
\* or, which alone excepts, was refused for its claims.
THEOREM NoOrphanHolds == Timely => (Spec => []NoOrphan)
  <1>1. MachineInv => NoOrphan
    BY DEF MachineInv, AloneInv, NoOrphan
  <1>. QED BY <1>1, MachineInductive, PTL

\* A sync on its own ends in failure only when its grant is dead.
LEMMA SyncStep ==
  ASSUME MachineInv, [Next]_vars, NEW p \in Requests,
         goal[p] = "sync", pc'[p] = "idle", alone', mem[p].refresh \in live
  PROVE  req[p].stage = "accepted"
  <1>1. /\ pc[p] # "idle" /\ pc[p] \notin {"device", "commit", "wipe", "revoke"}
        /\ mem[p].access # NoToken
    <2>1. mem[p] \in Holdings
      BY DEF Holdings
    <2>. QED BY <2>1, GoodTypes DEF MachineInv, IInv, MachineOK, KeptInv, Placed, GrantInv
  <1>2. \E q \in Requests : CommandStep(q) \/ Die(q)
    BY <1>1 DEF Next, Sync, Login, LoginForced, Logout, Load, Goto, ServerStep, ServerFails, Lapse, Tick,
          vars, MachineInv, IInv, MachineOK
  <1>3. PICK q \in Requests : CommandStep(q)
    BY <1>2 DEF Die, Fault
  <1>4. q = p
    BY <1>1, <1>3 DEF CommandStep, Send, SendBare, Accepted, Refused, Forbidden, Refresh, RefreshDenied,
          RefreshLost, SaveRefreshed, SaveFails, RevokeOld, DeviceGranted, DeviceFails, Commit,
          Wipe, Failure, Success, End, Goto, MachineInv, IInv, MachineOK
  <1>5. Accepted(p) \/ Refused(p) \/ Forbidden(p)
    BY <1>1, <1>3, <1>4 DEF CommandStep, Send, SendBare, Refresh, RefreshDenied,
          RefreshLost, SaveRefreshed, SaveFails, RevokeOld, DeviceGranted, DeviceFails, Commit,
          Wipe, Fault, Goto, MachineInv, IInv, MachineOK
  <1>6. ~Refused(p)
    <2>. SUFFICES ASSUME Refused(p) PROVE FALSE
      OBVIOUS
    <2>1. alone
      BY DEF Refused, Fault, faultVars
    <2>2. mem[p].refresh \notin live
      BY <2>1, RefusedAlone DEF MachineInv
    <2>. QED BY <2>2
  <1>. QED BY <1>5, <1>6 DEF Accepted, Forbidden

\* lard-client/main.go:394: the first request of a sync on its own bears a token that
\* the server finds active, while its login can be refreshed, for any commands, tokens, caches and times the code
\* allows.
THEOREM SyncServedHolds == Timely => (Spec => SyncServed)
  <1>1. MachineInv /\ [Next]_vars
          => [\A p \in Requests :
                goal[p] = "sync" /\ pc'[p] = "idle" /\ alone' /\ mem[p].refresh \in live
                => req[p].stage = "accepted"]_vars
    BY SyncStep
  <1>. QED BY <1>1, MachineInductive, PTL DEF Spec, SyncServed
=============================================================================
