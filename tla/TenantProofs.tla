---------------------------- MODULE TenantProofs ----------------------------
(***************************************************************************)
(* The quiet timer, for any number of timers and any configured delays,    *)
(* and the tenant that embeds it, for any uploads, callers, sessions,      *)
(* batch size, failures and crashes.                                       *)
(*                                                                         *)
(* IInv is the invariant of the timer; TimerPart carries it over to the    *)
(* tenant.  JobInv is what makes those of the tenant inductive: the job    *)
(* that works is the one in consolJob, only it holds a batch, and what it  *)
(* holds is still queued.                                                  *)
(***************************************************************************)
EXTENDS Tenant, TLAPS

(* The quiet timer, for any number of timers and any configured delay.     *)

\* After newAutoConsolidator the quiet period is positive and the cap is not
\* shorter than it, whatever was configured.
LEMMA Delays == After \in Nat \ {0} /\ MaxWait \in Nat /\ MaxWait >= After
  BY TimerAssumption DEF After, MaxWait

\* The countdown a trigger starts never outlasts the quiet period or the burst.
LEMMA WaitBounds ==
  ASSUME NEW d \in 0..MaxWait
  PROVE  Wait(d) \in 0..After /\ Wait(d) <= d /\ Wait(d) \in {After, d}
  BY Delays DEF Wait

\* The strengthening that makes OnePass inductive: exactly the pass that runs
\* owns a.running, and no burst or current timer exists while it does.
PassInv ==
    /\ \A t, u \in Timers : pc[t] = "running" /\ pc[u] = "running" => t = u
    /\ running <=> \E t \in Timers : pc[t] = "running"
    /\ running => timer = NoTimer /\ deadline = NoDeadline
    /\ pending => running

\* What makes QuietBeforePass inductive: the countdown that a.timer names has
\* what is missing to a quiet period left, or all that is left of the burst.
Countdown ==
    timer # NoTimer /\ pc[timer] = "armed" =>
        \/ After <= left[timer] + quiet
        \/ deadline # NoDeadline /\ deadline <= left[timer]

IInv == TypeOK /\ PassInv /\ TriggerRemembered /\ BurstCovered /\ Countdown
-----------------------------------------------------------------------------
\* What Trigger does when called with the timers as p says: it leaves a note for
\* the running pass, or one new countdown is on and no goroutine is disturbed.
LEMMA TriggerEffect ==
  ASSUME TypeOK,
         NEW p \in [Timers -> {"unused", "armed", "fired", "running", "again"}],
         Trigger(p)
  PROVE  \/ /\ running
            /\ pending' = TRUE /\ pc' = p
            /\ UNCHANGED <<left, timer, deadline, quiet>>
         \/ /\ ~running
            /\ pending' = pending /\ quiet' = 0
            /\ deadline' \in 0..MaxWait
            /\ \E t \in Timers :
                 /\ timer' = t
                 /\ pc'[t] = "armed"
                 /\ left'[t] \in 0..After /\ left'[t] <= deadline'
                 /\ left'[t] \in {After, deadline'}
            /\ pc' \in [Timers -> {"unused", "armed", "fired", "running", "again"}]
            /\ left' \in [Timers -> 0..After]
            /\ \A u \in Timers : pc'[u] \in {p[u], "armed", "unused"}
            /\ \A u \in Timers : p[u] \in {"running", "fired", "again"} => pc'[u] = p[u]
  <1>1. CASE running
    BY <1>1 DEF Trigger
  <1>2. CASE ~running
    <2>1. /\ deadline' = BurstDeadline
          /\ pending' = pending /\ quiet' = 0
          /\ \E t \in Timers :
               /\ Disarm(p)[t] = "unused"
               /\ timer' = t
               /\ pc' = [Disarm(p) EXCEPT ![t] = "armed"]
               /\ left' = [u \in Timers |->
                             IF u = t THEN Wait(deadline')
                             ELSE IF u = timer THEN 0 ELSE left[u]]
      BY <1>2 DEF Trigger
    <2>2. deadline' \in 0..MaxWait
      BY <2>1, Delays DEF TypeOK, BurstDeadline, NoDeadline
    <2>3. /\ Wait(deadline') \in 0..After /\ Wait(deadline') <= deadline'
          /\ Wait(deadline') \in {After, deadline'}
      BY <2>2, WaitBounds
    <2>4. PICK t \in Timers :
            /\ Disarm(p)[t] = "unused"
            /\ timer' = t
            /\ pc' = [Disarm(p) EXCEPT ![t] = "armed"]
            /\ left' = [u \in Timers |->
                          IF u = t THEN Wait(deadline')
                          ELSE IF u = timer THEN 0 ELSE left[u]]
      BY <2>1
    <2>5. Disarm(p) \in [Timers -> {"unused", "armed", "fired", "running", "again"}]
      BY DEF Disarm
    <2>6. pc' \in [Timers -> {"unused", "armed", "fired", "running", "again"}]
      BY <2>4, <2>5
    <2>7. left' \in [Timers -> 0..After]
      BY <2>3, <2>4, Delays DEF TypeOK
    <2>8. \A u \in Timers : pc'[u] \in {p[u], "armed", "unused"}
      BY <2>4 DEF Disarm
    <2>9. \A u \in Timers : p[u] \in {"running", "fired", "again"} => pc'[u] = p[u]
      BY <2>4 DEF Disarm
    <2>10. pc'[t] = "armed" /\ left'[t] = Wait(deadline')
      BY <2>4, <2>5
    <2>. QED
      BY <1>2, <2>1, <2>2, <2>3, <2>4, <2>6, <2>7, <2>8, <2>9, <2>10
  <1>. QED
    BY <1>1, <1>2

\* The part of TypeOK that Trigger can disturb.
TriggerVarsOK ==
    /\ pc \in [Timers -> {"unused", "armed", "fired", "running", "again"}]
    /\ left \in [Timers -> 0..After]
    /\ timer \in Timers \cup {NoTimer}
    /\ deadline \in 0..MaxWait \cup {NoDeadline}
    /\ pending \in BOOLEAN
    /\ quiet \in 0..After

LEMMA TriggerKeepsTypes ==
  ASSUME TypeOK,
         NEW p \in [Timers -> {"unused", "armed", "fired", "running", "again"}],
         Trigger(p)
  PROVE  TriggerVarsOK'
  <1>1. CASE running
    BY <1>1, TriggerEffect DEF TypeOK, TriggerVarsOK
  <1>2. CASE ~running
    <2>1. pending' \in BOOLEAN
      BY <1>2, TriggerEffect DEF TypeOK
    <2>2. /\ pc' \in [Timers -> {"unused", "armed", "fired", "running", "again"}]
          /\ left' \in [Timers -> 0..After]
          /\ timer' \in Timers
          /\ deadline' \in 0..MaxWait
          /\ quiet' = 0
      BY <1>2, TriggerEffect
    <2>3. 0 \in 0..After
      BY Delays
    <2>. QED
      BY <2>1, <2>2, <2>3 DEF TriggerVarsOK
  <1>. QED
    BY <1>1, <1>2

LEMMA InitInv == TimerInit => IInv
  <1> SUFFICES ASSUME TimerInit PROVE IInv
    OBVIOUS
  <1>1. TypeOK
    <2>1. left \in [Timers -> 0..After] /\ quiet \in 0..After
      BY Delays DEF TimerInit
    <2>. QED
      BY <2>1 DEF TimerInit, TypeOK
  <1>2. PassInv
    BY DEF TimerInit, PassInv
  <1>3. TriggerRemembered /\ BurstCovered /\ Countdown
    BY DEF TimerInit, TriggerRemembered, BurstCovered, Countdown
  <1>. QED
    BY <1>1, <1>2, <1>3 DEF IInv

LEMMA TypeStep == TypeOK /\ [TimerNext]_timerVars => TypeOK'
  <1> SUFFICES ASSUME TypeOK, [TimerNext]_timerVars
               PROVE  TypeOK'
    OBVIOUS
  <1> USE Delays
  <1>1. CASE IngestTrigger
    <2>1. pc \in [Timers -> {"unused", "armed", "fired", "running", "again"}]
      BY DEF TypeOK
    <2>2. Trigger(pc)
      BY <1>1 DEF IngestTrigger
    <2>3. TriggerVarsOK'
      BY <2>1, <2>2, TriggerKeepsTypes
    <2>. QED
      BY <1>1, <2>3 DEF IngestTrigger, TypeOK, TriggerVarsOK
  <1>2. CASE Stop
    BY <1>2 DEF Stop, Disarm, TypeOK
  <1>3. CASE Tick
    BY <1>3 DEF Tick, TypeOK, NoDeadline
  <1>4. ASSUME NEW t \in Timers, Expire(t)
        PROVE  TypeOK'
    BY <1>4 DEF Expire, TypeOK
  <1>5. ASSUME NEW t \in Timers, FireDeferred(t)
        PROVE  TypeOK'
    BY <1>5 DEF FireDeferred, TypeOK
  <1>6. ASSUME NEW t \in Timers, FireBegin(t)
        PROVE  TypeOK'
    BY <1>6 DEF FireBegin, TypeOK
  <1>7. ASSUME NEW t \in Timers, FireEnd(t)
        PROVE  TypeOK'
    BY <1>7 DEF FireEnd, TypeOK
  <1>8. ASSUME NEW t \in Timers, TriggerAgain(t)
        PROVE  TypeOK'
    <2> DEFINE p == [pc EXCEPT ![t] = "unused"]
    <2>1. p \in [Timers -> {"unused", "armed", "fired", "running", "again"}]
      BY DEF TypeOK
    <2>2. Trigger(p) /\ UNCHANGED <<running, owed, stopped>>
      BY <1>8 DEF TriggerAgain
    <2> HIDE DEF p
    <2>3. TriggerVarsOK'
      BY <2>1, <2>2, TriggerKeepsTypes
    <2>. QED
      BY <2>2, <2>3 DEF TypeOK, TriggerVarsOK
  <1>9. CASE UNCHANGED timerVars
    BY <1>9 DEF timerVars, TypeOK
  <1>. QED
    BY <1>1, <1>2, <1>3, <1>4, <1>5, <1>6, <1>7, <1>8, <1>9 DEF TimerNext

LEMMA PassStep == TypeOK /\ PassInv /\ [TimerNext]_timerVars => PassInv'
  <1> SUFFICES ASSUME TypeOK, PassInv, [TimerNext]_timerVars
               PROVE  PassInv'
    OBVIOUS
  <1>1. CASE IngestTrigger
    <2>1. \A u \in Timers : pc'[u] = "running" <=> pc[u] = "running"
      BY <1>1, TriggerEffect DEF IngestTrigger, TypeOK
    <2>. QED
      BY <1>1, <2>1, TriggerEffect DEF IngestTrigger, TypeOK, PassInv
  <1>2. CASE Stop
    BY <1>2 DEF Stop, Disarm, TypeOK, PassInv
  <1>3. CASE Tick
    BY <1>3 DEF Tick, TypeOK, PassInv, NoDeadline
  <1>4. ASSUME NEW t \in Timers, Expire(t)
        PROVE  PassInv'
    BY <1>4 DEF Expire, TypeOK, PassInv
  <1>5. ASSUME NEW t \in Timers, FireDeferred(t)
        PROVE  PassInv'
    BY <1>5 DEF FireDeferred, TypeOK, PassInv
  <1>6. ASSUME NEW t \in Timers, FireBegin(t)
        PROVE  PassInv'
    BY <1>6 DEF FireBegin, TypeOK, PassInv
  <1>7. ASSUME NEW t \in Timers, FireEnd(t)
        PROVE  PassInv'
    BY <1>7 DEF FireEnd, TypeOK, PassInv
  <1>8. ASSUME NEW t \in Timers, TriggerAgain(t)
        PROVE  PassInv'
    <2> DEFINE p == [pc EXCEPT ![t] = "unused"]
    <2>1. /\ p \in [Timers -> {"unused", "armed", "fired", "running", "again"}]
          /\ \A u \in Timers : p[u] = "running" <=> pc[u] = "running"
      BY <1>8 DEF TypeOK, TriggerAgain
    <2>2. Trigger(p) /\ UNCHANGED <<running, owed, stopped>>
      BY <1>8 DEF TriggerAgain
    <2> HIDE DEF p
    <2>3. \A u \in Timers : pc'[u] = "running" <=> pc[u] = "running"
      BY <2>1, <2>2, TriggerEffect
    <2>. QED
      BY <2>1, <2>2, <2>3, TriggerEffect DEF PassInv
  <1>9. CASE UNCHANGED timerVars
    BY <1>9 DEF timerVars, PassInv
  <1>. QED
    BY <1>1, <1>2, <1>3, <1>4, <1>5, <1>6, <1>7, <1>8, <1>9 DEF TimerNext

LEMMA RememberedStep ==
  TypeOK /\ PassInv /\ TriggerRemembered /\ [TimerNext]_timerVars => TriggerRemembered'
  <1> SUFFICES ASSUME TypeOK, PassInv, TriggerRemembered, [TimerNext]_timerVars
               PROVE  TriggerRemembered'
    OBVIOUS
  <1>1. CASE IngestTrigger
    BY <1>1, TriggerEffect DEF IngestTrigger, TypeOK, TriggerRemembered
  <1>2. CASE Stop
    BY <1>2 DEF Stop, TriggerRemembered
  <1>3. CASE Tick
    BY <1>3 DEF Tick, TriggerRemembered
  <1>4. ASSUME NEW t \in Timers, Expire(t)
        PROVE  TriggerRemembered'
    BY <1>4 DEF Expire, TypeOK, TriggerRemembered
  <1>5. ASSUME NEW t \in Timers, FireDeferred(t)
        PROVE  TriggerRemembered'
    BY <1>5 DEF FireDeferred, TypeOK, TriggerRemembered
  <1>6. ASSUME NEW t \in Timers, FireBegin(t)
        PROVE  TriggerRemembered'
    BY <1>6 DEF FireBegin, TriggerRemembered
  <1>7. ASSUME NEW t \in Timers, FireEnd(t)
        PROVE  TriggerRemembered'
    BY <1>7 DEF FireEnd, TypeOK, TriggerRemembered
  <1>8. ASSUME NEW t \in Timers, TriggerAgain(t)
        PROVE  TriggerRemembered'
    <2> DEFINE p == [pc EXCEPT ![t] = "unused"]
    <2>1. p \in [Timers -> {"unused", "armed", "fired", "running", "again"}]
      BY DEF TypeOK
    <2>2. Trigger(p) /\ UNCHANGED <<running, owed, stopped>>
      BY <1>8 DEF TriggerAgain
    <2> HIDE DEF p
    <2>. QED
      BY <2>1, <2>2, TriggerEffect DEF TriggerRemembered
  <1>9. CASE UNCHANGED timerVars
    BY <1>9 DEF timerVars, TriggerRemembered
  <1>. QED
    BY <1>1, <1>2, <1>3, <1>4, <1>5, <1>6, <1>7, <1>8, <1>9 DEF TimerNext

LEMMA CoveredStep ==
  TypeOK /\ PassInv /\ BurstCovered /\ [TimerNext]_timerVars => BurstCovered'
  <1> SUFFICES ASSUME TypeOK, PassInv, BurstCovered, [TimerNext]_timerVars
               PROVE  BurstCovered'
    OBVIOUS
  <1>1. CASE IngestTrigger
    BY <1>1, TriggerEffect DEF IngestTrigger, TypeOK, PassInv, BurstCovered
  <1>2. CASE Stop
    BY <1>2 DEF Stop, BurstCovered
  <1>3. CASE Tick
    <2> SUFFICES ASSUME deadline # NoDeadline, ~stopped
                 PROVE  \E t \in Timers :
                        pc'[t] = "fired" \/ (pc'[t] = "armed" /\ left'[t] <= deadline')
      BY <1>3 DEF Tick, BurstCovered, NoDeadline
    <2>1. PICK t \in Timers :
                 pc[t] = "fired" \/ (pc[t] = "armed" /\ left[t] <= deadline)
      BY DEF BurstCovered
    <2>2. CASE pc[t] = "armed" /\ left[t] <= deadline
      <3>1. left[t] \in Nat \ {0} /\ deadline \in Nat
        BY <1>3, <2>2, Delays DEF Tick, TypeOK, NoDeadline
      <3>2. left'[t] = left[t] - 1 /\ deadline' = deadline - 1
        BY <1>3, <2>2, <3>1 DEF Tick, TypeOK
      <3>. QED
        BY <1>3, <2>2, <3>1, <3>2 DEF Tick
    <2>. QED
      BY <1>3, <2>1, <2>2 DEF Tick
  <1>4. ASSUME NEW t \in Timers, Expire(t)
        PROVE  BurstCovered'
    BY <1>4 DEF Expire, TypeOK, BurstCovered
  <1>5. ASSUME NEW t \in Timers, FireDeferred(t)
        PROVE  BurstCovered'
    BY <1>5 DEF FireDeferred, PassInv, BurstCovered
  <1>6. ASSUME NEW t \in Timers, FireBegin(t)
        PROVE  BurstCovered'
    BY <1>6 DEF FireBegin, BurstCovered
  <1>7. ASSUME NEW t \in Timers, FireEnd(t)
        PROVE  BurstCovered'
    BY <1>7 DEF FireEnd, TypeOK, PassInv, BurstCovered
  <1>8. ASSUME NEW t \in Timers, TriggerAgain(t)
        PROVE  BurstCovered'
    <2> DEFINE p == [pc EXCEPT ![t] = "unused"]
    <2>1. p \in [Timers -> {"unused", "armed", "fired", "running", "again"}]
      BY DEF TypeOK
    <2>2. Trigger(p) /\ UNCHANGED <<running, owed, stopped>>
      BY <1>8 DEF TriggerAgain
    <2> HIDE DEF p
    <2>. QED
      BY <2>1, <2>2, TriggerEffect DEF PassInv, BurstCovered
  <1>9. CASE UNCHANGED timerVars
    BY <1>9 DEF timerVars, BurstCovered
  <1>. QED
    BY <1>1, <1>2, <1>3, <1>4, <1>5, <1>6, <1>7, <1>8, <1>9 DEF TimerNext
LEMMA CountdownStep ==
  TypeOK /\ PassInv /\ Countdown /\ [TimerNext]_timerVars => Countdown'
  <1> SUFFICES ASSUME TypeOK, PassInv, Countdown, [TimerNext]_timerVars
               PROVE  Countdown'
    OBVIOUS
  <1>0. ASSUME NEW p \in [Timers -> {"unused", "armed", "fired", "running", "again"}],
               Trigger(p)
        PROVE  Countdown'
    <2>1. CASE running
      BY <1>0, <2>1, TriggerEffect DEF PassInv, Countdown
    <2>2. CASE ~running
      <3>1. PICK t \in Timers :
              /\ timer' = t
              /\ left'[t] \in 0..After /\ left'[t] \in {After, deadline'}
        BY <1>0, <2>2, TriggerEffect
      <3>2. quiet' = 0 /\ deadline' \in 0..MaxWait
        BY <1>0, <2>2, TriggerEffect
      <3>3. CASE left'[t] = After
        BY <3>1, <3>2, <3>3, Delays DEF Countdown
      <3>4. CASE left'[t] = deadline'
        <4>1. deadline' # NoDeadline /\ deadline' <= left'[timer']
          BY <3>1, <3>2, <3>4, Delays DEF NoDeadline
        <4>. QED BY <4>1 DEF Countdown
      <3>. QED BY <3>1, <3>3, <3>4
    <2>. QED BY <2>1, <2>2
  <1>1. CASE IngestTrigger
    BY <1>0, <1>1 DEF IngestTrigger, TypeOK
  <1>2. CASE Stop
    BY <1>2 DEF Stop, Countdown
  <1>3. CASE Tick
    <2> SUFFICES ASSUME timer # NoTimer, pc[timer] = "armed"
                 PROVE  \/ After <= left'[timer] + quiet'
                        \/ deadline' # NoDeadline /\ deadline' <= left'[timer]
      BY <1>3 DEF Tick, Countdown
    <2>1. timer \in Timers /\ left[timer] \in Nat \ {0} /\ quiet \in 0..After
      BY <1>3, Delays DEF Tick, TypeOK
    <2>2. left'[timer] = left[timer] - 1
      BY <1>3, <2>1 DEF Tick
    <2>3. CASE After <= left[timer] + quiet
      BY <1>3, <2>1, <2>2, <2>3, Delays DEF Tick
    <2>4. CASE deadline # NoDeadline /\ deadline <= left[timer]
      <3>1. deadline \in Nat
        BY <2>4, Delays DEF TypeOK
      <3>. QED BY <1>3, <2>1, <2>2, <2>4, <3>1 DEF Tick, NoDeadline
    <2>. QED BY <2>3, <2>4 DEF Countdown
  <1>4. ASSUME NEW t \in Timers, Expire(t)
        PROVE  Countdown'
    BY <1>4 DEF Expire, TypeOK, Countdown
  <1>5. ASSUME NEW t \in Timers, FireDeferred(t)
        PROVE  Countdown'
    BY <1>5 DEF FireDeferred, TypeOK, Countdown
  <1>6. ASSUME NEW t \in Timers, FireBegin(t)
        PROVE  Countdown'
    BY <1>6 DEF FireBegin, Countdown
  <1>7. ASSUME NEW t \in Timers, FireEnd(t)
        PROVE  Countdown'
    BY <1>7 DEF FireEnd, TypeOK, Countdown
  <1>8. ASSUME NEW t \in Timers, TriggerAgain(t)
        PROVE  Countdown'
    BY <1>0, <1>8 DEF TriggerAgain, TypeOK
  <1>9. CASE UNCHANGED timerVars
    BY <1>9 DEF timerVars, Countdown
  <1>. QED
    BY <1>1, <1>2, <1>3, <1>4, <1>5, <1>6, <1>7, <1>8, <1>9 DEF TimerNext

\* A countdown that a.timer names runs out by Expire only.
LEMMA QuietStep ==
  ASSUME TypeOK, Countdown, [TimerNext]_timerVars,
         NEW t \in Timers, pc[t] = "armed", pc'[t] = "fired", timer = t
  PROVE  quiet = After \/ deadline = 0
  <1>0. ASSUME NEW p \in [Timers -> {"unused", "armed", "fired", "running", "again"}],
               Trigger(p), p[t] = "armed"
        PROVE  FALSE
    BY <1>0, TriggerEffect
  <1>1. ~IngestTrigger
    BY <1>0 DEF IngestTrigger, TypeOK
  <1>2. ~Stop /\ ~Tick /\ ~UNCHANGED timerVars
    BY DEF Stop, Disarm, Tick, timerVars, TypeOK
  <1>3. ASSUME NEW u \in Timers, FireDeferred(u) \/ FireBegin(u) \/ FireEnd(u)
        PROVE  FALSE
    BY <1>3 DEF FireDeferred, FireBegin, FireEnd, TypeOK
  <1>4. ASSUME NEW u \in Timers, TriggerAgain(u) PROVE FALSE
    BY <1>0, <1>4 DEF TriggerAgain, TypeOK
  <1>5. PICK u \in Timers : Expire(u)
    BY <1>1, <1>2, <1>3, <1>4 DEF TimerNext
  <1>6. u = t /\ left[t] = 0
    BY <1>5 DEF Expire, TypeOK
  <1>7. timer # NoTimer
    BY TimerAssumption
  <1>8. CASE After <= left[t] + quiet
    BY <1>6, <1>8, Delays DEF TypeOK
  <1>9. CASE deadline # NoDeadline /\ deadline <= left[t]
    BY <1>6, <1>9, Delays DEF TypeOK
  <1>. QED BY <1>7, <1>8, <1>9 DEF Countdown
-----------------------------------------------------------------------------
LEMMA Inductive == TimerSpec => []IInv
  <1>1. IInv /\ [TimerNext]_timerVars => IInv'
    BY TypeStep, PassStep, RememberedStep, CoveredStep, CountdownStep DEF IInv
  <1>. QED
    BY InitInv, <1>1, PTL DEF TimerSpec

\* Every variable keeps its range: in particular no countdown outlasts the quiet
\* period, whatever delays were configured.
THEOREM TypeCorrect == TimerSpec => []TypeOK
  <1>1. IInv => TypeOK
    BY DEF IInv
  <1>. QED
    BY Inductive, <1>1, PTL

\* At most one scheduled pass runs at a time, for any number of racing timers.
THEOREM OnePassHolds == TimerSpec => []OnePass
  <1>1. IInv => OnePass
    BY DEF IInv, PassInv, OnePass
  <1>. QED
    BY Inductive, <1>1, PTL

\* No trigger is forgotten, for any number of racing timers.
THEOREM TriggerRememberedHolds == TimerSpec => []TriggerRemembered
  <1>1. IInv => TriggerRemembered
    BY DEF IInv
  <1>. QED
    BY Inductive, <1>1, PTL

\* A burst is consolidated by its deadline, whatever delays were configured.
THEOREM BurstCoveredHolds == TimerSpec => []BurstCovered
  <1>1. IInv => BurstCovered
    BY DEF IInv
  <1>. QED
    BY Inductive, <1>1, PTL

\* A pass waits out the quiet period or the cap of its burst, for any number of
\* timers and whatever delays were configured.
THEOREM QuietBeforePassHolds == TimerSpec => QuietBeforePass
  <1>1. IInv /\ [TimerNext]_timerVars =>
          [\A t \in Timers : pc[t] = "armed" /\ pc'[t] = "fired" /\ timer = t
                            => quiet = After \/ deadline = 0]_timerVars
    BY QuietStep DEF IInv
  <1>. QED
    BY Inductive, <1>1, PTL DEF TimerSpec, QuietBeforePass
-----------------------------------------------------------------------------
(* The tenant.                                                             *)

StoreOK ==
    /\ queued \in SUBSET Sessions
    /\ extracted \in SUBSET Sessions
    /\ upload \in [Uploads -> {"idle", "stored"}]
    /\ late \subseteq queued
    /\ queued \cap extracted = {}

JobOK ==
    /\ consolJob \in Jobs \cup {NoJob}
    /\ phase \in [Jobs -> {"unused", "extract", "synth", "closed"}]
    /\ batch \in [Jobs -> SUBSET Sessions]
    /\ joined \in [Callers -> Jobs \cup {NoJob}]

CountOK == fails \in 0..MaxFails /\ crashes \in 0..MaxCrashes

JobInv ==
    /\ \A j \in Jobs : phase[j] \in {"extract", "synth"} => consolJob = j
    /\ \A j \in Jobs : batch[j] # {} => phase[j] = "extract"
    /\ \A j \in Jobs : batch[j] \subseteq queued

\* What the tenant adds to its timer.
OwnInv == StoreOK /\ JobOK /\ CountOK /\ JobInv /\ JoinedJobLives

TenantInv == IInv /\ OwnInv

LEMMA TenantInitInv == Init => TenantInv
  <1>. SUFFICES ASSUME Init PROVE TenantInv
    OBVIOUS
  <1>1. IInv
    BY InitInv DEF Init
  <1>2. CountOK
    BY TenantAssumption DEF Init, CountOK, TenantAssumption
  <1>3. StoreOK /\ JobOK /\ JobInv /\ JoinedJobLives
    BY DEF Init, StoreOK, JobOK, JobInv, JoinedJobLives
  <1>. QED BY <1>1, <1>2, <1>3 DEF TenantInv, OwnInv

LEMMA ResetInv == TimerInit' => IInv'
  BY InitInv, PTL

LEMMA TimerInv == IInv /\ [TimerNext]_timerVars => IInv'
  BY TypeStep, PassStep, RememberedStep, CoveredStep, CountdownStep DEF IInv

\* The timers take a step of their own, or are reset by a crash.
LEMMA TimerSteps ==
  ASSUME [Next]_vars
  PROVE  [TimerNext]_timerVars \/ TimerInit'
  <1>1. CASE Crash
    BY <1>1 DEF Crash, TimerInit
  <1>2. ASSUME NEW h \in Uploads, NEW S \in SUBSET Sessions, Store(h, S)
        PROVE  [TimerNext]_timerVars
    BY <1>2 DEF Store
  <1>3. ASSUME NEW h \in Uploads, NoteUpload(h)
        PROVE  [TimerNext]_timerVars
    BY <1>3 DEF NoteUpload, TimerNext
  <1>4. ASSUME NEW c \in Manual, ManualStart(c) \/ ManualReturn(c)
        PROVE  [TimerNext]_timerVars
    BY <1>4 DEF ManualStart, ManualReturn
  <1>5. ASSUME NEW t \in Timers, AutoStart(t) \/ AutoReturn(t)
        PROVE  [TimerNext]_timerVars
    BY <1>5 DEF AutoStart, AutoReturn, TimerNext
  <1>6. ASSUME NEW j \in Jobs, JobStep(j) \/ PassFails(j)
        PROVE  [TimerNext]_timerVars
    BY <1>6 DEF JobStep, ListBatch, ExtractOne, PassEnd, ClearJob, PassFails
  <1>7. ASSUME NEW j \in Jobs, NEW s \in Sessions, SaveFails(j, s)
        PROVE  [TimerNext]_timerVars
    BY <1>7 DEF SaveFails
  <1>8. CASE TimerStep
    BY <1>8 DEF TimerStep, TimerNext
  <1>9. CASE UNCHANGED vars
    BY <1>9 DEF vars
  <1>. QED BY <1>1, <1>2, <1>3, <1>4, <1>5, <1>6, <1>7, <1>8, <1>9 DEF Next

LEMMA TimerPart ==
  ASSUME IInv, [Next]_vars
  PROVE  IInv'
  BY TimerSteps, TimerInv, ResetInv
-----------------------------------------------------------------------------
LEMMA StoreOwn ==
  ASSUME OwnInv, NEW h \in Uploads, NEW S \in SUBSET Sessions, Store(h, S)
  PROVE  OwnInv'
  BY DEF OwnInv, StoreOK, JobOK, CountOK, JobInv, JoinedJobLives, Store, jobVars

LEMMA NoteUploadOwn ==
  ASSUME OwnInv, NEW h \in Uploads, NoteUpload(h)
  PROVE  OwnInv'
  BY DEF OwnInv, StoreOK, JobOK, CountOK, JobInv, JoinedJobLives, NoteUpload, jobVars, storeVars

\* Whoever asks joins the job in flight, or starts the only one.
LEMMA StartOwn ==
  ASSUME OwnInv, NEW c \in Callers, StartConsolidation(c), joined[c] = NoJob,
         UNCHANGED <<upload, storeVars, batch, fails, crashes>>
  PROVE  OwnInv'
  <1>1. StoreOK' /\ CountOK'
    BY DEF OwnInv, StoreOK, CountOK, storeVars
  <1>2. CASE consolJob # NoJob /\ joined' = [joined EXCEPT ![c] = consolJob]
             /\ UNCHANGED <<consolJob, phase>>
    <2>1. JobOK' /\ JobInv'
      BY <1>2 DEF OwnInv, JobOK, JobInv, storeVars
    <2>2. JoinedJobLives'
      BY <1>2 DEF OwnInv, JobOK, JoinedJobLives
    <2>. QED BY <1>1, <2>1, <2>2 DEF OwnInv
  <1>3. CASE consolJob = NoJob
    <2>1. PICK j \in Jobs :
            /\ Unreferenced(j)
            /\ consolJob' = j
            /\ phase' = [phase EXCEPT ![j] = "extract"]
            /\ joined' = [joined EXCEPT ![c] = j]
      BY <1>3 DEF StartConsolidation
    <2>2. JobOK'
      BY <2>1 DEF OwnInv, JobOK
    <2>3. \A k \in Jobs : phase[k] \notin {"extract", "synth"}
      BY <1>3, TenantAssumption DEF OwnInv, JobInv, TenantAssumption
    <2>4. JobInv'
      BY <2>1, <2>3 DEF OwnInv, JobOK, JobInv, storeVars
    <2>5. JoinedJobLives'
      BY <1>3, <2>1, TenantAssumption
         DEF OwnInv, JobOK, JoinedJobLives, Unreferenced, TenantAssumption
    <2>. QED BY <1>1, <2>2, <2>4, <2>5 DEF OwnInv
  <1>. QED BY <1>2, <1>3 DEF StartConsolidation

LEMMA CallerOwn ==
  ASSUME OwnInv,
         \/ \E c \in Manual : ManualStart(c) \/ ManualReturn(c)
         \/ \E t \in Timers : AutoStart(t) \/ AutoReturn(t)
  PROVE  OwnInv'
  <1>1. ASSUME NEW c \in Manual, ManualStart(c) PROVE OwnInv'
    BY <1>1, StartOwn DEF ManualStart, Callers
  <1>2. ASSUME NEW t \in Timers, AutoStart(t) PROVE OwnInv'
    BY <1>2, StartOwn DEF AutoStart, Callers
  <1>3. ASSUME NEW c \in Callers, joined' = [joined EXCEPT ![c] = NoJob],
               UNCHANGED <<upload, storeVars, consolJob, phase, batch, fails, crashes>>
        PROVE  OwnInv'
    BY <1>3 DEF OwnInv, StoreOK, JobOK, CountOK, JobInv, JoinedJobLives, storeVars
  <1>4. ASSUME NEW c \in Manual, ManualReturn(c) PROVE OwnInv'
    BY <1>3, <1>4 DEF ManualReturn, Callers
  <1>5. ASSUME NEW t \in Timers, AutoReturn(t) PROVE OwnInv'
    BY <1>3, <1>5 DEF AutoReturn, Callers
  <1>. QED BY <1>1, <1>2, <1>4, <1>5
-----------------------------------------------------------------------------
LEMMA ListBatchOwn ==
  ASSUME OwnInv, NEW j \in Jobs, ListBatch(j)
  PROVE  OwnInv'
  <1>1. StoreOK' /\ CountOK'
    BY DEF OwnInv, StoreOK, CountOK, ListBatch, storeVars
  <1>2. CASE queued = {} /\ phase' = [phase EXCEPT ![j] = "synth"] /\ UNCHANGED batch
    BY <1>1, <1>2 DEF OwnInv, JobOK, JobInv, JoinedJobLives, ListBatch, storeVars
  <1>3. ASSUME NEW B \in SUBSET queued, batch' = [batch EXCEPT ![j] = B], UNCHANGED phase
        PROVE  OwnInv'
    BY <1>1, <1>3 DEF OwnInv, StoreOK, JobOK, JobInv, JoinedJobLives, ListBatch, storeVars
  <1>. QED BY <1>2, <1>3 DEF ListBatch

LEMMA ExtractOneOwn ==
  ASSUME OwnInv, NEW j \in Jobs, NEW s \in Sessions, ExtractOne(j, s)
  PROVE  OwnInv'
  <1>1. s \in queued /\ phase[j] = "extract" /\ consolJob = j
    BY DEF OwnInv, JobInv, ExtractOne
  <1>2. \A k \in Jobs : k # j => batch[k] = {}
    BY <1>1 DEF OwnInv, JobInv
  <1>3. StoreOK' /\ CountOK' /\ JobOK' /\ JoinedJobLives'
    BY DEF OwnInv, StoreOK, CountOK, JobOK, JoinedJobLives, ExtractOne
  <1>4. JobInv'
    BY <1>1, <1>2 DEF OwnInv, JobOK, JobInv, ExtractOne
  <1>. QED BY <1>3, <1>4 DEF OwnInv

LEMMA JobOwn ==
  ASSUME OwnInv, NEW j \in Jobs,
         PassEnd(j) \/ ClearJob(j) \/ PassFails(j) \/ \E s \in Sessions : SaveFails(j, s)
  PROVE  OwnInv'
  <1>1. CASE PassEnd(j)
    BY <1>1 DEF OwnInv, StoreOK, CountOK, JobOK, JobInv, JoinedJobLives, PassEnd, storeVars
  <1>2. CASE ClearJob(j)
    BY <1>2 DEF OwnInv, StoreOK, CountOK, JobOK, JobInv, JoinedJobLives, ClearJob, storeVars
  <1>3. CASE PassFails(j)
    <2>1. CountOK'
      BY <1>3, TenantAssumption DEF OwnInv, CountOK, PassFails, TenantAssumption
    <2>. QED
      BY <1>3, <2>1 DEF OwnInv, StoreOK, JobOK, JobInv, JoinedJobLives, PassFails, storeVars
  <1>4. ASSUME NEW s \in Sessions, SaveFails(j, s) PROVE OwnInv'
    <2>1. CountOK'
      BY <1>4, TenantAssumption DEF OwnInv, CountOK, SaveFails, TenantAssumption
    <2>. QED
      BY <1>4, <2>1 DEF OwnInv, StoreOK, JobOK, JobInv, JoinedJobLives, SaveFails, storeVars
  <1>. QED BY <1>1, <1>2, <1>3, <1>4

LEMMA CrashOwn == OwnInv /\ Crash => OwnInv'
  <1>. SUFFICES ASSUME OwnInv, Crash PROVE OwnInv'
    OBVIOUS
  <1>1. CountOK'
    BY TenantAssumption DEF OwnInv, CountOK, Crash, TenantAssumption
  <1>2. StoreOK' /\ JobOK'
    BY DEF OwnInv, StoreOK, JobOK, Crash
  <1>3. JobInv' /\ JoinedJobLives'
    BY DEF OwnInv, JobInv, JoinedJobLives, Crash
  <1>. QED BY <1>1, <1>2, <1>3 DEF OwnInv

LEMMA OwnStep ==
  ASSUME OwnInv, [Next]_vars
  PROVE  OwnInv'
  <1>1. CASE \E h \in Uploads : \E S \in SUBSET Sessions \ {{}} : Store(h, S)
    BY <1>1, StoreOwn
  <1>2. CASE \E h \in Uploads : NoteUpload(h)
    BY <1>2, NoteUploadOwn
  <1>3. CASE \/ \E c \in Manual : ManualStart(c) \/ ManualReturn(c)
             \/ \E t \in Timers : AutoStart(t) \/ AutoReturn(t)
    BY <1>3, CallerOwn
  <1>4. ASSUME NEW j \in Jobs, JobStep(j) \/ PassFails(j) PROVE OwnInv'
    BY <1>4, ListBatchOwn, ExtractOneOwn, JobOwn DEF JobStep
  <1>5. CASE \E j \in Jobs, s \in Sessions : SaveFails(j, s)
    BY <1>5, JobOwn
  <1>6. CASE UNCHANGED <<upload, storeVars, jobVars, fails, crashes>>
    BY <1>6 DEF OwnInv, StoreOK, CountOK, JobOK, JobInv, JoinedJobLives, storeVars, jobVars
  <1>. QED
    BY <1>1, <1>2, <1>3, <1>4, <1>5, <1>6, CrashOwn
    DEF Next, TimerStep, vars, storeVars, jobVars

LEMMA TenantStep == TenantInv /\ [Next]_vars => TenantInv'
  BY TimerPart, OwnStep DEF TenantInv

LEMMA TenantInductive == Spec => []TenantInv
  BY TenantInitInv, TenantStep, PTL DEF Spec
-----------------------------------------------------------------------------
\* The tenant and its timer are well typed.
THEOREM TenantTypeCorrect == Spec => []TenantTypeOK
  <1>1. TenantInv => TenantTypeOK
    BY DEF TenantInv, OwnInv, IInv, StoreOK, JobOK, CountOK, TenantTypeOK
  <1>. QED BY TenantInductive, <1>1, PTL

\* SingleFlight for any number of manual callers, timers and job values.
THEOREM SingleFlightHolds == Spec => []SingleFlight
  <1>1. TenantInv => SingleFlight
    BY DEF TenantInv, OwnInv, JobOK, JobInv, SingleFlight
  <1>. QED BY TenantInductive, <1>1, PTL

\* ExtractedOnce for any sessions, batches, failures and crashes.
THEOREM ExtractedOnceHolds == Spec => []ExtractedOnce
  <1>1. TenantInv => ExtractedOnce
    BY DEF TenantInv, OwnInv, StoreOK, JobInv, ExtractedOnce
  <1>. QED BY TenantInductive, <1>1, PTL

\* JoinedJobLives: nobody is left waiting.
THEOREM JoinedJobLivesHolds == Spec => []JoinedJobLives
  <1>1. TenantInv => JoinedJobLives
    BY DEF TenantInv, OwnInv
  <1>. QED BY TenantInductive, <1>1, PTL

\* The promises of the timer hold in the tenant, across its crashes.
THEOREM TenantTimer == Spec => [](OnePass /\ TriggerRemembered /\ BurstCovered)
  <1>1. TenantInv => OnePass /\ TriggerRemembered /\ BurstCovered
    BY DEF TenantInv, IInv, PassInv, OnePass
  <1>. QED BY TenantInductive, <1>1, PTL

\* No crash sets a timer off: the quiet period is waited out in the tenant too.
THEOREM TenantQuiet == Spec => QuietBeforePass
  <1>1. ASSUME TenantInv, [Next]_vars,
               NEW t \in Timers, pc[t] = "armed", pc'[t] = "fired", timer = t
        PROVE  quiet = After \/ deadline = 0
    <2>1. ~TimerInit'
      BY <1>1 DEF TimerInit
    <2>. QED BY <1>1, <2>1, TimerSteps, QuietStep DEF TenantInv, IInv
  <1>2. TenantInv /\ [Next]_vars =>
          [\A t \in Timers : pc[t] = "armed" /\ pc'[t] = "fired" /\ timer = t
                            => quiet = After \/ deadline = 0]_timerVars
    BY <1>1
  <1>. QED
    BY TenantInductive, <1>2, PTL DEF Spec, QuietBeforePass
=============================================================================
