----------------------------- MODULE QuietTimer -----------------------------
(***************************************************************************)
(* The quiet timer of internal/httpapi/autoconsolidate.go: an ingest       *)
(* (re)starts a countdown, and a consolidation pass runs once the uploads  *)
(* stop, or when the hard cap of the burst is reached.                     *)
(*                                                                         *)
(* Each element of Timers is one time.AfterFunc timer together with the    *)
(* goroutine that runs fire() for it.  Every method body is one critical   *)
(* section of a.mu, hence one action; fire has a section before the pass   *)
(* and one after it, and calls Trigger after the second.  A timer that     *)
(* went off but whose goroutine still waits for a.mu is "fired": Stop() on *)
(* it comes too late, as in the Go runtime.                                *)
(*                                                                         *)
(* Time is kept as what is left of each countdown, in ticks.               *)
(***************************************************************************)
EXTENDS Integers

CONSTANTS Timers,        \* timers alive at once (bounds how many fire() calls overlap)
          NoTimer,       \* a.timer == nil
          ConfAfter,     \* the configured quiet period, in ticks
          ConfMaxWait,   \* the configured cap on the total delay
          DefaultAfter   \* DefaultConsolidateAfter

\* newAutoConsolidator replaces a quiet period that is not positive.
After == IF ConfAfter <= 0 THEN DefaultAfter ELSE ConfAfter

\* newAutoConsolidator never lets the cap be shorter than the quiet period.
MaxWait == IF ConfMaxWait < After THEN After ELSE ConfMaxWait

ASSUME TimerAssumption ==
    /\ NoTimer \notin Timers
    /\ ConfAfter \in Int
    /\ ConfMaxWait \in Int
    /\ DefaultAfter \in Nat \ {0}

VARIABLES
    pc,        \* per timer: what became of it
    left,      \* per timer: ticks until it goes off
    timer,     \* a.timer
    deadline,  \* ticks left until a.deadline, 0 once past it
    running,   \* a.running
    pending,   \* a.pending
    \* Observers, read by no action:
    owed,      \* an ingest called Trigger and no pass has started since
    stopped,   \* Stop was called and no ingest called Trigger since
    quiet      \* ticks since Trigger last armed a timer, up to After

timerVars == <<pc, left, timer, deadline, running, pending, owed, stopped, quiet>>

NoDeadline == -1

TypeOK ==
    /\ pc \in [Timers -> {"unused", "armed", "fired", "running", "again"}]
    /\ left \in [Timers -> 0..After]
    /\ timer \in Timers \cup {NoTimer}
    /\ deadline \in 0..MaxWait \cup {NoDeadline}
    /\ running \in BOOLEAN
    /\ pending \in BOOLEAN
    /\ owed \in BOOLEAN
    /\ stopped \in BOOLEAN
    /\ quiet \in 0..After

TimerInit ==
    /\ pc = [t \in Timers |-> "unused"]
    /\ left = [t \in Timers |-> 0]
    /\ timer = NoTimer
    /\ deadline = NoDeadline
    /\ running = FALSE
    /\ pending = FALSE
    /\ owed = FALSE
    /\ stopped = FALSE
    /\ quiet = After
-----------------------------------------------------------------------------
\* Mutant of Wait: the cap ignored.
WaitUncapped(d) == After

\* The countdown a trigger starts when d ticks are left of the burst.
Wait(d) == IF d < After THEN d ELSE After

\* Mutant of BurstDeadline: every trigger opens a burst of its own.
BurstDeadlineReset == MaxWait

\* The hard cap is set by the first trigger of a burst only.
BurstDeadline == IF deadline = NoDeadline THEN MaxWait ELSE deadline

\* p after a.timer.Stop(): it only stops a countdown that has not gone off.
Disarm(p) ==
    [u \in Timers |-> IF u = timer /\ p[u] = "armed" THEN "unused" ELSE p[u]]

\* Mutant of Trigger: a countdown that is on is not started afresh.
TriggerKeeps(p) ==
    \/ /\ running
       /\ pending' = TRUE
       /\ pc' = p
       /\ UNCHANGED <<left, timer, deadline, quiet>>
    \/ /\ ~running
       /\ deadline' = BurstDeadline
       /\ \E t \in Timers :
            /\ p[t] = IF timer = NoTimer THEN "unused" ELSE p[timer]
            /\ timer = NoTimer \/ t = timer
            /\ timer' = t
            /\ pc' = IF timer = NoTimer THEN [p EXCEPT ![t] = "armed"] ELSE p
            /\ left' = IF timer = NoTimer THEN [left EXCEPT ![t] = Wait(deadline')] ELSE left
       /\ quiet' = 0
       /\ UNCHANGED pending

\* Trigger, called when the timers stand as p says.
Trigger(p) ==
    \/ /\ running
       /\ pending' = TRUE
       /\ pc' = p
       /\ UNCHANGED <<left, timer, deadline, quiet>>
    \/ /\ ~running
       /\ deadline' = BurstDeadline
       /\ \E t \in Timers :
            /\ Disarm(p)[t] = "unused"
            /\ timer' = t
            /\ pc' = [Disarm(p) EXCEPT ![t] = "armed"]
            /\ left' = [u \in Timers |->
                          IF u = t THEN Wait(deadline')
                          ELSE IF u = timer THEN 0 ELSE left[u]]
       /\ quiet' = 0
       /\ UNCHANGED pending

\* handleIngest notes that new sessions landed.
IngestTrigger ==
    /\ Trigger(pc)
    /\ owed' = TRUE
    /\ stopped' = FALSE
    /\ UNCHANGED running

\* Stop leaves the deadline, the pending mark and any other timer alone.
Stop ==
    /\ pc' = Disarm(pc)
    /\ left' = [u \in Timers |-> IF u = timer THEN 0 ELSE left[u]]
    /\ timer' = NoTimer
    /\ stopped' = TRUE
    /\ UNCHANGED <<deadline, running, pending, owed, quiet>>

\* The runtime starts the goroutine of a countdown that ran out.
Expire(t) ==
    /\ pc[t] = "armed"
    /\ left[t] = 0
    /\ pc' = [pc EXCEPT ![t] = "fired"]
    /\ UNCHANGED <<left, timer, deadline, running, pending, owed, stopped, quiet>>

\* fire finds a pass running and leaves a note for it.
FireDeferred(t) ==
    /\ pc[t] = "fired"
    /\ running
    /\ pending' = TRUE
    /\ pc' = [pc EXCEPT ![t] = "unused"]
    /\ UNCHANGED <<left, timer, deadline, running, owed, stopped, quiet>>

\* Mutant of FireBegin: a.running is not looked at.
FireBeginUnguarded(t) ==
    /\ pc[t] = "fired"
    /\ running' = TRUE
    /\ timer' = NoTimer
    /\ deadline' = NoDeadline
    /\ pc' = [pc EXCEPT ![t] = "running"]
    /\ owed' = FALSE
    /\ UNCHANGED <<left, pending, stopped, quiet>>

\* fire starts the pass.  It forgets a.timer, whichever timer that is.
FireBegin(t) ==
    /\ pc[t] = "fired"
    /\ ~running
    /\ running' = TRUE
    /\ timer' = NoTimer
    /\ deadline' = NoDeadline
    /\ pc' = [pc EXCEPT ![t] = "running"]
    /\ owed' = FALSE
    /\ UNCHANGED <<left, pending, stopped, quiet>>

\* Mutant of FireEnd: the pending mark is cleared but not acted on.
FireEndForgets(t) ==
    /\ pc[t] = "running"
    /\ running' = FALSE
    /\ pending' = FALSE
    /\ pc' = [pc EXCEPT ![t] = "unused"]
    /\ UNCHANGED <<left, timer, deadline, owed, stopped, quiet>>

\* a.run returned, with or without an error.
FireEnd(t) ==
    /\ pc[t] = "running"
    /\ running' = FALSE
    /\ pending' = FALSE
    /\ pc' = [pc EXCEPT ![t] = IF pending THEN "again" ELSE "unused"]
    /\ UNCHANGED <<left, timer, deadline, owed, stopped, quiet>>

\* fire's last step: wait out another quiet period for the mid-pass triggers.
TriggerAgain(t) ==
    /\ pc[t] = "again"
    /\ Trigger([pc EXCEPT ![t] = "unused"])
    /\ UNCHANGED <<running, owed, stopped>>

\* One tick.  The runtime is punctual: no countdown is left at zero meanwhile.
Tick ==
    /\ \E t \in Timers : pc[t] = "armed"
    /\ \A t \in Timers : pc[t] = "armed" => left[t] > 0
    /\ left' = [t \in Timers |-> IF left[t] > 0 THEN left[t] - 1 ELSE 0]
    /\ deadline' = IF deadline > 0 THEN deadline - 1 ELSE deadline
    /\ quiet' = IF quiet < After THEN quiet + 1 ELSE After
    /\ UNCHANGED <<pc, timer, running, pending, owed, stopped>>

TimerNext ==
    \/ IngestTrigger
    \/ Stop
    \/ Tick
    \/ \E t \in Timers :
         Expire(t) \/ FireDeferred(t) \/ FireBegin(t) \/ FireEnd(t) \/ TriggerAgain(t)

TimerSpec == TimerInit /\ [][TimerNext]_timerVars
-----------------------------------------------------------------------------
\* At most one scheduled pass runs at a time, and a.running says whether one
\* does, however many fire() goroutines and triggers race for a.mu.
OnePass ==
    /\ \A t, u \in Timers : pc[t] = "running" /\ pc[u] = "running" => t = u
    /\ running <=> \E t \in Timers : pc[t] = "running"

\* A trigger is never forgotten: until a pass starts after it, a countdown is
\* on, a fire() is under way, or the running pass will call Trigger again.
TriggerRemembered ==
    owed /\ ~stopped =>
        \/ pending /\ running
        \/ \E t \in Timers : pc[t] \in {"armed", "fired", "again"}

\* A continuous stream of ingests cannot defer the pass past the cap: while a
\* burst is open, a fire() is under way or a countdown ends by the deadline.
BurstCovered ==
    deadline # NoDeadline /\ ~stopped =>
        \E t \in Timers :
            \/ pc[t] = "fired"
            \/ pc[t] = "armed" /\ left[t] <= deadline

\* Every trigger is answered by a pass that starts after it, unless Stop
\* intervenes: neither a stream of later ingests nor a long pass starves it.
TriggerServed == owed ~> (~owed \/ stopped)

\* autoconsolidate.go:12, "each ingest resets a short quiet timer, and the
\* pass runs once the uploads stop": the current countdown runs out only when no
\* trigger came for the whole quiet period, or the cap of the burst is reached.
\* (A countdown that FireBegin has forgotten may run out at any time.)
QuietBeforePass ==
    [][\A t \in Timers : pc[t] = "armed" /\ pc'[t] = "fired" /\ timer = t
                         => quiet = After \/ deadline = 0]_timerVars
=============================================================================
