--------------------------- MODULE RegistryProofs ---------------------------
(***************************************************************************)
(* The registry for any requests in flight, hints, ids and failures.       *)
(*                                                                         *)
(* Everything rests on an alias never being bound again (BoundOnce): what  *)
(* a request has looked up, and what one before it has left, stays true    *)
(* while others run between its statements.  RegistryInv is what each      *)
(* request therefore knows at its place in the order of the signals.       *)
(***************************************************************************)
EXTENDS Registry, FiniteSetTheorems, TLAPS

Places == {"idle", "remote", "name", "path", "mint", "bind", "attach"}
Looking == {"remote", "name", "path", "mint"}

\* The strongest signal of hints that have one, which Resolve looks up first.
First(h) == IF h.remote # None THEN h.remote
            ELSE IF h.name # None THEN h.name ELSE h.path

\* There is a hint, and none is an alias of an id that is no project.
Sound(h) == AliasesOf(h) # {} /\ \A a \in AliasesOf(h) : alias[a] # BadId

\* An alias is of a project there is, or of the id that was never one.
References == \A a \in Aliases : alias[a] \in projects \cup {BadId, None}

\* Where a request is and what it has.
InFlight ==
    /\ \A q \in Requests : pc[q] = "idle" => known[q] = None /\ ~late[q] /\ found[q] = None
    /\ \A q \in Requests : pc[q] # "idle" => hints[q] \in Hints
    /\ \A q \in Requests : pc[q] \in Looking => found[q] = None
    /\ \A q \in Requests : pc[q] \in {"bind", "attach"} => found[q] \in projects

TypeInv == TypeOK /\ References /\ InFlight

\* A remote that was bound when the request came still is.  A request that went on
\* to the weaker signals did not know a project, and one that knew it is about it.
Remembers(q) ==
    known[q] # None =>
        /\ hints[q].remote # None
        /\ alias[hints[q].remote] = known[q]
        /\ pc[q] \in {"name", "path", "mint"} => known[q] = BadId
        /\ found[q] # None /\ known[q] # BadId => found[q] = known[q]

\* A request that no statement failed has bound all that it has not yet to bind.
BindsAll(q) ==
    clean[q] /\ pc[q] \in {"bind", "attach"} =>
        \A a \in AliasesOf(hints[q]) :
            alias[a] # None \/ (pc[q] = "bind" /\ a \in todo[q])

\* A late request has its hints all bound, and finds its strongest signal.
Finds(q) ==
    late[q] =>
        /\ hints[q] \in settled
        /\ Sound(hints[q]) =>
             /\ pc[q] \in {"name", "path"} => hints[q].remote = None
             /\ pc[q] = "path" => hints[q].name = None
             /\ pc[q] # "mint"
             /\ found[q] # None => found[q] = alias[First(hints[q])]

Knows(q) == Remembers(q) /\ BindsAll(q) /\ Finds(q)

\* What was settled is bound for good, and late requests for it had one answer.
SettledBound == \A h \in settled : \A a \in AliasesOf(h) : alias[a] # None
OneAnswer ==
    \A h \in Hints : answers[h] # {} =>
        h \in settled /\ (Sound(h) => answers[h] \subseteq {alias[First(h)]})

\* A request that nothing crossed shares no alias with what others may yet bind, so
\* that it has missed what it looked up for good.
Apart(q) == \A r \in Requests : r # q => LooksUp(q) \cap MayBind(r) = {}
Missed(q) ==
    /\ pc[q] \in {"name", "path", "mint"} => ~Found(hints[q].remote)
    /\ pc[q] \in {"path", "mint"} => ~Found(hints[q].name)
    /\ pc[q] = "mint" => ~Found(hints[q].path)
Alone == \A q \in Requests : pc[q] # "idle" /\ ~crossed[q] => Apart(q) /\ Missed(q)

\* What a request has yet to bind is among its hints.
Learns == \A q \in Requests : todo[q] \subseteq LooksUp(q)

RegistryInv ==
    /\ \A q \in Requests : Knows(q)
    /\ SettledBound /\ OneAnswer
    /\ Alone /\ Learns /\ OrphansByRace

-----------------------------------------------------------------------------
(* Hints, and the one way an alias changes.                                *)

LEMMA BoundTypes ==
  /\ MaxAsks \in Nat /\ MaxFails \in Nat
  /\ None \notin Aliases /\ None \notin Ids /\ None # BadId /\ BadId \notin Ids
  <1>1. {MaxAsks, MaxFails} \subseteq Nat
    BY RegistryAssumption DEF RegistryAssumption
  <1>. QED BY <1>1, RegistryAssumption DEF RegistryAssumption

LEMMA HintTypes ==
  ASSUME NEW h \in Hints
  PROVE  /\ h.remote \in Remotes \cup {None}
         /\ h.name \in Names \cup {None}
         /\ h.path \in Paths \cup {None}
         /\ AliasesOf(h) \subseteq Aliases
         /\ AliasesOf(h) # {} => First(h) \in AliasesOf(h)
         /\ \A a \in Aliases : a \in AliasesOf(h) <=> a \in {h.remote, h.name, h.path}
  <1>1. h \in AllHints
    BY RegistryAssumption DEF RegistryAssumption
  <1>2. /\ h.remote \in Remotes \cup {None}
        /\ h.name \in Names \cup {None}
        /\ h.path \in Paths \cup {None}
    BY <1>1 DEF AllHints
  <1>3. AliasesOf(h) # {} => ~(h.remote = None /\ h.name = None /\ h.path = None)
    BY DEF AliasesOf
  <1>4. AliasesOf(h) \subseteq Aliases /\ (AliasesOf(h) # {} => First(h) \in AliasesOf(h))
    BY <1>2, <1>3, BoundTypes DEF AliasesOf, First, Aliases
  <1>5. \A a \in Aliases : a \in AliasesOf(h) <=> a \in {h.remote, h.name, h.path}
    BY BoundTypes DEF AliasesOf
  <1>. QED BY <1>2, <1>4, <1>5

\* Aliases are bound, and never bound again.
Binds(A, p) ==
    /\ \A a \in Aliases : alias[a] # None => alias'[a] = alias[a]
    /\ \A a \in Aliases \ A : alias'[a] = alias[a]
    /\ \A a \in A : a \in Aliases => alias'[a] # None
    /\ \A a \in Aliases : alias[a] = None => alias'[a] \in {None, p}

LEMMA BoundOnce ==
  ASSUME TypeOK, NEW A, NEW p \in Ids \cup {BadId}, alias' = Bound(A, p)
  PROVE  Binds(A, p) /\ alias' \in [Aliases -> Ids \cup {BadId, None}]
  BY BoundTypes DEF Bound, Binds, TypeOK
-----------------------------------------------------------------------------
(* Type correctness.                                                       *)

LEMMA InitType == Init => TypeInv
  <1>. SUFFICES ASSUME Init PROVE TypeInv
    OBVIOUS
  <1>1. 0 \in 0..MaxAsks /\ 0 \in 0..MaxFails
    BY BoundTypes
  <1>2. TypeOK
    BY <1>1 DEF Init, TypeOK
  <1>3. References /\ InFlight
    BY DEF Init, References, InFlight, Looking
  <1>. QED BY <1>2, <1>3 DEF TypeInv

\* What the end of a request does to it.
LEMMA LeaveType ==
  ASSUME TypeInv, NEW q \in Requests, Leave(q), projects' = projects
  PROVE  /\ pc' \in [Requests -> Places]
         /\ hints' \in [Requests -> Hints \cup {None}]
         /\ mirrors' \in [Requests -> SUBSET Remotes]
         /\ todo' \in [Requests -> SUBSET Aliases]
         /\ found' \in [Requests -> Ids \cup {None}]
         /\ known' \in [Requests -> Ids \cup {BadId, None}]
         /\ late' \in [Requests -> BOOLEAN]
         /\ clean' \in [Requests -> BOOLEAN]
         /\ crossed' \in [Requests -> BOOLEAN]
         /\ \A r \in Requests : found'[r] # None => found'[r] \in projects'
         /\ InFlight'
  <1>1. /\ pc' \in [Requests -> Places]
        /\ hints' \in [Requests -> Hints \cup {None}]
        /\ mirrors' \in [Requests -> SUBSET Remotes]
        /\ todo' \in [Requests -> SUBSET Aliases]
        /\ found' \in [Requests -> Ids \cup {None}]
        /\ known' \in [Requests -> Ids \cup {BadId, None}]
        /\ late' \in [Requests -> BOOLEAN]
        /\ clean' \in [Requests -> BOOLEAN]
        /\ crossed' \in [Requests -> BOOLEAN]
    BY DEF Leave, TypeInv, TypeOK, Places
  <1>2. InFlight'
    BY DEF Leave, TypeInv, TypeOK, InFlight, Looking
  <1>3. \A r \in Requests : found'[r] # None => found'[r] \in projects'
    BY DEF Leave, TypeInv, TypeOK
  <1>. QED BY <1>1, <1>2, <1>3

LEMMA AskType ==
  ASSUME TypeInv, NEW q \in Requests, NEW h \in Hints, NEW M \in SUBSET Remotes, Ask(q, h, M)
  PROVE  TypeInv'
  <1>1. /\ known'[q] \in Ids \cup {BadId, None}
        /\ known' = [known EXCEPT ![q] = known'[q]]
        /\ late' = [late EXCEPT ![q] = late'[q]] /\ late'[q] \in BOOLEAN
    BY HintTypes DEF Ask, TypeInv, TypeOK, Aliases
  <1>2. asks' \in 0..MaxAsks /\ crossed' \in [Requests -> BOOLEAN]
    <2>1. \A r \in Requests : crossed'[r] \in BOOLEAN
      BY DEF Ask, TypeInv, TypeOK
    <2>2. crossed' = [r \in Requests |-> crossed'[r]]
      BY DEF Ask
    <2>3. asks' \in 0..MaxAsks
      BY BoundTypes DEF Ask, TypeInv, TypeOK
    <2>. QED BY <2>1, <2>2, <2>3
  <1>3. TypeOK'
    BY <1>1, <1>2 DEF Ask, TypeInv, TypeOK
  <1>4. References' /\ InFlight'
    BY <1>1 DEF Ask, TypeInv, TypeOK, References, InFlight, Looking
  <1>. QED BY <1>3, <1>4 DEF TypeInv

\* A query that finds a project finds one there is.
LEMMA FindType ==
  ASSUME TypeInv, NEW q \in Requests, NEW k \in {"remote", "name", "path"}, Find(q, k)
  PROVE  TypeInv'
  <1>1. hints[q] \in Hints /\ pc[q] = k
    BY DEF Find, TypeInv, InFlight
  <1>2. CASE Found(hints[q][k])
    <2>1. alias[hints[q][k]] \in projects
      BY <1>2 DEF Found
    <2>2. found' = [found EXCEPT ![q] = alias[hints[q][k]]]
          /\ todo' = [todo EXCEPT ![q] = AliasesOf(hints[q])]
          /\ pc' = [pc EXCEPT ![q] = "bind"]
      BY <1>2 DEF Find
    <2>3. AliasesOf(hints[q]) \subseteq Aliases
      BY <1>1, HintTypes
    <2>4. TypeOK'
      BY <2>1, <2>2, <2>3 DEF Find, TypeInv, TypeOK, obsVars
    <2>5. References' /\ InFlight'
      BY <1>1, <2>1, <2>2 DEF Find, TypeInv, TypeOK, References, InFlight, Looking, obsVars
    <2>. QED BY <2>4, <2>5 DEF TypeInv
  <1>3. CASE ~Found(hints[q][k])
    <2>1. pc' = [pc EXCEPT ![q] = Order[k]] /\ UNCHANGED <<found, todo>>
      BY <1>3 DEF Find
    <2>2. Order[k] \in {"name", "path", "mint"}
      BY DEF Order
    <2>3. TypeOK'
      BY <2>1, <2>2 DEF Find, TypeInv, TypeOK, obsVars
    <2>4. References' /\ InFlight'
      BY <1>1, <2>1, <2>2 DEF Find, TypeInv, TypeOK, References, InFlight, Looking, obsVars
    <2>. QED BY <2>3, <2>4 DEF TypeInv
  <1>. QED BY <1>2, <1>3

LEMMA MintType ==
  ASSUME TypeInv, NEW q \in Requests, Mint(q)
  PROVE  TypeInv'
  <1>1. PICK p \in Ids \ projects :
          /\ projects' = projects \cup {p}
          /\ alias' = Bound(AliasesOf(hints[q]), p)
          /\ found' = [found EXCEPT ![q] = p]
          /\ astray' = IF Strays(q) THEN astray \cup {p} ELSE astray
    BY DEF Mint
  <1>2. Binds(AliasesOf(hints[q]), p) /\ alias' \in [Aliases -> Ids \cup {BadId, None}]
    BY <1>1, BoundOnce DEF TypeInv
  <1>3. TypeOK'
    BY <1>1, <1>2 DEF Mint, TypeInv, TypeOK, obsVars
  <1>4. References'
    BY <1>1, <1>2 DEF TypeInv, References, Binds
  <1>5. InFlight'
    BY <1>1 DEF Mint, TypeInv, TypeOK, InFlight, Looking, obsVars
  <1>. QED BY <1>3, <1>4, <1>5 DEF TypeInv

\* A statement that binds an alias to a project, of a request past its queries.
LEMMA BindType ==
  ASSUME TypeInv, NEW q \in Requests, NEW a \in Aliases,
         Bind(q, a) \/ BindFails(q, a) \/ (a \in Remotes /\ Attach(q, a))
  PROVE  TypeInv'
  <1>1. found[q] \in projects /\ found[q] \in Ids /\ pc[q] \in {"bind", "attach"}
    BY DEF Bind, BindFails, Attach, TypeInv, TypeOK, InFlight
  <1>2. alias' \in [Aliases -> Ids \cup {BadId, None}] /\ References'
    <2>1. CASE UNCHANGED <<alias, projects>>
      BY <2>1 DEF TypeInv, TypeOK, References
    <2>2. CASE alias' = Bound({a}, found[q]) /\ projects' = projects
      BY <1>1, <2>2, BoundOnce DEF TypeInv, References, Binds
    <2>. QED BY <2>1, <2>2 DEF Bind, BindFails, Attach
  <1>3. /\ pc' \in [Requests -> Places]
        /\ \A r \in Requests : pc'[r] = pc[r] \/ (r = q /\ pc'[r] \in {"bind", "attach"})
    BY <1>1 DEF Bind, BindFails, Attach, TypeInv, TypeOK, Places
  <1>4. fails' \in 0..MaxFails /\ clean' \in [Requests -> BOOLEAN]
    <2>1. CASE UNCHANGED <<fails, clean>>
      BY <2>1 DEF TypeInv, TypeOK
    <2>2. CASE fails < MaxFails /\ fails' = fails + 1 /\ clean' = [clean EXCEPT ![q] = FALSE]
      BY <2>2, BoundTypes DEF TypeInv, TypeOK
    <2>. QED BY <2>1, <2>2 DEF Bind, BindFails, Attach, obsVars
  <1>5. todo' \in [Requests -> SUBSET Aliases] /\ mirrors' \in [Requests -> SUBSET Remotes]
    BY DEF Bind, BindFails, Attach, TypeInv, TypeOK
  <1>6. UNCHANGED <<projects, hints, found, asks, known, late, settled, answers, crossed, astray>>
    BY DEF Bind, BindFails, Attach, obsVars
  <1>7. TypeOK'
    BY <1>2, <1>3, <1>4, <1>5, <1>6 DEF TypeInv, TypeOK, Places
  <1>8. InFlight'
    BY <1>1, <1>3, <1>6 DEF TypeInv, InFlight, Looking
  <1>. QED BY <1>2, <1>7, <1>8 DEF TypeInv

LEMMA TypeStep == TypeInv /\ [Next]_vars => TypeInv'
  <1>. SUFFICES ASSUME TypeInv, [Next]_vars PROVE TypeInv'
    OBVIOUS
  <1>1. ASSUME NEW q \in Requests, Answer(q) PROVE TypeInv'
    <2>1. hints[q] \in Hints /\ found[q] \in Ids
      BY <1>1 DEF Answer, TypeInv, TypeOK, InFlight
    <2>2. settled' \subseteq Hints
      BY <1>1, <2>1 DEF Answer, TypeInv, TypeOK
    <2>3. answers' \in [Hints -> SUBSET Ids]
      BY <1>1, <2>1 DEF Answer, TypeInv, TypeOK
    <2>4. TypeOK'
      BY <1>1, <2>2, <2>3, LeaveType DEF Answer, TypeInv, TypeOK, Places
    <2>. QED BY <1>1, <2>4, LeaveType DEF Answer, TypeInv, References
  <1>2. ASSUME NEW q \in Requests, Fail(q) PROVE TypeInv'
    <2>1. fails' \in 0..MaxFails
      BY <1>2, BoundTypes DEF Fail, TypeInv, TypeOK
    <2>2. TypeOK'
      BY <1>2, <2>1, LeaveType DEF Fail, TypeInv, TypeOK, Places
    <2>. QED BY <1>2, <2>2, LeaveType DEF Fail, TypeInv, References
  <1>3. ASSUME NEW p \in Ids \cup {BadId}, NEW a \in Aliases, AddAlias(p, a) PROVE TypeInv'
    <2>1. Binds({a}, p) /\ alias' \in [Aliases -> Ids \cup {BadId, None}]
      BY <1>3, BoundOnce DEF AddAlias, TypeInv
    <2>2. asks' \in 0..MaxAsks /\ crossed' \in [Requests -> BOOLEAN]
      BY <1>3, BoundTypes DEF AddAlias, TypeInv, TypeOK
    <2>3. TypeOK'
      BY <1>3, <2>1, <2>2 DEF AddAlias, TypeInv, TypeOK, requestVars
    <2>4. References'
      BY <1>3, <2>1 DEF AddAlias, TypeInv, References, Binds
    <2>5. InFlight'
      BY <1>3 DEF AddAlias, TypeInv, InFlight, requestVars
    <2>. QED BY <2>3, <2>4, <2>5 DEF TypeInv
  <1>4. CASE UNCHANGED vars
    BY <1>4 DEF vars, requestVars, obsVars, TypeInv, TypeOK, References, InFlight
  <1>. QED BY <1>1, <1>2, <1>3, <1>4, AskType, FindType, MintType, BindType
           DEF Next, Aliases

\* registry.go: the tables and the requests at them are well typed, and whatever
\* an alias says, a request is about a project that there is.
THEOREM TypeCorrect == Spec => []TypeOK
  <1>1. TypeInv => TypeOK
    BY DEF TypeInv
  <1>. QED BY <1>1, InitType, TypeStep, PTL DEF Spec
-----------------------------------------------------------------------------
(* What a step leaves as it was.                                           *)

\* An alias that is bound stays with its id.
Stays == \A a \in Aliases : alias[a] # None => alias'[a] = alias[a]

LEMMA NextStays == TypeInv /\ [Next]_vars => Stays
  <1>. SUFFICES ASSUME TypeInv, [Next]_vars PROVE Stays
    OBVIOUS
  <1>1. CASE alias' = alias
    BY <1>1 DEF Stays
  <1>2. ASSUME NEW A, NEW p, alias' = Bound(A, p) PROVE Stays
    BY <1>2 DEF Stays, Bound
  <1>. QED BY <1>1, <1>2
           DEF Next, vars, Ask, Find, Mint, Bind, BindFails, Attach, Answer, Fail, AddAlias

\* Whether hints are sound is lost, never won.
LEMMA SoundBefore ==
  ASSUME TypeInv, Stays, NEW h \in Hints, Sound(h)'
  PROVE  Sound(h)
  BY HintTypes, BoundTypes DEF Stays, Sound

\* A request that does not take the step knows what it knew.
LEMMA StillKnows ==
  ASSUME TypeInv, Stays, SettledBound, settled \subseteq settled', NEW q \in Requests, Knows(q),
         pc'[q] = pc[q], hints'[q] = hints[q], todo'[q] = todo[q], found'[q] = found[q],
         known'[q] = known[q], late'[q] = late[q], clean'[q] = clean[q]
  PROVE  Knows(q)'
  <1>. DEFINE h == hints[q]
  <1>1. CASE pc[q] = "idle"
    BY <1>1 DEF TypeInv, InFlight, Knows, Remembers, BindsAll, Finds
  <1>2. CASE pc[q] # "idle"
    <2>1. h \in Hints
      BY <1>2 DEF TypeInv, InFlight
    <2>2. Remembers(q)'
      BY <2>1, HintTypes DEF Knows, Remembers, Stays, Aliases
    <2>3. BindsAll(q)'
      BY <2>1, HintTypes, BoundTypes DEF Knows, BindsAll, Stays, TypeInv, TypeOK
    <2>4. Finds(q)'
      <3>. SUFFICES ASSUME late[q]
                    PROVE  /\ h \in settled'
                           /\ Sound(h)' =>
                                /\ pc[q] \in {"name", "path"} => h.remote = None
                                /\ pc[q] = "path" => h.name = None
                                /\ pc[q] # "mint"
                                /\ found[q] # None => found[q] = alias'[First(h)]
        BY DEF Finds
      <3>1. h \in settled
        BY DEF Knows, Finds
      <3>2. AliasesOf(h) # {} => alias'[First(h)] = alias[First(h)]
        BY <2>1, <3>1, HintTypes DEF SettledBound, Stays
      <3>3. Sound(h)' => Sound(h) /\ AliasesOf(h) # {}
        BY <2>1, SoundBefore DEF Sound
      <3>. QED BY <3>1, <3>2, <3>3 DEF Knows, Finds
    <2>. QED BY <2>2, <2>3, <2>4 DEF Knows
  <1>. QED BY <1>1, <1>2

LEMMA StillSettled ==
  ASSUME TypeInv, Stays, SettledBound, OneAnswer, UNCHANGED <<settled, answers>>
  PROVE  SettledBound' /\ OneAnswer'
  <1>1. ASSUME NEW h \in settled, NEW a \in AliasesOf(h) PROVE alias'[a] = alias[a] /\ alias[a] # None
    BY HintTypes DEF SettledBound, Stays, TypeInv, TypeOK
  <1>2. SettledBound'
    BY <1>1 DEF SettledBound
  <1>3. ASSUME NEW h \in Hints, answers[h] # {}
        PROVE  h \in settled /\ (Sound(h)' => answers[h] \subseteq {alias'[First(h)]})
    <2>1. h \in settled
      BY <1>3 DEF OneAnswer
    <2>2. AliasesOf(h) # {} => alias'[First(h)] = alias[First(h)]
      BY <2>1, <1>1, HintTypes
    <2>3. Sound(h)' => Sound(h) /\ AliasesOf(h) # {}
      BY <1>3, SoundBefore DEF Sound
    <2>. QED BY <1>3, <2>1, <2>2, <2>3 DEF OneAnswer
  <1>. QED BY <1>2, <1>3 DEF OneAnswer

LEMMA StillReached ==
  ASSUME TypeInv, Stays, OrphansByRace, projects' = projects, astray' = astray
  PROVE  OrphansByRace'
  BY BoundTypes DEF OrphansByRace, Stays, TypeInv, TypeOK

\* What a request missed it has still missed if nobody binds one of its aliases.
LEMMA StillMissed ==
  ASSUME TypeInv, NEW q \in Requests, pc[q] # "idle", Missed(q),
         pc'[q] = pc[q], hints'[q] = hints[q],
         \A a \in LooksUp(q) : alias'[a] = alias[a],
         \A p \in projects' \ projects : \A a \in Aliases : alias[a] # p
  PROVE  Missed(q)'
  <1>. DEFINE h == hints[q]
  <1>1. h \in Hints
    BY DEF TypeInv, InFlight
  <1>2. ASSUME NEW a \in {h.remote, h.name, h.path}, ~Found(a) PROVE ~Found(a)'
    <2>1. a # None => a \in Aliases /\ a \in LooksUp(q)
      BY <1>1, HintTypes DEF LooksUp, AliasesOf, Aliases
    <2>. QED BY <1>2, <2>1 DEF Found
  <1>. QED BY <1>2 DEF Missed

\* Nobody is crossed by a step of a request that takes on no alias.
LEMMA StillAlone ==
  ASSUME TypeInv, Alone, NEW q \in Requests, pc[q] # "idle",
         \A r \in Requests : r # q =>
             /\ pc'[r] = pc[r] /\ hints'[r] = hints[r]
             /\ mirrors'[r] = mirrors[r] /\ crossed'[r] = crossed[r],
         LooksUp(q)' \subseteq LooksUp(q), mirrors'[q] \subseteq mirrors[q],
         \A a \in Aliases \ MayBind(q) : alias'[a] = alias[a],
         \A p \in projects' \ projects : \A a \in Aliases : alias[a] # p,
         pc'[q] = "idle" \/ (crossed'[q] = crossed[q] /\ (~crossed[q] => Missed(q)'))
  PROVE  Alone'
  <1>1. \A r \in Requests : LooksUp(r)' \subseteq LooksUp(r) /\ MayBind(r)' \subseteq MayBind(r)
    BY DEF LooksUp, MayBind
  <1>2. ASSUME NEW r \in Requests, pc'[r] # "idle", ~crossed'[r]
        PROVE  Apart(r)' /\ Missed(r)'
    <2>1. pc[r] # "idle" /\ ~crossed[r] /\ Apart(r) /\ Missed(r)
      BY <1>2 DEF Alone
    <2>2. Apart(r)'
      BY <1>1, <2>1 DEF Apart
    <2>3. CASE r = q
      BY <1>2, <2>1, <2>2, <2>3
    <2>4. CASE r # q
      <3>1. hints[r] \in Hints /\ LooksUp(r) \subseteq Aliases
        BY <2>1, HintTypes DEF TypeInv, InFlight, LooksUp
      <3>2. \A a \in LooksUp(r) : alias'[a] = alias[a]
        BY <2>1, <2>4, <3>1 DEF Apart
      <3>. QED BY <2>1, <2>2, <2>4, <3>2, StillMissed
    <2>. QED BY <2>3, <2>4
  <1>. QED BY <1>2 DEF Alone
-----------------------------------------------------------------------------
(* Every step.                                                             *)

LEMMA InitRegistry == Init => RegistryInv
  BY DEF Init, RegistryInv, Knows, Remembers, BindsAll, Finds, SettledBound, OneAnswer, Alone,
     Learns, OrphansByRace

\* A request that comes in knows the project of its remote as it is.
LEMMA AskInv ==
  ASSUME TypeInv, RegistryInv, Stays,
         NEW q \in Requests, NEW h \in Hints, NEW M \in SUBSET Remotes, Ask(q, h, M)
  PROVE  RegistryInv'
  <1>1. \A r \in Requests : r # q => Knows(r)'
    BY StillKnows DEF Ask, RegistryInv, TypeInv, TypeOK
  <1>2. /\ pc'[q] = "remote" /\ hints'[q] = h /\ alias' = alias /\ found'[q] = None
        /\ known'[q] = (IF h.remote = None THEN None ELSE alias[h.remote])
        /\ late'[q] = (h \in settled) /\ settled' = settled
    BY DEF Ask, TypeInv, TypeOK, InFlight
  <1>3. Knows(q)'
    BY <1>2 DEF Knows, Remembers, BindsAll, Finds
  <1>4. SettledBound' /\ OneAnswer'
    BY StillSettled DEF Ask, RegistryInv
  <1>5. Alone'
    <2>1. \A r \in Requests : r # q =>
            pc'[r] = pc[r] /\ hints'[r] = hints[r] /\ mirrors'[r] = mirrors[r]
      BY DEF Ask, TypeInv, TypeOK
    <2>2. LooksUp(q)' = AliasesOf(h) /\ MayBind(q)' = AliasesOf(h) \cup M
      BY <1>2 DEF Ask, LooksUp, MayBind, TypeInv, TypeOK
    <2>3. \A r \in Requests : r # q => LooksUp(r)' = LooksUp(r) /\ MayBind(r)' = MayBind(r)
      BY <2>1 DEF LooksUp, MayBind
    <2>4. /\ crossed'[q] <=> \E o \in Requests : AliasesOf(h) \cap MayBind(o) # {}
          /\ \A r \in Requests : r # q =>
               (crossed'[r] <=> crossed[r] \/ LooksUp(r) \cap (AliasesOf(h) \cup M) # {})
      BY DEF Ask
    <2>5. ASSUME NEW r \in Requests, pc'[r] # "idle", ~crossed'[r] PROVE Apart(r)' /\ Missed(r)'
      <3>1. CASE r = q
        <4>1. Apart(q)'
          BY <2>2, <2>3, <2>4, <2>5, <3>1 DEF Apart
        <4>2. Missed(q)'
          BY <1>2 DEF Missed
        <4>. QED BY <3>1, <4>1, <4>2
      <3>2. CASE r # q
        <4>1. ~crossed[r] /\ LooksUp(r) \cap MayBind(q)' = {} /\ pc[r] # "idle"
          BY <2>1, <2>2, <2>4, <2>5, <3>2
        <4>2. Apart(r) /\ Missed(r)
          BY <4>1 DEF RegistryInv, Alone
        <4>3. Apart(r)'
          BY <2>2, <2>3, <3>2, <4>1, <4>2 DEF Apart
        <4>4. Missed(r)'
          BY <2>1, <3>2, <4>1, <4>2, StillMissed DEF Ask
        <4>. QED BY <4>3, <4>4
      <3>. QED BY <3>1, <3>2
    <2>. QED BY <2>5 DEF Alone
  <1>6. OrphansByRace'
    BY StillReached DEF Ask, RegistryInv
  <1>7. Learns'
    BY DEF Ask, RegistryInv, Learns, LooksUp, TypeInv, TypeOK
  <1>. QED BY <1>1, <1>3, <1>4, <1>5, <1>6, <1>7 DEF RegistryInv

\* Hints that are settled are found under their strongest signal, whichever
\* request bound it.
LEMMA SettledFound ==
  ASSUME TypeInv, RegistryInv, NEW h \in settled, Sound(h), NEW a \in AliasesOf(h)
  PROVE  Found(a)
  <1>1. h \in Hints /\ a \in Aliases
    BY HintTypes DEF TypeInv, TypeOK
  <1>. QED BY <1>1, BoundTypes DEF RegistryInv, SettledBound, Sound, TypeInv, References, Found

LEMMA FindInv ==
  ASSUME TypeInv, RegistryInv, Stays,
         NEW q \in Requests, NEW k \in {"remote", "name", "path"}, Find(q, k)
  PROVE  RegistryInv'
  <1>. DEFINE h == hints[q]
              signal == h[k]
  <1>1. h \in Hints /\ pc[q] = k /\ found[q] = None /\ Knows(q)
    BY DEF Find, TypeInv, InFlight, Looking, RegistryInv
  <1>2. UNCHANGED <<projects, alias, hints, known, late, clean, settled, answers, crossed, astray>>
    BY DEF Find, obsVars
  <1>3. \A r \in Requests : r # q => Knows(r)'
    BY StillKnows DEF Find, obsVars, RegistryInv, TypeInv, TypeOK
  <1>4. SettledBound' /\ OneAnswer'
    BY <1>2, StillSettled DEF RegistryInv
  <1>5. OrphansByRace'
    BY <1>2, StillReached DEF RegistryInv
  <1>6. /\ \A r \in Requests : r # q => pc'[r] = pc[r]
        /\ UNCHANGED mirrors /\ LooksUp(q)' \subseteq LooksUp(q)
    BY <1>1, <1>2 DEF Find, LooksUp, TypeInv, TypeOK
  <1>7. CASE Found(signal)
    <2>1. found'[q] = alias[signal] /\ todo'[q] = AliasesOf(h) /\ pc'[q] = "bind"
      BY <1>7 DEF Find, TypeInv, TypeOK
    <2>2. signal # None /\ alias[signal] \in projects
      BY <1>7 DEF Found
    <2>3. Remembers(q)'
      <3>. SUFFICES ASSUME known[q] # None, known[q] # BadId PROVE found'[q] = known[q]
        BY <1>1, <1>2, <2>1 DEF Knows, Remembers
      <3>1. k = "remote"
        BY <1>1 DEF Knows, Remembers
      <3>. QED BY <1>1, <2>1, <3>1 DEF Knows, Remembers
    <2>4. BindsAll(q)'
      BY <1>2, <2>1 DEF BindsAll
    <2>5. Finds(q)'
      <3>. SUFFICES ASSUME late[q], Sound(h) PROVE found'[q] = alias[First(h)]
        BY <1>1, <1>2, <2>1 DEF Knows, Finds, Sound
      <3>1. signal = First(h)
        BY <1>1, <2>2 DEF Knows, Finds, First
      <3>. QED BY <2>1, <3>1
    <2>6. Alone'
      <3>1. Missed(q)' /\ pc'[q] # "idle"
        BY <2>1 DEF Missed
      <3>. QED BY <1>1, <1>2, <1>6, <3>1, StillAlone DEF RegistryInv
    <2>7. Learns'
      BY <1>1, <1>2, <2>1 DEF Find, RegistryInv, Learns, LooksUp, TypeInv, TypeOK
    <2>. QED BY <1>3, <1>4, <1>5, <2>3, <2>4, <2>5, <2>6, <2>7 DEF RegistryInv, Knows
  <1>8. CASE ~Found(signal)
    <2>1. pc' = [pc EXCEPT ![q] = Order[k]] /\ UNCHANGED <<found, todo>>
      BY <1>8 DEF Find
    <2>2. /\ k = "remote" => Order[k] = "name"
          /\ k = "name" => Order[k] = "path"
          /\ k = "path" => Order[k] = "mint"
      BY DEF Order
    <2>3. pc'[q] = Order[k]
      BY <2>1 DEF TypeInv, TypeOK
    <2>4. Remembers(q)'
      <3>. SUFFICES ASSUME known[q] # None PROVE known[q] = BadId
        BY <1>1, <1>2, <2>1 DEF Knows, Remembers
      <3>1. h.remote \in Aliases /\ alias[h.remote] = known[q]
        BY <1>1, HintTypes DEF Knows, Remembers, Aliases
      <3>2. CASE k = "remote"
        BY <1>8, <3>1, <3>2, BoundTypes DEF Found, TypeInv, References
      <3>3. CASE k # "remote"
        BY <1>1, <3>3 DEF Knows, Remembers
      <3>. QED BY <3>2, <3>3
    <2>5. BindsAll(q)'
      BY <2>2, <2>3 DEF BindsAll
    <2>6. Finds(q)'
      <3>1. h.remote # None => h.remote \in AliasesOf(h)
        BY DEF AliasesOf
      <3>2. h.name # None => h.name \in AliasesOf(h)
        BY DEF AliasesOf
      <3>3. late[q] /\ Sound(h) => signal \notin AliasesOf(h)
        BY <1>1, <1>8, SettledFound DEF Knows, Finds
      <3>4. late[q] /\ Sound(h) /\ k = "path" => h.path = None /\ h.remote = None /\ h.name = None
        BY <1>1, <3>3 DEF Knows, Finds, AliasesOf
      <3>5. ~(late[q] /\ Sound(h) /\ k = "path")
        BY <3>4 DEF AliasesOf, Sound
      <3>. QED BY <1>1, <1>2, <2>1, <2>2, <2>3, <3>1, <3>2, <3>3, <3>5 DEF Knows, Finds, Sound
    <2>7. Alone'
      <3>1. ~crossed[q] => Missed(q)
        BY <1>1 DEF RegistryInv, Alone
      <3>2. \A a : Found(a)' <=> Found(a)
        BY <1>2 DEF Found
      <3>3. ~crossed[q] => Missed(q)'
        BY <1>1, <1>2, <1>8, <2>2, <2>3, <3>1, <3>2 DEF Missed
      <3>. QED BY <1>1, <1>2, <1>6, <3>3, StillAlone DEF RegistryInv
    <2>8. Learns'
      BY <1>1, <1>2, <1>6, <2>1, <2>2, <2>3 DEF RegistryInv, Learns, LooksUp
    <2>. QED BY <1>3, <1>4, <1>5, <2>4, <2>5, <2>6, <2>7, <2>8 DEF RegistryInv, Knows
  <1>. QED BY <1>7, <1>8

\* A project is minted by a request that knew none.  Its aliases are all bound
\* then, and if it was alone they are its own.
LEMMA MintInv ==
  ASSUME TypeInv, RegistryInv, Stays, NEW q \in Requests, Mint(q)
  PROVE  RegistryInv'
  <1>. DEFINE h == hints[q]
  <1>1. PICK p \in Ids \ projects :
          /\ projects' = projects \cup {p}
          /\ alias' = Bound(AliasesOf(h), p)
          /\ found' = [found EXCEPT ![q] = p]
          /\ astray' = IF Strays(q) THEN astray \cup {p} ELSE astray
    BY DEF Mint
  <1>2. astray \subseteq astray' /\ (Strays(q) => p \in astray')
    BY <1>1
  <1>3. h \in Hints /\ pc[q] = "mint" /\ pc'[q] = "attach" /\ found'[q] = p /\ Knows(q)
    BY <1>1 DEF Mint, TypeInv, TypeOK, InFlight, RegistryInv
  <1>4. UNCHANGED <<hints, known, late, clean, settled, answers, crossed>>
    BY DEF Mint
  <1>5. Binds(AliasesOf(h), p)
    BY <1>1, BoundOnce DEF TypeInv
  <1>6. \A r \in Requests : r # q => Knows(r)'
    BY <1>1, StillKnows DEF Mint, obsVars, RegistryInv, TypeInv, TypeOK
  <1>7. SettledBound' /\ OneAnswer'
    BY <1>4, StillSettled DEF RegistryInv
  <1>8. Remembers(q)'
    BY <1>3, <1>4, HintTypes DEF Knows, Remembers, Stays, Aliases
  <1>9. BindsAll(q)'
    BY <1>3, <1>4, <1>5, HintTypes DEF BindsAll, Binds
  <1>10. Finds(q)'
    BY <1>3, <1>4, SoundBefore DEF Knows, Finds
  <1>11. Alone'
    <2>1. /\ \A r \in Requests : r # q => pc'[r] = pc[r]
          /\ UNCHANGED mirrors /\ LooksUp(q)' = LooksUp(q) /\ LooksUp(q) = AliasesOf(h)
      BY <1>3, <1>4 DEF Mint, LooksUp, TypeInv, TypeOK
    <2>2. \A a \in Aliases \ MayBind(q) : alias'[a] = alias[a]
      BY <1>5, <2>1 DEF Binds, MayBind
    <2>3. \A o \in projects' \ projects : \A a \in Aliases : alias[a] # o
      BY <1>1, BoundTypes DEF TypeInv, References
    <2>4. Missed(q)' /\ pc'[q] # "idle"
      BY <1>3 DEF Missed
    <2>. QED BY <1>3, <1>4, <2>1, <2>2, <2>3, <2>4, StillAlone DEF RegistryInv
  <1>12. OrphansByRace'
    <2>. SUFFICES ASSUME NEW o \in projects' \ astray'
                  PROVE  \E a \in Aliases : alias'[a] = o
      BY DEF OrphansByRace
    <2>1. CASE o \in projects
      <3>1. PICK a \in Aliases : alias[a] = o
        BY <1>2, <2>1 DEF RegistryInv, OrphansByRace
      <3>. QED BY <2>1, <3>1, BoundTypes DEF Stays, TypeInv, TypeOK
    <2>2. CASE o = p
      <3>1. ~Strays(q)
        BY <1>2, <2>2
      <3>2. PICK a \in AliasesOf(h) : alias[a] # BadId
        BY <3>1 DEF Strays
      <3>3. a \in Aliases /\ a \in {h.remote, h.name, h.path} /\ a # None
        BY <1>3, HintTypes DEF AliasesOf
      <3>4. Missed(q)
        BY <1>3, <3>1 DEF Strays, RegistryInv, Alone
      <3>5. ~Found(a)
        BY <1>3, <3>3, <3>4 DEF Missed
      <3>6. alias[a] = None
        BY <3>2, <3>3, <3>5 DEF Found, TypeInv, References
      <3>. QED BY <1>5, <2>2, <3>3, <3>6 DEF Binds
    <2>. QED BY <1>1, <2>1, <2>2
  <1>13. Learns'
    BY <1>3, <1>4 DEF Mint, RegistryInv, Learns, LooksUp, TypeInv, TypeOK
  <1>. QED BY <1>6, <1>7, <1>8, <1>9, <1>10, <1>11, <1>12, <1>13 DEF RegistryInv, Knows

\* A request that binds what it has learned, or ignores that it could not.
LEMMA BindInv ==
  ASSUME TypeInv, RegistryInv, Stays, NEW q \in Requests, NEW a \in Aliases,
         Bind(q, a) \/ BindFails(q, a) \/ (a \in Remotes /\ Attach(q, a))
  PROVE  RegistryInv'
  <1>. DEFINE h == hints[q]
  <1>1. /\ pc[q] \in {"bind", "attach"} /\ pc'[q] \in {"bind", "attach"}
        /\ h \in Hints /\ found[q] \in Ids /\ Knows(q)
    BY DEF Bind, BindFails, Attach, TypeInv, TypeOK, InFlight, RegistryInv
  <1>2. UNCHANGED <<projects, hints, found, known, late, settled, answers, crossed, astray>>
    BY DEF Bind, BindFails, Attach, obsVars
  <1>3. \A r \in Requests : r # q =>
          pc'[r] = pc[r] /\ todo'[r] = todo[r] /\ clean'[r] = clean[r]
    BY DEF Bind, BindFails, Attach, obsVars, TypeInv, TypeOK
  <1>4. \A r \in Requests : r # q => Knows(r)'
    BY <1>2, <1>3, StillKnows DEF RegistryInv
  <1>5. SettledBound' /\ OneAnswer' /\ OrphansByRace'
    BY <1>2, StillSettled, StillReached DEF RegistryInv
  <1>6. Alone'
    <2>1. LooksUp(q)' = LooksUp(q) /\ mirrors'[q] \subseteq mirrors[q]
          /\ \A r \in Requests : r # q => mirrors'[r] = mirrors[r]
      BY <1>1, <1>2 DEF Bind, BindFails, Attach, LooksUp, TypeInv, TypeOK
    <2>2. \A b \in Aliases \ MayBind(q) : alias'[b] = alias[b]
      <3>1. todo[q] \subseteq MayBind(q) /\ mirrors[q] \subseteq MayBind(q)
        BY DEF RegistryInv, Learns, MayBind
      <3>2. \A b \in Aliases : b # a => alias'[b] = alias[b]
        BY <1>1, BoundOnce DEF Bind, BindFails, Attach, Binds, TypeInv
      <3>3. a \in MayBind(q)
        BY <3>1 DEF Bind, BindFails, Attach
      <3>. QED BY <3>2, <3>3
    <2>3. Missed(q)' /\ pc'[q] # "idle"
      BY <1>1 DEF Missed
    <2>. QED BY <1>1, <1>2, <1>3, <2>1, <2>2, <2>3, StillAlone DEF RegistryInv
  <1>7. Learns'
    BY <1>1, <1>2, <1>3 DEF Bind, BindFails, Attach, RegistryInv, Learns, LooksUp, TypeInv, TypeOK
  <1>8. Remembers(q)'
    BY <1>1, <1>2, HintTypes DEF Knows, Remembers, Stays, Aliases
  <1>9. Finds(q)'
    <2>. SUFFICES ASSUME late[q]
                  PROVE  h \in settled /\ (Sound(h)' => found[q] = alias'[First(h)])
      BY <1>1, <1>2 DEF Finds, Sound
    <2>1. h \in settled
      BY <1>1 DEF Knows, Finds
    <2>2. AliasesOf(h) # {} => alias'[First(h)] = alias[First(h)]
      BY <1>1, <2>1, HintTypes DEF RegistryInv, SettledBound, Stays
    <2>3. Sound(h)' => Sound(h) /\ AliasesOf(h) # {}
      BY <1>1, <1>2, HintTypes, BoundTypes DEF Stays, Sound
    <2>4. found[q] # None
      BY <1>1, BoundTypes
    <2>. QED BY <1>1, <2>1, <2>2, <2>3, <2>4 DEF Knows, Finds
  <1>10. BindsAll(q)'
    <2>. SUFFICES ASSUME clean'[q], NEW b \in AliasesOf(h), alias'[b] = None
                  PROVE  pc'[q] = "bind" /\ b \in todo'[q]
      BY <1>2 DEF BindsAll
    <2>1. b \in Aliases /\ alias[b] = None
      BY <1>1, HintTypes DEF Stays
    <2>2. ~BindFails(q, a) /\ clean[q]
      BY DEF Bind, BindFails, Attach, obsVars, TypeInv, TypeOK
    <2>3. pc[q] = "bind" /\ b \in todo[q]
      BY <1>1, <2>1, <2>2 DEF Knows, BindsAll
    <2>4. Bind(q, a) /\ alias' = Bound({a}, found[q])
      BY <2>2, <2>3 DEF Bind, Attach
    <2>5. b # a
      BY <1>1, <2>1, <2>4, BoundOnce DEF Binds, TypeInv
    <2>. QED BY <2>3, <2>4, <2>5 DEF Bind, TypeInv, TypeOK
  <1>. QED BY <1>4, <1>5, <1>6, <1>8, <1>9, <1>10, <1>7
       DEF RegistryInv, Knows

\* A request that has ended knows nothing.
LEMMA LeaveKnows ==
  ASSUME TypeInv, RegistryInv, Stays, NEW q \in Requests, Leave(q), settled \subseteq settled'
  PROVE  \A r \in Requests : Knows(r)'
  <1>1. \A r \in Requests : r # q => Knows(r)'
    BY StillKnows DEF Leave, RegistryInv, TypeInv, TypeOK
  <1>2. Knows(q)'
    BY DEF Leave, Knows, Remembers, BindsAll, Finds, TypeInv, TypeOK
  <1>. QED BY <1>1, <1>2

LEMMA LeaveAlone ==
  ASSUME TypeInv, RegistryInv, NEW q \in Requests, pc[q] # "idle", Leave(q),
         UNCHANGED <<projects, alias>>
  PROVE  Alone' /\ Learns'
  <1>1. pc'[q] = "idle" /\ mirrors'[q] = {} /\ todo'[q] = {}
    BY DEF Leave, TypeInv, TypeOK
  <1>2. \A r \in Requests : r # q =>
          /\ pc'[r] = pc[r] /\ hints'[r] = hints[r] /\ todo'[r] = todo[r]
          /\ mirrors'[r] = mirrors[r] /\ crossed'[r] = crossed[r]
    BY DEF Leave, TypeInv, TypeOK
  <1>3. Learns'
    BY <1>1, <1>2 DEF RegistryInv, Learns, LooksUp
  <1>4. LooksUp(q)' = {}
    BY <1>1 DEF LooksUp
  <1>. QED BY <1>1, <1>2, <1>3, <1>4, StillAlone DEF RegistryInv

LEMMA AnswerInv ==
  ASSUME TypeInv, RegistryInv, Stays, NEW q \in Requests, Answer(q)
  PROVE  RegistryInv'
  <1>. DEFINE h == hints[q]
  <1>1. h \in Hints /\ pc[q] = "attach" /\ found[q] \in projects /\ found[q] # None /\ Knows(q)
        /\ alias' = alias /\ projects' = projects /\ astray' = astray /\ Leave(q)
    BY BoundTypes DEF Answer, TypeInv, TypeOK, InFlight, RegistryInv
  <1>2. settled' \subseteq settled \cup {h} /\ settled \subseteq settled' /\ (h \in settled' \ settled => clean[q])
    BY DEF Answer
  <1>3. \A r \in Requests : Knows(r)'
    BY <1>1, <1>2, LeaveKnows
  <1>4. SettledBound'
    <2>1. clean[q] => \A a \in AliasesOf(h) : alias[a] # None
      BY <1>1 DEF Knows, BindsAll
    <2>. QED BY <1>1, <1>2, <2>1 DEF RegistryInv, SettledBound
  <1>5. OneAnswer'
    <2>. SUFFICES ASSUME NEW g \in Hints, answers'[g] # {}
                  PROVE  g \in settled' /\ (Sound(g) => answers'[g] \subseteq {alias[First(g)]})
      BY <1>1 DEF OneAnswer, Sound
    <2>1. CASE late[q] /\ g = h
      <3>1. answers'[g] = answers[g] \cup {found[q]}
        BY <1>1, <2>1 DEF Answer, TypeInv, TypeOK
      <3>2. g \in settled /\ (Sound(g) => found[q] = alias[First(g)])
        BY <1>1, <2>1 DEF Knows, Finds
      <3>. QED BY <1>2, <3>1, <3>2 DEF RegistryInv, OneAnswer
    <2>2. CASE ~(late[q] /\ g = h)
      <3>1. answers'[g] = answers[g]
        BY <1>1, <2>2 DEF Answer, TypeInv, TypeOK
      <3>. QED BY <1>2, <3>1 DEF RegistryInv, OneAnswer
    <2>. QED BY <2>1, <2>2
  <1>6. Alone' /\ Learns'
    BY <1>1, LeaveAlone
  <1>7. OrphansByRace'
    BY <1>1, StillReached DEF RegistryInv
  <1>. QED BY <1>3, <1>4, <1>5, <1>6, <1>7 DEF RegistryInv

LEMMA FailInv ==
  ASSUME TypeInv, RegistryInv, Stays, NEW q \in Requests, Fail(q)
  PROVE  RegistryInv'
  <1>1. UNCHANGED <<projects, alias, settled, answers, astray>> /\ Leave(q) /\ pc[q] # "idle"
    BY DEF Fail
  <1>2. \A r \in Requests : Knows(r)'
    BY <1>1, LeaveKnows
  <1>3. Alone' /\ Learns'
    BY <1>1, LeaveAlone
  <1>. QED BY <1>1, <1>2, <1>3, StillSettled, StillReached DEF RegistryInv

\* An alias added by hand crosses the requests that look it up.
LEMMA AddAliasInv ==
  ASSUME TypeInv, RegistryInv, Stays, NEW p \in Ids \cup {BadId}, NEW a \in Aliases, AddAlias(p, a)
  PROVE  RegistryInv'
  <1>1. \A r \in Requests : Knows(r)'
    BY StillKnows DEF AddAlias, requestVars, RegistryInv
  <1>2. SettledBound' /\ OneAnswer' /\ OrphansByRace'
    BY StillSettled, StillReached DEF AddAlias, RegistryInv
  <1>3. ASSUME NEW r \in Requests, pc'[r] # "idle", ~crossed'[r] PROVE Apart(r)' /\ Missed(r)'
    <2>1. pc[r] # "idle" /\ ~crossed[r] /\ a \notin LooksUp(r)
      BY <1>3 DEF AddAlias, requestVars
    <2>2. Apart(r) /\ Missed(r)
      BY <2>1 DEF RegistryInv, Alone
    <2>3. hints[r] \in Hints /\ LooksUp(r) \subseteq Aliases
      BY <2>1, HintTypes DEF TypeInv, InFlight, LooksUp
    <2>4. \A b \in LooksUp(r) : alias'[b] = alias[b]
      <3>1. Binds({a}, p)
        BY BoundOnce DEF AddAlias, TypeInv
      <3>. QED BY <2>1, <2>3, <3>1 DEF Binds
    <2>5. Missed(r)'
      BY <2>1, <2>2, <2>4, StillMissed DEF AddAlias, requestVars
    <2>. QED BY <2>2, <2>5 DEF AddAlias, requestVars, Apart, LooksUp, MayBind
  <1>4. Learns'
    BY DEF AddAlias, requestVars, RegistryInv, Learns, LooksUp
  <1>. QED BY <1>1, <1>2, <1>3, <1>4 DEF RegistryInv, Alone

LEMMA RegistryStep == TypeInv /\ RegistryInv /\ [Next]_vars => RegistryInv'
  <1>. SUFFICES ASSUME TypeInv, RegistryInv, [Next]_vars PROVE RegistryInv'
    OBVIOUS
  <1>1. Stays
    BY NextStays
  <1>2. CASE UNCHANGED vars
    <2>1. \A r \in Requests : Knows(r)'
      BY <1>1, <1>2, StillKnows DEF vars, requestVars, obsVars, RegistryInv
    <2>2. SettledBound' /\ OneAnswer' /\ OrphansByRace'
      BY <1>1, <1>2, StillSettled, StillReached DEF vars, obsVars, RegistryInv
    <2>3. Alone' /\ Learns'
      BY <1>2 DEF vars, requestVars, obsVars, RegistryInv, Alone, Learns, Apart, Missed, LooksUp,
                  MayBind, Found
    <2>. QED BY <2>1, <2>2, <2>3 DEF RegistryInv
  <1>. QED BY <1>1, <1>2, AskInv, FindInv, MintInv, BindInv, AnswerInv, FailInv, AddAliasInv
           DEF Next, Aliases

LEMMA RegistryInvHolds == Spec => [](TypeInv /\ RegistryInv)
  BY InitType, InitRegistry, TypeStep, RegistryStep, PTL DEF Spec

\* store.go:555-559, INSERT OR IGNORE: no step takes an alias from the project it was
\* bound to first.
THEOREM NeverRebound == Spec => [][Stays]_vars
  <1>1. TypeInv /\ [Next]_vars => [Stays]_vars
    BY NextStays
  <1>. QED BY <1>1, InitType, TypeStep, PTL DEF Spec

\* spec.md:188-196: whatever name, path or concurrent request says, a remote that
\* was bound to a project when the request came in decides its answer.
THEOREM RemoteDecidesHolds == Spec => []RemoteDecides
  <1>1. TypeInv /\ RegistryInv => RemoteDecides
    BY BoundTypes DEF TypeInv, TypeOK, RegistryInv, Knows, Remembers, RemoteDecides
  <1>. QED BY <1>1, RegistryInvHolds, PTL

\* registry.go:116, "so later sessions resolve faster": once a request has been
\* answered for hints with a signal, those that come later with them have one answer.
THEOREM LaterAgreeHolds == Spec => []LaterAgree
  <1>1. TypeInv /\ RegistryInv => LaterAgree
    <2>. SUFFICES ASSUME TypeInv, RegistryInv, NEW h \in Hints, Sound(h)
                  PROVE  Cardinality(answers[h]) <= 1
      BY DEF LaterAgree, Sound
    <2>1. answers[h] = {} \/ answers[h] = {alias[First(h)]}
      BY DEF RegistryInv, OneAnswer
    <2>2. Cardinality({}) = 0
      BY FS_EmptySet
    <2>3. Cardinality({alias[First(h)]}) = 1
      BY FS_Singleton
    <2>4. CASE answers[h] = {}
      BY <2>2, <2>4
    <2>5. CASE answers[h] = {alias[First(h)]}
      BY <2>3, <2>5
    <2>. QED BY <2>1, <2>4, <2>5
  <1>. QED BY <1>1, RegistryInvHolds, PTL

\* A project no alias leads to is minted by a request that another one or a hand
\* crossed at its own aliases, or that has nothing to seed, and in no other way,
\* however many statements fail.
THEOREM OrphansByRaceHolds == Spec => []OrphansByRace
  <1>1. RegistryInv => OrphansByRace
    BY DEF RegistryInv
  <1>. QED BY <1>1, RegistryInvHolds, PTL
=============================================================================
