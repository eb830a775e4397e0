------------------------------ MODULE Registry ------------------------------
(***************************************************************************)
(* The project registry (internal/pipeline/registry.go, repos.go over the  *)
(* tables projects and project_aliases): concurrent requests turn project  *)
(* hints into a canonical project id.  A request looks its hints up one    *)
(* query at a time, remote first, then mints a project in one transaction  *)
(* or binds its hints to the one it found, one statement at a time.        *)
(* Nothing locks the registry between those statements.                    *)
(*                                                                         *)
(* An alias is its normalised value; remotes, names and paths are disjoint *)
(* sets, as the kind is a part of the key.                                 *)
(***************************************************************************)
EXTENDS Integers, FiniteSets

CONSTANTS Requests,   \* requests in flight at once
          Remotes, Names, Paths,
          Hints,      \* hints somebody asks with
          Ids,        \* uuids still to be drawn
          BadId,      \* an id that is of no project
          None,       \* no hint, no project
          MaxAsks,    \* bound on requests
          MaxFails    \* bound on failed statements

Aliases == Remotes \cup Names \cup Paths

\* Hints of an upload, of /projects/resolve or of an area's repos.  Any of the
\* signals may be missing, all of them too: only GET /context asks for one, and a
\* remote that normalises to nothing is none.
AllHints ==
    [remote : Remotes \cup {None}, name : Names \cup {None}, path : Paths \cup {None}]

ASSUME RegistryAssumption ==
    /\ Remotes \cap Names = {} /\ Remotes \cap Paths = {} /\ Names \cap Paths = {}
    /\ None \notin Aliases \cup Ids \cup {BadId}
    /\ BadId \notin Ids
    /\ Hints \subseteq AllHints
    /\ {MaxAsks, MaxFails} \subseteq Nat

VARIABLES
    projects,  \* table projects
    alias,     \* table project_aliases: the project of each alias, or None
    pc,        \* per request: the query or statement it is at
    hints,     \* per request: its hints
    mirrors,   \* per request: further remotes of its area it has not bound yet
    todo,      \* per request: the hints it has not bound yet
    found,     \* per request: the project it is about, once it knows
    asks, fails,
    \* observers
    known,     \* per request: the project of its remote when it was asked
    late,      \* per request: whether its hints had been settled when it was asked
    clean,     \* per request: no statement of it has failed
    settled,   \* hints that a request without failures was answered for
    answers,   \* per hints: the projects late requests were answered with
    crossed,   \* per request: something else in flight could bind an alias it looks up
    astray     \* projects minted by such a request, or with no alias left to seed

requestVars == <<pc, hints, mirrors, todo, found>>
obsVars == <<known, late, clean, settled, answers, crossed, astray>>
vars == <<projects, alias, requestVars, asks, fails, obsVars>>

TypeOK ==
    /\ projects \subseteq Ids
    /\ alias \in [Aliases -> Ids \cup {BadId, None}]
    /\ pc \in [Requests -> {"idle", "remote", "name", "path", "mint", "bind", "attach"}]
    /\ hints \in [Requests -> Hints \cup {None}]
    /\ mirrors \in [Requests -> SUBSET Remotes]
    /\ todo \in [Requests -> SUBSET Aliases]
    /\ found \in [Requests -> Ids \cup {None}]
    /\ asks \in 0..MaxAsks /\ fails \in 0..MaxFails
    /\ known \in [Requests -> Ids \cup {BadId, None}]
    /\ late \in [Requests -> BOOLEAN]
    /\ clean \in [Requests -> BOOLEAN]
    /\ settled \subseteq Hints
    /\ answers \in [Hints -> SUBSET Ids]
    /\ crossed \in [Requests -> BOOLEAN]
    /\ astray \subseteq Ids
    \* whatever an alias says, a request is about a project that there is
    /\ \A q \in Requests : found[q] # None => found[q] \in projects

Init ==
    /\ projects = {}
    /\ alias = [a \in Aliases |-> None]
    /\ pc = [q \in Requests |-> "idle"]
    /\ hints = [q \in Requests |-> None]
    /\ mirrors = [q \in Requests |-> {}]
    /\ todo = [q \in Requests |-> {}]
    /\ found = [q \in Requests |-> None]
    /\ asks = 0 /\ fails = 0
    /\ known = [q \in Requests |-> None]
    /\ late = [q \in Requests |-> FALSE]
    /\ clean = [q \in Requests |-> TRUE]
    /\ settled = {}
    /\ answers = [h \in Hints |-> {}]
    /\ crossed = [q \in Requests |-> FALSE] /\ astray = {}
-----------------------------------------------------------------------------
\* aliasMap.
AliasesOf(h) == {h.remote, h.name, h.path} \ {None}

\* Mutant of Found: the alias row is enough, whatever it refers to.
FoundUnjoined(a) == a # None /\ alias[a] # None

\* FindProjectByAlias joins the alias with its project.
Found(a) == a # None /\ alias[a] \in projects

\* Mutant of Bound: INSERT OR REPLACE.
BoundAgain(A, p) == [a \in Aliases |-> IF a \in A THEN p ELSE alias[a]]

\* AddAlias, and the aliases of CreateProject: INSERT OR IGNORE.
Bound(A, p) == [a \in Aliases |-> IF a \in A /\ alias[a] = None THEN p ELSE alias[a]]

\* What a request in flight looks up, and what it may yet bind.
LooksUp(q) == IF pc[q] = "idle" THEN {} ELSE AliasesOf(hints[q])
MayBind(q) == LooksUp(q) \cup mirrors[q]

\* The request is over.
Leave(q) ==
    /\ pc' = [pc EXCEPT ![q] = "idle"]
    /\ hints' = [hints EXCEPT ![q] = None]
    /\ mirrors' = [mirrors EXCEPT ![q] = {}]
    /\ todo' = [todo EXCEPT ![q] = {}]
    /\ found' = [found EXCEPT ![q] = None]
    /\ known' = [known EXCEPT ![q] = None]
    /\ late' = [late EXCEPT ![q] = FALSE]
    /\ clean' = [clean EXCEPT ![q] = TRUE]
    /\ crossed' = [crossed EXCEPT ![q] = FALSE]
-----------------------------------------------------------------------------
\* A session of an upload, a /projects/resolve, or an area written with a list
\* of repos: its first remote and its name are the hints, the rest mirrors.
Ask(q, h, M) ==
    /\ pc[q] = "idle"
    /\ asks < MaxAsks
    /\ M # {} => h.remote \in Remotes \ M /\ h.name # None /\ h.path = None
    /\ asks' = asks + 1
    /\ pc' = [pc EXCEPT ![q] = "remote"]
    /\ hints' = [hints EXCEPT ![q] = h]
    /\ mirrors' = [mirrors EXCEPT ![q] = M]
    /\ known' = [known EXCEPT ![q] = IF h.remote = None THEN None ELSE alias[h.remote]]
    /\ late' = [late EXCEPT ![q] = h \in settled]
    /\ crossed' = [r \in Requests |->
            IF r = q THEN \E o \in Requests : AliasesOf(h) \cap MayBind(o) # {}
                     ELSE crossed[r] \/ LooksUp(r) \cap (AliasesOf(h) \cup M) # {}]
    /\ UNCHANGED <<projects, alias, todo, found, fails, clean, settled, answers, astray>>

\* The order of the signals: remote, name, path, and then a project is minted.
Order == [remote |-> "name", name |-> "path", path |-> "mint"]

\* Mutant of Find: the name is looked up before the remote.
FindNameFirst(q, k) ==
    /\ pc[q] = k
    /\ LET signal == [remote |-> "name", name |-> "remote", path |-> "path"][k]
       IN IF Found(hints[q][signal])
          THEN /\ found' = [found EXCEPT ![q] = alias[hints[q][signal]]]
               /\ todo' = [todo EXCEPT ![q] = AliasesOf(hints[q])]
               /\ pc' = [pc EXCEPT ![q] = "bind"]
          ELSE /\ pc' = [pc EXCEPT ![q] = Order[k]]
               /\ UNCHANGED <<found, todo>>
    /\ UNCHANGED <<projects, alias, hints, mirrors, asks, fails, obsVars>>

\* One query of Resolve.
Find(q, k) ==
    /\ pc[q] = k
    /\ IF Found(hints[q][k])
       THEN /\ found' = [found EXCEPT ![q] = alias[hints[q][k]]]
            /\ todo' = [todo EXCEPT ![q] = AliasesOf(hints[q])]
            /\ pc' = [pc EXCEPT ![q] = "bind"]
       ELSE /\ pc' = [pc EXCEPT ![q] = Order[k]]
            /\ UNCHANGED <<found, todo>>
    /\ UNCHANGED <<projects, alias, hints, mirrors, asks, fails, obsVars>>

\* Why a project may be minted that no alias leads to: another request or a hand was
\* at the same aliases, or they are all of the id that is no project; no signal, no
\* alias.
Strays(q) == crossed[q] \/ \A a \in AliasesOf(hints[q]) : alias[a] = BadId

\* Mutant of Mint: the aliases are left to the next request.
MintUnseeded(q) ==
    /\ pc[q] = "mint"
    /\ \E p \in Ids \ projects :
         /\ projects' = projects \cup {p}
         /\ found' = [found EXCEPT ![q] = p]
         /\ astray' = IF Strays(q) THEN astray \cup {p} ELSE astray
    /\ pc' = [pc EXCEPT ![q] = "attach"]
    /\ UNCHANGED <<alias, hints, mirrors, todo, asks, fails, known, late, clean, settled, answers,
                   crossed>>

\* CreateProject, one transaction: the hints nobody has bound meanwhile are its
\* aliases.  The project of a request that lost the race for all of them, or had no
\* signal, has none.
Mint(q) ==
    /\ pc[q] = "mint"
    /\ \E p \in Ids \ projects :
         /\ projects' = projects \cup {p}
         /\ alias' = Bound(AliasesOf(hints[q]), p)
         /\ found' = [found EXCEPT ![q] = p]
         /\ astray' = IF Strays(q) THEN astray \cup {p} ELSE astray
    /\ pc' = [pc EXCEPT ![q] = "attach"]
    /\ UNCHANGED <<hints, mirrors, todo, asks, fails, known, late, clean, settled, answers,
                   crossed>>

\* bindLearned, in the order Go ranges over a map.
Bind(q, a) ==
    /\ pc[q] = "bind"
    /\ a \in todo[q]
    /\ alias' = Bound({a}, found[q])
    /\ todo' = [todo EXCEPT ![q] = @ \ {a}]
    /\ pc' = [pc EXCEPT ![q] = IF todo[q] = {a} THEN "attach" ELSE "bind"]
    /\ UNCHANGED <<projects, hints, mirrors, found, asks, fails, obsVars>>

\* ... which ignores an error.
BindFails(q, a) ==
    /\ pc[q] = "bind"
    /\ a \in todo[q]
    /\ fails < MaxFails
    /\ fails' = fails + 1
    /\ clean' = [clean EXCEPT ![q] = FALSE]
    /\ todo' = [todo EXCEPT ![q] = @ \ {a}]
    /\ pc' = [pc EXCEPT ![q] = IF todo[q] = {a} THEN "attach" ELSE "bind"]
    /\ UNCHANGED <<projects, alias, hints, mirrors, found, asks, known, late, settled,
                   answers, crossed, astray>>

\* AddRemoteAlias for a mirror of the area.
Attach(q, r) ==
    /\ pc[q] = "attach"
    /\ r \in mirrors[q]
    /\ alias' = Bound({r}, found[q])
    /\ mirrors' = [mirrors EXCEPT ![q] = @ \ {r}]
    /\ UNCHANGED <<projects, pc, hints, todo, found, asks, fails, obsVars>>

\* The request is answered with the id.
Answer(q) ==
    /\ pc[q] = "attach"
    /\ mirrors[q] = {}
    /\ settled' = IF clean[q] THEN settled \cup {hints[q]} ELSE settled
    /\ answers' = IF late[q] THEN [answers EXCEPT ![hints[q]] = @ \cup {found[q]}] ELSE answers
    /\ Leave(q)
    /\ UNCHANGED <<projects, alias, asks, fails, astray>>

\* A query, the transaction or the binding of a mirror fails, and the request
\* with it; a crash does this to every request.
Fail(q) ==
    /\ pc[q] \notin {"idle", "bind"}
    /\ fails < MaxFails
    /\ fails' = fails + 1
    /\ Leave(q)
    /\ UNCHANGED <<projects, alias, asks, settled, answers, astray>>

\* POST /projects/{id}/aliases inserts what it is given.  Store.Open means to
\* turn foreign keys on, but its last Set of "_pragma" replaces the others, so
\* that the id need not be of a project.
AddAlias(p, a) ==
    /\ p \in projects \cup {BadId}
    /\ asks < MaxAsks
    /\ asks' = asks + 1
    /\ alias' = Bound({a}, p)
    /\ crossed' = [q \in Requests |-> crossed[q] \/ a \in LooksUp(q)]
    /\ UNCHANGED <<projects, requestVars, fails, known, late, clean, settled, answers, astray>>
-----------------------------------------------------------------------------
Next ==
    \/ \E q \in Requests : \E h \in Hints, M \in SUBSET Remotes : Ask(q, h, M)
    \/ \E q \in Requests : \E k \in {"remote", "name", "path"} : Find(q, k)
    \/ \E q \in Requests : Mint(q)
    \/ \E q \in Requests : \E a \in Aliases : Bind(q, a) \/ BindFails(q, a)
    \/ \E q \in Requests : \E r \in Remotes : Attach(q, r)
    \/ \E q \in Requests : Answer(q) \/ Fail(q)
    \/ \E p \in Ids \cup {BadId}, a \in Aliases : AddAlias(p, a)

Spec == Init /\ [][Next]_vars
-----------------------------------------------------------------------------
\* spec.md:188-196: whatever name, path or concurrent request says, a remote that
\* was bound to a project when the request came in decides its answer.
RemoteDecides ==
    \A q \in Requests :
        known[q] \in projects /\ found[q] # None => found[q] = known[q]

\* registry.go:116, "so later sessions resolve faster": requests may race to
\* mint, but once one has been answered for some hints, every request that comes
\* later with the same hints is answered with one and the same project.  Hints
\* without a signal are left out, and so are those with an alias of an id that is
\* no project: a project is minted for them at every request (registry.go:94).
LaterAgree ==
    \A h \in Hints :
        AliasesOf(h) # {} /\ (\A a \in AliasesOf(h) : alias[a] # BadId)
            => Cardinality(answers[h]) <= 1

\* A project that no alias leads to, so that it will never be found again, is
\* minted only by a request with something else in flight at its own aliases, or
\* by one that has nothing to seed: no signal at all (registry.go:94), or aliases
\* that are all of no project.  Failures, mirrors, aliases put by hand and requests
\* about other projects never leave one.
OrphansByRace == \A p \in projects \ astray : \E a \in Aliases : alias[a] = p
=============================================================================
