------------------------- MODULE IntrospectionProofs -------------------------
(***************************************************************************)
(* What the verifier promises about revoked and expired tokens, for any    *)
(* number of requests and tokens and any times to live.                    *)
(*                                                                         *)
(* The inductive invariant says where an acceptance may still come from: an*)
(* answer on its way is no older than the request that asked for it        *)
(* (Fresh), and a cached one has no more left than the lag allows (Bounded)*)
(* and, if it names an expiry, no more than the token (Short).             *)
(***************************************************************************)
EXTENDS Introspection, TLAPS

Fresh ==
    \A q \in Requests :
        req[q].stage = "answered" /\ req[q].active => gone[req[q].token] <= req[q].age

Bounded ==
    \A a \in Tokens :
        cache[a].active /\ cache[a].left > 0 => gone[a] + cache[a].left <= Lag

Short ==
    \A a \in Tokens :
        cache[a].active /\ cache[a].exp /\ cache[a].left > 0 => cache[a].left <= life[a]

LiveNow == \A a \in Tokens : Live(a) => gone[a] = 0

VerifierInv == VerifierTypeOK /\ Fresh /\ Bounded /\ Short /\ LiveNow

\* What the assumptions say of the bounds.
LEMMA BoundTypes ==
    /\ TokenTTL \in Nat /\ PosTTL \in Nat /\ NegTTL \in Nat /\ Timeout \in Nat
    /\ PosTTL > 0 /\ NegTTL > 0
    /\ Lag \in Nat /\ Lag = PosTTL + Timeout /\ Timeout < Lag
    /\ NoToken \notin Tokens
  BY VerifierAssumption DEF VerifierAssumption, Lag

LEMMA InitInv == VerifierInit => VerifierInv
  BY BoundTypes DEF VerifierInit, VerifierInv, VerifierTypeOK, Fresh, Bounded, Short,
     LiveNow, Live, Idle, Request, NoEntry
-----------------------------------------------------------------------------
\* The authorization server issues a token nobody has an answer about.
LEMMA IssueInv ==
  ASSUME VerifierInv, NEW a \in Tokens, Issue(a)
  PROVE  VerifierInv'
  <1>1. VerifierTypeOK'
    BY BoundTypes DEF VerifierInv, VerifierTypeOK, Issue
  <1>2. cache[a].left = 0 /\ \A q \in Requests : req[q].token # a
    BY DEF VerifierInv, VerifierTypeOK, Issue, Unknown, Known
  <1>3. Fresh'
    BY <1>2 DEF VerifierInv, VerifierTypeOK, Issue, Fresh
  <1>4. Bounded'
    BY <1>2 DEF VerifierInv, VerifierTypeOK, Issue, Bounded
  <1>5. Short'
    BY <1>2 DEF VerifierInv, VerifierTypeOK, Issue, Short
  <1>6. LiveNow'
    BY DEF VerifierInv, VerifierTypeOK, Issue, LiveNow, Live
  <1>. QED BY <1>1, <1>3, <1>4, <1>5, <1>6 DEF VerifierInv

LEMMA RevokeInv ==
  ASSUME VerifierInv, NEW a \in Tokens, Revoke(a)
  PROVE  VerifierInv'
  BY DEF VerifierInv, VerifierTypeOK, Revoke, Fresh, Bounded, Short, LiveNow, Live

\* Steps that change nothing but one request, and give it no answer.
LEMMA QuietInv ==
  ASSUME VerifierInv, UNCHANGED <<life, revoked, cache, gone>>,
         req' \in [Requests -> [stage : {"idle", "asking", "answered", "accepted", "refused"},
                                token : Tokens \cup {NoToken}, active : BOOLEAN,
                                exp : BOOLEAN, age : 0..Timeout]],
         \A q \in Requests : req'[q].token = NoToken <=> req'[q].stage = "idle",
         \A q \in Requests : req'[q] = req[q] \/ req'[q].stage # "answered"
  PROVE  VerifierInv'
  BY DEF VerifierInv, VerifierTypeOK, Fresh, Bounded, Short, LiveNow, Live

LEMMA LookupInv ==
  ASSUME VerifierInv, NEW q \in Requests, NEW a \in Tokens, Lookup(q, a)
  PROVE  VerifierInv'
  BY QuietInv, BoundTypes DEF VerifierInv, VerifierTypeOK, Lookup, Request, Verdict

LEMMA IntrospectFailsInv ==
  ASSUME VerifierInv, NEW q \in Requests, IntrospectFails(q)
  PROVE  VerifierInv'
  BY QuietInv, BoundTypes DEF VerifierInv, VerifierTypeOK, IntrospectFails, Request

LEMMA RespondInv ==
  ASSUME VerifierInv, NEW q \in Requests, Respond(q)
  PROVE  VerifierInv'
  BY QuietInv, BoundTypes DEF VerifierInv, VerifierTypeOK, Respond, Idle, Request

\* The answer is the truth of this moment.
LEMMA AnswerInv ==
  ASSUME VerifierInv, NEW q \in Requests, Answer(q)
  PROVE  VerifierInv'
  <1>1. req[q].token \in Tokens
    BY DEF VerifierInv, VerifierTypeOK, Answer
  <1>2. PICK e \in BOOLEAN :
          req' = [req EXCEPT ![q] = [stage |-> "answered", token |-> req[q].token,
                                     active |-> Live(req[q].token), exp |-> e,
                                     age |-> req[q].age]]
    BY VerifierAssumption DEF VerifierAssumption, Answer, VerifierInv, VerifierTypeOK
  <1>3. VerifierTypeOK'
    BY <1>1, <1>2, BoundTypes DEF VerifierInv, VerifierTypeOK, Answer, Live
  <1>4. Fresh'
    BY <1>1, <1>2, BoundTypes DEF VerifierInv, VerifierTypeOK, Answer, Fresh, LiveNow
  <1>5. Bounded' /\ Short' /\ LiveNow'
    BY DEF VerifierInv, Answer, Bounded, Short, LiveNow, Live
  <1>. QED BY <1>3, <1>4, <1>5 DEF VerifierInv

\* How long an answer is kept: never past the five minutes if it is positive, nor
\* past the token if it names an expiry.
LEMMA EntryBounds ==
  ASSUME VerifierTypeOK, NEW q \in Requests, req[q].token \in Tokens
  PROVE  LET r == req[q] IN
         /\ EntryTTL(r) \in Nat
         /\ r.active => EntryTTL(r) <= PosTTL
         /\ r.active /\ r.exp => EntryTTL(r) <= life[r.token]
  BY BoundTypes DEF EntryTTL, VerifierTypeOK

LEMMA RememberInv ==
  ASSUME VerifierInv, NEW q \in Requests, Remember(q)
  PROVE  VerifierInv'
  <1>. DEFINE r == req[q]
  <1>1. r.token \in Tokens /\ r.active \in BOOLEAN /\ r.exp \in BOOLEAN
    BY DEF VerifierInv, VerifierTypeOK, Remember
  <1>2. /\ EntryTTL(r) \in Nat
        /\ r.active => EntryTTL(r) <= PosTTL
        /\ r.active /\ r.exp => EntryTTL(r) <= life[r.token]
    BY <1>1, EntryBounds DEF VerifierInv
  <1>3. r.active => gone[r.token] <= Timeout
    BY <1>1, BoundTypes DEF VerifierInv, VerifierTypeOK, Fresh, Remember
  <1>4. /\ req' = [req EXCEPT ![q] = Request(Verdict(r.active), r.token)]
        /\ \/ cache' = cache
           \/ cache' = [cache EXCEPT ![r.token] =
                          [active |-> r.active, exp |-> r.exp, left |-> EntryTTL(r)]]
        /\ UNCHANGED <<life, revoked, gone>>
    BY DEF Remember
  <1>. HIDE DEF r
  <1>5. VerifierTypeOK'
    BY <1>1, <1>2, <1>4, BoundTypes DEF VerifierInv, VerifierTypeOK, Request, Verdict
  <1>6. Fresh'
    BY <1>1, <1>4 DEF VerifierInv, VerifierTypeOK, Fresh, Request, Verdict
  <1>7. Bounded'
    BY <1>1, <1>2, <1>3, <1>4, BoundTypes DEF VerifierInv, VerifierTypeOK, Bounded
  <1>8. Short'
    <2>1. SUFFICES ASSUME NEW a \in Tokens, cache'[a].active, cache'[a].exp, cache'[a].left > 0
                   PROVE  cache'[a].left <= life[a]
      BY <1>4 DEF Short
    <2>2. CASE cache'[a] = cache[a]
      BY <2>1, <2>2 DEF VerifierInv, Short
    <2>3. CASE cache'[a] # cache[a]
      <3>1. a = r.token /\ cache'[a] = [active |-> r.active, exp |-> r.exp, left |-> EntryTTL(r)]
        BY <1>4, <2>3 DEF VerifierInv, VerifierTypeOK
      <3>2. r.active /\ r.exp /\ cache'[a].left = EntryTTL(r)
        BY <2>1, <3>1
      <3>. QED BY <1>2, <3>1, <3>2
    <2>. QED BY <2>2, <2>3
  <1>9. LiveNow'
    BY <1>4 DEF VerifierInv, LiveNow, Live
  <1>. QED BY <1>5, <1>6, <1>7, <1>8, <1>9 DEF VerifierInv

\* A tick takes from every countdown what it adds to the age of the request and
\* of the death of the token.
LEMMA TickInv ==
  ASSUME VerifierInv, VerifierTick
  PROVE  VerifierInv'
  <1>1. \A a \in Tokens :
          /\ life'[a] = IF life[a] > 0 THEN life[a] - 1 ELSE 0
          /\ gone'[a] = IF Live(a) THEN 0
                       ELSE IF Vouched(a) /\ gone[a] < Lag THEN gone[a] + 1 ELSE Lag
          /\ a \in revoked' <=> a \in revoked /\ life[a] > 1
    BY DEF VerifierInv, VerifierTypeOK, VerifierTick
  <1>2. ASSUME NEW a \in Tokens
        PROVE  /\ cache'[a] \in [active : BOOLEAN, exp : BOOLEAN, left : Nat]
               /\ cache'[a].left > 0 =>
                    /\ cache'[a].left = cache[a].left - 1
                    /\ cache'[a].active = cache[a].active
                    /\ cache'[a].exp = cache[a].exp
    <2>1. cache[a] \in [active : BOOLEAN, exp : BOOLEAN, left : Nat]
      BY DEF VerifierInv, VerifierTypeOK
    <2>2. CASE cache[a].left > 1
      <3>1. cache'[a] = [active |-> cache[a].active, exp |-> cache[a].exp,
                         left |-> cache[a].left - 1]
        BY <2>2 DEF VerifierTick
      <3>. QED BY <2>1, <2>2, <3>1
    <2>3. CASE ~(cache[a].left > 1)
      <3>1. cache'[a] = [active |-> FALSE, exp |-> FALSE, left |-> 0]
        BY <2>3 DEF VerifierTick, NoEntry
      <3>. QED BY <3>1
    <2>. QED BY <2>2, <2>3
  <1>3. \A q \in Requests : req[q].stage \in {"asking", "answered"} => req[q].age < Timeout
    BY DEF VerifierTick, InTime
  <1>9. ASSUME NEW q \in Requests
        PROVE  /\ req'[q] \in [stage : {"idle", "asking", "answered", "accepted", "refused"},
                               token : Tokens \cup {NoToken}, active : BOOLEAN,
                               exp : BOOLEAN, age : 0..Timeout]
               /\ req'[q].stage = req[q].stage
               /\ req'[q].token = req[q].token
               /\ req'[q].active = req[q].active
               /\ req[q].stage = "answered" => req'[q].age = req[q].age + 1
    <2>1. req[q] \in [stage : {"idle", "asking", "answered", "accepted", "refused"},
                      token : Tokens \cup {NoToken}, active : BOOLEAN,
                      exp : BOOLEAN, age : 0..Timeout]
      BY DEF VerifierInv, VerifierTypeOK
    <2>2. CASE req[q].stage \in {"asking", "answered"}
      <3>1. req'[q] = [stage |-> req[q].stage, token |-> req[q].token,
                       active |-> req[q].active, exp |-> req[q].exp,
                       age |-> req[q].age + 1]
        BY <2>2 DEF VerifierTick
      <3>2. req[q].age + 1 \in 0..Timeout
        BY <2>1, <2>2, <1>3, BoundTypes
      <3>. QED BY <2>1, <3>1, <3>2
    <2>3. CASE req[q].stage \notin {"asking", "answered"}
      <3>1. req'[q] = req[q]
        BY <2>3 DEF VerifierTick
      <3>. QED BY <2>1, <2>3, <3>1
    <2>. QED BY <2>2, <2>3
  <1>4. VerifierTypeOK'
    <2>1. life' \in [Tokens -> 0..TokenTTL] /\ revoked' \in SUBSET Tokens
      BY BoundTypes DEF VerifierInv, VerifierTypeOK, VerifierTick
    <2>2. cache' \in [Tokens -> [active : BOOLEAN, exp : BOOLEAN, left : Nat]]
      BY <1>2 DEF VerifierTick
    <2>3. gone' \in [Tokens -> 0..Lag]
      BY <1>1, BoundTypes DEF VerifierInv, VerifierTypeOK, VerifierTick
    <2>4. req' \in [Requests -> [stage : {"idle", "asking", "answered", "accepted", "refused"},
                                token : Tokens \cup {NoToken}, active : BOOLEAN,
                                exp : BOOLEAN, age : 0..Timeout]]
      BY <1>9 DEF VerifierTick
    <2>5. \A q \in Requests : req'[q].token = NoToken <=> req'[q].stage = "idle"
      BY <1>9 DEF VerifierInv, VerifierTypeOK
    <2>. QED BY <2>1, <2>2, <2>3, <2>4, <2>5 DEF VerifierTypeOK
  <1>5. Fresh'
    <2>. SUFFICES ASSUME NEW q \in Requests, req'[q].stage = "answered", req'[q].active
                  PROVE  gone'[req'[q].token] <= req'[q].age
      BY DEF Fresh
    <2>1. /\ req[q].stage = "answered" /\ req[q].active
          /\ req'[q].token = req[q].token /\ req'[q].age = req[q].age + 1
          /\ req[q].token \in Tokens /\ req[q].age \in 0..Timeout
      BY <1>9 DEF VerifierInv, VerifierTypeOK
    <2>2. gone[req[q].token] <= req[q].age /\ Vouched(req[q].token)
      BY <2>1 DEF VerifierInv, Fresh, Vouched
    <2>. QED BY <1>1, <2>1, <2>2, BoundTypes DEF VerifierInv, VerifierTypeOK
  <1>6. Bounded'
    <2>. SUFFICES ASSUME NEW a \in Tokens, cache'[a].active, cache'[a].left > 0
                  PROVE  gone'[a] + cache'[a].left <= Lag
      BY DEF Bounded
    <2>1. cache[a].active /\ cache[a].left > 0 /\ cache'[a].left = cache[a].left - 1
      BY <1>2 DEF VerifierInv, VerifierTypeOK
    <2>2. gone[a] + cache[a].left <= Lag /\ Vouched(a)
      BY <2>1 DEF VerifierInv, VerifierTypeOK, Bounded, Vouched
    <2>. QED BY <1>1, <2>1, <2>2, BoundTypes DEF VerifierInv, VerifierTypeOK
  <1>7. Short'
    BY <1>1, <1>2 DEF VerifierInv, VerifierTypeOK, Short
  <1>8. LiveNow'
    BY <1>1 DEF VerifierInv, VerifierTypeOK, LiveNow, Live
  <1>. QED BY <1>4, <1>5, <1>6, <1>7, <1>8 DEF VerifierInv

LEMMA StepInv ==
  ASSUME VerifierInv, [VerifierNext]_verifierVars
  PROVE  VerifierInv'
  <1>1. ASSUME NEW a \in Tokens, Issue(a) \/ Revoke(a) PROVE VerifierInv'
    BY <1>1, IssueInv, RevokeInv
  <1>2. ASSUME NEW q \in Requests, NEW a \in Tokens, Lookup(q, a) PROVE VerifierInv'
    BY <1>2, LookupInv
  <1>3. ASSUME NEW q \in Requests,
               Answer(q) \/ Remember(q) \/ IntrospectFails(q) \/ Respond(q)
        PROVE  VerifierInv'
    BY <1>3, AnswerInv, RememberInv, IntrospectFailsInv, RespondInv
  <1>4. CASE VerifierTick
    BY <1>4, TickInv
  <1>5. CASE UNCHANGED verifierVars
    BY <1>5 DEF verifierVars, VerifierInv, VerifierTypeOK, Fresh, Bounded, Short, LiveNow, Live
  <1>. QED BY <1>1, <1>2, <1>3, <1>4, <1>5 DEF VerifierNext
-----------------------------------------------------------------------------
\* The verifier's state is well typed, whatever the bounds.
THEOREM VerifierTypeCorrect == VerifierSpec => []VerifierTypeOK
  <1>1. VerifierInv => VerifierTypeOK
    BY DEF VerifierInv
  <1>. QED BY InitInv, StepInv, <1>1, PTL DEF VerifierSpec

\* Where an acceptance comes from: a cached answer, or one that has just come.
LEMMA AcceptanceBy ==
  ASSUME VerifierInv, [VerifierNext]_verifierVars, NEW q \in Requests, Accepts(q)
  PROVE  LET a == req'[q].token IN
         /\ a \in Tokens
         /\ \/ /\ req[q].stage = "idle"
               /\ cache[a].active /\ cache[a].left > 0
            \/ /\ req[q].stage = "answered" /\ req[q].active
               /\ req[q].token = a
  <1>1. ASSUME NEW p \in Requests, NEW a \in Tokens, Lookup(p, a)
        PROVE  /\ req'[q].token \in Tokens /\ req[q].stage = "idle"
               /\ cache[req'[q].token].active /\ cache[req'[q].token].left > 0
    BY <1>1 DEF Accepts, VerifierInv, VerifierTypeOK, Lookup, Request, Verdict
  <1>2. ASSUME NEW p \in Requests, Remember(p)
        PROVE  /\ req'[q].token \in Tokens /\ req[q].stage = "answered" /\ req[q].active
               /\ req[q].token = req'[q].token
    BY <1>2 DEF Accepts, VerifierInv, VerifierTypeOK, Remember, Request, Verdict
  <1>3. ASSUME NEW p \in Requests, Answer(p) \/ IntrospectFails(p) \/ Respond(p) PROVE FALSE
    BY <1>3 DEF Accepts, VerifierInv, VerifierTypeOK, Answer, IntrospectFails, Respond, Request, Idle
  <1>4. ASSUME NEW a \in Tokens, Issue(a) \/ Revoke(a) PROVE FALSE
    BY <1>4 DEF Accepts, Issue, Revoke
  <1>5. CASE VerifierTick
    BY <1>5 DEF Accepts, VerifierTick
  <1>6. CASE UNCHANGED verifierVars
    BY <1>6 DEF Accepts, verifierVars
  <1>. QED BY <1>1, <1>2, <1>3, <1>4, <1>5, <1>6 DEF VerifierNext

\* A step accepts only tokens that died less than the lag ago, and, from a cached
\* answer with an expiry, only tokens that have not expired.
LEMMA StepAccepts ==
  ASSUME VerifierInv, [VerifierNext]_verifierVars, NEW q \in Requests, Accepts(q)
  PROVE  /\ gone[req'[q].token] < Lag
         /\ req[q].stage = "idle" /\ cache[req'[q].token].exp => life[req'[q].token] > 0
  <1>. DEFINE a == req'[q].token
  <1>1. a \in Tokens
    BY AcceptanceBy
  <1>2. CASE req[q].stage = "idle" /\ cache[a].active /\ cache[a].left > 0
    <2>1. gone[a] + cache[a].left <= Lag /\ (cache[a].exp => cache[a].left <= life[a])
      BY <1>1, <1>2 DEF VerifierInv, Bounded, Short
    <2>2. gone[a] \in Nat /\ cache[a].left \in Nat /\ life[a] \in Nat
      BY <1>1, BoundTypes DEF VerifierInv, VerifierTypeOK
    <2>. QED BY <1>2, <2>1, <2>2, BoundTypes
  <1>3. CASE req[q].stage = "answered" /\ req[q].active /\ req[q].token = a
    <2>1. gone[a] <= req[q].age
      BY <1>3 DEF VerifierInv, Fresh
    <2>2. gone[a] \in Nat /\ req[q].age \in Nat /\ req[q].age <= Timeout
      BY <1>1, BoundTypes DEF VerifierInv, VerifierTypeOK
    <2>. QED BY <1>3, <2>1, <2>2, BoundTypes
  <1>. QED BY <1>2, <1>3, AcceptanceBy

\* AcceptsRecent for any requests, tokens, life of a token, times to live and
\* timeout: no race of requests stretches the lag.
THEOREM AcceptsRecentHolds == VerifierSpec => AcceptsRecent
  <1>1. VerifierInv /\ [VerifierNext]_verifierVars
          => [\A q \in Requests : Accepts(q) => gone[req'[q].token] < Lag]_verifierVars
    BY StepAccepts
  <1>. QED BY InitInv, StepInv, <1>1, PTL DEF VerifierSpec, AcceptsRecent

\* ExpiryHonoured, likewise.
THEOREM ExpiryHonouredHolds == VerifierSpec => ExpiryHonoured
  <1>1. VerifierInv /\ [VerifierNext]_verifierVars
          => [\A q \in Requests :
                Accepts(q) /\ req[q].stage = "idle" /\ cache[req'[q].token].exp
                => life[req'[q].token] > 0]_verifierVars
    BY StepAccepts
  <1>. QED BY InitInv, StepInv, <1>1, PTL DEF VerifierSpec, ExpiryHonoured
=============================================================================
