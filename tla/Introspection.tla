---------------------------- MODULE Introspection ----------------------------
(***************************************************************************)
(* The verifier of internal/auth/auth.go: requests bear an access token,   *)
(* and the server asks the authorization server whether the token is live  *)
(* (RFC 7662), remembering the answer for a while.                         *)
(*                                                                         *)
(* Requests are concurrent.  Each is three steps: the look into the cache  *)
(* under v.mu, the answer of the authorization server, and, in another     *)
(* section of v.mu, the write of the answer into the cache.  Nothing keeps *)
(* two requests from asking about the same token, nor the earlier answer   *)
(* from being written last.                                                *)
(*                                                                         *)
(* Time is kept as what is left, in ticks: of the life of a token, of a    *)
(* cache entry, of the patience with the authorization server.  An entry   *)
(* with nothing left is never used again and is the same as none.  The     *)
(* claims of a token never change and those that do not admit it refuse    *)
(* each request alike (authorize), so only the live bit is modelled.       *)
(***************************************************************************)
EXTENDS Integers

CONSTANTS Requests,   \* requests alive at once
          Tokens,     \* access tokens alive at once
          NoToken,
          TokenTTL,   \* life of an access token, as the authorization server sets it
          PosTTL,     \* five minutes
          NegTTL,     \* thirty seconds
          Timeout,    \* how long introspect waits for its answer
          ExpClaims   \* whether the answers have an exp claim

ASSUME VerifierAssumption ==
    /\ NoToken \notin Tokens
    /\ TokenTTL \in Nat
    /\ PosTTL \in Nat \ {0}
    /\ NegTTL \in Nat \ {0}
    /\ Timeout \in Nat
    /\ ExpClaims \subseteq BOOLEAN

VARIABLES
    life,     \* per token: ticks until it expires
    revoked,  \* tokens the authorization server revoked before they expired
    cache,    \* v.cache: the answer and the ticks it has left
    req,      \* per request: where it is, and about which token
    \* Observer, read by no action:
    gone      \* per token: ticks since it ceased to be live, at once as many as it
              \* takes when no answer is left that says otherwise

verifierVars == <<life, revoked, cache, req, gone>>

\* An acceptance lags the authorization server by less than this.
Lag == PosTTL + Timeout

Request(stage, a) == [stage |-> stage, token |-> a, active |-> FALSE, exp |-> FALSE, age |-> 0]

Idle == Request("idle", NoToken)

NoEntry == [active |-> FALSE, exp |-> FALSE, left |-> 0]

VerifierTypeOK ==
    /\ life \in [Tokens -> 0..TokenTTL]
    /\ revoked \in SUBSET Tokens
    /\ cache \in [Tokens -> [active : BOOLEAN, exp : BOOLEAN, left : Nat]]
    /\ req \in [Requests -> [stage : {"idle", "asking", "answered", "accepted", "refused"},
                             token : Tokens \cup {NoToken}, active : BOOLEAN,
                             exp : BOOLEAN, age : 0..Timeout]]
    /\ gone \in [Tokens -> 0..Lag]
    /\ \A q \in Requests : req[q].token = NoToken <=> req[q].stage = "idle"

\* The verifier has an answer about a, or a request with it.
Known(a) == cache[a].left > 0 \/ \E q \in Requests : req[q].token = a

\* ... one that says the token is active.
Vouched(a) ==
    \/ cache[a].active /\ cache[a].left > 0
    \/ \E q \in Requests : req[q].token = a /\ req[q].stage = "answered" /\ req[q].active

Live(a) == life[a] > 0 /\ a \notin revoked

VerifierInit ==
    /\ life = [a \in Tokens |-> 0]
    /\ revoked = {}
    /\ cache = [a \in Tokens |-> NoEntry]
    /\ req = [q \in Requests |-> Idle]
    /\ gone = [a \in Tokens |-> Lag]
-----------------------------------------------------------------------------
(* The authorization server.                                               *)

\* A token value that stands for no token any more.
Unknown(a) == ~Live(a) /\ ~Known(a)

Issue(a) ==
    /\ Unknown(a)
    /\ life' = [life EXCEPT ![a] = TokenTTL]
    /\ revoked' = revoked \ {a}
    /\ gone' = [gone EXCEPT ![a] = 0]
    /\ UNCHANGED <<cache, req>>

Revoke(a) ==
    /\ Live(a)
    /\ revoked' = revoked \cup {a}
    /\ UNCHANGED <<life, cache, req, gone>>
-----------------------------------------------------------------------------
(* The verifier.                                                           *)

\* What becomes of the request when the token is said to be active, or not.
Verdict(active) == IF active THEN "accepted" ELSE "refused"

\* introspectCached looks up the token, and uses what it finds.
Lookup(q, a) ==
    /\ req[q].stage = "idle"
    /\ req' = [req EXCEPT ![q] =
                 Request(IF cache[a].left > 0 THEN Verdict(cache[a].active) ELSE "asking", a)]
    /\ UNCHANGED <<life, revoked, cache, gone>>

\* The authorization server says what it knows at this moment.
Answer(q) ==
    /\ req[q].stage = "asking"
    /\ \E e \in ExpClaims :
         req' = [req EXCEPT ![q] = [stage |-> "answered", token |-> @.token,
                                    active |-> Live(@.token), exp |-> e, age |-> @.age]]
    /\ UNCHANGED <<life, revoked, cache, gone>>

\* Mutant of EntryTTL: the expiry of the token is not looked at.
EntryTTLFlat(r) == IF r.active THEN PosTTL ELSE NegTTL

\* How long an answer is kept, decided when it has come.
EntryTTL(r) ==
    IF ~r.active THEN NegTTL
    ELSE IF r.exp /\ life[r.token] < PosTTL THEN life[r.token]
    ELSE PosTTL

\* Mutant of Remember: an entry that is there is prolonged, not replaced.
RememberLonger(q) ==
    /\ req[q].stage = "answered"
    /\ LET r == req[q] IN
         /\ cache' = [cache EXCEPT ![r.token] =
                        [active |-> r.active, exp |-> r.exp, left |-> @.left + EntryTTL(r)]]
         /\ req' = [req EXCEPT ![q] = Request(Verdict(r.active), r.token)]
    /\ UNCHANGED <<life, revoked, gone>>

\* The answer is written over whatever the cache holds, and used.
Remember(q) ==
    /\ req[q].stage = "answered"
    /\ LET r == req[q] IN
         /\ cache' = IF EntryTTL(r) > 0
                     THEN [cache EXCEPT ![r.token] =
                             [active |-> r.active, exp |-> r.exp, left |-> EntryTTL(r)]]
                     ELSE cache
         /\ req' = [req EXCEPT ![q] = Request(Verdict(r.active), r.token)]
    /\ UNCHANGED <<life, revoked, gone>>

\* No answer in time, a refused connection, an unreadable body, or a caller
\* that went away: fail closed, and remember nothing.
IntrospectFails(q) ==
    /\ req[q].stage \in {"asking", "answered"}
    /\ req' = [req EXCEPT ![q] = Request("refused", req[q].token)]
    /\ UNCHANGED <<life, revoked, cache, gone>>

\* The handler has answered.
Respond(q) ==
    /\ req[q].stage \in {"accepted", "refused"}
    /\ req' = [req EXCEPT ![q] = Idle]
    /\ UNCHANGED <<life, revoked, cache, gone>>

\* Mutant of InTime: the call has no timeout.
InTimeAlways == TRUE

\* Nothing waits for the authorization server past the timeout.
InTime == \A q \in Requests : req[q].stage \in {"asking", "answered"} => req[q].age < Timeout

\* One tick.
VerifierTick ==
    /\ InTime
    /\ life' = [a \in Tokens |-> IF life[a] > 0 THEN life[a] - 1 ELSE 0]
    /\ cache' = [a \in Tokens |->
                   IF cache[a].left > 1
                   THEN [active |-> cache[a].active, exp |-> cache[a].exp,
                         left |-> cache[a].left - 1]
                   ELSE NoEntry]
    /\ req' = [q \in Requests |->
                 IF req[q].stage \in {"asking", "answered"}
                 THEN [stage |-> req[q].stage, token |-> req[q].token, active |-> req[q].active,
                       exp |-> req[q].exp, age |-> req[q].age + 1]
                 ELSE req[q]]
    /\ revoked' = {a \in revoked : life[a] > 1}
    /\ gone' = [a \in Tokens |->
                  IF Live(a) THEN 0
                  ELSE IF Vouched(a) /\ gone[a] < Lag THEN gone[a] + 1 ELSE Lag]

VerifierNext ==
    \/ \E a \in Tokens : Issue(a) \/ Revoke(a)
    \/ \E q \in Requests, a \in Tokens : Lookup(q, a)
    \/ \E q \in Requests : Answer(q) \/ Remember(q) \/ IntrospectFails(q) \/ Respond(q)
    \/ VerifierTick

VerifierSpec == VerifierInit /\ [][VerifierNext]_verifierVars
-----------------------------------------------------------------------------
\* The request q is accepted in this step.
Accepts(q) == req[q].stage # "accepted" /\ req'[q].stage = "accepted"

\* A token that was revoked or has expired is accepted for less than the time
\* to live of an answer and the timeout of asking, whichever requests race and
\* whoever writes the cache last.
AcceptsRecent == [][\A q \in Requests : Accepts(q) => gone[req'[q].token] < Lag]_verifierVars

\* A cached answer that names an expiry never outlives the token: only a request
\* whose own answer was on its way when the token expired still gets through.
ExpiryHonoured ==
    [][\A q \in Requests :
         Accepts(q) /\ req[q].stage = "idle" /\ cache[req'[q].token].exp
         => life[req'[q].token] > 0]_verifierVars
=============================================================================
