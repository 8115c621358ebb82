------------------------------ MODULE JwksTrust ------------------------------
(***************************************************************************)
(* How long the security orchestrator trusts a signing key of the identity *)
(* service.                                                                *)
(*                                                                         *)
(* The identity service makes a new RSA key at every start, publishes it   *)
(* at /.well-known/jwks.json and signs access tokens with it.  The         *)
(* verifier of the orchestrator keeps the keys it downloaded for           *)
(* jwksCacheTTL; a call that finds no fresh key for its token downloads    *)
(* them, without a lock, so that downloads of several calls overlap and    *)
(* may be stored in another order than they were served.                   *)
(*                                                                         *)
(* Keys are numbered in the order they are made.  Steps of a goroutine     *)
(* take no time unless it waits for the network, and there at most         *)
(* Timeout: that is what the guard of Tick says.                           *)
(*                                                                         *)
(* Definitions named after a fault (RenewsAnyway, ...) stand beside the    *)
(* one they falsify; no action uses them.                                  *)
(***************************************************************************)
EXTENDS Integers

CONSTANTS
  Calls,     \* goroutines of the orchestrator that verify a token
  TokenTtl,  \* AccessTokenTTL
  CacheTtl,  \* jwksCacheTTL
  Timeout,   \* of the HTTP client that downloads the keys
  MaxKeys,   \* bound on the starts of the identity service
  MaxNow     \* bound on the clock

ASSUME JwksAssumption ==
  /\ TokenTtl \in Nat /\ CacheTtl \in Nat \ {0} /\ Timeout \in Nat
  /\ MaxKeys \in Nat \ {0} /\ MaxNow \in Nat

VARIABLES
  up,       \* whether the identity service runs
  key,      \* the last key it made
  born,     \* when each key was made
  retired,  \* when the process that held each key stopped
  cached,   \* the key in keysByKID, NoKey when there is none
  cachedAt, \* cachedAt
  call,     \* the state of each verification
  now

iam == <<up, key, born, retired>>
cache == <<cached, cachedAt>>
vars == <<iam, cache, call, now>>

-----------------------------------------------------------------------------
Keys == 1 .. MaxKeys

\* What an empty cache holds, and what a kid names that is of none of the keys.
NoKey == 0

NoCall == [pc |-> "idle", kid |-> NoKey, exp |-> 0, sent |-> 0, got |-> NoKey, at |-> 0]

Ended == {"idle", "accepted", "refused", "unknown"}

\* The key whose process is running.
Current(k) == up /\ k = key

\* Until when a key was in use.
LastUse(k) == IF Current(k) THEN now ELSE retired[k]

\* The access tokens that may have been issued so far.
Tokens == {[kid |-> k, exp |-> t + TokenTtl] :
             k \in 1 .. key, t \in 0 .. MaxNow}

Issued == {tok \in Tokens : /\ born[tok.kid] <= tok.exp - TokenTtl
                            /\ tok.exp - TokenTtl <= LastUse(tok.kid)}

\* Tokens that the identity service did not sign, with the kid of a key or of
\* none.  Their exp does not matter and is put before every clock.
Forged == {[kid |-> k, exp |-> 0] : k \in {NoKey} \cup 1 .. key}

\* time.Since(cachedAt) < jwksCacheTTL
Fresh == now - cachedAt < CacheTtl

\* keysByKID[kid] != nil
Has(kid) == kid # NoKey /\ cached = kid

\* What is kept of a verification that is over; of a refused one, nothing.
Refused == [NoCall EXCEPT !.pc = "refused"]
Over(verdict, kid) ==
  [pc |-> verdict, kid |-> kid, exp |-> 0, sent |-> 0, got |-> NoKey, at |-> now]

\* What follows from the map: an unknown kid, or a key by which the signature and
\* then exp are judged.
Found(kid, exp) ==
  IF Has(kid) THEN IF now < exp THEN Over("accepted", kid) ELSE Refused
  ELSE Over("unknown", kid)

MissingWhenStale(kid) == ~Fresh
Missing(kid) == ~Fresh \/ ~Has(kid)

\* Whether the request for the keys is still within the client's timeout.
Waits(c) == call[c].pc \in {"fetch", "store"}
InTime(c) == Waits(c) => now < call[c].sent + Timeout

-----------------------------------------------------------------------------
Init ==
  /\ up = TRUE /\ key = 1
  /\ born = [k \in Keys |-> 0] /\ retired = [k \in Keys |-> 0]
  /\ cached = NoKey /\ cachedAt = -CacheTtl
  /\ call = [c \in Calls |-> NoCall]
  /\ now = 0

\* The identity service stops, and starts again with a key of its own.
Stop ==
  /\ up
  /\ up' = FALSE
  /\ retired' = [retired EXCEPT ![key] = now]
  /\ UNCHANGED <<key, born, cache, call, now>>

Start ==
  /\ ~up /\ key < MaxKeys
  /\ up' = TRUE
  /\ key' = key + 1
  /\ born' = [born EXCEPT ![key + 1] = now]
  /\ UNCHANGED <<retired, cache, call, now>>

\* Another algorithm or no kid: refused before the keys are looked at.
Malformed(c) ==
  /\ call[c].pc \in Ended
  /\ call' = [call EXCEPT ![c] = Refused]
  /\ UNCHANGED <<iam, cache, now>>

\* The first half of getKey, under the read lock.
Verify(c, tok) ==
  /\ call[c].pc \in Ended
  /\ \/ /\ ~Missing(tok.kid)
        /\ call' = [call EXCEPT ![c] = Found(tok.kid, tok.exp)]
     \/ /\ Missing(tok.kid)
        /\ call' = [call EXCEPT ![c] =
             [NoCall EXCEPT !.pc = "fetch", !.kid = tok.kid, !.exp = tok.exp,
                            !.sent = now]]
  /\ UNCHANGED <<iam, cache, now>>

\* JWKSHandler answers with its one key.
JWKSHandler(c) ==
  /\ call[c].pc = "fetch" /\ up
  /\ call' = [call EXCEPT ![c].pc = "store", ![c].got = key]
  /\ UNCHANGED <<iam, cache, now>>

\* No connection, a status other than 200, a timeout, a body that breaks off.
RenewsAnyway(c) ==
  /\ Waits(c)
  /\ call' = [call EXCEPT ![c] = Refused]
  /\ cachedAt' = now
  /\ UNCHANGED <<iam, cached, now>>

RefreshFails(c) ==
  /\ Waits(c)
  /\ call' = [call EXCEPT ![c] = Refused]
  /\ UNCHANGED <<iam, cache, now>>

\* The end of refresh, under the write lock.
Refresh(c) ==
  /\ call[c].pc = "store"
  /\ cached' = call[c].got
  /\ cachedAt' = now
  /\ call' = [call EXCEPT ![c].pc = "reread"]
  /\ UNCHANGED <<iam, now>>

\* The second half of getKey, under the read lock again.
GetKey(c) ==
  /\ call[c].pc = "reread"
  /\ call' = [call EXCEPT ![c] = Found(call[c].kid, call[c].exp)]
  /\ UNCHANGED <<iam, cache, now>>

\* The orchestrator starts anew with an empty cache.
Reset ==
  /\ cached # NoKey \/ \E c \in Calls : call[c].pc \notin Ended
  /\ cached' = NoKey /\ cachedAt' = -CacheTtl
  /\ call' = [c \in Calls |-> IF call[c].pc \in Ended THEN call[c] ELSE NoCall]
  /\ UNCHANGED <<iam, now>>

Tick ==
  /\ now < MaxNow
  /\ \A c \in Calls : call[c].pc # "reread" /\ InTime(c)
  /\ now' = now + 1
  /\ UNCHANGED <<iam, cache, call>>

Next ==
  \/ Stop \/ Start \/ Reset \/ Tick
  \/ \E c \in Calls :
       \/ Malformed(c) \/ JWKSHandler(c) \/ RefreshFails(c)
       \/ Refresh(c) \/ GetKey(c)
       \/ \E tok \in Issued \cup Forged : Verify(c, tok)

Spec == Init /\ [][Next]_vars

-----------------------------------------------------------------------------
(* Properties *)

TypeOK ==
  /\ up \in BOOLEAN /\ key \in Keys
  /\ born \in [Keys -> Nat] /\ retired \in [Keys -> Nat]
  /\ cached \in {NoKey} \cup Keys /\ cachedAt \in -CacheTtl .. now
  /\ call \in [Calls -> [pc : Ended \cup {"fetch", "store", "reread"},
                         kid : {NoKey} \cup Keys, exp : Nat, sent : Nat,
                         got : {NoKey} \cup Keys, at : Nat]]
  /\ now \in Nat

\* A token that is accepted although the identity service no longer has its
\* key is accepted soon after: the time the key was cached, plus the time its
\* download may have taken.  A slow download that puts back an older key does
\* not start the wait again, nor does an outage of the identity service.
StaleKeyBounded ==
  \A c \in Calls :
    LET k == call[c].kid IN
    call[c].pc = "accepted" /\ ~Current(k) =>
      call[c].at <= retired[k] + CacheTtl + Timeout

\* Downloads that overlap a restart can make a verification fail for a key it
\* has just downloaded itself; but once the timeout has passed since the old
\* process stopped, a token of the running one is never of unknown key.
UnknownSettles ==
  \A c \in Calls :
    LET k == call[c].kid IN
    call[c].pc = "unknown" /\ Current(k) =>
      k > 1 /\ call[c].at <= retired[k - 1] + Timeout

\* jwt.go: the tokens issued before a restart are invalidated.  In particular, no
\* call of Verify that begins and ends while a newer process runs accepts a token
\* of an older one, on the word of keys that were stored before the newer one
\* started.
RestartInvalidates ==
  [][\A c \in Calls :
       /\ up /\ cachedAt < born[key]
       /\ call[c].pc \in Ended /\ call'[c] # call[c] /\ call'[c].pc = "accepted"
       => call'[c].kid = key]_vars
=============================================================================
