--------------------------- MODULE LoginRateLimit ---------------------------
(***************************************************************************)
(* The failed-login limiter of the identity service: the collection        *)
(* rate_limits, and the handlers that consult it, which are the password   *)
(* login and the two halves of the WebAuthn login ceremony.                *)
(*                                                                         *)
(* A handler reads the counter of the client address, examines the         *)
(* credentials, and only then counts a failure or forgets the earlier      *)
(* ones; other handlers run in between.  Time is kept per record, as what  *)
(* is left until expires_at: nothing else is known of the clock.           *)
(*                                                                         *)
(* Definitions named after a fault (TooLate, DenyAndExtend, ...) stand     *)
(* beside the one they falsify; no action uses them.                       *)
(***************************************************************************)
EXTENDS Integers, FiniteSets

CONSTANTS
  Ips,          \* client addresses
  Workers,      \* goroutines that serve logins, at most this many at once
  Kinds,        \* which of the handlers are used
  MaxAttempts,  \* MaxLoginAttempts
  Block,        \* BlockDuration in ticks
  FailingReads, \* handlers whose read of the counter can fail
  Cap           \* bound on the counter, beyond which it no longer counts

ASSUME LimitAssumption ==
  /\ Kinds \subseteq {"login", "begin", "finish"}
  /\ IsFiniteSet(Workers)
  /\ MaxAttempts \in Nat \ {0}
  /\ Block \in Nat
  /\ FailingReads \subseteq Kinds
  /\ Cap \in Nat /\ Cap >= MaxAttempts + Cardinality(Workers)

VARIABLES
  limit,   \* rate_limits: attempts = 0 when there is no record of an address
  work,    \* the state of each goroutine
  streak   \* failures written since the address last had no live record

vars == <<limit, work, streak>>

-----------------------------------------------------------------------------
NoRecord == [attempts |-> 0, left |-> -1]

IdleWorker == [pc |-> "idle", ip |-> "none", kind |-> "none"]

\* What examining the request can lead to: a failure to count, a success
\* that forgets the failures, or neither.  A password login without a body
\* that decodes is neither; so is a ceremony opened for an account that does
\* not exist, which gets a decoy.
Outcomes == [login  |-> {"record", "reset", "idle"},
             begin  |-> {"record", "idle"},
             finish |-> {"record", "reset"}]

\* time.Now().After(expires_at)
Expired(ip) == limit[ip].left < 0

TooLate(ip) == ~Expired(ip) /\ limit[ip].attempts > MaxAttempts
Exceeded(ip) == ~Expired(ip) /\ limit[ip].attempts >= MaxAttempts

Goto(w, where) == work' = [work EXCEPT ![w].pc = where]

\* $inc attempts, $set expires_at, upsert: an expired record that is still
\* there is taken up again with the count it had.
Incremented(ip) ==
  IF limit[ip].attempts < Cap THEN limit[ip].attempts + 1 ELSE Cap

\* The expiry is set anew, not moved on from what it was.
Failed(ip) ==
  /\ limit' = [limit EXCEPT ![ip] =
                 [attempts |-> Incremented(ip), left |-> Block]]
  /\ streak' = [streak EXCEPT ![ip] = @ + 1]

Forget(ip) ==
  /\ limit' = [limit EXCEPT ![ip] = NoRecord]
  /\ streak' = [streak EXCEPT ![ip] = 0]

-----------------------------------------------------------------------------
Init ==
  /\ limit = [ip \in Ips |-> NoRecord]
  /\ work = [w \in Workers |-> IdleWorker]
  /\ streak = [ip \in Ips |-> 0]

Arrive(w, ip, kind) ==
  /\ work[w].pc = "idle"
  /\ work' = [work EXCEPT ![w] = [pc |-> "check", ip |-> ip, kind |-> kind]]
  /\ UNCHANGED <<limit, streak>>

\* 429: the attempt is not counted and the block not prolonged.
DenyAndExtend(w) ==
  /\ Goto(w, "idle")
  /\ limit' = [limit EXCEPT ![work[w].ip].left = Block]
  /\ UNCHANGED streak
Deny(w) == Goto(w, "idle") /\ UNCHANGED <<limit, streak>>

\* A read that fails stops a password login with 500; the WebAuthn handlers
\* look for ErrRateLimitExceeded only and go on.
CheckRateLimit(w) ==
  LET ip == work[w].ip IN
  /\ work[w].pc = "check"
  /\ \/ Exceeded(ip) /\ Deny(w)
     \/ /\ ~Exceeded(ip)
        /\ Goto(w, "examine")
        /\ UNCHANGED <<limit, streak>>
     \/ /\ work[w].kind \in FailingReads
        /\ Goto(w, IF work[w].kind = "login" THEN "idle" ELSE "examine")
        /\ UNCHANGED <<limit, streak>>

\* The credentials, the client certificate or the assertion are examined.
Examine(w) ==
  /\ work[w].pc = "examine"
  /\ \E outcome \in Outcomes[work[w].kind] : Goto(w, outcome)
  /\ UNCHANGED <<limit, streak>>

\* An error of the write is logged and the failure not counted.
RecordFailure(w) ==
  /\ work[w].pc = "record"
  /\ Failed(work[w].ip) \/ UNCHANGED <<limit, streak>>
  /\ Goto(w, "idle")

\* An error of the deletion is ignored.
ResetLimit(w) ==
  /\ work[w].pc = "reset"
  /\ Forget(work[w].ip) \/ UNCHANGED <<limit, streak>>
  /\ Goto(w, "idle")

\* The TTL monitor removes one record at a time; the goroutine started by
\* main removes all that have expired.
Anything(ip) == limit[ip].attempts # 0
Stale(ip) == limit[ip].attempts # 0 /\ Expired(ip)

TtlDelete(ip) ==
  /\ Stale(ip)
  /\ Forget(ip)
  /\ UNCHANGED work

CleanupExpired ==
  /\ \E ip \in Ips : Stale(ip)
  /\ limit' = [ip \in Ips |-> IF Stale(ip) THEN NoRecord ELSE limit[ip]]
  /\ streak' = [ip \in Ips |-> IF Stale(ip) THEN 0 ELSE streak[ip]]
  /\ UNCHANGED work

\* The process stops; the failures its goroutines had found are not counted.
Restart ==
  /\ \E w \in Workers : work[w].pc # "idle"
  /\ work' = [w \in Workers |-> IdleWorker]
  /\ UNCHANGED <<limit, streak>>

\* A record past its expiry counts for nothing, so a new streak begins.
Tick ==
  /\ \E ip \in Ips : ~Expired(ip)
  /\ limit' = [ip \in Ips |-> IF Expired(ip) THEN limit[ip]
                              ELSE [limit[ip] EXCEPT !.left = @ - 1]]
  /\ streak' = [ip \in Ips |-> IF limit[ip].left <= 0 THEN 0 ELSE streak[ip]]
  /\ UNCHANGED work

Handle(w) ==
  CheckRateLimit(w) \/ Examine(w) \/ RecordFailure(w) \/ ResetLimit(w)

Next ==
  \/ \E w \in Workers, ip \in Ips, kind \in Kinds : Arrive(w, ip, kind)
  \/ \E w \in Workers : Handle(w)
  \/ \E ip \in Ips : TtlDelete(ip)
  \/ CleanupExpired \/ Restart \/ Tick

Spec == Init /\ [][Next]_vars

\* Goroutines run, calls to the database end, and time passes; clients owe
\* nothing, and the removal of stale records is not relied on.
FairSpec == Spec /\ WF_vars(Tick) /\ \A w \in Workers : WF_vars(Handle(w))

-----------------------------------------------------------------------------
(* Properties *)

TypeOK ==
  /\ limit \in [Ips -> [attempts : 0 .. Cap, left : -1 .. Block]]
  /\ work \in [Workers -> [pc : {"idle", "check", "examine", "record", "reset"},
                           ip : Ips \cup {"none"}, kind : Kinds \cup {"none"}]]
  /\ \A w \in Workers :
       work[w].pc # "idle" => work[w].ip \in Ips /\ work[w].kind \in Kinds
  /\ streak \in [Ips -> Nat]

\* Requests that the limiter has let pass and that have not ended.
Admitted(ip) ==
  {w \in Workers : work[w].ip = ip /\ work[w].pc \in {"examine", "record", "reset"}}

\* The limit is tested before the credentials are examined and the counter
\* written after, so MaxLoginAttempts can be passed; but only by requests
\* that were already under way.  Between two moments when an address has no
\* live record, the failures written and the requests let through are fewer
\* than the limit plus the number of concurrent handlers.
GuessesBounded ==
  \A ip \in Ips :
    streak[ip] + Cardinality(Admitted(ip))
      <= MaxAttempts - 1 + Cardinality(Workers)

\* A record that has not expired loses its count only to a handler, for the
\* same address, whose login succeeded: not to the cleanup, to the TTL index,
\* or to the login of another client.
CountsSurvive ==
  [][\A ip \in Ips :
       ~Expired(ip) /\ limit'[ip].attempts < limit[ip].attempts =>
         \E w \in Workers : work[w].pc = "reset" /\ work[w].ip = ip]_vars

\* A blocked address is let in again, however often it goes on asking: 429
\* does not extend the block, and the requests admitted before it are few.
BlockLifts == \A ip \in Ips : Exceeded(ip) ~> ~Exceeded(ip)
=============================================================================
