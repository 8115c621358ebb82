---------------------------- MODULE OtpSessions ----------------------------
(***************************************************************************)
(* The second factor of the identity service: the MongoDB collection       *)
(* otp_sessions, and the goroutines that serve POST /api/verify-otp.       *)
(*                                                                         *)
(* A login stores a document (session_token, OTP hash, attempts = 0); each *)
(* verify-otp request charges one attempt with a single FindOneAndUpdate,  *)
(* compares the code, deletes the document and signs a token.  Every call  *)
(* to the database is a step of its own, so that requests interleave       *)
(* between any two of them, and every call may fail.                       *)
(*                                                                         *)
(* The token of a password login is random and is stored once.  The token  *)
(* of a session in EarlyTokens is the session_id of a WebAuthn ceremony:   *)
(* it is known to the client before the document exists, and FinishLogin   *)
(* stores it again if it finds the same challenge again.                   *)
(*                                                                         *)
(* Definitions named after a fault (UnlimitedlyAvailable, SkipClean, ...)  *)
(* stand beside the one they falsify; no action uses them.                 *)
(***************************************************************************)
EXTENDS Naturals, FiniteSets

CONSTANTS
  Users,        \* accounts
  Sessions,     \* OTP session tokens
  Requests,     \* verify-otp requests, each served by a goroutine of its own
  Owner,        \* Owner[s]: the user_id stored in session s
  EarlyTokens,  \* sessions whose token is the session_id of a ceremony
  MaxAttempts,  \* maxOTPAttempts
  Ttl,          \* expireAfterSeconds of the index on created_at, in ticks
  MaxNow        \* bound on the clock

ASSUME OtpAssumption ==
  /\ MaxAttempts \in Nat \ {0}
  /\ Ttl \in Nat
  /\ MaxNow \in Nat
  /\ Owner \in [Sessions -> Users]
  /\ EarlyTokens \subseteq Sessions

VARIABLES
  otp,        \* otp_sessions; a deleted document keeps its last contents here
  lastLogin,  \* identity_users.last_login_info.timestamp, 0 before any login
  req,        \* the state of each verify-otp goroutine
  jobs,       \* requests whose background UpdateLastLogin has not run yet
  now

vars == <<otp, lastLogin, req, jobs, now>>

-----------------------------------------------------------------------------
(* Documents and goroutines *)

\* Where a goroutine stands: the call it makes next.
Working == {"consume", "lookup", "purge", "compare", "clean", "user", "issue"}

\* What the client was told; "lost" when the process died under the request.
Answers == {"token", "wrong", "unauthorized", "forbidden", "error", "bad",
            "lost"}

NoSession == [status |-> "unborn", attempts |-> 0, created |-> 0]

Idle == [pc |-> "idle", sess |-> "none", right |-> FALSE, got |-> 0,
         kept |-> FALSE, late |-> FALSE, at |-> 0]

Live(s) == otp[s].status = "live"

\* Sessions that are stored once, and whose token is told only then.
FreshTokens == Sessions \ EarlyTokens

\* The filter of the FindOneAndUpdate.
UnlimitedlyAvailable(s) == Live(s)
SoonUnavailable(s) == Live(s) /\ otp[s].attempts + 1 < MaxAttempts
Available(s) == Live(s) /\ otp[s].attempts < MaxAttempts

\* What the update returns: the document after the increment.
BeforeImage(s) == otp[s].attempts
AfterImage(s) == otp[s].attempts + 1

\* A document the TTL monitor may remove.
NeverExpired(s) == FALSE
Expired(s) == Live(s) /\ now >= otp[s].created + Ttl

\* The time that UpdateLastLogin writes: taken when the goroutine is started.
StampedLate(r) == now
Stamp(r) == req[r].at

Goto(r, where) == req' = [req EXCEPT ![r].pc = where]

Remove(s) == otp' = [otp EXCEPT ![s].status = "gone"]

-----------------------------------------------------------------------------
Init ==
  /\ otp = [s \in Sessions |-> NoSession]
  /\ lastLogin = [u \in Users |-> 0]
  /\ req = [r \in Requests |-> Idle]
  /\ jobs = {}
  /\ now = 1

\* A login stores its session; the guard on the clock lets it expire in time.
\* The unique index on session_token refuses the token of a ceremony while it is
\* stored, not when it is gone.
Create(s) ==
  /\ otp[s].status = "unborn" \/ (s \in EarlyTokens /\ otp[s].status = "gone")
  /\ now + Ttl <= MaxNow
  /\ otp' = [otp EXCEPT ![s] =
               [status |-> "live", attempts |-> 0, created |-> now]]
  /\ UNCHANGED <<lastLogin, req, jobs, now>>

\* A session somebody logged in with before, and whose deletion succeeded.
Redeemed(s) ==
  \E q \in Requests : req[q].pc = "token" /\ req[q].sess = s /\ ~req[q].kept

\* A request with a session token its client has seen and a code.
Arrive(r, s, right) ==
  /\ req[r].pc = "idle"
  /\ otp[s].status # "unborn" \/ s \in EarlyTokens
  /\ req' = [req EXCEPT ![r] = [Idle EXCEPT !.pc = "consume", !.sess = s,
                                !.right = right, !.late = Redeemed(s)]]
  /\ UNCHANGED <<otp, lastLogin, jobs, now>>

\* The body does not decode, or a field is missing.
ForgetsToReturn(r) ==
  /\ req[r].pc = "idle"
  /\ Goto(r, "consume")
  /\ UNCHANGED <<otp, lastLogin, jobs, now>>

BadRequest(r) ==
  /\ req[r].pc = "idle"
  /\ Goto(r, "bad")
  /\ UNCHANGED <<otp, lastLogin, jobs, now>>

\* FindOneAndUpdate: one attempt is charged if the limit allows it.  A call
\* that fails may still have been applied.
ConsumeAttempt(r) ==
  LET s == req[r].sess IN
  /\ req[r].pc = "consume"
  /\ \/ /\ Available(s)
        /\ otp' = [otp EXCEPT ![s].attempts = @ + 1]
        /\ \E where \in {"compare", "error"} :
             req' = [req EXCEPT ![r].pc = where, ![r].got = AfterImage(s)]
     \/ /\ ~Available(s)
        /\ Goto(r, "lookup")
        /\ UNCHANGED otp
     \/ /\ Goto(r, "error")
        /\ UNCHANGED otp
  /\ UNCHANGED <<lastLogin, jobs, now>>

\* The follow-up FindOne tells a missing session from an exhausted one; its
\* errors count as missing.
RetryLookup(r) ==
  /\ req[r].pc = "lookup"
  /\ Goto(r, IF Live(req[r].sess) THEN "purge" ELSE "consume")
  /\ UNCHANGED <<otp, lastLogin, jobs, now>>

Lookup(r) ==
  /\ req[r].pc = "lookup"
  /\ \/ Live(req[r].sess) /\ Goto(r, "purge")
     \/ Goto(r, "unauthorized")
  /\ UNCHANGED <<otp, lastLogin, jobs, now>>

\* Exhausted: the session is deleted, an error of the deletion ignored.
Purge(r) ==
  /\ req[r].pc = "purge"
  /\ Remove(req[r].sess) \/ UNCHANGED otp
  /\ Goto(r, "forbidden")
  /\ UNCHANGED <<lastLogin, jobs, now>>

CompareOTP(r) ==
  /\ req[r].pc = "compare"
  /\ Goto(r, IF req[r].right THEN "clean" ELSE "wrong")
  /\ UNCHANGED <<otp, lastLogin, jobs, now>>

\* The right code: the session is deleted, an error ignored.  A deletion that
\* finds no document is no error.
SkipClean(r) ==
  /\ req[r].pc = "clean"
  /\ Goto(r, "user")
  /\ UNCHANGED <<otp, lastLogin, jobs, now>>

Clean(r) ==
  /\ req[r].pc = "clean"
  /\ \/ /\ otp' = [otp EXCEPT ![req[r].sess].status = "gone"]
        /\ Goto(r, "user")
     \/ /\ req' = [req EXCEPT ![r].pc = "user", ![r].kept = TRUE]
        /\ UNCHANGED otp
  /\ UNCHANGED <<lastLogin, jobs, now>>

FindUser(r) ==
  /\ req[r].pc = "user"
  /\ Goto(r, "issue") \/ Goto(r, "error")
  /\ UNCHANGED <<otp, lastLogin, jobs, now>>

\* The device lookup only chooses a claim; the token is signed, and a
\* goroutine is left behind to write last_login_info.
Issue(r) ==
  /\ req[r].pc = "issue"
  /\ \/ /\ req' = [req EXCEPT ![r].pc = "token", ![r].at = now]
        /\ jobs' = jobs \cup {r}
     \/ Goto(r, "error") /\ UNCHANGED jobs
  /\ UNCHANGED <<otp, lastLogin, now>>

UpdateLastLogin(r) ==
  /\ r \in jobs
  /\ jobs' = jobs \ {r}
  /\ \/ lastLogin' = [lastLogin EXCEPT ![Owner[req[r].sess]] = Stamp(r)]
     \/ UNCHANGED lastLogin
  /\ UNCHANGED <<otp, req, now>>

\* The process stops: its goroutines are gone, the database is not.
Restart ==
  /\ \E r \in Requests : req[r].pc \in Working \/ r \in jobs
  /\ req' = [r \in Requests |->
               IF req[r].pc \in Working THEN [req[r] EXCEPT !.pc = "lost"]
                                        ELSE req[r]]
  /\ jobs' = {}
  /\ UNCHANGED <<otp, lastLogin, now>>

\* The TTL monitor of MongoDB, which runs when it pleases.
TtlDelete(s) ==
  /\ Expired(s)
  /\ Remove(s)
  /\ UNCHANGED <<lastLogin, req, jobs, now>>

Tick ==
  /\ now < MaxNow
  /\ now' = now + 1
  /\ UNCHANGED <<otp, lastLogin, req, jobs>>

\* The clock has reached its bound and every request of the instance is over.
Finished ==
  /\ now = MaxNow /\ jobs = {}
  /\ \A r \in Requests : req[r].pc \in Answers
  /\ UNCHANGED vars

Handle(r) ==
  \/ ConsumeAttempt(r) \/ Lookup(r) \/ Purge(r) \/ CompareOTP(r)
  \/ Clean(r) \/ FindUser(r) \/ Issue(r)

Next ==
  \/ \E s \in Sessions : Create(s) \/ TtlDelete(s)
  \/ \E r \in Requests, s \in Sessions, right \in BOOLEAN : Arrive(r, s, right)
  \/ \E r \in Requests : BadRequest(r) \/ Handle(r) \/ UpdateLastLogin(r)
  \/ Restart \/ Tick \/ Finished

Spec == Init /\ [][Next]_vars

\* Every call has a timeout of 3 s, so a goroutine is never stuck; the TTL
\* monitor and the clock do not stop.
Fairness ==
  /\ \A r \in Requests : WF_vars(Handle(r)) /\ WF_vars(UpdateLastLogin(r))
  /\ \A s \in Sessions : WF_vars(TtlDelete(s))
  /\ WF_vars(Tick)

FairSpec == Spec /\ Fairness

-----------------------------------------------------------------------------
(* Properties *)

TypeOK ==
  /\ otp \in [Sessions -> [status : {"unborn", "live", "gone"},
                           attempts : Nat, created : Nat]]
  /\ lastLogin \in [Users -> Nat]
  /\ req \in [Requests -> [pc : {"idle"} \cup Working \cup Answers,
                           sess : Sessions \cup {"none"}, right : BOOLEAN,
                           got : Nat, kept : BOOLEAN, late : BOOLEAN,
                           at : Nat]]
  /\ \A r \in Requests :
       req[r].pc \notin {"idle", "bad"} => req[r].sess \in Sessions
  /\ \A r \in jobs : r \in Requests /\ req[r].sess \in Sessions
  /\ now \in Nat

\* The requests that were charged an attempt on s.
Charged(s) == {r \in Requests : req[r].got # 0 /\ req[r].sess = s}

\* However the requests interleave, a session that is stored once lets at most
\* maxOTPAttempts codes be compared, counting what failed calls and killed
\* requests used up (otp_repo.go: two concurrent requests cannot both pass the
\* limit).
ComparisonsBounded ==
  \A s \in FreshTokens : Cardinality(Charged(s)) <= MaxAttempts

Remaining(r) == MaxAttempts - req[r].got

\* Two wrong answers on one session that is stored once are never told the same
\* number of remaining attempts, and nobody is told that all of them remain or
\* that fewer than none do (verify_otp.go clamps at 0: the clamp never acts).
RemainingToldOnce ==
  \A r \in Requests : req[r].pc = "wrong" =>
    /\ req[r].got \in 1 .. MaxAttempts
    /\ \A q \in Requests \ {r} :
         req[q].pc = "wrong" /\ req[q].sess = req[r].sess
         /\ req[r].sess \in FreshTokens => Remaining(q) # Remaining(r)

\* A client is told that its attempts are used up, and its session deleted,
\* only when they are: ErrAttemptsExceeded is an existing session whose
\* attempts are at the limit, although the limit was tested by one call and
\* the existence by a second one.  (A session of a ceremony may be stored between
\* the two calls.)
ExceededIsTrue ==
  \A r \in Requests :
    req[r].pc \in {"purge", "forbidden"} /\ req[r].sess \in FreshTokens =>
      otp[req[r].sess].attempts = MaxAttempts

\* Once a password login is completed and its session deleted, a request that
\* arrives later never gets as far as a comparison with the same session token.
\* (After a WebAuthn login it may, if the ceremony has been finished once more.)
NoReplay ==
  \A r \in Requests : req[r].late /\ req[r].sess \in FreshTokens =>
    req[r].pc \notin {"compare", "wrong", "clean", "user", "issue", "token"}

\* last_login_info holds the time of some token issued to that user, in
\* whatever order the background updates of several logins run.
LastLoginIsALogin ==
  \A u \in Users : lastLogin[u] # 0 =>
    \E r \in Requests : /\ req[r].pc = "token" /\ req[r].at = lastLogin[u]
                        /\ Owner[req[r].sess] = u

\* Every request is answered, or its process died.
RequestsAnswered ==
  \A r \in Requests : req[r].pc \in Working ~> req[r].pc \in Answers

\* A session nobody redeems does not stay in the database.
SessionsExpire == \A s \in Sessions : Live(s) ~> ~Live(s)
=============================================================================
