------------------------- MODULE OtpSessionsProofs -------------------------
(***************************************************************************)
(* Safety of OtpSessions for any number of users, sessions and requests,   *)
(* any limit of attempts and any clock.  What is said of single sessions   *)
(* is said of those that are stored once (FreshTokens).                    *)
(*                                                                         *)
(* The bound on comparisons is not inductive: the number of charged        *)
(* requests says nothing about the counter of the document.  The invariant *)
(* IInv says that every charged request holds a number of its own between  *)
(* 1 and the counter; the charged requests of a session then inject into   *)
(* 1 .. MaxAttempts.                                                       *)
(*                                                                         *)
(* What is stored once stays gone, hence NoReplay (ReplayInv).  Each place in the *)
(* handler has a rank, which every step of a request raises (Forward).     *)
(***************************************************************************)
EXTENDS OtpSessions, FiniteSetTheorems, TLAPS

AttemptsBounded == \A s \in Sessions : otp[s].attempts <= MaxAttempts

\* A charged request holds a number within the limit, and knows a session that
\* was stored; if once only, its number is not above the session's counter.
ChargedKnown ==
  \A r \in Requests : req[r].got # 0 =>
    /\ req[r].sess \in Sessions /\ req[r].got <= MaxAttempts
    /\ req[r].sess \in FreshTokens =>
         /\ otp[req[r].sess].status # "unborn"
         /\ req[r].got <= otp[req[r].sess].attempts

\* No two requests charged on one session hold the same number.
ChargedApart ==
  \A q, r \in Requests :
    /\ req[q].got # 0
    /\ req[q].got = req[r].got
    /\ req[q].sess = req[r].sess /\ req[r].sess \in FreshTokens
    => q = r

\* Past ConsumeAttempt a request is charged, before it is not.
AfterCharge == {"compare", "clean", "user", "issue", "wrong", "token"}
BeforeCharge == {"idle", "consume", "lookup", "purge", "unauthorized",
                 "forbidden", "bad"}

ChargedByPc ==
  \A r \in Requests :
    /\ req[r].pc \in AfterCharge => req[r].got # 0
    /\ req[r].pc \in BeforeCharge => req[r].got = 0

IInv == TypeOK /\ AttemptsBounded /\ ChargedKnown /\ ChargedApart /\ ChargedByPc

-----------------------------------------------------------------------------
LEMMA InitIInv == Init => IInv
  BY OtpAssumption
     DEF Init, IInv, TypeOK, AttemptsBounded, ChargedKnown, ChargedApart,
         ChargedByPc, AfterCharge, BeforeCharge, NoSession, Idle, Working, Answers

\* The request charges nothing and the step neither stores a session nor
\* touches a counter.
Uncharged ==
  /\ \A q \in Requests : req'[q].got = req[q].got /\ req'[q].sess = req[q].sess
  /\ \A s \in Sessions :
       /\ otp'[s].attempts = otp[s].attempts
       /\ otp'[s].status = "unborn" => otp[s].status = "unborn"

LEMMA UnchargedKeeps ==
  ASSUME IInv, Uncharged
  PROVE  AttemptsBounded' /\ ChargedKnown' /\ ChargedApart'
<1>1. AttemptsBounded'
  BY DEF IInv, AttemptsBounded, Uncharged
<1>2. ChargedKnown'
  BY DEF IInv, TypeOK, ChargedKnown, Uncharged
<1>3. ChargedApart'
  BY DEF IInv, ChargedApart, Uncharged
<1>4. QED
  BY <1>1, <1>2, <1>3

\* A request that only moves on, its session perhaps removed, keeps IInv.
LEMMA GotoKeeps ==
  ASSUME IInv, NEW r \in Requests, NEW where \in Working \cup Answers,
         Goto(r, where), UNCHANGED <<lastLogin, jobs, now>>,
         where = "bad" \/ req[r].sess \in Sessions,
         where \in AfterCharge => req[r].got # 0,
         where \in BeforeCharge => req[r].got = 0,
         otp' = otp \/ (req[r].sess \in Sessions /\ Remove(req[r].sess))
  PROVE  IInv'
<1>0. TypeOK /\ ChargedByPc
  BY DEF IInv
<1>1. /\ req' \in [Requests -> [pc : {"idle"} \cup Working \cup Answers,
                               sess : Sessions \cup {"none"}, right : BOOLEAN,
                               got : Nat, kept : BOOLEAN, late : BOOLEAN,
                               at : Nat]]
      /\ \A q \in Requests : /\ req'[q].sess = req[q].sess
                             /\ req'[q].got = req[q].got
                             /\ q # r => req'[q].pc = req[q].pc
      /\ req'[r].pc = where
  BY <1>0 DEF TypeOK, Goto
<1>2. /\ otp' \in [Sessions -> [status : {"unborn", "live", "gone"},
                               attempts : Nat, created : Nat]]
      /\ \A s \in Sessions : /\ otp'[s].attempts = otp[s].attempts
                             /\ otp'[s].status = "unborn"
                                  => otp[s].status = "unborn"
  BY SMTT(20), <1>0 DEF TypeOK, Remove
<1>3. TypeOK'
  BY <1>0, <1>1, <1>2 DEF TypeOK
<1>4. Uncharged
  BY <1>1, <1>2 DEF Uncharged
<1>5. ChargedByPc'
  BY <1>0, <1>1 DEF ChargedByPc
<1>6. QED
  BY <1>3, <1>4, <1>5, UnchargedKeeps DEF IInv

LEMMA NextIInv == IInv /\ [Next]_vars => IInv'
<1> SUFFICES ASSUME IInv, [Next]_vars PROVE IInv'
  OBVIOUS
<1>0. TypeOK /\ AttemptsBounded /\ ChargedKnown /\ ChargedApart /\ ChargedByPc
  BY DEF IInv
<1>1. ASSUME NEW s \in Sessions, Create(s) PROVE IInv'
  <2>1. /\ UNCHANGED <<lastLogin, req, jobs, now>>
        /\ \A t \in Sessions \ {s} : otp'[t] = otp[t]
        /\ s \in FreshTokens => otp[s].status = "unborn"
    BY <1>0, <1>1 DEF Create, TypeOK, FreshTokens
  <2>2. TypeOK' /\ AttemptsBounded'
    BY <1>0, <1>1, OtpAssumption
       DEF Create, TypeOK, AttemptsBounded, Working, Answers
  <2>3. ChargedKnown' /\ ChargedApart' /\ ChargedByPc'
    BY <1>0, <2>1 DEF ChargedKnown, ChargedApart, ChargedByPc, FreshTokens
  <2>4. QED
    BY <2>2, <2>3 DEF IInv
<1>2. ASSUME NEW s \in Sessions, TtlDelete(s) PROVE IInv'
  BY <1>0, <1>2
     DEF TtlDelete, Expired, Live, Remove, IInv, TypeOK, AttemptsBounded,
         ChargedKnown, ChargedApart, ChargedByPc, Working, Answers
<1>3. ASSUME NEW r \in Requests, NEW s \in Sessions, NEW right \in BOOLEAN,
             Arrive(r, s, right)
      PROVE  IInv'
  <2> DEFINE start == [Idle EXCEPT !.pc = "consume", !.sess = s,
                                   !.right = right, !.late = Redeemed(s)]
  <2>1. /\ req' = [req EXCEPT ![r] = start]
        /\ UNCHANGED <<otp, lastLogin, jobs, now>>
        /\ start \in [pc : {"consume"}, sess : Sessions, right : BOOLEAN,
                      got : {0}, kept : BOOLEAN, late : BOOLEAN, at : Nat]
    BY <1>3 DEF Arrive, Idle, Redeemed
  <2> HIDE DEF start
  <2>2. TypeOK'
    BY <1>0, <2>1 DEF TypeOK, Working, Answers
  <2>3. AttemptsBounded' /\ ChargedKnown' /\ ChargedApart' /\ ChargedByPc'
    BY <1>0, <2>1
       DEF TypeOK, AttemptsBounded, ChargedKnown, ChargedApart, ChargedByPc,
           AfterCharge, BeforeCharge
  <2>4. QED
    BY <2>2, <2>3 DEF IInv
<1>4. ASSUME NEW r \in Requests, BadRequest(r) PROVE IInv'
  BY <1>0, <1>4, GotoKeeps
     DEF BadRequest, ChargedByPc, AfterCharge, BeforeCharge, Answers
<1>5. ASSUME NEW r \in Requests, ConsumeAttempt(r) PROVE IInv'
  <2> DEFINE s == req[r].sess
  <2>1. s \in Sessions /\ req[r].got = 0
    BY <1>0, <1>5 DEF ConsumeAttempt, TypeOK, ChargedByPc, BeforeCharge
  <2>2. ASSUME NEW where \in {"compare", "error"}, Available(s),
               otp' = [otp EXCEPT ![s].attempts = @ + 1],
               req' = [req EXCEPT ![r].pc = where, ![r].got = AfterImage(s)],
               UNCHANGED <<lastLogin, jobs, now>>
        PROVE  IInv'
    <3>1. /\ otp[s].attempts \in Nat /\ otp[s].attempts < MaxAttempts
          /\ AfterImage(s) = otp[s].attempts + 1
          /\ otp[s].status = "live"
      BY <1>0, <2>1, <2>2 DEF Available, Live, AfterImage, TypeOK
    <3>2. TypeOK'
      BY SMTT(20), <1>0, <2>1, <2>2, <3>1 DEF TypeOK, Working, Answers
    <3>3. AttemptsBounded'
      BY <1>0, <2>1, <2>2, <3>1, OtpAssumption DEF TypeOK, AttemptsBounded
    <3>4. ChargedKnown'
      BY <1>0, <2>1, <2>2, <3>1 DEF TypeOK, ChargedKnown
    <3>5. \A q \in Requests :
            req[q].sess = s /\ s \in FreshTokens => req[q].got # AfterImage(s)
      BY <1>0, <2>1, <3>1 DEF TypeOK, ChargedKnown
    <3>6. ChargedApart'
      BY <1>0, <2>1, <2>2, <3>1, <3>5 DEF TypeOK, ChargedApart
    <3>7. ChargedByPc'
      BY <1>0, <2>1, <2>2, <3>1
         DEF TypeOK, ChargedByPc, AfterCharge, BeforeCharge
    <3>8. QED
      BY <3>2, <3>3, <3>4, <3>6, <3>7 DEF IInv
  <2>3. ASSUME NEW where \in {"lookup", "error"}, Goto(r, where),
               UNCHANGED <<otp, lastLogin, jobs, now>>
        PROVE  IInv'
    BY <2>1, <2>3, GotoKeeps DEF Working, Answers, AfterCharge, BeforeCharge
  <2>4. QED
    BY <1>5, <2>2, <2>3 DEF ConsumeAttempt
<1>6. ASSUME NEW r \in Requests, Lookup(r) PROVE IInv'
  <2>1. \E where \in {"purge", "unauthorized"} : Goto(r, where)
    BY <1>6 DEF Lookup
  <2>2. /\ req[r].sess \in Sessions
        /\ req[r].pc \in BeforeCharge
        /\ otp' = otp \/ Remove(req[r].sess)
        /\ UNCHANGED <<lastLogin, jobs, now>>
    BY <1>0, <1>6 DEF Lookup, TypeOK, AfterCharge, BeforeCharge
  <2>3. QED
    BY <1>0, <2>1, <2>2, GotoKeeps
       DEF ChargedByPc, AfterCharge, BeforeCharge, Working, Answers
<1>7. ASSUME NEW r \in Requests, Purge(r) PROVE IInv'
  <2>1. \E where \in {"forbidden"} : Goto(r, where)
    BY <1>7 DEF Purge
  <2>2. /\ req[r].sess \in Sessions
        /\ req[r].pc \in BeforeCharge
        /\ otp' = otp \/ Remove(req[r].sess)
        /\ UNCHANGED <<lastLogin, jobs, now>>
    BY <1>0, <1>7 DEF Purge, TypeOK, AfterCharge, BeforeCharge
  <2>3. QED
    BY <1>0, <2>1, <2>2, GotoKeeps
       DEF ChargedByPc, AfterCharge, BeforeCharge, Working, Answers
<1>8. ASSUME NEW r \in Requests, CompareOTP(r) PROVE IInv'
  <2>1. \E where \in {"clean", "wrong"} : Goto(r, where)
    BY <1>8 DEF CompareOTP
  <2>2. /\ req[r].sess \in Sessions
        /\ req[r].pc \in AfterCharge
        /\ otp' = otp \/ Remove(req[r].sess)
        /\ UNCHANGED <<lastLogin, jobs, now>>
    BY <1>0, <1>8 DEF CompareOTP, TypeOK, AfterCharge, BeforeCharge
  <2>3. QED
    BY <1>0, <2>1, <2>2, GotoKeeps
       DEF ChargedByPc, AfterCharge, BeforeCharge, Working, Answers
<1>10. ASSUME NEW r \in Requests, FindUser(r) PROVE IInv'
  <2>1. \E where \in {"issue", "error"} : Goto(r, where)
    BY <1>10 DEF FindUser
  <2>2. /\ req[r].sess \in Sessions
        /\ req[r].pc \in AfterCharge
        /\ otp' = otp \/ Remove(req[r].sess)
        /\ UNCHANGED <<lastLogin, jobs, now>>
    BY <1>0, <1>10 DEF FindUser, TypeOK, AfterCharge, BeforeCharge
  <2>3. QED
    BY <1>0, <2>1, <2>2, GotoKeeps
       DEF ChargedByPc, AfterCharge, BeforeCharge, Working, Answers
<1>9. ASSUME NEW r \in Requests, Clean(r) PROVE IInv'
  <2>1. req[r].sess \in Sessions /\ req[r].got # 0
    BY <1>0, <1>9 DEF Clean, TypeOK, ChargedByPc, AfterCharge
  <2>2. CASE Remove(req[r].sess) /\ Goto(r, "user")
    BY <1>9, <2>1, <2>2, GotoKeeps
       DEF Clean, AfterCharge, BeforeCharge, Working
  <2>3. CASE /\ req' = [req EXCEPT ![r].pc = "user", ![r].kept = TRUE]
             /\ UNCHANGED otp
    <3>1. /\ req' \in [Requests -> [pc : {"idle"} \cup Working \cup Answers,
                               sess : Sessions \cup {"none"}, right : BOOLEAN,
                               got : Nat, kept : BOOLEAN, late : BOOLEAN,
                               at : Nat]]
          /\ \A q \in Requests : /\ req'[q].sess = req[q].sess
                                 /\ req'[q].got = req[q].got
                                 /\ q # r => req'[q].pc = req[q].pc
          /\ req'[r].pc = "user"
      BY ZenonT(30), <1>0, <2>3 DEF TypeOK, Working
    <3>2. TypeOK'
      BY <1>0, <1>9, <2>1, <2>3, <3>1 DEF Clean, TypeOK
    <3>3. Uncharged
      BY <2>3, <3>1 DEF Uncharged
    <3>4. ChargedByPc'
      BY <1>0, <2>1, <3>1 DEF ChargedByPc, AfterCharge, BeforeCharge
    <3>5. QED
      BY <3>2, <3>3, <3>4, UnchargedKeeps DEF IInv
  <2>4. QED
    BY <1>9, <2>2, <2>3 DEF Clean, Remove
<1>11. ASSUME NEW r \in Requests, Issue(r) PROVE IInv'
  <2>1. req[r].sess \in Sessions /\ req[r].got # 0
    BY <1>0, <1>11 DEF Issue, TypeOK, ChargedByPc, AfterCharge
  <2>2. CASE Goto(r, "error") /\ UNCHANGED jobs
    BY <1>11, <2>1, <2>2, GotoKeeps
       DEF Issue, AfterCharge, BeforeCharge, Answers
  <2>3. CASE /\ req' = [req EXCEPT ![r].pc = "token", ![r].at = now]
             /\ jobs' = jobs \cup {r}
    <3>1. /\ req' \in [Requests -> [pc : {"idle"} \cup Working \cup Answers,
                               sess : Sessions \cup {"none"}, right : BOOLEAN,
                               got : Nat, kept : BOOLEAN, late : BOOLEAN,
                               at : Nat]]
          /\ \A q \in Requests : /\ req'[q].sess = req[q].sess
                                 /\ req'[q].got = req[q].got
                                 /\ q # r => req'[q].pc = req[q].pc
          /\ req'[r].pc = "token"
      BY ZenonT(30), <1>0, <2>3 DEF TypeOK, Answers
    <3>2. TypeOK'
      BY <1>0, <1>11, <2>1, <2>3, <3>1 DEF Issue, TypeOK
    <3>3. Uncharged
      BY <1>11, <3>1 DEF Issue, Uncharged
    <3>4. ChargedByPc'
      BY <1>0, <2>1, <3>1 DEF ChargedByPc, AfterCharge, BeforeCharge
    <3>5. QED
      BY <3>2, <3>3, <3>4, UnchargedKeeps DEF IInv
  <2>4. QED
    BY <1>11, <2>2, <2>3 DEF Issue
<1>12. ASSUME NEW r \in Requests, UpdateLastLogin(r) PROVE IInv'
  BY <1>0, <1>12, OtpAssumption
     DEF UpdateLastLogin, Stamp, IInv, TypeOK, AttemptsBounded, ChargedKnown,
         ChargedApart, ChargedByPc
<1>13. CASE Restart
  <2>1. TypeOK'
    BY SMTT(20), <1>0, <1>13 DEF Restart, TypeOK, Working, Answers
  <2>2. Uncharged
    BY <1>0, <1>13 DEF Restart, TypeOK, Uncharged
  <2>3. ChargedByPc'
    BY <1>0, <1>13
       DEF Restart, TypeOK, ChargedByPc, AfterCharge, BeforeCharge, Working
  <2>4. QED
    BY <2>1, <2>2, <2>3, UnchargedKeeps DEF IInv
<1>14. CASE Tick
  BY <1>0, <1>14
     DEF Tick, IInv, TypeOK, AttemptsBounded, ChargedKnown, ChargedApart,
         ChargedByPc
<1>15. CASE Finished \/ UNCHANGED vars
  BY <1>0, <1>15
     DEF Finished, vars, IInv, TypeOK, AttemptsBounded, ChargedKnown,
         ChargedApart, ChargedByPc
<1>16. QED
  BY <1>1, <1>2, <1>3, <1>4, <1>5, <1>6, <1>7, <1>8, <1>9, <1>10, <1>11,
     <1>12, <1>13, <1>14, <1>15 DEF Next, Handle

LEMMA Inductive == Spec => []IInv
  BY InitIInv, NextIInv, PTL DEF Spec

\* The types, among them that a request past its checks names a session.
THEOREM TypeCorrect == Spec => []TypeOK
  BY Inductive, PTL DEF IInv

-----------------------------------------------------------------------------
\* Of the requests charged on s, each holds its own number of 1 .. MaxAttempts.
LEMMA ChargedInject ==
  ASSUME IInv, NEW s \in FreshTokens
  PROVE  Cardinality(Charged(s)) <= MaxAttempts
<1> DEFINE f == [r \in Charged(s) |-> req[r].got]
<1>1. f \in Injection(Charged(s), 1 .. MaxAttempts)
  <2>1. \A r \in Charged(s) : req[r].got \in 1 .. MaxAttempts
    BY OtpAssumption
       DEF Charged, IInv, TypeOK, ChargedKnown
  <2>2. \A q, r \in Charged(s) : f[q] = f[r] => q = r
    BY DEF Charged, IInv, ChargedApart
  <2>3. f \in [Charged(s) -> 1 .. MaxAttempts]
    BY <2>1
  <2>4. DOMAIN f = Charged(s)
    OBVIOUS
  <2> HIDE DEF f
  <2>5. QED
    BY <2>2, <2>3, <2>4 DEF Injection, IsInjective
<1>2. IsFiniteSet(1 .. MaxAttempts) /\ Cardinality(1 .. MaxAttempts) = MaxAttempts
  BY FS_Interval, OtpAssumption
<1>3. Cardinality(Charged(s)) <= Cardinality(1 .. MaxAttempts)
  BY <1>1, <1>2, FS_Injection, Zenon
<1>4. QED
  BY <1>2, <1>3

\* No interleaving of verify-otp requests, failed calls and restarts lets more
\* than maxOTPAttempts codes be compared on one session that is stored once.
THEOREM AttemptLimit == Spec => []ComparisonsBounded
<1>1. IInv => ComparisonsBounded
  BY ChargedInject DEF ComparisonsBounded
<1>2. QED
  BY <1>1, Inductive, PTL

\* The numbers of remaining attempts told on one session that is stored once are
\* all different.
THEOREM RemainingAttempts == Spec => []RemainingToldOnce
<1>1. ASSUME IInv PROVE RemainingToldOnce
  <2>1. \A r \in Requests : req[r].pc = "wrong" => req[r].got \in 1 .. MaxAttempts
    BY <1>1, OtpAssumption
       DEF IInv, TypeOK, ChargedKnown, ChargedByPc, AfterCharge
  <2>2. \A q, r \in Requests :
          req[q].pc = "wrong" /\ req[r].pc = "wrong" /\ q # r
          /\ req[q].sess = req[r].sess /\ req[r].sess \in FreshTokens
          => req[q].got # req[r].got
    BY <1>1 DEF IInv, ChargedApart, ChargedByPc, AfterCharge
  <2>3. QED
    BY <2>1, <2>2, OtpAssumption DEF RemainingToldOnce, Remaining
<1>2. QED
  BY <1>1, Inductive, PTL
-----------------------------------------------------------------------------
(* Sessions whose token is known only when they are stored *)

\* A request that found no document to charge names a session that was stored
\* before, and whose attempts are used up if it still exists.
ExceededInv ==
  /\ \A r \in Requests :
       req[r].pc \notin {"idle", "bad"} /\ req[r].sess \in FreshTokens =>
         otp[req[r].sess].status # "unborn"
  /\ \A r \in Requests : req[r].pc = "lookup" /\ req[r].sess \in FreshTokens =>
       (Live(req[r].sess) => otp[req[r].sess].attempts = MaxAttempts)
  /\ ExceededIsTrue

\* Only the pc of r changes, and no session but by deletion.
Moves(r, where) ==
  /\ \A q \in Requests : /\ req'[q].sess = req[q].sess
                         /\ q # r => req'[q].pc = req[q].pc
  /\ req'[r].pc = where
  /\ \A s \in Sessions : /\ otp'[s].attempts = otp[s].attempts
                         /\ otp'[s].status \in {otp[s].status, "gone"}

LEMMA MovesKeeps ==
  ASSUME TypeOK, ExceededInv, NEW r \in Requests, NEW where, Moves(r, where),
         where = "bad" \/ (req[r].pc \notin {"idle", "bad"}),
         where = "lookup" /\ req[r].sess \in FreshTokens =>
           (Live(req[r].sess) => otp[req[r].sess].attempts = MaxAttempts),
         where \in {"purge", "forbidden"} /\ req[r].sess \in FreshTokens =>
           otp[req[r].sess].attempts = MaxAttempts
  PROVE  ExceededInv'
<1>1. \A q \in Requests : req[q].pc \notin {"idle", "bad"}
                            => req[q].sess \in Sessions
  BY DEF TypeOK
<1>2. \A q \in Requests : req'[q].pc \notin {"idle", "bad"} =>
        req[q].pc \notin {"idle", "bad"} /\ req'[q].sess \in Sessions
  BY <1>1 DEF Moves
<1>3. \A q \in Requests :
        req'[q].pc \notin {"idle", "bad"} /\ req'[q].sess \in FreshTokens =>
          otp'[req'[q].sess].status # "unborn"
  BY <1>1, <1>2 DEF Moves, ExceededInv
<1>4. \A q \in Requests : req'[q].pc = "lookup" /\ req'[q].sess \in FreshTokens =>
        (Live(req[q].sess)' => otp'[req'[q].sess].attempts = MaxAttempts)
  BY <1>1, <1>2 DEF Moves, ExceededInv, Live
<1>5. \A q \in Requests :
        req'[q].pc \in {"purge", "forbidden"} /\ req'[q].sess \in FreshTokens =>
          otp'[req'[q].sess].attempts = MaxAttempts
  BY <1>1, <1>2 DEF Moves, ExceededInv, ExceededIsTrue
<1>6. QED
  BY <1>3, <1>4, <1>5 DEF ExceededInv, ExceededIsTrue, Live, FreshTokens

LEMMA NextExceeded ==
  ASSUME IInv, ExceededInv, [Next]_vars
  PROVE  ExceededInv'
<1>0. TypeOK /\ AttemptsBounded
  BY DEF IInv
<1> USE DEF ExceededInv, ExceededIsTrue, Live, FreshTokens
<1>1. ASSUME NEW s \in Sessions, Create(s) PROVE ExceededInv'
  BY <1>0, <1>1 DEF Create, TypeOK
<1>2. ASSUME NEW s \in Sessions, TtlDelete(s) PROVE ExceededInv'
  BY <1>0, <1>2 DEF TtlDelete, Expired, Remove, TypeOK
<1>3. ASSUME NEW r \in Requests, NEW s \in Sessions, NEW right \in BOOLEAN,
             Arrive(r, s, right)
      PROVE  ExceededInv'
  <2> DEFINE start == [Idle EXCEPT !.pc = "consume", !.sess = s,
                                   !.right = right, !.late = Redeemed(s)]
  <2>1. /\ req' = [req EXCEPT ![r] = start] /\ otp' = otp
        /\ start.pc = "consume" /\ start.sess = s
        /\ s \in FreshTokens => otp[s].status # "unborn"
    BY <1>3 DEF Arrive, Idle
  <2> HIDE DEF start
  <2>2. QED
    BY <1>0, <2>1 DEF TypeOK
<1>4. ASSUME NEW r \in Requests, BadRequest(r) PROVE ExceededInv'
  BY <1>0, <1>4 DEF BadRequest, Goto, TypeOK
<1>5. ASSUME NEW r \in Requests, ConsumeAttempt(r) PROVE ExceededInv'
  <2> DEFINE s == req[r].sess
  <2>1. s \in Sessions
    BY <1>0, <1>5 DEF ConsumeAttempt, TypeOK
  <2>2. ASSUME NEW where \in {"compare", "error"}, Available(s),
               otp' = [otp EXCEPT ![s].attempts = @ + 1],
               req' = [req EXCEPT ![r].pc = where, ![r].got = AfterImage(s)]
        PROVE  ExceededInv'
    <3>1. /\ \A q \in Requests : /\ req'[q].sess = req[q].sess
                                 /\ q # r => req'[q].pc = req[q].pc
          /\ req'[r].pc = where
      BY <1>0, <2>2 DEF TypeOK
    <3>2. /\ otp[s].attempts \in Nat /\ otp[s].attempts < MaxAttempts
          /\ \A t \in Sessions :
               /\ otp'[t].status = otp[t].status
               /\ t # s => otp'[t].attempts = otp[t].attempts
      BY <1>0, <2>1, <2>2 DEF Available, TypeOK
    <3>3. \A q \in Requests : req[q].pc \notin {"idle", "bad"}
                                => req[q].sess \in Sessions
      BY <1>0 DEF TypeOK
    <3>4. req[r].pc = "consume"
      BY <1>5 DEF ConsumeAttempt
    <3>5. \A q \in Requests :
            req'[q].pc \notin {"idle", "bad"} /\ req'[q].sess \in FreshTokens =>
              otp'[req'[q].sess].status # "unborn"
      BY <3>1, <3>2, <3>3, <3>4
    <3>6. \A q \in Requests :
            req'[q].pc \in {"lookup", "purge", "forbidden"} =>
              req'[q].pc = req[q].pc /\ req'[q].sess = req[q].sess
      BY <2>2, <3>1
    <3>7. \A q \in Requests :
            req'[q].pc = "lookup" /\ req'[q].sess \in FreshTokens =>
            (otp'[req'[q].sess].status = "live"
               => otp'[req'[q].sess].attempts = MaxAttempts)
      BY <2>1, <3>2, <3>3, <3>6, OtpAssumption
    <3>8. \A q \in Requests :
            req'[q].pc \in {"purge", "forbidden"} /\ req'[q].sess \in FreshTokens =>
              otp'[req'[q].sess].attempts = MaxAttempts
      BY <2>1, <3>2, <3>3, <3>6, OtpAssumption
    <3>9. QED
      BY <3>5, <3>7, <3>8
  <2>3. ASSUME ~Available(s), Goto(r, "lookup"), otp' = otp PROVE ExceededInv'
    <3>1. otp[s].attempts \in Nat /\ otp[s].attempts <= MaxAttempts
      BY <1>0, <2>1 DEF TypeOK, AttemptsBounded
    <3>2. Live(s) => otp[s].attempts = MaxAttempts
      BY <2>3, <3>1, OtpAssumption DEF Available
    <3>3. Moves(r, "lookup") /\ req[r].pc = "consume"
      BY <1>0, <1>5, <2>3 DEF ConsumeAttempt, Goto, TypeOK, Moves
    <3>4. QED
      BY <1>0, <3>2, <3>3, MovesKeeps
  <2>4. ASSUME Goto(r, "error"), otp' = otp PROVE ExceededInv'
    <3>1. Moves(r, "error") /\ req[r].pc = "consume"
      BY <1>0, <1>5, <2>4 DEF ConsumeAttempt, Goto, TypeOK, Moves
    <3>2. QED
      BY <1>0, <3>1, MovesKeeps
  <2>5. QED
    BY <1>5, <2>2, <2>3, <2>4 DEF ConsumeAttempt
<1>6. ASSUME NEW r \in Requests, Lookup(r) PROVE ExceededInv'
  <2>1. req[r].pc = "lookup" /\ req[r].sess \in Sessions
    BY <1>0, <1>6 DEF Lookup, TypeOK
  <2>2. \E where \in {"purge", "unauthorized"} :
          (where = "purge" => Live(req[r].sess)) /\ Moves(r, where)
    BY <1>0, <1>6, <2>1 DEF Lookup, Goto, TypeOK, Moves
  <2>3. QED
    BY <1>0, <2>1, <2>2, MovesKeeps
<1>7. ASSUME NEW r \in Requests, Purge(r) PROVE ExceededInv'
  <2>1. req[r].pc = "purge" /\ req[r].sess \in Sessions
    BY <1>0, <1>7 DEF Purge, TypeOK
  <2>2. \E where \in {"forbidden"} :
          Moves(r, where)
    BY <1>0, <1>7, <2>1 DEF Purge, Remove, Goto, TypeOK, Moves
  <2>3. QED
    BY <1>0, <2>1, <2>2, MovesKeeps
<1>8. ASSUME NEW r \in Requests, CompareOTP(r) PROVE ExceededInv'
  <2>1. req[r].pc = "compare" /\ req[r].sess \in Sessions
    BY <1>0, <1>8 DEF CompareOTP, TypeOK
  <2>2. \E where \in {"clean", "wrong"} :
          Moves(r, where)
    BY <1>0, <1>8, <2>1 DEF CompareOTP, Goto, TypeOK, Moves
  <2>3. QED
    BY <1>0, <2>1, <2>2, MovesKeeps
<1>9. ASSUME NEW r \in Requests, Clean(r) PROVE ExceededInv'
  <2>1. req[r].pc = "clean" /\ req[r].sess \in Sessions
    BY <1>0, <1>9 DEF Clean, TypeOK
  <2>2. Moves(r, "user")
    <3>1. \A q \in Requests : /\ req'[q].sess = req[q].sess
                              /\ q # r => req'[q].pc = req[q].pc
      BY <1>0, <1>9 DEF Clean, Goto, TypeOK
    <3>2. req'[r].pc = "user"
      BY <1>0, <1>9 DEF Clean, Goto, TypeOK
    <3>3. \A s \in Sessions : /\ otp'[s].attempts = otp[s].attempts
                              /\ otp'[s].status \in {otp[s].status, "gone"}
      <4>1. otp' = [otp EXCEPT ![req[r].sess].status = "gone"] \/ otp' = otp
        BY <1>9 DEF Clean
      <4>2. QED
        BY <1>0, <2>1, <4>1 DEF TypeOK
    <3>4. QED
      BY <3>1, <3>2, <3>3 DEF Moves
  <2>3. QED
    BY <1>0, <2>1, <2>2, MovesKeeps
<1>10. ASSUME NEW r \in Requests, FindUser(r) PROVE ExceededInv'
  <2>1. req[r].pc = "user" /\ req[r].sess \in Sessions
    BY <1>0, <1>10 DEF FindUser, TypeOK
  <2>2. \E where \in {"issue", "error"} :
          Moves(r, where)
    BY <1>0, <1>10, <2>1 DEF FindUser, Goto, TypeOK, Moves
  <2>3. QED
    BY <1>0, <2>1, <2>2, MovesKeeps
<1>11. ASSUME NEW r \in Requests, Issue(r) PROVE ExceededInv'
  <2>1. req[r].pc = "issue" /\ req[r].sess \in Sessions
    BY <1>0, <1>11 DEF Issue, TypeOK
  <2>2. \E where \in {"token", "error"} :
          Moves(r, where)
    BY <1>0, <1>11, <2>1 DEF Issue, Goto, TypeOK, Moves
  <2>3. QED
    BY <1>0, <2>1, <2>2, MovesKeeps
<1>12. ASSUME NEW r \in Requests, UpdateLastLogin(r) PROVE ExceededInv'
  BY <1>0, <1>12 DEF UpdateLastLogin
<1>13. CASE Restart
  BY <1>0, <1>13 DEF Restart, TypeOK, Working
<1>14. CASE Tick \/ Finished \/ UNCHANGED vars
  BY <1>14 DEF Tick, Finished, vars
<1>15. QED
  BY <1>1, <1>2, <1>3, <1>4, <1>5, <1>6, <1>7, <1>8, <1>9, <1>10, <1>11,
     <1>12, <1>13, <1>14 DEF Next, Handle

\* For the sessions of password logins, whose token exists only in the answer
\* that follows the insertion, 403 and the deletion that goes with it are
\* given only to a session whose attempts are used up.
THEOREM ExceededJustified == Spec => []ExceededIsTrue
<1>1. Init => ExceededInv
  BY DEF Init, ExceededInv, ExceededIsTrue, NoSession, Idle
<1>2. IInv /\ ExceededInv /\ [Next]_vars => ExceededInv'
  BY NextExceeded
<1>3. ExceededInv => ExceededIsTrue
  BY DEF ExceededInv
<1>4. QED
  BY <1>1, <1>2, <1>3, Inductive, PTL DEF Spec

-----------------------------------------------------------------------------
(* Nothing is replayed, and last_login_info is the time of a login *)

Passed == {"compare", "wrong", "clean", "user", "issue", "token"}

\* A session that is stored once and was cleaned is gone for good, so who comes
\* late finds none.
ReplayInv ==
  /\ \A r \in Requests : /\ req[r].pc \in {"user", "issue", "token"}
                         /\ ~req[r].kept /\ req[r].sess \in FreshTokens
                         => otp[req[r].sess].status = "gone"
  /\ \A r \in Requests : req[r].late /\ req[r].sess \in FreshTokens =>
       /\ otp[req[r].sess].status = "gone"
       /\ req[r].pc \notin Passed

\* The background writes that wait belong to issued tokens.
LoginInv == /\ \A r \in jobs : r \in Requests /\ req[r].pc = "token"
            /\ LastLoginIsALogin

\* Only r moves, and what is gone stays gone.
Advances(r) ==
  /\ \A q \in Requests \ {r} : req'[q] = req[q]
  /\ req'[r].sess = req[r].sess /\ req'[r].late = req[r].late
  /\ req[r].pc # "token"
  /\ \A s \in FreshTokens : otp[s].status = "gone" => otp'[s].status = "gone"

LEMMA AdvanceKeepsReplay ==
  ASSUME TypeOK, ReplayInv, NEW r \in Requests, Advances(r),
         req[r].late /\ req[r].sess \in FreshTokens => req'[r].pc \notin Passed,
         (req'[r].pc \in {"user", "issue", "token"} /\ ~req'[r].kept
          /\ req[r].sess \in FreshTokens)
           => otp'[req[r].sess].status = "gone"
  PROVE  ReplayInv'
<1> SUFFICES ASSUME NEW q \in Requests
             PROVE  /\ /\ req'[q].pc \in {"user", "issue", "token"}
                       /\ ~req'[q].kept /\ req'[q].sess \in FreshTokens
                       => otp'[req'[q].sess].status = "gone"
                    /\ req'[q].late /\ req'[q].sess \in FreshTokens =>
                         /\ otp'[req'[q].sess].status = "gone"
                         /\ req'[q].pc \notin Passed
  BY DEF ReplayInv, FreshTokens
<1>1. CASE q = r
  BY <1>1 DEF ReplayInv, Advances
<1>2. CASE q # r
  <2>1. req'[q] = req[q]
    BY <1>2 DEF Advances
  <2>2. QED
    BY <2>1 DEF ReplayInv, Advances
<1>3. QED
  BY <1>1, <1>2

LEMMA NextReplay ==
  ASSUME TypeOK, ReplayInv, [Next]_vars
  PROVE  ReplayInv'
<1>1. ASSUME NEW s \in Sessions, Create(s) \/ TtlDelete(s) PROVE ReplayInv'
  <2>1. req' = req /\ \A t \in FreshTokens : otp[t].status = "gone"
                                               => otp'[t].status = "gone"
    BY <1>1 DEF Create, TtlDelete, Remove, TypeOK, FreshTokens
  <2>2. QED
    BY <2>1 DEF ReplayInv, FreshTokens
<1>2. ASSUME NEW r \in Requests, NEW s \in Sessions, NEW right \in BOOLEAN,
             Arrive(r, s, right)
      PROVE  ReplayInv'
  <2>1. /\ otp' = otp /\ \A q \in Requests \ {r} : req'[q] = req[q]
        /\ req'[r].pc = "consume" /\ req'[r].sess = s
        /\ req'[r].late = Redeemed(s)
    BY <1>2 DEF Arrive, Idle, TypeOK
  <2>2. Redeemed(s) /\ s \in FreshTokens => otp[s].status = "gone"
    BY DEF Redeemed, ReplayInv
  <2>3. QED
    BY <2>1, <2>2 DEF ReplayInv, Passed, FreshTokens
<1>3. ASSUME NEW r \in Requests, BadRequest(r) \/ Handle(r) PROVE ReplayInv'
  <2>1. CASE BadRequest(r) \/ Lookup(r) \/ Purge(r)
    <3>1. Advances(r) /\ req'[r].pc \notin Passed
      BY <2>1 DEF BadRequest, Lookup, Purge, Goto, Remove, Advances, TypeOK, Passed, FreshTokens
    <3>2. QED
      BY <3>1, AdvanceKeepsReplay DEF Passed
  <2>2. CASE ConsumeAttempt(r)
    <3>1. Advances(r) /\ req'[r].pc \in {"compare", "lookup", "error"}
      BY <2>2 DEF ConsumeAttempt, Goto, Advances, TypeOK, FreshTokens
    <3>2. req'[r].pc = "compare" => Live(req[r].sess)
      BY <2>2 DEF ConsumeAttempt, Goto, Available, TypeOK
    <3>3. req[r].late /\ req[r].sess \in FreshTokens => ~Live(req[r].sess)
      BY DEF ReplayInv, Live
    <3>4. QED
      BY <3>1, <3>2, <3>3, AdvanceKeepsReplay DEF Passed
  <2>3. CASE CompareOTP(r) \/ FindUser(r) \/ Issue(r)
    <3>1. Advances(r) /\ otp' = otp /\ req'[r].kept = req[r].kept
      BY <2>3 DEF CompareOTP, FindUser, Issue, Goto, Advances, TypeOK
    <3>2. ~(req[r].late /\ req[r].sess \in FreshTokens)
      BY <2>3 DEF CompareOTP, FindUser, Issue, ReplayInv, Passed
    <3>3. req'[r].pc \in {"user", "issue", "token"}
            => req[r].pc \in {"user", "issue", "token"}
      BY <2>3 DEF CompareOTP, FindUser, Issue, Goto, TypeOK
    <3>4. QED
      BY <3>1, <3>2, <3>3, AdvanceKeepsReplay DEF ReplayInv
  <2>4. CASE Clean(r)
    <3>1. req[r].sess \in Sessions /\ ~(req[r].late /\ req[r].sess \in FreshTokens)
      BY <2>4 DEF Clean, TypeOK, ReplayInv, Passed
    <3>2. /\ Advances(r)
          /\ ~req'[r].kept => otp'[req[r].sess].status = "gone"
      <4>1. CASE /\ otp' = [otp EXCEPT ![req[r].sess].status = "gone"]
                 /\ Goto(r, "user")
        BY <2>4, <3>1, <4>1 DEF Clean, Goto, Advances, TypeOK, FreshTokens
      <4>2. CASE /\ req' = [req EXCEPT ![r].pc = "user", ![r].kept = TRUE]
                 /\ UNCHANGED otp
        <5>1. req'[r].kept /\ Advances(r)
          BY <2>4, <4>2 DEF Clean, Advances, TypeOK
        <5>2. QED
          BY <5>1
      <4>3. QED
        BY <2>4, <4>1, <4>2 DEF Clean
    <3>3. QED
      BY <3>1, <3>2, AdvanceKeepsReplay
  <2>5. QED
    BY <1>3, <2>1, <2>2, <2>3, <2>4 DEF Handle
<1>4. ASSUME NEW r \in Requests, UpdateLastLogin(r) PROVE ReplayInv'
  BY <1>4 DEF UpdateLastLogin, ReplayInv, FreshTokens
<1>5. CASE Restart
  <2>1. otp' = otp /\ \A q \in Requests :
          /\ req'[q].sess = req[q].sess /\ req'[q].late = req[q].late
          /\ req'[q].kept = req[q].kept /\ req'[q].pc \in {req[q].pc, "lost"}
    BY <1>5 DEF Restart, TypeOK
  <2>2. QED
    BY <2>1 DEF ReplayInv, Passed, FreshTokens
<1>6. CASE Tick \/ Finished \/ UNCHANGED vars
  BY <1>6 DEF Tick, Finished, vars, ReplayInv, FreshTokens
<1>7. QED
  BY <1>1, <1>2, <1>3, <1>4, <1>5, <1>6 DEF Next

\* Whoever uses the session token of a password login after that login was
\* completed and its session deleted does not reach a comparison of codes, in any
\* interleaving.
THEOREM NothingReplayed == Spec => []NoReplay
<1>1. Init => ReplayInv
  BY DEF Init, ReplayInv, Idle
<1>2. IInv /\ ReplayInv /\ [Next]_vars => ReplayInv'
  BY NextReplay DEF IInv
<1>3. ReplayInv => NoReplay
  BY DEF ReplayInv, NoReplay, Passed
<1>4. QED
  BY <1>1, <1>2, <1>3, Inductive, PTL DEF Spec

LEMMA NextLogin ==
  ASSUME TypeOK, LoginInv, [Next]_vars
  PROVE  LoginInv'
<1>1. ASSUME \A q \in Requests : req[q].pc = "token" => req'[q] = req[q],
             jobs' \subseteq jobs, lastLogin' = lastLogin
      PROVE  LoginInv'
  <2>1. \A q \in jobs' : q \in Requests /\ req'[q].pc = "token"
    BY <1>1 DEF LoginInv
  <2>2. LastLoginIsALogin'
    BY <1>1 DEF LoginInv, LastLoginIsALogin
  <2>3. QED
    BY <2>1, <2>2 DEF LoginInv
<1>2. ASSUME NEW s \in Sessions, Create(s) \/ TtlDelete(s) PROVE LoginInv'
  BY <1>1, <1>2 DEF Create, TtlDelete
<1>3. ASSUME NEW r \in Requests, NEW s \in Sessions, NEW right \in BOOLEAN,
             Arrive(r, s, right)
      PROVE  LoginInv'
  BY <1>1, <1>3 DEF Arrive, TypeOK
<1>4. ASSUME NEW r \in Requests,
             BadRequest(r) \/ ConsumeAttempt(r) \/ Lookup(r) \/ Purge(r)
               \/ CompareOTP(r) \/ Clean(r) \/ FindUser(r)
      PROVE  LoginInv'
  <2>1. /\ req[r].pc # "token" /\ \A q \in Requests \ {r} : req'[q] = req[q]
        /\ jobs' = jobs /\ lastLogin' = lastLogin
    BY <1>4 DEF BadRequest, ConsumeAttempt, Lookup, Purge, CompareOTP, Clean,
                FindUser, Goto, TypeOK
  <2>2. QED
    BY <1>1, <2>1
<1>5. ASSUME NEW r \in Requests, Issue(r) PROVE LoginInv'
  <2>1. /\ req[r].pc # "token" /\ \A q \in Requests \ {r} : req'[q] = req[q]
        /\ lastLogin' = lastLogin
        /\ jobs' = jobs \/ (jobs' = jobs \cup {r} /\ req'[r].pc = "token")
    BY <1>5 DEF Issue, Goto, TypeOK
  <2>2. \A q \in jobs' : q \in Requests /\ req'[q].pc = "token"
    BY <2>1 DEF LoginInv
  <2>3. LastLoginIsALogin'
    BY <2>1 DEF LoginInv, LastLoginIsALogin
  <2>4. QED
    BY <2>2, <2>3 DEF LoginInv
<1>6. ASSUME NEW r \in Requests, UpdateLastLogin(r) PROVE LoginInv'
  <2>1. req' = req /\ jobs' = jobs \ {r} /\ r \in jobs
        /\ req[r].pc = "token" /\ r \in Requests
    BY <1>6 DEF UpdateLastLogin, LoginInv
  <2>2. \A u \in Users : \/ lastLogin'[u] = lastLogin[u]
                         \/ u = Owner[req[r].sess] /\ lastLogin'[u] = req[r].at
    BY <1>6 DEF UpdateLastLogin, Stamp, TypeOK
  <2>3. LastLoginIsALogin'
    BY <2>1, <2>2 DEF LoginInv, LastLoginIsALogin
  <2>4. QED
    BY <2>1, <2>3 DEF LoginInv
<1>7. CASE Restart
  <2>1. \A q \in Requests : req[q].pc = "token" => req'[q] = req[q]
    BY <1>7 DEF Restart, Working
  <2>2. QED
    BY <1>1, <1>7, <2>1 DEF Restart
<1>8. CASE Tick \/ Finished \/ UNCHANGED vars
  BY <1>1, <1>8 DEF Tick, Finished, vars
<1>9. QED
  BY <1>2, <1>3, <1>4, <1>5, <1>6, <1>7, <1>8 DEF Next, Handle

\* However the background updates of several logins are ordered, delayed or
\* lost, what stands in last_login_info is the time of a login of that user.
THEOREM LastLoginTrue == Spec => []LastLoginIsALogin
<1>1. Init => LoginInv
  BY DEF Init, LoginInv, LastLoginIsALogin
<1>2. IInv /\ LoginInv /\ [Next]_vars => LoginInv'
  BY NextLogin DEF IInv
<1>3. LoginInv => LastLoginIsALogin
  BY DEF LoginInv
<1>4. QED
  BY <1>1, <1>2, <1>3, Inductive, PTL DEF Spec
-----------------------------------------------------------------------------
(* The calls of a request, in their order *)

Rank == [idle |-> 0, consume |-> 1, lookup |-> 2, compare |-> 2, purge |-> 3,
         clean |-> 3, user |-> 4, issue |-> 5,
         token |-> 6, wrong |-> 6, unauthorized |-> 6, forbidden |-> 6,
         error |-> 6, bad |-> 6, lost |-> 6]

Forward(r) == req'[r] = req[r] \/ Rank[req'[r].pc] > Rank[req[r].pc]

LEMMA GotoForward ==
  ASSUME TypeOK, NEW r \in Requests, NEW where \in Working \cup Answers,
         Goto(r, where), Rank[where] > Rank[req[r].pc]
  PROVE  \A q \in Requests : Forward(q)
BY DEF TypeOK, Goto, Forward

LEMMA HandleForward ==
  ASSUME TypeOK, NEW r \in Requests, Handle(r)
  PROVE  \A q \in Requests : Forward(q)
<1> USE DEF Rank, Working, Answers
<1>1. CASE ConsumeAttempt(r)
  <2>1. req[r].pc = "consume" /\ \A q \in Requests \ {r} : req'[q] = req[q]
    BY <1>1 DEF ConsumeAttempt, Goto, TypeOK
  <2>2. req'[r].pc \in {"compare", "error", "lookup"}
    BY <1>1 DEF ConsumeAttempt, Goto, TypeOK
  <2>3. QED
    BY <2>1, <2>2 DEF Forward
<1>2. CASE Lookup(r)
  BY <1>2, GotoForward DEF Lookup
<1>3. CASE Purge(r)
  BY <1>3, GotoForward DEF Purge
<1>4. CASE CompareOTP(r)
  <2>1. Goto(r, "clean") \/ Goto(r, "wrong")
    BY <1>4 DEF CompareOTP
  <2>2. QED
    BY <1>4, <2>1, GotoForward DEF CompareOTP
<1>5. CASE Clean(r)
  <2>1. /\ req[r].pc = "clean" /\ \A q \in Requests \ {r} : req'[q] = req[q]
        /\ req'[r].pc = "user"
    BY <1>5 DEF Clean, Goto, TypeOK
  <2>2. QED
    BY <2>1 DEF Forward
<1>6. CASE FindUser(r)
  BY <1>6, GotoForward DEF FindUser
<1>7. CASE Issue(r)
  <2>1. /\ req[r].pc = "issue" /\ \A q \in Requests \ {r} : req'[q] = req[q]
        /\ req'[r].pc \in {"token", "error"}
    BY <1>7 DEF Issue, Goto, TypeOK
  <2>2. QED
    BY <2>1 DEF Forward
<1>8. QED
  BY <1>1, <1>2, <1>3, <1>4, <1>5, <1>6, <1>7 DEF Handle

\* No call is made twice by one request, whatever fails: each step of
\* verify-otp takes it on, so that it is answered within five of them
\* (verify_otp.go returns after each error).  That the calls end is assumed,
\* as Fairness, where RequestsAnswered is checked.
THEOREM NothingRetried == Spec => [][\A r \in Requests : Forward(r)]_vars
<1> DEFINE Step == \A r \in Requests : Forward(r)
<1>1. ASSUME TypeOK, [Next]_vars PROVE [Step]_vars
  <2>1. ASSUME NEW r \in Requests, NEW s \in Sessions, NEW right \in BOOLEAN,
               Arrive(r, s, right)
        PROVE  Step
    <3>1. /\ req[r].pc = "idle" /\ \A q \in Requests \ {r} : req'[q] = req[q]
          /\ req'[r].pc = "consume"
      BY <1>1, <2>1 DEF Arrive, TypeOK, Idle
    <3>2. QED
      BY <3>1 DEF Forward, Rank
  <2>2. ASSUME NEW r \in Requests, BadRequest(r) PROVE Step
    BY <1>1, <2>2, GotoForward DEF BadRequest, Rank, Answers
  <2>3. ASSUME NEW r \in Requests, Handle(r) PROVE Step
    BY <1>1, <2>3, HandleForward
  <2>4. CASE Restart
    <3>1. \A r \in Requests : req'[r] = req[r]
             \/ (req[r].pc \in Working /\ req'[r].pc = "lost")
      BY <1>1, <2>4 DEF Restart, TypeOK
    <3>2. QED
      BY <3>1 DEF Forward, Rank, Working
  <2>5. ASSUME UNCHANGED req PROVE Step
    BY <2>5 DEF Forward
  <2>6. QED
    BY <1>1, <2>1, <2>2, <2>3, <2>4, <2>5
       DEF Next, Create, TtlDelete, UpdateLastLogin, Tick, Finished
<1>2. QED
  BY <1>1, TypeCorrect, PTL DEF Spec
=============================================================================
