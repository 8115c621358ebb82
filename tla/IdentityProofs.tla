-------------------------- MODULE IdentityProofs ---------------------------
(***************************************************************************)
(* The records of the identity service that several handlers write: the    *)
(* limiter of LoginRateLimit, for any addresses, any limit and any number  *)
(* of concurrent handlers, and identity_users of Accounts, for any number  *)
(* of registrations and runs of the seeder.                                *)
(*                                                                         *)
(* GuessesBounded counts requests, not the counter that is tested; it is   *)
(* inductive only together with StreakCounted, which says that the counter *)
(* of a live record is at least the streak.  A request is admitted while   *)
(* the counter, hence the streak, is below the limit, and then the bound   *)
(* holds because there are no more admitted requests than goroutines.      *)
(* While the address is blocked they only grow fewer (WearsOff).           *)
(*                                                                         *)
(* CreatedIsKept needs the unique indexes as an invariant (UniqueIn) and   *)
(* that an upsert leaves every account with its name, email and owner      *)
(* (UpsertKeeps).  SeededOrShadowed needs to know of a run under way which *)
(* users it has settled (SettledSoFar), and that no later write unsettles  *)
(* one: not a role given to somebody else, as the names differ, and not    *)
(* the shadow of another account, as none is removed.                      *)
(***************************************************************************)
EXTENDS LoginRateLimit, Accounts, FiniteSetTheorems, TLAPS

StreakCounted ==
  \A ip \in Ips : streak[ip] # 0 =>
    ~Expired(ip) /\ streak[ip] <= limit[ip].attempts

\* No read fails of the handlers that go on when it does.
ReadsStop == FailingReads \subseteq {"login"}

LEMMA WorkersCard == Cardinality(Workers) \in Nat
  BY LimitAssumption, FS_CardinalityType

LEMMA AdmittedFinite ==
  ASSUME NEW ip
  PROVE  /\ IsFiniteSet(Admitted(ip))
         /\ Cardinality(Admitted(ip)) \in Nat
         /\ Cardinality(Admitted(ip)) <= Cardinality(Workers)
<1>1. Admitted(ip) \in SUBSET Workers
  BY DEF Admitted
<1>2. QED
  BY <1>1, FS_Subset, FS_CardinalityType, LimitAssumption

-----------------------------------------------------------------------------
LEMMA InitTypeOK == Init => TypeOK
  BY LimitAssumption DEF Init, TypeOK, NoRecord, IdleWorker

LEMMA FailedType ==
  ASSUME TypeOK, NEW ip \in Ips, Failed(ip)
  PROVE  /\ limit' \in [Ips -> [attempts : 0 .. Cap, left : -1 .. Block]]
         /\ streak' \in [Ips -> Nat]
<1>1. Incremented(ip) \in 0 .. Cap
  BY LimitAssumption DEF Incremented, TypeOK
<1>2. QED
  BY <1>1, LimitAssumption DEF TypeOK, Failed

LEMMA ForgetType ==
  ASSUME TypeOK, NEW ip \in Ips, Forget(ip)
  PROVE  /\ limit' \in [Ips -> [attempts : 0 .. Cap, left : -1 .. Block]]
         /\ streak' \in [Ips -> Nat]
  BY LimitAssumption DEF TypeOK, Forget, NoRecord

LEMMA GotoType ==
  ASSUME TypeOK, NEW w \in Workers, work[w].pc # "idle",
         NEW where \in {"idle", "examine", "record", "reset"}, Goto(w, where)
  PROVE  /\ work' \in [Workers ->
                       [pc : {"idle", "check", "examine", "record", "reset"},
                        ip : Ips \cup {"none"}, kind : Kinds \cup {"none"}]]
         /\ \A v \in Workers :
              work'[v].pc # "idle" => work'[v].ip \in Ips /\ work'[v].kind \in Kinds
         /\ \A v \in Workers : work'[v].ip = work[v].ip
         /\ \A v \in Workers \ {w} : work'[v].pc = work[v].pc
         /\ work'[w].pc = where
  BY DEF TypeOK, Goto

LEMMA NextTypeOK == TypeOK /\ [Next]_vars => TypeOK'
<1> SUFFICES ASSUME TypeOK, [Next]_vars PROVE TypeOK'
  OBVIOUS
<1>1. ASSUME NEW w \in Workers, NEW ip \in Ips, NEW kind \in Kinds,
             Arrive(w, ip, kind)
      PROVE  TypeOK'
  BY <1>1 DEF Arrive, TypeOK
<1>2. ASSUME NEW w \in Workers, CheckRateLimit(w) PROVE TypeOK'
  BY <1>2, GotoType DEF CheckRateLimit, Deny, TypeOK
<1>3. ASSUME NEW w \in Workers, Examine(w) PROVE TypeOK'
  <2>1. work[w].kind \in {"login", "begin", "finish"} /\ work[w].pc # "idle"
    BY <1>3, LimitAssumption DEF Examine, TypeOK
  <2>2. \E outcome \in {"idle", "record", "reset"} : Goto(w, outcome)
    BY <1>3, <2>1 DEF Examine, Outcomes
  <2>3. QED
    BY <1>3, <2>1, <2>2, GotoType DEF Examine, TypeOK
<1>4. ASSUME NEW w \in Workers, RecordFailure(w) PROVE TypeOK'
  BY <1>4, GotoType, FailedType DEF RecordFailure, TypeOK
<1>5. ASSUME NEW w \in Workers, ResetLimit(w) PROVE TypeOK'
  BY <1>5, GotoType, ForgetType DEF ResetLimit, TypeOK
<1>6. ASSUME NEW ip \in Ips, TtlDelete(ip) PROVE TypeOK'
  BY <1>6, ForgetType DEF TtlDelete, TypeOK
<1>7. CASE CleanupExpired
  BY <1>7, LimitAssumption DEF CleanupExpired, TypeOK, NoRecord
<1>8. CASE Restart
  BY <1>8 DEF Restart, TypeOK, IdleWorker
<1>9. CASE Tick
  <2>1. limit' \in [Ips -> [attempts : 0 .. Cap, left : -1 .. Block]]
    BY <1>9, LimitAssumption DEF Tick, TypeOK, Expired
  <2>2. QED
    BY <1>9, <2>1 DEF Tick, TypeOK
<1>10. CASE UNCHANGED vars
  BY <1>10 DEF vars, TypeOK
<1>11. QED
  BY <1>1, <1>2, <1>3, <1>4, <1>5, <1>6, <1>7, <1>8, <1>9, <1>10
     DEF Next, Handle

\* The types of the counters and of the goroutines.
THEOREM TypeCorrect == Spec => []TypeOK
  BY InitTypeOK, NextTypeOK, PTL DEF Spec

-----------------------------------------------------------------------------
IInv == TypeOK /\ StreakCounted /\ GuessesBounded

\* The bound for one address in the next state.
BoundAt(ip) ==
  streak[ip] + Cardinality(Admitted(ip)) <= MaxAttempts - 1 + Cardinality(Workers)

\* A step that admits nobody and does not lengthen the streak of an address
\* keeps its bound.
LEMMA BoundShrinks ==
  ASSUME IInv, NEW ip \in Ips, Admitted(ip)' \subseteq Admitted(ip),
         streak'[ip] \in Nat, streak'[ip] <= streak[ip]
  PROVE  BoundAt(ip)'
<1>1. /\ Cardinality(Admitted(ip)') \in Nat /\ Cardinality(Admitted(ip)) \in Nat
      /\ Cardinality(Admitted(ip)') <= Cardinality(Admitted(ip))
  BY AdmittedFinite, FS_Subset, FS_CardinalityType
<1>2. streak[ip] \in Nat
  BY DEF IInv, TypeOK
<1>3. streak[ip] + Cardinality(Admitted(ip)) <= MaxAttempts - 1 + Cardinality(Workers)
  BY DEF IInv, GuessesBounded
<1>4. QED
  BY <1>1, <1>2, <1>3, WorkersCard, LimitAssumption DEF BoundAt

\* A failure is written by a request that was admitted and now is not.
LEMMA BoundMoves ==
  ASSUME IInv, NEW w \in Workers, NEW ip \in Ips, w \in Admitted(ip),
         Admitted(ip)' = Admitted(ip) \ {w}, streak'[ip] = streak[ip] + 1
  PROVE  BoundAt(ip)'
<1>1. Cardinality(Admitted(ip)') = Cardinality(Admitted(ip)) - 1
  BY AdmittedFinite, FS_RemoveElement
<1>2. streak[ip] \in Nat /\ Cardinality(Admitted(ip)) \in Nat
  BY AdmittedFinite DEF IInv, TypeOK
<1>3. streak[ip] + Cardinality(Admitted(ip)) <= MaxAttempts - 1 + Cardinality(Workers)
  BY DEF IInv, GuessesBounded
<1>4. QED
  BY <1>1, <1>2, <1>3, WorkersCard, LimitAssumption DEF BoundAt

\* A request is admitted while the streak is below the limit.
LEMMA BoundAdmits ==
  ASSUME IInv, NEW ip \in Ips, ~Exceeded(ip), streak'[ip] = streak[ip]
  PROVE  BoundAt(ip)'
<1>1. Cardinality(Admitted(ip)') \in Nat
      /\ Cardinality(Admitted(ip)') <= Cardinality(Workers)
  <2>1. Admitted(ip)' \in SUBSET Workers
    BY DEF Admitted
  <2>2. QED
    BY <2>1, FS_Subset, FS_CardinalityType, LimitAssumption
<1>2. streak[ip] \in Nat /\ streak[ip] <= MaxAttempts - 1
  BY LimitAssumption DEF IInv, TypeOK, StreakCounted, Exceeded, Expired
<1>3. QED
  BY <1>1, <1>2, WorkersCard, LimitAssumption DEF BoundAt

LEMMA NextIInv ==
  ASSUME ReadsStop, IInv, [Next]_vars
  PROVE  IInv'
<1>0. TypeOK /\ StreakCounted /\ TypeOK'
  BY NextTypeOK DEF IInv
<1>1. ASSUME NEW w \in Workers, NEW ip \in Ips, NEW kind \in Kinds,
             Arrive(w, ip, kind)
      PROVE  IInv'
  <2>1. \A i \in Ips : Admitted(i)' \subseteq Admitted(i)
    BY <1>0, <1>1 DEF Arrive, Admitted, TypeOK
  <2>2. StreakCounted'
    BY <1>0, <1>1 DEF Arrive, StreakCounted, Expired
  <2>3. \A i \in Ips : BoundAt(i)'
    BY <1>0, <1>1, <2>1, BoundShrinks DEF Arrive, TypeOK
  <2>4. QED
    BY <1>0, <2>2, <2>3 DEF IInv, GuessesBounded, BoundAt
<1>2. ASSUME NEW w \in Workers, CheckRateLimit(w) PROVE IInv'
  <2> DEFINE ip == work[w].ip
  <2>1. ip \in Ips /\ work[w].kind \in Kinds /\ work[w].pc = "check"
    BY <1>0, <1>2 DEF CheckRateLimit, TypeOK
  <2>2. limit' = limit /\ streak' = streak
    BY <1>2 DEF CheckRateLimit, Deny
  <2>3. StreakCounted'
    BY <1>0, <2>2 DEF StreakCounted, Expired
  <2>4. \E where \in {"idle", "examine"} :
          Goto(w, where) /\ (where = "examine" => ~Exceeded(ip) \/ work[w].kind \in FailingReads)
    BY <1>2 DEF CheckRateLimit, Deny
  <2>5. PICK where \in {"idle", "examine"} :
          Goto(w, where) /\ (where = "examine" => ~Exceeded(ip))
    <3>1. Goto(w, "examine") => ~Exceeded(ip)
      BY <1>0, <1>2, <2>1
         DEF CheckRateLimit, Deny, ReadsStop, Goto, TypeOK
    <3>2. QED
      BY <2>4, <3>1
  <2>6. \A i \in Ips : i # ip \/ where = "idle" => Admitted(i)' \subseteq Admitted(i)
    BY <1>0, <2>1, <2>5, GotoType DEF Admitted
  <2>7. \A i \in Ips : BoundAt(i)'
    BY <1>0, <2>1, <2>2, <2>5, <2>6, BoundShrinks, BoundAdmits DEF TypeOK
  <2>8. QED
    BY <1>0, <2>3, <2>7 DEF IInv, GuessesBounded, BoundAt
<1>3. ASSUME NEW w \in Workers, Examine(w) PROVE IInv'
  <2>1. work[w].kind \in {"login", "begin", "finish"} /\ work[w].pc = "examine"
    BY <1>0, <1>3, LimitAssumption DEF Examine, TypeOK
  <2>2. \E outcome \in {"idle", "record", "reset"} : Goto(w, outcome)
    BY <1>3, <2>1 DEF Examine, Outcomes
  <2>3. \A i \in Ips : Admitted(i)' \subseteq Admitted(i)
    BY <1>0, <2>1, <2>2, GotoType DEF Admitted
  <2>4. StreakCounted'
    BY <1>0, <1>3 DEF Examine, StreakCounted, Expired
  <2>5. \A i \in Ips : BoundAt(i)'
    BY <1>0, <1>3, <2>3, BoundShrinks DEF Examine, TypeOK
  <2>6. QED
    BY <1>0, <2>4, <2>5 DEF IInv, GuessesBounded, BoundAt
<1>4. ASSUME NEW w \in Workers, RecordFailure(w) PROVE IInv'
  <2>0. PICK ip \in Ips : ip = work[w].ip
    BY <1>0, <1>4 DEF RecordFailure, TypeOK
  <2>1. ip \in Ips /\ work[w].pc = "record" /\ Goto(w, "idle")
    BY <1>4, <2>0 DEF RecordFailure
  <2>2. /\ w \in Admitted(ip) /\ Admitted(ip)' = Admitted(ip) \ {w}
        /\ \A i \in Ips : Admitted(i)' \subseteq Admitted(i)
    BY <1>0, <2>0, <2>1, GotoType DEF Admitted
  <2>3. CASE Failed(ip)
    <3>1. /\ streak'[ip] = streak[ip] + 1
          /\ \A i \in Ips \ {ip} : streak'[i] = streak[i] /\ limit'[i] = limit[i]
          /\ limit'[ip].left = Block /\ limit'[ip].attempts = Incremented(ip)
      BY <1>0, <2>1, <2>3 DEF Failed, TypeOK
    <3>2. BoundAt(ip)'
      BY <2>1, <2>2, <3>1, BoundMoves
    <3>3. \A i \in Ips \ {ip} : BoundAt(i)'
      BY <1>0, <2>2, <3>1, BoundShrinks DEF TypeOK
    <3>4. streak[ip] + 1 <= Cap
      <4>1. /\ streak[ip] + Cardinality(Admitted(ip))
                 <= MaxAttempts - 1 + Cardinality(Workers)
            /\ streak[ip] \in Nat
        BY <2>1 DEF IInv, GuessesBounded, TypeOK
      <4>2. Cardinality(Admitted(ip)) \in Nat
        BY AdmittedFinite
      <4>3. QED
        BY <4>1, <4>2, WorkersCard, LimitAssumption
    <3>5. streak[ip] + 1 <= Incremented(ip)
      BY <1>0, <2>1, <3>4, LimitAssumption
         DEF TypeOK, StreakCounted, Incremented
    <3>6. StreakCounted'
      BY <1>0, <2>1, <3>1, <3>5, LimitAssumption DEF StreakCounted, Expired
    <3>7. QED
      BY <1>0, <3>2, <3>3, <3>6 DEF IInv, GuessesBounded, BoundAt
  <2>4. CASE UNCHANGED <<limit, streak>>
    <3>1. StreakCounted'
      BY <1>0, <2>4 DEF StreakCounted, Expired
    <3>2. \A i \in Ips : BoundAt(i)'
      BY <1>0, <2>2, <2>4, BoundShrinks DEF TypeOK
    <3>3. QED
      BY <1>0, <3>1, <3>2 DEF IInv, GuessesBounded, BoundAt
  <2>5. QED
    BY <1>4, <2>0, <2>3, <2>4 DEF RecordFailure
<1>5. ASSUME NEW w \in Workers, ResetLimit(w) PROVE IInv'
  <2> DEFINE ip == work[w].ip
  <2>1. ip \in Ips /\ work[w].pc = "reset" /\ Goto(w, "idle")
    BY <1>0, <1>5 DEF ResetLimit, TypeOK
  <2>2. \A i \in Ips : Admitted(i)' \subseteq Admitted(i)
    BY <1>0, <2>1, GotoType DEF Admitted
  <2>3. \A i \in Ips : /\ streak'[i] = streak[i] /\ limit'[i] = limit[i]
                       \/ streak'[i] = 0
    BY <1>0, <1>5, <2>1 DEF ResetLimit, Forget, TypeOK
  <2>4. StreakCounted'
    BY <1>0, <2>3 DEF StreakCounted, Expired
  <2>5. \A i \in Ips : BoundAt(i)'
    BY <1>0, <2>2, <2>3, BoundShrinks DEF TypeOK
  <2>6. QED
    BY <1>0, <2>4, <2>5 DEF IInv, GuessesBounded, BoundAt
<1>6. ASSUME \/ \E ip \in Ips : TtlDelete(ip)
             \/ CleanupExpired \/ Restart \/ Tick \/ UNCHANGED vars
      PROVE  IInv'
  <2>1. \A i \in Ips : Admitted(i)' \subseteq Admitted(i)
    BY <1>6
       DEF TtlDelete, CleanupExpired, Restart, Tick, vars, Admitted, IdleWorker
  <2>2. \A i \in Ips :
          \/ streak'[i] = 0
          \/ /\ streak'[i] = streak[i]
             /\ limit'[i].attempts = limit[i].attempts
             /\ ~Expired(i) => limit'[i].left >= 0
    <3>1. CASE \E ip \in Ips : TtlDelete(ip)
      BY <1>0, <3>1 DEF TtlDelete, Forget, TypeOK, Expired
    <3>2. CASE CleanupExpired
      BY <1>0, <3>2 DEF CleanupExpired, TypeOK, Expired
    <3>3. CASE Tick
      BY <1>0, <3>3 DEF Tick, TypeOK, Expired
    <3>4. CASE Restart \/ UNCHANGED vars
      BY <1>0, <3>4 DEF Restart, vars, TypeOK, Expired
    <3>5. QED
      BY <1>6, <3>1, <3>2, <3>3, <3>4
  <2>3. StreakCounted'
    BY <1>0, <2>2 DEF StreakCounted, Expired, TypeOK
  <2>4. \A i \in Ips : BoundAt(i)'
    BY <1>0, <2>1, <2>2, BoundShrinks DEF TypeOK
  <2>5. QED
    BY <1>0, <2>3, <2>4 DEF IInv, GuessesBounded, BoundAt
<1>7. QED
  BY <1>1, <1>2, <1>3, <1>4, <1>5, <1>6 DEF Next, Handle

\* However many handlers run between the test of a counter and its increment,
\* an address gets no more than MaxLoginAttempts - 1 failures plus one per
\* concurrent handler while its record lives.
THEOREM FailureLimit ==
  ASSUME ReadsStop
  PROVE  Spec => []GuessesBounded
<1>1. Init => IInv
  <2>1. Init => \A ip \in Ips : Admitted(ip) = {}
    BY DEF Init, Admitted, IdleWorker
  <2>2. Init => GuessesBounded
    <3>1. 0 <= MaxAttempts - 1 + Cardinality(Workers)
      BY WorkersCard, LimitAssumption
    <3>2. Init => \A ip \in Ips : streak[ip] + Cardinality(Admitted(ip)) = 0
      BY <2>1, FS_EmptySet DEF Init
    <3>3. QED
      BY <3>1, <3>2 DEF GuessesBounded
  <2>3. QED
    BY <2>2, InitTypeOK DEF IInv, StreakCounted, Init
<1>2. IInv /\ [Next]_vars => IInv'
  BY NextIInv
<1>3. IInv => GuessesBounded
  BY DEF IInv
<1>4. QED
  BY <1>1, <1>2, <1>3, PTL DEF Spec

\* No step takes the count of a live record away, save that of a handler
\* whose login succeeded from the same address.
THEOREM CountsKept == Spec => CountsSurvive
<1> DEFINE Survives ==
      \A ip \in Ips :
        ~Expired(ip) /\ limit'[ip].attempts < limit[ip].attempts =>
          \E w \in Workers : work[w].pc = "reset" /\ work[w].ip = ip
<1>1. TypeOK /\ [Next]_vars => [Survives]_vars
  <2> SUFFICES ASSUME TypeOK, [Next]_vars, NEW ip \in Ips, ~Expired(ip),
                      limit'[ip].attempts < limit[ip].attempts
               PROVE  \E w \in Workers : work[w].pc = "reset" /\ work[w].ip = ip
    OBVIOUS
  <2>0. limit[ip].attempts \in 0 .. Cap /\ limit'[ip].attempts \in 0 .. Cap
    BY NextTypeOK DEF TypeOK
  <2>1. limit' # limit
    BY <2>0
  <2>2. ASSUME NEW w \in Workers, RecordFailure(w) PROVE FALSE
    <3>1. Failed(work[w].ip) /\ work[w].ip \in Ips
      BY <2>1, <2>2 DEF RecordFailure, TypeOK
    <3>2. Incremented(work[w].ip) >= limit[work[w].ip].attempts
      BY <3>1, LimitAssumption DEF Incremented, TypeOK
    <3>3. limit'[ip] = limit[ip] \/ limit'[ip].attempts >= limit[ip].attempts
      BY <3>1, <3>2 DEF Failed, TypeOK
    <3>4. QED
      BY <2>0, <3>2, <3>3
  <2>3. ASSUME NEW w \in Workers, ResetLimit(w)
        PROVE  work[w].pc = "reset" /\ work[w].ip = ip
    BY <2>0, <2>1, <2>3 DEF ResetLimit, Forget, TypeOK
  <2>4. ASSUME NEW i \in Ips, TtlDelete(i) PROVE FALSE
    BY <2>0, <2>4 DEF TtlDelete, Stale, Forget, TypeOK
  <2>5. CASE CleanupExpired
    BY <2>0, <2>5 DEF CleanupExpired, Stale
  <2>6. CASE Tick
    <3>1. limit'[ip].attempts = limit[ip].attempts
      BY <2>6 DEF Tick, TypeOK
    <3>2. QED
      BY <2>0, <3>1
  <2>7. CASE \/ \E w \in Workers, i \in Ips, kind \in Kinds : Arrive(w, i, kind)
             \/ \E w \in Workers : CheckRateLimit(w) \/ Examine(w)
             \/ Restart \/ UNCHANGED vars
    BY <2>1, <2>7 DEF Arrive, CheckRateLimit, Deny, Examine, Restart, vars
  <2>8. QED
    BY <2>2, <2>3, <2>4, <2>5, <2>6, <2>7 DEF Next, Handle
<1>2. QED
  BY <1>1, TypeCorrect, PTL DEF Spec, CountsSurvive

-----------------------------------------------------------------------------
(* How a block wears off *)

\* While the address is blocked nobody is let through any more, and only who
\* was let through before can set its expiry anew, once.
WearsOff(ip) ==
  Exceeded(ip) =>
    /\ Admitted(ip)' \subseteq Admitted(ip)
    /\ limit'[ip].left > limit[ip].left => Admitted(ip)' # Admitted(ip)

\* A handler that goes on, to a place behind the limit only if it was there
\* or the address is not blocked, and writes nothing.
LEMMA MovesOn ==
  ASSUME TypeOK, NEW w \in Workers, NEW where, Goto(w, where), limit' = limit,
         \/ where = "idle"
         \/ work[w].pc \in {"examine", "record", "reset"}
         \/ ~Exceeded(work[w].ip),
         NEW ip \in Ips
  PROVE  WearsOff(ip)
<1> SUFFICES ASSUME Exceeded(ip)
             PROVE  /\ Admitted(ip)' \subseteq Admitted(ip)
                    /\ ~(limit'[ip].left > limit[ip].left)
  BY DEF WearsOff
<1>1. ASSUME NEW v \in Workers, v \in Admitted(ip)' PROVE v \in Admitted(ip)
  <2>1. CASE v = w
    BY <1>1, <2>1 DEF Goto, TypeOK, Admitted
  <2>2. CASE v # w
    BY <1>1, <2>2 DEF Goto, TypeOK, Admitted
  <2>3. QED
    BY <2>1, <2>2
<1>2. limit[ip].left \in -1 .. Block
  BY DEF TypeOK
<1>3. QED
  BY <1>1, <1>2, LimitAssumption DEF Admitted

\* The safety half of BlockLifts: if the reads that fail stop the request, a
\* block lasts no longer than BlockDuration for each handler that was under
\* way when it began and once more, however often the client goes on asking.
THEOREM BlockWearsOff ==
  ASSUME ReadsStop
  PROVE  Spec => [][\A ip \in Ips : WearsOff(ip)]_vars
<1> DEFINE Step == \A ip \in Ips : WearsOff(ip)
<1>1. ASSUME TypeOK, [Next]_vars PROVE [Step]_vars
  <2> SUFFICES ASSUME NEW ip \in Ips PROVE WearsOff(ip)
    OBVIOUS
  <2>0. limit[ip].left \in -1 .. Block /\ Block \in Nat
    BY <1>1, LimitAssumption DEF TypeOK
  <2>1. ASSUME NEW w \in Workers, NEW i \in Ips, NEW kind \in Kinds,
               Arrive(w, i, kind)
        PROVE  WearsOff(ip)
    <3>1. Admitted(ip)' \subseteq Admitted(ip) /\ limit' = limit
      BY <1>1, <2>1 DEF Arrive, Admitted, TypeOK
    <3>2. QED
      BY <2>0, <3>1 DEF WearsOff
  <2>2. ASSUME NEW w \in Workers, CheckRateLimit(w) PROVE WearsOff(ip)
    <3>1. limit' = limit
      BY <2>2 DEF CheckRateLimit, Deny
    <3>2. Goto(w, "idle") \/ (Goto(w, "examine") /\ ~Exceeded(work[w].ip))
      BY <1>1, <2>2 DEF CheckRateLimit, Deny, ReadsStop, TypeOK
    <3>3. QED
      BY <1>1, <3>1, <3>2, MovesOn
  <2>3. ASSUME NEW w \in Workers, Examine(w) PROVE WearsOff(ip)
    <3>1. PICK outcome : Goto(w, outcome)
      BY <2>3 DEF Examine
    <3>2. QED
      BY <1>1, <2>3, <3>1, MovesOn DEF Examine
  <2>4. ASSUME NEW w \in Workers, RecordFailure(w) \/ ResetLimit(w)
        PROVE  WearsOff(ip)
    <3>1. Goto(w, "idle") /\ work[w].pc \in {"record", "reset"} /\ work[w].ip \in Ips
      BY <1>1, <2>4 DEF RecordFailure, ResetLimit, TypeOK
    <3>2. Admitted(ip)' \subseteq Admitted(ip)
      BY <1>1, <3>1 DEF Goto, Admitted, TypeOK
    <3>3. CASE work[w].ip = ip
      <4>1. w \in Admitted(ip) /\ w \notin Admitted(ip)'
        BY <1>1, <3>1, <3>3 DEF Goto, Admitted, TypeOK
      <4>2. QED
        BY <3>2, <4>1 DEF WearsOff
    <3>4. CASE work[w].ip # ip
      <4>1. limit'[ip] = limit[ip]
        BY <1>1, <2>4, <3>1, <3>4 DEF RecordFailure, ResetLimit, Failed, Forget, TypeOK
      <4>2. QED
        BY <2>0, <3>2, <4>1 DEF WearsOff
    <3>5. QED
      BY <3>3, <3>4
  <2>5. CASE (\E i \in Ips : TtlDelete(i)) \/ CleanupExpired \/ Tick
    <3>1. work' = work
      BY <2>5 DEF TtlDelete, CleanupExpired, Tick
    <3>2. Exceeded(ip) => limit'[ip].left <= limit[ip].left
      BY <1>1, <2>0, <2>5
         DEF TtlDelete, CleanupExpired, Tick, Forget, Stale, Expired, Exceeded, TypeOK
    <3>3. Exceeded(ip) => ~(limit'[ip].left > limit[ip].left)
      <4>1. CASE Exceeded(ip) /\ limit'[ip].left \in Int
        BY <2>0, <3>2, <4>1
      <4>2. limit'[ip].left \in Int
        BY <1>1, NextTypeOK, LimitAssumption DEF TypeOK
      <4>3. QED
        BY <4>1, <4>2
    <3>4. QED
      BY <3>1, <3>3 DEF WearsOff, Admitted
  <2>6. CASE Restart
    <3>1. Admitted(ip)' \subseteq Admitted(ip) /\ limit' = limit
      BY <2>6 DEF Restart, Admitted, IdleWorker
    <3>2. QED
      BY <2>0, <3>1 DEF WearsOff
  <2>7. CASE UNCHANGED vars
    BY <2>0, <2>7 DEF vars, WearsOff, Admitted
  <2>8. QED
    BY <1>1, <2>1, <2>2, <2>3, <2>4, <2>5, <2>6, <2>7 DEF Next, Handle
<1>2. TypeOK /\ [Next]_vars => [Step]_vars
  BY <1>1
<1>3. QED
  BY <1>2, TypeCorrect, PTL DEF Spec

-----------------------------------------------------------------------------
(* Accounts: the invariant *)

AccountsTypeOK ==
  /\ accounts \subseteq
       [name : Names \cup {Defaults[i].name : i \in DOMAIN Defaults},
        email : Emails \cup {Defaults[i].email : i \in DOMAIN Defaults},
        role : {Guest} \cup {Defaults[i].role : i \in DOMAIN Defaults},
        owner : Registrations \cup Runs]
  /\ reg \in [Registrations ->
                [pc : InFlight \cup {"new", "refused", "conflict", "created", "lost"},
                 name : Names \cup {"none"}, email : Emails \cup {"none"}]]
  /\ \A x \in Registrations :
       reg[x].pc \in InFlight => reg[x].name \in Names /\ reg[x].email \in Emails
  /\ seed \in [Runs -> [pc : {"new", "upsert", "ended"},
                        next : 1 .. Len(Defaults) + 1, missed : BOOLEAN]]

\* What the unique indexes enforce.
UniqueIn(S) ==
  \A a, b \in S : a.name = b.name \/ a.email = b.email => a = b

\* The account that was made for a registration that succeeded is there.
Kept ==
  \A x \in Registrations : reg[x].pc = "created" =>
    \E a \in accounts : /\ a.owner = x
                        /\ a.name = reg[x].name /\ a.email = reg[x].email

\* The i-th default user has its role, or cannot be made.
Settled(i, S) ==
  \/ \E a \in S : a.name = Defaults[i].name /\ a.role = Defaults[i].role
  \/ \E a \in S : a.email = Defaults[i].email /\ a.name # Defaults[i].name

\* A run that has missed nothing has settled all users up to where it is.
SettledSoFar ==
  \A r \in Runs : ~seed[r].missed =>
    /\ \A i \in DOMAIN Defaults : i < seed[r].next => Settled(i, accounts)
    /\ seed[r].pc = "ended" => seed[r].next = Len(Defaults) + 1

AccountsIInv ==
  AccountsTypeOK /\ UniqueIn(accounts) /\ Kept /\ SettledSoFar

-----------------------------------------------------------------------------
(* The writes of identity_users *)

\* An insertion that the indexes allow keeps names and emails unique.
LEMMA InsertionIsUnique ==
  ASSUME UniqueIn(accounts), NEW name, NEW email, NEW role, NEW owner,
         IndexAllows(name, email)
  PROVE  UniqueIn(accounts \cup {Account(name, email, role, owner)})
BY DEF UniqueIn, IndexAllows, Account

\* A settled user stays settled when accounts are added.
LEMMA SettledGrows ==
  ASSUME NEW S, NEW T, S \subseteq T, NEW i, Settled(i, S)
  PROVE  Settled(i, T)
BY DEF Settled

LEMMA DefaultsType ==
  /\ Len(Defaults) \in Nat /\ DOMAIN Defaults = 1 .. Len(Defaults)
  /\ \A i, j \in DOMAIN Defaults : Defaults[i].name = Defaults[j].name => i = j
BY DefaultsAssumption

\* An upsert leaves every account there, and gives at most a role.
LEMMA UpsertKeeps ==
  ASSUME AccountsTypeOK, NEW d, NEW r, NEW a \in accounts
  PROVE  \E b \in Upserted(d, r) :
           /\ b.name = a.name /\ b.email = a.email /\ b.owner = a.owner
           /\ b.role = IF a.name = d.name THEN d.role ELSE a.role
<1>1. CASE a \in Named(d.name)
  <2>1. [a EXCEPT !.role = d.role] \in Upserted(d, r)
    BY <1>1 DEF Upserted
  <2>2. a = [name |-> a.name, email |-> a.email, role |-> a.role, owner |-> a.owner]
    BY DEF AccountsTypeOK
  <2>3. a.name = d.name
    BY <1>1 DEF Named
  <2>4. QED
    BY <2>1, <2>2, <2>3
<1>2. CASE a \notin Named(d.name)
  <2>1. a \in Upserted(d, r) /\ a.name # d.name
    BY <1>2 DEF Upserted, Named
  <2>2. QED
    BY <2>1
<1>3. QED
  BY <1>1, <1>2

\* Where the accounts after an upsert come from.
LEMMA UpsertSource ==
  ASSUME AccountsTypeOK, NEW d, NEW r, NEW b \in Upserted(d, r)
  PROVE  \/ \E a \in accounts :
              /\ b = [name |-> a.name, email |-> a.email, owner |-> a.owner,
                      role |-> IF a.name = d.name THEN d.role ELSE a.role]
         \/ b = Account(d.name, d.email, d.role, r) /\ IndexAllows(d.name, d.email)
<1>1. \A a \in accounts :
        a = [name |-> a.name, email |-> a.email, role |-> a.role, owner |-> a.owner]
  BY DEF AccountsTypeOK
<1>2. CASE b \in accounts \ Named(d.name)
  BY <1>1, <1>2 DEF Named
<1>3. CASE \E a \in Named(d.name) : b = [a EXCEPT !.role = d.role]
  <2>1. PICK a \in Named(d.name) : b = [a EXCEPT !.role = d.role]
    BY <1>3
  <2>2. a \in accounts /\ a.name = d.name
    BY DEF Named
  <2>3. b = [name |-> a.name, email |-> a.email, owner |-> a.owner, role |-> d.role]
    BY <1>1, <2>1, <2>2
  <2>4. QED
    BY <2>2, <2>3
<1>4. CASE Named(d.name) = {} /\ b \notin accounts
  BY <1>4 DEF Upserted
<1>5. QED
  BY <1>2, <1>3, <1>4 DEF Upserted

LEMMA UpsertIsUnique ==
  ASSUME AccountsTypeOK, UniqueIn(accounts), NEW d, NEW r
  PROVE  UniqueIn(Upserted(d, r))
<1> SUFFICES ASSUME NEW b \in Upserted(d, r), NEW c \in Upserted(d, r),
                    b.name = c.name \/ b.email = c.email
             PROVE  b = c
  BY DEF UniqueIn
<1> DEFINE Given(a) == [name |-> a.name, email |-> a.email, owner |-> a.owner,
                        role |-> IF a.name = d.name THEN d.role ELSE a.role]
           New == Account(d.name, d.email, d.role, r)
<1>1. /\ (\E a \in accounts : b = Given(a)) \/ (b = New /\ IndexAllows(d.name, d.email))
      /\ (\E a \in accounts : c = Given(a)) \/ (c = New /\ IndexAllows(d.name, d.email))
  BY UpsertSource
<1>2. \A a \in accounts : Given(a).name = a.name /\ Given(a).email = a.email
  OBVIOUS
<1>3. New.name = d.name /\ New.email = d.email
  BY DEF Account
<1>4. CASE \E a \in accounts : b = Given(a)
  <2>1. PICK a \in accounts : b = Given(a)
    BY <1>4
  <2>2. CASE \E e \in accounts : c = Given(e)
    <3>1. PICK e \in accounts : c = Given(e)
      BY <2>2
    <3>2. a.name = e.name \/ a.email = e.email
      BY <1>2, <2>1, <3>1
    <3>3. a = e
      BY <3>2 DEF UniqueIn
    <3>4. QED
      BY <2>1, <3>1, <3>3
  <2>3. CASE c = New /\ IndexAllows(d.name, d.email)
    BY <1>2, <1>3, <2>1, <2>3 DEF IndexAllows
  <2>4. QED
    BY <1>1, <2>2, <2>3
<1>5. CASE b = New /\ IndexAllows(d.name, d.email)
  BY <1>1, <1>2, <1>3, <1>5 DEF IndexAllows
<1>6. QED
  BY <1>1, <1>4, <1>5

\* An upsert that goes through settles its user and unsettles none.
LEMMA UpsertSettles ==
  ASSUME AccountsTypeOK, NEW j \in DOMAIN Defaults, NEW r
  PROVE  Settled(j, Upserted(Defaults[j], r))
<1> DEFINE d == Defaults[j]
<1>1. CASE Named(d.name) # {}
  <2>1. PICK a \in accounts : a.name = d.name
    BY <1>1 DEF Named
  <2>2. PICK b \in Upserted(d, r) :
          b.name = a.name /\ b.role = IF a.name = d.name THEN d.role ELSE a.role
    BY UpsertKeeps
  <2>3. b.name = d.name /\ b.role = d.role
    BY <2>1, <2>2
  <2>4. QED
    BY <2>3 DEF Settled
<1>2. CASE Named(d.name) = {} /\ IndexAllows(d.name, d.email)
  <2>1. Account(d.name, d.email, d.role, r) \in Upserted(d, r)
    BY <1>2 DEF Upserted
  <2>2. QED
    BY <2>1 DEF Settled, Account
<1>3. CASE Named(d.name) = {} /\ ~IndexAllows(d.name, d.email)
  <2>1. Upserted(d, r) = accounts
    BY <1>3 DEF Upserted
  <2>2. QED
    BY <1>3, <2>1 DEF Settled, Named, IndexAllows
<1>4. QED
  BY <1>1, <1>2, <1>3

LEMMA UpsertUnsettlesNone ==
  ASSUME AccountsTypeOK, NEW j \in DOMAIN Defaults, NEW r,
         NEW i \in DOMAIN Defaults, Settled(i, accounts)
  PROVE  Settled(i, Upserted(Defaults[j], r))
<1> DEFINE d == Defaults[j]
<1>1. CASE \E a \in accounts : a.name = Defaults[i].name /\ a.role = Defaults[i].role
  <2>1. PICK a \in accounts : a.name = Defaults[i].name /\ a.role = Defaults[i].role
    BY <1>1
  <2>2. PICK b \in Upserted(d, r) :
          b.name = a.name /\ b.role = IF a.name = d.name THEN d.role ELSE a.role
    BY UpsertKeeps
  <2>3. a.name = d.name => i = j
    BY <2>1, DefaultsType
  <2>4. b.name = Defaults[i].name /\ b.role = Defaults[i].role
    BY <2>1, <2>2, <2>3
  <2>5. QED
    BY <2>4 DEF Settled
<1>2. CASE \E a \in accounts : a.email = Defaults[i].email /\ a.name # Defaults[i].name
  <2>1. PICK a \in accounts : a.email = Defaults[i].email /\ a.name # Defaults[i].name
    BY <1>2
  <2>2. PICK b \in Upserted(d, r) : b.name = a.name /\ b.email = a.email
    BY UpsertKeeps
  <2>3. QED
    BY <2>1, <2>2 DEF Settled
<1>3. QED
  BY <1>1, <1>2 DEF Settled

-----------------------------------------------------------------------------
LEMMA InitAccounts == AccountsInit => AccountsIInv
<1> SUFFICES ASSUME AccountsInit PROVE AccountsIInv
  OBVIOUS
<1>1. AccountsTypeOK
  BY DefaultsType DEF AccountsInit, AccountsTypeOK, NoRegistration, InFlight, Where
<1>2. UniqueIn(accounts) /\ Kept
  BY DEF AccountsInit, UniqueIn, Kept, NoRegistration
<1>3. SettledSoFar
  BY DefaultsType DEF AccountsInit, SettledSoFar, Where
<1>4. QED
  BY <1>1, <1>2, <1>3 DEF AccountsIInv

\* A step of a registration that writes no account.
LEMMA ReplyIInv ==
  ASSUME AccountsIInv, NEW x \in Registrations,
         NEW pc \in InFlight \cup {"refused", "conflict"},
         pc \in InFlight => reg[x].pc \in InFlight,
         Reply(x, pc), UNCHANGED <<accounts, seed>>
  PROVE  AccountsIInv'
<1>1. AccountsTypeOK'
  BY DEF AccountsIInv, AccountsTypeOK, Reply, InFlight
<1>2. \A y \in Registrations : reg'[y].pc = "created" => reg'[y] = reg[y]
  BY DEF AccountsIInv, AccountsTypeOK, Reply, InFlight
<1>3. Kept'
  BY <1>2 DEF AccountsIInv, Kept
<1>4. UniqueIn(accounts)' /\ SettledSoFar'
  BY DEF AccountsIInv, UniqueIn, SettledSoFar, Settled
<1>5. QED
  BY <1>1, <1>3, <1>4 DEF AccountsIInv

LEMMA RegisterIInv ==
  ASSUME AccountsIInv, NEW x \in Registrations, NEW n \in Names, NEW e \in Emails,
         Register(x, n, e)
  PROVE  AccountsIInv'
<1>1. AccountsTypeOK'
  BY DEF AccountsIInv, AccountsTypeOK, Register, InFlight
<1>2. \A y \in Registrations : reg'[y].pc = "created" => reg'[y] = reg[y]
  BY DEF AccountsIInv, AccountsTypeOK, Register
<1>3. Kept'
  BY <1>2 DEF AccountsIInv, Kept, Register
<1>4. UniqueIn(accounts)' /\ SettledSoFar'
  BY DEF AccountsIInv, UniqueIn, SettledSoFar, Settled, Register
<1>5. QED
  BY <1>1, <1>3, <1>4 DEF AccountsIInv

LEMMA InsertIInv ==
  ASSUME AccountsIInv, NEW x \in Registrations, Insert(x)
  PROVE  AccountsIInv'
<1> DEFINE New == Account(reg[x].name, reg[x].email, Guest, x)
<1>1. CASE Reply(x, "conflict") /\ UNCHANGED accounts
  BY <1>1, ReplyIInv DEF Insert, InFlight
<1>2. CASE /\ IndexAllows(reg[x].name, reg[x].email)
           /\ accounts' = accounts \cup {New}
           /\ Reply(x, "created") \/ Reply(x, "conflict")
  <2>1. reg[x].name \in Names /\ reg[x].email \in Emails
    BY DEF AccountsIInv, AccountsTypeOK, Insert, InFlight
  <2>2. PICK pc \in {"created", "conflict"} : Reply(x, pc)
    BY <1>2
  <2>3. AccountsTypeOK'
    <3>1. New \in [name : Names \cup {Defaults[i].name : i \in DOMAIN Defaults},
                   email : Emails \cup {Defaults[i].email : i \in DOMAIN Defaults},
                   role : {Guest} \cup {Defaults[i].role : i \in DOMAIN Defaults},
                   owner : Registrations \cup Runs]
      BY <2>1 DEF Account
    <3>2. accounts' \subseteq
            [name : Names \cup {Defaults[i].name : i \in DOMAIN Defaults},
             email : Emails \cup {Defaults[i].email : i \in DOMAIN Defaults},
             role : {Guest} \cup {Defaults[i].role : i \in DOMAIN Defaults},
             owner : Registrations \cup Runs]
      BY <1>2, <3>1 DEF AccountsIInv, AccountsTypeOK
    <3>3. /\ reg' \in [Registrations ->
                [pc : InFlight \cup {"new", "refused", "conflict", "created", "lost"},
                 name : Names \cup {"none"}, email : Emails \cup {"none"}]]
          /\ \A y \in Registrations :
               reg'[y].pc \in InFlight => reg'[y].name \in Names /\ reg'[y].email \in Emails
      BY <2>2 DEF AccountsIInv, AccountsTypeOK, Reply, InFlight
    <3>4. seed' = seed
      BY DEF Insert
    <3>5. QED
      BY <3>2, <3>3, <3>4 DEF AccountsIInv, AccountsTypeOK
  <2>4. UniqueIn(accounts)'
    <3>1. UniqueIn(accounts \cup {New})
      BY <1>2, InsertionIsUnique DEF AccountsIInv
    <3>2. QED
      BY <1>2, <3>1 DEF UniqueIn
  <2>5. Kept'
    <3> SUFFICES ASSUME NEW y \in Registrations, reg'[y].pc = "created"
                 PROVE  \E a \in accounts' : /\ a.owner = y /\ a.name = reg'[y].name
                                             /\ a.email = reg'[y].email
      BY DEF Kept
    <3>1. reg'[y].name = reg[y].name /\ reg'[y].email = reg[y].email
      BY <2>2 DEF AccountsIInv, AccountsTypeOK, Reply
    <3>2. CASE y = x
      <4>1. New \in accounts' /\ New.owner = x
            /\ New.name = reg[x].name /\ New.email = reg[x].email
        BY <1>2 DEF Account
      <4>2. QED
        BY <3>1, <3>2, <4>1
    <3>3. CASE y # x
      <4>1. reg[y].pc = "created"
        BY <2>2, <3>3 DEF AccountsIInv, AccountsTypeOK, Reply
      <4>2. QED
        BY <1>2, <3>1, <4>1 DEF AccountsIInv, Kept
    <3>4. QED
      BY <3>2, <3>3
  <2>6. SettledSoFar'
    <3>1. seed' = seed /\ accounts \subseteq accounts'
      BY <1>2 DEF Insert
    <3>2. \A i \in DOMAIN Defaults : Settled(i, accounts) => Settled(i, accounts')
      BY <3>1, SettledGrows
    <3>3. QED
      BY <3>1, <3>2 DEF AccountsIInv, SettledSoFar
  <2>7. QED
    BY <2>3, <2>4, <2>5, <2>6 DEF AccountsIInv
<1>3. QED
  BY <1>1, <1>2 DEF Insert

LEMMA CrashIInv == ASSUME AccountsIInv, Crash PROVE AccountsIInv'
<1>1. AccountsTypeOK'
  BY DEF AccountsIInv, AccountsTypeOK, Crash, InFlight
<1>2. \A y \in Registrations : reg'[y].pc = "created" => reg'[y] = reg[y]
  BY DEF AccountsIInv, AccountsTypeOK, Crash, InFlight
<1>3. Kept'
  BY <1>2 DEF AccountsIInv, Kept, Crash
<1>4. UniqueIn(accounts)' /\ SettledSoFar'
  BY DEF AccountsIInv, UniqueIn, SettledSoFar, Settled, Crash
<1>5. QED
  BY <1>1, <1>3, <1>4 DEF AccountsIInv

\* A step of the seeder that writes no account: the run does not move on, and
\* ends only if it has missed something or has been through all users.
LEMMA SeedIdleIInv ==
  ASSUME AccountsIInv, NEW r \in Runs, UNCHANGED <<accounts, reg>>,
         NEW pc \in {"upsert", "ended"}, NEW missed \in BOOLEAN,
         seed[r].missed => missed,
         pc = "ended" => missed \/ seed[r].next > Len(Defaults),
         seed' = [seed EXCEPT ![r] = Where(pc, seed[r].next, missed)]
  PROVE  AccountsIInv'
<1> DEFINE States == [pc : {"new", "upsert", "ended"},
                      next : 1 .. Len(Defaults) + 1, missed : BOOLEAN]
<1>0. seed \in [Runs -> States]
  BY DEF AccountsIInv, AccountsTypeOK
<1>1. AccountsTypeOK'
  <2>1. Where(pc, seed[r].next, missed) \in States
    BY <1>0 DEF Where
  <2>2. seed' \in [Runs -> States]
    BY <1>0, <2>1
  <2>3. QED
    BY <2>2 DEF AccountsIInv, AccountsTypeOK
<1>2. UniqueIn(accounts)' /\ Kept'
  BY DEF AccountsIInv, UniqueIn, Kept
<1>3. SettledSoFar'
  <2> SUFFICES ASSUME NEW q \in Runs, ~seed'[q].missed
               PROVE  /\ \A i \in DOMAIN Defaults :
                           i < seed'[q].next => Settled(i, accounts')
                      /\ seed'[q].pc = "ended" => seed'[q].next = Len(Defaults) + 1
    BY DEF SettledSoFar
  <2>1. seed'[q].next = seed[q].next /\ ~seed[q].missed
    <3>1. CASE q = r
      BY <1>0, <3>1 DEF Where
    <3>2. CASE q # r
      BY <1>0, <3>2
    <3>3. QED
      BY <3>1, <3>2
  <2>2. seed'[q].pc = "ended" => seed[q].pc = "ended" \/ seed[q].next > Len(Defaults)
    <3>1. CASE q = r
      BY <1>0, <3>1 DEF Where
    <3>2. CASE q # r
      BY <1>0, <3>2
    <3>3. QED
      BY <3>1, <3>2
  <2>3. seed[q].next \in 1 .. Len(Defaults) + 1 /\ Len(Defaults) \in Nat
    BY DefaultsType DEF AccountsIInv, AccountsTypeOK
  <2>4. QED
    BY <2>1, <2>2, <2>3 DEF AccountsIInv, SettledSoFar
<1>4. QED
  BY <1>1, <1>2, <1>3 DEF AccountsIInv

LEMMA SeedUserIInv ==
  ASSUME AccountsIInv, NEW r \in Runs, SeedUser(r) PROVE AccountsIInv'
<1> DEFINE j == seed[r].next
<1>1. j \in DOMAIN Defaults /\ j \in Nat /\ Len(Defaults) \in Nat /\ j <= Len(Defaults)
  BY DefaultsType DEF AccountsIInv, AccountsTypeOK, SeedUser
<1>2. PICK failed \in BOOLEAN :
        /\ accounts' = Upserted(Defaults[j], r) \/ (failed /\ accounts' = accounts)
        /\ seed' = [seed EXCEPT ![r] =
                      Where("upsert", j + 1, seed[r].missed \/ failed)]
  BY DEF SeedUser
<1>3. reg' = reg
  BY DEF SeedUser
<1>4. AccountsTypeOK'
  <2>1. accounts' \subseteq
          [name : Names \cup {Defaults[i].name : i \in DOMAIN Defaults},
           email : Emails \cup {Defaults[i].email : i \in DOMAIN Defaults},
           role : {Guest} \cup {Defaults[i].role : i \in DOMAIN Defaults},
           owner : Registrations \cup Runs]
    <3>1. CASE accounts' = accounts
      BY <3>1 DEF AccountsIInv, AccountsTypeOK
    <3>2. CASE accounts' = Upserted(Defaults[j], r)
      <4> SUFFICES ASSUME NEW b \in accounts'
                   PROVE  /\ b.name \in Names \cup {Defaults[i].name : i \in DOMAIN Defaults}
                          /\ b.email \in Emails \cup {Defaults[i].email : i \in DOMAIN Defaults}
                          /\ b.role \in {Guest} \cup {Defaults[i].role : i \in DOMAIN Defaults}
                          /\ b.owner \in Registrations \cup Runs
                          /\ b = [name |-> b.name, email |-> b.email,
                                  role |-> b.role, owner |-> b.owner]
        OBVIOUS
      <4>1. AccountsTypeOK
        BY DEF AccountsIInv
      <4>2. CASE \E a \in accounts :
              b = [name |-> a.name, email |-> a.email, owner |-> a.owner,
                   role |-> IF a.name = Defaults[j].name THEN Defaults[j].role ELSE a.role]
        BY <1>1, <4>1, <4>2 DEF AccountsTypeOK
      <4>3. CASE b = Account(Defaults[j].name, Defaults[j].email, Defaults[j].role, r)
        BY <1>1, <4>3 DEF Account
      <4>4. QED
        BY <3>2, <4>1, <4>2, <4>3, UpsertSource
    <3>3. QED
      BY <1>2, <3>1, <3>2
  <2>2. seed' \in [Runs -> [pc : {"new", "upsert", "ended"},
                            next : 1 .. Len(Defaults) + 1, missed : BOOLEAN]]
    <3> DEFINE States == [pc : {"new", "upsert", "ended"},
                          next : 1 .. Len(Defaults) + 1, missed : BOOLEAN]
               Moved == Where("upsert", j + 1, seed[r].missed \/ failed)
    <3>1. seed \in [Runs -> States]
      BY DEF AccountsIInv, AccountsTypeOK
    <3>2. seed' = [seed EXCEPT ![r] = Moved]
      BY <1>2
    <3>3. seed[r].missed \/ failed \in BOOLEAN
      OBVIOUS
    <3>4. j + 1 \in 1 .. Len(Defaults) + 1
      BY <1>1
    <3>5. Moved \in States
      BY <3>3, <3>4 DEF Where
    <3>6. QED
      BY <3>1, <3>2, <3>5
  <2>3. QED
    BY <1>3, <2>1, <2>2 DEF AccountsIInv, AccountsTypeOK
<1>5. UniqueIn(accounts)'
  <2>1. UniqueIn(Upserted(Defaults[j], r)) /\ UniqueIn(accounts)
    BY UpsertIsUnique DEF AccountsIInv
  <2>2. QED
    BY <1>2, <2>1 DEF UniqueIn
<1>6. \A a \in accounts : \E b \in accounts' :
        b.name = a.name /\ b.email = a.email /\ b.owner = a.owner
  <2>1. ASSUME NEW a \in accounts
        PROVE  \E b \in Upserted(Defaults[j], r) :
                 b.name = a.name /\ b.email = a.email /\ b.owner = a.owner
    BY UpsertKeeps DEF AccountsIInv
  <2>2. QED
    BY <1>2, <2>1
<1>7. Kept'
  BY <1>3, <1>6 DEF AccountsIInv, Kept
<1>8. SettledSoFar'
  <2> SUFFICES ASSUME NEW q \in Runs, ~seed'[q].missed
               PROVE  /\ \A i \in DOMAIN Defaults :
                           i < seed'[q].next => Settled(i, accounts')
                      /\ seed'[q].pc = "ended" => seed'[q].next = Len(Defaults) + 1
    BY DEF SettledSoFar
  <2>1. /\ ~seed[q].missed /\ seed'[q].pc = seed[q].pc
        /\ q = r => seed'[q].next = j + 1 /\ ~failed /\ seed[q].pc = "upsert"
        /\ q # r => seed'[q].next = seed[q].next
    <3>1. /\ seed[r].pc = "upsert" /\ seed[r].missed \in BOOLEAN
          /\ q # r => seed'[q] = seed[q]
          /\ q = r => seed'[q] = Where("upsert", j + 1, seed[r].missed \/ failed)
      BY <1>2 DEF AccountsIInv, AccountsTypeOK, SeedUser
    <3>2. CASE q = r
      BY <3>1, <3>2 DEF Where
    <3>3. CASE q # r
      BY <3>1, <3>3
    <3>4. QED
      BY <3>2, <3>3
  <2>2. ASSUME NEW i \in DOMAIN Defaults, Settled(i, accounts)
        PROVE  Settled(i, accounts')
    <3>1. Settled(i, Upserted(Defaults[j], r))
      BY <1>1, <2>2, UpsertUnsettlesNone DEF AccountsIInv
    <3>2. QED
      BY <1>2, <2>2, <3>1
  <2>3. q = r => Settled(j, accounts')
    BY <1>1, <1>2, <2>1, UpsertSettles DEF AccountsIInv
  <2>4. \A i \in DOMAIN Defaults : i < seed[q].next => Settled(i, accounts')
    BY <2>1, <2>2 DEF AccountsIInv, SettledSoFar
  <2>5. \A i \in DOMAIN Defaults : i \in Nat
    BY DefaultsType
  <2>6. CASE q = r
    BY <1>1, <2>1, <2>3, <2>4, <2>5, <2>6
  <2>7. CASE q # r
    BY <2>1, <2>4, <2>7 DEF AccountsIInv, SettledSoFar
  <2>8. QED
    BY <2>6, <2>7
<1>9. QED
  BY <1>4, <1>5, <1>7, <1>8 DEF AccountsIInv

LEMMA NextAccounts ==
  AccountsIInv /\ [AccountsNext]_AccountsVars => AccountsIInv'
<1> SUFFICES ASSUME AccountsIInv, [AccountsNext]_AccountsVars PROVE AccountsIInv'
  OBVIOUS
<1>1. ASSUME NEW x \in Registrations, NEW n \in Names, NEW e \in Emails,
             Register(x, n, e)
      PROVE  AccountsIInv'
  BY <1>1, RegisterIInv
<1>2. ASSUME NEW x \in Registrations, RefuseRequest(x) PROVE AccountsIInv'
  BY <1>2, ReplyIInv DEF RefuseRequest, InFlight
<1>3. ASSUME NEW x \in Registrations, CountName(x) PROVE AccountsIInv'
  BY <1>3, ReplyIInv DEF CountName, InFlight
<1>4. ASSUME NEW x \in Registrations, Insert(x) PROVE AccountsIInv'
  BY <1>4, InsertIInv
<1>5. ASSUME NEW r \in Runs, StartSeeding(r) PROVE AccountsIInv'
  <2>1. seed[r].missed \in BOOLEAN
    BY DEF AccountsIInv, AccountsTypeOK
  <2>2. CASE seed' = [seed EXCEPT ![r] = Where("upsert", seed[r].next, seed[r].missed)]
    BY <1>5, <2>1, <2>2, SeedIdleIInv DEF StartSeeding
  <2>3. CASE seed' = [seed EXCEPT ![r] = Where("ended", seed[r].next, TRUE)]
    BY <1>5, <2>3, SeedIdleIInv DEF StartSeeding
  <2>4. QED
    BY <1>5, <2>2, <2>3 DEF StartSeeding
<1>6. ASSUME NEW r \in Runs, SeedUser(r) PROVE AccountsIInv'
  BY <1>6, SeedUserIInv
<1>7. ASSUME NEW r \in Runs, FinishSeeding(r) PROVE AccountsIInv'
  <2>1. seed[r].missed \in BOOLEAN
    BY DEF AccountsIInv, AccountsTypeOK
  <2>2. QED
    BY <1>7, <2>1, SeedIdleIInv DEF FinishSeeding
<1>8. ASSUME NEW r \in Runs, Killed(r) PROVE AccountsIInv'
  BY <1>8, SeedIdleIInv DEF Killed
<1>9. CASE Crash
  BY <1>9, CrashIInv
<1>10. CASE UNCHANGED AccountsVars
  BY <1>10 DEF AccountsVars, AccountsIInv, AccountsTypeOK, UniqueIn, Kept,
               SettledSoFar, Settled
<1>11. CASE Finished
  BY <1>10, <1>11 DEF Finished
<1>12. QED
  BY <1>1, <1>2, <1>3, <1>4, <1>5, <1>6, <1>7, <1>8, <1>9, <1>10, <1>11
     DEF AccountsNext, Serve, Seed

LEMMA AccountsInvariance == AccountsSpec => []AccountsIInv
BY InitAccounts, NextAccounts, PTL DEF AccountsSpec

\* Names and emails of accounts are unique, whoever writes.
THEOREM NamesUnique == AccountsSpec => [](AccountsTypeOK /\ UniqueIn(accounts))
<1>1. AccountsIInv => AccountsTypeOK /\ UniqueIn(accounts)
  BY DEF AccountsIInv
<1>2. QED
  BY <1>1, AccountsInvariance, PTL

\* For any number of registrations and of runs of the seeder: who was told
\* "registered" has the account.
THEOREM AccountKept == AccountsSpec => []CreatedIsKept
<1>1. AccountsIInv => CreatedIsKept
  <2> SUFFICES ASSUME AccountsIInv, NEW x \in Registrations, reg[x].pc = "created"
               PROVE  \E a \in accounts : /\ Named(reg[x].name) = {a}
                                          /\ a.owner = x /\ a.email = reg[x].email
    BY DEF CreatedIsKept
  <2>1. PICK a \in accounts : /\ a.owner = x /\ a.name = reg[x].name
                              /\ a.email = reg[x].email
    BY DEF AccountsIInv, Kept
  <2>2. Named(reg[x].name) = {a}
    BY <2>1 DEF AccountsIInv, UniqueIn, Named
  <2>3. QED
    BY <2>1, <2>2
<1>2. QED
  BY <1>1, AccountsInvariance, PTL

\* For any list of default users with names and emails of their own: a run of
\* the seeder without failures leaves each with its role, or shadowed.
THEOREM DefaultsSeeded == AccountsSpec => []SeededOrShadowed
<1>1. AccountsIInv => SeededOrShadowed
  <2> SUFFICES ASSUME AccountsIInv, NEW r \in Runs,
                      seed[r].pc = "ended", ~seed[r].missed,
                      NEW i \in DOMAIN Defaults
               PROVE  Settled(i, accounts)
    BY DEF SeededOrShadowed, Settled
  <2>1. seed[r].next = Len(Defaults) + 1
    BY DEF AccountsIInv, SettledSoFar
  <2>2. i < seed[r].next
    BY <2>1, DefaultsType
  <2>3. QED
    BY <2>2 DEF AccountsIInv, SettledSoFar
<1>2. QED
  BY <1>1, AccountsInvariance, PTL
=============================================================================
