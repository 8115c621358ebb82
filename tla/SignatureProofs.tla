-------------------------- MODULE SignatureProofs --------------------------
(***************************************************************************)
(* What rests on signatures: the tokens of JwksTrust, for any time limits  *)
(* and any number of overlapping verifications, and the ceremonies of      *)
(* WebAuthn, for any users, authenticators, challenges and requests.       *)
(*                                                                         *)
(* What the orchestrator accepts follows from how old its cache can be:    *)
(* the cached key was in use no longer ago than Timeout before it was      *)
(* stored (CacheRecent), because a download that is about to be stored     *)
(* holds a key that was in use since it was sent (FetchRecent), and it is  *)
(* stored before the client's timeout.                                     *)
(*                                                                         *)
(* The ceremonies rest on what no step takes back (DocumentsGrow,          *)
(* RequestsGrow): a challenge keeps its contents and stays gone, a         *)
(* credential its owner, an accepted request everything.  With that, an    *)
(* action has to be examined for the one request it moves, by the place it *)
(* moves it to.  A request behind an accepted one cannot find the          *)
(* challenge if that one deleted it (Spent), and comes with a higher count *)
(* if that one saved its own, as the stored count is no lower than what    *)
(* was saved unless a save has lowered it (CountStored).  A stored count   *)
(* comes from a login (DeviceOK), since a credential is enrolled before    *)
(* its authenticator has counted (AuthenticatorOK): that login explains a  *)
(* clone warning.                                                          *)
(***************************************************************************)
EXTENDS JwksTrust, WebAuthn, TLAPS

\* The key was in use at some time from t on.
UsedSince(k, t) == Current(k) \/ retired[k] >= t

\* Keys retire in the order they are made.
RetiredInOrder ==
  \A j, k \in 1 .. key : j <= k /\ ~Current(k) => retired[j] <= retired[k]

CacheRecent == cached # NoKey => UsedSince(cached, cachedAt - Timeout)

FetchRecent ==
  \A c \in Calls :
    /\ Waits(c) => now <= call[c].sent + Timeout
    /\ call[c].pc = "store" =>
         call[c].got # NoKey /\ UsedSince(call[c].got, call[c].sent)

\* The clock does not move between the two halves of getKey that are local.
RereadNow ==
  \A c \in Calls : call[c].pc = "reread" => cached # NoKey /\ cachedAt = now

\* Nothing is from the future, and only keys that exist are asked for.
Past ==
  /\ cached <= key
  /\ \A k \in Keys : retired[k] <= now
  /\ \A c \in Calls :
       /\ call[c].kid <= key /\ call[c].got <= key
       /\ call[c].sent <= now /\ call[c].at <= now
       /\ call[c].pc = "accepted" => call[c].kid # NoKey

IInv ==
  /\ TypeOK /\ RetiredInOrder /\ CacheRecent /\ FetchRecent /\ RereadNow
  /\ Past /\ StaleKeyBounded /\ UnknownSettles

\* What these say of one verification r, unless it is about to reread.
CallType == [pc : Ended \cup {"fetch", "store", "reread"}, kid : {NoKey} \cup Keys,
             exp : Nat, sent : Nat, got : {NoKey} \cup Keys, at : Nat]

Sound(r) ==
  /\ r \in CallType /\ r.pc # "reread"
  /\ r.kid <= key /\ r.got <= key /\ r.sent <= now /\ r.at <= now
  /\ r.pc = "accepted" => r.kid # NoKey
  /\ r.pc \in {"fetch", "store"} => now <= r.sent + Timeout
  /\ r.pc = "store" => r.got # NoKey /\ UsedSince(r.got, r.sent)
  /\ r.pc = "accepted" /\ ~Current(r.kid) =>
       r.at <= retired[r.kid] + CacheTtl + Timeout
  /\ r.pc = "unknown" /\ Current(r.kid) =>
       r.kid > 1 /\ r.at <= retired[r.kid - 1] + Timeout

-----------------------------------------------------------------------------
LEMMA InitIInv == Init => IInv
<1> SUFFICES ASSUME Init PROVE IInv
  OBVIOUS
<1>1. TypeOK
  BY JwksAssumption DEF Init, TypeOK, Keys, NoCall, NoKey, Ended
<1>2. RetiredInOrder /\ Past
  BY JwksAssumption DEF Init, RetiredInOrder, Past, Current, NoCall, NoKey
<1>3. CacheRecent /\ FetchRecent /\ RereadNow
  BY DEF Init, CacheRecent, FetchRecent, RereadNow, NoCall, Waits
<1>4. StaleKeyBounded /\ UnknownSettles
  BY DEF Init, StaleKeyBounded, UnknownSettles, NoCall
<1>5. QED
  BY <1>1, <1>2, <1>3, <1>4 DEF IInv

\* A verification that ends.
LEMMA OverIsSound ==
  ASSUME TypeOK, Past, NEW kid \in 0 .. key, NEW verdict \in {"accepted", "unknown"},
         verdict = "accepted" =>
           kid # NoKey /\ (~Current(kid) =>
                             now <= retired[kid] + CacheTtl + Timeout),
         verdict = "unknown" /\ Current(kid) =>
           kid > 1 /\ now <= retired[kid - 1] + Timeout
  PROVE  Sound(Over(verdict, kid))
<1>1. Over(verdict, kid) = [pc |-> verdict, kid |-> kid, exp |-> 0,
                            sent |-> 0, got |-> NoKey, at |-> now]
  BY DEF Over
<1>2. kid \in {NoKey} \cup Keys /\ now \in Nat
  BY JwksAssumption DEF TypeOK, Keys, NoKey
<1>3. Over(verdict, kid) \in CallType
  BY <1>1, <1>2 DEF CallType, Ended
<1>4. now >= 0 /\ key >= 0
  BY <1>2, JwksAssumption DEF TypeOK, Keys
<1>5. QED
  BY <1>1, <1>2, <1>3, <1>4 DEF Sound, NoKey

LEMMA RefusedIsSound == ASSUME TypeOK PROVE Sound(Refused)
<1>1. Refused = [pc |-> "refused", kid |-> 0, exp |-> 0, sent |-> 0, got |-> 0, at |-> 0]
  BY DEF Refused, NoCall, NoKey
<1>2. now \in Nat /\ key \in Nat
  BY JwksAssumption DEF TypeOK, Keys
<1>3. QED
  BY <1>1, <1>2 DEF Sound, CallType, Ended, NoKey

\* What getKey makes of the map when the cached key was in use recently.
LEMMA FoundIsSound ==
  ASSUME IInv, NEW kid \in 0 .. key, NEW exp \in Nat,
         now - cachedAt < CacheTtl,
         Has(kid) \/ (cached # NoKey /\ cachedAt = now)
  PROVE  Sound(Found(kid, exp))
<1>0. /\ TypeOK /\ Past /\ now \in Nat /\ cached \in 0 .. key /\ cachedAt \in Int
      /\ key \in Nat /\ retired \in [Keys -> Nat] /\ 1 .. key \subseteq Keys
      /\ CacheTtl \in Nat /\ Timeout \in Nat
  BY JwksAssumption DEF IInv, TypeOK, Past, Keys, NoKey
<1>1. CASE Has(kid)
  <2>1. Found(kid, exp) \in {Over("accepted", kid), Refused}
    BY <1>1 DEF Found
  <2>2. ~Current(kid) => now <= retired[kid] + CacheTtl + Timeout
    <3>1. SUFFICES ASSUME ~Current(kid)
                   PROVE  now <= retired[kid] + CacheTtl + Timeout
      OBVIOUS
    <3>2. retired[kid] >= cachedAt - Timeout
      BY <1>1, <3>1 DEF IInv, CacheRecent, UsedSince, Has
    <3>3. retired[kid] \in Nat
      BY <1>0, <1>1 DEF Has, NoKey
    <3>4. QED
      BY <1>0, <3>2, <3>3
  <2>3. Sound(Over("accepted", kid))
    BY <1>0, <1>1, <2>2, OverIsSound DEF Has
  <2>4. QED
    BY <1>0, <2>1, <2>3, RefusedIsSound
<1>2. CASE ~Has(kid)
  <2>1. Found(kid, exp) = Over("unknown", kid)
    BY <1>2 DEF Found
  <2>2. Current(kid) => kid > 1 /\ now <= retired[kid - 1] + Timeout
    <3>1. SUFFICES ASSUME Current(kid)
                   PROVE  kid > 1 /\ now <= retired[kid - 1] + Timeout
      OBVIOUS
    <3>2. /\ cached \in 1 .. key /\ kid - 1 \in 1 .. key /\ cached <= kid - 1
          /\ ~Current(cached) /\ ~Current(kid - 1) /\ kid > 1
      BY <1>0, <1>2, <3>1 DEF Current, Has, NoKey
    <3>3. retired[cached] >= now - Timeout
      BY <1>0, <1>2, <3>2 DEF IInv, CacheRecent, UsedSince, NoKey
    <3>4. retired[cached] <= retired[kid - 1]
      BY <3>2 DEF IInv, RetiredInOrder
    <3>5. retired[cached] \in Nat /\ retired[kid - 1] \in Nat
      BY <1>0, <3>2
    <3>6. QED
      BY <1>0, <3>2, <3>3, <3>4, <3>5
  <2>3. QED
    BY <1>0, <2>1, <2>2, OverIsSound
<1>3. QED
  BY <1>1, <1>2

-----------------------------------------------------------------------------
\* A step of one goroutine that touches neither the keys nor the clock.
LEMMA CallStep ==
  ASSUME IInv, NEW c \in Calls, NEW r, Sound(r),
         call' = [call EXCEPT ![c] = r], UNCHANGED <<iam, cache, now>>
  PROVE  IInv'
<1>1. /\ up' = up /\ key' = key /\ born' = born /\ retired' = retired
      /\ cached' = cached /\ cachedAt' = cachedAt /\ now' = now
      /\ \A k : Current(k)' <=> Current(k)
  BY DEF iam, cache, Current
<1>2. /\ call' \in [Calls -> CallType]
      /\ \A d \in Calls : call'[d] = r \/ call'[d] = call[d]
  BY DEF IInv, TypeOK, CallType, Sound
<1>3. TypeOK'
  BY <1>1, <1>2 DEF IInv, TypeOK, CallType
<1>4. RetiredInOrder' /\ CacheRecent'
  BY <1>1 DEF IInv, RetiredInOrder, CacheRecent, UsedSince
<1>5. FetchRecent'
  BY <1>1, <1>2 DEF IInv, FetchRecent, UsedSince, Waits, Sound
<1>6. RereadNow'
  BY <1>1, <1>2 DEF IInv, RereadNow, Sound
<1>7. Past'
  BY <1>1, <1>2 DEF IInv, Past, Sound
<1>8. StaleKeyBounded' /\ UnknownSettles'
  BY <1>1, <1>2 DEF IInv, StaleKeyBounded, UnknownSettles, Sound
<1>9. QED
  BY <1>3, <1>4, <1>5, <1>6, <1>7, <1>8 DEF IInv

LEMMA NextIInv == IInv /\ [Next]_vars => IInv'
<1> SUFFICES ASSUME IInv, [Next]_vars PROVE IInv'
  OBVIOUS
<1>0. /\ TypeOK /\ now \in Nat /\ key \in Keys /\ key \in Nat /\ key > 0
      /\ CacheTtl \in Nat /\ CacheTtl > 0 /\ Timeout \in Nat /\ TokenTtl \in Nat
      /\ cached \in 0 .. key /\ cachedAt \in Int /\ cachedAt <= now
      /\ retired \in [Keys -> Nat] /\ 1 .. key \subseteq Keys /\ Past
      /\ \A k \in Keys : retired[k] \in Nat /\ retired[k] <= now
  BY JwksAssumption DEF IInv, TypeOK, Keys, NoKey, Past
<1>c. \A c \in Calls :
        /\ call[c].kid \in 0 .. key /\ call[c].got \in 0 .. key
        /\ call[c].sent \in Nat /\ call[c].sent <= now
        /\ call[c].at \in Nat /\ call[c].at <= now /\ call[c].exp \in Nat
        /\ call[c].pc = "accepted" => call[c].kid # NoKey
  BY <1>0 DEF TypeOK, Past, Keys, NoKey
<1>1. CASE Stop
  <2>1. TypeOK'
    BY <1>0, <1>1 DEF Stop, TypeOK, cache
  <2>2. /\ up' = FALSE /\ key' = key /\ call' = call /\ now' = now
        /\ cached' = cached /\ cachedAt' = cachedAt
        /\ retired'[key] = now
        /\ \A k \in Keys \ {key} : retired'[k] = retired[k]
        /\ \A k : ~Current(k)' /\ (Current(k) <=> k = key)
    BY <1>0, <1>1 DEF Stop, Current, cache
  <2>3. RetiredInOrder'
    BY <1>0, <2>2 DEF IInv, RetiredInOrder, Keys
  <2>4. \A k \in 1 .. key : \A t \in Int :
          t <= now /\ UsedSince(k, t) => UsedSince(k, t)'
    BY <1>0, <2>2 DEF UsedSince, Keys
  <2>5. CacheRecent'
    BY <1>0, <2>2, <2>4 DEF IInv, CacheRecent, NoKey
  <2>6. FetchRecent'
    <3>1. SUFFICES ASSUME NEW c \in Calls
                   PROVE  /\ Waits(c) => now <= call[c].sent + Timeout
                          /\ call[c].pc = "store" =>
                               /\ call[c].got # NoKey
                               /\ UsedSince(call[c].got, call[c].sent)'
      BY <2>2 DEF FetchRecent, Waits
    <3>2. call[c].pc = "store" => call[c].got \in 1 .. key
      BY <1>c DEF IInv, FetchRecent, NoKey
    <3>3. call[c].pc = "store" => UsedSince(call[c].got, call[c].sent)'
      BY <1>c, <2>2, <2>4, <3>2 DEF IInv, FetchRecent, UsedSince
    <3>4. QED
      BY <3>2, <3>3 DEF IInv, FetchRecent
  <2>7. RereadNow' /\ Past'
    BY <1>0, <1>c, <2>2 DEF IInv, RereadNow, Past
  <2>8. StaleKeyBounded'
    <3>1. SUFFICES ASSUME NEW c \in Calls, call[c].pc = "accepted"
                   PROVE  call[c].at <= retired'[call[c].kid] + CacheTtl + Timeout
      BY <2>2 DEF StaleKeyBounded
    <3>2. call[c].kid \in 1 .. key
      BY <1>c, <3>1 DEF NoKey
    <3>3. QED
      BY <1>0, <1>c, <2>2, <3>1, <3>2 DEF IInv, StaleKeyBounded
  <2>9. UnknownSettles'
    BY <2>2 DEF UnknownSettles
  <2>10. QED
    BY <2>1, <2>3, <2>5, <2>6, <2>7, <2>8, <2>9 DEF IInv
<1>2. CASE Start
  <2>1. TypeOK'
    BY <1>0, <1>2, JwksAssumption DEF Start, TypeOK, cache, Keys
  <2>2. /\ up' = TRUE /\ key' = key + 1 /\ call' = call /\ now' = now
        /\ cached' = cached /\ cachedAt' = cachedAt /\ retired' = retired
        /\ \A k : ~Current(k) /\ (Current(k)' <=> k = key + 1)
    BY <1>0, <1>2 DEF Start, Current, cache
  <2>3. RetiredInOrder'
    BY <1>0, <2>2 DEF IInv, RetiredInOrder
  <2>4. \A k \in 1 .. key : \A t \in Int : UsedSince(k, t) => UsedSince(k, t)'
    BY <1>0, <2>2 DEF UsedSince
  <2>5. CacheRecent'
    BY <1>0, <2>2, <2>4 DEF IInv, CacheRecent, NoKey
  <2>6. FetchRecent'
    BY <1>0, <1>c, <2>2 DEF IInv, FetchRecent, Waits, UsedSince
  <2>7. RereadNow' /\ Past'
    BY <1>0, <1>c, <2>2 DEF IInv, RereadNow, Past
  <2>8. StaleKeyBounded'
    BY <1>0, <2>2 DEF IInv, StaleKeyBounded
  <2>9. UnknownSettles'
    <3>1. \A c \in Calls : ~Current(call[c].kid)'
      BY <1>0, <1>c, <2>2 DEF Current
    <3>2. QED
      BY <2>2, <3>1 DEF UnknownSettles, Current
  <2>10. QED
    BY <2>1, <2>3, <2>5, <2>6, <2>7, <2>8, <2>9 DEF IInv
<1>3. CASE Reset
  <2>1. /\ up' = up /\ key' = key /\ retired' = retired /\ now' = now /\ cached' = 0
        /\ \A k : Current(k)' <=> Current(k)
    BY <1>3 DEF Reset, Current, iam, NoKey
  <2>0. \A c \in Calls : call'[c] = NoCall
                         \/ (call'[c] = call[c] /\ call[c].pc \in Ended)
    <3>1. call' = [c \in Calls |-> IF call[c].pc \in Ended THEN call[c] ELSE NoCall]
      BY <1>3 DEF Reset
    <3>2. QED
      BY <3>1
  <2>2. TypeOK'
    BY <1>0, <1>3 DEF Reset, TypeOK, iam, NoCall, NoKey, Ended
  <2>3. RetiredInOrder' /\ CacheRecent'
    BY <2>1 DEF IInv, RetiredInOrder, CacheRecent, NoKey
  <2>4. FetchRecent' /\ RereadNow'
    BY <2>0 DEF FetchRecent, RereadNow, Waits, NoCall, Ended
  <2>5. Past'
    BY <1>0, <2>0, <2>1 DEF Past, NoCall, NoKey
  <2>7. StaleKeyBounded' /\ UnknownSettles'
    BY <2>0, <2>1 DEF IInv, StaleKeyBounded, UnknownSettles, NoCall
  <2>6. QED
    BY <2>2, <2>3, <2>4, <2>5, <2>7 DEF IInv
<1>4. CASE Tick
  <2>1. /\ UNCHANGED <<iam, cache, call>> /\ now' = now + 1
        /\ \A k : Current(k)' <=> Current(k)
        /\ \A c \in Calls : call[c].pc # "reread" /\ InTime(c)
    BY <1>4 DEF Tick, Current, iam
  <2>2. TypeOK'
    BY <1>0, <2>1 DEF TypeOK, iam, cache
  <2>3. RetiredInOrder' /\ CacheRecent'
    BY <2>1 DEF IInv, RetiredInOrder, CacheRecent, UsedSince, iam, cache
  <2>4. FetchRecent'
    BY <1>0, <2>1 DEF IInv, FetchRecent, InTime, Waits, UsedSince, TypeOK, iam
  <2>5. RereadNow' /\ StaleKeyBounded' /\ UnknownSettles'
    BY <2>1 DEF IInv, RereadNow, StaleKeyBounded, UnknownSettles, iam
  <2>7. Past'
    BY <1>0, <1>c, <2>1 DEF Past, iam, cache
  <2>6. QED
    BY <2>2, <2>3, <2>4, <2>5, <2>7 DEF IInv
<1>5. ASSUME NEW c \in Calls, Malformed(c) \/ RefreshFails(c) PROVE IInv'
  <2>1. /\ call' = [call EXCEPT ![c] = Refused]
        /\ UNCHANGED <<iam, cache, now>>
    BY <1>5 DEF Malformed, RefreshFails
  <2>2. Sound(Refused)
    BY <1>0, RefusedIsSound
  <2>3. QED
    BY <2>1, <2>2, CallStep
<1>6. ASSUME NEW c \in Calls, JWKSHandler(c) PROVE IInv'
  <2>1. /\ call[c].pc = "fetch" /\ up /\ UNCHANGED <<iam, cache, now>>
        /\ call' = [call EXCEPT ![c] = [call[c] EXCEPT !.pc = "store", !.got = key]]
    BY <1>6 DEF JWKSHandler
  <2> DEFINE r == [call[c] EXCEPT !.pc = "store", !.got = key]
  <2>2. /\ r \in CallType /\ r.pc = "store" /\ r.got = key
        /\ r.sent = call[c].sent /\ r.kid = call[c].kid /\ r.at = call[c].at
    BY <1>0, <2>1 DEF TypeOK, CallType
  <2>3. /\ now <= call[c].sent + Timeout
        /\ call[c].kid <= key /\ call[c].sent <= now /\ call[c].at <= now
        /\ UsedSince(key, call[c].sent)
    BY <1>0, <2>1 DEF IInv, FetchRecent, Waits, Past, UsedSince, Current
  <2> HIDE DEF r
  <2>4. Sound(r)
    BY <1>0, <2>2, <2>3 DEF Sound, NoKey
  <2>5. QED
    BY <2>1, <2>4, CallStep DEF r
<1>7. ASSUME NEW c \in Calls, NEW tok \in Issued \cup Forged, Verify(c, tok)
      PROVE  IInv'
  <2>1. tok.kid \in 0 .. key /\ tok.exp \in Nat
    BY <1>0 DEF Issued, Tokens, Forged, NoKey
  <2>2. CASE Missing(tok.kid)
    <3> DEFINE r == [pc |-> "fetch", kid |-> tok.kid, exp |-> tok.exp,
                     sent |-> now, got |-> NoKey, at |-> 0]
    <3>1. /\ UNCHANGED <<iam, cache, now>>
          /\ call' = [call EXCEPT ![c] = r]
      BY <1>7, <2>2 DEF Verify, NoCall
    <3>2. r \in CallType
      BY <1>0, <2>1 DEF CallType, NoKey, Keys
    <3>3. Sound(r)
      BY <1>0, <2>1, <3>2 DEF Sound, NoKey
    <3> HIDE DEF r
    <3>4. QED
      BY <3>1, <3>3, CallStep
  <2>3. CASE ~Missing(tok.kid)
    <3>1. /\ UNCHANGED <<iam, cache, now>>
          /\ call' = [call EXCEPT ![c] = Found(tok.kid, tok.exp)]
          /\ Has(tok.kid) /\ now - cachedAt < CacheTtl
      BY <1>7, <2>3 DEF Verify, Missing, Fresh
    <3>2. Sound(Found(tok.kid, tok.exp))
      BY <1>0, <2>1, <3>1, FoundIsSound
    <3>3. QED
      BY <3>1, <3>2, CallStep
  <2>4. QED
    BY <2>2, <2>3
<1>8. ASSUME NEW c \in Calls, Refresh(c) PROVE IInv'
  <2>1. /\ call[c].pc = "store" /\ UNCHANGED <<iam, now>>
        /\ cached' = call[c].got /\ cachedAt' = now
        /\ call' = [call EXCEPT ![c].pc = "reread"]
        /\ \A k : Current(k)' <=> Current(k)
    BY <1>8 DEF Refresh, Current, iam
  <2>2. /\ \A d \in Calls \ {c} : call'[d] = call[d]
        /\ call'[c].pc = "reread" /\ call'[c].kid = call[c].kid
    BY <2>1 DEF TypeOK, IInv
  <2>3. /\ call[c].got # NoKey /\ call[c].got \in 0 .. key
        /\ UsedSince(call[c].got, call[c].sent)
        /\ now <= call[c].sent + Timeout /\ call[c].sent \in 0 .. now
    BY <1>0, <1>c, <2>1 DEF IInv, FetchRecent, Waits
  <2>4. TypeOK'
    BY <1>0, <2>1, <2>3 DEF TypeOK, iam
  <2>5. RetiredInOrder'
    BY <2>1 DEF IInv, RetiredInOrder, iam
  <2>6. CacheRecent'
    <3>1. call[c].got \in 1 .. key
      BY <1>0, <2>3 DEF NoKey
    <3>2. retired[call[c].got] \in Nat
      BY <1>0, <3>1
    <3>3. QED
      BY <1>0, <2>1, <2>3, <3>2 DEF CacheRecent, UsedSince, iam
  <2>7. FetchRecent'
    BY <2>1, <2>2 DEF IInv, FetchRecent, Waits, UsedSince, iam
  <2>8. RereadNow' /\ Past'
    <3>1. /\ call'[c].got = call[c].got /\ call'[c].sent = call[c].sent
          /\ call'[c].at = call[c].at
      BY <2>1 DEF TypeOK, IInv
    <3>2. QED
      BY <1>0, <1>c, <2>1, <2>2, <2>3, <3>1 DEF IInv, RereadNow, Past, iam
  <2>9. StaleKeyBounded' /\ UnknownSettles'
    BY <2>1, <2>2 DEF IInv, StaleKeyBounded, UnknownSettles, iam
  <2>10. QED
    BY <2>4, <2>5, <2>6, <2>7, <2>8, <2>9 DEF IInv
<1>9. ASSUME NEW c \in Calls, GetKey(c) PROVE IInv'
  <2>1. /\ call[c].pc = "reread" /\ UNCHANGED <<iam, cache, now>>
        /\ call' = [call EXCEPT ![c] = Found(call[c].kid, call[c].exp)]
    BY <1>9 DEF GetKey
  <2>2. /\ cached # NoKey /\ cachedAt = now /\ call[c].kid \in 0 .. key
        /\ call[c].exp \in Nat
    BY <1>0, <1>c, <2>1 DEF IInv, RereadNow
  <2>3. Sound(Found(call[c].kid, call[c].exp))
    BY <1>0, <2>2, FoundIsSound
  <2>4. QED
    BY <2>1, <2>3, CallStep
<1>10. CASE UNCHANGED vars
  <2>1. /\ UNCHANGED <<iam, cache, call, now>>
        /\ \A k : Current(k)' <=> Current(k)
    BY <1>10 DEF vars, Current, iam
  <2>2. QED
    BY <2>1
       DEF IInv, TypeOK, RetiredInOrder, CacheRecent, FetchRecent, RereadNow,
           Past, StaleKeyBounded, UnknownSettles, UsedSince, Waits, iam, cache
<1>11. QED
  BY <1>1, <1>2, <1>3, <1>4, <1>5, <1>6, <1>7, <1>8, <1>9, <1>10 DEF Next

-----------------------------------------------------------------------------
LEMMA Invariance == Spec => []IInv
  BY InitIInv, NextIInv, PTL DEF Spec

\* The types of the variables; no key is retired, cached or asked for in the
\* future.
THEOREM TypeCorrect == Spec => []TypeOK
<1>1. IInv => TypeOK
  BY DEF IInv
<1>2. QED
  BY <1>1, Invariance, PTL

\* The orchestrator stops accepting the tokens of a stopped identity service
\* within jwksCacheTTL and the timeout of one download.
THEOREM StaleKeys == Spec => []StaleKeyBounded
<1>1. IInv => StaleKeyBounded
  BY DEF IInv
<1>2. QED
  BY <1>1, Invariance, PTL

\* After one timeout the tokens of a restarted identity service are never of
\* an unknown key.
THEOREM UnknownKeys == Spec => []UnknownSettles
<1>1. IInv => UnknownSettles
  BY DEF IInv
<1>2. QED
  BY <1>1, Invariance, PTL
-----------------------------------------------------------------------------
(* WebAuthn: the invariant *)

LoginSteps == {"decoy", "clone", "save", "delete", "otp", "accepted"}
RegistrationSteps == {"enroll", "flag", "clean", "registered"}
Steps == {"new", "find", "verify", "failed"} \cup LoginSteps \cup RegistrationSteps

\* A login with a good signature, and not from a clone.
Verifieds == {"save", "delete", "otp", "accepted"}

FinishRequests ==
  [pc : Steps, type : {"none", "registration", "authentication"},
   ans : [sess : Sessions \cup {None}, cred : Creds \cup {None}, count : Nat],
   saved : BOOLEAN, kept : BOOLEAN, cloned : BOOLEAN,
   after : SUBSET Requests]

WorkTypeOK == work \in [Requests -> FinishRequests]

CeremonyTypeOK ==
  /\ challenge \in [Sessions ->
       [st : {"unborn", "live", "gone"},
        type : {"none", "registration", "authentication"},
        user : Users \cup {None}, allowed : SUBSET Creds]]
  /\ device \in [Creds -> [owner : Users \cup {None}, count : Nat, back : BOOLEAN]]
  /\ flagged \subseteq Users
  /\ otp \subseteq Sessions
  /\ authent \in [Creds -> [counts : BOOLEAN, n : Nat]]
  /\ signed \subseteq [sess : Sessions, cred : Creds, count : Nat]
  /\ WorkTypeOK

\* A challenge names enrolled credentials only, and that of a registration a
\* user.
ChallengeOK(s) ==
  /\ challenge[s].st = "unborn" => challenge[s].type = "none"
  /\ challenge[s].type = "registration" => challenge[s].user \in Users
  /\ challenge[s].type # "authentication" => challenge[s].allowed = {}
  /\ \A c \in challenge[s].allowed : Enrolled(c)

\* An authenticator begins to count when its credential is enrolled.
AuthenticatorOK(c) ==
  ~authent[c].counts \/ ~Enrolled(c) => authent[c].n = 0

SignatureOK(a) ==
  /\ challenge[a.sess].st # "unborn"
  /\ a.count <= authent[a.cred].n
  /\ challenge[a.sess].type = "authentication" /\ authent[a.cred].counts =>
       a.count # 0

\* A stored count was put there by a login.
DeviceOK(c) ==
  device[c].count # 0 =>
    \E q \in Requests : /\ work[q].saved /\ work[q].ans.cred = c
                        /\ work[q].ans.count = device[c].count

\* Where a request is tells what is known of it.
Placed(r) ==
  /\ work[r].pc = "new" => ~work[r].saved /\ ~work[r].cloned /\ work[r].after = {}
  /\ work[r].pc # "new" => work[r].ans.sess \in Sessions /\ Challenge(r).st # "unborn"
  /\ work[r].pc \in LoginSteps => work[r].type = "authentication"
  /\ work[r].pc \in RegistrationSteps => work[r].type = "registration"
  /\ work[r].pc \notin {"new", "find", "failed"} => Challenge(r).type = work[r].type
  /\ work[r].saved => /\ work[r].type = "authentication"
                      /\ work[r].pc \in {"delete", "otp", "accepted", "failed"}
  /\ work[r].cloned => work[r].pc \in {"clone", "failed"} /\ ~work[r].saved

\* What a request that was verified has shown.
Vouched(r) ==
  /\ work[r].pc \in Verifieds \/ work[r].saved =>
       /\ work[r].ans \in signed /\ Enrolled(work[r].ans.cred)
       /\ Challenge(r).type = "authentication"
  /\ work[r].pc \in RegistrationSteps => work[r].ans \in signed

\* The challenge of an accepted login is gone.
Spent(r) ==
  work[r].pc \in {"otp", "accepted"} /\ ~work[r].kept => Challenge(r).st = "gone"

\* A registration that has got far enough has bound credential and user.
Bound(r) ==
  /\ work[r].pc \in {"flag", "clean", "registered"} =>
       Credential(r).owner = Challenge(r).user
  /\ work[r].pc \in {"clean", "registered"} => Challenge(r).user \in flagged

\* A saved count is still a lower bound of the stored one.
CountStored(r) ==
  work[r].saved /\ ~Credential(r).back => work[r].ans.count <= Credential(r).count

\* A clone warning has its reason.
Explained(r) ==
  work[r].cloned =>
    \E q \in Requests \ {r} : /\ work[q].saved
                              /\ work[q].ans.cred = work[r].ans.cred
                              /\ work[q].ans.count >= work[r].ans.count

\* What a request owes to one that was accepted before it came.
Follows(r, q) ==
  /\ work[q].pc = "accepted"
  /\ work[q].ans.sess = work[r].ans.sess /\ ~work[q].kept =>
       work[r].pc \in {"find", "failed"}
  /\ (/\ work[r].pc \in Verifieds /\ work[q].saved
      /\ work[q].ans.cred = work[r].ans.cred
      /\ authent[work[r].ans.cred].counts /\ ~Credential(r).back)
       => work[q].ans.count < work[r].ans.count

RequestOK(r) ==
  /\ Placed(r) /\ Vouched(r) /\ Spent(r) /\ Bound(r)
  /\ CountStored(r) /\ Explained(r)
  /\ \A q \in work[r].after : Follows(r, q)

StoreOK ==
  /\ \A s \in Sessions : ChallengeOK(s)
  /\ \A c \in Creds : AuthenticatorOK(c) /\ DeviceOK(c)
  /\ \A a \in signed : SignatureOK(a)
  /\ \A u \in flagged : DevicesOf(u) # {}

CeremonyIInv ==
  CeremonyTypeOK /\ StoreOK /\ \A r \in Requests : RequestOK(r)

-----------------------------------------------------------------------------
(* What no step takes back *)

SameRequest(r) ==
  /\ work'[r].type = work[r].type /\ work'[r].ans = work[r].ans
  /\ work'[r].after = work[r].after

SameContents(s) ==
  /\ challenge'[s].type = challenge[s].type /\ challenge'[s].user = challenge[s].user
  /\ challenge'[s].allowed = challenge[s].allowed

\* A challenge keeps its contents and stays gone, a credential its owner, and a
\* stored count goes down only with a mark.
DocumentsGrow ==
  /\ \A s \in Sessions : challenge[s].st # "unborn" =>
       /\ SameContents(s) /\ challenge'[s].st # "unborn"
       /\ challenge[s].st = "gone" => challenge'[s].st = "gone"
  /\ \A c \in Creds : Enrolled(c) =>
       /\ device'[c].owner = device[c].owner
       /\ ~device'[c].back => ~device[c].back /\ device[c].count <= device'[c].count
  /\ flagged \subseteq flagged' /\ signed \subseteq signed'
  /\ \A c \in Creds : authent'[c].counts = authent[c].counts

\* A request keeps what it came with and its marks; an accepted one everything.
RequestsGrow ==
  \A r \in Requests :
    /\ work[r].pc # "new" => SameRequest(r)
    /\ work[r].saved => work'[r].saved
    /\ work[r].pc = "accepted" => work'[r] = work[r]

LEMMA NoneIsNobody == None \notin Users /\ None \notin Creds /\ None \notin Sessions
BY WebAuthnAssumption

\* The document of an enrolled credential.
LEMMA EnrolledGrows ==
  ASSUME DocumentsGrow, NEW c \in Creds, Enrolled(c)
  PROVE  /\ Enrolled(c)' /\ device'[c].owner = device[c].owner
         /\ ~device'[c].back => ~device[c].back /\ device[c].count <= device'[c].count
BY DEF DocumentsGrow, Enrolled

\* The challenge that a request has come with.
LEMMA ChallengeGrows ==
  ASSUME CeremonyIInv, DocumentsGrow, NEW r \in Requests, work[r].pc # "new",
         SameRequest(r)
  PROVE  /\ Challenge(r)'.st # "unborn" /\ Challenge(r)'.type = Challenge(r).type
         /\ Challenge(r)'.user = Challenge(r).user
         /\ Challenge(r).st = "gone" => Challenge(r)'.st = "gone"
<1>1. work[r].ans.sess \in Sessions /\ Challenge(r).st # "unborn"
  BY DEF CeremonyIInv, RequestOK, Placed
<1>2. QED
  BY <1>1 DEF DocumentsGrow, SameContents, SameRequest, Challenge

\* The requests that explain something go on doing so.
LEMMA SavedGrows ==
  ASSUME CeremonyIInv, RequestsGrow, NEW q \in Requests, work[q].saved
  PROVE  work'[q].saved /\ work'[q].ans = work[q].ans
<1>1. work[q].pc # "new"
  BY DEF CeremonyIInv, RequestOK, Placed
<1>2. QED
  BY <1>1 DEF RequestsGrow, SameRequest

\* A request that keeps what it came with keeps its bounds and explanations.
LEMMA CountsKeptByGrowth ==
  ASSUME CeremonyIInv, CeremonyTypeOK', DocumentsGrow, RequestsGrow,
         NEW r \in Requests, SameRequest(r), work'[r].saved = work[r].saved,
         work'[r].cloned = work[r].cloned
  PROVE  CountStored(r)' /\ Explained(r)'
<1>1. CountStored(r)'
  <2> SUFFICES ASSUME work'[r].saved, ~Credential(r)'.back
               PROVE  work'[r].ans.count <= Credential(r)'.count
    BY DEF CountStored
  <2> DEFINE c == work[r].ans.cred
  <2>1. work[r].saved /\ work[r].ans \in signed /\ Enrolled(c)
    BY DEF CeremonyIInv, RequestOK, Vouched
  <2>2. c \in Creds /\ work[r].ans.count \in Nat
    BY <2>1 DEF CeremonyIInv, CeremonyTypeOK
  <2>3. ~device'[c].back
    BY DEF SameRequest, Credential
  <2>4. ~device[c].back /\ device[c].count <= device'[c].count
    BY <2>1, <2>2, <2>3, EnrolledGrows
  <2>5. work[r].ans.count <= device[c].count
    BY <2>1, <2>4 DEF CeremonyIInv, RequestOK, CountStored, Credential
  <2>6. device[c].count \in Nat /\ device'[c].count \in Nat
    BY <2>2 DEF CeremonyIInv, CeremonyTypeOK
  <2>7. work[r].ans.count <= device'[c].count
    BY <2>2, <2>4, <2>5, <2>6
  <2>8. QED
    BY <2>7 DEF SameRequest, Credential
<1>2. Explained(r)'
  <2> SUFFICES ASSUME work'[r].cloned
               PROVE  \E q \in Requests \ {r} :
                        /\ work'[q].saved /\ work'[q].ans.cred = work'[r].ans.cred
                        /\ work'[q].ans.count >= work'[r].ans.count
    BY DEF Explained
  <2>1. PICK q \in Requests \ {r} : /\ work[q].saved
                                    /\ work[q].ans.cred = work[r].ans.cred
                                    /\ work[q].ans.count >= work[r].ans.count
    BY DEF CeremonyIInv, RequestOK, Explained
  <2>2. work'[q].saved /\ work'[q].ans = work[q].ans
    BY <2>1, SavedGrows
  <2>3. QED
    BY <2>1, <2>2 DEF SameRequest
<1>3. QED
  BY <1>1, <1>2

\* A request behind an accepted one, wherever it moves to, if it does not find
\* its challenge or pass the verification in this step.
LEMMA FollowsKeptByGrowth ==
  ASSUME CeremonyIInv, DocumentsGrow, RequestsGrow,
         NEW r \in Requests, NEW q \in work[r].after, SameRequest(r),
         work'[r].pc \in {"find", "failed"} \/ work[r].pc \notin {"new", "find", "failed"},
         work'[r].pc \in Verifieds => work[r].pc \in Verifieds
  PROVE  Follows(r, q)'
<1>1. q \in Requests /\ Follows(r, q)
  BY DEF CeremonyIInv, CeremonyTypeOK, WorkTypeOK, FinishRequests,
         RequestOK
<1>2. work'[q] = work[q]
  BY <1>1 DEF Follows, RequestsGrow
<1>3. /\ work'[q].pc = "accepted"
      /\ work'[q].ans.sess = work'[r].ans.sess /\ ~work'[q].kept =>
           work'[r].pc \in {"find", "failed"}
  BY <1>1, <1>2 DEF Follows, SameRequest
<1>4. ASSUME work'[r].pc \in Verifieds, work'[q].saved,
             work'[q].ans.cred = work'[r].ans.cred,
             authent'[work'[r].ans.cred].counts, ~Credential(r)'.back
      PROVE  work'[q].ans.count < work'[r].ans.count
  <2> DEFINE c == work[r].ans.cred
  <2>1. work[r].ans \in signed /\ Enrolled(c) /\ work[r].pc \in Verifieds
    BY <1>4 DEF CeremonyIInv, RequestOK, Vouched
  <2>2. c \in Creds
    BY <2>1 DEF CeremonyIInv, CeremonyTypeOK
  <2>3. authent[c].counts /\ ~device'[c].back
    BY <1>4, <2>2 DEF DocumentsGrow, SameRequest, Credential
  <2>4. ~Credential(r).back
    BY <2>1, <2>2, <2>3, EnrolledGrows DEF Credential
  <2>5. QED
    BY <1>1, <1>2, <1>4, <2>1, <2>3, <2>4 DEF Follows, SameRequest
<1>5. QED
  BY <1>3, <1>4 DEF Follows

\* A request that passes no verification in this step.
LEMMA VouchedByGrowth ==
  ASSUME CeremonyIInv, DocumentsGrow, NEW r \in Requests, SameRequest(r),
         work'[r].saved => work[r].saved \/ work[r].pc \in Verifieds,
         work'[r].pc \in Verifieds => work[r].pc \in Verifieds,
         work'[r].pc \in RegistrationSteps => work[r].pc \in RegistrationSteps
  PROVE  Vouched(r)'
<1>1. ASSUME work'[r].pc \in Verifieds \/ work'[r].saved
      PROVE  /\ work'[r].ans \in signed' /\ Enrolled(work[r].ans.cred)'
             /\ Challenge(r)'.type = "authentication"
  <2>1. /\ work[r].ans \in signed /\ Enrolled(work[r].ans.cred)
        /\ Challenge(r).type = "authentication" /\ work[r].pc # "new"
    BY <1>1 DEF CeremonyIInv, RequestOK, Vouched, Placed, Verifieds
  <2>2. work[r].ans.cred \in Creds
    BY <2>1 DEF CeremonyIInv, CeremonyTypeOK
  <2>3. work[r].ans \in signed' /\ Enrolled(work[r].ans.cred)'
    BY <2>1, <2>2, EnrolledGrows DEF DocumentsGrow, SameRequest
  <2>4. Challenge(r)'.type = "authentication"
    BY <2>1, ChallengeGrows
  <2>5. QED
    BY <2>3, <2>4 DEF SameRequest
<1>2. work'[r].pc \in RegistrationSteps => work'[r].ans \in signed'
  BY DEF CeremonyIInv, RequestOK, Vouched, DocumentsGrow, SameRequest
<1>3. QED
  BY <1>1, <1>2 DEF Vouched, Enrolled, SameRequest

\* A request that fails.
LEMMA FailedRequest ==
  ASSUME CeremonyIInv, CeremonyTypeOK', DocumentsGrow, RequestsGrow,
         NEW r \in Requests, work[r].pc # "new", SameRequest(r),
         work'[r].pc = "failed", work'[r].saved = work[r].saved,
         work'[r].cloned = work[r].cloned
  PROVE  RequestOK(r)'
<1>1. Placed(r)'
  <2>1. /\ work[r].ans.sess \in Sessions
        /\ work[r].saved => work[r].type = "authentication"
        /\ work[r].cloned => ~work[r].saved
    BY DEF CeremonyIInv, RequestOK, Placed
  <2>2. Challenge(r)'.st # "unborn"
    BY ChallengeGrows
  <2>3. QED
    BY <2>1, <2>2 DEF Placed, SameRequest, LoginSteps, RegistrationSteps
<1>2. Vouched(r)'
  BY VouchedByGrowth DEF Verifieds, RegistrationSteps
<1>3. Spent(r)' /\ Bound(r)'
  BY DEF Spent, Bound
<1>4. CountStored(r)' /\ Explained(r)'
  BY CountsKeptByGrowth
<1>5. ASSUME NEW q \in work[r].after PROVE Follows(r, q)'
  BY FollowsKeptByGrowth DEF Verifieds
<1>6. QED
  BY <1>1, <1>2, <1>3, <1>4, <1>5 DEF RequestOK, SameRequest

\* A request that a step leaves alone.
LEMMA OtherRequest ==
  ASSUME CeremonyIInv, CeremonyTypeOK', DocumentsGrow, RequestsGrow,
         NEW r \in Requests, work'[r] = work[r]
  PROVE  RequestOK(r)'
<1>0. SameRequest(r)
  BY DEF SameRequest
<1>1. Placed(r)'
  <2>1. CASE work[r].pc = "new"
    BY <2>1 DEF CeremonyIInv, RequestOK, Placed, LoginSteps, RegistrationSteps
  <2>2. CASE work[r].pc # "new"
    BY <1>0, <2>2, ChallengeGrows DEF CeremonyIInv, RequestOK, Placed
  <2>3. QED
    BY <2>1, <2>2
<1>2. Vouched(r)'
  BY <1>0, VouchedByGrowth
<1>3. Spent(r)'
  BY <1>0, ChallengeGrows DEF CeremonyIInv, RequestOK, Spent
<1>4. Bound(r)'
  <2> SUFFICES ASSUME work[r].pc \in {"flag", "clean", "registered"}
               PROVE  /\ Credential(r)'.owner = Challenge(r)'.user
                      /\ work[r].pc \in {"clean", "registered"} =>
                           Challenge(r)'.user \in flagged'
    BY DEF Bound
  <2>1. /\ work[r].ans \in signed /\ work[r].ans.sess \in Sessions
        /\ Challenge(r).type = "registration"
    BY DEF CeremonyIInv, RequestOK, Vouched, Placed, RegistrationSteps
  <2>2. work[r].ans.cred \in Creds /\ Challenge(r).user \in Users
    BY <2>1 DEF CeremonyIInv, CeremonyTypeOK, StoreOK, ChallengeOK, Challenge
  <2>3. /\ Credential(r).owner = Challenge(r).user
        /\ work[r].pc \in {"clean", "registered"} => Challenge(r).user \in flagged
    BY DEF CeremonyIInv, RequestOK, Bound
  <2>4. Enrolled(work[r].ans.cred)
    BY <2>2, <2>3, NoneIsNobody DEF Enrolled, Credential
  <2>5. Credential(r)'.owner = Credential(r).owner
    BY <2>2, <2>4, EnrolledGrows DEF Credential
  <2>6. QED
    BY <1>0, <2>3, <2>5, ChallengeGrows DEF DocumentsGrow
<1>5. CountStored(r)' /\ Explained(r)'
  BY <1>0, CountsKeptByGrowth
<1>6. ASSUME NEW q \in work[r].after PROVE Follows(r, q)'
  <2>1. work[r].pc # "new"
    BY <1>6 DEF CeremonyIInv, RequestOK, Placed
  <2>2. QED
    BY <1>0, <1>6, <2>1, FollowsKeptByGrowth
<1>7. QED
  BY <1>1, <1>2, <1>3, <1>4, <1>5, <1>6 DEF RequestOK

-----------------------------------------------------------------------------
(* Steps of one request *)

Others(r) == \A q \in Requests \ {r} : work'[q] = work[q]

SameMarks(r) ==
  /\ work'[r].saved = work[r].saved /\ work'[r].kept = work[r].kept
  /\ work'[r].cloned = work[r].cloned

LEMMA Move ==
  ASSUME WorkTypeOK, NEW r \in Requests, NEW pc \in Steps, To(r, pc)
  PROVE  /\ WorkTypeOK' /\ Others(r) /\ work'[r].pc = pc
         /\ SameRequest(r) /\ SameMarks(r)
<1>1. WorkTypeOK'
  BY DEF WorkTypeOK, FinishRequests, To
<1>2. Others(r)
  BY DEF WorkTypeOK, FinishRequests, To, Others
<1>3. work'[r].pc = pc /\ SameRequest(r) /\ SameMarks(r)
  BY DEF WorkTypeOK, FinishRequests, To, SameRequest, SameMarks
<1>4. QED
  BY <1>1, <1>2, <1>3

LEMMA MoveKept ==
  ASSUME WorkTypeOK, NEW r \in Requests, NEW pc \in Steps,
         work' = [work EXCEPT ![r].pc = pc, ![r].kept = TRUE]
  PROVE  /\ WorkTypeOK' /\ Others(r) /\ work'[r].pc = pc /\ SameRequest(r)
         /\ work'[r].saved = work[r].saved /\ work'[r].cloned = work[r].cloned
         /\ work'[r].kept
<1> DEFINE w == [work[r] EXCEPT !.pc = pc, !.kept = TRUE]
<1>0. work[r] \in FinishRequests
  BY DEF WorkTypeOK
<1>1. WorkTypeOK'
  <2>1. w \in FinishRequests
    BY <1>0 DEF FinishRequests
  <2>2. work' = [work EXCEPT ![r] = w]
    BY DEF WorkTypeOK
  <2>3. QED
    BY <2>1, <2>2 DEF WorkTypeOK
<1>2. Others(r)
  BY DEF WorkTypeOK, Others
<1>3. QED
  BY <1>1, <1>2 DEF WorkTypeOK, FinishRequests, SameRequest

LEMMA MoveSaved ==
  ASSUME WorkTypeOK, NEW r \in Requests, NEW pc \in Steps,
         work' = [work EXCEPT ![r].pc = pc, ![r].saved = TRUE]
  PROVE  /\ WorkTypeOK' /\ Others(r) /\ work'[r].pc = pc /\ SameRequest(r)
         /\ work'[r].kept = work[r].kept /\ work'[r].cloned = work[r].cloned
         /\ work'[r].saved
<1> DEFINE w == [work[r] EXCEPT !.pc = pc, !.saved = TRUE]
<1>0. work[r] \in FinishRequests
  BY DEF WorkTypeOK
<1>1. WorkTypeOK'
  <2>1. w \in FinishRequests
    BY <1>0 DEF FinishRequests
  <2>2. work' = [work EXCEPT ![r] = w]
    BY DEF WorkTypeOK
  <2>3. QED
    BY <2>1, <2>2 DEF WorkTypeOK
<1>2. Others(r)
  BY DEF WorkTypeOK, Others
<1>3. QED
  BY <1>1, <1>2 DEF WorkTypeOK, FinishRequests, SameRequest

LEMMA MoveCloned ==
  ASSUME WorkTypeOK, NEW r \in Requests, NEW pc \in Steps,
         work' = [work EXCEPT ![r].pc = pc, ![r].cloned = TRUE]
  PROVE  /\ WorkTypeOK' /\ Others(r) /\ work'[r].pc = pc /\ SameRequest(r)
         /\ work'[r].saved = work[r].saved /\ work'[r].kept = work[r].kept
         /\ work'[r].cloned
<1> DEFINE w == [work[r] EXCEPT !.pc = pc, !.cloned = TRUE]
<1>0. work[r] \in FinishRequests
  BY DEF WorkTypeOK
<1>1. WorkTypeOK'
  <2>1. w \in FinishRequests
    BY <1>0 DEF FinishRequests
  <2>2. work' = [work EXCEPT ![r] = w]
    BY DEF WorkTypeOK
  <2>3. QED
    BY <2>1, <2>2 DEF WorkTypeOK
<1>2. Others(r)
  BY DEF WorkTypeOK, Others
<1>3. QED
  BY <1>1, <1>2 DEF WorkTypeOK, FinishRequests, SameRequest

\* Documents that a step leaves alone, but for challenges that go.
LEMMA DocumentsKept ==
  ASSUME CeremonyIInv, UNCHANGED <<device, flagged, authent, signed>>,
         \A s \in Sessions : SameContents(s) /\
           (challenge'[s].st = challenge[s].st
              \/ (challenge[s].st # "unborn" /\ challenge'[s].st = "gone"))
  PROVE  DocumentsGrow
<1>1. \A c \in Creds : device[c].count \in Nat
  BY DEF CeremonyIInv, CeremonyTypeOK
<1>2. \A c \in Creds : device[c].count <= device[c].count
  BY <1>1
<1>3. QED
  BY <1>2 DEF DocumentsGrow

LEMMA StoreKept ==
  ASSUME CeremonyIInv, RequestsGrow, UNCHANGED <<device, flagged, authent, signed>>,
         \A s \in Sessions : SameContents(s) /\
           (challenge'[s].st = challenge[s].st
              \/ (challenge[s].st # "unborn" /\ challenge'[s].st = "gone"))
  PROVE  StoreOK'
<1>1. \A s \in Sessions : ChallengeOK(s)'
  BY DEF CeremonyIInv, StoreOK, ChallengeOK, SameContents, Enrolled
<1>2. \A c \in Creds : AuthenticatorOK(c)'
  BY DEF CeremonyIInv, StoreOK, AuthenticatorOK, Enrolled
<1>3. \A c \in Creds : DeviceOK(c)'
  <2> SUFFICES ASSUME NEW c \in Creds, device[c].count # 0
               PROVE  \E q \in Requests : /\ work'[q].saved /\ work'[q].ans.cred = c
                                          /\ work'[q].ans.count = device[c].count
    BY DEF DeviceOK
  <2>1. PICK q \in Requests : /\ work[q].saved /\ work[q].ans.cred = c
                              /\ work[q].ans.count = device[c].count
    BY DEF CeremonyIInv, StoreOK, DeviceOK
  <2>2. work'[q].saved /\ work'[q].ans = work[q].ans
    BY <2>1, SavedGrows
  <2>3. QED
    BY <2>1, <2>2
<1>4. \A a \in signed' : SignatureOK(a)'
  <2> SUFFICES ASSUME NEW a \in signed PROVE SignatureOK(a)'
    OBVIOUS
  <2>1. a.sess \in Sessions /\ SignatureOK(a)
    BY DEF CeremonyIInv, CeremonyTypeOK, StoreOK
  <2>2. QED
    BY <2>1 DEF SignatureOK, SameContents
<1>5. \A u \in flagged' : DevicesOf(u)' # {}
  BY DEF CeremonyIInv, StoreOK, DevicesOf
<1>6. QED
  BY <1>1, <1>2, <1>3, <1>4, <1>5 DEF StoreOK

\* A step of one request keeps the invariant if it leaves that request right.
LEMMA RequestStep ==
  ASSUME CeremonyIInv, NEW r \in Requests, Others(r), SameRequest(r),
         work[r].pc \notin {"new", "accepted"}, work[r].saved => work'[r].saved
  PROVE  RequestsGrow
BY DEF RequestsGrow, Others, SameRequest

\* What every step is shown to do.
KeepsIInv == CeremonyIInv' /\ DocumentsGrow

LEMMA StepIInv ==
  ASSUME CeremonyIInv, CeremonyTypeOK', StoreOK', DocumentsGrow, RequestsGrow,
         NEW r \in Requests, Others(r), RequestOK(r)'
  PROVE  KeepsIInv
<1>1. ASSUME NEW q \in Requests PROVE RequestOK(q)'
  <2>1. CASE q = r
    BY <2>1
  <2>2. CASE q # r
    BY <2>2, OtherRequest DEF Others
  <2>3. QED
    BY <2>1, <2>2
<1>2. QED
  BY <1>1 DEF CeremonyIInv, KeepsIInv

-----------------------------------------------------------------------------
(* Challenges, authenticators, arrivals *)

\* A step that leaves all requests alone.
LEMMA NoRequestStep ==
  ASSUME CeremonyIInv, UNCHANGED work
  PROVE  RequestsGrow /\ \A r \in Requests : work'[r] = work[r]
BY DEF RequestsGrow, SameRequest

LEMMA IdleIInv ==
  ASSUME CeremonyIInv, CeremonyTypeOK', StoreOK', DocumentsGrow, UNCHANGED work
  PROVE  KeepsIInv
BY NoRequestStep, OtherRequest DEF CeremonyIInv, KeepsIInv

\* A new challenge of whatever kind.
LEMMA BeginIInv ==
  ASSUME CeremonyIInv, NEW s \in Sessions, challenge[s].st = "unborn",
         NEW type \in {"registration", "authentication"},
         NEW u \in Users \cup {None}, NEW allowed \in SUBSET Creds,
         type = "registration" => u \in Users /\ allowed = {},
         \A c \in allowed : Enrolled(c),
         challenge' = [challenge EXCEPT ![s] =
           [st |-> "live", type |-> type, user |-> u, allowed |-> allowed]],
         UNCHANGED <<device, flagged, otp, authent, signed, work>>
  PROVE  KeepsIInv
<1>1. /\ challenge'[s] = [st |-> "live", type |-> type, user |-> u, allowed |-> allowed]
      /\ \A t \in Sessions \ {s} : challenge'[t] = challenge[t]
  BY DEF CeremonyIInv, CeremonyTypeOK
<1>2. CeremonyTypeOK'
  BY DEF CeremonyIInv, CeremonyTypeOK, WorkTypeOK
<1>3. DocumentsGrow
  <2>1. \A c \in Creds : device[c].count \in Nat
    BY DEF CeremonyIInv, CeremonyTypeOK
  <2>2. \A c \in Creds : device[c].count <= device[c].count
    BY <2>1
  <2>3. \A t \in Sessions : challenge[t].st # "unborn" =>
          /\ SameContents(t) /\ challenge'[t].st # "unborn"
          /\ challenge[t].st = "gone" => challenge'[t].st = "gone"
    BY <1>1 DEF SameContents
  <2>4. QED
    BY <2>2, <2>3 DEF DocumentsGrow
<1>4. \A t \in Sessions : ChallengeOK(t)'
  <2> SUFFICES ASSUME NEW t \in Sessions PROVE ChallengeOK(t)'
    OBVIOUS
  <2>1. CASE t = s
    BY <1>1, <2>1 DEF ChallengeOK, Enrolled
  <2>2. CASE t # s
    BY <1>1, <2>2 DEF CeremonyIInv, StoreOK, ChallengeOK, Enrolled
  <2>3. QED
    BY <2>1, <2>2
<1>5. \A a \in signed' : SignatureOK(a)'
  <2> SUFFICES ASSUME NEW a \in signed PROVE SignatureOK(a)'
    OBVIOUS
  <2>1. a.sess \in Sessions /\ SignatureOK(a)
    BY DEF CeremonyIInv, CeremonyTypeOK, StoreOK
  <2>2. a.sess # s
    BY <2>1 DEF SignatureOK
  <2>3. QED
    BY <1>1, <2>1, <2>2 DEF SignatureOK
<1>6. StoreOK'
  BY <1>4, <1>5 DEF CeremonyIInv, StoreOK, AuthenticatorOK, DeviceOK, DevicesOf, Enrolled
<1>7. QED
  BY <1>2, <1>3, <1>6, IdleIInv

LEMMA TtlDeleteIInv ==
  ASSUME CeremonyIInv, NEW s \in Sessions, TtlDelete(s)
  PROVE  KeepsIInv
<1> DEFINE R == [st : {"unborn", "live", "gone"},
                 type : {"none", "registration", "authentication"},
                 user : Users \cup {None}, allowed : SUBSET Creds]
<1>0. challenge \in [Sessions -> R]
  BY DEF CeremonyIInv, CeremonyTypeOK
<1>1. CeremonyTypeOK'
  <2>1. [challenge[s] EXCEPT !.st = "gone"] \in R
    BY <1>0
  <2>2. challenge' = [challenge EXCEPT ![s] = [challenge[s] EXCEPT !.st = "gone"]]
    BY <1>0 DEF TtlDelete
  <2>3. challenge' \in [Sessions -> R]
    BY <1>0, <2>1, <2>2
  <2>4. QED
    BY <2>3 DEF CeremonyIInv, CeremonyTypeOK, WorkTypeOK, TtlDelete
<1>2. \A t \in Sessions : SameContents(t) /\
        (challenge'[t].st = challenge[t].st
           \/ (challenge[t].st # "unborn" /\ challenge'[t].st = "gone"))
  BY DEF CeremonyIInv, CeremonyTypeOK, TtlDelete, SameContents
<1>3. UNCHANGED <<device, flagged, authent, signed, work>>
  BY DEF TtlDelete
<1>4. DocumentsGrow
  BY <1>2, <1>3, DocumentsKept
<1>5. StoreOK'
  BY <1>2, <1>3, StoreKept, NoRequestStep
<1>6. QED
  BY <1>1, <1>3, <1>4, <1>5, IdleIInv

\* A new answer, after which the authenticator may have counted on.
LEMMA SignedIInv ==
  ASSUME CeremonyIInv, NEW s \in Sessions, NEW c \in Creds, NEW n \in Nat,
         NEW count \in Nat,
         challenge[s].st # "unborn",
         authent[c].n <= n, count <= n,
         authent[c].counts \/ n = authent[c].n, Enrolled(c) \/ n = authent[c].n,
         challenge[s].type = "authentication" /\ authent[c].counts => count # 0,
         authent' = [authent EXCEPT ![c].n = n],
         signed' = signed \cup {Answer(s, c, count)},
         UNCHANGED <<challenge, device, flagged, otp, work>>
  PROVE  KeepsIInv
<1>1. \A e \in Creds : /\ authent'[e].counts = authent[e].counts
                       /\ authent'[e].n = IF e = c THEN n ELSE authent[e].n
                       /\ authent[e].n \in Nat
  BY DEF CeremonyIInv, CeremonyTypeOK
<1>2. CeremonyTypeOK'
  BY DEF CeremonyIInv, CeremonyTypeOK, WorkTypeOK, Answer
<1>3. DocumentsGrow
  <2>1. \A e \in Creds : device[e].count \in Nat
    BY DEF CeremonyIInv, CeremonyTypeOK
  <2>2. \A e \in Creds : device[e].count <= device[e].count
    BY <2>1
  <2>3. QED
    BY <1>1, <2>2 DEF DocumentsGrow, SameContents
<1>4. \A e \in Creds : AuthenticatorOK(e)'
  BY <1>1 DEF CeremonyIInv, StoreOK, AuthenticatorOK, Enrolled
<1>5. \A a \in signed' : SignatureOK(a)'
  <2> SUFFICES ASSUME NEW a \in signed' PROVE SignatureOK(a)'
    OBVIOUS
  <2>1. CASE a \in signed
    <3>1. a.cred \in Creds /\ a.count \in Nat /\ SignatureOK(a)
      BY <2>1 DEF CeremonyIInv, CeremonyTypeOK, StoreOK
    <3>2. a.count <= authent'[a.cred].n
      BY <1>1, <3>1 DEF SignatureOK
    <3>3. QED
      BY <1>1, <3>1, <3>2 DEF SignatureOK
  <2>2. CASE a = Answer(s, c, count)
    BY <1>1, <2>2 DEF SignatureOK, Answer
  <2>3. QED
    BY <2>1, <2>2
<1>6. StoreOK'
  BY <1>4, <1>5 DEF CeremonyIInv, StoreOK, ChallengeOK, DeviceOK, DevicesOf, Enrolled
<1>7. QED
  BY <1>2, <1>3, <1>6, IdleIInv

LEMMA AttestIInv ==
  ASSUME CeremonyIInv, NEW s \in Sessions, NEW c \in Creds, Attest(s, c)
  PROVE  KeepsIInv
<1>1. authent \in [Creds -> [counts : BOOLEAN, n : Nat]]
  BY DEF CeremonyIInv, CeremonyTypeOK
<1>2. authent' = [authent EXCEPT ![c].n = authent[c].n]
  BY <1>1 DEF Attest
<1>3. authent[c].n \in Nat /\ authent[c].n <= authent[c].n
  BY <1>1
<1>4. challenge[s].st # "unborn" /\ challenge[s].type # "authentication"
  BY DEF Attest
<1>5. QED
  BY <1>2, <1>3, <1>4, SignedIInv DEF Attest

LEMMA SignIInv ==
  ASSUME CeremonyIInv, NEW s \in Sessions, NEW c \in Creds, Sign(s, c)
  PROVE  KeepsIInv
<1>1. authent \in [Creds -> [counts : BOOLEAN, n : Nat]]
  BY DEF CeremonyIInv, CeremonyTypeOK
<1>2. Enrolled(c) /\ challenge[s].st # "unborn"
  BY DEF CeremonyIInv, StoreOK, ChallengeOK, Sign
<1>3. CASE authent[c].counts
  <2>1. /\ authent' = [authent EXCEPT ![c].n = authent[c].n + 1]
        /\ signed' = signed \cup {Answer(s, c, authent[c].n + 1)}
    BY <1>3 DEF Sign
  <2>2. /\ authent[c].n + 1 \in Nat /\ authent[c].n <= authent[c].n + 1
        /\ authent[c].n + 1 <= authent[c].n + 1 /\ authent[c].n + 1 # 0
    BY <1>1
  <2>3. QED
    BY <1>2, <1>3, <2>1, <2>2, SignedIInv DEF Sign
<1>4. CASE ~authent[c].counts
  <2>1. authent' = authent /\ signed' = signed \cup {Answer(s, c, 0)}
    BY <1>4 DEF Sign
  <2>2. authent' = [authent EXCEPT ![c].n = authent[c].n]
    BY <1>1, <2>1
  <2>3. authent[c].n \in Nat /\ authent[c].n <= authent[c].n /\ 0 <= authent[c].n
    BY <1>1
  <2>4. QED
    BY <1>2, <1>4, <2>1, <2>2, <2>3, SignedIInv DEF Sign
<1>5. QED
  BY <1>3, <1>4

LEMMA ArriveIInv ==
  ASSUME CeremonyIInv, NEW r \in Requests,
         NEW type \in {"registration", "authentication"},
         NEW ans \in signed \cup {Nothing(s) : s \in Sessions},
         Arrive(r, type, ans)
  PROVE  KeepsIInv
<1> DEFINE new == [Idle EXCEPT !.pc = "find", !.type = type, !.ans = ans,
                               !.after = Accepted]
<1>0. WorkTypeOK
  BY DEF CeremonyIInv, CeremonyTypeOK
<1>1. /\ ans.sess \in Sessions /\ ans.cred \in Creds \cup {None} /\ ans.count \in Nat
      /\ ans = [sess |-> ans.sess, cred |-> ans.cred, count |-> ans.count]
  BY DEF CeremonyIInv, CeremonyTypeOK, Nothing, Answer
<1>2. Accepted \in SUBSET Requests /\ \A q \in Accepted : work[q].pc = "accepted"
  BY DEF Accepted
<1>3. /\ new.pc = "find" /\ new.type = type /\ new.ans = ans /\ ~new.saved
      /\ ~new.kept /\ ~new.cloned /\ new.after = Accepted
      /\ new \in FinishRequests
  <2>1. /\ new.pc = "find" /\ new.type = type /\ new.ans = ans /\ ~new.saved
        /\ ~new.kept /\ ~new.cloned /\ new.after = Accepted
    BY DEF Idle
  <2>2. ans \in [sess : Sessions \cup {None}, cred : Creds \cup {None}, count : Nat]
    BY <1>1
  <2>3. Idle \in FinishRequests
    BY DEF Idle, Nothing, Answer, FinishRequests, Steps
  <2>4. QED
    BY <1>2, <2>1, <2>2, <2>3 DEF FinishRequests, Steps
<1> HIDE DEF new
<1>4. /\ work' = [work EXCEPT ![r] = new] /\ work[r].pc = "new"
      /\ challenge[ans.sess].st # "unborn"
      /\ UNCHANGED <<challenge, device, flagged, otp, authent, signed>>
  BY DEF Arrive, new
<1>5. work'[r] = new /\ Others(r) /\ WorkTypeOK'
  BY <1>0, <1>3, <1>4 DEF WorkTypeOK, Others
<1>6. CeremonyTypeOK'
  BY <1>4, <1>5 DEF CeremonyIInv, CeremonyTypeOK
<1>7. ~work[r].saved
  BY <1>4 DEF CeremonyIInv, RequestOK, Placed
<1>8. RequestsGrow
  BY <1>4, <1>5, <1>7 DEF RequestsGrow, Others, SameRequest
<1>9. \A s \in Sessions : SameContents(s) /\ challenge'[s].st = challenge[s].st
  BY <1>4 DEF SameContents
<1>10. DocumentsGrow /\ StoreOK'
  BY <1>4, <1>8, <1>9, DocumentsKept, StoreKept
<1>11. RequestOK(r)'
  <2>1. Placed(r)' /\ Vouched(r)' /\ Spent(r)' /\ Bound(r)' /\ CountStored(r)' /\ Explained(r)'
    BY <1>1, <1>3, <1>4, <1>5
       DEF Placed, Vouched, Spent, Bound, CountStored, Explained, Challenge,
           LoginSteps, RegistrationSteps, Verifieds
  <2>2. ASSUME NEW q \in Accepted PROVE Follows(r, q)'
    <3>1. work'[q] = work[q] /\ work[q].pc = "accepted"
      BY <1>2, <1>4, <1>5 DEF Others
    <3>2. QED
      BY <1>3, <1>5, <3>1 DEF Follows, Verifieds
  <2>3. work'[r].after = Accepted
    BY <1>3, <1>5
  <2>4. QED
    BY <2>1, <2>2, <2>3 DEF RequestOK
<1>12. QED
  BY <1>5, <1>6, <1>8, <1>10, <1>11, StepIInv

-----------------------------------------------------------------------------
(* The handler of finish *)

SoundStep == CeremonyTypeOK' /\ StoreOK' /\ DocumentsGrow /\ RequestsGrow

\* A step of request r that changes no document, or removes a challenge.
LEMMA QuietStep ==
  ASSUME CeremonyIInv, NEW r \in Requests, work[r].pc \notin {"new", "accepted"},
         WorkTypeOK', Others(r), SameRequest(r), work[r].saved => work'[r].saved,
         UNCHANGED <<device, flagged, authent, signed>>, otp' \subseteq Sessions,
         \/ UNCHANGED challenge
         \/ \E s \in Sessions : /\ challenge[s].st # "unborn"
                                /\ challenge' = [challenge EXCEPT ![s].st = "gone"]
  PROVE  SoundStep
<1> DEFINE R == [st : {"unborn", "live", "gone"},
                 type : {"none", "registration", "authentication"},
                 user : Users \cup {None}, allowed : SUBSET Creds]
<1>0. challenge \in [Sessions -> R]
  BY DEF CeremonyIInv, CeremonyTypeOK
<1> DEFINE Gone(s) ==
      SameContents(s) /\
        (challenge'[s].st = challenge[s].st
           \/ (challenge[s].st # "unborn" /\ challenge'[s].st = "gone"))
<1>1. challenge' \in [Sessions -> R] /\ \A s \in Sessions : Gone(s)
  <2>1. CASE UNCHANGED challenge
    BY <1>0, <2>1 DEF SameContents
  <2>2. CASE \E s \in Sessions : /\ challenge[s].st # "unborn"
                                 /\ challenge' = [challenge EXCEPT ![s].st = "gone"]
    <3>0. PICK s \in Sessions : /\ challenge[s].st # "unborn"
                                /\ challenge' = [challenge EXCEPT ![s].st = "gone"]
      BY <2>2
    <3>1. [challenge[s] EXCEPT !.st = "gone"] \in R
      BY <1>0
    <3>2. challenge' = [challenge EXCEPT ![s] = [challenge[s] EXCEPT !.st = "gone"]]
      BY <1>0, <3>0
    <3>3. challenge' \in [Sessions -> R]
      BY <1>0, <3>1, <3>2
    <3>4. \A t \in Sessions : Gone(t)
      BY <1>0, <3>0 DEF SameContents
    <3>5. QED
      BY <3>3, <3>4
  <2>3. QED
    BY <2>1, <2>2
<1>2. CeremonyTypeOK'
  BY <1>1 DEF CeremonyIInv, CeremonyTypeOK
<1>3. RequestsGrow
  BY RequestStep
<1>4. DocumentsGrow
  BY <1>1, DocumentsKept
<1>5. StoreOK'
  BY <1>1, <1>3, StoreKept
<1>6. QED
  BY <1>2, <1>3, <1>4, <1>5 DEF SoundStep

\* One that only goes to another place.
LEMMA MoveStep ==
  ASSUME CeremonyIInv, NEW r \in Requests, NEW pc \in Steps, To(r, pc),
         work[r].pc \notin {"new", "accepted"}, otp' \subseteq Sessions,
         UNCHANGED <<challenge, device, flagged, authent, signed>>
  PROVE  SoundStep /\ Others(r) /\ work'[r].pc = pc /\ SameRequest(r) /\ SameMarks(r)
<1>1. WorkTypeOK
  BY DEF CeremonyIInv, CeremonyTypeOK
<1>2. /\ WorkTypeOK' /\ Others(r) /\ work'[r].pc = pc
      /\ SameRequest(r) /\ SameMarks(r)
  BY <1>1, Move
<1>3. SoundStep
  BY <1>2, QuietStep DEF SameMarks
<1>4. QED
  BY <1>2, <1>3

\* One that deletes its challenge, or has failed to.
LEMMA DeleteStep ==
  ASSUME CeremonyIInv, NEW r \in Requests, NEW pc \in Steps, Deleted(r, pc),
         work[r].pc \notin {"new", "accepted"},
         UNCHANGED <<device, flagged, otp, authent, signed>>
  PROVE  /\ SoundStep /\ Others(r) /\ work'[r].pc = pc /\ SameRequest(r)
         /\ work'[r].saved = work[r].saved /\ work'[r].cloned = work[r].cloned
         /\ work'[r].kept \/ Challenge(r)'.st = "gone"
<1>0. /\ WorkTypeOK /\ otp \subseteq Sessions
      /\ work[r].ans.sess \in Sessions /\ challenge[work[r].ans.sess].st # "unborn"
  BY DEF CeremonyIInv, CeremonyTypeOK, RequestOK, Placed, Challenge
<1>1. CASE /\ challenge' = [challenge EXCEPT ![work[r].ans.sess].st = "gone"]
           /\ To(r, pc)
  <2>1. /\ WorkTypeOK' /\ Others(r) /\ work'[r].pc = pc
        /\ SameRequest(r) /\ SameMarks(r)
    BY <1>0, <1>1, Move
  <2>2. SoundStep
    BY <1>0, <1>1, <2>1, QuietStep DEF SameMarks
  <2>3. challenge'[work[r].ans.sess].st = "gone"
    BY <1>0, <1>1 DEF CeremonyIInv, CeremonyTypeOK
  <2>4. Challenge(r)'.st = "gone"
    BY <2>1, <2>3 DEF Challenge, SameRequest
  <2>5. QED
    BY <2>1, <2>2, <2>4 DEF SameMarks
<1>2. CASE /\ work' = [work EXCEPT ![r].pc = pc, ![r].kept = TRUE]
           /\ UNCHANGED challenge
  <2>1. /\ WorkTypeOK' /\ Others(r) /\ work'[r].pc = pc /\ SameRequest(r)
        /\ work'[r].saved = work[r].saved /\ work'[r].cloned = work[r].cloned
        /\ work'[r].kept
    BY <1>0, <1>2, MoveKept
  <2>2. SoundStep
    BY <1>0, <1>2, <2>1, QuietStep
  <2>3. QED
    BY <2>1, <2>2
<1>3. QED
  BY <1>1, <1>2 DEF Deleted

\* A request that fails or is refused.
LEMMA FailIInv ==
  ASSUME CeremonyIInv, SoundStep, NEW r \in Requests, Others(r), SameRequest(r),
         work[r].pc # "new", work'[r].pc = "failed",
         work'[r].saved = work[r].saved, work'[r].cloned = work[r].cloned
  PROVE  KeepsIInv
BY FailedRequest, StepIInv DEF SoundStep

\* A login that has been verified goes on.
LEMMA LoginRequest ==
  ASSUME CeremonyIInv, SoundStep, NEW r \in Requests, Others(r), SameRequest(r),
         work[r].pc \in {"save", "delete", "otp"},
         work'[r].pc \in {"delete", "otp", "accepted"},
         work'[r].cloned = work[r].cloned, CountStored(r)',
         work'[r].pc \in {"otp", "accepted"} /\ ~work'[r].kept =>
           Challenge(r)'.st = "gone"
  PROVE  KeepsIInv
<1>1. /\ work[r].type = "authentication" /\ work[r].ans.sess \in Sessions
      /\ Challenge(r).type = work[r].type /\ ~work[r].cloned
  BY DEF CeremonyIInv, RequestOK, Placed, LoginSteps
<1>2. Placed(r)'
  <2>1. Challenge(r)'.st # "unborn" /\ Challenge(r)'.type = Challenge(r).type
    BY ChallengeGrows DEF SoundStep
  <2>2. QED
    BY <1>1, <2>1 DEF Placed, SameRequest, LoginSteps, RegistrationSteps
<1>3. Vouched(r)'
  BY VouchedByGrowth DEF SoundStep, Verifieds, RegistrationSteps
<1>4. Spent(r)' /\ Bound(r)' /\ Explained(r)'
  BY <1>1 DEF Spent, Bound, Explained
<1>5. ASSUME NEW q \in work[r].after PROVE Follows(r, q)'
  BY FollowsKeptByGrowth DEF SoundStep, Verifieds
<1>6. RequestOK(r)'
  BY <1>2, <1>3, <1>4, <1>5 DEF RequestOK, SameRequest
<1>7. QED
  BY <1>6, StepIInv DEF SoundStep

\* So does a registration.
LEMMA RegistrationRequest ==
  ASSUME CeremonyIInv, SoundStep, NEW r \in Requests, Others(r), SameRequest(r),
         work[r].pc \in {"enroll", "flag", "clean"},
         work'[r].pc \in {"flag", "clean", "registered"},
         work'[r].cloned = work[r].cloned, work'[r].saved = work[r].saved,
         Bound(r)'
  PROVE  KeepsIInv
<1>1. /\ work[r].type = "registration" /\ work[r].ans.sess \in Sessions
      /\ Challenge(r).type = work[r].type /\ ~work[r].cloned /\ ~work[r].saved
  BY DEF CeremonyIInv, RequestOK, Placed, RegistrationSteps
<1>2. Placed(r)'
  <2>1. Challenge(r)'.st # "unborn" /\ Challenge(r)'.type = Challenge(r).type
    BY ChallengeGrows DEF SoundStep
  <2>2. QED
    BY <1>1, <2>1 DEF Placed, SameRequest, LoginSteps, RegistrationSteps
<1>3. Vouched(r)'
  BY VouchedByGrowth DEF SoundStep, Verifieds, RegistrationSteps
<1>4. Spent(r)' /\ CountStored(r)' /\ Explained(r)'
  BY <1>1 DEF Spent, CountStored, Explained
<1>5. ASSUME NEW q \in work[r].after PROVE Follows(r, q)'
  BY FollowsKeptByGrowth DEF SoundStep, Verifieds
<1>6. RequestOK(r)'
  BY <1>2, <1>3, <1>4, <1>5 DEF RequestOK, SameRequest
<1>7. QED
  BY <1>6, StepIInv DEF SoundStep

-----------------------------------------------------------------------------
(* One lemma per step of the handler *)

LEMMA FindIInv ==
  ASSUME CeremonyIInv, NEW r \in Requests, FindChallenge(r)
  PROVE  KeepsIInv
<1>0. /\ work[r].pc = "find" /\ otp' \subseteq Sessions
      /\ UNCHANGED <<challenge, device, flagged, otp, authent, signed>>
  BY DEF FindChallenge, CeremonyIInv, CeremonyTypeOK
<1>1. CASE To(r, "failed")
  <2>1. SoundStep /\ Others(r) /\ work'[r].pc = "failed" /\ SameRequest(r) /\ SameMarks(r)
    BY <1>0, <1>1, MoveStep DEF Steps
  <2>2. QED
    BY <1>0, <2>1, FailIInv DEF SameMarks
<1>2. ASSUME NEW pc \in {"decoy", "verify"}, To(r, pc),
             Challenge(r).st = "live", Challenge(r).type = work[r].type,
             pc = "decoy" => Challenge(r).type = "authentication"
      PROVE  KeepsIInv
  <2>1. SoundStep /\ Others(r) /\ work'[r].pc = pc /\ SameRequest(r) /\ SameMarks(r)
    BY <1>0, <1>2, MoveStep DEF Steps, LoginSteps
  <2>2. ~work[r].saved /\ ~work[r].cloned /\ work[r].ans.sess \in Sessions
    BY <1>0 DEF CeremonyIInv, RequestOK, Placed
  <2>3. Placed(r)'
    <3>1. Challenge(r)'.st # "unborn" /\ Challenge(r)'.type = Challenge(r).type
      BY <1>0, <2>1, ChallengeGrows DEF SoundStep
    <3>2. QED
      BY <1>2, <2>1, <2>2, <3>1
         DEF Placed, SameRequest, SameMarks, LoginSteps, RegistrationSteps
  <2>4. /\ Vouched(r)' /\ Spent(r)' /\ Bound(r)' /\ CountStored(r)' /\ Explained(r)'
    BY <2>1, <2>2
       DEF Vouched, Spent, Bound, CountStored, Explained, SameMarks, Verifieds,
           RegistrationSteps
  <2>5. ASSUME NEW q \in work[r].after PROVE Follows(r, q)'
    <3>1. q \in Requests /\ work[q].pc = "accepted"
      BY DEF CeremonyIInv, CeremonyTypeOK, WorkTypeOK, FinishRequests, RequestOK,
             Follows
    <3>2. work'[q] = work[q]
      BY <2>1, <3>1 DEF SoundStep, RequestsGrow
    <3>3. work[q].ans.sess = work[r].ans.sess => work[q].kept
      BY <1>2, <3>1 DEF CeremonyIInv, RequestOK, Spent, Challenge
    <3>4. QED
      BY <2>1, <3>1, <3>2, <3>3 DEF Follows, SameRequest, Verifieds
  <2>6. RequestOK(r)'
    BY <2>1, <2>3, <2>4, <2>5 DEF RequestOK, SameRequest
  <2>7. QED
    BY <2>1, <2>6, StepIInv DEF SoundStep
<1>3. QED
  BY <1>1, <1>2 DEF FindChallenge

LEMMA RefuseIInv ==
  ASSUME CeremonyIInv, NEW r \in Requests, RefuseDecoy(r) \/ RefuseClone(r)
  PROVE  KeepsIInv
<1>1. /\ work[r].pc \in {"decoy", "clone"} /\ Deleted(r, "failed")
      /\ UNCHANGED <<device, flagged, otp, authent, signed>>
  BY DEF RefuseDecoy, RefuseClone, At
<1>2. /\ SoundStep /\ Others(r) /\ work'[r].pc = "failed" /\ SameRequest(r)
      /\ work'[r].saved = work[r].saved /\ work'[r].cloned = work[r].cloned
  BY <1>1, DeleteStep DEF Steps
<1>3. QED
  BY <1>1, <1>2, FailIInv

\* A signature that go-webauthn accepts as newer than the stored count.
LEMMA VerifiedIInv ==
  ASSUME CeremonyIInv, NEW r \in Requests, At(r, "authentication", "verify"),
         Verified(r), ~CloneWarning(work[r].ans.count, Credential(r).count),
         To(r, "save"), UNCHANGED <<challenge, device, flagged, otp, authent, signed>>
  PROVE  KeepsIInv
<1> DEFINE c == work[r].ans.cred
<1>0. work[r].pc = "verify" /\ work[r].type = "authentication" /\ otp' \subseteq Sessions
  BY DEF At, CeremonyIInv, CeremonyTypeOK
<1>1. /\ SoundStep /\ Others(r) /\ work'[r].pc = "save"
      /\ SameRequest(r) /\ SameMarks(r)
  BY <1>0, MoveStep DEF Steps, LoginSteps
<1>2. /\ ~work[r].saved /\ ~work[r].cloned /\ work[r].ans.sess \in Sessions
      /\ Challenge(r).type = "authentication"
  BY <1>0 DEF CeremonyIInv, RequestOK, Placed
<1>3. work[r].ans \in signed /\ c \in Creds /\ work[r].ans.count \in Nat /\ Enrolled(c)
  BY <1>2 DEF Verified, CeremonyIInv, CeremonyTypeOK, StoreOK, ChallengeOK, Challenge
<1>4. Challenge(r)'.st # "unborn" /\ Challenge(r)'.type = Challenge(r).type
  BY <1>0, <1>1, ChallengeGrows DEF SoundStep
<1>5. Placed(r)'
  BY <1>0, <1>1, <1>2, <1>4
     DEF Placed, SameRequest, SameMarks, LoginSteps, RegistrationSteps
<1>6. Vouched(r)'
  <2>1. device'[c].owner # None /\ work[r].ans \in signed'
    BY <1>3 DEF Enrolled
  <2>2. QED
    BY <1>1, <1>2, <1>4, <2>1 DEF Vouched, SameRequest, RegistrationSteps, Enrolled
<1>7. Spent(r)' /\ Bound(r)' /\ CountStored(r)' /\ Explained(r)'
  BY <1>1, <1>2 DEF Spent, Bound, CountStored, Explained, SameMarks
<1>8. ASSUME NEW q \in work[r].after PROVE Follows(r, q)'
  <2>1. q \in Requests /\ Follows(r, q)
    BY DEF CeremonyIInv, CeremonyTypeOK, WorkTypeOK, FinishRequests, RequestOK
  <2>2. work'[q] = work[q] /\ work[q].pc = "accepted"
    BY <1>1, <2>1 DEF SoundStep, RequestsGrow, Follows
  <2>3. work[q].ans.sess = work[r].ans.sess => work[q].kept
    BY <1>0, <2>1 DEF Follows
  <2>4. ASSUME work[q].saved, work[q].ans.cred = c, authent[c].counts,
               ~device[c].back
        PROVE  work[q].ans.count < work[r].ans.count
    <3>1. work[q].ans.count <= device[c].count
      BY <2>1, <2>4 DEF CeremonyIInv, RequestOK, CountStored, Credential
    <3>2. work[r].ans.count # 0
      BY <1>2, <1>3, <2>4 DEF CeremonyIInv, StoreOK, SignatureOK, Challenge
    <3>3. ~(work[r].ans.count <= device[c].count)
      BY <3>2 DEF CloneWarning, Credential
    <3>4. work[q].ans.count \in Nat /\ device[c].count \in Nat
      BY <1>3, <2>1 DEF CeremonyIInv, CeremonyTypeOK, WorkTypeOK, FinishRequests
    <3>5. QED
      BY <1>3, <3>1, <3>3, <3>4
  <2>5. QED
    BY <1>1, <2>2, <2>3, <2>4 DEF Follows, SameRequest, Credential
<1>9. RequestOK(r)'
  BY <1>1, <1>5, <1>6, <1>7, <1>8 DEF RequestOK, SameRequest
<1>10. QED
  BY <1>1, <1>9, StepIInv DEF SoundStep

\* One that it takes for a clone's: the stored count is not 0, so a login has
\* put it there.
LEMMA ClonedIInv ==
  ASSUME CeremonyIInv, NEW r \in Requests, At(r, "authentication", "verify"),
         Verified(r), CloneWarning(work[r].ans.count, Credential(r).count),
         work' = [work EXCEPT ![r].pc = "clone", ![r].cloned = TRUE],
         UNCHANGED <<challenge, device, flagged, otp, authent, signed>>
  PROVE  KeepsIInv
<1> DEFINE c == work[r].ans.cred
<1>0. /\ work[r].pc = "verify" /\ work[r].type = "authentication"
      /\ WorkTypeOK /\ otp' \subseteq Sessions
  BY DEF At, CeremonyIInv, CeremonyTypeOK
<1>1. /\ WorkTypeOK' /\ Others(r) /\ work'[r].pc = "clone" /\ SameRequest(r)
      /\ work'[r].saved = work[r].saved
  BY <1>0, MoveCloned DEF Steps, LoginSteps
<1>2. SoundStep
  BY <1>0, <1>1, QuietStep
<1>3. /\ ~work[r].saved /\ work[r].ans.sess \in Sessions
      /\ Challenge(r).type = "authentication"
  BY <1>0 DEF CeremonyIInv, RequestOK, Placed
<1>4. c \in Creds /\ work[r].ans.count \in Nat /\ device[c].count \in Nat
  BY DEF Verified, CeremonyIInv, CeremonyTypeOK
<1>5. Challenge(r)'.st # "unborn" /\ Challenge(r)'.type = Challenge(r).type
  BY <1>0, <1>1, <1>2, ChallengeGrows DEF SoundStep
<1>6. Placed(r)'
  BY <1>0, <1>1, <1>3, <1>5 DEF Placed, SameRequest, LoginSteps, RegistrationSteps
<1>7. Vouched(r)' /\ Spent(r)' /\ Bound(r)' /\ CountStored(r)'
  BY <1>1, <1>3
     DEF Vouched, Spent, Bound, CountStored, Verifieds, RegistrationSteps
<1>8. Explained(r)'
  <2>1. work[r].ans.count <= device[c].count /\ device[c].count # 0
    BY <1>4 DEF CloneWarning, Credential
  <2>2. PICK q \in Requests : /\ work[q].saved /\ work[q].ans.cred = c
                              /\ work[q].ans.count = device[c].count
    BY <1>4, <2>1 DEF CeremonyIInv, StoreOK, DeviceOK
  <2>3. work[q].ans.count >= work[r].ans.count
    BY <1>4, <2>1, <2>2
  <2>4. q # r /\ work'[q] = work[q]
    BY <1>1, <1>3, <2>2 DEF Others
  <2>5. QED
    BY <1>1, <2>2, <2>3, <2>4 DEF Explained, SameRequest
<1>9. ASSUME NEW q \in work[r].after PROVE Follows(r, q)'
  BY <1>0, <1>1, <1>2, FollowsKeptByGrowth DEF SoundStep, Verifieds
<1>10. RequestOK(r)'
  BY <1>1, <1>6, <1>7, <1>8, <1>9 DEF RequestOK, SameRequest
<1>11. QED
  BY <1>1, <1>2, <1>10, StepIInv DEF SoundStep

LEMMA VerifyLoginIInv ==
  ASSUME CeremonyIInv, NEW r \in Requests, VerifyLogin(r)
  PROVE  KeepsIInv
<1>0. /\ At(r, "authentication", "verify") /\ otp' \subseteq Sessions
      /\ UNCHANGED <<challenge, device, flagged, otp, authent, signed>>
  BY DEF VerifyLogin, CeremonyIInv, CeremonyTypeOK
<1>1. CASE To(r, "failed")
  <2>1. SoundStep /\ Others(r) /\ work'[r].pc = "failed" /\ SameRequest(r) /\ SameMarks(r)
    BY <1>0, <1>1, MoveStep DEF Steps, At
  <2>2. QED
    BY <1>0, <2>1, FailIInv DEF SameMarks, At
<1>2. CASE /\ Verified(r)
           /\ IF CloneWarning(work[r].ans.count, Credential(r).count)
              THEN work' = [work EXCEPT ![r].pc = "clone", ![r].cloned = TRUE]
              ELSE To(r, "save")
  BY <1>0, <1>2, VerifiedIInv, ClonedIInv
<1>3. QED
  BY <1>1, <1>2 DEF VerifyLogin

LEMMA SaveCountIInv ==
  ASSUME CeremonyIInv, NEW r \in Requests, SaveCount(r)
  PROVE  KeepsIInv
<1> DEFINE c == work[r].ans.cred
           n == work[r].ans.count
           new == [owner |-> device[c].owner, count |-> n,
                   back |-> device[c].back \/ n < device[c].count]
<1>0. /\ work[r].pc = "save" /\ WorkTypeOK /\ otp' \subseteq Sessions
      /\ UNCHANGED <<challenge, flagged, otp, authent, signed>>
  BY DEF SaveCount, At, CeremonyIInv, CeremonyTypeOK
<1>1. /\ work[r].ans \in signed /\ Enrolled(c) /\ c \in Creds /\ n \in Nat
      /\ device \in [Creds -> [owner : Users \cup {None}, count : Nat, back : BOOLEAN]]
  BY <1>0 DEF CeremonyIInv, CeremonyTypeOK, RequestOK, Vouched, Verifieds
<1>2. CASE UNCHANGED device /\ To(r, "delete")
  <2>1. SoundStep /\ Others(r) /\ work'[r].pc = "delete" /\ SameRequest(r) /\ SameMarks(r)
    BY <1>0, <1>2, MoveStep DEF Steps, LoginSteps
  <2>2. CountStored(r)'
    BY <2>1, CountsKeptByGrowth DEF SoundStep, SameMarks
  <2>3. QED
    BY <1>0, <2>1, <2>2, LoginRequest DEF SameMarks
<1>3. CASE /\ device' = [device EXCEPT ![work[r].ans.cred] =
                [owner |-> @.owner, count |-> work[r].ans.count,
                 back |-> @.back \/ work[r].ans.count < @.count]]
           /\ work' = [work EXCEPT ![r].pc = "delete", ![r].saved = TRUE]
  <2>1. /\ WorkTypeOK' /\ Others(r) /\ work'[r].pc = "delete" /\ SameRequest(r)
        /\ work'[r].kept = work[r].kept /\ work'[r].cloned = work[r].cloned
        /\ work'[r].saved
    BY <1>0, <1>3, MoveSaved DEF Steps, LoginSteps
  <2>2. device' = [device EXCEPT ![c] = new]
    BY <1>1, <1>3
  <2>3. /\ device'[c].owner = device[c].owner /\ device'[c].count = n
        /\ ~device'[c].back => ~device[c].back /\ ~(n < device[c].count)
        /\ \A e \in Creds \ {c} : device'[e] = device[e]
    BY <1>1, <2>2
  <2>4. CeremonyTypeOK'
    <3>1. new \in [owner : Users \cup {None}, count : Nat, back : BOOLEAN]
      <4>1. device[c].owner \in Users \cup {None} /\ device[c].back \in BOOLEAN
        BY <1>1
      <4>2. (device[c].back \/ n < device[c].count) \in BOOLEAN
        OBVIOUS
      <4>3. QED
        BY <1>1, <4>1, <4>2
    <3> HIDE DEF new
    <3>2. device' \in [Creds -> [owner : Users \cup {None}, count : Nat, back : BOOLEAN]]
      BY <1>1, <2>2, <3>1
    <3>3. QED
      BY <1>0, <2>1, <3>2 DEF CeremonyIInv, CeremonyTypeOK
  <2>5. RequestsGrow
    BY <1>0, <2>1, RequestStep
  <2>6. DocumentsGrow
    <3>1. \A e \in Creds : /\ device'[e].owner = device[e].owner
                           /\ device[e].count \in Nat
                           /\ ~device'[e].back => /\ ~device[e].back
                                                  /\ device[e].count <= device'[e].count
      BY <1>1, <2>3
    <3>2. QED
      BY <1>0, <3>1 DEF DocumentsGrow, SameContents
  <2>7. \A e \in Creds : device'[e].owner = device[e].owner
    BY <2>3
  <2>8. \A e \in Creds : DeviceOK(e)'
    <3>1. ASSUME NEW e \in Creds, device'[e].count # 0
          PROVE  \E q \in Requests : /\ work'[q].saved /\ work'[q].ans.cred = e
                                     /\ work'[q].ans.count = device'[e].count
      <4>1. CASE e = c
        BY <2>1, <2>3, <4>1 DEF SameRequest
      <4>2. CASE e # c
        <5>1. PICK q \in Requests : /\ work[q].saved /\ work[q].ans.cred = e
                                    /\ work[q].ans.count = device[e].count
          BY <2>3, <3>1, <4>2 DEF CeremonyIInv, StoreOK, DeviceOK
        <5>2. work'[q].saved /\ work'[q].ans = work[q].ans
          BY <2>5, <5>1, SavedGrows
        <5>3. QED
          BY <2>3, <4>2, <5>1, <5>2
      <4>3. QED
        BY <4>1, <4>2
    <3>2. QED
      BY <3>1 DEF DeviceOK
  <2>9. StoreOK'
    <3>1. \A s \in Sessions : ChallengeOK(s)'
      <4> SUFFICES ASSUME NEW s \in Sessions PROVE ChallengeOK(s)'
        OBVIOUS
      <4>1. challenge[s].allowed \subseteq Creds /\ ChallengeOK(s)
        BY DEF CeremonyIInv, CeremonyTypeOK, StoreOK
      <4>2. QED
        BY <1>0, <2>7, <4>1 DEF ChallengeOK, Enrolled
    <3>2. \A e \in Creds : AuthenticatorOK(e)'
      BY <1>0, <2>7 DEF CeremonyIInv, StoreOK, AuthenticatorOK, Enrolled
    <3>3. \A a \in signed' : SignatureOK(a)'
      BY <1>0 DEF CeremonyIInv, StoreOK, SignatureOK
    <3>4. \A u \in flagged' : DevicesOf(u)' # {}
      BY <1>0, <2>7 DEF CeremonyIInv, StoreOK, DevicesOf
    <3>5. QED
      BY <2>8, <3>1, <3>2, <3>3, <3>4 DEF StoreOK
  <2>10. SoundStep
    BY <2>4, <2>5, <2>6, <2>9 DEF SoundStep
  <2>11. CountStored(r)'
    <3>1. n <= n
      BY <1>1
    <3>2. QED
      BY <2>1, <2>3, <3>1 DEF CountStored, Credential, SameRequest
  <2>12. QED
    BY <1>0, <2>1, <2>10, <2>11, LoginRequest
<1>4. QED
  BY <1>2, <1>3 DEF SaveCount

LEMMA DeleteIInv ==
  ASSUME CeremonyIInv, NEW r \in Requests, DeleteChallenge(r)
  PROVE  KeepsIInv
<1>1. /\ work[r].pc = "delete" /\ Deleted(r, "otp")
      /\ UNCHANGED <<device, flagged, otp, authent, signed>>
  BY DEF DeleteChallenge, At
<1>2. /\ SoundStep /\ Others(r) /\ work'[r].pc = "otp" /\ SameRequest(r)
      /\ work'[r].saved = work[r].saved /\ work'[r].cloned = work[r].cloned
      /\ work'[r].kept \/ Challenge(r)'.st = "gone"
  BY <1>1, DeleteStep DEF Steps, LoginSteps
<1>3. CountStored(r)'
  BY <1>2, CountsKeptByGrowth DEF SoundStep
<1>4. QED
  BY <1>1, <1>2, <1>3, LoginRequest

LEMMA CreateOTPIInv ==
  ASSUME CeremonyIInv, NEW r \in Requests, CreateOTP(r)
  PROVE  KeepsIInv
<1>1. /\ work[r].pc = "otp" /\ To(r, "accepted")
      /\ UNCHANGED <<challenge, device, flagged, authent, signed>>
  BY DEF CreateOTP, At
<1>2. otp' \subseteq Sessions
  <2>1. otp \subseteq Sessions /\ work[r].ans.sess \in Sessions
    BY <1>1 DEF CeremonyIInv, CeremonyTypeOK, RequestOK, Placed
  <2>2. QED
    BY <2>1 DEF CreateOTP
<1>3. SoundStep /\ Others(r) /\ work'[r].pc = "accepted" /\ SameRequest(r) /\ SameMarks(r)
  BY <1>1, <1>2, MoveStep DEF Steps, LoginSteps
<1>4. CountStored(r)'
  BY <1>3, CountsKeptByGrowth DEF SoundStep, SameMarks
<1>5. ~work'[r].kept => Challenge(r)'.st = "gone"
  BY <1>1, <1>3, ChallengeGrows DEF CeremonyIInv, RequestOK, Spent, SoundStep, SameMarks
<1>6. QED
  BY <1>1, <1>3, <1>4, <1>5, LoginRequest DEF SameMarks

LEMMA VerifyRegistrationIInv ==
  ASSUME CeremonyIInv, NEW r \in Requests, VerifyRegistration(r)
  PROVE  KeepsIInv
<1>0. /\ work[r].pc = "verify" /\ work[r].type = "registration" /\ otp' \subseteq Sessions
      /\ UNCHANGED <<challenge, device, flagged, otp, authent, signed>>
  BY DEF VerifyRegistration, At, CeremonyIInv, CeremonyTypeOK
<1>1. CASE To(r, "failed")
  <2>1. SoundStep /\ Others(r) /\ work'[r].pc = "failed" /\ SameRequest(r) /\ SameMarks(r)
    BY <1>0, <1>1, MoveStep DEF Steps
  <2>2. QED
    BY <1>0, <2>1, FailIInv DEF SameMarks
<1>2. CASE work[r].ans \in signed /\ To(r, "enroll")
  <2>1. SoundStep /\ Others(r) /\ work'[r].pc = "enroll" /\ SameRequest(r) /\ SameMarks(r)
    BY <1>0, <1>2, MoveStep DEF Steps, RegistrationSteps
  <2>2. /\ ~work[r].saved /\ ~work[r].cloned /\ work[r].ans.sess \in Sessions
        /\ Challenge(r).type = work[r].type
    BY <1>0 DEF CeremonyIInv, RequestOK, Placed
  <2>3. Challenge(r)'.st # "unborn" /\ Challenge(r)'.type = Challenge(r).type
    BY <1>0, <2>1, ChallengeGrows DEF SoundStep
  <2>4. Placed(r)'
    BY <1>0, <2>1, <2>2, <2>3
       DEF Placed, SameRequest, SameMarks, LoginSteps, RegistrationSteps
  <2>5. /\ Vouched(r)' /\ Spent(r)' /\ Bound(r)' /\ CountStored(r)' /\ Explained(r)'
    BY <1>0, <1>2, <2>1, <2>2
       DEF Vouched, Spent, Bound, CountStored, Explained, SameRequest, SameMarks,
           Verifieds
  <2>6. ASSUME NEW q \in work[r].after PROVE Follows(r, q)'
    BY <1>0, <2>1, FollowsKeptByGrowth DEF SoundStep, Verifieds
  <2>7. RequestOK(r)'
    BY <2>1, <2>4, <2>5, <2>6 DEF RequestOK, SameRequest
  <2>8. QED
    BY <2>1, <2>7, StepIInv DEF SoundStep
<1>3. QED
  BY <1>1, <1>2 DEF VerifyRegistration

\* What is known of a registration that go-webauthn has verified.
LEMMA Registering ==
  ASSUME CeremonyIInv, NEW r \in Requests, work[r].pc \in RegistrationSteps
  PROVE  /\ work[r].ans \in signed /\ work[r].ans.cred \in Creds
         /\ work[r].ans.sess \in Sessions /\ work[r].ans.count \in Nat
         /\ Challenge(r).user \in Users
<1>1. work[r].ans \in signed /\ Challenge(r).type = "registration"
  BY DEF CeremonyIInv, RequestOK, Vouched, Placed, RegistrationSteps
<1>2. /\ work[r].ans.cred \in Creds /\ work[r].ans.sess \in Sessions
      /\ work[r].ans.count \in Nat
  BY <1>1 DEF CeremonyIInv, CeremonyTypeOK
<1>3. QED
  BY <1>1, <1>2 DEF CeremonyIInv, StoreOK, ChallengeOK, Challenge

\* A credential nobody had has counted nothing.
LEMMA NewDeviceStep ==
  ASSUME CeremonyIInv, NEW r \in Requests, NEW pc \in {"flag", "failed"},
         work[r].pc = "enroll", NewDevice(r), To(r, pc),
         UNCHANGED <<challenge, flagged, otp, authent, signed>>
  PROVE  /\ SoundStep /\ Others(r) /\ work'[r].pc = pc /\ SameRequest(r) /\ SameMarks(r)
         /\ Credential(r)'.owner = Challenge(r)'.user
<1> DEFINE c == work[r].ans.cred
           new == [owner |-> Challenge(r).user, count |-> 0, back |-> FALSE]
<1>0. /\ WorkTypeOK /\ otp' \subseteq Sessions
      /\ device \in [Creds -> [owner : Users \cup {None}, count : Nat, back : BOOLEAN]]
  BY DEF CeremonyIInv, CeremonyTypeOK
<1>1. /\ work[r].ans \in signed /\ c \in Creds /\ work[r].ans.sess \in Sessions
      /\ work[r].ans.count \in Nat /\ Challenge(r).user \in Users
  BY Registering DEF RegistrationSteps
<1>2. /\ WorkTypeOK' /\ Others(r) /\ work'[r].pc = pc /\ SameRequest(r) /\ SameMarks(r)
  BY <1>0, Move DEF Steps, RegistrationSteps
<1>3. ~Enrolled(c) /\ work[r].ans.count = 0
  <2>1. ~Enrolled(c)
    BY DEF NewDevice
  <2>2. authent[c].n = 0 /\ work[r].ans.count <= authent[c].n
    BY <1>1, <2>1 DEF CeremonyIInv, StoreOK, AuthenticatorOK, SignatureOK
  <2>3. QED
    BY <1>1, <2>1, <2>2
<1>4. device' = [device EXCEPT ![c] = new]
  BY <1>3 DEF NewDevice
<1>5. /\ device'[c].owner = Challenge(r).user /\ device'[c].count = 0
      /\ \A e \in Creds \ {c} : device'[e] = device[e]
  BY <1>0, <1>1, <1>4
<1>6. CeremonyTypeOK'
  <2>1. device' \in [Creds -> [owner : Users \cup {None}, count : Nat, back : BOOLEAN]]
    BY <1>0, <1>1, <1>4
  <2>2. QED
    BY <1>0, <1>2, <2>1 DEF CeremonyIInv, CeremonyTypeOK
<1>7. RequestsGrow
  BY <1>2, RequestStep DEF SameMarks
<1>8. \A e \in Creds : Enrolled(e) => device'[e] = device[e]
  BY <1>3, <1>5
<1>9. DocumentsGrow
  <2>1. \A e \in Creds : device[e].count \in Nat
    BY <1>0
  <2>2. \A e \in Creds : device[e].count <= device[e].count
    BY <2>1
  <2>3. QED
    BY <1>8, <2>2 DEF DocumentsGrow, SameContents
<1>10. StoreOK'
  <2>1. \A s \in Sessions : ChallengeOK(s)'
    <3> SUFFICES ASSUME NEW s \in Sessions PROVE ChallengeOK(s)'
      OBVIOUS
    <3>1. challenge[s].allowed \subseteq Creds /\ ChallengeOK(s)
      BY DEF CeremonyIInv, CeremonyTypeOK, StoreOK
    <3>2. \A e \in challenge[s].allowed : device'[e].owner # None
      BY <1>8, <3>1 DEF ChallengeOK, Enrolled
    <3>3. QED
      BY <3>1, <3>2 DEF ChallengeOK, Enrolled
  <2>2. \A e \in Creds : AuthenticatorOK(e)'
    BY <1>8 DEF CeremonyIInv, StoreOK, AuthenticatorOK, Enrolled
  <2>3. \A e \in Creds : DeviceOK(e)'
    <3>1. ASSUME NEW e \in Creds, device'[e].count # 0
          PROVE  \E q \in Requests : /\ work'[q].saved /\ work'[q].ans.cred = e
                                     /\ work'[q].ans.count = device'[e].count
      <4>1. device'[e] = device[e]
        BY <1>5, <3>1
      <4>2. PICK q \in Requests : /\ work[q].saved /\ work[q].ans.cred = e
                                  /\ work[q].ans.count = device[e].count
        BY <3>1, <4>1 DEF CeremonyIInv, StoreOK, DeviceOK
      <4>3. work'[q].saved /\ work'[q].ans = work[q].ans
        BY <1>7, <4>2, SavedGrows
      <4>4. QED
        BY <4>1, <4>2, <4>3
    <3>2. QED
      BY <3>1 DEF DeviceOK
  <2>4. \A a \in signed' : SignatureOK(a)'
    BY DEF CeremonyIInv, StoreOK, SignatureOK
  <2>5. \A u \in flagged' : DevicesOf(u)' # {}
    <3> SUFFICES ASSUME NEW u \in flagged PROVE DevicesOf(u)' # {}
      OBVIOUS
    <3>1. u \in Users /\ DevicesOf(u) # {}
      BY DEF CeremonyIInv, CeremonyTypeOK, StoreOK
    <3>2. PICK e \in Creds : device[e].owner = u
      BY <3>1 DEF DevicesOf
    <3>3. device'[e].owner = u
      BY <1>8, <3>1, <3>2, NoneIsNobody DEF Enrolled
    <3>4. QED
      BY <3>3 DEF DevicesOf
  <2>6. QED
    BY <2>1, <2>2, <2>3, <2>4, <2>5 DEF StoreOK
<1>11. Credential(r)'.owner = Challenge(r)'.user
  BY <1>2, <1>5 DEF Credential, Challenge, SameRequest
<1>12. QED
  BY <1>2, <1>6, <1>7, <1>9, <1>10, <1>11 DEF SoundStep

LEMMA EnrollIInv ==
  ASSUME CeremonyIInv, NEW r \in Requests, Enroll(r)
  PROVE  KeepsIInv
<1>0. /\ work[r].pc = "enroll" /\ otp' \subseteq Sessions
      /\ UNCHANGED <<challenge, flagged, otp, authent, signed>>
  BY DEF Enroll, At, CeremonyIInv, CeremonyTypeOK
<1>1. CASE UNCHANGED device /\ To(r, "failed")
  <2>1. SoundStep /\ Others(r) /\ work'[r].pc = "failed" /\ SameRequest(r) /\ SameMarks(r)
    BY <1>0, <1>1, MoveStep DEF Steps
  <2>2. QED
    BY <1>0, <2>1, FailIInv DEF SameMarks
<1>2. ASSUME NEW pc \in {"flag", "failed"}, NewDevice(r), To(r, pc)
      PROVE  KeepsIInv
  <2>1. /\ SoundStep /\ Others(r) /\ work'[r].pc = pc /\ SameRequest(r) /\ SameMarks(r)
        /\ Credential(r)'.owner = Challenge(r)'.user
    BY <1>0, <1>2, NewDeviceStep
  <2>2. CASE pc = "failed"
    BY <1>0, <2>1, <2>2, FailIInv DEF SameMarks
  <2>3. CASE pc = "flag"
    <3>1. Bound(r)'
      BY <2>1, <2>3 DEF Bound
    <3>2. QED
      BY <1>0, <2>1, <2>3, <3>1, RegistrationRequest DEF SameMarks
  <2>4. QED
    BY <2>2, <2>3
<1>3. QED
  BY <1>1, <1>2 DEF Enroll

LEMMA FlagIInv ==
  ASSUME CeremonyIInv, NEW r \in Requests, Flag(r)
  PROVE  KeepsIInv
<1>0. /\ work[r].pc = "flag" /\ WorkTypeOK /\ otp' \subseteq Sessions
      /\ UNCHANGED <<challenge, device, otp, authent, signed>>
  BY DEF Flag, At, CeremonyIInv, CeremonyTypeOK
<1>1. CASE UNCHANGED flagged /\ To(r, "failed")
  <2>1. SoundStep /\ Others(r) /\ work'[r].pc = "failed" /\ SameRequest(r) /\ SameMarks(r)
    BY <1>0, <1>1, MoveStep DEF Steps
  <2>2. QED
    BY <1>0, <2>1, FailIInv DEF SameMarks
<1>2. ASSUME flagged' = flagged \cup {Challenge(r).user},
             NEW pc \in {"clean", "failed"}, To(r, pc)
      PROVE  KeepsIInv
  <2>1. /\ WorkTypeOK' /\ Others(r) /\ work'[r].pc = pc /\ SameRequest(r) /\ SameMarks(r)
    BY <1>0, <1>2, Move DEF Steps, RegistrationSteps
  <2>2. work[r].ans.cred \in Creds /\ Challenge(r).user \in Users
    BY <1>0, Registering DEF RegistrationSteps
  <2>3. Credential(r).owner = Challenge(r).user
    BY <1>0 DEF CeremonyIInv, RequestOK, Bound
  <2>4. CeremonyTypeOK'
    BY <1>0, <1>2, <2>1, <2>2 DEF CeremonyIInv, CeremonyTypeOK
  <2>5. RequestsGrow
    BY <1>0, <2>1, RequestStep DEF SameMarks
  <2>6. DocumentsGrow
    <3>1. \A e \in Creds : device[e].count \in Nat
      BY DEF CeremonyIInv, CeremonyTypeOK
    <3>2. \A e \in Creds : device[e].count <= device[e].count
      BY <3>1
    <3>3. QED
      BY <1>0, <1>2, <3>2 DEF DocumentsGrow, SameContents
  <2>7. StoreOK'
    <3>1. \A s \in Sessions : ChallengeOK(s)'
      BY <1>0 DEF CeremonyIInv, StoreOK, ChallengeOK, Enrolled
    <3>2. \A e \in Creds : AuthenticatorOK(e)'
      BY <1>0 DEF CeremonyIInv, StoreOK, AuthenticatorOK, Enrolled
    <3>3. ASSUME NEW e \in Creds PROVE DeviceOK(e)'
      <4> SUFFICES ASSUME device[e].count # 0
                   PROVE  \E q \in Requests : /\ work'[q].saved
                                              /\ work'[q].ans.cred = e
                                              /\ work'[q].ans.count = device[e].count
        BY <1>0 DEF DeviceOK
      <4>1. PICK q \in Requests : /\ work[q].saved /\ work[q].ans.cred = e
                                  /\ work[q].ans.count = device[e].count
        BY DEF CeremonyIInv, StoreOK, DeviceOK
      <4>2. QED
        BY <2>5, <4>1, SavedGrows
    <3>4. \A a \in signed' : SignatureOK(a)'
      BY <1>0 DEF CeremonyIInv, StoreOK, SignatureOK
    <3>5. \A u \in flagged' : DevicesOf(u)' # {}
      BY <1>0, <1>2, <2>2, <2>3 DEF CeremonyIInv, StoreOK, DevicesOf, Credential
    <3>6. QED
      BY <3>1, <3>2, <3>3, <3>4, <3>5 DEF StoreOK
  <2>8. SoundStep
    BY <2>4, <2>5, <2>6, <2>7 DEF SoundStep
  <2>9. CASE pc = "failed"
    BY <1>0, <2>1, <2>8, <2>9, FailIInv DEF SameMarks
  <2>10. CASE pc = "clean"
    <3>1. Bound(r)'
      BY <1>0, <1>2, <2>1, <2>3 DEF Bound, Credential, Challenge, SameRequest
    <3>2. QED
      BY <1>0, <2>1, <2>8, <2>10, <3>1, RegistrationRequest DEF SameMarks
  <2>11. QED
    BY <2>9, <2>10
<1>3. QED
  BY <1>1, <1>2 DEF Flag

LEMMA CleanIInv ==
  ASSUME CeremonyIInv, NEW r \in Requests, CleanRegistration(r)
  PROVE  KeepsIInv
<1>1. /\ work[r].pc = "clean" /\ Deleted(r, "registered")
      /\ UNCHANGED <<device, flagged, otp, authent, signed>>
  BY DEF CleanRegistration, At
<1>2. /\ SoundStep /\ Others(r) /\ work'[r].pc = "registered" /\ SameRequest(r)
      /\ work'[r].saved = work[r].saved /\ work'[r].cloned = work[r].cloned
  BY <1>1, DeleteStep DEF Steps, RegistrationSteps
<1>3. Challenge(r)'.user = Challenge(r).user
  BY <1>1, <1>2, ChallengeGrows DEF SoundStep
<1>4. Credential(r)' = Credential(r)
  BY <1>1, <1>2 DEF Credential, SameRequest
<1>5. Bound(r)'
  BY <1>1, <1>2, <1>3, <1>4 DEF CeremonyIInv, RequestOK, Bound
<1>6. QED
  BY <1>1, <1>2, <1>5, RegistrationRequest

-----------------------------------------------------------------------------
(* Restart, the initial states, and all steps *)

LEMMA RestartIInv ==
  ASSUME CeremonyIInv, Restart
  PROVE  KeepsIInv
<1> DEFINE Stays(r) == work[r].pc \in Answered \cup {"new"}
           lost(r) == [work[r] EXCEPT !.pc = "failed"]
<1>0. /\ work \in [Requests -> FinishRequests]
      /\ UNCHANGED <<challenge, device, flagged, otp, authent, signed>>
  BY DEF Restart, CeremonyIInv, CeremonyTypeOK, WorkTypeOK
<1>1. \A r \in Requests : work'[r] = IF Stays(r) THEN work[r] ELSE lost(r)
  BY DEF Restart
<1>2. \A r \in Requests :
        /\ lost(r) \in FinishRequests /\ lost(r).pc = "failed"
        /\ lost(r).type = work[r].type /\ lost(r).ans = work[r].ans
        /\ lost(r).after = work[r].after /\ lost(r).saved = work[r].saved
        /\ lost(r).cloned = work[r].cloned
  BY <1>0 DEF FinishRequests, Steps
<1> HIDE DEF lost
<1>3. CeremonyTypeOK'
  <2>1. work' \in [Requests -> FinishRequests]
    BY <1>0, <1>1, <1>2 DEF Restart, lost
  <2>2. QED
    BY <1>0, <2>1 DEF CeremonyIInv, CeremonyTypeOK, WorkTypeOK
<1>4. \A r \in Requests : /\ SameRequest(r) /\ work'[r].saved = work[r].saved
                          /\ work'[r].cloned = work[r].cloned
  BY <1>1, <1>2 DEF SameRequest
<1>5. RequestsGrow
  BY <1>1, <1>4 DEF RequestsGrow, Answered
<1>6. \A s \in Sessions : SameContents(s) /\ challenge'[s].st = challenge[s].st
  BY <1>0 DEF SameContents
<1>7. DocumentsGrow /\ StoreOK'
  BY <1>0, <1>5, <1>6, DocumentsKept, StoreKept
<1>8. ASSUME NEW r \in Requests PROVE RequestOK(r)'
  <2>1. CASE Stays(r)
    BY <1>1, <1>3, <1>5, <1>7, <2>1, OtherRequest
  <2>2. CASE ~Stays(r)
    BY <1>1, <1>2, <1>3, <1>4, <1>5, <1>7, <2>2, FailedRequest
  <2>3. QED
    BY <2>1, <2>2
<1>9. QED
  BY <1>3, <1>7, <1>8 DEF CeremonyIInv, KeepsIInv

LEMMA CeremonyInitIInv ==
  ASSUME CeremonyInit
  PROVE  CeremonyIInv
<1>1. PICK owner \in [Creds -> Users \cup {None}] :
        /\ device = [c \in Creds |-> [NoDevice EXCEPT !.owner = owner[c]]]
        /\ flagged \in SUBSET {owner[c] : c \in {e \in Creds : owner[e] # None}}
  BY DEF CeremonyInit
<1>2. /\ device \in [Creds -> [owner : Users \cup {None}, count : Nat, back : BOOLEAN]]
      /\ \A c \in Creds : device[c].owner = owner[c] /\ device[c].count = 0
  BY <1>1 DEF NoDevice
<1>3. \A u \in flagged : u \in Users /\ \E c \in Creds : device[c].owner = u
  BY <1>1, <1>2
<1>4. \A r \in Requests :
        /\ work[r] \in FinishRequests /\ work[r].pc = "new" /\ work[r].after = {}
        /\ ~work[r].saved /\ ~work[r].cloned
  BY DEF CeremonyInit, Idle, Nothing, Answer, FinishRequests, Steps
<1>5. \A c \in Creds : authent[c].n = 0
  BY DEF CeremonyInit
<1>6. CeremonyTypeOK
  <2>1. challenge \in [Sessions ->
          [st : {"unborn", "live", "gone"},
           type : {"none", "registration", "authentication"},
           user : Users \cup {None}, allowed : SUBSET Creds]]
    BY DEF CeremonyInit, NoChallenge
  <2>2. authent \in [Creds -> [counts : BOOLEAN, n : Nat]]
    BY DEF CeremonyInit
  <2>3. WorkTypeOK
    <3>1. work = [r \in Requests |-> Idle] /\ \A r \in Requests : work[r] \in FinishRequests
      BY <1>4 DEF CeremonyInit
    <3>2. QED
      BY <3>1 DEF WorkTypeOK
  <2>4. flagged \subseteq Users /\ otp = {} /\ signed = {}
    BY <1>3 DEF CeremonyInit
  <2>5. QED
    BY <1>2, <2>1, <2>2, <2>3, <2>4 DEF CeremonyTypeOK
<1>7. StoreOK
  <2>1. \A s \in Sessions : ChallengeOK(s)
    BY DEF CeremonyInit, NoChallenge, ChallengeOK
  <2>2. \A c \in Creds : AuthenticatorOK(c) /\ DeviceOK(c)
    BY <1>2, <1>5 DEF AuthenticatorOK, DeviceOK
  <2>3. signed = {}
    BY DEF CeremonyInit
  <2>4. QED
    BY <1>3, <2>1, <2>2, <2>3 DEF StoreOK, DevicesOf
<1>8. \A r \in Requests : RequestOK(r)
  BY <1>4
     DEF RequestOK, Placed, Vouched, Spent, Bound, CountStored, Explained,
         LoginSteps, RegistrationSteps, Verifieds
<1>9. QED
  BY <1>6, <1>7, <1>8 DEF CeremonyIInv

LEMMA HandleIInv ==
  ASSUME CeremonyIInv, NEW r \in Requests, Handle(r)
  PROVE  KeepsIInv
<1>1. CASE FindChallenge(r)
  BY <1>1, FindIInv
<1>2. CASE RefuseDecoy(r) \/ RefuseClone(r)
  BY <1>2, RefuseIInv
<1>3. CASE VerifyLogin(r)
  BY <1>3, VerifyLoginIInv
<1>4. CASE SaveCount(r)
  BY <1>4, SaveCountIInv
<1>5. CASE DeleteChallenge(r)
  BY <1>5, DeleteIInv
<1>6. CASE CreateOTP(r)
  BY <1>6, CreateOTPIInv
<1>7. CASE VerifyRegistration(r)
  BY <1>7, VerifyRegistrationIInv
<1>8. CASE Enroll(r)
  BY <1>8, EnrollIInv
<1>9. CASE Flag(r)
  BY <1>9, FlagIInv
<1>10. CASE CleanRegistration(r)
  BY <1>10, CleanIInv
<1>11. QED
  BY <1>1, <1>2, <1>3, <1>4, <1>5, <1>6, <1>7, <1>8, <1>9, <1>10 DEF Handle

LEMMA BeginningIInv ==
  ASSUME CeremonyIInv, NEW s \in Sessions,
         \/ \E u \in Users : BeginRegistration(s, u) \/ BeginLogin(s, u)
         \/ BeginFakeLogin(s)
  PROVE  KeepsIInv
<1>1. ASSUME NEW u \in Users, BeginRegistration(s, u) PROVE KeepsIInv
  <2> DEFINE none == {}
  <2>1. none \in SUBSET Creds /\ \A c \in none : Enrolled(c)
    OBVIOUS
  <2>2. challenge' = [challenge EXCEPT ![s] =
          [st |-> "live", type |-> "registration", user |-> u, allowed |-> none]]
    BY <1>1 DEF BeginRegistration
  <2>3. u \in Users \cup {None} /\ none = {}
    OBVIOUS
  <2> HIDE DEF none
  <2>4. QED
    BY <1>1, <2>1, <2>2, <2>3, BeginIInv DEF BeginRegistration
<1>2. ASSUME NEW u \in Users, BeginLogin(s, u) PROVE KeepsIInv
  <2>1. DevicesOf(u) \in SUBSET Creds /\ \A c \in DevicesOf(u) : Enrolled(c)
    BY NoneIsNobody DEF DevicesOf, Enrolled
  <2>2. QED
    BY <1>2, <2>1, BeginIInv DEF BeginLogin
<1>3. CASE BeginFakeLogin(s)
  <2> DEFINE none == {}
  <2>1. none \in SUBSET Creds /\ \A c \in none : Enrolled(c)
    OBVIOUS
  <2>2. challenge' = [challenge EXCEPT ![s] =
          [st |-> "live", type |-> "authentication", user |-> None, allowed |-> none]]
    BY <1>3 DEF BeginFakeLogin
  <2> HIDE DEF none
  <2>3. QED
    BY <1>3, <2>1, <2>2, BeginIInv DEF BeginFakeLogin
<1>4. QED
  BY <1>1, <1>2, <1>3

LEMMA CeremonyStep ==
  ASSUME CeremonyIInv, [CeremonyNext]_CeremonyVars
  PROVE  KeepsIInv
<1>1. CASE UNCHANGED CeremonyVars
  <2>1. UNCHANGED <<challenge, device, flagged, otp, authent, signed, work>>
    BY <1>1 DEF CeremonyVars
  <2>2. CeremonyTypeOK'
    BY <2>1 DEF CeremonyIInv, CeremonyTypeOK, WorkTypeOK
  <2>3. \A s \in Sessions : SameContents(s) /\ challenge'[s].st = challenge[s].st
    BY <2>1 DEF SameContents
  <2>4. DocumentsGrow /\ StoreOK'
    BY <2>1, <2>3, DocumentsKept, StoreKept, NoRequestStep
  <2>5. QED
    BY <2>1, <2>2, <2>4, IdleIInv
<1>2. ASSUME NEW s \in Sessions,
             \/ \E u \in Users : BeginRegistration(s, u) \/ BeginLogin(s, u)
             \/ BeginFakeLogin(s)
      PROVE  KeepsIInv
  BY <1>2, BeginningIInv
<1>3. ASSUME NEW s \in Sessions, NEW c \in Creds, Attest(s, c) \/ Sign(s, c)
      PROVE  KeepsIInv
  BY <1>3, AttestIInv, SignIInv
<1>4. ASSUME NEW s \in Sessions, TtlDelete(s) PROVE KeepsIInv
  BY <1>4, TtlDeleteIInv
<1>5. ASSUME NEW r \in Requests, NEW type \in {"registration", "authentication"},
             NEW ans \in signed \cup {Nothing(s) : s \in Sessions},
             Arrive(r, type, ans)
      PROVE  KeepsIInv
  BY <1>5, ArriveIInv
<1>6. ASSUME NEW r \in Requests, Handle(r) PROVE KeepsIInv
  BY <1>6, HandleIInv
<1>7. CASE Restart
  BY <1>7, RestartIInv
<1>8. CASE Finished
  BY <1>1, <1>8 DEF Finished
<1>9. CASE CeremonyNext
  BY <1>2, <1>3, <1>4, <1>5, <1>6, <1>7, <1>8, <1>9 DEF CeremonyNext
<1>10. QED
  BY <1>1, <1>9

LEMMA CeremonyInvariance == CeremonySpec => []CeremonyIInv
<1>1. CeremonyIInv /\ [CeremonyNext]_CeremonyVars => CeremonyIInv'
  BY CeremonyStep DEF KeepsIInv
<1>2. QED
  BY <1>1, CeremonyInitIInv, PTL DEF CeremonySpec

-----------------------------------------------------------------------------
(* WebAuthn: the theorems *)

\* Whatever the sets of users, sessions, credentials and requests, the
\* documents and the requests stay within their types.
THEOREM CeremonyTypeCorrect == CeremonySpec => []CeremonyTypeOK
<1>1. CeremonyIInv => CeremonyTypeOK
  BY DEF CeremonyIInv
<1>2. QED
  BY <1>1, CeremonyInvariance, PTL

\* A challenge lets one login through, but for those that arrived before the
\* first was answered and for a deletion that failed (finish deletes the
\* challenge after the verification and looks at no error).
THEOREM ChallengeOnce == CeremonySpec => []ChallengeUsedOnce
<1>1. CeremonyIInv => ChallengeUsedOnce
  BY DEF CeremonyIInv, RequestOK, Follows, ChallengeUsedOnce, Accepted
<1>2. QED
  BY <1>1, CeremonyInvariance, PTL

\* Logins with a counting authenticator, one after the other, come with
\* growing counts, if the earlier count was saved and no later save went back
\* (UpdateCredential stores whatever it is given).
THEOREM CountsGrow == CeremonySpec => []CountsIncrease
<1>1. CeremonyIInv => CountsIncrease
  BY DEF CeremonyIInv, RequestOK, Follows, CountsIncrease, Accepted, Verifieds
<1>2. QED
  BY <1>1, CeremonyInvariance, PTL

\* An answer is refused as a clone's only after another login that has saved
\* its count came with it or with a later one of the same authenticator.
THEOREM WarningsExplained == CeremonySpec => []CloneWarningExplained
<1>1. CeremonyIInv => CloneWarningExplained
  BY DEF CeremonyIInv, RequestOK, Placed, Explained, CloneWarningExplained
<1>2. QED
  BY <1>1, CeremonyInvariance, PTL

\* Who is told "registered" owns the credential and has the flag, and nobody
\* has the flag without a device, whatever the interleaving of registrations
\* and their failures.
THEOREM RegistrationBinds == CeremonySpec => []RegisteredIsBound
<1>1. CeremonyIInv => RegisteredIsBound
  BY DEF CeremonyIInv, StoreOK, RequestOK, Bound, RegisteredIsBound
<1>2. QED
  BY <1>1, CeremonyInvariance, PTL

\* No step takes back what a document says: a removed challenge does not come
\* back, a credential never changes hands, no flag is taken away, and a stored
\* count goes down only in SaveCount, which marks it (UpdateCredential sets the
\* count of the answer, whatever is stored by then).
THEOREM NothingTakenBack == CeremonySpec => [][DocumentsGrow]_CeremonyVars
<1>1. CeremonyIInv /\ [CeremonyNext]_CeremonyVars => [DocumentsGrow]_CeremonyVars
  BY CeremonyStep DEF KeepsIInv
<1>2. QED
  BY <1>1, CeremonyInvariance, PTL DEF CeremonySpec
=============================================================================
