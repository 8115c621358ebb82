-------------------------- MODULE SnortAlertsProofs --------------------------
(***************************************************************************)
(* SnortAlerts, for any sensors, addresses, channels and time limits.      *)
(*                                                                         *)
(* VisibleWhileRecent compares the one expiry of a record with the times   *)
(* its slots were stored at; it is inductive once the expiry is known to   *)
(* be that of the slot stored last (ExpiryIsLast).                         *)
(*                                                                         *)
(* StoredOnce and WaitingSpaced rest on OnceInv: an alert is in one place, *)
(* and the limiter has seen it.  OvertakenOnReconnect adds OrderInv: the   *)
(* channel and the connections are in the order of time, and no slot is    *)
(* ahead of what comes after it.                                           *)
(***************************************************************************)
EXTENDS SnortAlerts, SequenceTheorems, TLAPS

\* No slot outlives the record, and one of them ends with it; a record that
\* was never stored has no slot.
ExpiryIsLast ==
  \A ip \in Ips :
    /\ \A s \in Sensors :
         /\ cache[ip].slot[s].set <= now
         /\ Held(ip, s) => cache[ip].slot[s].set + Ttl <= cache[ip].expiry
    /\ cache[ip].expiry >= 0 =>
         \E s \in Sensors : Held(ip, s) /\ cache[ip].slot[s].set + Ttl = cache[ip].expiry

IInv == TypeOK /\ ExpiryIsLast

LEMMA CacheVisible == IInv => VisibleWhileRecent
<1> SUFFICES ASSUME IInv, NEW ip \in Ips
             PROVE  Visible(ip) <=> \E s \in Sensors : Recent(ip, s)
  BY DEF VisibleWhileRecent
<1>0. /\ now \in Nat /\ Ttl \in Nat /\ cache[ip].expiry \in Int
      /\ \A s \in Sensors : cache[ip].slot[s].set \in Int
  BY SnortAssumption DEF IInv, TypeOK, Records, Slots
<1>1. Visible(ip) => \E s \in Sensors : Recent(ip, s)
  BY <1>0 DEF IInv, ExpiryIsLast, Visible, Recent, Held
<1>2. ASSUME NEW s \in Sensors, Recent(ip, s) PROVE Visible(ip)
  BY <1>0, <1>2 DEF IInv, ExpiryIsLast, Visible, Recent, Held
<1>3. QED
  BY <1>1, <1>2

LEMMA EmptyIsEmpty ==
  /\ EmptyRecord \in Records /\ EmptyRecord.expiry = -1
  /\ \A s \in Sensors : EmptyRecord.slot[s].set = -1
  BY DEF EmptyRecord, EmptySlot, Records, Slots

\* SetAlert changes one record, and in it the expiry and one slot.
LEMMA SetAlertType ==
  ASSUME TypeOK, NEW a \in Alerts, NEW conn \in Nat, SetAlert(a, conn)
  PROVE  /\ cache' \in [Ips -> Records] /\ stored' \subseteq Alerts
         /\ cache'[a.ip].expiry = now + Ttl /\ cache'[a.ip].slot[a.sensor].set = now
         /\ cache'[a.ip].slot[a.sensor] = [at |-> a.at, conn |-> conn, set |-> now]
         /\ \A s \in Sensors \ {a.sensor} :
              cache'[a.ip].slot[s] = cache[a.ip].slot[s]
         /\ \A ip \in Ips \ {a.ip} : cache'[ip] = cache[ip]
<1> DEFINE new == [at |-> a.at, conn |-> conn, set |-> now]
           slots == [cache[a.ip].slot EXCEPT ![a.sensor] = new]
           rec == [expiry |-> now + Ttl, slot |-> slots]
<1>0. /\ now \in Nat /\ Ttl \in Nat /\ a.ip \in Ips /\ a.sensor \in Sensors
      /\ cache[a.ip] \in Records /\ cache[a.ip].slot \in [Sensors -> Slots]
      /\ a.at \in Int /\ cache \in [Ips -> Records]
  BY SnortAssumption DEF TypeOK, Alerts, Records
<1>1. new \in Slots /\ new.set = now
  BY <1>0 DEF Slots
<1> HIDE DEF new
<1>2. /\ slots \in [Sensors -> Slots] /\ slots[a.sensor] = new
      /\ \A s \in Sensors \ {a.sensor} : slots[s] = cache[a.ip].slot[s]
  BY <1>0, <1>1
<1>3. cache' = [cache EXCEPT ![a.ip] = rec]
  BY DEF SetAlert, Renewed, new
<1> HIDE DEF slots
<1>5. rec \in Records /\ rec.expiry = now + Ttl /\ rec.slot = slots
  BY <1>0, <1>2 DEF Records
<1> HIDE DEF rec
<1>7. /\ cache' \in [Ips -> Records] /\ cache'[a.ip] = rec
      /\ \A ip \in Ips \ {a.ip} : cache'[ip] = cache[ip]
  BY <1>0, <1>3, <1>5
<1>8. stored' \subseteq Alerts
  BY DEF SetAlert, TypeOK
<1>9. cache'[a.ip].slot[a.sensor] = [at |-> a.at, conn |-> conn, set |-> now]
  BY <1>2, <1>5, <1>7 DEF new
<1>10. QED
  BY <1>1, <1>2, <1>5, <1>7, <1>8, <1>9

LEMMA SetAlertKeeps ==
  ASSUME IInv, NEW a \in Alerts, NEW conn \in Nat, SetAlert(a, conn), now' = now
  PROVE  ExpiryIsLast'
<1>0. /\ now \in Nat /\ Ttl \in Nat /\ a.ip \in Ips /\ a.sensor \in Sensors
      /\ \A ip \in Ips : cache[ip].expiry \in Int
                         /\ \A s \in Sensors : cache[ip].slot[s].set \in Int
  BY SMTT(20), SnortAssumption DEF IInv, TypeOK, Alerts, Records, Slots
<1>1. /\ cache'[a.ip].expiry = now + Ttl /\ cache'[a.ip].slot[a.sensor].set = now
      /\ \A s \in Sensors \ {a.sensor} :
           cache'[a.ip].slot[s] = cache[a.ip].slot[s]
      /\ \A ip \in Ips \ {a.ip} : cache'[ip] = cache[ip]
  BY SetAlertType DEF IInv
<1>2. \A s \in Sensors : /\ cache'[a.ip].slot[s].set <= now
                         /\ cache'[a.ip].slot[s].set \in Int
  BY <1>0, <1>1 DEF IInv, ExpiryIsLast
<1>3. SUFFICES ASSUME NEW ip \in Ips
      PROVE  /\ \A s \in Sensors :
                  /\ cache'[ip].slot[s].set <= now'
                  /\ Held(ip, s)' => cache'[ip].slot[s].set + Ttl <= cache'[ip].expiry
             /\ cache'[ip].expiry >= 0 =>
                  \E s \in Sensors : /\ Held(ip, s)'
                                     /\ cache'[ip].slot[s].set + Ttl = cache'[ip].expiry
  BY DEF ExpiryIsLast
<1>4. CASE ip = a.ip
  BY <1>0, <1>1, <1>2, <1>4 DEF Held
<1>5. CASE ip # a.ip
  BY <1>1, <1>5 DEF IInv, ExpiryIsLast, Held
<1>6. QED
  BY <1>4, <1>5

-----------------------------------------------------------------------------
LEMMA OneSecond == 1 \in Backoffs
  BY SnortAssumption DEF Backoffs

LEMMA InitIInv == Init => IInv
<1> SUFFICES ASSUME Init PROVE IInv
  OBVIOUS
<1>1. TypeOK
  <2>1. sender \in [Sensors -> [pc : {"dial", "sleep", "write"}, backoff : Backoffs]]
        /\ \A s \in Sensors : sender[s].pc # "write"
    BY OneSecond DEF Init
  <2>2. queue \in [Sensors -> Seq(Alerts)] /\ flight \in [Sensors -> Seq(Seq(Alerts))]
    BY DEF Init
  <2>3. cache \in [Ips -> Records]
    BY EmptyIsEmpty DEF Init
  <2>4. allowedAt \in [Sensors -> [Ips -> Nat]]
    <3>1. [ip \in Ips |-> 0] \in [Ips -> Nat]
      OBVIOUS
    <3>2. allowedAt = [s \in Sensors |-> [ip \in Ips |-> 0]]
      BY DEF Init
    <3>3. QED
      BY <3>1, <3>2
  <2>7. broken \in [Sensors -> BOOLEAN]
    BY DEF Init
  <2>6. listening \in BOOLEAN /\ stored \subseteq Alerts
    BY DEF Init
  <2>8. now \in 0 .. MaxNow
    <3>1. now = 0
      BY DEF Init
    <3>2. QED
      BY <3>1, SnortAssumption
  <2>5. QED
    BY <2>1, <2>2, <2>3, <2>4, <2>6, <2>7, <2>8 DEF TypeOK
<1>2. ExpiryIsLast
  BY EmptyIsEmpty DEF Init, ExpiryIsLast, Held
<1>3. QED
  BY <1>1, <1>2 DEF IInv

\* A step on the connections of one sensor.
LEMMA FlightType ==
  ASSUME TypeOK, NEW s \in Sensors, NEW c \in 1 .. Len(flight[s]),
         NEW line \in Seq(Alerts), flight' = [flight EXCEPT ![s][c] = line]
  PROVE  /\ flight' \in [Sensors -> Seq(Seq(Alerts))]
         /\ \A t \in Sensors : flight[t] # <<>> => flight'[t] # <<>>
<1> DEFINE lines == [flight[s] EXCEPT ![c] = line]
<1>1. flight[s] \in Seq(Seq(Alerts))
  BY DEF TypeOK
<1>2. lines \in Seq(Seq(Alerts)) /\ Len(lines) = Len(flight[s])
  BY <1>1, ExceptSeq
<1>3. flight' = [flight EXCEPT ![s] = lines]
  OBVIOUS
<1>4. lines # <<>>
  BY <1>1, <1>2
<1> HIDE DEF lines
<1>5. QED
  BY <1>2, <1>3, <1>4 DEF TypeOK

LEMMA NextIInv == IInv /\ [Next]_vars => IInv'
<1> SUFFICES ASSUME IInv, [Next]_vars PROVE IInv'
  OBVIOUS
<1>0. /\ TypeOK /\ now \in Nat
      /\ \A s \in Sensors : /\ queue[s] \in Seq(Alerts)
                            /\ flight[s] \in Seq(Seq(Alerts))
                            /\ \A c \in 1 .. Len(flight[s]) : flight[s][c] \in Seq(Alerts)
  BY DEF IInv, TypeOK
<1>a. cache' = cache /\ now' = now => ExpiryIsLast'
  BY DEF IInv, ExpiryIsLast, Held
<1>1. ASSUME NEW s \in Sensors, NEW ip \in Ips, Alert(s, ip) PROVE IInv'
  <2> DEFINE a == [sensor |-> s, ip |-> ip, at |-> now]
  <2>1. a \in Alerts
    BY <1>0 DEF TypeOK, Alerts
  <2>2. queue' \in [Sensors -> Seq(Alerts)]
    <3>1. Append(queue[s], a) \in Seq(Alerts)
      BY <1>0, <2>1
    <3>2. queue' = queue \/ queue' = [queue EXCEPT ![s] = Append(queue[s], a)]
      BY <1>1 DEF Alert
    <3> HIDE DEF a
    <3>3. QED
      BY <1>0, <3>1, <3>2 DEF TypeOK
  <2>3. allowedAt' \in [Sensors -> [Ips -> Nat]]
    BY <1>0, <1>1, SnortAssumption DEF Alert, TypeOK
  <2>4. QED
    BY <1>a, <1>1, <2>2, <2>3 DEF Alert, IInv, TypeOK, net, store
<1>2. ASSUME NEW s \in Sensors, Dial(s) PROVE IInv'
  <2>1. Append(flight[s], <<>>) \in Seq(Seq(Alerts)) /\ Append(flight[s], <<>>) # <<>>
    BY <1>0
  <2>2. flight' \in [Sensors -> Seq(Seq(Alerts))]
        /\ \A t \in Sensors : t = s \/ flight[t] # <<>> => flight'[t] # <<>>
    BY <1>0, <1>2, <2>1 DEF Dial, TypeOK
  <2>3. QED
    BY <1>a, <1>2, <2>2, OneSecond DEF Dial, IInv, TypeOK, parser, store
<1>3. ASSUME NEW s \in Sensors, DialFails(s) \/ Wake(s) PROVE IInv'
  <2>1. \A b \in Backoffs : Doubled(b) \in Backoffs
    BY SnortAssumption DEF Doubled, Backoffs
  <2>2. sender' \in [Sensors -> [pc : {"dial", "sleep", "write"}, backoff : Backoffs]]
        /\ \A t \in Sensors : sender'[t].pc = "write" => sender[t].pc = "write"
    <3>1. CASE DialFails(s)
      BY <1>0, <3>1 DEF DialFails, TypeOK
    <3>2. CASE Wake(s)
      <4> DEFINE r == [pc |-> "dial", backoff |-> Doubled(sender[s].backoff)]
      <4>1. r \in [pc : {"dial", "sleep", "write"}, backoff : Backoffs] /\ r.pc = "dial"
        BY <1>0, <2>1 DEF TypeOK
      <4>2. sender' = [sender EXCEPT ![s] = r]
        BY <3>2 DEF Wake
      <4> HIDE DEF r
      <4>3. QED
        BY <1>0, <4>1, <4>2 DEF TypeOK
    <3>3. QED
      BY <1>3, <3>1, <3>2
  <2>3. QED
    BY <1>a, <1>3, <2>2 DEF DialFails, Wake, IInv, TypeOK, parser, net, store
<1>4. ASSUME NEW s \in Sensors, Write(s) PROVE IInv'
  <2>1. flight[s] # <<>> /\ Len(flight[s]) \in 1 .. Len(flight[s])
        /\ Tail(queue[s]) \in Seq(Alerts) /\ Head(queue[s]) \in Alerts
    BY <1>0, <1>4 DEF Write, TypeOK
  <2>2. queue' \in [Sensors -> Seq(Alerts)]
    BY <1>4, <2>1 DEF Write, IInv, TypeOK
  <2>3. /\ sender' \in [Sensors -> [pc : {"dial", "sleep", "write"}, backoff : Backoffs]]
        /\ \A t \in Sensors : sender'[t].pc = "write" => sender[t].pc = "write"
    BY <1>4 DEF Write, IInv, TypeOK
  <2>4. /\ flight' \in [Sensors -> Seq(Seq(Alerts))]
        /\ \A t \in Sensors : flight[t] # <<>> => flight'[t] # <<>>
    <3> DEFINE line == Append(flight[s][Len(flight[s])], Head(queue[s]))
    <3>1. line \in Seq(Alerts)
      BY <1>0, <2>1
    <3>2. flight' = flight \/ flight' = [flight EXCEPT ![s][Len(flight[s])] = line]
      BY <1>4 DEF Write
    <3> HIDE DEF line
    <3>3. QED
      BY <1>0, <2>1, <3>1, <3>2, FlightType DEF TypeOK
  <2>5. QED
    BY <1>a, <1>4, <2>2, <2>3, <2>4 DEF Write, IInv, TypeOK, store
<1>5. ASSUME NEW s \in Sensors, NEW c \in 1 .. Len(flight[s]), HandleConn(s, c)
      PROVE  IInv'
  <2>1. Head(flight[s][c]) \in Alerts /\ Tail(flight[s][c]) \in Seq(Alerts) /\ c \in Nat
    BY <1>0, <1>5 DEF HandleConn
  <2>2. /\ flight' \in [Sensors -> Seq(Seq(Alerts))]
        /\ \A t \in Sensors : flight[t] # <<>> => flight'[t] # <<>>
    BY <1>0, <1>5, <2>1, FlightType DEF HandleConn
  <2>3. cache' \in [Ips -> Records] /\ stored' \subseteq Alerts
    BY <1>0, <1>5, <2>1, SetAlertType DEF HandleConn
  <2>4. ExpiryIsLast'
    BY <1>5, <2>1, SetAlertKeeps DEF HandleConn
  <2>5. QED
    BY <1>5, <2>2, <2>3, <2>4 DEF HandleConn, IInv, TypeOK, parser
<1>6. ASSUME NEW s \in Sensors, NEW c \in 1 .. Len(flight[s]), Break(s, c)
      PROVE  IInv'
  <2>1. PICK n \in 0 .. Len(flight[s][c]) :
          flight' = [flight EXCEPT ![s][c] = SubSeq(flight[s][c], 1, n)]
    BY <1>6 DEF Break
  <2>2. SubSeq(flight[s][c], 1, n) \in Seq(Alerts)
    BY <1>0, SubSeqProperties
  <2>3. /\ flight' \in [Sensors -> Seq(Seq(Alerts))]
        /\ \A t \in Sensors : flight[t] # <<>> => flight'[t] # <<>>
    BY <1>0, <2>1, <2>2, FlightType
  <2>4. broken' \in [Sensors -> BOOLEAN]
    BY <1>6 DEF Break, IInv, TypeOK
  <2>5. QED
    BY <1>a, <1>6, <2>3, <2>4 DEF Break, IInv, TypeOK, parser, store
<1>7. CASE StopOrchestrator
  <2>1. ASSUME NEW s \in Sensors
        PROVE  /\ [c \in 1 .. Len(flight[s]) |-> <<>>] \in Seq(Seq(Alerts))
               /\ flight[s] # <<>> => [c \in 1 .. Len(flight[s]) |-> <<>>] # <<>>
    BY <1>0
  <2>2. /\ flight' \in [Sensors -> Seq(Seq(Alerts))]
        /\ \A t \in Sensors : flight[t] # <<>> => flight'[t] # <<>>
    BY <1>7, <2>1 DEF StopOrchestrator
  <2>3. TypeOK'
    BY <1>7, <2>2, EmptyIsEmpty DEF StopOrchestrator, IInv, TypeOK, parser
  <2>4. ExpiryIsLast'
    BY <1>0, <1>7, EmptyIsEmpty DEF StopOrchestrator, ExpiryIsLast, Held
  <2>5. QED
    BY <2>3, <2>4 DEF IInv
<1>8. CASE StartOrchestrator \/ UNCHANGED vars
  BY <1>a, <1>8 DEF StartOrchestrator, vars, IInv, TypeOK, parser, net, store
<1>9. CASE Tick
  <2>1. TypeOK'
    BY <1>9, SnortAssumption DEF Tick, IInv, TypeOK, parser, net, store
  <2>2. ExpiryIsLast'
    <3>1. \A ip \in Ips, s \in Sensors : cache[ip].slot[s].set \in Int
      BY <1>0 DEF TypeOK, Records, Slots
    <3>2. QED
      BY <1>0, <1>9, <3>1 DEF Tick, IInv, ExpiryIsLast, Held, store
  <2>3. QED
    BY <2>1, <2>2 DEF IInv
<1>10. QED
  BY <1>1, <1>2, <1>3, <1>4, <1>5, <1>6, <1>7, <1>8, <1>9 DEF Next, Deliver

-----------------------------------------------------------------------------
\* The types of the channels, connections and records.
THEOREM TypeCorrect == Spec => []TypeOK
<1>1. IInv => TypeOK
  BY DEF IInv
<1>2. QED
  BY <1>1, InitIInv, NextIInv, PTL DEF Spec

\* An address has alerts exactly while one was stored within the TTL, however
\* many sensors store alerts under its one expiry.
THEOREM AlertsVisible == Spec => []VisibleWhileRecent
<1>1. IInv => VisibleWhileRecent
  BY CacheVisible
<1>2. QED
  BY <1>1, InitIInv, NextIInv, PTL DEF Spec

-----------------------------------------------------------------------------
(* Delivered once: pieces of sequences *)

\* new is what is left of old after something was cut off at its ends.
Piece(new, old) ==
  \E k \in Nat : \A i \in DOMAIN new : i + k \in DOMAIN old /\ new[i] = old[i + k]

Pieces(new, old) ==
  \A c \in DOMAIN new : new[c] = <<>> \/ (c \in DOMAIN old /\ Piece(new[c], old[c]))

NoneTwice(q) == \A i, j \in DOMAIN q : q[i] = q[j] => i = j

NoneTwiceOn(f) ==
  \A c, d \in DOMAIN f : \A i \in DOMAIN f[c], j \in DOMAIN f[d] :
    f[c][i] = f[d][j] => c = d /\ i = j

Apart(q, f) ==
  \A i \in DOMAIN q, c \in DOMAIN f : \A j \in DOMAIN f[c] : f[c][j] # q[i]

In(q) == {q[i] : i \in DOMAIN q}
On(f) == UNION {In(f[c]) : c \in DOMAIN f}

LEMMA PieceKeeps ==
  ASSUME NEW S, NEW q \in Seq(S), NEW p \in Seq(S), Piece(p, q), NoneTwice(q)
  PROVE  NoneTwice(p) /\ In(p) \subseteq In(q)
<1>1. PICK k \in Nat : \A i \in DOMAIN p : i + k \in DOMAIN q /\ p[i] = q[i + k]
  BY DEF Piece
<1>2. DOMAIN p = 1 .. Len(p)
  OBVIOUS
<1>3. NoneTwice(p)
  BY <1>1, <1>2 DEF NoneTwice
<1>4. In(p) \subseteq In(q)
  BY <1>1 DEF In
<1>5. QED
  BY <1>3, <1>4

LEMMA PiecesKeep ==
  ASSUME NEW S, NEW f \in Seq(Seq(S)), NEW g \in Seq(Seq(S)), Pieces(g, f),
         NoneTwiceOn(f)
  PROVE  NoneTwiceOn(g) /\ On(g) \subseteq On(f)
<1>1. ASSUME NEW c \in DOMAIN g, g[c] # <<>>
      PROVE  c \in DOMAIN f /\ Piece(g[c], f[c])
  BY <1>1 DEF Pieces
<1>2. ASSUME NEW c \in DOMAIN g, NEW i \in DOMAIN g[c]
      PROVE  g[c] # <<>> /\ g[c] \in Seq(S) /\ DOMAIN g[c] = 1 .. Len(g[c])
  BY <1>2
<1>3. NoneTwiceOn(g)
  <2> SUFFICES ASSUME NEW c \in DOMAIN g, NEW d \in DOMAIN g,
                      NEW i \in DOMAIN g[c], NEW j \in DOMAIN g[d],
                      g[c][i] = g[d][j]
               PROVE  c = d /\ i = j
    BY DEF NoneTwiceOn
  <2>1. PICK k \in Nat : \A n \in DOMAIN g[c] :
          n + k \in DOMAIN f[c] /\ g[c][n] = f[c][n + k]
    BY <1>1, <1>2 DEF Piece
  <2>2. PICK m \in Nat : \A n \in DOMAIN g[d] :
          n + m \in DOMAIN f[d] /\ g[d][n] = f[d][n + m]
    BY <1>1, <1>2 DEF Piece
  <2>3. f[c][i + k] = f[d][j + m] /\ i + k \in DOMAIN f[c] /\ j + m \in DOMAIN f[d]
        /\ c \in DOMAIN f /\ d \in DOMAIN f
    BY <1>1, <1>2, <2>1, <2>2
  <2>4. c = d /\ i + k = j + m
    BY <2>3 DEF NoneTwiceOn
  <2>5. f[c][i + k] = f[c][i + m] /\ i + m \in DOMAIN f[c]
    BY <2>1, <2>2, <2>3, <2>4
  <2>6. i + k = i + m
    BY <2>3, <2>5 DEF NoneTwiceOn
  <2>7. i \in Nat /\ j \in Nat
    BY <1>2
  <2>8. QED
    BY <2>4, <2>6, <2>7
<1>4. On(g) \subseteq On(f)
  <2> SUFFICES ASSUME NEW c \in DOMAIN g, NEW i \in DOMAIN g[c]
               PROVE  g[c][i] \in On(f)
    BY DEF On, In
  <2>1. PICK k \in Nat : \A n \in DOMAIN g[c] :
          n + k \in DOMAIN f[c] /\ g[c][n] = f[c][n + k]
    BY <1>1, <1>2 DEF Piece
  <2>2. QED
    BY <1>1, <1>2, <2>1 DEF On, In
<1>5. QED
  BY <1>3, <1>4

\* Apart says that what is in the channel is not on a connection.
LEMMA ApartMeans ==
  ASSUME NEW q, NEW f
  PROVE  Apart(q, f) <=> In(q) \cap On(f) = {}
BY DEF Apart, In, On

LEMMA SamePiece ==
  ASSUME NEW S, NEW q \in Seq(S) PROVE Piece(q, q)
<1>1. \A i \in DOMAIN q : i + 0 \in DOMAIN q /\ q[i] = q[i + 0]
  OBVIOUS
<1>2. QED
  BY <1>1 DEF Piece

LEMMA TailPiece ==
  ASSUME NEW S, NEW q \in Seq(S), q # <<>>
  PROVE  /\ Piece(Tail(q), q)
         /\ NoneTwice(q) => Head(q) \notin In(Tail(q))
<1>1. \A i \in DOMAIN Tail(q) : i + 1 \in DOMAIN q /\ Tail(q)[i] = q[i + 1] /\ i \in 1 .. Len(Tail(q))
  OBVIOUS
<1>2. Piece(Tail(q), q)
  BY <1>1 DEF Piece
<1>3. Head(q) = q[1] /\ 1 \in DOMAIN q
  OBVIOUS
<1>4. NoneTwice(q) => Head(q) \notin In(Tail(q))
  BY <1>1, <1>3 DEF NoneTwice, In
<1>5. QED
  BY <1>2, <1>4

LEMMA PrefixPiece ==
  ASSUME NEW S, NEW q \in Seq(S), NEW n \in 0 .. Len(q)
  PROVE  Piece(SubSeq(q, 1, n), q)
<1>1. \A i \in DOMAIN SubSeq(q, 1, n) :
        i + 0 \in DOMAIN q /\ SubSeq(q, 1, n)[i] = q[i + 0]
  BY SubSeqProperties
<1>2. QED
  BY <1>1 DEF Piece

-----------------------------------------------------------------------------
(* Delivered once: the invariant *)

\* No alert is in two places.
Once(s) == /\ NoneTwice(queue[s]) /\ NoneTwiceOn(flight[s])
           /\ Apart(queue[s], flight[s]) /\ Waiting(s) \cap stored = {}

\* The limiter has seen what waits and what was stored.
Limited(s) ==
  \A a \in Waiting(s) \cup {b \in stored : b.sensor = s} :
    a.sensor = s /\ a.at + Interval <= allowedAt[s][a.ip]

Spaced(s) ==
  \A a, b \in Waiting(s) : a.ip = b.ip /\ a.at < b.at => a.at + Interval <= b.at

OnceInv == \A s \in Sensors : Once(s) /\ Limited(s) /\ Spaced(s)

LEMMA WaitingIs ==
  ASSUME NEW s \in Sensors
  PROVE  /\ Waiting(s) = In(queue[s]) \cup On(flight[s])
         /\ Waiting(s)' = In(queue'[s]) \cup On(flight'[s])
BY DEF Waiting, In, On

\* What waits on s becomes less, and what is stored has waited, if it is of s.
LEMMA Lessens ==
  ASSUME TypeOK, TypeOK', NEW s \in Sensors, Once(s), Limited(s), Spaced(s),
         Piece(queue'[s], queue[s]), Pieces(flight'[s], flight[s]),
         allowedAt'[s] = allowedAt[s],
         \A b \in stored' \ stored :
           b \notin Waiting(s)' /\ (b.sensor = s => b \in Waiting(s))
  PROVE  Once(s)' /\ Limited(s)' /\ Spaced(s)'
<1>1. /\ queue[s] \in Seq(Alerts) /\ queue'[s] \in Seq(Alerts)
      /\ flight[s] \in Seq(Seq(Alerts)) /\ flight'[s] \in Seq(Seq(Alerts))
  BY DEF TypeOK
<1>2. /\ NoneTwice(queue'[s]) /\ In(queue'[s]) \subseteq In(queue[s])
      /\ NoneTwiceOn(flight'[s]) /\ On(flight'[s]) \subseteq On(flight[s])
  BY <1>1, PieceKeeps, PiecesKeep DEF Once
<1>3. Apart(queue'[s], flight'[s])
  BY <1>2, ApartMeans DEF Once
<1>4. Waiting(s)' \subseteq Waiting(s)
  BY <1>2, WaitingIs
<1>5. Once(s)'
  BY <1>2, <1>3, <1>4 DEF Once
<1>6. Limited(s)'
  BY <1>4 DEF Limited
<1>7. Spaced(s)'
  BY <1>4 DEF Spaced
<1>8. QED
  BY <1>5, <1>6, <1>7

LEMMA SamePieces ==
  ASSUME NEW f \in Seq(Seq(Alerts))
  PROVE  Pieces(f, f)
<1>1. \A c \in DOMAIN f : f[c] \in Seq(Alerts)
  OBVIOUS
<1>2. QED
  BY <1>1, SamePiece DEF Pieces

\* One line of a sensor becomes a piece of itself.
LEMMA OneLinePieces ==
  ASSUME NEW f \in Seq(Seq(Alerts)), NEW c \in DOMAIN f, NEW line,
         Piece(line, f[c])
  PROVE  Pieces([f EXCEPT ![c] = line], f)
<1>1. \A d \in DOMAIN f : f[d] \in Seq(Alerts)
  OBVIOUS
<1>2. QED
  BY <1>1, SamePiece DEF Pieces

LEMMA Untouched ==
  ASSUME TypeOK, TypeOK', NEW s \in Sensors, Once(s), Limited(s), Spaced(s),
         queue'[s] = queue[s], flight'[s] = flight[s],
         allowedAt'[s] = allowedAt[s],
         \A b \in stored' \ stored : b.sensor # s
  PROVE  Once(s)' /\ Limited(s)' /\ Spaced(s)'
<1>1. queue[s] \in Seq(Alerts) /\ flight[s] \in Seq(Seq(Alerts))
  BY DEF TypeOK
<1>2. Waiting(s)' = Waiting(s)
  BY WaitingIs
<1>3. \A b \in Waiting(s) : b.sensor = s
  BY DEF Limited
<1>4. QED
  BY <1>1, <1>2, <1>3, SamePiece, SamePieces, Lessens

\* A new alert is later than all that were let through for its address.
LEMMA AlertOnce ==
  ASSUME TypeOK, TypeOK', NEW s \in Sensors, NEW ip \in Ips, Alert(s, ip),
         Once(s), Limited(s), Spaced(s)
  PROVE  Once(s)' /\ Limited(s)' /\ Spaced(s)'
<1> DEFINE a == [sensor |-> s, ip |-> ip, at |-> now]
<1>1. /\ now \in Nat /\ Interval \in Nat \ {0}
      /\ queue[s] \in Seq(Alerts) /\ flight[s] \in Seq(Seq(Alerts))
      /\ stored \subseteq Alerts
      /\ \A q \in Ips : allowedAt[s][q] \in Nat
  BY SnortAssumption DEF TypeOK
<1>2. /\ allowedAt[s][ip] <= now /\ allowedAt'[s][ip] = now + Interval
      /\ \A q \in Ips \ {ip} : allowedAt'[s][q] = allowedAt[s][q]
      /\ flight' = flight /\ stored' = stored
      /\ queue' = queue \/ queue' = [queue EXCEPT ![s] = Append(queue[s], a)]
  BY DEF Alert, Allowed, TypeOK, net, store
<1>3. a \in Alerts /\ a.sensor = s /\ a.ip = ip /\ a.at = now
  BY DEF TypeOK, Alerts
<1> HIDE DEF a
<1>4. Waiting(s) \subseteq Alerts
  BY <1>1, WaitingIs DEF In, On
<1>5. \A b \in Alerts : b.ip \in Ips /\ b.at \in Nat
  BY DEF Alerts
<1>6. \A b \in Waiting(s) \cup {c \in stored : c.sensor = s} :
        b.ip = ip => b.at < now /\ b.at + Interval <= now
  BY <1>1, <1>2, <1>4, <1>5 DEF Limited
<1>7. a \notin Waiting(s) \cup stored
  BY <1>1, <1>3, <1>6
<1>8. CASE queue' = queue
  <2>1. Waiting(s)' = Waiting(s)
    BY <1>2, <1>8, WaitingIs
  <2>2. Limited(s)'
    BY <1>1, <1>2, <1>4, <1>5, <1>6, <2>1 DEF Limited
  <2>3. Once(s)' /\ Spaced(s)'
    BY <1>2, <1>8, <2>1 DEF Once, Spaced
  <2>4. QED
    BY <2>2, <2>3
<1>9. CASE queue' = [queue EXCEPT ![s] = Append(queue[s], a)]
  <2>1. queue'[s] = Append(queue[s], a)
    BY <1>9 DEF TypeOK
  <2>2. /\ DOMAIN queue'[s] = DOMAIN queue[s] \cup {Len(queue[s]) + 1}
        /\ queue'[s][Len(queue[s]) + 1] = a
        /\ \A i \in DOMAIN queue[s] : queue'[s][i] = queue[s][i]
    BY <1>1, <1>3, <2>1
  <2>3. In(queue'[s]) = In(queue[s]) \cup {a}
    BY <2>2 DEF In
  <2>4. Waiting(s)' = Waiting(s) \cup {a}
    BY <1>2, <2>3, WaitingIs
  <2>5. NoneTwice(queue'[s])
    BY <1>7, <2>2, WaitingIs DEF Once, NoneTwice, In
  <2>6. Apart(queue'[s], flight'[s])
    BY <1>2, <1>7, <2>3, ApartMeans, WaitingIs DEF Once
  <2>7. Once(s)'
    BY <1>2, <1>7, <2>4, <2>5, <2>6 DEF Once
  <2>8. Limited(s)'
    <3> SUFFICES ASSUME NEW b \in Waiting(s)' \cup {c \in stored' : c.sensor = s}
                 PROVE  b.sensor = s /\ b.at + Interval <= allowedAt'[s][b.ip]
      BY DEF Limited
    <3>1. CASE b = a
      BY <1>1, <1>2, <1>3, <3>1
    <3>2. CASE b # a
      <4>1. b \in Waiting(s) \cup {c \in stored : c.sensor = s} /\ b \in Alerts
        BY <1>1, <1>2, <1>4, <2>4, <3>2
      <4>2. b.sensor = s /\ b.at + Interval <= allowedAt[s][b.ip]
        BY <4>1 DEF Limited
      <4>3. CASE b.ip = ip
        BY <1>1, <1>2, <1>5, <1>6, <4>1, <4>2, <4>3
      <4>4. CASE b.ip # ip
        BY <1>2, <1>5, <4>1, <4>2, <4>4
      <4>5. QED
        BY <4>3, <4>4
    <3>3. QED
      BY <3>1, <3>2
  <2>9. Spaced(s)'
    BY <1>1, <1>3, <1>4, <1>5, <1>6, <2>4 DEF Spaced
  <2>10. QED
    BY <2>7, <2>8, <2>9
<1>10. QED
  BY <1>2, <1>8, <1>9

\* An alert leaves the channel for the connection in use, or is lost.
LEMMA WriteOnce ==
  ASSUME TypeOK, TypeOK', NEW s \in Sensors, Write(s),
         Once(s), Limited(s), Spaced(s)
  PROVE  Once(s)' /\ Limited(s)' /\ Spaced(s)'
<1> DEFINE q == queue[s]
           f == flight[s]
           n == Len(f)
           h == Head(q)
<1>1. /\ q \in Seq(Alerts) /\ f \in Seq(Seq(Alerts)) /\ q # <<>> /\ f # <<>>
      /\ n \in DOMAIN f /\ f[n] \in Seq(Alerts) /\ queue'[s] = Tail(q)
      /\ flight'[s] = f \/ flight'[s] = [f EXCEPT ![n] = Append(f[n], h)]
      /\ allowedAt' = allowedAt /\ stored' = stored
  BY DEF Write, TypeOK, store
<1>2. Piece(Tail(q), q) /\ h \notin In(Tail(q)) /\ h \in In(q) /\ h \in Alerts
  BY <1>1, TailPiece DEF Once, In
<1>3. CASE flight'[s] = f
  BY <1>1, <1>2, <1>3, SamePieces, Lessens
<1>4. CASE flight'[s] = [f EXCEPT ![n] = Append(f[n], h)]
  <2> DEFINE g == flight'[s]
  <2>1. NoneTwice(Tail(q)) /\ In(Tail(q)) \subseteq In(q)
    <3>1. Tail(q) \in Seq(Alerts) /\ NoneTwice(q)
      BY <1>1 DEF Once
    <3>2. QED
      BY <1>1, <1>2, <3>1, PieceKeeps
  <2>2. h \notin On(f) /\ h \notin stored
    BY <1>2, ApartMeans, WaitingIs DEF Once
  <2>3. /\ DOMAIN g = DOMAIN f /\ \A c \in DOMAIN f \ {n} : g[c] = f[c]
        /\ g[n] = Append(f[n], h)
    BY <1>1, <1>4
  <2>4. /\ DOMAIN g[n] = DOMAIN f[n] \cup {Len(f[n]) + 1}
        /\ Len(f[n]) + 1 \notin DOMAIN f[n]
        /\ g[n][Len(f[n]) + 1] = h
        /\ \A i \in DOMAIN f[n] : g[n][i] = f[n][i]
    BY <1>1, <1>2, <2>3
  <2> HIDE DEF g, f, q, n, h
  <2>5. On(g) = On(f) \cup {h}
    <3>1. In(g[n]) = In(f[n]) \cup {h}
      BY <2>4 DEF In
    <3>2. n \in DOMAIN f /\ DOMAIN g = DOMAIN f
      BY <1>1, <2>3
    <3>3. \A c \in DOMAIN f : c # n => In(g[c]) = In(f[c])
      BY <2>3
    <3>4. On(g) \subseteq On(f) \cup {h}
      BY <3>1, <3>2, <3>3 DEF On
    <3>5. On(f) \cup {h} \subseteq On(g)
      BY <3>1, <3>2, <3>3 DEF On
    <3>6. QED
      BY <3>4, <3>5
  <2>6. NoneTwiceOn(g)
    <3>1. ASSUME NEW c \in DOMAIN g, NEW i \in DOMAIN g[c]
          PROVE  \/ c = n /\ i = Len(f[n]) + 1 /\ g[c][i] = h
                 \/ i \in DOMAIN f[c] /\ c \in DOMAIN f /\ g[c][i] = f[c][i]
                    /\ g[c][i] # h
      BY <2>2, <2>3, <2>4 DEF On, In
    <3>2. NoneTwiceOn(f)
      BY DEF Once, f
    <3>3. QED
      BY <3>1, <3>2 DEF NoneTwiceOn
  <2>7. Apart(Tail(q), g)
    <3>1. In(q) \cap On(f) = {}
      BY ApartMeans DEF Once, q, f
    <3>2. QED
      BY <1>2, <2>1, <2>5, <3>1, ApartMeans
  <2>8. Waiting(s)' \subseteq Waiting(s)
    BY <1>1, <1>2, <2>1, <2>5, WaitingIs DEF g, f, q
  <2>9. Once(s)'
    BY <1>1, <2>1, <2>6, <2>7, <2>8 DEF Once, g
  <2>10. Limited(s)' /\ Spaced(s)'
    BY <1>1, <2>8 DEF Limited, Spaced
  <2>11. QED
    BY <2>9, <2>10
<1>5. QED
  BY <1>1, <1>3, <1>4

\* The first alert of a line is stored, and is nowhere else.
LEMMA HandleOnce ==
  ASSUME TypeOK, TypeOK', NEW s \in Sensors, NEW c \in 1 .. Len(flight[s]),
         HandleConn(s, c), OnceInv
  PROVE  OnceInv'
<1> DEFINE f == flight[s]
           h == Head(f[c])
<1>1. /\ f \in Seq(Seq(Alerts)) /\ c \in DOMAIN f /\ f[c] \in Seq(Alerts)
      /\ f[c] # <<>> /\ queue' = queue /\ allowedAt' = allowedAt
      /\ flight'[s] = [f EXCEPT ![c] = Tail(f[c])]
      /\ \A t \in Sensors \ {s} : flight'[t] = flight[t]
      /\ stored' = stored \cup {h}
  BY SMTT(20) DEF HandleConn, SetAlert, TypeOK, parser
<1>2. Once(s) /\ Limited(s) /\ Spaced(s)
  BY DEF OnceInv
<1>3. h = f[c][1] /\ 1 \in DOMAIN f[c] /\ h \in On(f) /\ h \in Waiting(s)
  <2>1. h = f[c][1] /\ 1 \in DOMAIN f[c]
    BY <1>1
  <2>2. QED
    BY <1>1, <2>1, WaitingIs DEF On, In
<1>4. h.sensor = s
  BY <1>2, <1>3 DEF Limited
<1>5. h \notin Waiting(s)'
  <2>1. h \notin In(queue'[s])
    BY <1>1, <1>2, <1>3, ApartMeans DEF Once
  <2>2. ASSUME NEW d \in DOMAIN flight'[s], NEW i \in DOMAIN flight'[s][d]
        PROVE  flight'[s][d][i] # h
    <3>1. CASE d = c
      <4>1. /\ flight'[s][c] = Tail(f[c]) /\ i \in Nat \ {0}
            /\ i + 1 \in DOMAIN f[c] /\ flight'[s][c][i] = f[c][i + 1]
        BY <1>1, <2>2, <3>1
      <4>2. \A j \in DOMAIN f[c] : f[c][j] = f[c][1] => j = 1
        BY <1>1, <1>2, <1>3 DEF Once, NoneTwiceOn
      <4>3. f[c][i + 1] # f[c][1]
        BY <4>1, <4>2
      <4>4. QED
        BY <1>3, <3>1, <4>1, <4>3
    <3>2. CASE d # c
      <4>1. d \in DOMAIN f /\ flight'[s][d] = f[d]
        BY <1>1, <2>2, <3>2
      <4>2. QED
        BY <1>1, <1>2, <1>3, <2>2, <3>2, <4>1 DEF Once, NoneTwiceOn
    <3>3. QED
      BY <3>1, <3>2
  <2>3. QED
    BY <2>1, <2>2, WaitingIs DEF On, In
<1>6. Once(s)' /\ Limited(s)' /\ Spaced(s)'
  <2>1. Piece(Tail(f[c]), f[c])
    BY <1>1, TailPiece
  <2>2. Pieces(flight'[s], flight[s])
    <3>1. Pieces([f EXCEPT ![c] = Tail(f[c])], f)
      BY <1>1, <2>1, OneLinePieces
    <3>2. QED
      BY <1>1, <3>1
  <2>3. Piece(queue'[s], queue[s])
    BY <1>1, SamePiece DEF TypeOK
  <2>4. \A b \in stored' \ stored :
          b \notin Waiting(s)' /\ (b.sensor = s => b \in Waiting(s))
    BY <1>1, <1>3, <1>5
  <2>5. QED
    BY <1>1, <1>2, <2>2, <2>3, <2>4, Lessens
<1>7. ASSUME NEW t \in Sensors \ {s}
      PROVE  Once(t)' /\ Limited(t)' /\ Spaced(t)'
  <2>1. Once(t) /\ Limited(t) /\ Spaced(t)
    BY DEF OnceInv
  <2>2. \A b \in stored' \ stored : b.sensor # t
    BY <1>1, <1>4
  <2>3. queue'[t] = queue[t] /\ flight'[t] = flight[t] /\ allowedAt'[t] = allowedAt[t]
    BY <1>1
  <2>4. QED
    BY <2>1, <2>2, <2>3, Untouched
<1>8. QED
  BY <1>6, <1>7 DEF OnceInv

LEMMA NextOnce ==
  ASSUME IInv, OnceInv, [Next]_vars
  PROVE  OnceInv'
<1>0. TypeOK /\ TypeOK'
  BY NextIInv DEF IInv
<1>a. /\ \A s \in Sensors : queue[s] \in Seq(Alerts) /\ flight[s] \in Seq(Seq(Alerts))
      /\ \A s \in Sensors : Piece(queue[s], queue[s]) /\ Pieces(flight[s], flight[s])
  BY <1>0, SamePiece, SamePieces DEF TypeOK
<1>b. ASSUME queue' = queue, allowedAt' = allowedAt, stored' = stored,
             \A s \in Sensors : Pieces(flight'[s], flight[s])
      PROVE  OnceInv'
  BY <1>0, <1>a, <1>b, Lessens DEF OnceInv
<1>1. ASSUME NEW s \in Sensors, NEW ip \in Ips, Alert(s, ip) PROVE OnceInv'
  <2>1. Once(s)' /\ Limited(s)' /\ Spaced(s)'
    BY <1>0, <1>1, AlertOnce DEF OnceInv
  <2>2. ASSUME NEW t \in Sensors \ {s} PROVE Once(t)' /\ Limited(t)' /\ Spaced(t)'
    <3>1. /\ queue'[t] = queue[t] /\ flight'[t] = flight[t]
          /\ allowedAt'[t] = allowedAt[t] /\ stored' = stored
      BY <1>0, <1>1 DEF Alert, TypeOK, net, store
    <3>2. QED
      BY <1>0, <3>1, Untouched DEF OnceInv
  <2>3. QED
    BY <2>1, <2>2 DEF OnceInv
<1>2. ASSUME NEW s \in Sensors, Dial(s) PROVE OnceInv'
  <2>1. flight'[s] = Append(flight[s], <<>>)
        /\ \A t \in Sensors \ {s} : flight'[t] = flight[t]
    BY <1>0, <1>2 DEF Dial, TypeOK
  <2>2. \A c \in DOMAIN flight'[s] :
          flight'[s][c] = <<>> \/ (c \in DOMAIN flight[s] /\ flight'[s][c] = flight[s][c])
    BY <1>a, <2>1
  <2>3. Pieces(flight'[s], flight[s])
    BY <1>a, <2>2 DEF Pieces
  <2>4. QED
    BY <1>a, <1>b, <1>2, <2>1, <2>3 DEF Dial, parser, store
<1>3. ASSUME NEW s \in Sensors, Write(s) PROVE OnceInv'
  <2>1. Once(s)' /\ Limited(s)' /\ Spaced(s)'
    BY <1>0, <1>3, WriteOnce DEF OnceInv
  <2>2. ASSUME NEW t \in Sensors \ {s} PROVE Once(t)' /\ Limited(t)' /\ Spaced(t)'
    <3>1. /\ queue'[t] = queue[t] /\ flight'[t] = flight[t]
          /\ allowedAt'[t] = allowedAt[t] /\ stored' = stored
      BY <1>0, <1>3 DEF Write, TypeOK, store
    <3>2. QED
      BY <1>0, <3>1, Untouched DEF OnceInv
  <2>3. QED
    BY <2>1, <2>2 DEF OnceInv
<1>4. ASSUME NEW s \in Sensors, NEW c \in 1 .. Len(flight[s]), HandleConn(s, c)
      PROVE  OnceInv'
  BY <1>0, <1>4, HandleOnce
<1>5. ASSUME NEW s \in Sensors, NEW c \in 1 .. Len(flight[s]), Break(s, c)
      PROVE  OnceInv'
  <2>1. PICK n \in 0 .. Len(flight[s][c]) :
          flight' = [flight EXCEPT ![s][c] = SubSeq(flight[s][c], 1, n)]
    BY <1>5 DEF Break
  <2>2. c \in DOMAIN flight[s] /\ flight[s][c] \in Seq(Alerts)
    BY <1>a
  <2>3. Piece(SubSeq(flight[s][c], 1, n), flight[s][c])
    BY <2>2, PrefixPiece
  <2>4. /\ flight'[s] = [flight[s] EXCEPT ![c] = SubSeq(flight[s][c], 1, n)]
        /\ \A t \in Sensors \ {s} : flight'[t] = flight[t]
    BY <1>0, <2>1 DEF TypeOK
  <2>5. Pieces(flight'[s], flight[s])
    <3>1. Pieces([flight[s] EXCEPT ![c] = SubSeq(flight[s][c], 1, n)], flight[s])
      BY <1>a, <2>2, <2>3, OneLinePieces
    <3>2. QED
      BY <2>4, <3>1
  <2>6. QED
    BY <1>a, <1>b, <1>5, <2>4, <2>5 DEF Break, parser, store
<1>6. CASE StopOrchestrator
  <2>1. \A s \in Sensors : \A c \in DOMAIN flight'[s] : flight'[s][c] = <<>>
    BY <1>6 DEF StopOrchestrator
  <2>2. QED
    BY <1>b, <1>6, <2>1 DEF StopOrchestrator, Pieces, parser
<1>7. CASE \/ \E s \in Sensors : DialFails(s) \/ Wake(s)
           \/ StartOrchestrator \/ Tick \/ UNCHANGED vars
  BY <1>a, <1>b, <1>7
     DEF DialFails, Wake, StartOrchestrator, Tick, vars, parser, net, store
<1>8. QED
  BY <1>1, <1>2, <1>3, <1>4, <1>5, <1>6, <1>7 DEF Next, Deliver

LEMMA InitOnce == Init => OnceInv
<1> SUFFICES ASSUME Init, NEW s \in Sensors
             PROVE  Once(s) /\ Limited(s) /\ Spaced(s)
  BY DEF OnceInv
<1>1. queue[s] = <<>> /\ flight[s] = <<>> /\ stored = {}
  BY DEF Init
<1>2. Waiting(s) = {}
  BY <1>1, WaitingIs DEF In, On
<1>3. QED
  BY <1>1, <1>2 DEF Once, Limited, Spaced, NoneTwice, NoneTwiceOn, Apart

LEMMA AlwaysOnce == Spec => []OnceInv
<1>1. IInv /\ OnceInv /\ [Next]_vars => OnceInv'
  BY NextOnce
<1>2. QED
  BY <1>1, InitIInv, NextIInv, InitOnce, PTL DEF Spec

\* No alert is stored twice, whatever breaks while it is under way: it is in
\* one place at a time, and none of them is behind it.
THEOREM DeliveredOnce == Spec => []StoredOnce
<1>1. OnceInv => StoredOnce
  BY DEF OnceInv, Once, Apart, StoredOnce
<1>2. QED
  BY <1>1, AlwaysOnce, PTL

\* However long an outage lasts, what waits for its end was raised at least
\* rateInterval apart for each address.
THEOREM RateKept == Spec => []WaitingSpaced
<1>1. OnceInv => WaitingSpaced
  BY DEF OnceInv, Spaced, WaitingSpaced
<1>2. QED
  BY <1>1, AlwaysOnce, PTL

-----------------------------------------------------------------------------
(* Order *)

Earlier(a, b) == a.ip = b.ip => a.at <= b.at

Sorted(q) == \A i, j \in DOMAIN q : i < j => Earlier(q[i], q[j])

\* By connection, and on each of them by place.
SortedOn(f) ==
  \A c, d \in DOMAIN f : \A i \in DOMAIN f[c], j \in DOMAIN f[d] :
    c < d \/ (c = d /\ i < j) => Earlier(f[c][i], f[d][j])

\* What comes after the alert of a slot, unless on an earlier connection.
After(s, ip) ==
  In(queue[s]) \cup
  UNION {In(flight[s][c]) : c \in {d \in DOMAIN flight[s] :
                                     d >= cache[ip].slot[s].conn}}

InOrder(s) ==
  /\ Sorted(queue[s]) /\ SortedOn(flight[s])
  /\ \A a \in On(flight[s]), b \in In(queue[s]) : Earlier(a, b)
  /\ \A a \in Waiting(s) : a.at <= now

SlotsInOrder(s) ==
  \A ip \in Ips :
    IF Held(ip, s)
    THEN /\ cache[ip].slot[s].at <= now
         /\ \A a \in After(s, ip) : a.ip = ip => cache[ip].slot[s].at <= a.at
    ELSE cache[ip].slot[s].at = -1

OrderInv == \A s \in Sensors : InOrder(s) /\ SlotsInOrder(s)

LEMMA PieceSorted ==
  ASSUME NEW S, NEW q \in Seq(S), NEW p \in Seq(S), Piece(p, q), Sorted(q)
  PROVE  Sorted(p) /\ In(p) \subseteq In(q)
<1>1. PICK k \in Nat : \A i \in DOMAIN p : i + k \in DOMAIN q /\ p[i] = q[i + k]
  BY DEF Piece
<1>2. DOMAIN p = 1 .. Len(p)
  OBVIOUS
<1>3. \A i, j \in DOMAIN p : i < j => i + k < j + k
  BY <1>2
<1>4. Sorted(p)
  BY <1>1, <1>3 DEF Sorted
<1>5. In(p) \subseteq In(q)
  BY <1>1 DEF In
<1>6. QED
  BY <1>4, <1>5

LEMMA PiecesSorted ==
  ASSUME NEW S, NEW f \in Seq(Seq(S)), NEW g \in Seq(Seq(S)), Pieces(g, f),
         SortedOn(f)
  PROVE  /\ SortedOn(g) /\ On(g) \subseteq On(f)
         /\ \A c \in DOMAIN g : \A a \in In(g[c]) : c \in DOMAIN f /\ a \in In(f[c])
<1>1. ASSUME NEW c \in DOMAIN g, NEW i \in DOMAIN g[c]
      PROVE  /\ c \in DOMAIN f /\ Piece(g[c], f[c]) /\ g[c] \in Seq(S)
             /\ i \in Nat /\ c \in Nat
  <2>1. g[c] \in Seq(S) /\ g[c] # <<>> /\ i \in Nat /\ c \in Nat
    BY <1>1
  <2>2. QED
    BY <2>1 DEF Pieces
<1>2. SortedOn(g)
  <2> SUFFICES ASSUME NEW c \in DOMAIN g, NEW d \in DOMAIN g,
                      NEW i \in DOMAIN g[c], NEW j \in DOMAIN g[d],
                      c < d \/ (c = d /\ i < j)
               PROVE  Earlier(g[c][i], g[d][j])
    BY DEF SortedOn
  <2>1. PICK k \in Nat : \A n \in DOMAIN g[c] :
          n + k \in DOMAIN f[c] /\ g[c][n] = f[c][n + k]
    BY <1>1 DEF Piece
  <2>2. PICK m \in Nat : \A n \in DOMAIN g[d] :
          n + m \in DOMAIN f[d] /\ g[d][n] = f[d][n + m]
    BY <1>1 DEF Piece
  <2>3. CASE c < d
    BY <1>1, <2>1, <2>2, <2>3 DEF SortedOn
  <2>4. CASE c = d /\ i < j
    <3>1. j + k \in DOMAIN f[c] /\ g[c][j] = f[c][j + k] /\ i + k < j + k
      BY <1>1, <2>1, <2>4
    <3>2. QED
      BY <1>1, <2>1, <2>4, <3>1 DEF SortedOn
  <2>5. QED
    BY <2>3, <2>4
<1>3. ASSUME NEW c \in DOMAIN g, NEW i \in DOMAIN g[c]
      PROVE  c \in DOMAIN f /\ g[c][i] \in In(f[c])
  <2>1. PICK k \in Nat : \A n \in DOMAIN g[c] :
          n + k \in DOMAIN f[c] /\ g[c][n] = f[c][n + k]
    BY <1>1 DEF Piece
  <2>2. QED
    BY <1>1, <2>1 DEF In
<1>4. QED
  BY <1>2, <1>3 DEF On, In

\* What waits on s becomes less; the slots are as before, or empty.
LEMMA LessensOrder ==
  ASSUME TypeOK, TypeOK', NEW s \in Sensors, InOrder(s), SlotsInOrder(s),
         Piece(queue'[s], queue[s]), Pieces(flight'[s], flight[s]),
         now' >= now,
         \A ip \in Ips : \/ cache'[ip].slot[s] = cache[ip].slot[s]
                         \/ cache'[ip].slot[s] = EmptySlot
  PROVE  InOrder(s)' /\ SlotsInOrder(s)'
<1>1. /\ queue[s] \in Seq(Alerts) /\ queue'[s] \in Seq(Alerts)
      /\ flight[s] \in Seq(Seq(Alerts)) /\ flight'[s] \in Seq(Seq(Alerts))
      /\ now \in Nat /\ now' \in Nat
      /\ \A ip \in Ips : cache[ip].slot[s] \in Slots
  BY DEF TypeOK, Records
<1>2. /\ Sorted(queue'[s]) /\ In(queue'[s]) \subseteq In(queue[s])
      /\ SortedOn(flight'[s]) /\ On(flight'[s]) \subseteq On(flight[s])
      /\ \A c \in DOMAIN flight'[s] : \A a \in In(flight'[s][c]) :
           c \in DOMAIN flight[s] /\ a \in In(flight[s][c])
  BY <1>1, PieceSorted, PiecesSorted DEF InOrder
<1>3. Waiting(s)' \subseteq Waiting(s) /\ Waiting(s) \subseteq Alerts
  <2>1. In(queue[s]) \subseteq Alerts /\ On(flight[s]) \subseteq Alerts
    BY <1>1 DEF In, On
  <2>2. QED
    BY <1>2, <2>1, WaitingIs
<1>4. InOrder(s)'
  <2>1. \A a \in Alerts : a.at \in Nat
    BY DEF Alerts
  <2>2. \A a \in Waiting(s)' : a.at <= now'
    BY <1>1, <1>3, <2>1 DEF InOrder
  <2>3. QED
    BY <1>2, <2>2 DEF InOrder
<1>5. SlotsInOrder(s)'
  <2> SUFFICES ASSUME NEW ip \in Ips
               PROVE  IF Held(ip, s)'
                      THEN /\ cache'[ip].slot[s].at <= now'
                           /\ \A a \in After(s, ip)' :
                                a.ip = ip => cache'[ip].slot[s].at <= a.at
                      ELSE cache'[ip].slot[s].at = -1
    BY DEF SlotsInOrder
  <2>1. CASE cache'[ip].slot[s] = EmptySlot
    BY <2>1 DEF EmptySlot, Held
  <2>2. CASE cache'[ip].slot[s] = cache[ip].slot[s]
    <3>1. After(s, ip)' \subseteq After(s, ip)
      BY <1>2, <2>2 DEF After
    <3>2. Held(ip, s)' <=> Held(ip, s)
      BY <2>2 DEF Held
    <3>3. cache[ip].slot[s].at \in Int
      BY <1>1 DEF Slots
    <3>4. QED
      BY <1>1, <2>2, <3>1, <3>2, <3>3 DEF SlotsInOrder
  <2>3. QED
    BY <2>1, <2>2
<1>6. QED
  BY <1>4, <1>5

LEMMA UntouchedOrder ==
  ASSUME TypeOK, TypeOK', NEW s \in Sensors, InOrder(s), SlotsInOrder(s),
         queue'[s] = queue[s], flight'[s] = flight[s], now' = now,
         \A ip \in Ips : cache'[ip].slot[s] = cache[ip].slot[s]
  PROVE  InOrder(s)' /\ SlotsInOrder(s)'
<1>1. queue[s] \in Seq(Alerts) /\ flight[s] \in Seq(Seq(Alerts)) /\ now \in Nat
  BY DEF TypeOK
<1>2. now' >= now
  BY <1>1
<1>3. QED
  BY <1>1, <1>2, SamePiece, SamePieces, LessensOrder

\* A new alert comes last.
LEMMA AlertOrder ==
  ASSUME TypeOK, TypeOK', NEW s \in Sensors, NEW ip \in Ips, Alert(s, ip),
         InOrder(s), SlotsInOrder(s)
  PROVE  InOrder(s)' /\ SlotsInOrder(s)'
<1> DEFINE a == [sensor |-> s, ip |-> ip, at |-> now]
<1>1. /\ now \in Nat /\ queue[s] \in Seq(Alerts)
      /\ flight' = flight /\ cache' = cache /\ now' = now
      /\ queue' = queue \/ queue' = [queue EXCEPT ![s] = Append(queue[s], a)]
  BY DEF Alert, TypeOK, net, store
<1>2. a \in Alerts /\ a.at = now
  BY DEF TypeOK, Alerts
<1> HIDE DEF a
<1>3. CASE queue' = queue
  BY <1>1, <1>3, UntouchedOrder
<1>4. CASE queue' = [queue EXCEPT ![s] = Append(queue[s], a)]
  <2>1. queue'[s] = Append(queue[s], a)
    BY <1>4 DEF TypeOK
  <2>2. /\ DOMAIN queue'[s] = DOMAIN queue[s] \cup {Len(queue[s]) + 1}
        /\ queue'[s][Len(queue[s]) + 1] = a
        /\ \A i \in DOMAIN queue[s] : /\ queue'[s][i] = queue[s][i]
                                      /\ i \in Nat /\ i <= Len(queue[s])
    BY <1>1, <1>2, <2>1
  <2>3. In(queue'[s]) = In(queue[s]) \cup {a}
    BY <2>2 DEF In
  <2>4. \A b \in Waiting(s) : Earlier(b, a)
    BY <1>2 DEF InOrder, Earlier
  <2>5. Sorted(queue'[s])
    <3> SUFFICES ASSUME NEW i \in DOMAIN queue'[s], NEW j \in DOMAIN queue'[s], i < j
                 PROVE  Earlier(queue'[s][i], queue'[s][j])
      BY DEF Sorted
    <3>1. i \in DOMAIN queue[s]
      BY <1>1, <2>2
    <3>2. CASE j \in DOMAIN queue[s]
      BY <2>2, <3>1, <3>2 DEF InOrder, Sorted
    <3>3. CASE j = Len(queue[s]) + 1
      BY <2>2, <2>4, <3>1, <3>3, WaitingIs DEF In
    <3>4. QED
      BY <2>2, <3>2, <3>3
  <2>6. Waiting(s)' = Waiting(s) \cup {a}
    BY <1>1, <2>3, WaitingIs
  <2>7. InOrder(s)'
    <3>1. \A b \in Waiting(s)' : b.at <= now'
      BY <1>1, <1>2, <2>6 DEF InOrder
    <3>2. \A b \in On(flight'[s]), d \in In(queue'[s]) : Earlier(b, d)
      BY <1>1, <2>3, <2>4, WaitingIs DEF InOrder
    <3>3. QED
      BY <1>1, <2>5, <3>1, <3>2 DEF InOrder
  <2>8. SlotsInOrder(s)'
    <3>1. \A p \in Ips : After(s, p)' = After(s, p) \cup {a}
      BY <1>1, <2>3 DEF After
    <3>2. QED
      BY <1>1, <1>2, <3>1 DEF SlotsInOrder, Held
  <2>9. QED
    BY <2>7, <2>8
<1>5. QED
  BY <1>1, <1>3, <1>4

\* What is taken from the channel follows what is on the connections.
LEMMA WriteOrder ==
  ASSUME TypeOK, TypeOK', NEW s \in Sensors, Write(s), InOrder(s), SlotsInOrder(s)
  PROVE  InOrder(s)' /\ SlotsInOrder(s)'
<1> DEFINE q == queue[s]
           f == flight[s]
           n == Len(f)
           h == Head(q)
<1>1. /\ q \in Seq(Alerts) /\ f \in Seq(Seq(Alerts)) /\ q # <<>> /\ f # <<>>
      /\ n \in DOMAIN f /\ f[n] \in Seq(Alerts) /\ queue'[s] = Tail(q)
      /\ flight'[s] = f \/ flight'[s] = [f EXCEPT ![n] = Append(f[n], h)]
      /\ cache' = cache /\ now' = now /\ now \in Nat
  BY DEF Write, TypeOK, store
<1>2. Piece(Tail(q), q) /\ h \in In(q) /\ h \in Alerts /\ Tail(q) \in Seq(Alerts)
  BY <1>1, TailPiece DEF In
<1>3. CASE flight'[s] = f
  <2>1. Pieces(flight'[s], f) /\ now' >= now
    BY <1>1, <1>3, SamePieces
  <2>2. QED
    BY <1>1, <1>2, <2>1, LessensOrder
<1>4. CASE flight'[s] = [f EXCEPT ![n] = Append(f[n], h)]
  <2> DEFINE g == flight'[s]
  <2>1. Sorted(Tail(q)) /\ In(Tail(q)) \subseteq In(q)
    BY <1>1, <1>2, PieceSorted DEF InOrder
  <2>2. \A b \in In(Tail(q)) : Earlier(h, b)
    <3>1. ASSUME NEW i \in DOMAIN Tail(q) PROVE Earlier(h, Tail(q)[i])
      <4>1. /\ h = q[1] /\ 1 \in DOMAIN q /\ i + 1 \in DOMAIN q
            /\ Tail(q)[i] = q[i + 1] /\ 1 < i + 1
        BY <1>1
      <4>2. QED
        BY <4>1 DEF InOrder, Sorted
    <3>2. QED
      BY <3>1 DEF In
  <2>3. /\ DOMAIN g = DOMAIN f /\ \A c \in DOMAIN f \ {n} : g[c] = f[c]
        /\ g[n] = Append(f[n], h) /\ n \in Nat
        /\ \A c \in DOMAIN f : c \in Nat /\ c <= n
    BY <1>1, <1>4
  <2>4. /\ DOMAIN g[n] = DOMAIN f[n] \cup {Len(f[n]) + 1}
        /\ g[n][Len(f[n]) + 1] = h /\ Len(f[n]) \in Nat
        /\ \A i \in DOMAIN f[n] : g[n][i] = f[n][i] /\ i \in Nat /\ i <= Len(f[n])
    <3>1. DOMAIN f[n] = 1 .. Len(f[n]) /\ Len(f[n]) \in Nat
      BY <1>1
    <3>2. DOMAIN g[n] = 1 .. Len(f[n]) + 1 /\ g[n][Len(f[n]) + 1] = h
      BY <1>1, <1>2, <2>3
    <3>3. \A i \in 1 .. Len(f[n]) : g[n][i] = f[n][i]
      BY <1>1, <1>2, <2>3
    <3> HIDE DEF f, g, h, n, q
    <3>4. QED
      BY <3>1, <3>2, <3>3
  <2> HIDE DEF g, f, q, n, h
  <2>5. In(g[n]) = In(f[n]) \cup {h}
    BY <2>4 DEF In
  <2>6. On(g) = On(f) \cup {h}
    <3>1. \A c \in DOMAIN f : c # n => In(g[c]) = In(f[c])
      BY <2>3
    <3>2. On(g) \subseteq On(f) \cup {h}
      BY <1>1, <2>3, <2>5, <3>1 DEF On
    <3>3. On(f) \cup {h} \subseteq On(g)
      <4>1. n \in DOMAIN g /\ \A c \in DOMAIN f : c \in DOMAIN g
        BY <1>1, <2>3
      <4>2. \A c \in DOMAIN f : In(f[c]) \subseteq In(g[c])
        BY <2>5, <3>1
      <4>3. QED
        BY <2>5, <4>1, <4>2 DEF On
    <3>4. QED
      BY <3>2, <3>3
  <2>7. \A b \in On(f) : Earlier(b, h)
    BY <1>2 DEF InOrder, f, q
  <2>8. SortedOn(g)
    <3> SUFFICES ASSUME NEW c \in DOMAIN g, NEW d \in DOMAIN g,
                        NEW i \in DOMAIN g[c], NEW j \in DOMAIN g[d],
                        c < d \/ (c = d /\ i < j)
                 PROVE  Earlier(g[c][i], g[d][j])
      BY DEF SortedOn
    <3>1. c \in DOMAIN f /\ i \in DOMAIN f[c] /\ g[c][i] = f[c][i]
      BY <2>3, <2>4
    <3>2. CASE d = n /\ j = Len(f[n]) + 1
      <4>1. f[c][i] \in On(f)
        BY <3>1 DEF On, In
      <4>2. QED
        BY <2>4, <2>7, <3>1, <3>2, <4>1
    <3>3. CASE ~(d = n /\ j = Len(f[n]) + 1)
      <4>1. d \in DOMAIN f /\ j \in DOMAIN f[d] /\ g[d][j] = f[d][j]
        BY <2>3, <2>4, <3>3
      <4>2. QED
        BY <3>1, <4>1 DEF InOrder, SortedOn, f
    <3>4. QED
      BY <3>2, <3>3
  <2>9. Waiting(s)' \subseteq Waiting(s)
    BY <1>1, <1>2, <2>1, <2>6, WaitingIs DEF g, f, q
  <2>10. InOrder(s)'
    <3>1. \A a \in On(g), b \in In(Tail(q)) : Earlier(a, b)
      BY <2>1, <2>2, <2>6 DEF InOrder, f, q
    <3>2. \A a \in Waiting(s)' : a.at <= now'
      BY <1>1, <2>9 DEF InOrder
    <3>3. QED
      BY <1>1, <2>1, <2>8, <3>1, <3>2 DEF InOrder, g
  <2>11. SlotsInOrder(s)'
    <3>1. ASSUME NEW ip \in Ips PROVE After(s, ip)' \subseteq After(s, ip)
      <4>1. \A c \in DOMAIN g : In(g[c]) \subseteq In(f[c]) \cup {h}
        BY <2>3, <2>5
      <4>2. /\ In(queue'[s]) \subseteq In(queue[s]) /\ h \in In(queue[s])
            /\ DOMAIN flight'[s] = DOMAIN flight[s]
            /\ \A c \in DOMAIN flight[s] :
                 In(flight'[s][c]) \subseteq In(flight[s][c]) \cup {h}
            /\ cache'[ip].slot[s].conn = cache[ip].slot[s].conn
        BY <1>1, <1>2, <2>1, <2>3, <4>1 DEF g, f, q
      <4>3. QED
        BY <4>2 DEF After
    <3>2. QED
      BY <1>1, <3>1 DEF SlotsInOrder, Held
  <2>12. QED
    BY <2>10, <2>11
<1>5. QED
  BY <1>1, <1>3, <1>4

\* What is decoded from a connection is the first that is left on it.
LEMMA HandleOrder ==
  ASSUME TypeOK, TypeOK', NEW s \in Sensors, NEW c \in 1 .. Len(flight[s]),
         HandleConn(s, c), OnceInv, OrderInv
  PROVE  /\ OrderInv'
         /\ \A ip \in Ips, t \in Sensors :
              LET old == cache[ip].slot[t]
                  new == cache'[ip].slot[t]
              IN  new.at < old.at => new.conn < old.conn
<1> DEFINE f == flight[s]
           h == Head(f[c])
           slot == [at |-> h.at, conn |-> c, set |-> now]
<1>1. /\ f \in Seq(Seq(Alerts)) /\ c \in DOMAIN f /\ f[c] \in Seq(Alerts) /\ c \in Nat
      /\ f[c] # <<>> /\ queue' = queue /\ now' = now /\ now \in Nat
      /\ flight'[s] = [f EXCEPT ![c] = Tail(f[c])]
      /\ \A t \in Sensors \ {s} : flight'[t] = flight[t]
      /\ SetAlert(h, c)
  BY DEF HandleConn, TypeOK, parser
<1>2. h = f[c][1] /\ 1 \in DOMAIN f[c] /\ h \in In(f[c]) /\ h \in On(f)
      /\ h \in Waiting(s) /\ h \in Alerts
  <2>1. h = f[c][1] /\ 1 \in DOMAIN f[c] /\ h \in Alerts
    BY <1>1
  <2>2. QED
    BY <1>1, <2>1, WaitingIs DEF On, In
<1>3. h.sensor = s /\ h.ip \in Ips /\ h.at \in Nat /\ h.at <= now
  BY <1>2 DEF OnceInv, Limited, Alerts, OrderInv, InOrder
<1>4. /\ cache'[h.ip].slot[s] = slot
      /\ \A ip \in Ips, t \in Sensors : ip # h.ip \/ t # s =>
           cache'[ip].slot[t] = cache[ip].slot[t]
  <2> HIDE DEF h, f
  <2>1. /\ cache'[h.ip].slot[h.sensor] = slot
        /\ \A t \in Sensors \ {h.sensor} :
             cache'[h.ip].slot[t] = cache[h.ip].slot[t]
        /\ \A ip \in Ips \ {h.ip} : cache'[ip] = cache[ip]
    BY <1>1, <1>2, SetAlertType
  <2> HIDE DEF slot
  <2>2. QED
    BY <1>3, <2>1
<1> HIDE DEF h, f
<1>5. /\ InOrder(s) /\ SlotsInOrder(s)
      /\ \A ip \in Ips : cache[ip].slot[s] \in Slots
  BY DEF OrderInv, TypeOK, Records
<1>6. \A a \in After(s, h.ip) \cup In(queue[s]) : a \in Waiting(s)
  BY WaitingIs DEF After, On
<1>7. Pieces(flight'[s], flight[s]) /\ Piece(queue'[s], queue[s])
  <2>1. Piece(Tail(f[c]), f[c])
    BY <1>1, TailPiece
  <2>2. Pieces([f EXCEPT ![c] = Tail(f[c])], f)
    BY <1>1, <2>1, OneLinePieces
  <2>3. QED
    BY <1>1, <2>2, SamePiece DEF TypeOK, f
<1>8. InOrder(s)'
  <2>1. queue[s] \in Seq(Alerts) /\ flight[s] \in Seq(Seq(Alerts)) /\ flight'[s] \in Seq(Seq(Alerts))
    BY DEF TypeOK
  <2>2. SortedOn(flight'[s]) /\ On(flight'[s]) \subseteq On(flight[s])
    BY <1>5, <1>7, <2>1, PiecesSorted DEF InOrder
  <2>3. QED
    BY <1>1, <1>5, <2>2, WaitingIs DEF InOrder
<1>9. \A a \in In(queue[s]) : Earlier(h, a)
  BY <1>2, <1>5 DEF InOrder, f
<1>10. \A d \in DOMAIN flight'[s] : d >= c =>
         \A a \in In(flight'[s][d]) : Earlier(h, a)
  <2> SUFFICES ASSUME NEW d \in DOMAIN flight'[s], d >= c,
                      NEW i \in DOMAIN flight'[s][d]
               PROVE  Earlier(h, flight'[s][d][i])
    BY DEF In
  <2>1. CASE d = c
    <3>1. /\ flight'[s][c] = Tail(f[c]) /\ i + 1 \in DOMAIN f[c] /\ 1 < i + 1
          /\ flight'[s][c][i] = f[c][i + 1]
      BY <1>1, <2>1
    <3>2. Earlier(f[c][1], f[c][i + 1])
      BY <1>1, <1>2, <1>5, <3>1 DEF InOrder, SortedOn, f
    <3>3. QED
      BY <1>2, <2>1, <3>1, <3>2
  <2>2. CASE d # c
    <3>1. d \in DOMAIN f /\ flight'[s][d] = f[d] /\ c < d
      BY <1>1, <2>2
    <3>2. Earlier(f[c][1], f[d][i])
      BY <1>1, <1>2, <1>5, <3>1 DEF InOrder, SortedOn, f
    <3>3. QED
      BY <1>2, <3>1, <3>2
  <2>3. QED
    BY <2>1, <2>2
<1>11. SlotsInOrder(s)'
  <2> SUFFICES ASSUME NEW ip \in Ips
               PROVE  IF Held(ip, s)'
                      THEN /\ cache'[ip].slot[s].at <= now'
                           /\ \A a \in After(s, ip)' :
                                a.ip = ip => cache'[ip].slot[s].at <= a.at
                      ELSE cache'[ip].slot[s].at = -1
    BY DEF SlotsInOrder
  <2>1. CASE ip = h.ip
    <3>1. /\ cache'[ip].slot[s].at = h.at /\ cache'[ip].slot[s].conn = c
          /\ Held(ip, s)'
      BY <1>1, <1>4, <2>1 DEF Held
    <3>2. \A a \in After(s, ip)' : Earlier(h, a)
      BY <1>1, <1>9, <1>10, <3>1 DEF After
    <3>3. QED
      BY <1>1, <1>3, <2>1, <3>1, <3>2 DEF Earlier
  <2>2. CASE ip # h.ip
    <3>1. cache'[ip].slot[s] = cache[ip].slot[s]
      BY <1>4, <2>2
    <3>2. After(s, ip)' \subseteq After(s, ip)
      <4>1. queue[s] \in Seq(Alerts) /\ flight[s] \in Seq(Seq(Alerts))
            /\ flight'[s] \in Seq(Seq(Alerts))
        BY DEF TypeOK
      <4>2. \A d \in DOMAIN flight'[s] : \A a \in In(flight'[s][d]) :
              d \in DOMAIN flight[s] /\ a \in In(flight[s][d])
        BY <1>5, <1>7, <4>1, PiecesSorted DEF InOrder
      <4>3. /\ queue'[s] = queue[s]
            /\ cache'[ip].slot[s].conn = cache[ip].slot[s].conn
        BY <1>1, <3>1
      <4>4. QED
        BY <4>2, <4>3 DEF After
    <3>3. QED
      BY <1>1, <1>5, <3>1, <3>2 DEF SlotsInOrder, Held
  <2>3. QED
    BY <2>1, <2>2
<1>12. OrderInv'
  <2>1. ASSUME NEW t \in Sensors \ {s} PROVE InOrder(t)' /\ SlotsInOrder(t)'
    BY <1>1, <1>4, UntouchedOrder DEF OrderInv
  <2>2. QED
    BY <1>8, <1>11, <2>1 DEF OrderInv
<1>13. ASSUME NEW ip \in Ips, NEW t \in Sensors,
              cache'[ip].slot[t].at < cache[ip].slot[t].at
       PROVE  cache'[ip].slot[t].conn < cache[ip].slot[t].conn
  <2>1. cache[ip].slot[t] \in Slots
    BY DEF TypeOK, Records
  <2>2. ip = h.ip /\ t = s
    BY <1>4, <1>13, <2>1 DEF Slots
  <2>3. cache'[ip].slot[t].at = h.at /\ cache'[ip].slot[t].conn = c
    BY <1>4, <2>2
  <2>4. Held(ip, s)
    BY <1>3, <1>5, <1>13, <2>2, <2>3 DEF SlotsInOrder
  <2>5. h \notin After(s, ip)
    BY <1>3, <1>5, <1>13, <2>1, <2>2, <2>3, <2>4 DEF SlotsInOrder, Slots
  <2>6. ~(c >= cache[ip].slot[s].conn)
    BY <1>1, <1>2, <2>5 DEF After, f
  <2>7. cache[ip].slot[t].conn \in Nat
    BY <2>1 DEF Slots
  <2>8. cache'[ip].slot[t].conn = c /\ ~(c >= cache[ip].slot[t].conn) /\ c \in Nat
    BY <1>1, <2>2, <2>3, <2>6
  <2>9. QED
    BY <2>7, <2>8
<1>14. QED
  BY <1>12, <1>13

LEMMA NextOrder ==
  ASSUME IInv, OnceInv, OrderInv, [Next]_vars
  PROVE  OrderInv'
<1>0. TypeOK /\ TypeOK' /\ now \in Nat
  BY NextIInv DEF IInv, TypeOK
<1>a. \A s \in Sensors : Piece(queue[s], queue[s]) /\ Pieces(flight[s], flight[s])
  BY <1>0, SamePiece, SamePieces DEF TypeOK
<1>b. ASSUME queue' = queue, now' >= now,
             \A s \in Sensors : Pieces(flight'[s], flight[s]),
             \A ip \in Ips, s \in Sensors :
               \/ cache'[ip].slot[s] = cache[ip].slot[s]
               \/ cache'[ip].slot[s] = EmptySlot
      PROVE  OrderInv'
  BY <1>0, <1>a, <1>b, LessensOrder DEF OrderInv
<1>1. ASSUME NEW s \in Sensors, NEW ip \in Ips, Alert(s, ip) PROVE OrderInv'
  <2>1. InOrder(s)' /\ SlotsInOrder(s)'
    BY <1>0, <1>1, AlertOrder DEF OrderInv
  <2>2. ASSUME NEW t \in Sensors \ {s} PROVE InOrder(t)' /\ SlotsInOrder(t)'
    <3>1. queue'[t] = queue[t] /\ flight' = flight /\ now' = now /\ cache' = cache
      BY <1>0, <1>1 DEF Alert, TypeOK, net, store
    <3>2. QED
      BY <1>0, <3>1, UntouchedOrder DEF OrderInv
  <2>3. QED
    BY <2>1, <2>2 DEF OrderInv
<1>2. ASSUME NEW s \in Sensors, Dial(s) PROVE OrderInv'
  <2>1. flight'[s] = Append(flight[s], <<>>) /\ flight[s] \in Seq(Seq(Alerts))
        /\ \A t \in Sensors \ {s} : flight'[t] = flight[t]
    BY <1>0, <1>2 DEF Dial, TypeOK
  <2>2. \A c \in DOMAIN flight'[s] :
          flight'[s][c] = <<>> \/ (c \in DOMAIN flight[s] /\ flight'[s][c] = flight[s][c])
    BY <2>1
  <2>3. Pieces(flight'[s], flight[s])
    BY <1>a, <2>2 DEF Pieces
  <2>4. QED
    BY <1>0, <1>a, <1>b, <1>2, <2>1, <2>3 DEF Dial, parser, store
<1>3. ASSUME NEW s \in Sensors, Write(s) PROVE OrderInv'
  <2>1. InOrder(s)' /\ SlotsInOrder(s)'
    BY <1>0, <1>3, WriteOrder DEF OrderInv
  <2>2. ASSUME NEW t \in Sensors \ {s} PROVE InOrder(t)' /\ SlotsInOrder(t)'
    <3>1. queue'[t] = queue[t] /\ flight'[t] = flight[t] /\ now' = now /\ cache' = cache
      BY <1>0, <1>3 DEF Write, TypeOK, store
    <3>2. QED
      BY <1>0, <3>1, UntouchedOrder DEF OrderInv
  <2>3. QED
    BY <2>1, <2>2 DEF OrderInv
<1>4. ASSUME NEW s \in Sensors, NEW c \in 1 .. Len(flight[s]), HandleConn(s, c)
      PROVE  OrderInv'
  BY <1>0, <1>4, HandleOrder
<1>5. ASSUME NEW s \in Sensors, NEW c \in 1 .. Len(flight[s]), Break(s, c)
      PROVE  OrderInv'
  <2>1. PICK n \in 0 .. Len(flight[s][c]) :
          flight' = [flight EXCEPT ![s][c] = SubSeq(flight[s][c], 1, n)]
    BY <1>5 DEF Break
  <2>2. c \in DOMAIN flight[s] /\ flight[s][c] \in Seq(Alerts)
        /\ flight[s] \in Seq(Seq(Alerts))
    BY <1>0 DEF TypeOK
  <2>3. Piece(SubSeq(flight[s][c], 1, n), flight[s][c])
    BY <2>2, PrefixPiece
  <2>4. /\ flight'[s] = [flight[s] EXCEPT ![c] = SubSeq(flight[s][c], 1, n)]
        /\ \A t \in Sensors \ {s} : flight'[t] = flight[t]
    BY <1>0, <2>1 DEF TypeOK
  <2>5. Pieces(flight'[s], flight[s])
    <3>1. Pieces([flight[s] EXCEPT ![c] = SubSeq(flight[s][c], 1, n)], flight[s])
      BY <2>2, <2>3, OneLinePieces
    <3>2. QED
      BY <2>4, <3>1
  <2>6. queue' = queue /\ now' = now /\ cache' = cache
    BY <1>5 DEF Break, parser, store
  <2>7. \A t \in Sensors : Pieces(flight'[t], flight[t])
    BY <1>a, <2>4, <2>5
  <2>8. now' >= now
    BY <1>0, <2>6 DEF TypeOK
  <2>9. \A ip \in Ips, t \in Sensors : cache'[ip].slot[t] = cache[ip].slot[t]
    BY <2>6
  <2>10. QED
    BY <1>b, <2>6, <2>7, <2>8, <2>9
<1>6. CASE StopOrchestrator
  <2>1. \A s \in Sensors : \A c \in DOMAIN flight'[s] : flight'[s][c] = <<>>
    BY <1>6 DEF StopOrchestrator
  <2>2. \A ip \in Ips, s \in Sensors : cache'[ip].slot[s] = EmptySlot
    BY <1>6 DEF StopOrchestrator, EmptyRecord
  <2>3. QED
    BY <1>0, <1>b, <1>6, <2>1, <2>2 DEF StopOrchestrator, Pieces, parser
<1>7. CASE \/ \E s \in Sensors : DialFails(s) \/ Wake(s)
           \/ StartOrchestrator \/ Tick \/ UNCHANGED vars
  BY <1>0, <1>a, <1>b, <1>7
     DEF DialFails, Wake, StartOrchestrator, Tick, vars, parser, net, store
<1>8. QED
  BY <1>1, <1>2, <1>3, <1>4, <1>5, <1>6, <1>7 DEF Next, Deliver

LEMMA InitOrder == Init => OrderInv
<1> SUFFICES ASSUME Init, NEW s \in Sensors
             PROVE  InOrder(s) /\ SlotsInOrder(s)
  BY DEF OrderInv
<1>1. queue[s] = <<>> /\ flight[s] = <<>>
  BY DEF Init
<1>2. Waiting(s) = {} /\ In(queue[s]) = {} /\ On(flight[s]) = {}
  BY <1>1, WaitingIs DEF In, On
<1>3. InOrder(s)
  BY <1>1, <1>2 DEF InOrder, Sorted, SortedOn
<1>4. \A ip \in Ips : cache[ip].slot[s] = EmptySlot
  BY DEF Init, EmptyRecord
<1>5. SlotsInOrder(s)
  BY <1>4 DEF SlotsInOrder, Held, EmptySlot
<1>6. QED
  BY <1>3, <1>5

\* A step that replaces an alert by an earlier one, without emptying the cache,
\* decodes from an earlier connection.
LEMMA StepInOrder ==
  ASSUME IInv, OnceInv, OrderInv, [Next]_vars, NEW ip \in Ips, NEW s \in Sensors,
         cache'[ip].slot[s].at < cache[ip].slot[s].at,
         cache'[ip].slot[s].set >= 0
  PROVE  cache'[ip].slot[s].conn < cache[ip].slot[s].conn
<1>0. TypeOK /\ TypeOK' /\ cache[ip].slot[s].at \in Int
  BY NextIInv DEF IInv, TypeOK, Records, Slots
<1>1. cache' # cache
  BY <1>0
<1>2. CASE \E t \in Sensors : Deliver(t)
  BY <1>0, <1>2, HandleOrder DEF Deliver
<1>3. CASE StopOrchestrator
  <2>1. cache'[ip].slot[s].set = -1
    BY <1>3 DEF StopOrchestrator, EmptyRecord, EmptySlot
  <2>2. QED
    BY <2>1
<1>4. QED
  BY <1>1, <1>2, <1>3
     DEF Next, Alert, Dial, DialFails, Wake, Write, Break, StartOrchestrator, Tick,
         vars, store

\* The cache goes back to an earlier alert of a sensor only for one that was
\* still under way on an earlier connection.
THEOREM OrderKept == Spec => OvertakenOnReconnect
<1> DEFINE Step ==
      \A ip \in Ips, s \in Sensors :
        LET old == cache[ip].slot[s]
            new == cache'[ip].slot[s]
        IN  new.at < old.at /\ new.set >= 0 => new.conn < old.conn
<1>1. IInv /\ OnceInv /\ OrderInv /\ [Next]_vars => OrderInv' /\ [Step]_vars
  BY NextOrder, StepInOrder
<1>2. Spec => []IInv
  BY InitIInv, NextIInv, PTL DEF Spec
<1> HIDE DEF Step
<1>3. Spec => [][Step]_vars
  BY <1>1, <1>2, AlwaysOnce, InitOrder, PTL DEF Spec
<1>4. QED
  BY <1>3 DEF OvertakenOnReconnect, Step
=============================================================================
