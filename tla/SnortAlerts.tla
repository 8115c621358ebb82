----------------------------- MODULE SnortAlerts -----------------------------
(***************************************************************************)
(* The way of an intrusion alert from the parser beside a Snort sensor to  *)
(* the cache of the security orchestrator: a rate limiter per source       *)
(* address, a bounded channel, a goroutine that writes to one TCP          *)
(* connection after the other, a goroutine per connection that reads it,   *)
(* and the cache, which keeps the last alert of each sensor for an address *)
(* under one common expiry.                                                *)
(*                                                                         *)
(* Every sensor has a parser process of its own, which is not restarted    *)
(* here; the orchestrator is.  The connections of a parser are numbered in *)
(* the order they are dialled; the bytes under way on them are sequences   *)
(* of alerts, lost as a suffix when a connection breaks.                   *)
(*                                                                         *)
(* Definitions named after a fault (Unlimited, ...) stand beside the one   *)
(* they falsify; no action uses them.                                      *)
(***************************************************************************)
EXTENDS Integers, Sequences

CONSTANTS
  Sensors,   \* services that raise alerts, each with a slot in the cache
  Ips,       \* source addresses
  Interval,  \* rateInterval in ticks
  QueueCap,  \* capacity of the channel of an AlertSender
  Ttl,       \* of the cache, in ticks
  BackoffCap,\* the backoff doubles while it is below this
  MaxConns,  \* bound on the connections of a parser
  MaxNow     \* bound on the clock

ASSUME SnortAssumption ==
  /\ Interval \in Nat \ {0} /\ QueueCap \in Nat \ {0} /\ Ttl \in Nat
  /\ BackoffCap \in Nat \ {0}
  /\ MaxConns \in Nat /\ MaxNow \in Nat

VARIABLES
  allowedAt, \* rateMap: when the limiter of an address has its token again
  queue,     \* the channel of each AlertSender
  sender,    \* the goroutine run: where it is and its backoff
  flight,    \* the connections of each parser, with what is under way on them
  broken,    \* whether the connection in use is dead on the other side
  listening, \* whether the orchestrator accepts connections
  cache,     \* the cache: expiry and slots of each address
  stored,    \* the alerts that SetAlert has been called with
  now

parser == <<allowedAt, queue>>
net == <<flight, broken>>
store == <<cache, stored>>
vars == <<parser, sender, net, listening, store, now>>

-----------------------------------------------------------------------------
Alerts == [sensor : Sensors, ip : Ips, at : 0 .. MaxNow]

Slots == [at : Int, conn : Nat, set : Int]
Records == [expiry : Int, slot : [Sensors -> Slots]]

EmptySlot == [at |-> -1, conn |-> 0, set |-> -1]

EmptyRecord == [expiry |-> -1, slot |-> [s \in Sensors |-> EmptySlot]]

\* lim.Allow, with a burst of one.
Unlimited(s, ip) == TRUE
Allowed(s, ip) == now >= allowedAt[s][ip]

Doubled(b) == IF b < BackoffCap THEN 2 * b ELSE b

\* The cap is tested before doubling: with 30 s the last backoff is 32 s.
Backoffs == 1 .. 2 * BackoffCap - 1

\* SetAlert, with the expiry renewed for the whole record of the address.
FirstExpiry(r) == IF r.expiry < 0 THEN now + Ttl ELSE r.expiry
Renewed(r) == now + Ttl

SetAlert(a, conn) ==
  /\ cache' = [cache EXCEPT ![a.ip] =
       [expiry |-> Renewed(@),
        slot |-> [@.slot EXCEPT ![a.sensor] =
                    [at |-> a.at, conn |-> conn, set |-> now]]]]
  /\ stored' = stored \cup {a}

\* GetAlerts returns the record: !time.Now().After(Expiry), and a record that
\* was never made has expired.
Visible(ip) == now <= cache[ip].expiry

-----------------------------------------------------------------------------
Init ==
  /\ allowedAt = [s \in Sensors |-> [ip \in Ips |-> 0]]
  /\ queue = [s \in Sensors |-> <<>>]
  /\ sender = [s \in Sensors |-> [pc |-> "dial", backoff |-> 1]]
  /\ flight = [s \in Sensors |-> <<>>]
  /\ broken = [s \in Sensors |-> FALSE]
  /\ listening = FALSE
  /\ cache = [ip \in Ips |-> EmptyRecord]
  /\ stored = {}
  /\ now = 0

\* A line of the alert file that matches: the limiter gives its token for it
\* whether or not the channel has room.
Alert(s, ip) ==
  LET a == [sensor |-> s, ip |-> ip, at |-> now] IN
  /\ Allowed(s, ip)
  /\ allowedAt' = [allowedAt EXCEPT ![s][ip] = now + Interval]
  /\ \/ /\ Len(queue[s]) < QueueCap
        /\ queue' = [queue EXCEPT ![s] = Append(@, a)]
     \/ /\ Len(queue[s]) = QueueCap
        /\ UNCHANGED queue
  /\ UNCHANGED <<sender, net, listening, store, now>>

\* net.DialTimeout
Dial(s) ==
  /\ sender[s].pc = "dial" /\ listening
  /\ Len(flight[s]) < MaxConns
  /\ sender' = [sender EXCEPT ![s] = [pc |-> "write", backoff |-> 1]]
  /\ flight' = [flight EXCEPT ![s] = Append(@, <<>>)]
  /\ broken' = [broken EXCEPT ![s] = FALSE]
  /\ UNCHANGED <<parser, listening, store, now>>

IgnoresError(s) ==
  /\ sender[s].pc = "dial"
  /\ sender' = [sender EXCEPT ![s].pc = "write"]
  /\ UNCHANGED <<parser, net, listening, store, now>>

DialFails(s) ==
  /\ sender[s].pc = "dial"
  /\ sender' = [sender EXCEPT ![s].pc = "sleep"]
  /\ UNCHANGED <<parser, net, listening, store, now>>

Wake(s) ==
  /\ sender[s].pc = "sleep"
  /\ sender' = [sender EXCEPT ![s] =
                  [pc |-> "dial", backoff |-> Doubled(sender[s].backoff)]]
  /\ UNCHANGED <<parser, net, listening, store, now>>

\* writeLoop takes an alert from the channel and encodes it; whether or not
\* that fails, the alert is not in the channel any more.  On a connection that
\* is dead the first write may succeed.
KeepOnError(s) ==
  /\ sender[s].pc = "write" /\ queue[s] # <<>>
  /\ \/ /\ queue' = [queue EXCEPT ![s] = Tail(@)]
        /\ flight' = [flight EXCEPT ![s][Len(flight[s])] =
                        IF broken[s] THEN @ ELSE Append(@, Head(queue[s]))]
        /\ UNCHANGED sender
     \/ /\ sender' = [sender EXCEPT ![s].pc = "dial"]
        /\ flight' = [flight EXCEPT ![s][Len(flight[s])] =
                        IF broken[s] THEN @ ELSE Append(@, Head(queue[s]))]
        /\ UNCHANGED queue
  /\ UNCHANGED <<allowedAt, broken, listening, store, now>>

Write(s) ==
  /\ sender[s].pc = "write" /\ queue[s] # <<>>
  /\ queue' = [queue EXCEPT ![s] = Tail(@)]
  /\ \/ /\ ~broken[s]
        /\ flight' = [flight EXCEPT ![s][Len(flight[s])] =
                        Append(@, Head(queue[s]))]
        /\ UNCHANGED sender
     \/ broken[s] /\ UNCHANGED <<flight, sender>>
     \/ /\ sender' = [sender EXCEPT ![s].pc = "dial"]
        /\ UNCHANGED flight
  /\ UNCHANGED <<allowedAt, broken, listening, store, now>>

\* handleConn decodes the next line of its connection.
OutOfOrder(s, c) ==
  \E i \in 1 .. Len(flight[s][c]) :
    /\ SetAlert(flight[s][c][i], c)
    /\ flight' = [flight EXCEPT ![s][c] =
                    SubSeq(@, 1, i - 1) \o SubSeq(@, i + 1, Len(@))]
    /\ UNCHANGED <<parser, sender, broken, listening, now>>

HandleConn(s, c) ==
  /\ flight[s][c] # <<>>
  /\ SetAlert(Head(flight[s][c]), c)
  /\ flight' = [flight EXCEPT ![s][c] = Tail(@)]
  /\ UNCHANGED <<parser, sender, broken, listening, now>>

\* A connection breaks, and a suffix of what is under way is lost.
Break(s, c) ==
  /\ \E n \in 0 .. Len(flight[s][c]) :
       flight' = [flight EXCEPT ![s][c] = SubSeq(@, 1, n)]
  /\ broken' = [broken EXCEPT ![s] = @ \/ c = Len(flight[s])]
  /\ UNCHANGED <<parser, sender, listening, store, now>>

\* The orchestrator stops: its connections and its cache are gone.
StopOrchestrator ==
  /\ listening
  /\ listening' = FALSE
  /\ flight' = [s \in Sensors |-> [c \in 1 .. Len(flight[s]) |-> <<>>]]
  /\ broken' = [s \in Sensors |-> TRUE]
  /\ cache' = [ip \in Ips |-> EmptyRecord]
  /\ UNCHANGED <<parser, sender, stored, now>>

StartOrchestrator ==
  /\ ~listening
  /\ listening' = TRUE
  /\ UNCHANGED <<parser, sender, net, store, now>>

Tick ==
  /\ now < MaxNow
  /\ now' = now + 1
  /\ UNCHANGED <<parser, sender, net, listening, store>>

Deliver(s) == \E c \in 1 .. Len(flight[s]) : HandleConn(s, c)

Next ==
  \/ \E s \in Sensors :
       \/ \E ip \in Ips : Alert(s, ip)
       \/ Dial(s) \/ DialFails(s) \/ Wake(s) \/ Write(s) \/ Deliver(s)
       \/ \E c \in 1 .. Len(flight[s]) : Break(s, c)
  \/ StopOrchestrator \/ StartOrchestrator \/ Tick

Spec == Init /\ [][Next]_vars

-----------------------------------------------------------------------------
(* Properties *)

TypeOK ==
  /\ allowedAt \in [Sensors -> [Ips -> Nat]]
  /\ queue \in [Sensors -> Seq(Alerts)]
  /\ sender \in [Sensors -> [pc : {"dial", "sleep", "write"}, backoff : Backoffs]]
  /\ flight \in [Sensors -> Seq(Seq(Alerts))]
  /\ \A s \in Sensors : sender[s].pc = "write" => flight[s] # <<>>
  /\ broken \in [Sensors -> BOOLEAN] /\ listening \in BOOLEAN
  /\ cache \in [Ips -> Records]
  /\ stored \subseteq Alerts
  /\ now \in 0 .. MaxNow

Held(ip, s) == cache[ip].slot[s].set >= 0

Recent(ip, s) == Held(ip, s) /\ now <= cache[ip].slot[s].set + Ttl

\* GetAlerts returns something for an address exactly while one of its alerts
\* is recent: storing an alert of one sensor never shortens, for the address,
\* what the others were given, and nothing outlives the last of them.
VisibleWhileRecent ==
  \A ip \in Ips : Visible(ip) <=> \E s \in Sensors : Recent(ip, s)

\* The alerts of a sensor that are on their way to the cache.
Waiting(s) ==
  {queue[s][i] : i \in DOMAIN queue[s]} \cup
  UNION {{flight[s][c][i] : i \in DOMAIN flight[s][c]} : c \in DOMAIN flight[s]}

\* An alert is stored at most once, although connections break while it is
\* under way: what has been stored is not on its way again, and what waits in
\* the channel was not sent.
StoredOnce ==
  \A s \in Sensors :
    /\ Waiting(s) \cap stored = {}
    /\ \A i \in DOMAIN queue[s], c \in DOMAIN flight[s] :
         \A j \in DOMAIN flight[s][c] : flight[s][c][j] # queue[s][i]

\* Alerts of one source that wait during an outage and are flushed together
\* were still raised rateInterval apart: a storm of one address cannot fill
\* the channel sooner than QueueCap intervals.
WaitingSpaced ==
  \A s \in Sensors : \A a, b \in Waiting(s) :
    a.ip = b.ip /\ a.at < b.at => a.at + Interval <= b.at

\* The alert of a sensor in the cache is replaced by an earlier one only if
\* that was still under way on an earlier connection.
OvertakenOnReconnect ==
  [][\A ip \in Ips, s \in Sensors :
       LET old == cache[ip].slot[s]
           new == cache'[ip].slot[s]
       IN  new.at < old.at /\ new.set >= 0 => new.conn < old.conn]_vars
=============================================================================
