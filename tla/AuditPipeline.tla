----------------------------- MODULE AuditPipeline -----------------------------
(***************************************************************************)
(* The telemetry path from the application gateway to the log backend:     *)
(* the application's durable queue and its worker (audit_delivery.py), the *)
(* monitor's request handler with its event table and outbox (app.py), and *)
(* the monitor's log worker (log_delivery.py).  Every database transaction *)
(* is one step.  A request may be lost, its answer may be lost, and it may *)
(* be handled after its sender gave up; both processes may die.            *)
(***************************************************************************)
EXTENDS Integers, Sequences, SequencesExt, SequenceTheorems, TLAPS

CONSTANTS Events,
          None,        \* a worker has no row
          Capacity,    \* 10000 pending events of the application
          Backlog      \* 10000 rows of the monitor's outbox

ASSUME BoundAssumption == Capacity \in Nat \ {0} /\ Backlog \in Nat \ {0}

VARIABLES pending, stats,  \* audit-outbox.db: the queue, and what statistics says of it
          sender,          \* AuditDelivery.run: its place and the row it read
          wire,            \* requests on their way to the monitor
          stored, outbox,  \* the monitor's database: events_v2 and log_outbox
          logger,          \* LogDelivery.run
          offered,         \* history: events that enqueue has seen
          accepted,        \* history: those it took
          rows,            \* history: an event was inserted in events_v2 never, once, or again (2)
          arrived          \* the log backend

application == <<pending, stats, sender, offered, accepted>>
monitor == <<stored, outbox, logger, rows>>
vars == <<application, wire, monitor, arrived>>

Idle == [at |-> "idle", row |-> None]
At(place, e) == [at |-> place, row |-> e]

Init == /\ pending = <<>> /\ stats = [accepted |-> 0, delivered |-> 0, rejected |-> 0]
        /\ sender = Idle /\ logger = Idle /\ wire = {}
        /\ stored = [e \in Events |-> "no"] /\ outbox = <<>>
        /\ offered = {} /\ accepted = {} /\ rows = [e \in Events |-> 0] /\ arrived = {}

-----------------------------------------------------------------------------
(* AuditDelivery *)

Count(name) == stats' = [stats EXCEPT ![name] = @ + 1]

Enqueue(e) ==
  /\ e \notin offered
  /\ offered' = offered \cup {e}
  /\ \/ /\ Len(pending) < Capacity
        /\ pending' = Append(pending, e) /\ accepted' = accepted \cup {e} /\ Count("accepted")
     \/ /\ Len(pending) >= Capacity
        /\ UNCHANGED <<pending, accepted>> /\ Count("rejected")
  /\ UNCHANGED <<sender, wire, monitor, arrived>>

\* flush_once: the oldest row is read, and posted.
Send ==
  /\ sender = Idle /\ pending # <<>>
  /\ sender' = At("waiting", Head(pending))
  /\ wire' = wire \cup {Head(pending)}
  /\ UNCHANGED <<pending, stats, offered, accepted, monitor, arrived>>

\* Mutant of Acknowledge: the row leaves the queue when it was sent.
AcknowledgeEarly ==
  /\ sender.at \in {"waiting", "acked"}
  /\ pending' = RemoveFirst(pending, sender.row) /\ Count("delivered")
  /\ sender' = Idle
  /\ UNCHANGED <<offered, accepted, wire, monitor, arrived>>
\* Mutant of Acknowledge: the row and the counter are not changed together.
AcknowledgeUncounted ==
  /\ sender.at = "acked"
  /\ pending' = RemoveFirst(pending, sender.row)
  /\ sender' = Idle
  /\ UNCHANGED <<stats, offered, accepted, wire, monitor, arrived>>
Acknowledge ==
  /\ sender.at = "acked"
  /\ pending' = RemoveFirst(pending, sender.row) /\ Count("delivered")
  /\ sender' = Idle
  /\ UNCHANGED <<offered, accepted, wire, monitor, arrived>>

\* A timeout, an error answer, or a database that refuses the deletion.
GiveUp ==
  /\ sender # Idle
  /\ sender' = Idle
  /\ UNCHANGED <<pending, stats, offered, accepted, wire, monitor, arrived>>

-----------------------------------------------------------------------------
(* collect_guardrail_event and persist *)

Full == Len(outbox) >= Backlog

Retained(e) == stored[e] = "fresh" \/ e \in ToSet(outbox)

\* Mutant of Known: a retry is not recognised.
KnownNever(e) == stored[e] = "never"
Known(e) == stored[e] # "no"

Purged == [e \in Events |-> IF Retained(e) THEN stored[e] ELSE "no"]

\* A new event is inserted with its outbox row, and what is too old is deleted.
Insert(e) == /\ ~Known(e) /\ ~Full
             /\ outbox' = Append(outbox, e)
             /\ stored' = [Purged EXCEPT ![e] = "fresh"]
             /\ rows' = [rows EXCEPT ![e] = IF @ = 0 THEN 1 ELSE 2]

\* A retry of a stored event changes nothing; either answer names the event.
Persist(e) ==
  /\ e \in wire
  /\ wire' = wire \ {e}
  /\ \/ Insert(e)
     \/ Known(e) /\ UNCHANGED <<stored, outbox, rows>>
  /\ sender' = IF sender = At("waiting", e) THEN At("acked", e) ELSE sender
  /\ UNCHANGED <<pending, stats, offered, accepted, logger, arrived>>

\* As above, but the answer is lost.
PersistUnheard(e) ==
  /\ e \in wire
  /\ wire' = wire \ {e}
  /\ Insert(e)
  /\ UNCHANGED <<application, logger, arrived>>

\* Another producer's event is stored: its rows are not modelled, only its purge.
OtherProducer == /\ ~Full /\ stored' = Purged
                 /\ UNCHANGED <<application, wire, outbox, logger, rows, arrived>>

\* The request is lost, or answered 503 with a full backlog.
Drop(e) == e \in wire /\ wire' = wire \ {e} /\ UNCHANGED <<application, monitor, arrived>>

-----------------------------------------------------------------------------
(* LogDelivery *)

ReadOutbox ==
  /\ logger = Idle /\ outbox # <<>>
  /\ logger' = At("waiting", Head(outbox))
  /\ UNCHANGED <<application, wire, stored, outbox, rows, arrived>>

Forward ==
  /\ logger.at = "waiting"
  /\ arrived' = arrived \cup {logger.row}
  /\ logger' = At("acked", logger.row)
  /\ UNCHANGED <<application, wire, stored, outbox, rows>>

LogAcknowledge ==
  /\ logger.at = "acked"
  /\ outbox' = RemoveFirst(outbox, logger.row)
  /\ logger' = Idle
  /\ UNCHANGED <<application, wire, stored, rows, arrived>>

\* The backend does not answer, or its answer is lost, or the deletion fails.
LogGiveUp ==
  /\ logger # Idle
  /\ logger' = Idle
  /\ UNCHANGED <<application, wire, stored, outbox, rows, arrived>>

-----------------------------------------------------------------------------
CrashApplication == sender # Idle /\ sender' = Idle
                    /\ UNCHANGED <<pending, stats, offered, accepted, wire, monitor, arrived>>
CrashMonitor == logger' = Idle /\ wire' = {}
                /\ UNCHANGED <<application, stored, outbox, rows, arrived>>

GrowOld(e) == /\ stored[e] = "fresh" /\ stored' = [stored EXCEPT ![e] = "old"]
              /\ UNCHANGED <<application, wire, outbox, logger, rows, arrived>>

Next == \/ \E e \in Events : Enqueue(e) \/ Persist(e) \/ PersistUnheard(e) \/ Drop(e) \/ GrowOld(e)
        \/ OtherProducer \/ Send \/ Acknowledge \/ GiveUp
        \/ ReadOutbox \/ Forward \/ LogAcknowledge \/ LogGiveUp
        \/ CrashApplication \/ CrashMonitor

Spec == Init /\ [][Next]_vars
\* The workers go on; a request that is repeated for ever is handled and answered
\* in time at some point, and so are the deletions.
FairSpec == /\ Spec /\ WF_vars(Send) /\ WF_vars(ReadOutbox) /\ WF_vars(GiveUp) /\ WF_vars(LogGiveUp)
            /\ SF_vars(Acknowledge) /\ SF_vars(Forward) /\ SF_vars(LogAcknowledge)
            /\ \A e \in Events : SF_vars(sender = At("waiting", e) /\ Persist(e))

-----------------------------------------------------------------------------
(* Properties. *)

TypeOK ==
  /\ \A queue \in {pending, outbox} : ToSet(queue) \subseteq Events /\ IsInjective(queue)
  /\ Len(pending) <= Capacity /\ Len(outbox) <= Backlog
  /\ stats \in [{"accepted", "delivered", "rejected"} -> Nat]
  /\ {sender, logger} \subseteq {Idle} \cup [at : {"waiting", "acked"}, row : Events]
  /\ stored \in [Events -> {"no", "fresh", "old"}]
  /\ wire \subseteq Events /\ accepted \subseteq offered /\ offered \subseteq Events
  /\ rows \in [Events -> 0..2] /\ arrived \subseteq Events

\* Whatever is lost on the way or dies, an accepted event is in the application's
\* queue or the monitor's outbox until the log backend has it; the counters account
\* for it: those accepted are pending or delivered; and retention does not delete an
\* incident whose log record is still to be sent.
StillThere == accepted \subseteq ToSet(pending) \cup ToSet(outbox) \cup arrived
StatsBalance == stats.accepted = stats.delivered + Len(pending)
PendingNotPurged == \A e \in ToSet(outbox) : stored[e] # "no"
NothingLost == StillThere /\ StatsBalance /\ PendingNotPurged

\* Redelivery of the same ID adds no second incident row.
OneRow == \A e \in Events : rows[e] <= 1

-----------------------------------------------------------------------------
(* What the telemetry path promises for the events the queue accepted: each *)
(* arrives at the log backend, at least once, and nothing else does         *)
(* (docs/operations/SECURITY-TELEMETRY-CONTRACT.md).                        *)

relay == <<accepted, arrived>>
RelayInit == accepted = {} /\ arrived = {}
RelayAccept(e) == e \notin accepted /\ accepted' = accepted \cup {e} /\ UNCHANGED arrived
RelayArrive(e) == e \in accepted \ arrived /\ arrived' = arrived \cup {e} /\ UNCHANGED accepted
RelayNext == \E e \in Events : RelayAccept(e) \/ RelayArrive(e)

\* The two hops implement the relay: nothing arrives that was not accepted, ...
RelaySafe == RelayInit /\ [][RelayNext]_relay
\* ... and what is accepted arrives.
RelaySpec == RelaySafe /\ \A e \in Events : WF_relay(RelayArrive(e))
-----------------------------------------------------------------------------
(* Proofs, for any events and any capacities.  First, a table with a primary *)
(* key, read in the order of its rows.                                      *)

LEMMA SetOfQueue ==
  ASSUME NEW S, NEW q \in Seq(S)
  PROVE  /\ Len(q) \in Nat /\ DOMAIN q = 1..Len(q) /\ ToSet(q) \subseteq S
         /\ q # <<>> => Head(q) = q[1] /\ Head(q) \in ToSet(q) /\ 1 \in 1..Len(q)
<1>1. Len(q) \in Nat /\ DOMAIN q = 1..Len(q)
  BY LenProperties
<1>2. ToSet(q) \subseteq S
  BY <1>1 DEF ToSet
<1>3. ASSUME q # <<>> PROVE Head(q) = q[1] /\ 1 \in 1..Len(q)
  BY <1>1, <1>3, EmptySeq
<1> QED BY <1>1, <1>2, <1>3 DEF ToSet

LEMMA Queued ==
  ASSUME NEW S, NEW q \in Seq(S), NEW e \in S, e \notin ToSet(q), IsInjective(q)
  PROVE  /\ Append(q, e) \in Seq(S) /\ Append(q, e) # <<>> /\ Len(Append(q, e)) = Len(q) + 1
         /\ IsInjective(Append(q, e)) /\ ToSet(Append(q, e)) = ToSet(q) \cup {e}
         /\ q # <<>> => Head(Append(q, e)) = Head(q)
<1> DEFINE a == Append(q, e)
<1>1. /\ a \in Seq(S) /\ a # <<>> /\ Len(a) = Len(q) + 1
      /\ \A i \in 1..Len(q) : a[i] = q[i]
      /\ a[Len(q) + 1] = e
  BY AppendProperties
<1>2. /\ Len(q) \in Nat /\ DOMAIN q = 1..Len(q) /\ DOMAIN a = 1..(Len(q) + 1)
  BY <1>1, LenProperties
<1>3. q # <<>> => Head(a) = Head(q)
  BY HeadTailAppend
<1> HIDE DEF a
<1>4. ToSet(a) = ToSet(q) \cup {e}
  BY <1>1, <1>2 DEF ToSet
<1>5. IsInjective(a)
  <2>1. \A i \in 1..Len(q) : q[i] # e
    BY <1>2 DEF ToSet
  <2> QED BY <1>1, <1>2, <2>1 DEF IsInjective
<1> QED BY <1>1, <1>3, <1>4, <1>5 DEF a

LEMMA HeadRemoved ==
  ASSUME NEW S, NEW q \in Seq(S), q # <<>>, IsInjective(q)
  PROVE  LET r == RemoveFirst(q, Head(q)) IN
         /\ r \in Seq(S) /\ Len(r) = Len(q) - 1
         /\ IsInjective(r) /\ ToSet(r) = ToSet(q) \ {Head(q)}
<1> DEFINE r == RemoveFirst(q, Head(q))
<1>1. /\ Len(q) \in Nat /\ DOMAIN q = 1..Len(q) /\ Head(q) = q[1] /\ 1 \in 1..Len(q)
  BY SetOfQueue
<1>2. /\ {i \in 1..Len(q) : q[i] = Head(q)} = {1} /\ Min({1}) = 1
      /\ \E i \in 1..Len(q) : q[i] = Head(q)
  BY <1>1 DEF IsInjective, Min
<1>3. r = SubSeq(q, 1, 0) \o SubSeq(q, 2, Len(q))
  <2>1. r = RemoveAt(q, 1)
    BY <1>2 DEF RemoveFirst, SelectInSeq
  <2> QED BY <2>1 DEF RemoveAt
<1>4. r = Tail(q)
  <2>1. SubSeq(q, 1, 0) = <<>>
    BY SubSeqEmpty
  <2>2. SubSeq(q, 2, Len(q)) = Tail(q) /\ Tail(q) \in Seq(S)
    BY TailIsSubSeq, HeadTailProperties
  <2> QED BY <1>3, <2>1, <2>2, ConcatEmptySeq
<1>5. /\ r \in Seq(S) /\ Len(r) = Len(q) - 1 /\ \A i \in 1..Len(r) : r[i] = q[i + 1]
  BY <1>4, HeadTailProperties
<1> HIDE DEF r
<1>6. DOMAIN r = 1..(Len(q) - 1)
  BY <1>5, LenProperties
<1>7. IsInjective(r)
  <2> SUFFICES ASSUME NEW i \in DOMAIN r, NEW j \in DOMAIN r, r[i] = r[j] PROVE i = j
    BY DEF IsInjective
  <2>1. i + 1 \in DOMAIN q /\ j + 1 \in DOMAIN q /\ q[i + 1] = q[j + 1]
    BY <1>1, <1>5, <1>6
  <2>2. i + 1 = j + 1
    BY <2>1 DEF IsInjective
  <2> QED BY <1>1, <1>6, <2>2
<1>8. ToSet(r) = ToSet(q) \ {Head(q)}
  <2>1. ASSUME NEW x \in ToSet(r) PROVE x \in ToSet(q) \ {Head(q)}
    BY <1>1, <1>5, <1>6, <2>1 DEF ToSet, IsInjective
  <2>2. ASSUME NEW x \in ToSet(q), x # Head(q) PROVE x \in ToSet(r)
    <3>1. PICK i \in 1..Len(q) : x = q[i]
      BY <1>1, <2>2 DEF ToSet
    <3>2. i - 1 \in DOMAIN r /\ r[i - 1] = x
      BY <1>1, <1>5, <1>6, <2>2, <3>1
    <3> QED BY <3>2 DEF ToSet
  <2> QED BY <2>1, <2>2
<1> QED BY <1>5, <1>7, <1>8 DEF r

-----------------------------------------------------------------------------
(* The inductive invariant. *)

Names == {"accepted", "delivered", "rejected"}
Ages == {"no", "fresh", "old"}

\* The application's side: what is pending, or under way, was accepted.
QueueOK == /\ pending \in Seq(Events) /\ IsInjective(pending) /\ Len(pending) <= Capacity
           /\ stats \in [Names -> Nat] /\ StatsBalance
           /\ ToSet(pending) \subseteq accepted /\ wire \subseteq accepted
           /\ accepted \subseteq offered /\ offered \subseteq Events

\* The monitor's side: a row that is stored is still to be logged, or was.
TablesOK == /\ outbox \in Seq(Events) /\ IsInjective(outbox) /\ Len(outbox) <= Backlog
            /\ stored \in [Events -> Ages] /\ rows \in [Events -> 0..2]
            /\ ToSet(outbox) \subseteq accepted /\ arrived \subseteq accepted
            /\ PendingNotPurged
            /\ \A e \in Events : stored[e] # "no" => e \in ToSet(outbox) \cup arrived

\* A worker has the first row of its queue; and one that was answered has a row
\* that the next station has taken over.
SenderHolds == sender # Idle =>
  /\ pending # <<>>
  /\ \/ sender = At("waiting", Head(pending))
     \/ sender = At("acked", Head(pending)) /\ Head(pending) \in ToSet(outbox) \cup arrived
LoggerHolds == logger # Idle =>
  /\ outbox # <<>>
  /\ \/ logger = At("waiting", Head(outbox))
     \/ logger = At("acked", Head(outbox)) /\ Head(outbox) \in arrived

PipeInv == QueueOK /\ TablesOK /\ SenderHolds /\ LoggerHolds /\ StillThere

-----------------------------------------------------------------------------
(* The steps. *)

LEMMA InitPipe == Init => PipeInv
<1> SUFFICES ASSUME Init PROVE PipeInv  OBVIOUS
<1>1. /\ pending = <<>> /\ outbox = <<>> /\ <<>> \in Seq(Events) /\ Len(<<>>) = 0
      /\ ToSet(<<>>) = {} /\ IsInjective(<<>>)
  <2>1. <<>> \in Seq(Events) /\ Len(<<>>) = 0 /\ DOMAIN <<>> = {}
    BY EmptySeq, LenProperties
  <2> QED BY <2>1 DEF Init, ToSet, IsInjective
<1>2. QueueOK
  BY <1>1, BoundAssumption DEF Init, QueueOK, Names, StatsBalance
<1>3. TablesOK
  BY <1>1, BoundAssumption DEF Init, TablesOK, Ages, PendingNotPurged
<1>4. SenderHolds /\ LoggerHolds /\ StillThere
  BY DEF Init, SenderHolds, LoggerHolds, StillThere
<1> QED BY <1>2, <1>3, <1>4 DEF PipeInv

\* What the counters say after one of them grew.
LEMMA Counted ==
  ASSUME stats \in [Names -> Nat], NEW name \in Names, Count(name)
  PROVE  /\ stats' \in [Names -> Nat] /\ stats'[name] = stats[name] + 1
         /\ \A n \in Names : n # name => stats'[n] = stats[n]
  BY DEF Count

LEMMA EnqueueStep ==
  ASSUME PipeInv, NEW e \in Events, Enqueue(e)
  PROVE  PipeInv'
<1>a. /\ QueueOK /\ TablesOK /\ SenderHolds /\ LoggerHolds /\ StillThere
      /\ e \notin offered /\ offered' = offered \cup {e}
      /\ UNCHANGED <<sender, wire, stored, outbox, logger, rows, arrived>>
  BY DEF PipeInv, Enqueue, monitor
<1>b. /\ pending \in Seq(Events) /\ e \notin ToSet(pending) /\ e \notin accepted
      /\ Len(pending) \in Nat
  BY <1>a, LenProperties DEF QueueOK
<1>1. CASE /\ Len(pending) < Capacity
           /\ pending' = Append(pending, e) /\ accepted' = accepted \cup {e} /\ Count("accepted")
  <2>1. /\ pending' \in Seq(Events) /\ Len(pending') = Len(pending) + 1 /\ IsInjective(pending')
        /\ ToSet(pending') = ToSet(pending) \cup {e}
        /\ pending # <<>> => pending' # <<>> /\ Head(pending') = Head(pending)
    BY <1>a, <1>b, <1>1, Queued DEF QueueOK
  <2>2. /\ stats' \in [Names -> Nat] /\ stats'.accepted = stats.accepted + 1
        /\ stats'.delivered = stats.delivered
    BY <1>a, <1>1, Counted DEF QueueOK, Names
  <2>3. StatsBalance'
    BY <1>a, <1>b, <2>1, <2>2 DEF QueueOK, StatsBalance, Names
  <2>4. QueueOK'
    BY <1>a, <1>b, <1>1, <2>1, <2>2, <2>3, BoundAssumption DEF QueueOK
  <2>5. TablesOK' /\ SenderHolds' /\ LoggerHolds' /\ StillThere'
    BY <1>a, <1>1, <2>1 DEF TablesOK, PendingNotPurged, SenderHolds, LoggerHolds, StillThere
  <2> QED BY <2>4, <2>5 DEF PipeInv
<1>2. CASE UNCHANGED <<pending, accepted>> /\ Count("rejected")
  <2>1. /\ stats' \in [Names -> Nat] /\ stats'.accepted = stats.accepted
        /\ stats'.delivered = stats.delivered
    BY <1>a, <1>2, Counted DEF QueueOK, Names
  <2>2. QueueOK' /\ TablesOK' /\ SenderHolds' /\ LoggerHolds' /\ StillThere'
    BY <1>a, <1>2, <2>1 DEF QueueOK, StatsBalance, TablesOK, PendingNotPurged, SenderHolds,
       LoggerHolds, StillThere
  <2> QED BY <2>2 DEF PipeInv
<1> QED BY <1>1, <1>2 DEF Enqueue

LEMMA AcknowledgeStep == ASSUME PipeInv, Acknowledge PROVE PipeInv'
<1>a. /\ QueueOK /\ TablesOK /\ SenderHolds /\ LoggerHolds /\ StillThere
      /\ sender.at = "acked" /\ sender' = Idle
      /\ pending' = RemoveFirst(pending, sender.row) /\ Count("delivered")
      /\ UNCHANGED <<offered, accepted, wire, stored, outbox, logger, rows, arrived>>
  BY DEF PipeInv, Acknowledge, monitor
<1>b. /\ pending # <<>> /\ sender.row = Head(pending) /\ Head(pending) \in ToSet(outbox) \cup arrived
  BY <1>a DEF SenderHolds, At, Idle
<1>1. /\ pending' \in Seq(Events) /\ Len(pending') = Len(pending) - 1
      /\ IsInjective(pending') /\ ToSet(pending') = ToSet(pending) \ {Head(pending)}
      /\ Len(pending) \in Nat
  BY <1>a, <1>b, HeadRemoved, LenProperties DEF QueueOK
<1>2. /\ stats' \in [Names -> Nat] /\ stats'.accepted = stats.accepted
      /\ stats'.delivered = stats.delivered + 1
  BY <1>a, Counted DEF QueueOK, Names
<1>3. StatsBalance'
  BY <1>a, <1>1, <1>2 DEF QueueOK, StatsBalance, Names
<1>4. QueueOK'
  BY <1>a, <1>1, <1>2, <1>3, BoundAssumption DEF QueueOK
<1>5. TablesOK' /\ SenderHolds' /\ LoggerHolds' /\ StillThere'
  BY <1>a, <1>b, <1>1 DEF TablesOK, PendingNotPurged, SenderHolds, LoggerHolds, StillThere
<1> QED BY <1>4, <1>5 DEF PipeInv

\* The sender takes the first row, or loses it; a request is lost.
LEMMA SenderStep ==
  ASSUME PipeInv, Send \/ GiveUp \/ CrashApplication \/ \E e \in Events : Drop(e)
  PROVE  PipeInv'
<1>a. /\ QueueOK /\ TablesOK /\ SenderHolds /\ LoggerHolds /\ StillThere
      /\ UNCHANGED <<pending, stats, offered, accepted, stored, outbox, logger, rows, arrived>>
      /\ \/ sender' \in {Idle, sender}
         \/ sender' = At("waiting", Head(pending)) /\ pending # <<>>
      /\ \/ wire' \subseteq wire
         \/ wire' = wire \cup {Head(pending)} /\ pending # <<>>
  <2>1. CASE Send
    BY <2>1 DEF PipeInv, Send, monitor
  <2>2. CASE GiveUp \/ CrashApplication
    BY <2>2 DEF PipeInv, GiveUp, CrashApplication, monitor
  <2>3. CASE \E e \in Events : Drop(e)
    BY <2>3 DEF PipeInv, Drop, monitor, application
  <2> QED BY <2>1, <2>2, <2>3
<1>1. pending # <<>> => Head(pending) \in accepted
  BY <1>a, SetOfQueue DEF QueueOK
<1>2. QueueOK'
  BY <1>a, <1>1 DEF QueueOK, StatsBalance
<1>3. TablesOK' /\ SenderHolds' /\ LoggerHolds' /\ StillThere'
  BY <1>a DEF TablesOK, PendingNotPurged, SenderHolds, LoggerHolds, StillThere
<1> QED BY <1>2, <1>3 DEF PipeInv

\* The monitor inserts an event that it does not know, and purges what is logged and old.
LEMMA Inserted ==
  ASSUME PipeInv, NEW e \in Events, e \in wire, Insert(e)
  PROVE  /\ outbox' \in Seq(Events) /\ IsInjective(outbox') /\ Len(outbox') <= Backlog
         /\ ToSet(outbox') = ToSet(outbox) \cup {e}
         /\ outbox # <<>> => outbox' # <<>> /\ Head(outbox') = Head(outbox)
         /\ stored' \in [Events -> Ages] /\ rows' \in [Events -> 0..2]
         /\ \A x \in Events : /\ x \in ToSet(outbox') => stored'[x] # "no"
                              /\ stored'[x] # "no" => stored[x] # "no" \/ x = e
<1>a. /\ TablesOK /\ outbox \in Seq(Events) /\ stored[e] = "no" /\ ~(Len(outbox) >= Backlog)
      /\ outbox' = Append(outbox, e) /\ Len(outbox) \in Nat
      /\ stored' = [Purged EXCEPT ![e] = "fresh"]
      /\ rows' = [rows EXCEPT ![e] = IF @ = 0 THEN 1 ELSE 2]
  BY LenProperties DEF PipeInv, TablesOK, Insert, Known, Full
<1>1. e \notin ToSet(outbox)
  BY <1>a DEF TablesOK, PendingNotPurged
<1>2. /\ outbox' \in Seq(Events) /\ IsInjective(outbox') /\ Len(outbox') = Len(outbox) + 1
      /\ ToSet(outbox') = ToSet(outbox) \cup {e}
      /\ outbox # <<>> => outbox' # <<>> /\ Head(outbox') = Head(outbox)
  BY <1>a, <1>1, Queued DEF TablesOK
<1>3. Len(outbox') <= Backlog
  BY <1>a, <1>2, BoundAssumption
<1>4. /\ stored' \in [Events -> Ages]
      /\ \A x \in Events : stored'[x] = IF x = e THEN "fresh" ELSE
                                        IF Retained(x) THEN stored[x] ELSE "no"
  BY <1>a DEF TablesOK, Purged, Ages
<1>5. rows' \in [Events -> 0..2]
  BY <1>a DEF TablesOK
<1>6. \A x \in Events : /\ x \in ToSet(outbox') => stored'[x] # "no"
                        /\ stored'[x] # "no" => stored[x] # "no" \/ x = e
  BY <1>a, <1>2, <1>4 DEF TablesOK, PendingNotPurged, Retained
<1> QED BY <1>2, <1>3, <1>4, <1>5, <1>6

LEMMA PersistStep ==
  ASSUME PipeInv, NEW e \in Events, Persist(e) \/ PersistUnheard(e)
  PROVE  PipeInv'
<1>a. /\ QueueOK /\ TablesOK /\ SenderHolds /\ LoggerHolds /\ StillThere
      /\ e \in wire /\ wire' = wire \ {e} /\ e \in accepted
      /\ UNCHANGED <<pending, stats, offered, accepted, logger, arrived>>
      /\ \/ sender' = sender
         \/ sender = At("waiting", e) /\ sender' = At("acked", e)
      /\ \/ Insert(e)
         \/ Known(e) /\ UNCHANGED <<stored, outbox, rows>>
  <2>1. CASE Persist(e)
    BY <2>1 DEF PipeInv, QueueOK, Persist
  <2>2. CASE PersistUnheard(e)
    BY <2>2 DEF PipeInv, QueueOK, PersistUnheard, application
  <2> QED BY <2>1, <2>2
<1>1. QueueOK'
  BY <1>a DEF QueueOK, StatsBalance
<1>2. /\ TablesOK' /\ ToSet(outbox) \subseteq ToSet(outbox')
      /\ outbox # <<>> => outbox' # <<>> /\ Head(outbox') = Head(outbox)
      /\ e \in ToSet(outbox') \cup arrived
  <2>1. CASE Insert(e)
    <3>1. /\ outbox' \in Seq(Events) /\ IsInjective(outbox') /\ Len(outbox') <= Backlog
          /\ ToSet(outbox') = ToSet(outbox) \cup {e}
          /\ outbox # <<>> => outbox' # <<>> /\ Head(outbox') = Head(outbox)
          /\ stored' \in [Events -> Ages] /\ rows' \in [Events -> 0..2]
          /\ \A x \in Events : /\ x \in ToSet(outbox') => stored'[x] # "no"
                               /\ stored'[x] # "no" => stored[x] # "no" \/ x = e
      BY <1>a, <2>1, Inserted
    <3>2. ToSet(outbox') \subseteq Events
      BY <3>1, SetOfQueue
    <3> QED BY <1>a, <3>1, <3>2 DEF TablesOK, PendingNotPurged
  <2>2. CASE Known(e) /\ UNCHANGED <<stored, outbox, rows>>
    BY <1>a, <2>2 DEF TablesOK, PendingNotPurged, Known
  <2> QED BY <1>a, <2>1, <2>2
<1>3. SenderHolds'
  BY <1>a, <1>2 DEF SenderHolds, At, Idle
<1>4. LoggerHolds' /\ StillThere'
  BY <1>a, <1>2 DEF LoggerHolds, StillThere
<1> QED BY <1>1, <1>2, <1>3, <1>4 DEF PipeInv

\* A row of events_v2 grows old, or is purged once its log record was sent.
LEMMA AgeStep ==
  ASSUME PipeInv, OtherProducer \/ \E e \in Events : GrowOld(e)
  PROVE  PipeInv'
<1>a. /\ QueueOK /\ TablesOK /\ SenderHolds /\ LoggerHolds /\ StillThere
      /\ UNCHANGED <<pending, stats, sender, offered, accepted, wire, outbox, logger, rows, arrived>>
  BY DEF PipeInv, OtherProducer, GrowOld, application
<1>1. /\ stored' \in [Events -> Ages]
      /\ \A x \in Events : /\ stored'[x] # "no" => stored[x] # "no"
                           /\ x \in ToSet(outbox) => (stored'[x] = "no" <=> stored[x] = "no")
  <2>1. CASE OtherProducer
    BY <1>a, <2>1 DEF OtherProducer, Purged, Retained, TablesOK, Ages
  <2>2. ASSUME NEW e \in Events, GrowOld(e)
        PROVE  /\ stored' \in [Events -> Ages]
               /\ \A x \in Events : stored'[x] = "no" <=> stored[x] = "no"
    BY <1>a, <2>2 DEF GrowOld, TablesOK, Ages
  <2> QED BY <2>1, <2>2
<1>2. ToSet(outbox) \subseteq Events
  BY <1>a, SetOfQueue DEF TablesOK
<1>3. TablesOK'
  BY <1>a, <1>1, <1>2 DEF TablesOK, PendingNotPurged
<1>4. QueueOK' /\ SenderHolds' /\ LoggerHolds' /\ StillThere'
  BY <1>a DEF QueueOK, StatsBalance, SenderHolds, LoggerHolds, StillThere
<1> QED BY <1>3, <1>4 DEF PipeInv

\* The log worker takes the first row, sends it, or loses it.
LEMMA LoggerStep ==
  ASSUME PipeInv, ReadOutbox \/ Forward \/ LogGiveUp \/ CrashMonitor
  PROVE  PipeInv'
<1>a. /\ QueueOK /\ TablesOK /\ SenderHolds /\ LoggerHolds /\ StillThere
      /\ UNCHANGED <<pending, stats, sender, offered, accepted, stored, outbox, rows>>
      /\ wire' \subseteq wire
      /\ \/ logger' = Idle /\ arrived' = arrived
         \/ outbox # <<>> /\ logger' = At("waiting", Head(outbox)) /\ arrived' = arrived
         \/ Forward
  BY DEF PipeInv, ReadOutbox, Forward, LogGiveUp, CrashMonitor, application
<1>1. Forward => /\ outbox # <<>> /\ logger.row = Head(outbox) /\ logger' = At("acked", Head(outbox))
                 /\ arrived' = arrived \cup {Head(outbox)}
  BY <1>a DEF Forward, LoggerHolds, At, Idle
<1>2. outbox # <<>> => Head(outbox) \in ToSet(outbox)
  BY <1>a, SetOfQueue DEF TablesOK
<1>3. arrived \subseteq arrived' /\ arrived' \subseteq arrived \cup ToSet(outbox) /\ LoggerHolds'
  BY <1>a, <1>1, <1>2 DEF LoggerHolds
<1>4. QueueOK' /\ TablesOK' /\ SenderHolds' /\ StillThere'
  BY <1>a, <1>3 DEF QueueOK, StatsBalance, TablesOK, PendingNotPurged, SenderHolds, StillThere
<1> QED BY <1>3, <1>4 DEF PipeInv

LEMMA LogAcknowledgeStep == ASSUME PipeInv, LogAcknowledge PROVE PipeInv'
<1>a. /\ QueueOK /\ TablesOK /\ SenderHolds /\ LoggerHolds /\ StillThere
      /\ logger.at = "acked" /\ logger' = Idle /\ outbox' = RemoveFirst(outbox, logger.row)
      /\ UNCHANGED <<pending, stats, sender, offered, accepted, wire, stored, rows, arrived>>
  BY DEF PipeInv, LogAcknowledge, application
<1>b. outbox # <<>> /\ logger.row = Head(outbox) /\ Head(outbox) \in arrived
  BY <1>a DEF LoggerHolds, At, Idle
<1>1. /\ outbox' \in Seq(Events) /\ Len(outbox') = Len(outbox) - 1
      /\ IsInjective(outbox') /\ ToSet(outbox') = ToSet(outbox) \ {Head(outbox)}
      /\ Len(outbox) \in Nat
  BY <1>a, <1>b, HeadRemoved, LenProperties DEF TablesOK
<1>2. TablesOK'
  BY <1>a, <1>b, <1>1, BoundAssumption DEF TablesOK, PendingNotPurged
<1>3. QueueOK' /\ SenderHolds' /\ LoggerHolds' /\ StillThere'
  BY <1>a, <1>b, <1>1 DEF QueueOK, StatsBalance, SenderHolds, LoggerHolds, StillThere
<1> QED BY <1>2, <1>3 DEF PipeInv

LEMMA NextPipe == PipeInv /\ [Next]_vars => PipeInv'
<1> SUFFICES ASSUME PipeInv, [Next]_vars PROVE PipeInv'  OBVIOUS
<1>1. CASE UNCHANGED vars
  BY <1>1 DEF vars, application, monitor, PipeInv, QueueOK, StatsBalance, TablesOK,
     PendingNotPurged, SenderHolds, LoggerHolds, StillThere
<1>2. CASE Next
  BY <1>2, EnqueueStep, AcknowledgeStep, SenderStep, PersistStep, AgeStep, LoggerStep,
     LogAcknowledgeStep DEF Next
<1> QED BY <1>1, <1>2

\* The queues, the tables and the workers, as they are in every state.
THEOREM PipeInvariance == Spec => []PipeInv
BY InitPipe, NextPipe, PTL DEF Spec

\* An accepted event is pending, in the outbox or logged, the counters account for it,
\* and no row is purged whose log record is still to be sent.
THEOREM NothingLostAlways == Spec => []NothingLost
<1>1. PipeInv => NothingLost
  BY DEF PipeInv, QueueOK, TablesOK, NothingLost
<1> QED BY <1>1, PipeInvariance, PTL

\* The safety half of RelaySpec: what arrives was accepted, one event in a step, and
\* nothing that was accepted or has arrived is taken back.
THEOREM RelaysSafely == Spec => RelaySafe
<1>1. Init => RelayInit
  BY DEF Init, RelayInit
<1>2. PipeInv /\ [Next]_vars => [RelayNext]_relay
  <2> SUFFICES ASSUME PipeInv, [Next]_vars PROVE [RelayNext]_relay  OBVIOUS
  <2>1. ASSUME NEW e \in Events, Enqueue(e) PROVE [RelayNext]_relay
    <3>1. e \notin accepted /\ arrived' = arrived
      BY <2>1 DEF PipeInv, QueueOK, Enqueue
    <3>2. accepted' = accepted \cup {e} \/ accepted' = accepted
      BY <2>1 DEF Enqueue
    <3> QED BY <3>1, <3>2 DEF RelayNext, RelayAccept, relay
  <2>2. CASE Forward
    <3>1. /\ outbox # <<>> /\ arrived' = arrived \cup {Head(outbox)} /\ accepted' = accepted
      BY <2>2 DEF PipeInv, LoggerHolds, Forward, At, Idle, application
    <3>2. Head(outbox) \in accepted /\ Head(outbox) \in Events
      BY <3>1, SetOfQueue DEF PipeInv, TablesOK, QueueOK
    <3>3. arrived' = arrived \/ RelayArrive(Head(outbox))
      BY <3>1, <3>2 DEF RelayArrive
    <3> QED BY <3>1, <3>2, <3>3 DEF RelayNext, relay
  <2>3. CASE ~Forward /\ ~\E e \in Events : Enqueue(e)
    <3>1. UNCHANGED <<accepted, arrived>>
      BY <2>3 DEF Next, vars, application, monitor, Persist, PersistUnheard, Drop, GrowOld,
         OtherProducer, Send, Acknowledge, GiveUp, ReadOutbox, LogAcknowledge, LogGiveUp,
         CrashApplication, CrashMonitor
    <3> QED BY <3>1 DEF relay
  <2> QED BY <2>1, <2>2, <2>3
<1> QED BY <1>1, <1>2, PipeInvariance, PTL DEF Spec, RelaySafe
=============================================================================
