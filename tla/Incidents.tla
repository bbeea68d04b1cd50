------------------------------ MODULE Incidents ------------------------------
(* The incident log and the request counters of one instance.  A request   *)
(* gathers drafts and is settled once; a record is admitted or counted as  *)
(* suppressed, then written to Redis, or buffered while Redis is away and  *)
(* flushed when it is back.                                                *)
(*                                                                         *)
(* An occurrence is a number; a record is the set of occurrences it stands *)
(* for (one, the drafts of a failed request, or the suppressed ones that a *)
(* summary counts).                                                        *)
EXTENDS Naturals, Sequences, FiniteSets, Functions

CONSTANTS
  IncRequests,    \* HTTP requests under way
  IncidentFifo,   \* INCIDENT_FIFO
  IncidentCap,    \* INCIDENT_CAP
  SignatureLimit, \* SIGNATURE_LIMIT
  DraftsMax,      \* DRAFTS_PER_REQUEST_MAX
  MaxOccurrences, \* bound: occurrences
  MaxIncSteps     \* bound: requests, outages and ticks

ASSUME IncidentConstants ==
  /\ {IncidentFifo, IncidentCap, SignatureLimit, DraftsMax} \subseteq Nat \ {0}
  /\ MaxOccurrences \in Nat /\ MaxIncSteps \in Nat

VARIABLES
  ctx,       \* the trace contexts: closed, or the drafts gathered
  signature, \* the window of the one signature: count, what it suppressed
  flight,    \* store.add calls of send, not answered yet
  fifo,      \* the buffer
  flush,     \* the flush: off, or the record it is adding
  ring,      \* the ring and its detail hash, in Redis: numbered records,
  detail,    \* newest first, each with its age: 1 is past the
             \* purge's cutoff, 2 past INCIDENT_MAX_AGE_DAYS
  metric,    \* the day's counters: in Redis, pending, in a pipeline
  upstream,  \* Redis: [ready, downRecorded]
  incLog,     \* [seq, seen, sent, stored, capped, overflows]
  incLeft    \* what is left of MaxIncSteps

incVars == <<ctx, signature, flight, fifo, flush, ring, detail, metric, upstream,
             incLog, incLeft>>

ClosedContext == [open |-> FALSE, counted |-> FALSE, drafts |-> <<>>]
NoWindow == [there |-> FALSE, over |-> FALSE, count |-> 0, held |-> {}]
Outcomes == {"ok", "late", "retried", "accepted already", "unconfigured", "failed"}
NotFlushing == [pc |-> "off", rec |-> {}]
FlushFrom == [pc |-> "next", rec |-> {}]
RedisIsReady == upstream.ready
SpendInc == incLeft > 0 /\ incLeft' = incLeft - 1
NoCounts == [req |-> 0, err |-> 0]
AddCounts(a, b) == [req |-> a.req + b.req, err |-> a.err + b.err]

-----------------------------------------------------------------------------
(* pushFifo: the oldest makes room.                                        *)
PushFifo(records) ==
  LET all == fifo \o records
      over == IF Len(all) > IncidentFifo THEN Len(all) - IncidentFifo ELSE 0 IN
  [fifo |-> SubSeq(all, over + 1, Len(all)), over |-> over]

(* send: into the buffer while Redis is not ready, else an add.            *)
Send(records, g) ==
  IF RedisIsReady
  THEN /\ flight' = flight \cup Range(records) /\ UNCHANGED fifo
       /\ incLog' = [g EXCEPT !.sent = @ \cup Range(records)]
  ELSE /\ fifo' = PushFifo(records).fifo /\ UNCHANGED flight
       /\ incLog' = [g EXCEPT !.sent = @ \cup Range(records),
                             !.overflows = @ + PushFifo(records).over]

(* emitSuppressed: one summary for what a closed window suppressed.        *)
(* Mutant of EmitSuppressed: the window is forgotten with its count.       *)
ForgetSuppressed(s) == <<>>
EmitSuppressed(s) == IF s.held = {} THEN <<>> ELSE <<s.held>>

(* admit, of one record after the other: a window that is missing or over  *)
(* makes way for a new one, and what it suppressed is summed up; then the  *)
(* records that have room are sent, and the others suppressed.             *)
Admit(records) ==
  LET fresh == ~signature.there \/ signature.over
      before == IF fresh THEN NoWindow ELSE signature
      count == IF before.count + Len(records) < SignatureLimit
                 THEN before.count + Len(records) ELSE SignatureLimit
      sent == count - before.count IN
  [sig |-> [there |-> TRUE, over |-> FALSE, count |-> count,
            held |-> before.held \cup UNION {records[i] : i \in sent + 1 .. Len(records)}],
   send |-> (IF fresh THEN EmitSuppressed(signature) ELSE <<>>) \o SubSeq(records, 1, sent)]

Persist(records, g) ==
  IF records = <<>> THEN UNCHANGED <<signature, flight, fifo>> /\ incLog' = g
  ELSE signature' = Admit(records).sig /\ Send(Admit(records).send, g)

-----------------------------------------------------------------------------
(* The trace middleware opens a context.                                   *)
OpenRequest(q) ==
  /\ ~ctx[q].open /\ SpendInc
  /\ \E c \in BOOLEAN :
       ctx' = [ctx EXCEPT ![q] = [open |-> TRUE, counted |-> c, drafts |-> <<>>]]
  /\ UNCHANGED <<signature, flight, fifo, flush, ring, detail, metric, upstream, incLog>>

(* classifyExternal: which outcomes of a call are incidents.               *)
ClassifyExternal(outcome) == outcome \in {"late", "retried", "failed"}

NextOccurrence == Cardinality(incLog.seen)
SeenNow == [incLog EXCEPT !.seen = @ \cup {NextOccurrence}]
MayOccur == NextOccurrence < MaxOccurrences

(* external, in a request: drafted, while there are few.                   *)
ExternalInRequest(q) ==
  /\ ctx[q].open /\ MayOccur
  /\ IF Len(ctx[q].drafts) < DraftsMax
     THEN ctx' = [ctx EXCEPT ![q].drafts = Append(@, NextOccurrence)] /\ incLog' = SeenNow
     ELSE incLog' = [SeenNow EXCEPT !.capped = @ \cup {NextOccurrence}] /\ UNCHANGED ctx
  /\ UNCHANGED <<signature, flight, fifo, flush, ring, detail, metric, upstream, incLeft>>

(* Outside a request, or after it was settled, the record is persisted.    *)
ExternalAlone ==
  /\ MayOccur /\ Persist(<<{NextOccurrence}>>, SeenNow)
  /\ UNCHANGED <<ctx, flush, ring, detail, metric, upstream, incLeft>>

External ==
  \E outcome \in Outcomes :
    /\ ClassifyExternal(outcome)
    /\ ExternalAlone \/ \E q \in IncRequests : ExternalInRequest(q)

(* count: a pipeline, or pending while Redis is not ready.                 *)
CountRequest(q, d) ==
  metric' = IF ~ctx[q].counted THEN metric
            ELSE IF RedisIsReady THEN [metric EXCEPT !.pipes = Append(@, d)]
            ELSE [metric EXCEPT !.pending = AddCounts(@, d)]

(* settle, on finish or close, whichever is first.  A 5xx is one record    *)
(* for the request and all it drafted; else there is a record for each     *)
(* draft.                                                                  *)
SettleFailed(q) ==
  /\ ctx[q].open /\ MayOccur /\ ctx' = [ctx EXCEPT ![q] = ClosedContext]
  /\ Persist(<<Range(ctx[q].drafts) \cup {NextOccurrence}>>, SeenNow)
  /\ CountRequest(q, [req |-> 1, err |-> 1])
  /\ UNCHANGED <<flush, ring, detail, upstream, incLeft>>
SettleOk(q) ==
  LET drafts == ctx[q].drafts IN
  /\ ctx[q].open /\ ctx' = [ctx EXCEPT ![q] = ClosedContext]
  /\ Persist([i \in DOMAIN drafts |-> {drafts[i]}], incLog)
  /\ CountRequest(q, [req |-> 1, err |-> 0])
  /\ UNCHANGED <<flush, ring, detail, upstream, incLeft>>

(* A window is over after SIGNATURE_WINDOW_MS; the timer sweeps it, unless *)
(* the next record of the signature is first.                              *)
WindowEnds ==
  /\ signature.there /\ ~signature.over /\ SpendInc
  /\ signature' = [signature EXCEPT !.over = TRUE]
  /\ UNCHANGED <<ctx, flight, fifo, flush, ring, detail, metric, upstream, incLog>>
SweepSignatures ==
  /\ signature.over /\ signature' = NoWindow /\ Send(EmitSuppressed(signature), incLog)
  /\ UNCHANGED <<ctx, flush, ring, detail, metric, upstream, incLeft>>

-----------------------------------------------------------------------------
(* ADD_LUA: push; the expired tail is popped, and the ring trimmed to its  *)
(* cap, with their details.                                                *)
Added(r) ==
  LET longer == <<[no |-> incLog.seq, of |-> r, age |-> 0]>> \o ring IN
  \E live \in DOMAIN longer :
    LET kept == IF live > IncidentCap THEN IncidentCap ELSE live IN
    /\ longer[live].age < 2 /\ \A i \in live + 1 .. Len(longer) : longer[i].age = 2
    /\ ring' = SubSeq(longer, 1, kept)
    /\ detail' = (detail \cup {incLog.seq}) \ {longer[i].no : i \in kept + 1 .. Len(longer)}
Stored(r, g) == [g EXCEPT !.seq = @ + 1, !.stored = @ \cup {r}]

(* An add is answered; fails with nothing written; or fails after it was   *)
(* written, its answer lost.                                               *)
AddAnswered(r) ==
  /\ r \in flight /\ flight' = flight \ {r}
  /\ \/ Added(r) /\ incLog' = Stored(r, incLog) /\ UNCHANGED fifo
     \/ /\ fifo' = PushFifo(<<r>>).fifo
        /\ LET g == [incLog EXCEPT !.overflows = @ + PushFifo(<<r>>).over] IN
           \/ Added(r) /\ incLog' = Stored(r, g)
           \/ incLog' = g /\ UNCHANGED <<ring, detail>>
  /\ UNCHANGED <<ctx, signature, flush, metric, upstream, incLeft>>

(* flush: the head is added while it stays in the buffer, then shifted.    *)
FlushNext ==
  /\ flush = FlushFrom
  /\ flush' = IF fifo # <<>> /\ RedisIsReady THEN [pc |-> "add", rec |-> fifo[1]]
              ELSE NotFlushing
  /\ UNCHANGED <<ctx, signature, flight, fifo, ring, detail, metric, upstream, incLog, incLeft>>

(* Mutant of Unflushed: the head is shifted though its add failed.         *)
ShiftAnyway == Tail(fifo)
Unflushed == fifo
FlushAnswered ==
  LET r == flush.rec IN
  /\ flush.pc = "add"
  /\ \/ /\ Added(r) /\ incLog' = Stored(r, incLog)
        /\ fifo' = Tail(fifo) /\ flush' = FlushFrom
     \/ /\ fifo' = Unflushed /\ flush' = NotFlushing
        /\ \/ Added(r) /\ incLog' = Stored(r, incLog)
           \/ UNCHANGED <<ring, detail, incLog>>
  /\ UNCHANGED <<ctx, signature, flight, metric, upstream, incLeft>>

(* purge: what is older than INCIDENT_PURGE_KEEP_DAYS leaves both keys.    *)
RecordsAge ==
  /\ SpendInc
  /\ ring' = [i \in DOMAIN ring |-> [ring[i] EXCEPT !.age = IF @ = 2 THEN 2 ELSE @ + 1]]
  /\ ring' # ring
  /\ UNCHANGED <<ctx, signature, flight, fifo, flush, detail, metric, upstream, incLog>>
Purge ==
  LET young == {i \in DOMAIN ring : ring[i].age = 0} IN
  /\ \E n \in 0 .. Len(ring) : \E at \in [1 .. n -> young] :
       /\ young = {at[i] : i \in 1 .. n} /\ \A i, j \in 1 .. n : i < j => at[i] < at[j]
       /\ ring' = [i \in 1 .. n |-> ring[at[i]]] /\ ring' # ring
  /\ detail' = detail \ {ring[i].no : i \in DOMAIN ring \ young}
  /\ UNCHANGED <<ctx, signature, flight, fifo, flush, metric, upstream, incLog, incLeft>>
(* list: the expired are left out, and what a purge would take is counted. *)
Listed == {e.no : e \in {f \in Range(ring) : f.age < 2}}
Purgeable == {e.no : e \in {f \in Range(ring) : f.age = 1}}
(* detail: one that was evicted is served from its summary.                *)
DetailOf(no) ==
  IF no \in detail THEN "detail" ELSE IF no \in Listed THEN "summary" ELSE "none"
(* read and kpis, of the one day there is.                                 *)
Read == [requests |-> metric.redis.req, failed |-> metric.redis.err,
         daysWithoutData |-> IF metric.redis.req = 0 THEN 1 ELSE 0]
Kpis == [availability |-> Read, inRange |-> Cardinality(Listed)]

-----------------------------------------------------------------------------
(* Redis goes away: the first error event is an incident of its own.       *)
RedisLost ==
  /\ RedisIsReady /\ SpendInc /\ upstream' = [upstream EXCEPT !.ready = FALSE]
  /\ UNCHANGED <<ctx, signature, flight, fifo, flush, ring, detail, metric, incLog>>
RedisErrorEvent ==
  /\ ~RedisIsReady /\ ~upstream.downRecorded /\ MayOccur
  /\ upstream' = [upstream EXCEPT !.downRecorded = TRUE]
  /\ Persist(<<{NextOccurrence}>>, SeenNow)
  /\ UNCHANGED <<ctx, flush, ring, detail, metric, incLeft>>
(* 'ready': the buffer and the pending counters are flushed.               *)
RedisReady ==
  /\ ~RedisIsReady /\ upstream' = [ready |-> TRUE, downRecorded |-> FALSE]
  /\ flush' = IF flush = NotFlushing THEN FlushFrom ELSE flush
  /\ metric' = IF metric.pending = NoCounts THEN metric
               ELSE [metric EXCEPT !.pending = NoCounts, !.pipes = Append(@, metric.pending)]
  /\ UNCHANGED <<ctx, signature, flight, fifo, ring, detail, incLog, incLeft>>

(* A pipeline ran: all its commands, or a prefix of them, the requests     *)
(* first; one that rejects is pending again as a whole, one that resolves  *)
(* with an error for each command is not.                                  *)
(* Mutant of Retried: of a rejected pipeline, only the failures are kept.  *)
RetryFailures(d) == [d EXCEPT !.req = 0]
Retried(d) == d
PipeAnswered ==
  /\ metric.pipes # <<>>
  /\ LET d == Head(metric.pipes)
         rest == [metric EXCEPT !.pipes = Tail(@)] IN
     \E part \in {NoCounts, [d EXCEPT !.err = 0], d} :
       \/ metric' = [rest EXCEPT !.redis = AddCounts(@, part)]
       \/ metric' = [rest EXCEPT !.redis = AddCounts(@, part), !.pending = AddCounts(@, Retried(d))]
  /\ UNCHANGED <<ctx, signature, flight, fifo, flush, ring, detail, upstream, incLog, incLeft>>

-----------------------------------------------------------------------------
IncInit ==
  /\ ctx = [q \in IncRequests |-> ClosedContext] /\ signature = NoWindow
  /\ flight = {} /\ fifo = <<>> /\ flush = NotFlushing /\ ring = <<>> /\ detail = {}
  /\ metric = [redis |-> NoCounts, pending |-> NoCounts, pipes |-> <<>>]
  /\ upstream = [ready |-> TRUE, downRecorded |-> FALSE] /\ incLeft = MaxIncSteps
  /\ incLog = [seq |-> 1, seen |-> {}, sent |-> {}, stored |-> {}, capped |-> {},
              overflows |-> 0]

IncNext ==
  \/ \E q \in IncRequests : OpenRequest(q) \/ SettleFailed(q) \/ SettleOk(q)
  \/ External \/ WindowEnds \/ SweepSignatures
  \/ \E r \in flight : AddAnswered(r)
  \/ FlushNext \/ FlushAnswered \/ RecordsAge \/ Purge
  \/ RedisLost \/ RedisErrorEvent \/ RedisReady \/ PipeAnswered

IncSpec == IncInit /\ [][IncNext]_incVars

-----------------------------------------------------------------------------
(* Whatever Redis does, and whenever: an occurrence is drafted, counted as *)
(* suppressed, or in a record; a record is buffered, being added or was    *)
(* stored, and no more are missing than the buffer overflowed.             *)
RecordsAccounted ==
  /\ incLog.seen = (UNION {Range(ctx[q].drafts) : q \in IncRequests}) \cup signature.held
                  \cup (UNION incLog.sent) \cup incLog.capped
  /\ Cardinality(incLog.sent \ (incLog.stored \cup flight \cup Range(fifo)))
       <= incLog.overflows

(* Every incident a screen lists can be opened in full, whatever was       *)
(* trimmed, and no detail outlives its incident.                           *)
RingMatchesDetail ==
  /\ \A no \in Listed : DetailOf(no) = "detail"
  /\ Purgeable \subseteq Listed /\ Kpis.inRange <= IncidentCap
  /\ detail = {e.no : e \in Range(ring)} /\ Len(ring) <= IncidentCap

(* The availability of a day is never computed from more failures than     *)
(* requests, whatever part of a pipeline was lost or sent twice: neither   *)
(* by what Redis has nor by what is on its way there.                      *)
CountersAreSane ==
  /\ Kpis.availability.failed <= Kpis.availability.requests
  /\ \A d \in {metric.pending} \cup Range(metric.pipes) : d.err <= d.req
  /\ Kpis.availability.daysWithoutData = 1 => Kpis.availability.failed = 0

(* The incident log of one instance, through outages of Redis.             *)
IncidentsAccounted == RecordsAccounted /\ RingMatchesDetail /\ CountersAreSane
=============================================================================
