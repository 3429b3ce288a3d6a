------------------------------- MODULE Metrics -------------------------------
(***************************************************************************)
(* foundation/MetricsRegistry.cpp and OtlpMetricsExporter.cpp: threads     *)
(* count through references that the registry gave them, while the daemon  *)
(* collects and posts what it finds.  Counters are atomic, a histogram has *)
(* a lock of its own, the registry another one, and a collection reads one *)
(* metric after the other.  Left out: asking for a histogram's name with   *)
(* another kind while an observer holds its lock, which frees a locked     *)
(* mutex, and MetricsRegistry::reset, which only the tests call.           *)
(***************************************************************************)
EXTENDS Naturals, Sequences

CONSTANTS MetricNames, Writers, MaxEntries, MaxCounts, MaxExports

VARIABLES
    entryOf,            \* entries_: name -> entry, 0 for none
    kindOf,             \* entry -> "counter" or "histogram"
    amount, low,        \* entry -> value_ or count_; what lies in its lowest bucket
    top,                \* entry -> what lies in the +Inf bucket of a histogram
    reference,          \* writer -> the entry it holds a reference to, 0 for none
    observing,          \* writer -> the histogram it has locked: [entry, isLow], or none
    toRead, sample,     \* a collection: the names left, and name -> what was read
    exportState,        \* "idle", "collecting", "posting"
    exports, backend,   \* posts made; name -> the last sample that arrived
    counted, countedBefore  \* history: entry -> counts that returned, now and as the collection began

metricVars == <<entryOf, kindOf, amount, low, top, reference, observing, toRead, sample,
                exportState, exports, backend, counted, countedBefore>>

EntryIds == 1 .. MaxEntries
NotObserving == [entry |-> 0, isLow |-> FALSE]
NoSample == [entry |-> 0, amount |-> 0, low |-> 0, top |-> 0]

MetricsInit ==
    /\ entryOf = [n \in MetricNames |-> 0] /\ kindOf = << >>
    /\ amount = << >> /\ low = << >> /\ top = << >>
    /\ reference = [w \in Writers |-> 0] /\ observing = [w \in Writers |-> NotObserving]
    /\ toRead = {} /\ sample = [n \in MetricNames |-> NoSample]
    /\ exportState = "idle" /\ exports = 0 /\ backend = [n \in MetricNames |-> NoSample]
    /\ counted = << >> /\ countedBefore = << >>

RegistryIsFree == exportState # "collecting"
InRegistry(e) == \E n \in MetricNames : entryOf[n] = e /\ e # 0
IsLocked(e) == \E w \in Writers : ~(observing[w] = NotObserving) /\ observing[w].entry = e
Free(w) == observing[w] = NotObserving

RegistryStays == UNCHANGED <<entryOf, kindOf, reference>>
ExportStays == UNCHANGED <<toRead, sample, exportState, exports, backend, countedBefore>>
CountsStay == UNCHANGED <<amount, low, top, counted>>

-----------------------------------------------------------------------------
(* The registry *)

\* counter() and histogram(): the entry of that name and kind, or a new one, which
\* frees an entry of another kind under the references that are held to it.
GetMetric(w, n, kind) ==
    LET fresh == Len(kindOf) + 1 IN
    /\ RegistryIsFree /\ Free(w)
    /\ IF entryOf[n] # 0 /\ kindOf[entryOf[n]] = kind
       THEN /\ reference' = [reference EXCEPT ![w] = entryOf[n]]
            /\ reference' # reference
            /\ UNCHANGED <<entryOf, kindOf>> /\ CountsStay
       ELSE /\ fresh \in EntryIds /\ ~IsLocked(entryOf[n])
            /\ entryOf' = [entryOf EXCEPT ![n] = fresh] /\ kindOf' = Append(kindOf, kind)
            /\ reference' = [reference EXCEPT ![w] = fresh]
            /\ amount' = Append(amount, 0) /\ low' = Append(low, 0) /\ top' = Append(top, 0)
            /\ counted' = Append(counted, 0)
    /\ UNCHANGED observing /\ ExportStays

-----------------------------------------------------------------------------
(* Writers *)

CanCount(w, kind) ==
    LET e == reference[w] IN
    /\ Free(w) /\ e # 0 /\ kindOf[e] = kind /\ counted[e] < MaxCounts

\* Counter::increment.  Through a reference to a freed metric it writes to memory that
\* no sample reads; such a step changes nothing here.
IncrementCounter(w) ==
    LET e == reference[w] IN
    /\ CanCount(w, "counter") /\ InRegistry(e)
    /\ amount' = [amount EXCEPT ![e] = @ + 1] /\ counted' = [counted EXCEPT ![e] = @ + 1]
    /\ UNCHANGED <<low, top, observing>> /\ RegistryStays /\ ExportStays

\* Histogram::observe: count_ first, the cumulative buckets after it, under the lock.
ObserveBegins(w, isLow) ==
    LET e == reference[w] IN
    /\ CanCount(w, "histogram") /\ InRegistry(e) /\ ~IsLocked(e)
    /\ observing' = [observing EXCEPT ![w] = [entry |-> e, isLow |-> isLow]]
    /\ amount' = [amount EXCEPT ![e] = @ + 1]
    /\ UNCHANGED <<low, top, counted>> /\ RegistryStays /\ ExportStays

ObserveEnds(w) ==
    LET e == observing[w].entry IN
    /\ ~Free(w) /\ observing' = [observing EXCEPT ![w] = NotObserving]
    /\ low' = [low EXCEPT ![e] = IF observing[w].isLow THEN @ + 1 ELSE @]
    /\ top' = [top EXCEPT ![e] = @ + 1]
    /\ counted' = [counted EXCEPT ![e] = @ + 1]
    /\ UNCHANGED amount /\ RegistryStays /\ ExportStays

-----------------------------------------------------------------------------
(* Collection and export *)

\* exportIfDue: the daemon's interval has passed.
BeginCollect ==
    /\ exportState = "idle" /\ exports < MaxExports /\ exportState' = "collecting"
    /\ toRead' = {n \in MetricNames : entryOf[n] # 0}
    /\ countedBefore' = counted
    /\ UNCHANGED <<sample, exports, backend, observing>> /\ CountsStay /\ RegistryStays

\* snapshot() waits for the histogram's lock.
Snapshots(e) == kindOf[e] = "histogram" => ~IsLocked(e)

ReadMetric(n) ==
    LET e == entryOf[n] IN
    /\ exportState = "collecting" /\ n \in toRead /\ Snapshots(e)
    /\ sample' = [sample EXCEPT ![n] = [entry |-> e, amount |-> amount[e], low |-> low[e], top |-> top[e]]]
    /\ toRead' = toRead \ {n}
    /\ UNCHANGED <<exportState, exports, backend, countedBefore, observing>>
    /\ CountsStay /\ RegistryStays

CollectEnds ==
    /\ exportState = "collecting" /\ toRead = {} /\ exportState' = "posting"
    /\ UNCHANGED <<toRead, sample, exports, backend, countedBefore, observing>>
    /\ CountsStay /\ RegistryStays

\* onExport: a post that fails is counted and given up; it may have arrived.
PostMetrics(arrived) ==
    /\ exportState = "posting" /\ exportState' = "idle" /\ exports' = exports + 1
    /\ backend' = IF arrived THEN [n \in MetricNames |-> IF sample[n] = NoSample THEN backend[n] ELSE sample[n]]
                  ELSE backend
    /\ sample' = [n \in MetricNames |-> NoSample] /\ countedBefore' = << >>
    /\ UNCHANGED <<toRead, observing>> /\ CountsStay /\ RegistryStays

MetricsNext ==
    \/ \E w \in Writers :
          \/ \E n \in MetricNames, kind \in {"counter", "histogram"} : GetMetric(w, n, kind)
          \/ \E isLow \in BOOLEAN : ObserveBegins(w, isLow)
          \/ IncrementCounter(w) \/ ObserveEnds(w)
    \/ \E n \in MetricNames : ReadMetric(n)
    \/ \E arrived \in BOOLEAN : PostMetrics(arrived)
    \/ BeginCollect \/ CollectEnds

-----------------------------------------------------------------------------
(* Properties *)

Sound(s) ==
    s.entry # 0 =>
        /\ s.amount <= amount[s.entry]
        /\ kindOf[s.entry] = "histogram" => s.top = s.amount /\ s.low <= s.top

\* A sample has every count that returned before the collection began and none that
\* was not made, its histogram is of one moment (MetricsRegistry.cpp:46-72), and the
\* backend, whatever posts are lost, never goes back within the life of a metric.
SamplesAreSound ==
    /\ \A n \in MetricNames :
          /\ Sound(sample[n]) /\ Sound(backend[n])
          /\ sample[n].entry # 0 => countedBefore[sample[n].entry] <= sample[n].amount
          /\ sample[n].entry # 0 /\ sample[n].entry = backend[n].entry =>
                backend[n].amount <= sample[n].amount
    /\ \A w \in Writers : ~Free(w) => kindOf[observing[w].entry] = "histogram"
=============================================================================
