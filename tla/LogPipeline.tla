---------------------------- MODULE LogPipeline ----------------------------
(***************************************************************************)
(* The way of a log record from a Logger to the body of a push to Loki:    *)
(* slogLogger (logger/logger.go), exportHandler (logger/export_handler.go),*)
(* LokiExporter.Export and the grouping at the head of push                *)
(* (logger/loki.go).  Between Export and push lies LokiSender.             *)
(*                                                                         *)
(* Several goroutines log, each through a logger of its own that it may    *)
(* derive from another's with With and WithGroup.  The JSON handler that   *)
(* writes to stdout and the other half of log/slog are external.           *)
(***************************************************************************)
EXTENDS Naturals, Sequences, FiniteSets, SequencesExt

CONSTANTS
    Goroutine,
    Key,            \* attribute keys, among them "msg" and "trace_id"
    Value,          \* values the application attaches; messages too
    Trace,          \* the trace identifiers of spans
    MaxLevel,       \* levels are 0..MaxLevel
    MinLevel,       \* Config.Level
    Service,        \* Config.ServiceName
    Labels,         \* LokiConfig.Labels
    MaxDerived,     \* bound: calls of With and WithGroup
    MaxRecords      \* bound: calls of Debug, Info, Warn and Error

ASSUME KeyAssumption == {"msg", "trace_id"} \subseteq Key
ASSUME LevelAssumption == MaxLevel \in Nat /\ MinLevel \in 0..MaxLevel
ASSUME BoundAssumption == MaxDerived \in Nat /\ MaxRecords \in Nat

NoTrace == "no trace"

Pair(k, v) == [key |-> k, val |-> v]

VARIABLES
    logger,     \* of each goroutine: the attributes and open groups of its handler
    derived,    \* calls of With and WithGroup
    logged,     \* calls of the logging methods
    handling,   \* the record each goroutine has written and not yet exported, if any
    written,    \* what the inner handler has written, in order
    exported    \* what Export has been given, in order, with the record it is from

vars == <<logger, derived, logged, handling, written, exported>>

Init ==
    /\ logger = [g \in Goroutine |-> [attrs |-> <<Pair("service.name", Service)>>, groups |-> 0]]
    /\ derived = 0
    /\ logged = 0
    /\ handling = [g \in Goroutine |-> <<>>]
    /\ written = <<>>
    /\ exported = <<>>

-----------------------------------------------------------------------------
(* With and WithGroup: a new handler; the one it is derived from stays. *)

With(g, h, k, v) ==
    /\ handling[g] = <<>>
    /\ derived < MaxDerived
    /\ derived' = derived + 1
    /\ logger' = [logger EXCEPT ![g] =
                    [attrs |-> Append(logger[h].attrs, Pair(k, v)), groups |-> logger[h].groups]]
    /\ UNCHANGED <<logged, handling, written, exported>>

WithGroup(g, h) ==
    /\ handling[g] = <<>>
    /\ derived < MaxDerived
    /\ derived' = derived + 1
    /\ logger' = [logger EXCEPT ![g] = [logger[h] EXCEPT !.groups = @ + 1]]
    /\ UNCHANGED <<logged, handling, written, exported>>

-----------------------------------------------------------------------------
(* One call of a logging method: the trace identifiers of the context come
   before the arguments of the call. *)

TraceAttrs(t) == IF t = NoTrace THEN <<>> ELSE <<Pair("trace_id", t)>>

Record(g, level, msg, t, args) ==
    [ id |-> logged + 1, by |-> g, level |-> level, msg |-> msg, trace |-> t,
      bound |-> logger[g].attrs, attrs |-> TraceAttrs(t) \o args ]

(* Mutant: a record the inner handler could not write is exported as well. *)
HandleRegardless(g, r, ok) ==
    /\ written' = IF ok THEN Append(written, r) ELSE written
    /\ handling' = [handling EXCEPT ![g] = <<r>>]

(* Handle: the inner handler first; on its error nothing is exported. *)
Handle(g, r, ok) ==
    IF ok THEN /\ written' = Append(written, r)
               /\ handling' = [handling EXCEPT ![g] = <<r>>]
          ELSE UNCHANGED <<written, handling>>

(* Mutant: Enabled is not asked. *)
LogEveryLevel(g, level, msg, t, args, ok) ==
    /\ handling[g] = <<>>
    /\ logged < MaxRecords
    /\ logged' = logged + 1
    /\ Handle(g, Record(g, level, msg, t, args), ok)
    /\ UNCHANGED <<logger, derived, exported>>

Log(g, level, msg, t, args, ok) ==
    /\ handling[g] = <<>>
    /\ logged < MaxRecords
    /\ logged' = logged + 1
    /\ IF level >= MinLevel
         THEN Handle(g, Record(g, level, msg, t, args), ok)
         ELSE UNCHANGED <<written, handling>>
    /\ UNCHANGED <<logger, derived, exported>>

-----------------------------------------------------------------------------
(* The map m of Handle, to which pairs are assigned one after the other: the
   last assignment to a key is the one that stays. *)

Positions(pairs, k) == {i \in DOMAIN pairs : pairs[i].key = k}

Assigned(msg, pairs) ==
    [ k \in {"msg"} \cup {pairs[i].key : i \in DOMAIN pairs} |->
        IF Positions(pairs, k) = {} THEN msg ELSE pairs[Max(Positions(pairs, k))].val ]

(* Mutant: the handler's own attributes are assigned last. *)
AttrsBoundLast(r) == Assigned(r.msg, r.attrs \o r.bound)

Attrs(r) == Assigned(r.msg, r.bound \o r.attrs)

Export(g) ==
    /\ handling[g] # <<>>
    /\ LET r == Head(handling[g])
       IN  exported' = Append(exported, [level |-> r.level, attrs |-> Attrs(r), from |-> r])
    /\ handling' = [handling EXCEPT ![g] = <<>>]
    /\ UNCHANGED <<logger, derived, logged, written>>

Next ==
    \/ \E g, h \in Goroutine :
          \/ \E k \in Key, v \in Value : With(g, h, k, v)
          \/ WithGroup(g, h)
    \/ \E g \in Goroutine, level \in 0..MaxLevel, msg \in Value, t \in Trace \cup {NoTrace},
          args \in {<<>>} \cup {<<Pair(k, v)>> : k \in Key, v \in Value}, ok \in BOOLEAN :
             Log(g, level, msg, t, args, ok)
    \/ \E g \in Goroutine : Export(g)
    \/ logged = MaxRecords /\ (\A g \in Goroutine : handling[g] = <<>>) /\ UNCHANGED vars

Spec == Init /\ [][Next]_vars

-----------------------------------------------------------------------------
(* push: the entries of a batch, grouped by level into the streams of one
   request; the label "level" replaces a configured one. *)

AddToLevel(byLevel, e) ==
    [l \in DOMAIN byLevel \cup {e.level} |->
        LET values == IF l \in DOMAIN byLevel THEN byLevel[l] ELSE <<>>
        IN  IF l = e.level THEN Append(values, e.attrs) ELSE values]

ByLevel(entries) ==
    LET made[n \in 0..Len(entries)] ==
            IF n = 0 THEN [l \in {} |-> <<>>] ELSE AddToLevel(made[n - 1], entries[n])
    IN  made[Len(entries)]

(* Mutant: the configured labels are copied last. *)
StreamLabelsStatic(level) ==
    [k \in DOMAIN Labels \cup {"level"} |-> IF k \in DOMAIN Labels THEN Labels[k] ELSE level]

StreamLabels(level) ==
    [k \in DOMAIN Labels \cup {"level"} |-> IF k = "level" THEN level ELSE Labels[k]]

Streams(entries) ==
    LET byLevel == ByLevel(entries)
    IN  {[stream |-> StreamLabels(l), values |-> byLevel[l]] : l \in DOMAIN byLevel}

-----------------------------------------------------------------------------
(* Properties. *)

Records == Range(written) \cup {e.from : e \in Range(exported)}

(* Every variable keeps to its type. *)
TypeOK ==
    /\ \A g \in Goroutine :
          /\ logger[g].attrs \in Seq([key : Key \cup {"service.name"}, val : Value \cup {Service}])
          /\ Len(logger[g].attrs) + logger[g].groups <= MaxDerived + 1
          /\ Len(handling[g]) <= 1 /\ \A r \in Range(handling[g]) : r.by = g
    /\ derived \in 0..MaxDerived
    /\ logged \in 0..MaxRecords
    /\ \A r \in Records : r.level \in MinLevel..MaxLevel /\ r.id \in 1..logged

Underway == UNION {Range(handling[g]) : g \in Goroutine}

(* stdout and the exporter see the same records, each once: those exported and
   those on their way are the records written, which are in the order of the
   calls, and each goroutine's are exported in that order, although goroutines
   may overtake each other between the two. *)
SameOnBothSides ==
    /\ {e.from : e \in Range(exported)} \cup Underway = Range(written)
    /\ \A i, j \in DOMAIN written : i < j => written[i].id < written[j].id
    /\ \A i, j \in DOMAIN exported :
          i < j /\ exported[i].from.by = exported[j].from.by
            => exported[i].from.id < exported[j].from.id
    /\ \A e \in Range(exported), r \in Underway : e.from.by = r.by => e.from.id < r.id

(* "Every call injects trace_id and span_id from ctx into the log entry"
   (logger/logger.go:24): the entry carries the trace of its own call, also
   when the logger has been given another trace_id with With, unless the
   arguments of the call name the key themselves. *)
TraceKept ==
    \A e \in Range(exported) :
        e.from.trace # NoTrace /\ (\A a \in Range(Tail(e.from.attrs)) : a.key # "trace_id")
            => e.attrs["trace_id"] = e.from.trace

(* A push sends each entry of the batch exactly once, in a stream whose level
   label is the entry's level, in the order of the batch: the nth of its level
   is the nth value.  There is one stream per level and no empty one. *)
StreamsPartition ==
    LET levels == {e.level : e \in Range(exported)}
        streams == Streams(exported)
    IN  /\ Cardinality(streams) = Cardinality(levels)
        /\ \A l \in levels : \E st \in streams :
              LET own == {i \in DOMAIN exported : exported[i].level = l} IN
              /\ st.stream["level"] = l
              /\ \A k \in DOMAIN Labels \ {"level"} : st.stream[k] = Labels[k]
              /\ Len(st.values) = Cardinality(own)
              /\ \A i \in own :
                    st.values[Cardinality({j \in own : j <= i})] = exported[i].attrs
=============================================================================
