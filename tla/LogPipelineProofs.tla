------------------------- MODULE LogPipelineProofs -------------------------
(***************************************************************************)
(* Proofs, for every number of goroutines, records and derived loggers,    *)
(* that stdout and the exporter see the same records, that an entry        *)
(* carries the trace of its own call, and that a push sends each entry     *)
(* of its batch once, under its level and in order.                        *)
(***************************************************************************)
EXTENDS LogPipeline, SequenceTheorems, FiniteSetTheorems, Induction, TLAPS

(* The attributes of a logger, and those of a record. *)
Bound == [key : Key \cup {"service.name"}, val : Value \cup {Service}]
Attribute == [key : Key \cup {"service.name"}, val : Value \cup {Service} \cup Trace]

Loggers == [attrs : Seq(Bound), groups : Nat]

(* A record of a call with a span begins with the span's trace. *)
Traced(r) ==
    r.trace # NoTrace => r.attrs # <<>> /\ Head(r.attrs) = Pair("trace_id", r.trace)

RecordSet ==
    { r \in [ id : Nat \ {0}, by : Goroutine, level : MinLevel..MaxLevel, msg : Value,
              trace : Trace \cup {NoTrace}, bound : Seq(Attribute), attrs : Seq(Attribute) ] :
         Traced(r) }

EntryOf(r) == [level |-> r.level, attrs |-> Attrs(r), from |-> r]
EntrySet == {EntryOf(r) : r \in RecordSet}

(* A logger holds one attribute to begin with and one more for each call of
   With; a goroutine handles at most one record, its own. *)
Derived ==
    /\ derived \in 0..MaxDerived
    /\ logger \in [Goroutine -> Loggers]
    /\ \A g \in Goroutine : Len(logger[g].attrs) + logger[g].groups <= derived + 1

Handled ==
    /\ handling \in [Goroutine -> Seq(RecordSet)]
    /\ \A g \in Goroutine : Len(handling[g]) <= 1 /\ \A r \in Range(handling[g]) : r.by = g

(* The records written are those of the calls so far. *)
Written ==
    /\ logged \in 0..MaxRecords
    /\ written \in Seq(RecordSet)
    /\ \A r \in Range(written) : r.id <= logged

IInv == Derived /\ Handled /\ Written /\ exported \in Seq(EntrySet) /\ SameOnBothSides

-----------------------------------------------------------------------------
(* Sequences. *)

LEMMA RangeOfAppend ==
    ASSUME NEW S, NEW s \in Seq(S), NEW e \in S
    PROVE  Range(Append(s, e)) = Range(s) \cup {e}
  <1> DEFINE t == Append(s, e)
  <1>1. /\ DOMAIN t = 1..(Len(s) + 1) /\ t[Len(s) + 1] = e
        /\ DOMAIN s = 1..Len(s) /\ Len(s) \in Nat
        /\ \A i \in 1..Len(s) : t[i] = s[i]
    OBVIOUS
  <1> HIDE DEF t
  <1>2. Range(t) \subseteq Range(s) \cup {e}
    <2> SUFFICES ASSUME NEW i \in DOMAIN t
                 PROVE  t[i] \in Range(s) \cup {e}
      BY DEF Range
    <2>1. i \in 1..Len(s) \/ i = Len(s) + 1
      BY <1>1
    <2>2. QED
      BY <1>1, <2>1 DEF Range
  <1>3. Range(s) \subseteq Range(t)
    <2> SUFFICES ASSUME NEW i \in DOMAIN s
                 PROVE  s[i] \in Range(t)
      BY DEF Range
    <2>1. i \in DOMAIN t /\ t[i] = s[i]
      BY <1>1
    <2>2. QED
      BY <2>1 DEF Range
  <1>4. e \in Range(t)
    <2>1. Len(s) + 1 \in DOMAIN t
      BY <1>1
    <2>2. QED
      BY <1>1, <2>1 DEF Range
  <1>5. QED
    BY <1>2, <1>3, <1>4 DEF t

LEMMA RangeOfOne ==
    ASSUME NEW e
    PROVE  Range(<<e>>) = {e} /\ Range(<<>>) = {}
  BY DEF Range

(* The second of two sequences comes after the first. *)
LEMMA EndOfConcat ==
    ASSUME NEW S, NEW s \in Seq(S), NEW t \in Seq(S), NEW j \in 1..Len(t)
    PROVE  (s \o t)[Len(s) + j] = t[j]
  <1> DEFINE m == Len(s) + j
  <1>1. Len(s) \in Nat /\ Len(t) \in Nat
    OBVIOUS
  <1>2. m \in 1..(Len(s) + Len(t)) /\ m > Len(s) /\ m - Len(s) = j
    BY <1>1
  <1> HIDE DEF m
  <1>3. (s \o t)[m] = t[m - Len(s)]
    BY <1>1, <1>2
  <1>4. QED
    BY <1>2, <1>3 DEF m

(* A sequence of at most one element. *)
LEMMA OneOrNone ==
    ASSUME NEW S, NEW s \in Seq(S), Len(s) <= 1, s # <<>>
    PROVE  Head(s) \in S /\ Range(s) = {Head(s)}
  <1>1. Len(s) = 1 /\ Head(s) = s[1] /\ s[1] \in S
    OBVIOUS
  <1>2. DOMAIN s = {1}
    BY <1>1
  <1>3. QED
    BY <1>1, <1>2 DEF Range

-----------------------------------------------------------------------------
(* The map of Handle. *)

(* The last assignment to a key is the one that stays. *)
LEMMA LastStays ==
    ASSUME NEW msg, NEW S, NEW pairs \in Seq(S), NEW i \in DOMAIN pairs,
           \A j \in DOMAIN pairs : j > i => pairs[j].key # pairs[i].key
    PROVE  Assigned(msg, pairs)[pairs[i].key] = pairs[i].val
  <1> DEFINE k == pairs[i].key
             P == Positions(pairs, k)
  <1>1. i \in P /\ \A j \in P : j \in Nat /\ i \in Nat /\ i >= j
    BY DEF Positions
  <1>2. Max(P) = i
    <2>1. \A j \in P : (\A m \in P : j >= m) => j = i
      BY <1>1
    <2>2. QED
      BY <1>1, <2>1 DEF Max
  <1>3. P # {}
    BY <1>1
  <1>4. k \in {"msg"} \cup {pairs[j].key : j \in DOMAIN pairs}
    OBVIOUS
  <1> HIDE DEF P, k
  <1>5. Assigned(msg, pairs)[k] = IF P = {} THEN msg ELSE pairs[Max(P)].val
    BY <1>4 DEF Assigned, P
  <1>6. QED
    BY <1>2, <1>3, <1>5 DEF k

(* The first attribute of a call replaces one of the logger, and stays unless
   the call has another one with its key. *)
LEMMA FirstOfCallStays ==
    ASSUME NEW msg, NEW S, NEW s \in Seq(S), NEW t \in Seq(S), t # <<>>,
           \A a \in Range(Tail(t)) : a.key # t[1].key
    PROVE  Assigned(msg, s \o t)[t[1].key] = t[1].val
  <1> DEFINE n == Len(s)
             i == n + 1
             all == s \o t
  <1>1. n \in Nat /\ Len(t) \in Nat /\ Len(t) >= 1 /\ all \in Seq(S)
    OBVIOUS
  <1>2. DOMAIN all = 1..(n + Len(t))
    OBVIOUS
  <1>3. \A j \in 1..Len(t) : all[n + j] = t[j]
    BY EndOfConcat
  <1> HIDE DEF all, n
  <1>4. i \in DOMAIN all /\ all[i] = t[1]
    <2>1. 1 \in 1..Len(t) /\ i \in 1..(n + Len(t))
      BY <1>1
    <2>2. QED
      BY <1>2, <1>3, <2>1
  <1>5. ASSUME NEW j \in DOMAIN all, j > i
        PROVE  all[j].key # all[i].key
    <2> DEFINE m == j - n
    <2>1. m \in 2..Len(t) /\ j = n + m
      BY <1>1, <1>2, <1>5
    <2> HIDE DEF m
    <2>2. all[j] = t[m]
      BY <1>3, <2>1
    <2>3. m - 1 \in DOMAIN Tail(t) /\ Tail(t)[m - 1] = t[m]
      BY <1>1, <2>1
    <2>4. t[m] \in Range(Tail(t))
      BY <2>3 DEF Range
    <2>5. QED
      BY <1>4, <2>2, <2>4
  <1>6. Assigned(msg, all)[all[i].key] = all[i].val
    BY <1>1, <1>4, <1>5, LastStays
  <1>7. QED
    BY <1>4, <1>6 DEF all

(* An entry has the trace of its call, whatever With was given. *)
LEMMA TraceStays ==
    ASSUME NEW r \in RecordSet, r.trace # NoTrace,
           \A a \in Range(Tail(r.attrs)) : a.key # "trace_id"
    PROVE  Attrs(r)["trace_id"] = r.trace
  <1> DEFINE s == r.bound
             t == r.attrs
  <1>1. s \in Seq(Attribute) /\ t \in Seq(Attribute)
    BY DEF RecordSet
  <1>2. t # <<>> /\ t[1] = Pair("trace_id", r.trace)
    BY <1>1 DEF RecordSet, Traced
  <1>3. t[1].key = "trace_id" /\ t[1].val = r.trace
    BY <1>2 DEF Pair
  <1>4. \A a \in Range(Tail(t)) : a.key # t[1].key
    BY <1>3
  <1>5. Attrs(r) = Assigned(r.msg, s \o t)
    BY DEF Attrs
  <1> HIDE DEF s, t
  <1>6. Assigned(r.msg, s \o t)[t[1].key] = t[1].val
    BY <1>1, <1>2, <1>4, FirstOfCallStays
  <1>7. QED
    BY <1>3, <1>5, <1>6

-----------------------------------------------------------------------------
(* The invariant is inductive. *)

LEMMA InitIInv == Init => IInv
  <1> SUFFICES ASSUME Init
               PROVE  IInv
    OBVIOUS
  <1>1. Derived
    <2>1. <<Pair("service.name", Service)>> \in Seq(Bound)
      BY DEF Pair, Bound
    <2>2. Len(<<Pair("service.name", Service)>>) = 1
      OBVIOUS
    <2>3. ASSUME NEW g \in Goroutine
          PROVE  /\ logger[g] \in Loggers
                 /\ Len(logger[g].attrs) + logger[g].groups <= derived + 1
      <3>1. /\ logger[g].attrs = <<Pair("service.name", Service)>> /\ logger[g].groups = 0
            /\ logger[g] = [attrs |-> <<Pair("service.name", Service)>>, groups |-> 0]
            /\ derived = 0
        BY DEF Init
      <3>2. logger[g] \in Loggers
        BY <2>1, <3>1 DEF Loggers
      <3>3. QED
        BY <2>2, <3>1, <3>2
    <2>4. derived \in 0..MaxDerived
      BY BoundAssumption DEF Init
    <2>5. logger \in [Goroutine -> Loggers]
      BY <2>3 DEF Init
    <2>6. QED
      BY <2>3, <2>4, <2>5 DEF Derived
  <1>2. Range(<<>>) = {}
    BY DEF Range
  <1>3. Handled
    BY <1>2 DEF Init, Handled
  <1>4. Written /\ exported \in Seq(EntrySet)
    BY <1>2, BoundAssumption DEF Init, Written
  <1>5. Underway = {}
    BY <1>2 DEF Init, Underway
  <1>6. SameOnBothSides
    BY <1>2, <1>5 DEF Init, SameOnBothSides
  <1>7. QED
    BY <1>1, <1>3, <1>4, <1>6 DEF IInv

(* Deriving a logger touches no record. *)
LEMMA RecordsStay ==
    ASSUME IInv, UNCHANGED <<logged, handling, written, exported>>
    PROVE  Handled' /\ Written' /\ exported' \in Seq(EntrySet) /\ SameOnBothSides'
  <1>1. Handled'
    BY DEF IInv, Handled
  <1>2. Written' /\ exported' \in Seq(EntrySet)
    BY DEF IInv, Written
  <1>3. Underway' = Underway
    BY DEF Underway
  <1>4. SameOnBothSides'
    BY <1>3 DEF IInv, SameOnBothSides
  <1>5. QED
    BY <1>1, <1>2, <1>4

(* A derived logger has the attributes of its parent and at most one more. *)
LEMMA WithKeepsIInv ==
    ASSUME IInv, NEW g \in Goroutine, NEW h \in Goroutine, NEW k \in Key, NEW v \in Value,
           With(g, h, k, v)
    PROVE  IInv'
  <1> DEFINE attrs == Append(logger[h].attrs, Pair(k, v))
  <1>1. /\ derived < MaxDerived /\ derived' = derived + 1
        /\ logger' = [logger EXCEPT ![g] = [attrs |-> attrs, groups |-> logger[h].groups]]
        /\ UNCHANGED <<logged, handling, written, exported>>
    BY DEF With
  <1>2. /\ derived \in 0..MaxDerived /\ logger \in [Goroutine -> Loggers]
        /\ logger[h].attrs \in Seq(Bound) /\ logger[h].groups \in Nat
        /\ Len(logger[h].attrs) + logger[h].groups <= derived + 1
    BY DEF IInv, Derived, Loggers
  <1>3. Pair(k, v) \in Bound
    BY DEF Pair, Bound
  <1>4. attrs \in Seq(Bound) /\ Len(attrs) = Len(logger[h].attrs) + 1
    BY <1>2, <1>3
  <1>5. Derived'
    <2> HIDE DEF attrs
    <2>1. derived' \in 0..MaxDerived
      BY <1>1, <1>2, BoundAssumption
    <2>2. logger' \in [Goroutine -> Loggers]
      BY <1>1, <1>2, <1>4 DEF Loggers
    <2>3. ASSUME NEW f \in Goroutine
          PROVE  Len(logger'[f].attrs) + logger'[f].groups <= derived' + 1
      <3>1. CASE f = g
        <4>1. logger'[f].attrs = attrs /\ logger'[f].groups = logger[h].groups
          BY <1>1, <1>2, <3>1
        <4>2. Len(logger[h].attrs) \in Nat
          BY <1>2
        <4>3. QED
          BY <1>1, <1>2, <1>4, <4>1, <4>2
      <3>2. CASE f # g
        <4>1. logger'[f] = logger[f] /\ logger[f] \in Loggers
          BY <1>1, <1>2, <3>2
        <4>2. Len(logger[f].attrs) + logger[f].groups <= derived + 1
          BY DEF IInv, Derived
        <4>3. Len(logger[f].attrs) \in Nat /\ logger[f].groups \in Nat
          BY <4>1 DEF Loggers
        <4>4. derived \in Int /\ derived' = derived + 1
          BY <1>1, <1>2
        <4>5. QED
          BY <4>1, <4>2, <4>3, <4>4
      <3>3. QED
        BY <3>1, <3>2
    <2>4. QED
      BY <2>1, <2>2, <2>3 DEF Derived
  <1>6. QED
    BY <1>1, <1>5, RecordsStay DEF IInv

LEMMA WithGroupKeepsIInv ==
    ASSUME IInv, NEW g \in Goroutine, NEW h \in Goroutine, WithGroup(g, h)
    PROVE  IInv'
  <1>1. /\ derived < MaxDerived /\ derived' = derived + 1
        /\ logger' = [logger EXCEPT ![g] = [logger[h] EXCEPT !.groups = @ + 1]]
        /\ UNCHANGED <<logged, handling, written, exported>>
    BY DEF WithGroup
  <1>2. /\ derived \in 0..MaxDerived /\ logger \in [Goroutine -> Loggers]
        /\ logger[h] \in Loggers
        /\ Len(logger[h].attrs) + logger[h].groups <= derived + 1
    BY DEF IInv, Derived
  <1>3. Derived'
    <2>1. derived' \in 0..MaxDerived
      BY <1>1, <1>2, BoundAssumption
    <2>2. logger' \in [Goroutine -> Loggers]
      <3>1. [logger[h] EXCEPT !.groups = @ + 1] \in Loggers
        BY <1>2 DEF Loggers
      <3>2. QED
        BY <1>1, <1>2, <3>1
    <2>3. ASSUME NEW f \in Goroutine
          PROVE  Len(logger'[f].attrs) + logger'[f].groups <= derived' + 1
      <3>1. CASE f = g
        <4>1. /\ logger'[f].attrs = logger[h].attrs
              /\ logger'[f].groups = logger[h].groups + 1
          BY <1>1, <1>2, <3>1 DEF Loggers
        <4>2. Len(logger[h].attrs) \in Nat /\ logger[h].groups \in Nat
          BY <1>2 DEF Loggers
        <4>3. QED
          BY <1>1, <1>2, <4>1, <4>2
      <3>2. CASE f # g
        <4>1. logger'[f] = logger[f] /\ logger[f] \in Loggers
          BY <1>1, <1>2, <3>2
        <4>2. Len(logger[f].attrs) + logger[f].groups <= derived + 1
          BY DEF IInv, Derived
        <4>3. Len(logger[f].attrs) \in Nat /\ logger[f].groups \in Nat
          BY <4>1 DEF Loggers
        <4>4. derived \in Int /\ derived' = derived + 1
          BY <1>1, <1>2
        <4>5. QED
          BY <4>1, <4>2, <4>3, <4>4
      <3>3. QED
        BY <3>1, <3>2
    <2>4. QED
      BY <2>1, <2>2, <2>3 DEF Derived
  <1>4. QED
    BY <1>1, <1>3, RecordsStay DEF IInv

(* What Log hands on is a record, with the trace of the call in front. *)
LEMMA RecordTyped ==
    ASSUME IInv, NEW g \in Goroutine, NEW level \in 0..MaxLevel, level >= MinLevel,
           NEW msg \in Value, NEW t \in Trace \cup {NoTrace},
           NEW args \in {<<>>} \cup {<<Pair(k, v)>> : k \in Key, v \in Value}
    PROVE  Record(g, level, msg, t, args) \in RecordSet
  <1> DEFINE r == Record(g, level, msg, t, args)
  <1>1. logged + 1 \in Nat \ {0} /\ level \in MinLevel..MaxLevel
    BY LevelAssumption, BoundAssumption DEF IInv, Written
  <1>2. args \in Seq(Attribute)
    <2>1. \A k \in Key, v \in Value : Pair(k, v) \in Attribute
      BY DEF Pair, Attribute
    <2>2. CASE args = <<>>
      BY <2>2
    <2>3. CASE args # <<>>
      <3>1. PICK k \in Key, v \in Value : args = <<Pair(k, v)>>
        BY <2>3
      <3>2. QED
        BY <2>1, <3>1
    <2>4. QED
      BY <2>2, <2>3
  <1>3. TraceAttrs(t) \in Seq(Attribute)
    <2>1. CASE t = NoTrace
      BY <2>1 DEF TraceAttrs
    <2>2. CASE t # NoTrace
      <3>1. Pair("trace_id", t) \in Attribute
        BY <2>2, KeyAssumption DEF Pair, Attribute
      <3>2. QED
        BY <2>2, <3>1 DEF TraceAttrs
    <2>3. QED
      BY <2>1, <2>2
  <1>4. logger[g].attrs \in Seq(Attribute)
    <2>1. logger[g].attrs \in Seq(Bound)
      BY DEF IInv, Derived, Loggers
    <2>2. Bound \subseteq Attribute
      BY DEF Bound, Attribute
    <2>3. QED
      BY <2>1, <2>2
  <1>5. TraceAttrs(t) \o args \in Seq(Attribute)
    BY <1>2, <1>3
  <1>6. Traced(r)
    <2> SUFFICES ASSUME t # NoTrace
                 PROVE  /\ TraceAttrs(t) \o args # <<>>
                        /\ Head(TraceAttrs(t) \o args) = Pair("trace_id", t)
      BY DEF Traced, Record
    <2>1. TraceAttrs(t) = <<Pair("trace_id", t)>>
      BY DEF TraceAttrs
    <2>2. QED
      BY <1>2, <2>1
  <1>7. QED
    BY <1>1, <1>4, <1>5, <1>6 DEF RecordSet, Record

(* A call by which g writes r. *)
Writes(g, r) ==
    /\ r.by = g /\ r.id = logged + 1 /\ logged < MaxRecords /\ handling[g] = <<>>
    /\ logged' = logged + 1
    /\ written' = Append(written, r)
    /\ handling' = [handling EXCEPT ![g] = <<r>>]
    /\ UNCHANGED <<logger, derived, exported>>

(* A record that is written joins those on their way, the last of all. *)
LEMMA WriteKeepsIInv ==
    ASSUME IInv, NEW g \in Goroutine, NEW r \in RecordSet, Writes(g, r)
    PROVE  IInv'
  <1>0. /\ r.by = g /\ r.id = logged + 1 /\ logged < MaxRecords /\ handling[g] = <<>>
        /\ logged' = logged + 1
        /\ written' = Append(written, r)
        /\ handling' = [handling EXCEPT ![g] = <<r>>]
        /\ UNCHANGED <<logger, derived, exported>>
    BY DEF Writes
  <1>1. /\ logged \in 0..MaxRecords /\ written \in Seq(RecordSet)
        /\ \A p \in Range(written) : p.id <= logged
        /\ handling \in [Goroutine -> Seq(RecordSet)]
    BY DEF IInv, Written, Handled
  <1>2. Derived'
    BY <1>0 DEF IInv, Derived
  <1>3. Range(written') = Range(written) \cup {r}
    BY <1>0, <1>1, RangeOfAppend
  <1>4. Range(<<r>>) = {r} /\ Len(<<r>>) = 1 /\ <<r>> \in Seq(RecordSet)
    BY RangeOfOne
  <1>5. Handled'
    <2>1. handling' \in [Goroutine -> Seq(RecordSet)]
      BY <1>0, <1>1, <1>4
    <2>2. ASSUME NEW f \in Goroutine
          PROVE  Len(handling'[f]) <= 1 /\ \A p \in Range(handling'[f]) : p.by = f
      <3>1. CASE f = g
        <4>1. handling'[f] = <<r>>
          BY <1>0, <1>1, <3>1
        <4>2. QED
          BY <1>0, <1>4, <3>1, <4>1
      <3>2. CASE f # g
        <4>1. handling'[f] = handling[f]
          BY <1>0, <1>1, <3>2
        <4>2. QED
          BY <4>1 DEF IInv, Handled
      <3>3. QED
        BY <3>1, <3>2
    <2>3. QED
      BY <2>1, <2>2 DEF Handled
  <1>6. Written'
    <2>1. logged' \in 0..MaxRecords /\ logged \in Int
      BY <1>0, <1>1, BoundAssumption
    <2>2. written' \in Seq(RecordSet)
      BY <1>0, <1>1
    <2>3. ASSUME NEW p \in Range(written')
          PROVE  p.id <= logged'
      <3>1. CASE p = r
        BY <1>0, <2>1, <3>1
      <3>2. CASE p \in Range(written)
        <4>1. p.id <= logged
          BY <1>1, <3>2
        <4>2. p.id \in Int
          <5>1. p \in RecordSet
            BY <1>1, <3>2 DEF Range
          <5>2. QED
            BY <5>1 DEF RecordSet
        <4>3. QED
          BY <1>0, <2>1, <4>1, <4>2
      <3>3. QED
        BY <1>3, <3>1, <3>2
    <2>4. QED
      BY <2>1, <2>2, <2>3 DEF Written
  <1>7. Underway' = Underway \cup {r}
    <2>1. ASSUME NEW f \in Goroutine, f # g
          PROVE  Range(handling'[f]) = Range(handling[f])
      BY <1>0, <1>1, <2>1
    <2>2. Range(handling'[g]) = {r} /\ Range(handling[g]) = {}
      BY <1>0, <1>1, <1>4, RangeOfOne
    <2>3. QED
      BY <2>1, <2>2 DEF Underway
  <1> DEFINE From(s) == {e.from : e \in Range(s)}
  <1>8. From(exported') \cup Underway' = Range(written')
    BY <1>0, <1>3, <1>7 DEF IInv, SameOnBothSides
  <1>9. ASSUME NEW i \in DOMAIN written', NEW j \in DOMAIN written', i < j
        PROVE  written'[i].id < written'[j].id
    <2>1. /\ Len(written) \in Nat /\ DOMAIN written = 1..Len(written)
          /\ DOMAIN written' = 1..(Len(written) + 1) /\ written'[Len(written) + 1] = r
          /\ \A m \in DOMAIN written : written'[m] = written[m]
      BY <1>0, <1>1
    <2>2. i \in DOMAIN written /\ written'[i] = written[i]
      BY <1>9, <2>1
    <2>3. CASE j \in DOMAIN written
      BY <1>9, <2>1, <2>2, <2>3 DEF IInv, SameOnBothSides
    <2>4. CASE j = Len(written) + 1
      <3>1. written[i].id <= logged /\ written[i].id \in Int
        <4>1. written[i] \in Range(written) /\ written[i] \in RecordSet
          BY <1>1, <2>2 DEF Range
        <4>2. QED
          BY <1>1, <4>1 DEF RecordSet
      <3>2. logged \in Int /\ written'[j].id = logged + 1
        BY <1>0, <1>1, <2>1, <2>4
      <3>3. QED
        BY <2>2, <3>1, <3>2
    <2>5. QED
      BY <2>1, <2>3, <2>4
  <1>10. ASSUME NEW e \in Range(exported'), NEW p \in Underway', e.from.by = p.by
         PROVE  e.from.id < p.id
    <2>1. e \in Range(exported)
      BY <1>0
    <2>2. CASE p \in Underway
      BY <1>10, <2>1, <2>2 DEF IInv, SameOnBothSides
    <2>3. CASE p = r
      <3>1. e.from \in Range(written)
        BY <2>1 DEF IInv, SameOnBothSides
      <3>2. e.from.id <= logged /\ e.from.id \in Int /\ logged \in Int
        <4>1. e.from \in RecordSet
          BY <1>1, <3>1 DEF Range
        <4>2. QED
          BY <1>1, <3>1, <4>1 DEF RecordSet
      <3>3. QED
        BY <1>0, <2>3, <3>2
    <2>4. QED
      BY <1>7, <2>2, <2>3
  <1>11. \A i, j \in DOMAIN exported' :
            i < j /\ exported'[i].from.by = exported'[j].from.by
              => exported'[i].from.id < exported'[j].from.id
    BY <1>0 DEF IInv, SameOnBothSides
  <1>12. SameOnBothSides'
    BY <1>8, <1>9, <1>10, <1>11 DEF SameOnBothSides
  <1>13. QED
    BY <1>0, <1>2, <1>5, <1>6, <1>12 DEF IInv

(* A call that writes nothing leaves nothing behind. *)
LEMMA NothingWritten ==
    ASSUME IInv, logged < MaxRecords, logged' = logged + 1,
           UNCHANGED <<written, handling, logger, derived, exported>>
    PROVE  IInv'
  <1>1. Derived' /\ Handled' /\ exported' \in Seq(EntrySet)
    BY DEF IInv, Derived, Handled
  <1>2. Written'
    <2>1. logged \in Int /\ logged' \in 0..MaxRecords /\ written' \in Seq(RecordSet)
      BY BoundAssumption DEF IInv, Written
    <2>2. ASSUME NEW p \in Range(written')
          PROVE  p.id <= logged'
      <3>1. p.id <= logged
        BY DEF IInv, Written
      <3>2. p \in RecordSet
        BY DEF IInv, Written, Range
      <3>3. QED
        BY <2>1, <3>1, <3>2 DEF RecordSet
    <2>3. QED
      BY <2>1, <2>2 DEF Written
  <1>3. Underway' = Underway
    BY DEF Underway
  <1>4. SameOnBothSides'
    BY <1>3 DEF IInv, SameOnBothSides
  <1>5. QED
    BY <1>1, <1>2, <1>4 DEF IInv

LEMMA LogKeepsIInv ==
    ASSUME IInv, NEW g \in Goroutine, NEW level \in 0..MaxLevel, NEW msg \in Value,
           NEW t \in Trace \cup {NoTrace},
           NEW args \in {<<>>} \cup {<<Pair(k, v)>> : k \in Key, v \in Value},
           NEW ok \in BOOLEAN, Log(g, level, msg, t, args, ok)
    PROVE  IInv'
  <1> DEFINE r == Record(g, level, msg, t, args)
  <1>1. CASE level >= MinLevel /\ ok
    <2>1. r \in RecordSet /\ r.by = g /\ r.id = logged + 1
      <3>1. r \in RecordSet
        BY <1>1, RecordTyped
      <3>2. r.by = g /\ r.id = logged + 1
        BY DEF Record
      <3>3. QED
        BY <3>1, <3>2
    <2>2. Writes(g, r)
      BY <1>1, <2>1 DEF Log, Handle, Writes
    <2> HIDE DEF r
    <2>3. PICK p \in RecordSet : p = r
      BY <2>1
    <2>4. Writes(g, p)
      BY <2>2, <2>3
    <2>5. QED
      BY <2>4, WriteKeepsIInv
  <1>2. CASE ~(level >= MinLevel /\ ok)
    <2>1. /\ logged < MaxRecords /\ logged' = logged + 1
          /\ UNCHANGED <<written, handling, logger, derived, exported>>
      BY <1>2 DEF Log, Handle
    <2>2. QED
      BY <2>1, NothingWritten
  <1>3. QED
    BY <1>1, <1>2

(* An exported record leaves those on their way for those exported, behind
   all its goroutine has exported before. *)
LEMMA ExportKeepsIInv ==
    ASSUME IInv, NEW g \in Goroutine, Export(g)
    PROVE  IInv'
  <1> DEFINE r == Head(handling[g])
             e == EntryOf(r)
  <1>1. /\ handling[g] # <<>>
        /\ exported' = Append(exported, e)
        /\ handling' = [handling EXCEPT ![g] = <<>>]
        /\ UNCHANGED <<logger, derived, logged, written>>
    BY DEF Export, EntryOf
  <1>2. /\ handling \in [Goroutine -> Seq(RecordSet)] /\ exported \in Seq(EntrySet)
        /\ Len(handling[g]) <= 1 /\ \A p \in Range(handling[g]) : p.by = g
    BY DEF IInv, Handled
  <1>3. r \in RecordSet /\ Range(handling[g]) = {r} /\ r.by = g
    <2>1. handling[g] \in Seq(RecordSet)
      BY <1>2
    <2>2. r \in RecordSet /\ Range(handling[g]) = {r}
      BY <1>1, <1>2, <2>1, OneOrNone
    <2>3. QED
      BY <1>2, <2>2
  <1>4. e \in EntrySet /\ e.from = r
    BY <1>3 DEF EntrySet, EntryOf
  <1> HIDE DEF r, e
  <1>5. exported' \in Seq(EntrySet) /\ Range(exported') = Range(exported) \cup {e}
    BY <1>1, <1>2, <1>4, RangeOfAppend
  <1>6. Derived' /\ Written'
    BY <1>1 DEF IInv, Derived, Written
  <1>7. /\ \A f \in Goroutine : f # g => handling'[f] = handling[f]
        /\ handling'[g] = <<>> /\ Range(handling'[g]) = {}
    BY <1>1, <1>2, RangeOfOne
  <1>8. Handled'
    <2>1. handling' \in [Goroutine -> Seq(RecordSet)]
      <3>1. <<>> \in Seq(RecordSet)
        OBVIOUS
      <3>2. QED
        BY <1>1, <1>2, <3>1
    <2>2. ASSUME NEW f \in Goroutine
          PROVE  Len(handling'[f]) <= 1 /\ \A p \in Range(handling'[f]) : p.by = f
      <3>1. CASE f = g
        BY <1>7, <3>1
      <3>2. CASE f # g
        BY <1>7, <3>2 DEF IInv, Handled
      <3>3. QED
        BY <3>1, <3>2
    <2>3. QED
      BY <2>1, <2>2 DEF Handled
  <1>9. /\ Underway = Underway' \cup {r}
        /\ \A p \in Underway' : p.by # g
    <2>1. \A f \in Goroutine : f # g => Range(handling'[f]) = Range(handling[f])
      BY <1>7
    <2>2. Underway = Underway' \cup {r}
      BY <1>3, <1>7, <2>1 DEF Underway
    <2>3. ASSUME NEW p \in Underway'
          PROVE  p.by # g
      <3>1. PICK f \in Goroutine : p \in Range(handling'[f])
        BY DEF Underway
      <3>2. f # g
        BY <1>7, <3>1
      <3>3. p.by = f
        BY <2>1, <3>1, <3>2 DEF IInv, Handled
      <3>4. QED
        BY <3>2, <3>3
    <2>4. QED
      BY <2>2, <2>3
  <1>10. {d.from : d \in Range(exported')} \cup Underway' = Range(written')
    <2>1. {d.from : d \in Range(exported')} = {d.from : d \in Range(exported)} \cup {r}
      BY <1>4, <1>5
    <2>2. QED
      BY <1>1, <1>9, <2>1 DEF IInv, SameOnBothSides
  <1>11. ASSUME NEW i \in DOMAIN exported', NEW j \in DOMAIN exported', i < j,
                exported'[i].from.by = exported'[j].from.by
         PROVE  exported'[i].from.id < exported'[j].from.id
    <2>1. /\ Len(exported) \in Nat /\ DOMAIN exported = 1..Len(exported)
          /\ DOMAIN exported' = 1..(Len(exported) + 1) /\ exported'[Len(exported) + 1] = e
          /\ \A m \in DOMAIN exported : exported'[m] = exported[m]
      BY <1>1, <1>2
    <2>2. i \in DOMAIN exported /\ exported'[i] = exported[i]
      BY <1>11, <2>1
    <2>3. CASE j \in DOMAIN exported
      <3>1. exported'[j] = exported[j]
        BY <2>1, <2>3
      <3>2. QED
        BY <1>11, <2>2, <2>3, <3>1 DEF IInv, SameOnBothSides
    <2>4. CASE j = Len(exported) + 1
      <3>1. exported'[j].from = r
        BY <1>4, <2>1, <2>4
      <3>2. exported[i] \in Range(exported) /\ r \in Underway
        BY <1>9, <2>2 DEF Range
      <3>3. exported[i].from.by = r.by
        BY <1>11, <2>2, <3>1
      <3>4. exported[i].from.id < r.id
        BY <3>2, <3>3 DEF IInv, SameOnBothSides
      <3>5. QED
        BY <2>2, <3>1, <3>4
    <2>5. QED
      BY <2>1, <2>3, <2>4
  <1>12. ASSUME NEW d \in Range(exported'), NEW p \in Underway', d.from.by = p.by
         PROVE  d.from.id < p.id
    <2>1. d # e
      BY <1>3, <1>4, <1>9, <1>12
    <2>2. d \in Range(exported) /\ p \in Underway
      BY <1>5, <1>9, <2>1
    <2>3. QED
      BY <1>12, <2>2 DEF IInv, SameOnBothSides
  <1>13. \A i, j \in DOMAIN written' : i < j => written'[i].id < written'[j].id
    BY <1>1 DEF IInv, SameOnBothSides
  <1>14. SameOnBothSides'
    BY <1>10, <1>11, <1>12, <1>13 DEF SameOnBothSides
  <1>15. QED
    BY <1>5, <1>6, <1>8, <1>14 DEF IInv

LEMMA NextIInv == IInv /\ [Next]_vars => IInv'
  <1> SUFFICES ASSUME IInv, [Next]_vars
               PROVE  IInv'
    OBVIOUS
  <1>1. ASSUME NEW g \in Goroutine, NEW h \in Goroutine, NEW k \in Key, NEW v \in Value,
               With(g, h, k, v)
        PROVE  IInv'
    BY <1>1, WithKeepsIInv
  <1>2. ASSUME NEW g \in Goroutine, NEW h \in Goroutine, WithGroup(g, h)
        PROVE  IInv'
    BY <1>2, WithGroupKeepsIInv
  <1>3. ASSUME NEW g \in Goroutine, NEW level \in 0..MaxLevel, NEW msg \in Value,
               NEW t \in Trace \cup {NoTrace},
               NEW args \in {<<>>} \cup {<<Pair(k, v)>> : k \in Key, v \in Value},
               NEW ok \in BOOLEAN, Log(g, level, msg, t, args, ok)
        PROVE  IInv'
    BY <1>3, LogKeepsIInv
  <1>4. ASSUME NEW g \in Goroutine, Export(g)
        PROVE  IInv'
    BY <1>4, ExportKeepsIInv
  <1>5. ASSUME UNCHANGED vars
        PROVE  IInv'
    <2>1. UNCHANGED <<logged, handling, written, exported>> /\ UNCHANGED <<logger, derived>>
      BY <1>5 DEF vars
    <2>2. Derived'
      BY <2>1 DEF IInv, Derived
    <2>3. QED
      BY <2>1, <2>2, RecordsStay DEF IInv
  <1>6. CASE \E g, h \in Goroutine :
               (\E k \in Key, v \in Value : With(g, h, k, v)) \/ WithGroup(g, h)
    BY <1>1, <1>2, <1>6
  <1>7. CASE \E g \in Goroutine, level \in 0..MaxLevel, msg \in Value, t \in Trace \cup {NoTrace},
               args \in {<<>>} \cup {<<Pair(k, v)>> : k \in Key, v \in Value}, ok \in BOOLEAN :
                  Log(g, level, msg, t, args, ok)
    <2>1. PICK g \in Goroutine, level \in 0..MaxLevel, msg \in Value,
               t \in Trace \cup {NoTrace},
               args \in {<<>>} \cup {<<Pair(k, v)>> : k \in Key, v \in Value}, ok \in BOOLEAN :
                  Log(g, level, msg, t, args, ok)
      BY <1>7
    <2>2. QED
      BY <2>1, LogKeepsIInv
  <1>8. CASE \E g \in Goroutine : Export(g)
    BY <1>4, <1>8
  <1>9. QED
    BY <1>5, <1>6, <1>7, <1>8 DEF Next

LEMMA SpecIInv == Spec => []IInv
  BY InitIInv, NextIInv, PTL DEF Spec

-----------------------------------------------------------------------------
(* The theorems. *)

(* Types; a record has passed Enabled and its goroutine handles no other. *)
THEOREM TypeCorrect == Spec => []TypeOK
  <1>1. ASSUME IInv
        PROVE  TypeOK
    <2>1. ASSUME NEW g \in Goroutine
          PROVE  /\ logger[g].attrs \in Seq(Bound)
                 /\ Len(logger[g].attrs) + logger[g].groups <= MaxDerived + 1
                 /\ Len(handling[g]) <= 1 /\ \A r \in Range(handling[g]) : r.by = g
      <3>1. logger[g] \in Loggers /\ derived \in 0..MaxDerived
        BY <1>1 DEF IInv, Derived
      <3>2. Len(logger[g].attrs) + logger[g].groups <= derived + 1
        BY <1>1 DEF IInv, Derived
      <3>3. /\ logger[g].attrs \in Seq(Bound)
            /\ Len(logger[g].attrs) \in Nat /\ logger[g].groups \in Nat
        BY <3>1 DEF Loggers
      <3>4. Len(logger[g].attrs) + logger[g].groups <= MaxDerived + 1
        BY <3>1, <3>2, <3>3, BoundAssumption
      <3>5. QED
        BY <1>1, <3>3, <3>4 DEF IInv, Handled
    <2>2. ASSUME NEW r \in Records
          PROVE  r.level \in MinLevel..MaxLevel /\ r.id \in 1..logged
      <3>1. r \in Range(written)
        BY <1>1 DEF Records, IInv, SameOnBothSides
      <3>2. r \in RecordSet /\ r.id <= logged /\ logged \in Nat
        BY <1>1, <3>1, BoundAssumption DEF IInv, Written, Range
      <3>3. QED
        BY <3>2 DEF RecordSet
    <2>3. derived \in 0..MaxDerived /\ logged \in 0..MaxRecords
      BY <1>1 DEF IInv, Derived, Written
    <2>4. QED
      BY <2>1, <2>2, <2>3 DEF TypeOK, Bound
  <1>2. QED
    BY <1>1, SpecIInv, PTL

(* The tee of exportHandler.Handle: what stdout has, the exporter has, or is
   being given, once and in each goroutine's order. *)
THEOREM TeeAgrees == Spec => []SameOnBothSides
  <1>1. IInv => SameOnBothSides
    BY DEF IInv
  <1>2. QED
    BY <1>1, SpecIInv, PTL

(* No attribute bound with With displaces the trace of the call. *)
THEOREM TraceArrives == Spec => []TraceKept
  <1>1. ASSUME IInv
        PROVE  TraceKept
    <2> SUFFICES ASSUME NEW e \in Range(exported), e.from.trace # NoTrace,
                        \A a \in Range(Tail(e.from.attrs)) : a.key # "trace_id"
                 PROVE  e.attrs["trace_id"] = e.from.trace
      BY DEF TraceKept
    <2>1. PICK r \in RecordSet : e = EntryOf(r)
      BY <1>1 DEF IInv, Range, EntrySet
    <2>2. e.from = r /\ e.attrs = Attrs(r)
      BY <2>1 DEF EntryOf
    <2>3. QED
      BY <2>2, TraceStays
  <1>2. QED
    BY <1>1, SpecIInv, PTL

-----------------------------------------------------------------------------
(* The streams of push. *)

(* What grouping entries of E by level can give. *)
Grouped(E) ==
    UNION {[K -> Seq({e.attrs : e \in E})] : K \in SUBSET {e.level : e \in E}}

LEMMA AddTyped ==
    ASSUME NEW E, NEW b \in Grouped(E), NEW e \in E
    PROVE  AddToLevel(b, e) \in Grouped(E)
  <1> DEFINE Attr == {d.attrs : d \in E}
             Lev == {d.level : d \in E}
             a == AddToLevel(b, e)
  <1>1. PICK K \in SUBSET Lev : b \in [K -> Seq(Attr)]
    BY DEF Grouped
  <1>2. e.attrs \in Attr /\ e.level \in Lev
    OBVIOUS
  <1> HIDE DEF Attr, Lev
  <1>3. ASSUME NEW l \in K \cup {e.level}
        PROVE  a[l] \in Seq(Attr)
    <2> DEFINE values == IF l \in K THEN b[l] ELSE <<>>
    <2>1. values \in Seq(Attr)
      BY <1>1
    <2>2. a[l] = IF l = e.level THEN Append(values, e.attrs) ELSE values
      BY <1>1 DEF AddToLevel
    <2> HIDE DEF values, a
    <2>3. QED
      BY <1>2, <2>1, <2>2
  <1>4. a \in [K \cup {e.level} -> Seq(Attr)]
    <2>1. DOMAIN a = K \cup {e.level} /\ a = [l \in DOMAIN a |-> a[l]]
      BY <1>1 DEF AddToLevel
    <2> HIDE DEF a
    <2>2. QED
      BY <1>3, <2>1
  <1>5. K \cup {e.level} \in SUBSET Lev
    BY <1>1, <1>2
  <1> HIDE DEF a
  <1>6. a \in Grouped(E)
    BY <1>4, <1>5 DEF Grouped, Attr, Lev
  <1>7. QED
    BY <1>6 DEF a

(* ByLevel takes the entries one after the other. *)
LEMMA ByLevelSteps ==
    ASSUME NEW E, NEW entries \in Seq(E)
    PROVE  \E f : /\ f \in [0..Len(entries) -> Grouped(E)]
                  /\ f[0] = [l \in {} |-> <<>>]
                  /\ \A i \in 1..Len(entries) : f[i] = AddToLevel(f[i - 1], entries[i])
                  /\ ByLevel(entries) = f[Len(entries)]
  <1> DEFINE n == Len(entries)
             none == [l \in {} |-> <<>>]
  <1>1. n \in Nat /\ \A i \in 1..n : entries[i] \in E
    OBVIOUS
  <1>2. none \in Grouped(E)
    <2>1. none \in [{} -> Seq({e.attrs : e \in E})] /\ {} \in SUBSET {e.level : e \in E}
      OBVIOUS
    <2>2. QED
      BY <2>1 DEF Grouped
  <1> DEFINE F == [x \in Grouped(E) \X (1..n) |-> AddToLevel(x[1], entries[x[2]])]
  <1>4. F \in [Grouped(E) \X (1..n) -> Grouped(E)]
    <2>1. ASSUME NEW x \in Grouped(E) \X (1..n)
          PROVE  AddToLevel(x[1], entries[x[2]]) \in Grouped(E)
      <3>1. x[1] \in Grouped(E) /\ entries[x[2]] \in E
        BY <1>1
      <3>2. QED
        BY <3>1, AddTyped
    <2>2. QED
      BY <2>1
  <1>5. \A b \in Grouped(E), i \in 1..n : F[<<b, i>>] = AddToLevel(b, entries[i])
    OBVIOUS
  <1> HIDE DEF n, none, F
  <1>6. PICK f \in [0..n -> Grouped(E)] :
            f[0] = none /\ \A i \in 1..n : f[i] = F[<<f[i - 1], i>>]
    <2>1. \E f \in [0..n -> Grouped(E)] : MadeUpTo(f, n, none, F)
      BY <1>1, <1>2, <1>4, StepByStep
    <2>2. QED
      BY <2>1 DEF MadeUpTo
  <1>7. \A i \in 1..n : f[i] = AddToLevel(f[i - 1], entries[i])
    <2> TAKE i \in 1..n
    <2>1. i - 1 \in 0..n /\ f[i - 1] \in Grouped(E)
      BY <1>1, <1>6
    <2>2. QED
      BY <1>5, <1>6, <2>1
  <1> DEFINE Eq(g) == g = [i \in 0..n |->
                             IF i = 0 THEN none ELSE AddToLevel(g[i - 1], entries[i])]
             made == CHOOSE g : Eq(g)
  <1>3. ByLevel(entries) = made[n]
    BY DEF ByLevel, n, none
  <1>8. Eq(f)
    <2>1. \A i \in 0..n : i # 0 => i \in 1..n
      BY <1>1
    <2>2. \A i \in 0..n : f[i] = IF i = 0 THEN none ELSE AddToLevel(f[i - 1], entries[i])
      BY <1>6, <1>7, <2>1
    <2>3. QED
      BY <1>6, <2>2
  <1>9. Eq(made)
    <2> HIDE DEF Eq
    <2>1. QED
      BY <1>8
  <1> HIDE DEF made
  <1>10. made[0] = none /\ \A i \in 1..n : made[i] = AddToLevel(made[i - 1], entries[i])
    <2>1. 0 \in 0..n /\ \A i \in 1..n : i \in 0..n /\ i # 0
      BY <1>1
    <2>2. QED
      BY <1>9, <2>1
  <1> DEFINE P == {i \in 0..n : made[i] \in Grouped(E)}
  <1>11. 0..n \subseteq P
    <2>1. 0 \in P
      BY <1>1, <1>2, <1>10
    <2>2. ASSUME NEW i \in 1..n, i - 1 \in P
          PROVE  i \in P
      <3>1. made[i - 1] \in Grouped(E) /\ entries[i] \in E /\ i \in 0..n
        BY <1>1, <2>2
      <3>2. AddToLevel(made[i - 1], entries[i]) \in Grouped(E)
        BY <3>1, AddTyped
      <3>3. QED
        BY <1>10, <3>1, <3>2
    <2> HIDE DEF P
    <2>3. QED
      BY <1>1, <2>1, <2>2, UpTo
  <1>12. made \in [0..n -> Grouped(E)]
    <2>1. DOMAIN made = 0..n /\ made = [i \in 0..n |-> made[i]]
      BY <1>9
    <2>2. QED
      BY <1>11, <2>1
  <1>13. QED
    BY <1>3, <1>10, <1>12 DEF n, none

(* The entries of level l. *)
Own(entries, l) == {i \in DOMAIN entries : entries[i].level = l}

(* b is what the first n entries give. *)
Sorted(entries, n, b) ==
    /\ DOMAIN b = {entries[i].level : i \in 1..n}
    /\ \A l \in DOMAIN b :
          /\ Len(b[l]) = Rank(Own(entries, l), n)
          /\ \A i \in 1..n : entries[i].level = l =>
                /\ Rank(Own(entries, l), i) \in 1..Rank(Own(entries, l), n)
                /\ b[l][Rank(Own(entries, l), i)] = entries[i].attrs

(* One more entry is the last value of its level. *)
LEMMA SortedStep ==
    ASSUME NEW E, NEW entries \in Seq(E), NEW n \in 1..Len(entries), NEW b \in Grouped(E),
           Sorted(entries, n - 1, b)
    PROVE  Sorted(entries, n, AddToLevel(b, entries[n]))
  <1> DEFINE e == entries[n]
             a == AddToLevel(b, e)
             R(l, i) == Rank(Own(entries, l), i)
  <1>1. n \in Nat \ {0} /\ e \in E /\ \A i : i \in 1..n <=> (i \in 1..(n - 1) \/ i = n)
    OBVIOUS
  <1>2. DOMAIN a = DOMAIN b \cup {e.level}
    BY DEF AddToLevel
  <1>3. DOMAIN a = {entries[i].level : i \in 1..n}
    BY <1>1, <1>2 DEF Sorted
  <1>4. \A l : R(l, n - 1) \in Nat /\ R(l, n) = R(l, n - 1) + (IF e.level = l THEN 1 ELSE 0)
    <2> TAKE l
    <2>1. /\ Len(entries) \in Nat /\ Own(entries, l) \subseteq 1..Len(entries)
          /\ n \in Own(entries, l) <=> e.level = l
      BY DEF Own
    <2>2. QED
      BY <2>1, RankGrows
  <1>5. ASSUME NEW l \in DOMAIN a
        PROVE  /\ Len(a[l]) = R(l, n)
               /\ \A i \in 1..n : entries[i].level = l =>
                     R(l, i) \in 1..R(l, n) /\ a[l][R(l, i)] = entries[i].attrs
    <2> DEFINE values == IF l \in DOMAIN b THEN b[l] ELSE <<>>
    <2>1. a[l] = IF l = e.level THEN Append(values, e.attrs) ELSE values
      BY DEF AddToLevel
    <2>2. PICK S : values \in Seq(S) /\ e.attrs \in S
      <3>1. PICK K : b \in [K -> Seq({d.attrs : d \in E})]
        BY DEF Grouped
      <3>2. values \in Seq({d.attrs : d \in E}) /\ e.attrs \in {d.attrs : d \in E}
        BY <1>1, <3>1
      <3> HIDE DEF values, e
      <3>3. QED
        BY <3>2
    <2>3. Len(values) = R(l, n - 1)
      <3>1. CASE l \in DOMAIN b
        BY <3>1 DEF Sorted
      <3>2. CASE l \notin DOMAIN b
        <4>1. \A j \in 1..(n - 1) : entries[j].level # l
          BY <3>2 DEF Sorted
        <4>2. \A j \in Own(entries, l) : ~(j <= n - 1)
          BY <1>1, <4>1 DEF Own
        <4>3. R(l, n - 1) = 0
          BY <4>2, RankOfNone
        <4>4. values = <<>>
          BY <3>2
        <4>5. QED
          BY <4>3, <4>4
      <3>3. QED
        BY <3>1, <3>2
    <2>4. \A i \in 1..(n - 1) : entries[i].level = l =>
             R(l, i) \in 1..R(l, n - 1) /\ values[R(l, i)] = entries[i].attrs
      BY DEF Sorted
    <2> HIDE DEF a, e, values, R
    <2>5. CASE l # e.level
      <3>1. a[l] = values /\ R(l, n) = R(l, n - 1)
        BY <1>4, <2>1, <2>5
      <3>2. \A i \in 1..n : entries[i].level = l => i \in 1..(n - 1)
        BY <1>1, <2>5 DEF e
      <3>3. QED
        BY <2>3, <2>4, <3>1, <3>2
    <2>6. CASE l = e.level
      <3>1. R(l, n - 1) \in Nat /\ R(l, n) = R(l, n - 1) + 1
        BY <1>4, <2>6
      <3>2. /\ Len(a[l]) = R(l, n) /\ a[l][R(l, n)] = e.attrs
            /\ \A k \in 1..R(l, n - 1) : a[l][k] = values[k]
        BY <2>1, <2>2, <2>3, <2>6, <3>1
      <3>3. ASSUME NEW i \in 1..n, entries[i].level = l
            PROVE  R(l, i) \in 1..R(l, n) /\ a[l][R(l, i)] = entries[i].attrs
        <4>1. CASE i = n
          BY <3>1, <3>2, <4>1 DEF e
        <4>2. CASE i # n
          <5>1. R(l, i) \in 1..R(l, n - 1) /\ values[R(l, i)] = entries[i].attrs
            BY <1>1, <2>4, <3>3, <4>2
          <5>2. QED
            BY <3>1, <3>2, <5>1
        <4>3. QED
          BY <4>1, <4>2
      <3>4. QED
        BY <3>2, <3>3
    <2>7. QED
      BY <2>5, <2>6
  <1>6. QED
    BY <1>3, <1>5 DEF Sorted

LEMMA ByLevelSorted ==
    ASSUME NEW E, NEW entries \in Seq(E)
    PROVE  Sorted(entries, Len(entries), ByLevel(entries))
  <1>1. PICK f : /\ f \in [0..Len(entries) -> Grouped(E)]
                 /\ f[0] = [l \in {} |-> <<>>]
                 /\ \A i \in 1..Len(entries) : f[i] = AddToLevel(f[i - 1], entries[i])
                 /\ ByLevel(entries) = f[Len(entries)]
    BY ByLevelSteps
  <1> DEFINE n == Len(entries)
             P == {i \in 0..n : Sorted(entries, i, f[i])}
  <1>2. n \in Nat
    OBVIOUS
  <1>3. 0 \in P
    <2>1. DOMAIN f[0] = {} /\ \A i \in 1..0 : FALSE
      BY <1>1
    <2>2. Sorted(entries, 0, f[0])
      BY <2>1 DEF Sorted
    <2>3. QED
      BY <1>2, <2>2
  <1>4. ASSUME NEW i \in 1..n, i - 1 \in P
        PROVE  i \in P
    <2>1. /\ i \in 0..n /\ i - 1 \in 0..n /\ f[i - 1] \in Grouped(E)
          /\ Sorted(entries, i - 1, f[i - 1])
      BY <1>1, <1>4
    <2>2. Sorted(entries, i, AddToLevel(f[i - 1], entries[i]))
      BY <2>1, SortedStep
    <2>3. QED
      BY <1>1, <2>1, <2>2
  <1>5. n \in P
    <2> HIDE DEF P
    <2>1. 0..n \subseteq P
      BY <1>2, <1>3, <1>4, UpTo
    <2>2. QED
      BY <1>2, <2>1
  <1>6. QED
    BY <1>1, <1>5

(* There are as many streams as levels: a stream's label is its level. *)
LEMMA OneStreamPerLevel ==
    ASSUME NEW E, NEW entries \in Seq(E)
    PROVE  Cardinality(Streams(entries)) = Cardinality(DOMAIN ByLevel(entries))
  <1> DEFINE n == Len(entries)
             L == DOMAIN ByLevel(entries)
             stream(l) == [stream |-> StreamLabels(l), values |-> ByLevel(entries)[l]]
             f == [l \in L |-> stream(l)]
             g == [i \in 1..n |-> entries[i].level]
  <1>1. n \in Nat /\ L = {entries[i].level : i \in 1..n}
    <2>1. Sorted(entries, Len(entries), ByLevel(entries))
      BY ByLevelSorted
    <2>2. QED
      BY <2>1 DEF Sorted
  <1>2. IsFiniteSet(L)
    <2>1. g \in Surjection(1..n, L)
      BY <1>1 DEF Surjection
    <2>2. IsFiniteSet(1..n)
      <3> HIDE DEF n
      <3>1. QED
        BY <1>1, FS_Interval
    <2> HIDE DEF g, L
    <2>3. QED
      BY <2>1, <2>2, FS_Surjection
  <1>3. Streams(entries) = {stream(l) : l \in L}
    BY DEF Streams
  <1>4. \A l \in L : stream(l).stream["level"] = l
    BY DEF StreamLabels
  <1> HIDE DEF L
  <1>5. \A l, m \in L : f[l] = f[m] => l = m
    <2> TAKE l, m \in L
    <2>1. f[l] = stream(l) /\ f[m] = stream(m)
      OBVIOUS
    <2> HIDE DEF stream, f
    <2>2. QED
      BY <1>4, <2>1
  <1>6. f \in Bijection(L, Streams(entries))
    <2> HIDE DEF stream
    <2>1. f \in [L -> Streams(entries)]
      BY <1>3
    <2>2. \A t \in Streams(entries) : \E l \in L : f[l] = t
      BY <1>3
    <2> HIDE DEF f
    <2>3. QED
      BY <1>5, <2>1, <2>2 DEF Bijection, Injection, IsInjective, Surjection
  <1>7. ExistsBijection(L, Streams(entries))
    BY <1>6 DEF ExistsBijection
  <1>8. QED
    BY <1>2, <1>7, FS_Bijection DEF L

(* What StreamsPartition says of the entries exported so far, of any batch. *)
PartitionOf(batch) ==
    LET levels == {e.level : e \in Range(batch)}
        streams == Streams(batch)
    IN  /\ Cardinality(streams) = Cardinality(levels)
        /\ \A l \in levels : \E st \in streams :
              LET own == {i \in DOMAIN batch : batch[i].level = l} IN
              /\ st.stream["level"] = l
              /\ \A k \in DOMAIN Labels \ {"level"} : st.stream[k] = Labels[k]
              /\ Len(st.values) = Cardinality(own)
              /\ \A i \in own :
                    st.values[Cardinality({j \in own : j <= i})] = batch[i].attrs

(* A push carries each entry of its batch exactly once, under its level and in
   the order of the batch, whatever the batch (push, logger/loki.go). *)
THEOREM AnyPushPartitions ==
    ASSUME NEW E, NEW batch \in Seq(E)
    PROVE  PartitionOf(batch)
  <1> DEFINE levels == {e.level : e \in Range(batch)}
  <1>1. /\ Sorted(batch, Len(batch), ByLevel(batch))
        /\ Cardinality(Streams(batch)) = Cardinality(DOMAIN ByLevel(batch))
    BY ByLevelSorted, OneStreamPerLevel
  <1>2. DOMAIN batch = 1..Len(batch) /\ Len(batch) \in Nat
    OBVIOUS
  <1>3. levels = DOMAIN ByLevel(batch)
    <2>1. levels = {batch[i].level : i \in DOMAIN batch}
      BY DEF Range
    <2>2. QED
      BY <1>1, <1>2, <2>1 DEF Sorted
  <1> DEFINE own(l) == {i \in DOMAIN batch : batch[i].level = l}
             nth(l, i) == Cardinality({j \in own(l) : j <= i})
  <1>4. ASSUME NEW l \in levels
        PROVE  /\ Cardinality(own(l)) = Rank(Own(batch, l), Len(batch))
               /\ \A i \in own(l) : nth(l, i) = Rank(Own(batch, l), i)
    <2>1. own(l) = Own(batch, l) /\ Own(batch, l) \subseteq 1..Len(batch)
      BY <1>2 DEF Own
    <2>2. Cardinality(Own(batch, l)) = Rank(Own(batch, l), Len(batch))
      BY <1>2, <2>1, RankOfAll
    <2> HIDE DEF own
    <2>3. QED
      BY <2>1, <2>2 DEF Rank
  <1>5. ASSUME NEW l \in levels
        PROVE  \E st \in Streams(batch) :
                  /\ st.stream["level"] = l
                  /\ \A k \in DOMAIN Labels \ {"level"} : st.stream[k] = Labels[k]
                  /\ Len(st.values) = Cardinality(own(l))
                  /\ \A i \in own(l) : st.values[nth(l, i)] = batch[i].attrs
    <2> DEFINE st == [stream |-> StreamLabels(l), values |-> ByLevel(batch)[l]]
    <2>1. st \in Streams(batch)
      BY <1>3, <1>5 DEF Streams
    <2>2. /\ st.stream["level"] = l
          /\ \A k \in DOMAIN Labels \ {"level"} : st.stream[k] = Labels[k]
      BY DEF StreamLabels
    <2>3. /\ Len(st.values) = Rank(Own(batch, l), Len(batch))
          /\ \A i \in 1..Len(batch) : batch[i].level = l
                => st.values[Rank(Own(batch, l), i)] = batch[i].attrs
      BY <1>1, <1>3, <1>5 DEF Sorted
    <2>4. /\ Len(st.values) = Cardinality(own(l))
          /\ \A i \in own(l) : st.values[nth(l, i)] = batch[i].attrs
      <3>1. \A i \in own(l) : i \in 1..Len(batch) /\ batch[i].level = l
        BY <1>2
      <3> HIDE DEF own, nth, st
      <3>2. QED
        BY <1>4, <2>3, <3>1
    <2> HIDE DEF st, own, nth
    <2>5. QED
      BY <2>1, <2>2, <2>4
  <1>6. Cardinality(Streams(batch)) = Cardinality(levels)
    BY <1>1, <1>3
  <1>7. QED
    BY <1>5, <1>6 DEF PartitionOf

(* In particular one that holds all that has been exported. *)
THEOREM PushPartitions == Spec => []StreamsPartition
  <1>1. ASSUME IInv
        PROVE  StreamsPartition
    <2>1. exported \in Seq(EntrySet)
      BY <1>1 DEF IInv
    <2>2. PICK batch : batch = exported
      OBVIOUS
    <2>3. PartitionOf(batch)
      BY <2>1, <2>2, AnyPushPartitions
    <2>4. PartitionOf(exported)
      BY <2>2, <2>3
    <2>5. QED
      BY <2>4 DEF PartitionOf, StreamsPartition
  <1>2. QED
    BY <1>1, SpecIInv, PTL
==============================================================================
