--------------------------- MODULE ProviderProofs ---------------------------
(***************************************************************************)
(* Proofs, for every number of Providers and every set of configurations   *)
(* with any fan-out of span exporters, of what Provider says of New,       *)
(* ForceFlush and Shutdown, and that every signal of every Provider keeps  *)
(* to what Pipeline promises.                                              *)
(***************************************************************************)
EXTENDS Provider, SequenceTheorems, TLAPS

Label == {"none", "traces", "metrics", "register", "logger", "ready",
          "flushTraces", "flushMetrics", "flushed",
          "closing", "aborting", "closed", "failed"}

Resource == ({"conn", "batcher"} \X Nat) \cup {Reader, Listener, Starting}

Typed ==
    /\ cfg \in [Provider -> Config]
    /\ pc \in [Provider -> Label]
    /\ built \in [Provider -> Nat]
    /\ open \in [Provider -> SUBSET Resource]
    /\ fns \in [Provider -> Seq(Signal)]
    /\ next \in [Provider -> Nat]
    /\ state \in [Provider -> [Signal -> {"none", "open", "shut"}]]
    /\ errs \in [Provider -> BOOLEAN]
    /\ global \in [{"trace", "metric"} -> Provider \cup {None}]
    /\ pending \in [Provider -> SUBSET Signal]
    /\ draining \in [Provider -> SUBSET {"trace", "log"}]
    /\ due \in [Provider -> SUBSET {"trace"}]

(* The order in which New starts the signals. *)
Place(s) == IF s = "trace" THEN 1 ELSE IF s = "metric" THEN 2 ELSE 3

Bounded(p) ==
    /\ built[p] <= Len(cfg[p].traces)
    /\ \A r \in open[p] : IsConn(r) \/ IsBatcher(r) => r[2] <= Len(cfg[p].traces)
    /\ next[p] <= Len(fns[p])

(* p.shutdownFns is in that order and as long as New has come. *)
Listed(p) ==
    /\ \A i \in 1..Len(fns[p]) : Place(fns[p][i]) = i
    /\ pc[p] \in {"none", "traces"} => Len(fns[p]) = 0
    /\ pc[p] \in {"metrics", "register", "aborting"} => Len(fns[p]) = 1
    /\ pc[p] = "logger" => Len(fns[p]) = 2
    /\ pc[p] \in {"ready", "flushTraces", "flushMetrics", "flushed", "closing", "closed"} =>
          Len(fns[p]) >= 2
    /\ Gone(p) => next[p] = 0

(* How many signals, the first ones, are open. *)
Level(p) ==
    IF pc[p] \in {"closing", "aborting", "closed", "failed"} THEN next[p]
    ELSE IF pc[p] = "register" THEN 2
    ELSE Len(fns[p])

(* What has been started and is above that level has been shut, but for spans,
   which an error may leave open. *)
Ladder(p) ==
    \A s \in Signal :
        IF Place(s) <= Level(p) THEN state[p][s] = "open"
        ELSE IF Place(s) <= Len(fns[p])
               THEN state[p][s] = "shut" \/ (s = "trace" /\ state[p][s] = "open" /\ errs[p])
               ELSE state[p][s] = "none"

(* Telemetry is left in a pipeline that has been shut, and drained behind
   Shutdown's back, only with an error. *)
Kept(p) ==
    /\ \A s \in pending[p] : state[p][s] = "open" \/ (state[p][s] = "shut" /\ errs[p])
    /\ draining[p] # {} => errs[p] /\ pc[p] \in {"closing", "aborting", "closed", "failed"}

(* What a pipeline runs goes with it, but for a Prometheus listener that waits
   for srv.Serve. *)
Runs(p) ==
    /\ state[p]["trace"] = "shut" => \A r \in open[p] : ~IsBatcher(r)
    /\ Reader \in open[p] => state[p]["metric"] = "open"
    /\ Listener \in open[p] =>
          state[p]["metric"] = "open" \/ (state[p]["metric"] = "shut" /\ Starting \in open[p])

Sound(p) == Bounded(p) /\ Listed(p) /\ Ladder(p) /\ Kept(p) /\ Runs(p)

IInv == Typed /\ \A p \in Provider : Sound(p)

-----------------------------------------------------------------------------
(* A step of Provider p changes nothing of another one, except that it may
   flush what the other has buffered. *)
Elsewhere(p) ==
    \A q \in Provider \ {p} :
        /\ cfg'[q] = cfg[q] /\ pc'[q] = pc[q] /\ built'[q] = built[q]
        /\ open'[q] = open[q] /\ fns'[q] = fns[q] /\ next'[q] = next[q]
        /\ state'[q] = state[q] /\ errs'[q] = errs[q]
        /\ pending'[q] \subseteq pending[q] /\ draining'[q] = draining[q]

(* A Provider whose parts stay as they are stays sound. *)
LEMMA SoundStays ==
    ASSUME NEW q \in Provider, Sound(q),
           cfg'[q] = cfg[q], pc'[q] = pc[q], built'[q] = built[q],
           open'[q] = open[q], fns'[q] = fns[q], next'[q] = next[q],
           state'[q] = state[q], errs'[q] = errs[q],
           pending'[q] \subseteq pending[q], draining'[q] \subseteq draining[q]
    PROVE  Sound(q)'
<1>1. Bounded(q)' /\ Listed(q)'
  BY DEF Sound, Bounded, Listed, Gone
<1>2. Ladder(q)'
  BY DEF Sound, Ladder, Level
<1>3. Kept(q)' /\ Runs(q)'
  BY DEF Sound, Kept, Runs
<1>. QED  BY <1>1, <1>2, <1>3 DEF Sound

(* So only the Provider that moves has to be looked at. *)
LEMMA Assemble ==
    ASSUME IInv, NEW p \in Provider, Typed', Elsewhere(p), Sound(p)'
    PROVE  IInv'
<1>1. \A q \in Provider \ {p} : Sound(q)'
  BY SoundStays DEF IInv, Elsewhere
<1>. QED  BY <1>1 DEF IInv

(* No Provider exists to begin with. *)
THEOREM InitIInv == Init => IInv
<1>. SUFFICES ASSUME Init PROVE IInv
  OBVIOUS
<1>1. <<>> \in Seq(Signal) /\ Len(<<>>) = 0
  BY EmptySeq
<1>2. Typed
  <2>1. cfg \in [Provider -> Config] /\ pc \in [Provider -> Label]
    BY DEF Init, Label
  <2>2. /\ built \in [Provider -> Nat] /\ next \in [Provider -> Nat]
        /\ open \in [Provider -> SUBSET Resource]
        /\ fns \in [Provider -> Seq(Signal)]
    BY <1>1 DEF Init
  <2>3. /\ state \in [Provider -> [Signal -> {"none", "open", "shut"}]]
        /\ errs \in [Provider -> BOOLEAN]
        /\ global \in [{"trace", "metric"} -> Provider \cup {None}]
        /\ pending \in [Provider -> SUBSET Signal]
        /\ draining \in [Provider -> SUBSET {"trace", "log"}]
        /\ due \in [Provider -> SUBSET {"trace"}]
    BY DEF Init
  <2>. QED  BY <2>1, <2>2, <2>3 DEF Typed
<1>3. ASSUME NEW p \in Provider PROVE Sound(p)
  <2>1. Len(cfg[p].traces) \in Nat
    BY <1>2, ConfigAssumption DEF Typed
  <2>2. Bounded(p) /\ Listed(p) /\ Kept(p) /\ Runs(p)
    BY <1>1, <2>1 DEF Init, Bounded, Listed, Gone, Kept, Runs
  <2>3. Ladder(p)
    BY <1>1 DEF Init, Ladder, Level, Place
  <2>. QED  BY <2>2, <2>3 DEF Sound
<1>. QED  BY <1>2, <1>3 DEF IInv

-----------------------------------------------------------------------------
(* What the invariant says of the parts of one Provider. *)
LEMMA Parts ==
    ASSUME IInv, NEW p \in Provider
    PROVE  /\ Len(cfg[p].traces) \in Nat /\ cfg[p].metrics \in ExporterType
           /\ fns[p] \in Seq(Signal) /\ Len(fns[p]) \in Nat
           /\ next[p] \in Nat /\ next[p] <= Len(fns[p])
           /\ built[p] \in Nat
           /\ Bounded(p) /\ Listed(p) /\ Ladder(p) /\ Kept(p) /\ Runs(p)
<1>1. cfg[p] \in [traces : Seq(ExporterType), metrics : ExporterType, logs : BOOLEAN]
  BY ConfigAssumption DEF IInv, Typed
<1>2. fns[p] \in Seq(Signal) /\ next[p] \in Nat /\ built[p] \in Nat
  BY DEF IInv, Typed
<1>. QED  BY <1>1, <1>2 DEF IInv, Sound, Bounded

LEMMA Places ==
    /\ Signal = {"trace", "metric", "log"}
    /\ Place("trace") = 1 /\ Place("metric") = 2 /\ Place("log") = 3
  BY DEF Signal, Place

(* Appending a signal to a list of signals. *)
LEMMA AppendSignal ==
    ASSUME NEW q \in Seq(Signal), NEW s \in Signal
    PROVE  /\ Append(q, s) \in Seq(Signal)
           /\ Len(Append(q, s)) = Len(q) + 1
           /\ \A i \in 1..Len(q) : Append(q, s)[i] = q[i]
           /\ Append(q, s)[Len(q) + 1] = s
  BY AppendProperties

(* As long as nothing has been shut, the first signals are open. *)
LEMMA Rungs ==
    ASSUME IInv, NEW p \in Provider, Len(fns[p]) <= Level(p)
    PROVE  \A s \in Signal : state[p][s] = IF Place(s) <= Level(p) THEN "open" ELSE "none"
<1>1. Level(p) \in Nat /\ Len(fns[p]) \in Nat
  BY Parts DEF Level
<1>2. \A s \in Signal : Place(s) \in Nat
  BY Places
<1>. QED  BY <1>1, <1>2, Parts DEF Ladder

(* Until Shutdown is called, or New gives up, nothing drains behind it. *)
LEMMA Calm ==
    ASSUME IInv, NEW p \in Provider, pc[p] \notin {"closing", "aborting", "closed", "failed"}
    PROVE  draining[p] = {}
  BY Parts DEF Kept

(* Telemetry is in a pipeline that has been opened. *)
LEMMA Opened ==
    ASSUME IInv, NEW p \in Provider, NEW s \in pending[p]
    PROVE  s \in Signal /\ state[p][s] # "none" /\ (state[p][s] = "shut" => errs[p])
<1>1. s \in Signal
  BY DEF IInv, Typed
<1>. QED  BY <1>1, Parts DEF Kept

(* Each action preserves IInv. *)

(* New starts, or refuses. *)
LEMMA NewBeginsStep ==
    ASSUME IInv, NEW p \in Provider, NEW ok \in BOOLEAN, NewBegins(p, ok)
    PROVE  IInv'
<1>1. /\ pc[p] = "none" /\ pc' = [pc EXCEPT ![p] = IF ok THEN "traces" ELSE "failed"]
      /\ UNCHANGED <<cfg, built, open, fns, state, next, errs, global, pending, draining, due>>
  BY DEF NewBegins, At, Goto, setupVars, dataVars
<1>2. Typed'
  BY <1>1 DEF IInv, Typed, Label
<1>3. Elsewhere(p)
  BY <1>1 DEF Elsewhere, IInv, Typed
<1>4. pc'[p] \in {"traces", "failed"}
  BY <1>1 DEF IInv, Typed
<1>5. Bounded(p)' /\ Kept(p)' /\ Runs(p)'
  BY <1>1 DEF IInv, Sound, Bounded, Kept, Runs
<1>6. Len(fns[p]) = 0 /\ next[p] = 0
  BY <1>1 DEF IInv, Typed, Sound, Listed, Bounded
<1>7. Listed(p)'
  BY <1>1, <1>4, <1>6 DEF IInv, Sound, Listed, Gone
<1>8. Ladder(p)'
  BY <1>1, <1>4, <1>6 DEF IInv, Sound, Ladder, Level
<1>. QED  BY <1>2, <1>3, <1>5, <1>7, <1>8, Assemble DEF Sound

(* A span exporter is built, or not. *)
LEMMA BuildExporterStep ==
    ASSUME IInv, NEW p \in Provider,
           BuildExporter(p) \/ \E dialled \in BOOLEAN : BuildExporterFails(p, dialled)
    PROVE  IInv'
<1>. DEFINE n == built[p] + 1
<1>1. /\ pc[p] = "traces" /\ built[p] < Len(cfg[p].traces)
      /\ UNCHANGED <<cfg, fns, state, next, errs, global, pending, draining, due>>
      /\ pc' = pc \/ pc' = [pc EXCEPT ![p] = "failed"]
      /\ built' = built \/ built' = [built EXCEPT ![p] = n]
  BY DEF BuildExporter, BuildExporterFails, At, Goto, dataVars
<1>2. PICK rs \in SUBSET {Conn(n), Batcher(n)} : open' = [open EXCEPT ![p] = open[p] \cup rs]
  <2>1. open' = open => open' = [open EXCEPT ![p] = open[p] \cup {}]
    BY DEF IInv, Typed
  <2>2. ConnOf(p) \subseteq {Conn(n)}
    BY DEF ConnOf
  <2>. QED  BY <2>1, <2>2 DEF BuildExporter, BuildExporterFails, Opens
<1>3. /\ Len(cfg[p].traces) \in Nat /\ n \in Nat /\ n <= Len(cfg[p].traces)
  BY <1>1, ConfigAssumption DEF IInv, Typed
<1>4. rs \subseteq Resource
  BY <1>3 DEF Conn, Batcher, Resource
<1>5. Typed'
  <2>1. pc' \in [Provider -> Label] /\ built' \in [Provider -> Nat]
    <3>1. "failed" \in Label
      BY DEF Label
    <3>2. pc' \in [Provider -> Label]
      BY <1>1, <3>1 DEF IInv, Typed
    <3>3. built' \in [Provider -> Nat]
      BY <1>1, <1>3 DEF IInv, Typed
    <3>. QED  BY <3>2, <3>3
  <2>2. open' \in [Provider -> SUBSET Resource]
    BY <1>2, <1>4 DEF IInv, Typed
  <2>. QED  BY <1>1, <2>1, <2>2 DEF IInv, Typed
<1>6. Elsewhere(p)
  BY <1>1, <1>2 DEF Elsewhere, IInv, Typed
<1>7. /\ pc'[p] \in {"traces", "failed"} /\ built'[p] \in {built[p], n}
      /\ open'[p] = open[p] \cup rs
  BY <1>1, <1>2 DEF IInv, Typed
<1>8. Len(fns[p]) = 0 /\ next[p] = 0
  BY <1>1 DEF IInv, Typed, Sound, Listed, Bounded
<1>9. Bounded(p)'
  <2>1. \A r \in rs : r[2] = n
    BY DEF Conn, Batcher
  <2>. QED  BY <1>1, <1>3, <1>7, <2>1 DEF IInv, Sound, Bounded
<1>10. Listed(p)'
  BY <1>1, <1>7, <1>8 DEF IInv, Sound, Listed, Gone
<1>11. Ladder(p)'
  BY <1>1, <1>7, <1>8 DEF IInv, Sound, Ladder, Level
<1>12. Kept(p)'
  BY <1>1 DEF IInv, Sound, Kept
<1>13. Runs(p)'
  <2>1. state[p]["trace"] = "none"
    BY <1>1, <1>8 DEF IInv, Sound, Ladder, Level, Signal, Place
  <2>2. \A r \in rs : r # Reader /\ r # Listener
    BY DEF Conn, Batcher, Reader, Listener
  <2>. QED  BY <1>1, <1>7, <2>1, <2>2 DEF IInv, Sound, Runs
<1>. QED  BY <1>5, <1>6, <1>9, <1>10, <1>11, <1>12, <1>13, Assemble DEF Sound

(* The trace pipeline is started and registered. *)
LEMMA RegisterTracerStep ==
    ASSUME IInv, NEW p \in Provider, RegisterTracer(p)
    PROVE  IInv'
<1>1. /\ pc[p] = "traces" /\ pc' = [pc EXCEPT ![p] = "metrics"]
      /\ state' = [state EXCEPT ![p]["trace"] = "open"]
      /\ global' = [global EXCEPT !["trace"] = p]
      /\ fns' = [fns EXCEPT ![p] = Append(fns[p], "trace")]
      /\ UNCHANGED <<cfg, built, open, next, errs, pending, draining, due>>
  BY DEF RegisterTracer, At, Goto, Start, dataVars
<1>2. /\ Len(fns[p]) = 0 /\ next[p] = 0 /\ fns[p] \in Seq(Signal) /\ "trace" \in Signal
      /\ \A s \in Signal : state[p][s] = "none"
  <2>1. Len(fns[p]) = 0 /\ next[p] = 0
    BY <1>1, Parts DEF Listed
  <2>. QED  BY <1>1, <2>1, Parts, Places DEF Ladder, Level
<1>3. /\ Append(fns[p], "trace") \in Seq(Signal)
      /\ Len(Append(fns[p], "trace")) = 1
      /\ Append(fns[p], "trace")[1] = "trace"
  BY <1>2, AppendSignal
<1>4. Typed'
  <2>1. pc' \in [Provider -> Label] /\ fns' \in [Provider -> Seq(Signal)]
    BY <1>1, <1>3 DEF IInv, Typed, Label
  <2>2. state' \in [Provider -> [Signal -> {"none", "open", "shut"}]]
    BY <1>1 DEF IInv, Typed
  <2>3. global' \in [{"trace", "metric"} -> Provider \cup {None}]
    BY <1>1 DEF IInv, Typed
  <2>. QED  BY <1>1, <2>1, <2>2, <2>3 DEF IInv, Typed
<1>5. Elsewhere(p)
  BY <1>1 DEF Elsewhere, IInv, Typed
<1>6. /\ pc'[p] = "metrics" /\ fns'[p] = Append(fns[p], "trace")
      /\ \A s \in Signal : state'[p][s] = IF s = "trace" THEN "open" ELSE "none"
  BY <1>1, <1>2 DEF IInv, Typed
<1>7. Bounded(p)'
  BY <1>1, <1>2, <1>3, <1>6 DEF IInv, Sound, Bounded
<1>8. Listed(p)'
  BY <1>3, <1>6 DEF Listed, Gone, Place
<1>9. Ladder(p)'
  BY <1>3, <1>6 DEF Ladder, Level, Signal, Place
<1>10. Kept(p)'
  <2>1. pending[p] = {} /\ draining[p] = {}
    BY <1>1, <1>2, Opened, Calm
  <2>. QED  BY <1>1, <2>1 DEF Kept
<1>11. Runs(p)'
  BY <1>1, <1>2, <1>6, Places, Parts DEF Runs
<1>. QED  BY <1>4, <1>5, <1>7, <1>8, <1>9, <1>10, <1>11, Assemble DEF Sound

(* The resources of the metric pipeline are told apart from a batcher. *)
LEMMA MeterResourcesType ==
    ASSUME NEW x \in ExporterType
    PROVE  /\ MeterResources(x) \subseteq {MetricConn, Reader, Listener, Starting}
           /\ Listener \in MeterResources(x) => Starting \in MeterResources(x)
  BY DEF MeterResources, ExporterType, MetricConn, Conn, Reader, Listener, Starting

LEMMA ResourcesDiffer ==
    /\ IsConn(MetricConn) /\ MetricConn[2] = 0
    /\ \A r \in {Reader, Listener, Starting} : ~IsConn(r) /\ ~IsBatcher(r)
    /\ ~IsBatcher(MetricConn)
    /\ Reader # Listener /\ Reader # Starting /\ Listener # Starting
    /\ MetricConn \notin {Reader, Listener, Starting}
  BY DEF IsConn, IsBatcher, MetricConn, Conn, Reader, Listener, Starting

(* The metric pipeline is built. *)
LEMMA BuildMeterStep ==
    ASSUME IInv, NEW p \in Provider, BuildMeter(p)
    PROVE  IInv'
<1>. DEFINE rs == MeterResources(cfg[p].metrics)
<1>1. /\ pc[p] = "metrics" /\ pc' = [pc EXCEPT ![p] = "register"]
      /\ state' = [state EXCEPT ![p]["metric"] = "open"]
      /\ open' = [open EXCEPT ![p] = open[p] \cup rs]
      /\ UNCHANGED <<cfg, built, fns, next, errs, global, pending, draining, due>>
  BY DEF BuildMeter, At, Goto, Start, Opens, dataVars
<1>2. rs \subseteq {MetricConn, Reader, Listener, Starting} /\ rs \subseteq Resource
  <2>1. cfg[p].metrics \in ExporterType
    BY ConfigAssumption DEF IInv, Typed
  <2>2. {MetricConn, Reader, Listener, Starting} \subseteq Resource
    BY DEF MetricConn, Conn, Resource
  <2>. QED  BY <2>1, <2>2, MeterResourcesType
<1>3. /\ Len(fns[p]) = 1 /\ Len(cfg[p].traces) \in Nat
      /\ \A s \in Signal : state[p][s] = IF s = "trace" THEN "open" ELSE "none"
  <2>1. Len(fns[p]) = 1 /\ Level(p) = 1
    BY <1>1, Parts DEF Listed, Level
  <2>2. \A s \in Signal : state[p][s] = IF Place(s) <= 1 THEN "open" ELSE "none"
    <3>1. Len(fns[p]) <= Level(p)
      BY <2>1
    <3>. QED  BY <2>1, <3>1, Rungs
  <2>. QED  BY <2>1, <2>2, Parts, Places
<1>4. Typed'
  <2>1. pc' \in [Provider -> Label] /\ open' \in [Provider -> SUBSET Resource]
    BY <1>1, <1>2 DEF IInv, Typed, Label
  <2>2. state' \in [Provider -> [Signal -> {"none", "open", "shut"}]]
    BY <1>1 DEF IInv, Typed
  <2>. QED  BY <1>1, <2>1, <2>2 DEF IInv, Typed
<1>5. Elsewhere(p)
  BY <1>1 DEF Elsewhere, IInv, Typed
<1>6. /\ pc'[p] = "register" /\ open'[p] = open[p] \cup rs
      /\ \A s \in Signal : state'[p][s] = IF s = "log" THEN "none" ELSE "open"
  BY <1>1, <1>3 DEF IInv, Typed, Signal
<1>7. Bounded(p)'
  <2>1. \A r \in rs : IsConn(r) \/ IsBatcher(r) => r[2] = 0
    BY <1>2, ResourcesDiffer
  <2>2. \A r \in open'[p] : IsConn(r) \/ IsBatcher(r) => r[2] <= Len(cfg[p].traces)
    BY <1>3, <1>6, <2>1, Parts DEF Bounded
  <2>. QED  BY <1>1, <2>2, Parts DEF Bounded
<1>8. Listed(p)'
  BY <1>1, <1>3, <1>6 DEF IInv, Sound, Listed, Gone
<1>9. Ladder(p)'
  BY <1>1, <1>3, <1>6 DEF Ladder, Level, Signal, Place
<1>10. Kept(p)'
  <2>1. draining[p] = {} /\ \A s \in pending[p] : s = "trace"
    BY <1>1, <1>3, Opened, Calm
  <2>. QED  BY <1>1, <1>3, <1>6, <2>1, Places DEF Kept
<1>11. Runs(p)'
  BY <1>1, <1>3, <1>6, Places, Parts DEF Runs
<1>. QED  BY <1>4, <1>5, <1>7, <1>8, <1>9, <1>10, <1>11, Assemble DEF Sound

(* The metric pipeline cannot be built: New starts to abort. *)
LEMMA BuildMeterFailsStep ==
    ASSUME IInv, NEW p \in Provider, NEW dialled \in BOOLEAN, BuildMeterFails(p, dialled)
    PROVE  IInv'
<1>1. /\ pc[p] = "metrics" /\ pc' = [pc EXCEPT ![p] = "aborting"]
      /\ next' = [next EXCEPT ![p] = Len(fns[p])]
      /\ UNCHANGED <<cfg, built, fns, state, errs, global, pending, draining, due>>
  BY DEF BuildMeterFails, At, Goto, dataVars
<1>2. PICK rs \in SUBSET {MetricConn} : open' = [open EXCEPT ![p] = open[p] \cup rs]
  BY DEF BuildMeterFails, Opens
<1>3. /\ Len(fns[p]) = 1 /\ Len(cfg[p].traces) \in Nat
      /\ \A s \in Signal : state[p][s] = IF s = "trace" THEN "open" ELSE "none"
  <2>1. Len(fns[p]) = 1 /\ Level(p) = 1
    BY <1>1, Parts DEF Listed, Level
  <2>2. \A s \in Signal : state[p][s] = IF Place(s) <= 1 THEN "open" ELSE "none"
    <3>1. Len(fns[p]) <= Level(p)
      BY <2>1
    <3>. QED  BY <2>1, <3>1, Rungs
  <2>. QED  BY <2>1, <2>2, Parts, Places
<1>4. Typed'
  <2>1. pc' \in [Provider -> Label] /\ next' \in [Provider -> Nat]
    BY <1>1, <1>3 DEF IInv, Typed, Label
  <2>2. rs \subseteq Resource
    BY DEF MetricConn, Conn, Resource
  <2>3. open' \in [Provider -> SUBSET Resource]
    BY <1>2, <2>2 DEF IInv, Typed
  <2>. QED  BY <1>1, <2>1, <2>3 DEF IInv, Typed
<1>5. Elsewhere(p)
  BY <1>1, <1>2 DEF Elsewhere, IInv, Typed
<1>6. pc'[p] = "aborting" /\ next'[p] = 1 /\ open'[p] = open[p] \cup rs
  BY <1>1, <1>2, <1>3 DEF IInv, Typed
<1>7. Bounded(p)'
  BY <1>1, <1>3, <1>6, ResourcesDiffer DEF IInv, Sound, Bounded
<1>8. Listed(p)'
  BY <1>1, <1>3, <1>6 DEF IInv, Sound, Listed, Gone
<1>9. Ladder(p)'
  BY <1>1, <1>3, <1>6 DEF Ladder, Level, Signal, Place
<1>10. Kept(p)'
  BY <1>1 DEF IInv, Sound, Kept
<1>11. Runs(p)'
  BY <1>1, <1>3, <1>6, ResourcesDiffer DEF IInv, Sound, Runs, Signal
<1>. QED  BY <1>4, <1>5, <1>7, <1>8, <1>9, <1>10, <1>11, Assemble DEF Sound

(* The metric pipeline is registered. *)
LEMMA RegisterMeterStep ==
    ASSUME IInv, NEW p \in Provider, RegisterMeter(p)
    PROVE  IInv'
<1>1. /\ pc[p] = "register" /\ pc' = [pc EXCEPT ![p] = "logger"]
      /\ global' = [global EXCEPT !["metric"] = p]
      /\ fns' = [fns EXCEPT ![p] = Append(fns[p], "metric")]
      /\ UNCHANGED <<cfg, built, open, state, next, errs, pending, draining, due>>
  BY DEF RegisterMeter, At, Goto, dataVars
<1>2. /\ Len(fns[p]) = 1 /\ fns[p] \in Seq(Signal) /\ "metric" \in Signal
      /\ next[p] <= 1 /\ next[p] \in Nat
      /\ \A s \in Signal : state[p][s] = IF s = "log" THEN "none" ELSE "open"
  <2>1. Len(fns[p]) = 1 /\ Level(p) = 2
    BY <1>1, Parts DEF Listed, Level
  <2>2. \A s \in Signal : state[p][s] = IF Place(s) <= 2 THEN "open" ELSE "none"
    <3>1. Len(fns[p]) <= Level(p)
      BY <2>1
    <3>. QED  BY <2>1, <3>1, Rungs
  <2>3. \A s \in Signal : state[p][s] = IF s = "log" THEN "none" ELSE "open"
    BY <2>2, Places
  <2>4. fns[p] \in Seq(Signal) /\ next[p] \in Nat /\ next[p] <= 1
    BY <2>1, Parts
  <2>. QED  BY <2>1, <2>3, <2>4, Places
<1>3. /\ Append(fns[p], "metric") \in Seq(Signal)
      /\ Len(Append(fns[p], "metric")) = 2
      /\ Append(fns[p], "metric")[1] = fns[p][1]
      /\ Append(fns[p], "metric")[2] = "metric"
  <2>1. /\ Append(fns[p], "metric") \in Seq(Signal)
        /\ Len(Append(fns[p], "metric")) = Len(fns[p]) + 1
        /\ \A i \in 1..Len(fns[p]) : Append(fns[p], "metric")[i] = fns[p][i]
        /\ Append(fns[p], "metric")[Len(fns[p]) + 1] = "metric"
    BY <1>2, AppendSignal
  <2>. QED  BY <1>2, <2>1
<1>4. Typed'
  <2>1. pc' \in [Provider -> Label] /\ fns' \in [Provider -> Seq(Signal)]
    BY <1>1, <1>3 DEF IInv, Typed, Label
  <2>2. global' \in [{"trace", "metric"} -> Provider \cup {None}]
    BY <1>1 DEF IInv, Typed
  <2>. QED  BY <1>1, <2>1, <2>2 DEF IInv, Typed
<1>5. Elsewhere(p)
  BY <1>1 DEF Elsewhere, IInv, Typed
<1>6. pc'[p] = "logger" /\ fns'[p] = Append(fns[p], "metric")
  BY <1>1 DEF IInv, Typed
<1>7. Bounded(p)'
  BY <1>1, <1>2, <1>3, <1>6 DEF IInv, Sound, Bounded
<1>8. Listed(p)'
  <2>1. Place(fns[p][1]) = 1
    BY <1>2 DEF IInv, Sound, Listed
  <2>2. \A i \in 1..2 : Place(fns'[p][i]) = i
    BY <1>3, <1>6, <2>1 DEF Place
  <2>. QED  BY <1>3, <1>6, <2>2 DEF Listed, Gone
<1>9. Ladder(p)'
  BY <1>1, <1>2, <1>3, <1>6 DEF Ladder, Level, Signal, Place
<1>10. Kept(p)' /\ Runs(p)'
  BY <1>1 DEF IInv, Sound, Kept, Runs
<1>. QED  BY <1>4, <1>5, <1>7, <1>8, <1>9, <1>10, Assemble DEF Sound

(* The logger is built, with the exporter's Shutdown if there is one. *)
LEMMA BuildLoggerStep ==
    ASSUME IInv, NEW p \in Provider, BuildLogger(p)
    PROVE  IInv'
<1>1. /\ pc[p] = "logger" /\ pc' = [pc EXCEPT ![p] = "ready"]
      /\ UNCHANGED <<cfg, built, open, next, errs, global, pending, draining, due>>
  BY DEF BuildLogger, At, Goto, dataVars
<1>2. /\ Len(fns[p]) = 2 /\ fns[p] \in Seq(Signal) /\ next[p] <= 2 /\ next[p] \in Nat
      /\ \A s \in Signal : state[p][s] = IF s = "log" THEN "none" ELSE "open"
  <2>1. Len(fns[p]) = 2 /\ Level(p) = 2
    BY <1>1, Parts DEF Listed, Level
  <2>2. \A s \in Signal : state[p][s] = IF Place(s) <= 2 THEN "open" ELSE "none"
    <3>1. Len(fns[p]) <= Level(p)
      BY <2>1
    <3>. QED  BY <2>1, <3>1, Rungs
  <2>3. \A s \in Signal : state[p][s] = IF s = "log" THEN "none" ELSE "open"
    BY <2>2, Places
  <2>4. fns[p] \in Seq(Signal) /\ next[p] \in Nat /\ next[p] <= 2
    BY <2>1, Parts
  <2>. QED  BY <2>1, <2>3, <2>4
<1>3. Elsewhere(p)
  BY <1>1 DEF BuildLogger, Start, Elsewhere, IInv, Typed
<1>4. pc'[p] = "ready" /\ pc' \in [Provider -> Label]
  BY <1>1 DEF IInv, Typed, Label
<1>5. CASE state' = state /\ fns' = fns
  <2>1. Typed'
    BY <1>1, <1>4, <1>5 DEF IInv, Typed
  <2>2. Bounded(p)' /\ Kept(p)' /\ Runs(p)'
    BY <1>1, <1>5, Parts DEF Bounded, Kept, Runs
  <2>3. Listed(p)'
    <3>1. /\ \A i \in 1..Len(fns'[p]) : Place(fns'[p][i]) = i
          /\ Len(fns'[p]) = 2
      BY <1>2, <1>5, Parts DEF Listed
    <3>. QED  BY <1>4, <3>1 DEF Listed, Gone
  <2>4. Ladder(p)'
    <3>1. Level(p)' = 2
      BY <1>2, <1>4, <1>5 DEF Level
    <3>2. Len(fns'[p]) = 2 /\ state'[p] = state[p]
      BY <1>2, <1>5
    <3>. QED  BY <1>2, <3>1, <3>2, Places DEF Ladder
  <2>. QED  BY <1>3, <2>1, <2>2, <2>3, <2>4, Assemble DEF Sound
<1>6. CASE /\ state' = [state EXCEPT ![p]["log"] = "open"]
           /\ fns' = [fns EXCEPT ![p] = Append(fns[p], "log")]
  <2>1. /\ Append(fns[p], "log") \in Seq(Signal)
        /\ Len(Append(fns[p], "log")) = Len(fns[p]) + 1
        /\ \A i \in 1..Len(fns[p]) : Append(fns[p], "log")[i] = fns[p][i]
        /\ Append(fns[p], "log")[Len(fns[p]) + 1] = "log"
    BY <1>2, AppendSignal, Places
  <2>2. /\ fns'[p] = Append(fns[p], "log") /\ Len(fns'[p]) = 3
        /\ \A s \in Signal : state'[p][s] = "open"
    BY <1>2, <1>6, <2>1 DEF IInv, Typed
  <2>3. Typed'
    <3>1. fns' \in [Provider -> Seq(Signal)]
      BY <1>6, <2>1 DEF IInv, Typed
    <3>2. state' \in [Provider -> [Signal -> {"none", "open", "shut"}]]
      BY <1>6 DEF IInv, Typed
    <3>. QED  BY <1>1, <1>4, <3>1, <3>2 DEF IInv, Typed
  <2>4. Bounded(p)'
    BY <1>1, <1>2, <2>2, Parts DEF Bounded
  <2>5. Listed(p)'
    <3>1. \A i \in 1..2 : Place(fns[p][i]) = i
      BY <1>2, Parts DEF Listed
    <3>2. \A i \in 1..3 : Place(fns'[p][i]) = i
      BY <1>2, <2>1, <2>2, <3>1, Places
    <3>. QED  BY <1>4, <2>2, <3>2 DEF Listed, Gone
  <2>6. Ladder(p)'
    BY <1>4, <2>2, Places DEF Ladder, Level
  <2>7. Kept(p)' /\ Runs(p)'
    BY <1>1, <2>2, Parts, Places DEF IInv, Typed, Kept, Runs
  <2>. QED  BY <1>3, <2>3, <2>4, <2>5, <2>6, <2>7, Assemble DEF Sound
<1>. QED  BY <1>5, <1>6 DEF BuildLogger, Start

(* srv.Serve takes the listener over, or closes it. *)
LEMMA ServeStep ==
    ASSUME IInv, NEW p \in Provider, Serve(p)
    PROVE  IInv'
<1>. DEFINE rs == {Starting} \cup IF state[p]["metric"] = "shut" THEN {Listener} ELSE {}
<1>1. /\ open' = [open EXCEPT ![p] = open[p] \ rs]
      /\ UNCHANGED <<cfg, built, fns, pc, state, next, errs, global, pending, draining, due>>
  BY DEF Serve, dataVars
<1>2. Typed'
  BY <1>1 DEF IInv, Typed
<1>3. Elsewhere(p)
  BY <1>1 DEF Elsewhere, IInv, Typed
<1>4. open'[p] = open[p] \ rs
  BY <1>1 DEF IInv, Typed
<1>5. Bounded(p)' /\ Listed(p)' /\ Ladder(p)' /\ Kept(p)'
  BY <1>1, <1>4, Parts DEF Bounded, Listed, Gone, Ladder, Level, Kept
<1>6. Runs(p)'
  BY <1>1, <1>4, Parts DEF Runs
<1>. QED  BY <1>2, <1>3, <1>5, <1>6, Assemble DEF Sound

(* A Provider that has been built and not shut down has no signal shut. *)
Running(p) == pc[p] \in {"ready", "flushTraces", "flushMetrics", "flushed"}

LEMMA NothingShut ==
    ASSUME IInv, NEW p \in Provider, Running(p)
    PROVE  /\ Len(fns[p]) >= 2
           /\ \A s \in Signal :
                 state[p][s] = IF Place(s) <= Len(fns[p]) THEN "open" ELSE "none"
  BY Parts, Places DEF Running, Listed, Ladder, Level

(* ForceFlush and its two halves move the label; others may lose what the
   global providers export. *)
LEMMA FlushLabelStep ==
    ASSUME IInv, NEW p \in Provider, NEW l \in {"flushTraces", "flushMetrics", "flushed"},
           Running(p), pc' = [pc EXCEPT ![p] = l],
           errs' \in [Provider -> BOOLEAN], \A q \in Provider \ {p} : errs'[q] = errs[q],
           pending' \in [Provider -> SUBSET Signal],
           \A q \in Provider : pending'[q] \subseteq pending[q],
           due' \in [Provider -> SUBSET {"trace"}],
           UNCHANGED <<cfg, built, open, fns, state, next, global, draining>>
    PROVE  IInv'
<1>1. Typed' /\ pc'[p] = l
  BY DEF IInv, Typed, Label
<1>2. Elsewhere(p)
  BY DEF Elsewhere, IInv, Typed
<1>3. Bounded(p)' /\ Runs(p)'
  BY Parts DEF Bounded, Runs
<1>4. Listed(p)'
  BY <1>1, NothingShut, Parts DEF Listed, Gone
<1>5. Ladder(p)'
  BY <1>1, NothingShut DEF Ladder, Level
<1>6. Kept(p)'
  <2>1. draining[p] = {}
    BY Calm DEF Running
  <2>2. \A s \in pending[p] : state[p][s] = "open"
    BY NothingShut, Opened
  <2>. QED  BY <2>1, <2>2 DEF Kept
<1>. QED  BY <1>1, <1>2, <1>3, <1>4, <1>5, <1>6, Assemble DEF Sound

(* What a pipeline lets go of is not pending any more. *)
LEMMA LetsGoType ==
    ASSUME IInv, NEW p \in Provider, NEW s \in Signal, LetsGo(p, s)
    PROVE  /\ pending' \in [Provider -> SUBSET Signal]
           /\ \A q \in Provider : pending'[q] \subseteq pending[q]
           /\ pending'[p] = pending[p] \ {s}
           /\ due' \in [Provider -> SUBSET {"trace"}]
           /\ \A q \in Provider \ {p} : pending'[q] = pending[q]
<1>1. pending' = [pending EXCEPT ![p] = pending[p] \ {s}]
  BY DEF LetsGo
<1>2. due' = [due EXCEPT ![p] = due[p] \ {s}]
  BY DEF LetsGo
<1>3. /\ pending' \in [Provider -> SUBSET Signal]
      /\ \A q \in Provider : pending'[q] \subseteq pending[q]
      /\ pending'[p] = pending[p] \ {s}
      /\ \A q \in Provider \ {p} : pending'[q] = pending[q]
  BY <1>1 DEF IInv, Typed
<1>4. due' \in [Provider -> SUBSET {"trace"}]
  BY <1>2 DEF IInv, Typed
<1>. QED  BY <1>3, <1>4

(* Flushing a global provider, whoever has registered it. *)
LEMMA FlushExports ==
    ASSUME IInv, NEW p \in Provider, NEW s \in {"trace", "metric"}, NEW ok \in BOOLEAN,
           Flush(p, s, ok)
    PROVE  /\ errs' \in [Provider -> BOOLEAN] /\ \A q \in Provider \ {p} : errs'[q] = errs[q]
           /\ pending' \in [Provider -> SUBSET Signal]
           /\ \A q \in Provider : pending'[q] \subseteq pending[q]
           /\ due' \in [Provider -> SUBSET {"trace"}]
           /\ UNCHANGED <<cfg, built, open, fns, state, next, global, draining>>
<1>1. /\ errs' = [errs EXCEPT ![p] = errs[p] \/ ~ok]
      /\ UNCHANGED <<cfg, built, open, fns, state, next, global, draining>>
  BY DEF Flush, setupVars
<1>2. errs' \in [Provider -> BOOLEAN] /\ \A q \in Provider \ {p} : errs'[q] = errs[q]
  BY <1>1 DEF IInv, Typed
<1>3. CASE UNCHANGED <<pending, due>>
  BY <1>1, <1>2, <1>3 DEF IInv, Typed
<1>4. CASE global[s] # None /\ LetsGo(global[s], s)
  <2>1. global[s] \in Provider /\ s \in Signal
    BY <1>4 DEF IInv, Typed, Signal
  <2>. QED  BY <1>1, <1>2, <1>4, <2>1, LetsGoType
<1>. QED  BY <1>3, <1>4 DEF Flush, dataVars

LEMMA FlushSteps ==
    ASSUME IInv, NEW p \in Provider,
           \/ ForceFlush(p)
           \/ \E ok \in BOOLEAN : FlushTraces(p, ok) \/ FlushMetrics(p, ok)
    PROVE  IInv'
<1>1. CASE ForceFlush(p)
  <2>1. /\ Running(p) /\ pc' = [pc EXCEPT ![p] = "flushTraces"]
        /\ UNCHANGED <<cfg, built, open, fns, state, next, global, pending, draining>>
        /\ errs' = [errs EXCEPT ![p] = FALSE]
        /\ due' = [due EXCEPT ![p] = pending[p] \cap {"trace"}]
    BY <1>1 DEF ForceFlush, Goto, setupVars, Running
  <2>2. errs' \in [Provider -> BOOLEAN] /\ \A q \in Provider \ {p} : errs'[q] = errs[q]
    BY <2>1 DEF IInv, Typed
  <2>3. due' \in [Provider -> SUBSET {"trace"}] /\ pending' \in [Provider -> SUBSET Signal]
    BY <2>1 DEF IInv, Typed
  <2>. QED  BY <2>1, <2>2, <2>3, FlushLabelStep
<1>2. ASSUME NEW ok \in BOOLEAN, FlushTraces(p, ok) PROVE IInv'
  <2>1. Running(p) /\ pc' = [pc EXCEPT ![p] = "flushMetrics"] /\ Flush(p, "trace", ok)
    BY <1>2 DEF FlushTraces, At, Goto, Running
  <2>. QED  BY <2>1, FlushExports, FlushLabelStep
<1>3. ASSUME NEW ok \in BOOLEAN, FlushMetrics(p, ok) PROVE IInv'
  <2>1. Running(p) /\ pc' = [pc EXCEPT ![p] = "flushed"] /\ Flush(p, "metric", ok)
    BY <1>3 DEF FlushMetrics, At, Goto, Running
  <2>. QED  BY <2>1, FlushExports, FlushLabelStep
<1>. QED  BY <1>1, <1>2, <1>3

(* Shutdown starts at the last function. *)
LEMMA ShutdownStep ==
    ASSUME IInv, NEW p \in Provider, Shutdown(p)
    PROVE  IInv'
<1>1. /\ Running(p) /\ pc' = [pc EXCEPT ![p] = "closing"]
      /\ next' = [next EXCEPT ![p] = Len(fns[p])]
      /\ errs' = [errs EXCEPT ![p] = FALSE]
      /\ due' = [due EXCEPT ![p] = {}]
      /\ UNCHANGED <<cfg, built, open, fns, state, global, pending, draining>>
  BY DEF Shutdown, Goto, setupVars, Running
<1>2. pc'[p] = "closing" /\ next'[p] = Len(fns[p]) /\ Len(fns[p]) \in Nat
  BY <1>1, Parts DEF IInv, Typed
<1>3. Typed'
  BY <1>1, <1>2 DEF IInv, Typed, Label
<1>4. Elsewhere(p)
  BY <1>1 DEF Elsewhere, IInv, Typed
<1>5. Bounded(p)' /\ Runs(p)'
  BY <1>1, <1>2, Parts DEF Bounded, Runs
<1>6. Listed(p)'
  BY <1>1, <1>2, NothingShut, Parts DEF Listed, Gone
<1>7. Ladder(p)'
  BY <1>1, <1>2, NothingShut DEF Ladder, Level
<1>8. Kept(p)'
  <2>1. draining[p] = {}
    BY <1>1, Calm DEF Running
  <2>2. \A s \in pending[p] : state[p][s] = "open"
    BY <1>1, NothingShut, Opened
  <2>. QED  BY <1>1, <2>1, <2>2 DEF Kept
<1>. QED  BY <1>3, <1>4, <1>5, <1>6, <1>7, <1>8, Assemble DEF Sound

(* The function whose turn it is belongs to the last signal that is open. *)
LEMMA TurnOf ==
    ASSUME IInv, NEW p \in Provider, pc[p] \in {"closing", "aborting"}, next[p] > 0
    PROVE  /\ Turn(p) \in Signal /\ Place(Turn(p)) = next[p]
           /\ state[p][Turn(p)] = "open"
           /\ \A s \in Signal : Place(s) = next[p] => s = Turn(p)
           /\ next[p] - 1 \in Nat /\ next[p] <= Len(fns[p]) /\ next[p] \in Nat
<1>1. /\ fns[p] \in Seq(Signal) /\ next[p] \in 1..Len(fns[p])
      /\ \A i \in 1..Len(fns[p]) : Place(fns[p][i]) = i
  BY Parts DEF Listed
<1>2. Turn(p) \in Signal /\ Place(Turn(p)) = next[p]
  BY <1>1 DEF Turn
<1>3. \A s \in Signal : Place(s) = next[p] => s = Turn(p)
  BY <1>2, Places
<1>4. Level(p) = next[p]
  BY DEF Level
<1>5. state[p][Turn(p)] = "open"
  BY <1>1, <1>2, <1>4, Parts DEF Ladder
<1>. QED  BY <1>1, <1>2, <1>3, <1>5

(* What the function whose turn it is does to its pipeline. *)
LEMMA ShutdownFnDoes ==
    ASSUME IInv, NEW p \in Provider, NEW ok \in BOOLEAN, ShutdownFn(p, ok)
    PROVE  LET s == Turn(p) IN
           /\ pc[p] \in {"closing", "aborting"} /\ next[p] > 0
           /\ errs' = [errs EXCEPT ![p] = errs[p] \/ ~ok]
           /\ next' = [next EXCEPT ![p] = next[p] - 1]
           /\ UNCHANGED <<cfg, pc, built, fns, global>>
           /\ \E spared \in SUBSET Batchers(p) :
                 /\ spared # {} => ~ok /\ s = "trace"
                 /\ state' = [state EXCEPT ![p][s] = IF spared = {} THEN "shut" ELSE "open"]
                 /\ open' = [open EXCEPT ![p] = open[p] \ (Stops(p, s) \ spared)]
                 /\ \/ LetsGo(p, s) /\ spared = {}
                    \/ UNCHANGED <<pending, due>> /\ ~ok
                 /\ \/ UNCHANGED draining
                    \/ /\ draining' = [draining EXCEPT ![p] = draining[p] \cup {s}]
                       /\ ~ok /\ s \in {"trace", "log"}
<1>. DEFINE s == Turn(p)
<1>1. PICK spared \in Spared(p, s, ok) :
        /\ state' = [state EXCEPT ![p][s] = IF spared = {} THEN "shut" ELSE @]
        /\ open' = [open EXCEPT ![p] = open[p] \ (Stops(p, s) \ spared)]
        /\ \/ spared = {} /\ LetsGo(p, s) /\ UNCHANGED draining
           \/ /\ ~ok /\ Lingers(p, s, spared)
              /\ draining' = [draining EXCEPT ![p] = draining[p] \cup {s}]
              /\ UNCHANGED <<pending, due>>
           \/ ~ok /\ UNCHANGED <<pending, draining, due>>
  BY DEF ShutdownFn, dataVars
<1>2. spared \subseteq Batchers(p) /\ (spared # {} => ~ok /\ s = "trace")
  BY DEF Spared
<1>3. s \in Signal /\ state[p][s] = "open"
  BY TurnOf DEF ShutdownFn
<1>4. state' = [state EXCEPT ![p][s] = IF spared = {} THEN "shut" ELSE "open"]
  BY <1>1, <1>3
<1>5. Lingers(p, s, spared) => s \in {"trace", "log"}
  BY <1>3 DEF Lingers, Signal
<1>6. /\ pc[p] \in {"closing", "aborting"} /\ next[p] > 0
      /\ errs' = [errs EXCEPT ![p] = errs[p] \/ ~ok]
      /\ next' = [next EXCEPT ![p] = next[p] - 1]
      /\ UNCHANGED <<cfg, pc, built, fns, global>>
  BY DEF ShutdownFn, Proceeds
<1>. QED  BY <1>1, <1>2, <1>4, <1>5, <1>6

(* A function shuts its pipeline, or spares some of its batchers. *)
LEMMA ShutdownFnStep ==
    ASSUME IInv, NEW p \in Provider, NEW ok \in BOOLEAN, ShutdownFn(p, ok)
    PROVE  IInv'
<1>. DEFINE s == Turn(p)
<1>1. /\ pc[p] \in {"closing", "aborting"} /\ next[p] > 0
      /\ errs' = [errs EXCEPT ![p] = errs[p] \/ ~ok]
      /\ next' = [next EXCEPT ![p] = next[p] - 1]
      /\ UNCHANGED <<cfg, pc, built, fns, global>>
  BY ShutdownFnDoes
<1>2. PICK spared \in SUBSET Batchers(p) :
        /\ spared # {} => ~ok /\ s = "trace"
        /\ state' = [state EXCEPT ![p][s] = IF spared = {} THEN "shut" ELSE "open"]
        /\ open' = [open EXCEPT ![p] = open[p] \ (Stops(p, s) \ spared)]
        /\ \/ LetsGo(p, s) /\ spared = {}
           \/ UNCHANGED <<pending, due>> /\ ~ok
        /\ \/ UNCHANGED draining
           \/ /\ draining' = [draining EXCEPT ![p] = draining[p] \cup {s}]
              /\ ~ok /\ s \in {"trace", "log"}
  BY ShutdownFnDoes
<1>. DEFINE after == IF spared = {} THEN "shut" ELSE "open"
<1>3. /\ s \in Signal /\ Place(s) = next[p] /\ state[p][s] = "open"
      /\ \A t \in Signal : Place(t) = next[p] => t = s
      /\ next[p] - 1 \in Nat /\ next[p] <= Len(fns[p]) /\ next[p] \in Nat
  BY <1>1, TurnOf
<1>4. /\ next'[p] = next[p] - 1
      /\ open'[p] = open[p] \ (Stops(p, s) \ spared)
      /\ \A t \in Signal : state'[p][t] = IF t = s THEN after ELSE state[p][t]
  BY <1>1, <1>2, <1>3 DEF IInv, Typed
<1>5. /\ pending' \in [Provider -> SUBSET Signal] /\ due' \in [Provider -> SUBSET {"trace"}]
      /\ \A q \in Provider : pending'[q] \subseteq pending[q]
      /\ ok => s \notin pending'[p]
  <2>1. CASE LetsGo(p, s)
    BY <1>3, <2>1, LetsGoType
  <2>2. CASE UNCHANGED <<pending, due>> /\ ~ok
    BY <2>2 DEF IInv, Typed
  <2>. QED  BY <1>2, <2>1, <2>2
<1>6. errs' \in [Provider -> BOOLEAN] /\ errs'[p] = (errs[p] \/ ~ok)
  BY <1>1 DEF IInv, Typed
<1>7. /\ draining' \in [Provider -> SUBSET {"trace", "log"}]
      /\ \A q \in Provider \ {p} : draining'[q] = draining[q]
      /\ draining'[p] # {} => draining[p] # {} \/ ~ok
  <2>1. CASE UNCHANGED draining
    BY <2>1 DEF IInv, Typed
  <2>2. CASE /\ draining' = [draining EXCEPT ![p] = draining[p] \cup {s}]
             /\ ~ok /\ s \in {"trace", "log"}
    <3>. HIDE DEF s
    <3>. QED  BY <2>2 DEF IInv, Typed
  <2>. QED  BY <1>2, <2>1, <2>2
<1>8. Typed'
  <2>1. state' \in [Provider -> [Signal -> {"none", "open", "shut"}]]
    <3>1. after \in {"none", "open", "shut"}
      OBVIOUS
    <3>. HIDE DEF after
    <3>2. state' = [state EXCEPT ![p][s] = after]
      BY <1>2 DEF after
    <3>. QED  BY <1>3, <3>1, <3>2 DEF IInv, Typed
  <2>2. open' \in [Provider -> SUBSET Resource]
    BY <1>2 DEF IInv, Typed
  <2>3. next' \in [Provider -> Nat]
    BY <1>1, <1>3 DEF IInv, Typed
  <2>. QED  BY <1>1, <1>5, <1>6, <1>7, <2>1, <2>2, <2>3 DEF IInv, Typed
<1>9. Elsewhere(p)
  BY <1>1, <1>2, <1>5, <1>7 DEF Elsewhere, IInv, Typed
<1>10. Bounded(p)'
  BY <1>1, <1>3, <1>4, Parts DEF Bounded
<1>11. Listed(p)'
  BY <1>1, Parts DEF Listed, Gone
<1>12. Ladder(p)'
  <2>1. Level(p) = next[p] /\ Level(p)' = next[p] - 1
    BY <1>1, <1>4 DEF Level
  <2>2. ASSUME NEW t \in Signal
        PROVE  IF Place(t) <= next[p] - 1 THEN state'[p][t] = "open"
               ELSE IF Place(t) <= Len(fns[p])
                      THEN state'[p][t] = "shut" \/ (t = "trace" /\ state'[p][t] = "open" /\ errs'[p])
                      ELSE state'[p][t] = "none"
    <3>1. IF Place(t) <= next[p] THEN state[p][t] = "open"
          ELSE IF Place(t) <= Len(fns[p])
                 THEN state[p][t] = "shut" \/ (t = "trace" /\ state[p][t] = "open" /\ errs[p])
                 ELSE state[p][t] = "none"
      BY <2>1, Parts DEF Ladder
    <3>2. Place(t) \in Nat /\ Len(fns[p]) \in Nat
      BY Places, Parts
    <3>3. CASE t = s
      BY <1>2, <1>3, <1>4, <1>6, <3>2, <3>3
    <3>4. CASE t # s
      BY <1>3, <1>4, <1>6, <3>1, <3>2, <3>4
    <3>. QED  BY <3>3, <3>4
  <2>. QED  BY <1>1, <2>1, <2>2 DEF Ladder
<1>13. Kept(p)'
  <2>1. ASSUME NEW t \in pending'[p]
        PROVE  state'[p][t] = "open" \/ (state'[p][t] = "shut" /\ errs'[p])
    BY <1>3, <1>4, <1>5, <1>6, Parts DEF Kept, IInv, Typed
  <2>2. draining'[p] # {} => errs'[p] /\ pc'[p] \in {"closing", "aborting", "closed", "failed"}
    <3>1. pc'[p] \in {"closing", "aborting"}
      BY <1>1
    <3>2. ASSUME draining'[p] # {} PROVE errs'[p]
      <4>1. errs[p] \/ ~ok
        <5>1. draining[p] # {} \/ ~ok
          BY <1>7, <3>2
        <5>2. draining[p] # {} => errs[p]
          BY Parts DEF Kept
        <5>. QED  BY <5>1, <5>2
      <4>. QED  BY <1>6, <4>1, Zenon
    <3>. QED  BY <3>1, <3>2
  <2>. QED  BY <2>1, <2>2 DEF Kept
<1>14. Runs(p)'
  <2>1. CASE s = "trace"
    BY <1>4, <2>1, ResourcesDiffer, Places, Parts DEF Runs, Stops, Batchers
  <2>2. CASE s = "metric"
    BY <1>2, <1>4, <2>2, ResourcesDiffer, Places, Parts DEF Runs, Stops
  <2>3. CASE s = "log"
    BY <1>2, <1>4, <2>3, Places, Parts DEF Runs, Stops
  <2>. QED  BY <1>3, <2>1, <2>2, <2>3, Places
<1>. QED  BY <1>8, <1>9, <1>10, <1>11, <1>12, <1>13, <1>14, Assemble DEF Sound

(* Shutdown, or New, returns. *)
LEMMA ShutdownReturnsStep ==
    ASSUME IInv, NEW p \in Provider, ShutdownReturns(p)
    PROVE  IInv'
<1>1. /\ pc[p] \in {"closing", "aborting"} /\ next[p] = 0
      /\ pc' = [pc EXCEPT ![p] = IF pc[p] = "closing" THEN "closed" ELSE "failed"]
      /\ UNCHANGED <<cfg, built, open, fns, state, next, errs, global, pending, draining, due>>
  BY DEF ShutdownReturns, Goto, setupVars, dataVars
<1>2. pc'[p] = IF pc[p] = "closing" THEN "closed" ELSE "failed"
  BY <1>1 DEF IInv, Typed
<1>3. Typed'
  BY <1>1 DEF IInv, Typed, Label
<1>4. Elsewhere(p)
  BY <1>1 DEF Elsewhere, IInv, Typed
<1>5. Bounded(p)' /\ Runs(p)' /\ Kept(p)'
  BY <1>1, Parts DEF Bounded, Runs, Kept
<1>6. Listed(p)'
  BY <1>1, <1>2, Parts DEF Listed, Gone
<1>7. Ladder(p)'
  BY <1>1, <1>2, Parts DEF Ladder, Level
<1>. QED  BY <1>3, <1>4, <1>5, <1>6, <1>7, Assemble DEF Sound

(* Telemetry arrives in a pipeline that is open. *)
LEMMA EmitStep ==
    ASSUME IInv, NEW p \in Provider, NEW s \in Signal, Emit(p, s)
    PROVE  IInv'
<1>1. /\ state[p][s] = "open"
      /\ pending' = [pending EXCEPT ![p] = pending[p] \cup {s}]
      /\ UNCHANGED <<cfg, built, open, fns, pc, state, next, errs, global, draining, due>>
  BY DEF Emit, Buffers, setupVars
<1>2. Typed' /\ pending'[p] = pending[p] \cup {s}
  BY <1>1 DEF IInv, Typed
<1>3. Elsewhere(p)
  BY <1>1 DEF Elsewhere, IInv, Typed
<1>4. Bounded(p)' /\ Listed(p)' /\ Ladder(p)' /\ Runs(p)'
  BY <1>1, Parts DEF Bounded, Listed, Gone, Ladder, Level, Runs
<1>5. Kept(p)'
  BY <1>1, <1>2, Parts DEF Kept
<1>. QED  BY <1>2, <1>3, <1>4, <1>5, Assemble DEF Sound

(* A batcher or a reader exports. *)
LEMMA ExportStep ==
    ASSUME IInv, NEW p \in Provider, NEW s \in Signal, Export(p, s)
    PROVE  IInv'
<1>1. /\ LetsGo(p, s)
      /\ UNCHANGED <<cfg, built, open, fns, pc, state, next, errs, global, draining>>
  BY DEF Export, setupVars
<1>2. /\ pending' \in [Provider -> SUBSET Signal] /\ due' \in [Provider -> SUBSET {"trace"}]
      /\ \A q \in Provider : pending'[q] \subseteq pending[q]
  BY <1>1, LetsGoType
<1>3. Typed' /\ Elsewhere(p)
  BY <1>1, <1>2 DEF IInv, Typed, Elsewhere
<1>4. Sound(p)'
  BY <1>1, <1>2, SoundStays DEF IInv
<1>. QED  BY <1>3, <1>4, Assemble

(* What drains behind Shutdown's back comes to its end. *)
LEMMA DrainEndsStep ==
    ASSUME IInv, NEW p \in Provider, NEW s \in Signal, DrainEnds(p, s)
    PROVE  IInv'
<1>1. /\ draining' = [draining EXCEPT ![p] = draining[p] \ {s}]
      /\ UNCHANGED <<cfg, built, open, fns, pc, state, next, errs, global, pending, due>>
  BY DEF DrainEnds, setupVars
<1>2. Typed' /\ Elsewhere(p) /\ draining'[p] \subseteq draining[p]
  BY <1>1 DEF IInv, Typed, Elsewhere
<1>3. Sound(p)'
  BY <1>1, <1>2, SoundStays DEF IInv
<1>. QED  BY <1>2, <1>3, Assemble

(* A stuttering step. *)
LEMMA StutterStep == ASSUME IInv, UNCHANGED vars PROVE IInv'
<1>1. UNCHANGED <<cfg, built, open, fns, pc, state, next, errs, global, pending, draining, due>>
  BY DEF vars, setupVars, dataVars
<1>2. Typed'
  BY <1>1 DEF IInv, Typed
<1>3. \A q \in Provider : Sound(q)'
  BY <1>1, SoundStays DEF IInv
<1>. QED  BY <1>2, <1>3 DEF IInv

(* Every step preserves the invariant. *)
THEOREM NextIInv == IInv /\ [Next]_vars => IInv'
<1>. SUFFICES ASSUME IInv, [Next]_vars PROVE IInv'
  OBVIOUS
<1>1. ASSUME NEW p \in Provider, New(p) PROVE IInv'
  BY <1>1, NewBeginsStep, BuildExporterStep, RegisterTracerStep, BuildMeterStep,
     BuildMeterFailsStep, RegisterMeterStep, BuildLoggerStep
  DEF New
<1>2. ASSUME NEW p \in Provider, Serve(p) PROVE IInv'
  BY <1>2, ServeStep
<1>3. ASSUME NEW p \in Provider, ForceFlush(p) \/ Shutdown(p) \/ ShutdownReturns(p) PROVE IInv'
  BY <1>3, FlushSteps, ShutdownStep, ShutdownReturnsStep
<1>4. ASSUME NEW p \in Provider, NEW ok \in BOOLEAN,
             FlushTraces(p, ok) \/ FlushMetrics(p, ok) \/ ShutdownFn(p, ok)
      PROVE  IInv'
  BY <1>4, FlushSteps, ShutdownFnStep
<1>5. ASSUME NEW p \in Provider, NEW s \in Signal, Emit(p, s) \/ Export(p, s) \/ DrainEnds(p, s)
      PROVE  IInv'
  BY <1>5, EmitStep, ExportStep, DrainEndsStep
<1>6. CASE UNCHANGED vars
  BY <1>6, StutterStep
<1>. QED  BY <1>1, <1>2, <1>3, <1>4, <1>5, <1>6 DEF Next

(* The invariant holds throughout. *)
THEOREM SpecIInv == Spec => []IInv
<1>. QED  BY InitIInv, NextIInv, PTL DEF Spec

-----------------------------------------------------------------------------
(* Every variable keeps to its type. *)
THEOREM TypeCorrect == Spec => []TypeOK
<1>1. IInv => TypeOK
  <2>. SUFFICES ASSUME IInv PROVE TypeOK
    OBVIOUS
  <2>1. ASSUME NEW p \in Provider
        PROVE  /\ built[p] \in 0..Len(cfg[p].traces)
               /\ open[p] \subseteq ({"conn", "batcher"} \X (0..Len(cfg[p].traces)))
                                       \cup {Reader, Listener, Starting}
               /\ fns[p] \in Seq(Signal) /\ next[p] \in 0..Len(fns[p])
    <3>1. ASSUME NEW r \in open[p], r \notin {Reader, Listener, Starting}
          PROVE  r \in {"conn", "batcher"} \X (0..Len(cfg[p].traces))
      <4>1. r \in {"conn", "batcher"} \X Nat
        BY <3>1 DEF IInv, Typed, Resource
      <4>2. PICK k \in {"conn", "batcher"}, n \in Nat : r = <<k, n>>
        BY <4>1
      <4>3. n <= Len(cfg[p].traces)
        BY <4>2, Parts DEF Bounded, IsConn, IsBatcher
      <4>. QED  BY <4>2, <4>3, Parts
    <3>2. built[p] \in 0..Len(cfg[p].traces) /\ next[p] \in 0..Len(fns[p])
      BY Parts DEF Bounded
    <3>. QED  BY <3>1, <3>2, Parts
  <2>. QED  BY <2>1 DEF TypeOK, IInv, Typed, Label
<1>. QED  BY <1>1, SpecIInv, PTL

(* When Shutdown has returned nil, nothing is buffered any more of what the
   Provider was given, whichever Provider the global ones are
   (telemetry.go:191-203). *)
THEOREM EmptiesOwn == Spec => []ShutdownEmptiesOwn
<1>1. IInv => ShutdownEmptiesOwn
  <2>. SUFFICES ASSUME IInv, NEW p \in Provider, pc[p] = "closed", ~errs[p],
                       NEW s \in pending[p]
                PROVE  FALSE
    BY DEF ShutdownEmptiesOwn
  <2>1. s \in Signal /\ state[p][s] = "open"
    BY Parts DEF IInv, Typed, Kept
  <2>2. Level(p) = 0
    BY Parts DEF Level, Listed, Gone
  <2>. QED  BY <2>1, <2>2, Parts, Places DEF Ladder
<1>. QED  BY <1>1, SpecIInv, PTL

(* Of a Provider that is gone nothing goes on, but for what a context that was
   done has spared, and then Shutdown has met an error (telemetry.go:94-203,
   internal/export/export.go). *)
THEOREM NothingOutlives == Spec => []NothingRunsAfterwards
<1>1. IInv => NothingRunsAfterwards
  <2>. SUFFICES ASSUME IInv, NEW p \in Provider, Gone(p)
                PROVE  /\ state[p]["metric"] # "open" /\ state[p]["log"] # "open"
                       /\ state[p]["trace"] = "open" \/ draining[p] # {} => errs[p]
                       /\ \A r \in open[p] :
                             \/ IsConn(r)
                             \/ r \in {Starting, Listener} /\ Starting \in open[p]
                             \/ IsBatcher(r) /\ state[p]["trace"] = "open"
                             \/ pc[p] = "failed" /\ fns[p] = <<>>
    BY DEF NothingRunsAfterwards
  <2>1. Level(p) = 0
    BY Parts DEF Level, Listed, Gone
  <2>2. \A s \in Signal :
           IF Place(s) <= Len(fns[p])
             THEN state[p][s] = "shut" \/ (s = "trace" /\ state[p][s] = "open" /\ errs[p])
             ELSE state[p][s] = "none"
    BY <2>1, Parts, Places DEF Ladder
  <2>3. /\ state[p]["metric"] # "open" /\ state[p]["log"] # "open"
        /\ state[p]["trace"] = "open" => errs[p]
    BY <2>2, Places
  <2>4. draining[p] # {} => errs[p]
    BY Parts DEF Kept
  <2>5. ASSUME NEW r \in open[p]
        PROVE  \/ IsConn(r)
               \/ r \in {Starting, Listener} /\ Starting \in open[p]
               \/ IsBatcher(r) /\ state[p]["trace"] = "open"
               \/ pc[p] = "failed" /\ fns[p] = <<>>
    <3>1. r \in {"conn", "batcher"} \X Nat \/ r \in {Reader, Listener, Starting}
      BY DEF IInv, Typed, Resource
    <3>2. CASE r \in {Reader, Listener, Starting}
      BY <2>3, <3>2, Parts DEF Runs
    <3>3. CASE r \in {"conn", "batcher"} \X Nat
      <4>1. IsConn(r) \/ IsBatcher(r)
        BY <3>3 DEF IsConn, IsBatcher
      <4>2. ASSUME IsBatcher(r), state[p]["trace"] # "open"
            PROVE  pc[p] = "failed" /\ fns[p] = <<>>
        <5>1. Len(fns[p]) = 0
          BY <2>2, <4>2, Parts, Places DEF Runs
        <5>2. fns[p] = <<>>
          BY <5>1, Parts, EmptySeq
        <5>. QED  BY <5>1, <5>2, Parts DEF Gone, Listed
      <4>. QED  BY <4>1, <4>2
    <3>. QED  BY <3>1, <3>2, <3>3
  <2>. QED  BY <2>3, <2>4, <2>5
<1>. QED  BY <1>1, SpecIInv, PTL

(* Shutdown takes the pipelines down in the reverse of the order in which New
   built them (telemetry.go:191-203). *)
THEOREM TakenDownInReverse == Spec => []ReverseOrder
<1>1. IInv => ReverseOrder
  <2>. SUFFICES ASSUME IInv, NEW p \in Provider
                PROVE  /\ state[p]["trace"] = "shut" =>
                             state[p]["metric"] # "open" /\ state[p]["log"] # "open"
                       /\ state[p]["metric"] = "shut" => state[p]["log"] # "open"
    BY DEF ReverseOrder
  <2>1. Level(p) \in Nat
    BY Parts DEF Level
  <2>. QED  BY <2>1, Parts, Places DEF Ladder
<1>. QED  BY <1>1, SpecIInv, PTL

-----------------------------------------------------------------------------
(* ForceFlush keeps its word (ForceFlushFlushes) where the global tracer
   provider is the Provider's own. *)

OwnTracer == \A p \in Provider : pc[p] = "flushTraces" => global["trace"] = p

(* Once it has flushed the traces and met no error, what was due is out. *)
Flushed ==
    \A p \in Provider : pc[p] \in {"flushMetrics", "flushed"} /\ ~errs[p] => due[p] = {}

(* Nothing becomes due but by ForceFlush. *)
LEMMA DueShrinks ==
    ASSUME IInv, NEW p \in Provider, NEW s \in Signal, LetsGo(p, s)
    PROVE  \A q \in Provider : due'[q] \subseteq due[q]
<1>1. due' = [due EXCEPT ![p] = due[p] \ {s}]
  BY DEF LetsGo
<1>. QED  BY <1>1 DEF IInv, Typed

LEMMA FlushDue ==
    ASSUME IInv, None \notin Provider, NEW p \in Provider, NEW s \in {"trace", "metric"}, NEW ok \in BOOLEAN,
           Flush(p, s, ok)
    PROVE  /\ \A q \in Provider : due'[q] \subseteq due[q]
           /\ \A q \in Provider \ {p} : errs'[q] = errs[q]
           /\ errs'[p] = (errs[p] \/ ~ok)
           /\ /\ s = "trace" /\ global["trace"] = p /\ state[p]["trace"] = "open"
              /\ draining[p] = {} /\ ok
              => due'[p] = {}
<1>1. errs' = [errs EXCEPT ![p] = errs[p] \/ ~ok]
  BY DEF Flush
<1>2. \A q \in Provider : due'[q] \subseteq due[q]
  <2>1. CASE UNCHANGED due
    BY <2>1
  <2>2. CASE global[s] # None /\ LetsGo(global[s], s)
    <3>1. global[s] \in Provider /\ s \in Signal
      BY <2>2 DEF IInv, Typed, Signal
    <3>. QED  BY <2>2, <3>1, DueShrinks
  <2>. QED  BY <2>1, <2>2 DEF Flush
<1>3. ASSUME s = "trace", global["trace"] = p, state[p]["trace"] = "open", draining[p] = {}, ok
      PROVE  due'[p] = {}
  <2>1. LetsGo(p, "trace")
    <3>1. p # None
      OBVIOUS
    <3>. QED  BY <1>3, <3>1 DEF Flush
  <2>2. due' = [due EXCEPT ![p] = due[p] \ {"trace"}]
    BY <2>1 DEF LetsGo
  <2>. QED  BY <2>2 DEF IInv, Typed
<1>4. \A q \in Provider \ {p} : errs'[q] = errs[q]
  BY <1>1 DEF IInv, Typed
<1>5. errs'[p] = (errs[p] \/ ~ok)
  BY <1>1 DEF IInv, Typed
<1>. QED  BY <1>2, <1>3, <1>4, <1>5

(* Each step keeps it. *)
LEMMA FlushedStep ==
    ASSUME IInv, OwnTracer, Flushed, None \notin Provider, [Next]_vars
    PROVE  Flushed'
<1>. USE DEF Flushed
<1>1. ASSUME UNCHANGED <<pc, errs>>, \A q \in Provider : due'[q] \subseteq due[q]
      PROVE  Flushed'
  BY <1>1
<1>2. ASSUME NEW p \in Provider, NEW label \in Label \ {"flushMetrics", "flushed"},
             pc' = [pc EXCEPT ![p] = label],
             \A q \in Provider \ {p} : due'[q] = due[q] /\ errs'[q] = errs[q]
      PROVE  Flushed'
  <2>1. pc'[p] = label /\ \A q \in Provider \ {p} : pc'[q] = pc[q]
    BY <1>2 DEF IInv, Typed
  <2>. QED  BY <1>2, <2>1
<1>3. ASSUME NEW p \in Provider, New(p) PROVE Flushed'
  <2>1. UNCHANGED <<errs, due>>
    BY <1>3 DEF New, NewBegins, BuildExporter, RegisterTracer, BuildMeter, RegisterMeter,
                BuildLogger, BuildExporterFails, BuildMeterFails, dataVars
  <2>2. UNCHANGED pc
        \/ \E label \in Label \ {"flushMetrics", "flushed"} : pc' = [pc EXCEPT ![p] = label]
    BY <1>3 DEF New, NewBegins, BuildExporter, RegisterTracer, BuildMeter, RegisterMeter,
                BuildLogger, BuildExporterFails, BuildMeterFails, Goto, Label
  <2>. QED  BY <1>1, <1>2, <2>1, <2>2
<1>4. ASSUME NEW p \in Provider,
             Serve(p) \/ \E s \in Signal : Emit(p, s) \/ Export(p, s) \/ DrainEnds(p, s)
      PROVE  Flushed'
  <2>1. UNCHANGED <<pc, errs>> /\ (UNCHANGED due \/ \E s \in Signal : LetsGo(p, s))
    BY <1>4 DEF Serve, Emit, Export, DrainEnds, dataVars
  <2>. QED  BY <1>1, <2>1, DueShrinks
<1>5. ASSUME NEW p \in Provider, ForceFlush(p) \/ Shutdown(p) \/ ShutdownReturns(p)
      PROVE  Flushed'
  <2>1. \E label \in Label \ {"flushMetrics", "flushed"} : pc' = [pc EXCEPT ![p] = label]
    BY <1>5 DEF ForceFlush, Shutdown, ShutdownReturns, Goto, Label
  <2>2. \A q \in Provider \ {p} : due'[q] = due[q] /\ errs'[q] = errs[q]
    BY <1>5 DEF ForceFlush, Shutdown, ShutdownReturns, dataVars, IInv, Typed
  <2>. QED  BY <1>2, <2>1, <2>2
<1>6. ASSUME NEW p \in Provider, NEW ok \in BOOLEAN, FlushTraces(p, ok)
      PROVE  Flushed'
  <2>1. /\ pc[p] = "flushTraces" /\ pc' = [pc EXCEPT ![p] = "flushMetrics"]
        /\ Flush(p, "trace", ok)
    BY <1>6 DEF FlushTraces, At, Goto
  <2>2. state[p]["trace"] = "open" /\ draining[p] = {}
    <3>1. Ladder(p) /\ Listed(p) /\ Level(p) = Len(fns[p])
      BY <2>1, Parts DEF Level
    <3>2. draining[p] = {}
      BY <2>1, Parts DEF Kept
    <3>. QED  BY <2>1, <3>1, <3>2, Parts, Places DEF Ladder, Listed
  <2>3. global["trace"] = p
    BY <2>1 DEF OwnTracer
  <2>4. /\ \A q \in Provider : due'[q] \subseteq due[q]
        /\ \A q \in Provider \ {p} : errs'[q] = errs[q]
        /\ ~errs'[p] => due'[p] = {}
    BY <2>1, <2>2, <2>3, FlushDue
  <2>5. \A q \in Provider \ {p} : pc'[q] = pc[q]
    BY <2>1 DEF IInv, Typed
  <2>. QED  BY <2>4, <2>5
<1>7. ASSUME NEW p \in Provider, NEW ok \in BOOLEAN, FlushMetrics(p, ok)
      PROVE  Flushed'
  <2>1. /\ pc[p] = "flushMetrics" /\ pc' = [pc EXCEPT ![p] = "flushed"]
        /\ Flush(p, "metric", ok)
    BY <1>7 DEF FlushMetrics, At, Goto
  <2>2. /\ \A q \in Provider : due'[q] \subseteq due[q]
        /\ \A q \in Provider \ {p} : errs'[q] = errs[q]
        /\ errs'[p] = (errs[p] \/ ~ok)
    BY <2>1, FlushDue
  <2>3. \A q \in Provider \ {p} : pc'[q] = pc[q]
    BY <2>1 DEF IInv, Typed
  <2>4. ~errs'[p] => due'[p] = {}
    BY <2>1, <2>2
  <2>. QED  BY <2>2, <2>3, <2>4
<1>8. ASSUME NEW p \in Provider, NEW ok \in BOOLEAN, ShutdownFn(p, ok)
      PROVE  Flushed'
  <2>1. /\ pc[p] \in {"closing", "aborting"} /\ UNCHANGED pc
        /\ errs' = [errs EXCEPT ![p] = errs[p] \/ ~ok]
        /\ Turn(p) \in Signal /\ (UNCHANGED due \/ LetsGo(p, Turn(p)))
    BY <1>8, TurnOf, ShutdownFnDoes
  <2>2. \A q \in Provider : due'[q] \subseteq due[q]
    BY <2>1, DueShrinks
  <2>3. \A q \in Provider \ {p} : errs'[q] = errs[q]
    BY <2>1 DEF IInv, Typed
  <2>. QED  BY <2>1, <2>2, <2>3
<1>9. CASE UNCHANGED vars
  BY <1>9 DEF vars, dataVars
<1>. QED  BY <1>3, <1>4, <1>5, <1>6, <1>7, <1>8, <1>9 DEF Next

(* A ForceFlush that returns nil leaves none of the Provider's spans buffered
   as long as it finds the Provider's own tracer provider registered: another
   Provider in the process is what the promise of telemetry.go:204-205 fails
   for. *)
THEOREM FlushesIfRegistered ==
    ASSUME None \notin Provider
    PROVE  Spec /\ []OwnTracer => []ForceFlushFlushes
<1>1. Init => Flushed
  BY DEF Init, Flushed
<1>2. IInv /\ OwnTracer /\ Flushed /\ [Next]_vars => Flushed'
  BY FlushedStep
<1>3. Flushed => ForceFlushFlushes
  BY DEF Flushed, ForceFlushFlushes, At
<1>. QED  BY <1>1, <1>2, <1>3, SpecIInv, PTL DEF Spec

(* From the end of New on. *)
Registered ==
    \A p \in Provider :
        pc[p] \in {"metrics", "register", "logger", "ready", "flushTraces", "flushMetrics", "flushed"}
            => global["trace"] = p

(* The only Provider of a process can rely on ForceFlush. *)
THEOREM FlushesAlone ==
    ASSUME None \notin Provider, \A p, q \in Provider : p = q
    PROVE  Spec => []ForceFlushFlushes
<1>1. Init => Registered
  BY DEF Init, Registered
<1>2. IInv /\ Registered /\ [Next]_vars => Registered'
  <2>. SUFFICES ASSUME IInv, Registered, [Next]_vars, NEW p \in Provider,
                       pc'[p] \in {"metrics", "register", "logger", "ready",
                                   "flushTraces", "flushMetrics", "flushed"}
                PROVE  global'["trace"] = p
    BY DEF Registered
  <2>1. CASE RegisterTracer(p)
    BY <2>1 DEF RegisterTracer, IInv, Typed
  <2>2. CASE UNCHANGED vars
    BY <2>2 DEF Registered, vars
  <2>3. CASE \/ New(p) /\ ~RegisterTracer(p)
             \/ Serve(p) \/ ForceFlush(p) \/ Shutdown(p) \/ ShutdownReturns(p)
             \/ \E ok \in BOOLEAN : FlushTraces(p, ok) \/ FlushMetrics(p, ok) \/ ShutdownFn(p, ok)
             \/ \E s \in Signal : Emit(p, s) \/ Export(p, s) \/ DrainEnds(p, s)
    <3>1. global'["trace"] = global["trace"]
      BY <2>3 DEF New, NewBegins, BuildExporter, BuildMeter, RegisterMeter, BuildLogger,
                  BuildExporterFails, BuildMeterFails, Serve, ForceFlush, Shutdown, ShutdownReturns,
                  FlushTraces, FlushMetrics, Flush, ShutdownFn, Emit, Export, DrainEnds, IInv, Typed
    <3>2. pc[p] \in {"metrics", "register", "logger", "ready", "flushTraces", "flushMetrics", "flushed"}
      BY <2>3 DEF New, NewBegins, BuildExporter, BuildMeter, RegisterMeter, BuildLogger,
                  BuildExporterFails, BuildMeterFails, Serve, ForceFlush, Shutdown, ShutdownReturns,
                  FlushTraces, FlushMetrics, Flush, ShutdownFn, Emit, Export, DrainEnds, At, Goto,
                  IInv, Typed
    <3>. QED  BY <3>1, <3>2 DEF Registered
  <2>. QED  BY <2>1, <2>2, <2>3 DEF Next
<1>3. Registered => OwnTracer
  BY DEF Registered, OwnTracer
<1>. QED  BY <1>1, <1>2, <1>3, SpecIInv, FlushesIfRegistered, PTL DEF Spec

-----------------------------------------------------------------------------
(* Every signal of every Provider is a Pipeline. *)

Id == Provider \X Signal

StateOf == [i \in Id |-> state[i[1]][i[2]]]

Holding == {i \in Id : i[2] \in pending[i[1]]}

(* A step that touches neither the signals' state nor what they hold. *)
LEMMA Unseen == ASSUME UNCHANGED <<state, pending>> PROVE UNCHANGED Pipelines!vars
  BY DEF Pipelines!vars

(* A signal of one Provider moves. *)
LEMMA MovesOne ==
    ASSUME IInv, NEW p \in Provider, NEW s \in Signal, NEW after \in {"open", "shut"},
           state' = [state EXCEPT ![p][s] = after]
    PROVE  Pipelines!Moves(<<p, s>>, state[p][s], after)
<1>1. \A i \in Id : state'[i[1]][i[2]] = IF i = <<p, s>> THEN after ELSE state[i[1]][i[2]]
  BY DEF Id, IInv, Typed
<1>2. StateOf' = [StateOf EXCEPT ![<<p, s>>] = after]
  BY <1>1 DEF StateOf, Id
<1>3. StateOf[<<p, s>>] = state[p][s]
  BY DEF StateOf, Id
<1>. QED  BY <1>2, <1>3 DEF StateOf, Id, Pipelines!Moves

(* What is exported, or given up, leaves the pipeline. *)
LEMMA LeavesOne ==
    ASSUME IInv, NEW p \in Provider, NEW s \in Signal, LetsGo(p, s)
    PROVE  Holding' = Holding \ {<<p, s>>}
<1>1. \A i \in Id : i[2] \in pending'[i[1]] <=> i[2] \in pending[i[1]] /\ i # <<p, s>>
  BY LetsGoType DEF Id
<1>. QED  BY <1>1 DEF Holding, Id

(* A pipeline that has been opened lets go of what it holds. *)
LEMMA LetsGoImplements ==
    ASSUME IInv, NEW p \in Provider, NEW s \in Signal, state[p][s] # "none",
           LetsGo(p, s), state' = state
    PROVE  Pipelines!Next
<1>1. StateOf' = StateOf /\ StateOf[<<p, s>>] = state[p][s]
  BY DEF StateOf, Id
<1>2. Holding' = Holding \ {<<p, s>>}
  BY LeavesOne
<1>3. Pipelines!LetGo(<<p, s>>)
  BY <1>1, <1>2 DEF StateOf, Holding, Id, Pipelines!LetGo
<1>. QED  BY <1>3 DEF Pipelines!Next

(* New opens the signals one at a time. *)
LEMMA OpenImplements ==
    ASSUME IInv, NEW p \in Provider, NEW s \in Signal, state[p][s] = "none",
           state' = [state EXCEPT ![p][s] = "open"], pending' = pending
    PROVE  Pipelines!Next
<1>1. Pipelines!Moves(<<p, s>>, "none", "open")
  BY MovesOne
<1>2. Pipelines!Open(<<p, s>>)
  BY <1>1 DEF Pipelines!Open
<1>. QED  BY <1>2 DEF Pipelines!Next

LEMMA NewImplements ==
    ASSUME IInv, NEW p \in Provider, New(p)
    PROVE  Pipelines!Next \/ UNCHANGED Pipelines!vars
<1>1. pending' = pending
  BY DEF New, NewBegins, BuildExporter, BuildExporterFails, RegisterTracer, BuildMeter,
     BuildMeterFails, RegisterMeter, BuildLogger, dataVars
<1>2. CASE RegisterTracer(p)
  <2>1. Level(p) = 0 /\ Len(fns[p]) = 0
    BY <1>2, Parts DEF RegisterTracer, At, Level, Listed
  <2>2. state[p]["trace"] = "none"
    BY <2>1, Parts, Places DEF Ladder
  <2>. QED  BY <1>1, <1>2, <2>2, OpenImplements, Places DEF RegisterTracer, Start
<1>3. CASE BuildMeter(p)
  <2>1. Level(p) = 1 /\ Len(fns[p]) = 1
    BY <1>3, Parts DEF BuildMeter, At, Level, Listed
  <2>2. \A s \in Signal : state[p][s] = IF Place(s) <= 1 THEN "open" ELSE "none"
    <3>1. Len(fns[p]) <= Level(p)
      BY <2>1
    <3>. QED  BY <2>1, <3>1, Rungs
  <2>3. state[p]["metric"] = "none"
    BY <2>2, Places
  <2>. QED  BY <1>1, <1>3, <2>3, OpenImplements, Places DEF BuildMeter, Start
<1>4. CASE BuildLogger(p) /\ cfg[p].logs
  <2>1. Level(p) = 2 /\ Len(fns[p]) = 2
    BY <1>4, Parts DEF BuildLogger, At, Level, Listed
  <2>2. \A s \in Signal : state[p][s] = IF Place(s) <= 2 THEN "open" ELSE "none"
    <3>1. Len(fns[p]) <= Level(p)
      BY <2>1
    <3>. QED  BY <2>1, <3>1, Rungs
  <2>3. state[p]["log"] = "none"
    BY <2>2, Places
  <2>. QED  BY <1>1, <1>4, <2>3, OpenImplements, Places DEF BuildLogger, Start
<1>5. CASE state' = state
  BY <1>1, <1>5, Unseen
<1>. QED
  BY <1>2, <1>3, <1>4, <1>5
  DEF New, NewBegins, BuildExporter, BuildExporterFails, BuildMeterFails, RegisterMeter,
      BuildLogger

(* A flush of a global provider empties that of whoever registered it. *)
LEMMA FlushImplements ==
    ASSUME IInv, NEW p \in Provider, NEW s \in {"trace", "metric"}, NEW ok \in BOOLEAN,
           Flush(p, s, ok)
    PROVE  Pipelines!Next \/ UNCHANGED Pipelines!vars
<1>1. state' = state
  BY DEF Flush
<1>2. CASE pending' = pending
  BY <1>1, <1>2, Unseen
<1>3. CASE global[s] # None /\ state[global[s]][s] = "open" /\ LetsGo(global[s], s)
  <2>1. global[s] \in Provider /\ s \in Signal
    BY <1>3 DEF IInv, Typed, Signal
  <2>. QED  BY <1>1, <1>3, <2>1, LetsGoImplements
<1>. QED  BY <1>2, <1>3 DEF Flush

(* A signal that is shut lets go of what it holds, or keeps it. *)
LEMMA ShutImplements ==
    ASSUME IInv, NEW p \in Provider, NEW s \in Signal, state[p][s] = "open",
           state' = [state EXCEPT ![p][s] = "shut"],
           LetsGo(p, s) \/ pending' = pending
    PROVE  Pipelines!Next
<1>1. Pipelines!Moves(<<p, s>>, "open", "shut")
  BY MovesOne
<1>2. Holding' = Holding \/ Holding' = Holding \ {<<p, s>>}
  <2>1. CASE LetsGo(p, s)
    BY <2>1, LeavesOne
  <2>2. CASE pending' = pending
    BY <2>2 DEF Holding
  <2>. QED  BY <2>1, <2>2
<1>3. Pipelines!Shut(<<p, s>>)
  BY <1>1, <1>2 DEF Holding, Id, Pipelines!Shut
<1>. QED  BY <1>3 DEF Pipelines!Next

(* A shutdown function shuts the pipeline whose turn it is, or leaves it as it
   is when it spares some of its batchers. *)
LEMMA ShutdownFnImplements ==
    ASSUME IInv, NEW p \in Provider, NEW ok \in BOOLEAN, ShutdownFn(p, ok)
    PROVE  Pipelines!Next \/ UNCHANGED Pipelines!vars
<1>. DEFINE s == Turn(p)
<1>1. s \in Signal /\ state[p][s] = "open"
  BY TurnOf DEF ShutdownFn
<1>2. PICK spared \in SUBSET Batchers(p) :
        /\ state' = [state EXCEPT ![p][s] = IF spared = {} THEN "shut" ELSE "open"]
        /\ (LetsGo(p, s) /\ spared = {}) \/ UNCHANGED <<pending, due>>
  BY ShutdownFnDoes
<1>3. CASE spared = {}
  BY <1>1, <1>2, <1>3, ShutImplements
<1>4. CASE spared # {}
  <2>1. state' = [state EXCEPT ![p][s] = "open"]
    BY <1>2, <1>4
  <2>2. state' = state
    BY <1>1, <2>1 DEF IInv, Typed
  <2>. QED  BY <1>2, <1>4, <2>2, Unseen
<1>. QED  BY <1>3, <1>4

(* Telemetry is taken by a pipeline that is open. *)
LEMMA EmitImplements ==
    ASSUME IInv, NEW p \in Provider, NEW s \in Signal, Emit(p, s)
    PROVE  Pipelines!Next
<1>1. /\ state[p][s] = "open" /\ state' = state
      /\ pending' = [pending EXCEPT ![p] = pending[p] \cup {s}]
  BY DEF Emit, Buffers
<1>2. state' = [state EXCEPT ![p][s] = "open"]
  BY <1>1 DEF IInv, Typed
<1>3. Pipelines!Moves(<<p, s>>, "open", "open")
  BY <1>1, <1>2, MovesOne
<1>4. \A i \in Id : i[2] \in pending'[i[1]] <=> i[2] \in pending[i[1]] \/ i = <<p, s>>
  BY <1>1 DEF Id, IInv, Typed
<1>5. Holding' = Holding \cup {<<p, s>>}
  BY <1>4 DEF Holding, Id
<1>6. Pipelines!Take(<<p, s>>)
  BY <1>3, <1>5 DEF Holding, Id, Pipelines!Take
<1>. QED  BY <1>6 DEF Pipelines!Next

(* Every step is one of a single pipeline or invisible. *)
THEOREM StepImplements == IInv /\ [Next]_vars => [Pipelines!Next]_(Pipelines!vars)
<1>. SUFFICES ASSUME IInv, [Next]_vars
              PROVE  Pipelines!Next \/ UNCHANGED Pipelines!vars
  OBVIOUS
<1>1. ASSUME NEW p \in Provider,
             Serve(p) \/ ForceFlush(p) \/ Shutdown(p) \/ ShutdownReturns(p)
      PROVE  UNCHANGED Pipelines!vars
  BY <1>1, Unseen DEF Serve, ForceFlush, Shutdown, ShutdownReturns, dataVars
<1>2. ASSUME NEW p \in Provider, NEW ok \in BOOLEAN, FlushTraces(p, ok) \/ FlushMetrics(p, ok)
      PROVE  Pipelines!Next \/ UNCHANGED Pipelines!vars
  BY <1>2, FlushImplements DEF FlushTraces, FlushMetrics
<1>3. ASSUME NEW p \in Provider, NEW s \in Signal, Export(p, s)
      PROVE  Pipelines!Next
  <2>1. state[p][s] # "none"
    BY <1>3, Parts DEF Export, Kept
  <2>. QED  BY <1>3, <2>1, LetsGoImplements DEF Export
<1>4. ASSUME NEW p \in Provider, NEW s \in Signal, DrainEnds(p, s)
      PROVE  UNCHANGED Pipelines!vars
  BY <1>4, Unseen DEF DrainEnds
<1>5. CASE UNCHANGED vars
  BY <1>5, Unseen DEF vars, dataVars
<1>. QED
  BY <1>1, <1>2, <1>3, <1>4, <1>5, NewImplements, ShutdownFnImplements, EmitImplements DEF Next

(* Each signal of each Provider, through failing constructors, exchanged globals
   and flushes called by other Providers, keeps to what Pipeline promises: it is
   opened once and shut at most once, takes telemetry in between and at no other
   time, and has it leave by an export or by being given up
   (telemetry.go:94-222). *)
THEOREM KeepsPipelines == Spec => ImplementsPipelines
<1>1. Init => Pipelines!Init
  <2>. SUFFICES ASSUME Init PROVE Pipelines!Init
    OBVIOUS
  <2>1. \A i \in Id : state[i[1]][i[2]] = "none" /\ pending[i[1]] = {}
    BY DEF Init, Id
  <2>2. StateOf = [i \in Id |-> "none"] /\ Holding = {}
    BY <2>1 DEF StateOf, Holding
  <2>. QED  BY <2>2 DEF StateOf, Holding, Id, Pipelines!Init
<1>. QED
  BY <1>1, StepImplements, SpecIInv, PTL DEF Spec, ImplementsPipelines, Pipelines!Spec
==============================================================================
