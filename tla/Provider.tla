------------------------------ MODULE Provider ------------------------------
(***************************************************************************)
(* The life of the telemetry Providers of one process: New, which builds a *)
(* trace pipeline, a metric pipeline and a logger and may fail halfway     *)
(* (telemetry.go with internal/export/export.go), ForceFlush and Shutdown. *)
(*                                                                         *)
(* Several Providers may exist: each is driven by a goroutine of its own,  *)
(* and all share the global OTel tracer and meter providers and the port   *)
(* of the Prometheus endpoint.  Telemetry is followed per signal: pending  *)
(* says whether a pipeline still holds something.  It lets go of it by     *)
(* exporting it or, when an exporter fails or a queue is full, by giving   *)
(* it up: batchers hand such errors to otel.Handle and return nil, and     *)
(* the Loki exporter drops batches, so that an error is no measure of what *)
(* has been exported.                                                      *)
(***************************************************************************)
EXTENDS Naturals, Sequences

CONSTANTS
    Provider,   \* the calls of New in the process
    Config      \* the configurations New may be called with

(* traces: the span exporters, Exporters or the single Exporter; metrics:
   MetricExporter or Exporter; logs: is a LogExporter set. *)
ExporterType == {"otlp", "stdout", "prometheus", "noop"}

ASSUME ConfigAssumption ==
    Config \subseteq [traces : Seq(ExporterType), metrics : ExporterType, logs : BOOLEAN]

Signal == {"trace", "metric", "log"}

VARIABLES
    cfg,        \* the configuration of each Provider
    pc,         \* where the goroutine of each Provider is
    built,      \* exporters looked at by the loop of BuildTracerProvider
    open,       \* connections, goroutines and listeners each Provider has open
    state,      \* of each signal of each Provider: "none", "open" or "shut"
    fns,        \* p.shutdownFns, as the signals they stop
    next,       \* the function Shutdown calls next
    errs,       \* ForceFlush or Shutdown has collected an error
    global,     \* whose pipelines the global OTel providers are
    pending,    \* the signals with telemetry neither exported nor given up
    draining,   \* the signals whose goroutines drain although Shutdown waits no more
    due         \* history: the spans that were pending when ForceFlush was called

setupVars == <<cfg, built, open, fns>>
dataVars  == <<pending, draining, due>>
vars == <<setupVars, pc, state, next, errs, global, dataVars>>

None == "none"

Conn(i)    == <<"conn", i>>
Batcher(i) == <<"batcher", i>>
Reader     == <<"reader", 0>>
Listener   == <<"listener", 0>>
Starting   == <<"starting", 0>>     \* the goroutine that has yet to call srv.Serve
MetricConn == Conn(0)

IsConn(r) == r[1] = "conn"
IsBatcher(r) == r[1] = "batcher"

Init ==
    /\ cfg \in [Provider -> Config]
    /\ pc = [p \in Provider |-> "none"]
    /\ built = [p \in Provider |-> 0]
    /\ open = [p \in Provider |-> {}]
    /\ state = [p \in Provider |-> [s \in Signal |-> "none"]]
    /\ fns = [p \in Provider |-> <<>>]
    /\ next = [p \in Provider |-> 0]
    /\ errs = [p \in Provider |-> FALSE]
    /\ global = [s \in {"trace", "metric"} |-> None]
    /\ pending = [p \in Provider |-> {}]
    /\ draining = [p \in Provider |-> {}]
    /\ due = [p \in Provider |-> {}]

Goto(p, label) == pc' = [pc EXCEPT ![p] = label]

At(p, label) == pc[p] = label

Batchers(p) == {r \in open[p] : IsBatcher(r)}

Opens(p, rs) == open' = [open EXCEPT ![p] = @ \cup rs]

-----------------------------------------------------------------------------
(* New: the trace pipeline. *)

(* New starts, or refuses the configuration or cannot build the resource. *)
NewBegins(p, ok) ==
    /\ At(p, "none")
    /\ Goto(p, IF ok THEN "traces" ELSE "failed")
    /\ UNCHANGED <<setupVars, state, next, errs, global, dataVars>>

Exporter(p) == cfg[p].traces[built[p] + 1]

ConnOf(p) == IF Exporter(p) = "otlp" THEN {Conn(built[p] + 1)} ELSE {}

(* One round of the loop of BuildTracerProvider.  "prometheus" and unknown
   names give a stdout exporter. *)
BuildExporter(p) ==
    /\ At(p, "traces")
    /\ built[p] < Len(cfg[p].traces)
    /\ built' = [built EXCEPT ![p] = @ + 1]
    /\ IF Exporter(p) = "noop" THEN UNCHANGED open
       ELSE Opens(p, ConnOf(p) \cup {Batcher(built[p] + 1)})
    /\ UNCHANGED <<cfg, pc, fns, state, next, errs, global, dataVars>>

(* The error may come before or after the connection is made; what earlier
   rounds have opened stays open. *)
BuildExporterFails(p, dialled) ==
    /\ At(p, "traces")
    /\ built[p] < Len(cfg[p].traces)
    /\ Exporter(p) # "noop"
    /\ Opens(p, IF dialled THEN ConnOf(p) ELSE {})
    /\ Goto(p, "failed")
    /\ UNCHANGED <<cfg, built, fns, state, next, errs, global, dataVars>>

Start(p, s) == state' = [state EXCEPT ![p][s] = "open"]

(* otel.SetTracerProvider. *)
RegisterTracer(p) ==
    /\ At(p, "traces")
    /\ built[p] = Len(cfg[p].traces)
    /\ Start(p, "trace")
    /\ global' = [global EXCEPT !["trace"] = p]
    /\ fns' = [fns EXCEPT ![p] = Append(@, "trace")]
    /\ Goto(p, "metrics")
    /\ UNCHANGED <<cfg, built, open, next, errs, dataVars>>

-----------------------------------------------------------------------------
(* New: the metric pipeline and the logger. *)

PortFree == \A p \in Provider : Listener \notin open[p]

MeterResources(exporter) ==
    CASE exporter = "otlp"       -> {MetricConn, Reader}
      [] exporter = "stdout"     -> {Reader}
      [] exporter = "prometheus" -> {Listener, Starting}
      [] exporter = "noop"       -> {}

BuildMeter(p) ==
    /\ At(p, "metrics")
    /\ cfg[p].metrics = "prometheus" => PortFree
    /\ Opens(p, MeterResources(cfg[p].metrics))
    /\ Start(p, "metric")
    /\ Goto(p, "register")
    /\ UNCHANGED <<cfg, built, fns, next, errs, global, dataVars>>

(* Mutant: a server that is shut down leaves its listener as it is. *)
ServeRegardless(p) ==
    /\ Starting \in open[p]
    /\ open' = [open EXCEPT ![p] = @ \ {Starting}]
    /\ UNCHANGED <<cfg, built, fns, pc, state, next, errs, global, dataVars>>

(* srv.Serve takes the listener over, and closes it if the server has been
   shut down by then. *)
Serve(p) ==
    /\ Starting \in open[p]
    /\ open' = [open EXCEPT ![p] =
                  @ \ ({Starting} \cup IF state[p]["metric"] = "shut" THEN {Listener} ELSE {})]
    /\ UNCHANGED <<cfg, built, fns, pc, state, next, errs, global, dataVars>>

(* Mutant: New returns the error without shutting down what it registered. *)
BuildMeterFailsAtOnce(p, dialled) ==
    /\ At(p, "metrics")
    /\ cfg[p].metrics # "noop"
    /\ Opens(p, IF dialled /\ cfg[p].metrics = "otlp" THEN {MetricConn} ELSE {})
    /\ Goto(p, "failed")
    /\ UNCHANGED <<cfg, built, fns, state, next, errs, global, dataVars>>

(* New calls p.Shutdown before it returns the error. *)
BuildMeterFails(p, dialled) ==
    /\ At(p, "metrics")
    /\ cfg[p].metrics # "noop"
    /\ Opens(p, IF dialled /\ cfg[p].metrics = "otlp" THEN {MetricConn} ELSE {})
    /\ next' = [next EXCEPT ![p] = Len(fns[p])]
    /\ Goto(p, "aborting")
    /\ UNCHANGED <<cfg, built, fns, state, errs, global, dataVars>>

(* otel.SetMeterProvider. *)
RegisterMeter(p) ==
    /\ At(p, "register")
    /\ global' = [global EXCEPT !["metric"] = p]
    /\ fns' = [fns EXCEPT ![p] = Append(@, "metric")]
    /\ Goto(p, "logger")
    /\ UNCHANGED <<cfg, built, open, state, next, errs, dataVars>>

(* Mutant: the exporter's Shutdown is not kept. *)
BuildLoggerForgetting(p) ==
    /\ At(p, "logger")
    /\ IF cfg[p].logs THEN Start(p, "log") ELSE UNCHANGED state
    /\ Goto(p, "ready")
    /\ UNCHANGED <<setupVars, next, errs, global, dataVars>>

BuildLogger(p) ==
    /\ At(p, "logger")
    /\ IF cfg[p].logs
         THEN Start(p, "log") /\ fns' = [fns EXCEPT ![p] = Append(@, "log")]
         ELSE UNCHANGED <<state, fns>>
    /\ Goto(p, "ready")
    /\ UNCHANGED <<cfg, built, open, next, errs, global, dataVars>>

New(p) ==
    \/ \E ok \in BOOLEAN : NewBegins(p, ok)
    \/ BuildExporter(p) \/ RegisterTracer(p)
    \/ BuildMeter(p) \/ RegisterMeter(p) \/ BuildLogger(p)
    \/ \E dialled \in BOOLEAN : BuildExporterFails(p, dialled) \/ BuildMeterFails(p, dialled)

-----------------------------------------------------------------------------
(* Telemetry arrives through the Provider's own tracer, meter and logger, which
   the application may go on to use, and from libraries through the global
   providers; batchers, readers and the log exporter export it from time to
   time. *)

Used(p) == pc[p] \in {"ready", "flushTraces", "flushMetrics", "flushed", "closing", "closed"}

(* A pipeline of noop exporters discards what it is given, and the Prometheus
   endpoint is read, not pushed. *)
Buffers(p, s) ==
    /\ state[p][s] = "open"
    /\ CASE s = "trace"  -> Batchers(p) # {}
         [] s = "metric" -> Reader \in open[p]
         [] s = "log"    -> TRUE

(* Mutant: telemetry is taken whatever has become of the pipeline. *)
EmitRegardless(p, s) ==
    /\ Used(p)
    /\ pending' = [pending EXCEPT ![p] = @ \cup {s}]
    /\ UNCHANGED <<setupVars, pc, state, next, errs, global, draining, due>>

Emit(p, s) ==
    /\ Used(p) \/ (s # "log" /\ global[s] = p)
    /\ Buffers(p, s)
    /\ pending' = [pending EXCEPT ![p] = @ \cup {s}]
    /\ UNCHANGED <<setupVars, pc, state, next, errs, global, draining, due>>

(* The pipeline holds nothing any more: exported, or given up. *)
LetsGo(p, s) ==
    /\ pending' = [pending EXCEPT ![p] = @ \ {s}]
    /\ due' = [due EXCEPT ![p] = @ \ {s}]

Export(p, s) ==
    /\ s \in pending[p]
    /\ state[p][s] = "open" \/ s \in draining[p]
    /\ LetsGo(p, s)
    /\ UNCHANGED <<setupVars, pc, state, next, errs, global, draining>>

(* What nobody waits for any more comes to its end. *)
DrainEnds(p, s) ==
    /\ s \in draining[p]
    /\ s \in pending[p] => state[p][s] = "open"
    /\ draining' = [draining EXCEPT ![p] = @ \ {s}]
    /\ UNCHANGED <<setupVars, pc, state, next, errs, global, pending, due>>

-----------------------------------------------------------------------------
(* ForceFlush flushes the global providers, traces first. *)

ForceFlush(p) ==
    /\ pc[p] \in {"ready", "flushed"}
    /\ due' = [due EXCEPT ![p] = pending[p] \cap {"trace"}]
    /\ errs' = [errs EXCEPT ![p] = FALSE]
    /\ Goto(p, "flushTraces")
    /\ UNCHANGED <<setupVars, state, next, global, pending, draining>>

(* An exporter that fails has its batch given up, one that is not come to in
   time has it kept; what drains by itself is not flushed. *)
Flush(p, s, ok) ==
    /\ IF global[s] # None /\ state[global[s]][s] = "open"
         THEN \/ LetsGo(global[s], s)
              \/ (~ok \/ s \in draining[global[s]]) /\ UNCHANGED <<pending, due>>
         ELSE UNCHANGED <<pending, due>>
    /\ ~ok => global[s] # None
    /\ errs' = [errs EXCEPT ![p] = @ \/ ~ok]
    /\ UNCHANGED <<setupVars, state, next, global, draining>>

FlushTraces(p, ok) ==
    /\ At(p, "flushTraces")
    /\ Flush(p, "trace", ok)
    /\ Goto(p, "flushMetrics")

FlushMetrics(p, ok) ==
    /\ At(p, "flushMetrics")
    /\ Flush(p, "metric", ok)
    /\ Goto(p, "flushed")

-----------------------------------------------------------------------------
(* Shutdown calls shutdownFns from the last to the first; an error does not
   keep it from going on. *)

(* Mutant: the loop starts one past the last function. *)
ShutdownPastEnd(p) ==
    /\ pc[p] \in {"ready", "flushed"}
    /\ next' = [next EXCEPT ![p] = Len(fns[p]) + 1]
    /\ errs' = [errs EXCEPT ![p] = FALSE]
    /\ due' = [due EXCEPT ![p] = {}]
    /\ Goto(p, "closing")
    /\ UNCHANGED <<setupVars, state, global, pending, draining>>

Shutdown(p) ==
    /\ pc[p] \in {"ready", "flushed"}
    /\ next' = [next EXCEPT ![p] = Len(fns[p])]
    /\ errs' = [errs EXCEPT ![p] = FALSE]
    /\ due' = [due EXCEPT ![p] = {}]
    /\ Goto(p, "closing")
    /\ UNCHANGED <<setupVars, state, global, pending, draining>>

(* Mutant: the Prometheus server is not shut down. *)
StopsButListener(p, s) ==
    CASE s = "trace"  -> Batchers(p)
      [] s = "metric" -> {Reader}
      [] s = "log"    -> {}

(* What the function for a signal stops.  A connection handed to an OTLP
   exporter is not the exporter's to close, and srv.Shutdown does not know of
   a listener that Serve has not taken over. *)
Stops(p, s) ==
    CASE s = "trace"  -> Batchers(p)
      [] s = "metric" -> {Reader} \cup IF Starting \in open[p] THEN {} ELSE {Listener}
      [] s = "log"    -> {}

(* Mutant: from the first to the last. *)
TurnUpwards(p) == fns[p][Len(fns[p]) + 1 - next[p]]

Turn(p) == fns[p][next[p]]

(* tp.Shutdown without a batcher, and that of a metric provider without a
   reader, have nothing to fail with. *)
MayFail(p, s) ==
    CASE s = "trace"  -> Batchers(p) # {}
      [] s = "metric" -> Reader \in open[p]
      [] s = "log"    -> TRUE

(* tp.Shutdown looks at its context before each batcher, the first one
   included: when it is done, the batchers that follow go on as before. *)
Spared(p, s, ok) ==
    IF s = "trace" /\ ~ok THEN {{r \in Batchers(p) : r[2] > i} : i \in 0..built[p]} ELSE {{}}

(* Batchers and the log exporter drain in goroutines; Shutdown waits for them
   as long as its context allows.  A reader exports in Shutdown itself. *)
Lingers(p, s, spared) ==
    CASE s = "trace"  -> spared # Batchers(p)
      [] s = "metric" -> FALSE
      [] s = "log"    -> TRUE

(* Mutant: an error ends the loop. *)
ProceedsUnlessFailed(p, ok) == next' = [next EXCEPT ![p] = IF ok THEN @ - 1 ELSE 0]

Proceeds(p, ok) == next' = [next EXCEPT ![p] = @ - 1]

(* The function for a signal stops its pipeline, but for the batchers it spares.
   Without an error the pipeline holds nothing any more; with one it may also
   be draining still, or hold what is lost or what the spared batchers have. *)
ShutdownFn(p, ok) ==
    /\ pc[p] \in {"closing", "aborting"}
    /\ next[p] > 0
    /\ LET s == Turn(p) IN
          /\ ok \/ MayFail(p, s)
          /\ \E spared \in Spared(p, s, ok) :
                /\ state' = [state EXCEPT ![p][s] = IF spared = {} THEN "shut" ELSE @]
                /\ open' = [open EXCEPT ![p] = @ \ (Stops(p, s) \ spared)]
                /\ \/ spared = {} /\ LetsGo(p, s) /\ UNCHANGED draining
                   \/ /\ ~ok /\ Lingers(p, s, spared)
                      /\ draining' = [draining EXCEPT ![p] = @ \cup {s}]
                      /\ UNCHANGED <<pending, due>>
                   \/ ~ok /\ (s = "trace" => spared # {}) /\ UNCHANGED dataVars
    /\ errs' = [errs EXCEPT ![p] = @ \/ ~ok]
    /\ Proceeds(p, ok)
    /\ UNCHANGED <<cfg, pc, built, fns, global>>

ShutdownReturns(p) ==
    /\ pc[p] \in {"closing", "aborting"}
    /\ next[p] = 0
    /\ Goto(p, IF pc[p] = "closing" THEN "closed" ELSE "failed")
    /\ UNCHANGED <<setupVars, state, next, errs, global, dataVars>>

-----------------------------------------------------------------------------
Gone(p) == pc[p] \in {"failed", "closed"}

Next ==
    \/ \E p \in Provider :
          \/ New(p) \/ Serve(p)
          \/ ForceFlush(p) \/ Shutdown(p) \/ ShutdownReturns(p)
          \/ \E ok \in BOOLEAN : FlushTraces(p, ok) \/ FlushMetrics(p, ok) \/ ShutdownFn(p, ok)
          \/ \E s \in Signal : Emit(p, s) \/ Export(p, s) \/ DrainEnds(p, s)
    \/ (\A p \in Provider : Gone(p)) /\ UNCHANGED vars

(* The goroutine that serves the Prometheus endpoint gets to run, and so does
   the one that shuts the Provider down. *)
Fairness ==
    \A p \in Provider :
        /\ WF_vars(Serve(p))
        /\ WF_vars(\E ok \in BOOLEAN : ShutdownFn(p, ok))
        /\ WF_vars(ShutdownReturns(p))

Spec == Init /\ [][Next]_vars /\ Fairness

-----------------------------------------------------------------------------
(* Properties. *)

(* Every variable keeps to its type. *)
TypeOK ==
    /\ cfg \in [Provider -> Config]
    /\ pc \in [Provider -> {"none", "traces", "metrics", "register", "logger", "ready",
                            "flushTraces", "flushMetrics", "flushed",
                            "closing", "aborting", "closed", "failed"}]
    /\ \A p \in Provider :
          /\ built[p] \in 0..Len(cfg[p].traces)
          /\ open[p] \subseteq ({"conn", "batcher"} \X (0..Len(cfg[p].traces))) \cup {Reader, Listener, Starting}
          /\ fns[p] \in Seq(Signal) /\ next[p] \in 0..Len(fns[p])
    /\ state \in [Provider -> [Signal -> {"none", "open", "shut"}]]
    /\ errs \in [Provider -> BOOLEAN]
    /\ global \in [{"trace", "metric"} -> Provider \cup {None}]
    /\ pending \in [Provider -> SUBSET Signal]
    /\ draining \in [Provider -> SUBSET {"trace", "log"}]
    /\ due \in [Provider -> SUBSET {"trace"}]

(* When Shutdown has returned nil nothing is buffered any more of what this
   Provider was given, by its own logger, tracer and meter before their
   functions ran or by libraries, whichever Provider the global ones are by
   then: a constructor whose function is not kept, or a flush of the globals in
   its place, would leave some.  That it was exported is not said: a nil hides
   what batchers report to otel.Handle and what the Loki exporter drops. *)
ShutdownEmptiesOwn ==
    \A p \in Provider : pc[p] = "closed" /\ ~errs[p] => pending[p] = {}

(* Little outlives its Provider, whichever functions fail: after Shutdown, and
   after a New that failed halfway, metrics and logs are not taken any more, no
   reader runs and the Prometheus port is free, but for a moment while its
   goroutine has yet to come to srv.Serve.  If Shutdown met no error, the same
   holds of spans and batchers, and nothing is being drained; a context that
   was done lets batchers run on.  Connections stay, and a New that failed while
   BuildTracerProvider ran leaves what earlier rounds made. *)
NothingRunsAfterwards ==
    \A p \in Provider : Gone(p) =>
        /\ state[p]["metric"] # "open" /\ state[p]["log"] # "open"
        /\ state[p]["trace"] = "open" \/ draining[p] # {} => errs[p]
        /\ \A r \in open[p] :
              \/ IsConn(r)
              \/ r \in {Starting, Listener} /\ Starting \in open[p]
              \/ IsBatcher(r) /\ state[p]["trace"] = "open"
              \/ pc[p] = "failed" /\ fns[p] = <<>>

(* Shutdown takes the pipelines down in the reverse of the order in which New
   built them: the log exporter, which may itself be traced and metered, goes
   first and the trace pipeline last. *)
ReverseOrder ==
    \A p \in Provider :
        /\ state[p]["trace"] = "shut" => state[p]["metric"] # "open" /\ state[p]["log"] # "open"
        /\ state[p]["metric"] = "shut" => state[p]["log"] # "open"

(* Each signal of each Provider, through failing constructors, exchanged globals
   and flushes called by other Providers, keeps to what Pipeline promises. *)
Pipelines == INSTANCE Pipeline WITH
    Id <- Provider \X Signal,
    state <- [i \in Provider \X Signal |-> state[i[1]][i[2]]],
    holding <- {i \in Provider \X Signal : i[2] \in pending[i[1]]}

ImplementsPipelines == Pipelines!Spec

(* The Prometheus port does not stay taken: once Shutdown is called, or New has
   given up halfway, it is free in the end, also if srv.Shutdown came before
   srv.Serve, so that another Provider can have it. *)
PortGivenBack ==
    \A p \in Provider :
        pc[p] \in {"closing", "aborting"} ~> Gone(p) /\ Listener \notin open[p]

(* "Call before Shutdown in CLIs and batch jobs so spans are not dropped"
   (telemetry.go:205): when ForceFlush has returned nil, no span the Provider
   was given before the call is still buffered. *)
ForceFlushFlushes ==
    \A p \in Provider : At(p, "flushed") /\ ~errs[p] => due[p] = {}
=============================================================================
