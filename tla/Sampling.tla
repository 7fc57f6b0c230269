------------------------------ MODULE Sampling ------------------------------
(***************************************************************************)
(* Which spans of a trace that runs through several services are exported: *)
(* each service starts with ConfigFromEnv and New (Config), its sampler    *)
(* decides when a span starts (tracer/sampling.go), and tracer.Span marks  *)
(* errors and ends spans (tracer/tracer.go).                               *)
(*                                                                         *)
(* A trace is followed by the number its ID stands for in the ratio        *)
(* sampler, which takes those below its ratio.  The OTel SDK is external.  *)
(***************************************************************************)
EXTENDS Config, FiniteSets

CONSTANTS
    Service,
    Setting,    \* pairs of an Environment and a ConfigRecord services start with
    MaxSpans    \* bound: spans started

ASSUME SettingAssumption ==
    \A s \in Setting : s.env \in Environment /\ s.cfg \in ConfigRecord

VARIABLES
    setting,    \* what each service is started with
    up,         \* the services that run
    refused,    \* the services New has refused
    resource,   \* what the traces and metrics of each service say they are from
    cfg,        \* the Config each service's Provider works with
    sampler,    \* its sampler
    spans,      \* the spans started, in order
    exported    \* the spans handed to a batcher

bootVars == <<setting, up, refused, resource, cfg, sampler>>
vars == <<bootVars, spans, exported>>

Unset == [base |-> 0, errors |-> FALSE]

Init ==
    /\ setting \in [Service -> Setting]
    /\ up = {} /\ refused = {}
    /\ resource = [s \in Service |-> <<>>]
    /\ cfg = [s \in Service |-> setting[s].cfg]
    /\ sampler = [s \in Service |-> Unset]
    /\ spans = <<>>
    /\ exported = {}

Start(s) ==
    /\ s \notin up \cup refused
    /\ LET c == WithDefaults(ConfigFromEnv(setting[s].env, setting[s].cfg)) IN
         IF Refuses(c)
           THEN refused' = refused \cup {s} /\ UNCHANGED <<up, resource, cfg, sampler>>
           ELSE /\ up' = up \cup {s}
                /\ cfg' = [cfg EXCEPT ![s] = c]
                /\ resource' = [resource EXCEPT ![s] = Resource(c)]
                /\ sampler' = [sampler EXCEPT ![s] = SamplerFromConfig(c)]
                /\ UNCHANGED refused
    /\ UNCHANGED <<setting, spans, exported>>

(* Mutant: an error attribute is not looked at. *)
ShouldSampleBase(s, trace, error) == trace < sampler[s].base

(* Mutant: the comparison is turned round. *)
ShouldSampleAbove(s, trace, error) == (sampler[s].errors /\ error) \/ trace >= sampler[s].base

(* ErrorSampler.ShouldSample around the base sampler; error says that the span
   is started with the attribute error=true. *)
ShouldSample(s, trace, error) == (sampler[s].errors /\ error) \/ trace < sampler[s].base

(* Without an active exporter the SDK's own default sampler decides. *)
Decision(s, trace, error) ==
    IF Active(cfg[s]) THEN {ShouldSample(s, trace, error)} ELSE BOOLEAN

(* parent is the number of a span, of this service or reached through
   propagated headers, or 0. *)
StartSpan(s, parent, trace, error) ==
    /\ s \in up
    /\ Len(spans) < MaxSpans
    /\ \E sampled \in Decision(s, trace, error) :
          spans' = Append(spans,
             [ service |-> s, parent |-> parent, trace |-> trace, started |-> error,
               sampled |-> sampled, failed |-> error, marked |-> error /\ sampled,
               ended |-> FALSE ])
    /\ UNCHANGED <<bootVars, exported>>

StartRoot(s, trace, error) == StartSpan(s, 0, trace, error)

StartChild(s, parent, error) ==
    /\ parent \in DOMAIN spans
    /\ StartSpan(s, parent, spans[parent].trace, error)

(* Mutant: a span that is not recording is recorded after all. *)
SetErrorRecords(i) ==
    /\ ~spans[i].ended
    /\ spans' = [spans EXCEPT ![i].failed = TRUE, ![i].marked = TRUE]
    /\ UNCHANGED <<bootVars, exported>>

(* A span that is not sampled takes no attributes and no status. *)
SetError(i) ==
    /\ ~spans[i].ended
    /\ spans' = [spans EXCEPT ![i].failed = TRUE, ![i].marked = spans[i].sampled]
    /\ UNCHANGED <<bootVars, exported>>

End(i) ==
    /\ ~spans[i].ended
    /\ spans' = [spans EXCEPT ![i].ended = TRUE]
    /\ exported' = IF spans[i].sampled /\ Active(cfg[spans[i].service])
                     THEN exported \cup {i} ELSE exported
    /\ UNCHANGED bootVars

Next ==
    \/ \E s \in Service :
          \/ Start(s)
          \/ \E error \in BOOLEAN :
                \/ \E trace \in 0..(Full - 1) : StartRoot(s, trace, error)
                \/ \E parent \in DOMAIN spans : StartChild(s, parent, error)
    \/ \E i \in DOMAIN spans : SetError(i) \/ End(i)
    \/ up \cup refused = Service /\ (up # {} => Len(spans) = MaxSpans) /\ (\A i \in DOMAIN spans : spans[i].ended)
       /\ UNCHANGED vars

Spec == Init /\ [][Next]_vars

-----------------------------------------------------------------------------
(* Properties. *)

Span == DOMAIN spans
By(i) == sampler[spans[i].service]
Exporting(i) == Active(cfg[spans[i].service])

(* Every variable keeps to its type; only a sampled span carries a mark. *)
TypeOK ==
    /\ up \subseteq Service /\ refused \subseteq Service \ up
    /\ \A s \in up : resource[s] \in Attributes
    /\ cfg \in [Service -> ConfigRecord]
    /\ sampler \in [Service -> [base : 0..Full, errors : BOOLEAN]]
    /\ exported \subseteq Span
    /\ \A i \in Span :
          /\ spans[i].parent \in 0..(i - 1) /\ spans[i].trace \in 0..(Full - 1)
          /\ spans[i].marked => spans[i].failed /\ spans[i].sampled

(* Services decide about a trace without asking each other and still agree: a
   trace that a service samples for its ratio is sampled by every service whose
   ratio is not smaller, so equal ratios give whole traces. *)
Agreement ==
    \A i, j \in Span :
        Exporting(i) /\ Exporting(j) /\ spans[i].trace = spans[j].trace
        /\ spans[i].sampled /\ ~spans[i].started /\ By(i).base <= By(j).base
            => spans[j].sampled

(* With AlwaysSampleErrors a span that starts as an error is exported when it
   ends and says so, whatever the ratio and the trace. *)
ErrorsAtStartExported ==
    \A i \in Span :
        spans[i].started /\ spans[i].ended /\ Exporting(i) /\ cfg[spans[i].service].errors
            => i \in exported /\ spans[i].marked

(* Each resource attribute has the last value of the environment or else the
   application's, and of the service's name the environment's or else the
   application's stands where no attribute replaces it. *)
AttributesAsAsked ==
    \A s \in up :
        LET env == setting[s].env
            app == setting[s].cfg
            Pairs(k) == {i \in DOMAIN env.attrs : env.attrs[i][1] = k}
            name == IF env.name # "" THEN env.name ELSE app.name
        IN  \A k \in Text :
               IF Pairs(k) # {} THEN resource[s][k] = env.attrs[Max(Pairs(k))][2]
               ELSE IF k \in DOMAIN app.attrs THEN resource[s][k] = app.attrs[k]
               ELSE IF k = "service.name" THEN resource[s][k] = name
               ELSE k \notin DOMAIN resource[s]

(* The places of OTEL_TRACES_EXPORTER that name an exporter, and the list of
   those exporters in its order. *)
Named(env) == {i \in DOMAIN env.exporters : env.exporters[i] \in ExporterType}

Lists(exporters, env) ==
    /\ Len(exporters) = Cardinality(Named(env))
    /\ \A i \in Named(env) :
          exporters[Cardinality({j \in Named(env) : j <= i})] = env.exporters[i]

(* Spans go where the environment says, or else the application: Exporters, or
   Exporter.  One name in the environment does not override Exporters, whatever
   env.go:11 says ("values overridden").  Metrics go to the application's
   MetricExporter, or where one name in the environment says, or to Exporter.  A
   service without an endpoint to send to does not come up. *)
ExportersAsAsked ==
    \A s \in up :
        LET env == setting[s].env
            app == setting[s].cfg
            named == Cardinality(Named(env))
            traces == TraceExporters(cfg[s])
            metrics == MetricExporter(cfg[s])
        IN  /\ IF named > 1 \/ (named = 1 /\ app.exporters = <<>>) THEN Lists(traces, env)
               ELSE traces = IF app.exporters # <<>> THEN app.exporters ELSE <<app.exporter>>
            /\ IF app.metric = "" /\ named = 1 THEN Lists(<<metrics>>, env)
               ELSE metrics = IF app.metric # "" THEN app.metric ELSE app.exporter
            /\ cfg[s].endpoint = (app.endpoint \/ env.endpoint)
            /\ cfg[s].insecure = (app.insecure \/ env.insecure)
            /\ ~cfg[s].endpoint => "otlp" \notin Range(Append(traces, metrics))

(* The level is the environment's, "info" for one it misspells, or else the
   application's. *)
LevelAsAsked ==
    \A s \in up :
        LET env == setting[s].env
        IN  cfg[s].level = IF env.level \in Level THEN env.level
                           ELSE IF env.level = "unset" THEN setting[s].cfg.level ELSE "info"

(* The ratio asked for: OTEL_TRACES_SAMPLER_ARG wherever there is one, also
   against always_on and always_off, although env.go:27 says that it is "used
   when sampler is traceidratio". *)
RatioAsked(env, app) ==
    IF env.arg # <<>> THEN Head(env.arg)
    ELSE IF env.sampler = "always_on" THEN Full
    ELSE IF env.sampler = "always_off" THEN 0
    ELSE app.ratio

(* A span is sampled exactly if it starts as an error with AlwaysSampleErrors, or
   its trace is below the ratio asked for; 0 counts as unset, hence as 1.0. *)
RatioAsAsked ==
    \A i \in Span :
        LET service == setting[spans[i].service]
            asked == RatioAsked(service.env, service.cfg)
        IN  Exporting(i) =>
              ( spans[i].sampled <=> \/ service.cfg.errors /\ spans[i].started
                                     \/ asked = 0 \/ spans[i].trace < asked )

(* A service is what its environment and, where that is silent, its Config ask
   for, through ConfigFromEnv, the defaults and New. *)
AsAsked == AttributesAsAsked /\ ExportersAsAsked /\ LevelAsAsked /\ RatioAsAsked

(* "OTEL_TRACES_SAMPLER: always_on|always_off|traceidratio" (env.go:26): a
   service started with always_off, and no ratio in the environment, samples no
   span but errors. *)
AlwaysOff ==
    \A i \in Span :
        LET env == setting[spans[i].service].env
        IN  env.sampler = "always_off" /\ env.arg = <<>> /\ ~spans[i].started /\ Exporting(i)
              => ~spans[i].sampled

(* "any span that records an error is force-sampled regardless of the ratio"
   (README.md:260). *)
ErrorsExported ==
    \A i \in Span :
        spans[i].failed /\ spans[i].ended /\ Exporting(i) /\ cfg[spans[i].service].errors
            => i \in exported
=============================================================================
