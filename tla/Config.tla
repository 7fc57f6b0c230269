------------------------------- MODULE Config -------------------------------
(***************************************************************************)
(* From the environment and the Config of the application to what New      *)
(* builds: ConfigFromEnv (env.go), the defaults of New (telemetry.go) and  *)
(* SamplerFromConfig (internal/export/export.go).                          *)
(*                                                                         *)
(* A ratio is a whole number of Full-ths, so 1.0 is Full; ParseFloat lets  *)
(* values outside 0..Full through.  The version goes the way of the name,  *)
(* and of an endpoint it is only followed whether there is one.            *)
(***************************************************************************)
EXTENDS Integers, Sequences, SequencesExt

CONSTANTS
    Full,       \* the ratio 1.0
    Text        \* names of services, keys and values of resource attributes; none is empty

ASSUME FullAssumption == Full \in Nat \ {0}
ASSUME TextAssumption == "service.name" \in Text /\ "" \notin Text

Ratio == (-1)..(Full + 1)

ExporterType == {"otlp", "stdout", "prometheus", "noop"}

Level == {"debug", "info", "warn", "error"}

Attributes == UNION {[K -> Text] : K \in SUBSET Text}

(* name, exporter and metric are "" when the application leaves them unset. *)
ConfigRecord ==
    [ name : Text \cup {""}, attrs : Attributes, endpoint : BOOLEAN, insecure : BOOLEAN,
      exporter : ExporterType \cup {""}, exporters : Seq(ExporterType),
      metric : ExporterType \cup {""}, ratio : Ratio, errors : BOOLEAN, level : Level ]

(* What the variables hold: exporters and level are what their names stand
   for, "unset" a missing variable and arg empty also when it is no number.
   attrs are the pairs of OTEL_RESOURCE_ATTRIBUTES that have a "=". *)
Environment ==
    [ name : Text \cup {""}, attrs : Seq((Text \cup {""}) \X Text),
      endpoint : BOOLEAN, insecure : BOOLEAN,
      exporters : Seq(ExporterType \cup {"unknown"}),
      sampler : {"unset", "always_on", "always_off", "traceidratio", "unknown"},
      arg : Seq(Ratio), level : Level \cup {"unset", "unknown"} ]

-----------------------------------------------------------------------------
(* ConfigFromEnv, one variable after the other. *)

NameFromEnv(env, cfg) == IF env.name = "" THEN cfg ELSE [cfg EXCEPT !.name = env.name]

(* Name by name; an unknown one is ignored. *)
KnownExporters(env) ==
    LET known[n \in 0..Len(env.exporters)] ==
            IF n = 0 THEN <<>>
            ELSE IF env.exporters[n] \in ExporterType
                   THEN Append(known[n - 1], env.exporters[n]) ELSE known[n - 1]
    IN  known[Len(env.exporters)]

(* Mutant: one name is kept like several. *)
ExportersOverridden(env, cfg) ==
    LET known == KnownExporters(env) IN
    IF known # <<>> THEN [cfg EXCEPT !.exporters = known] ELSE cfg

ExportersFromEnv(env, cfg) ==
    LET known == KnownExporters(env) IN
    IF Len(known) = 1 THEN [cfg EXCEPT !.exporter = Head(known)]
    ELSE IF Len(known) > 1 THEN [cfg EXCEPT !.exporters = known] ELSE cfg

(* Neither variable can take back what the application has set. *)
EndpointFromEnv(env, cfg) ==
    [cfg EXCEPT !.endpoint = @ \/ env.endpoint, !.insecure = @ \/ env.insecure]

SamplerFromEnv(env, cfg) ==
    CASE env.sampler = "always_on"  -> [cfg EXCEPT !.ratio = Full]
      [] env.sampler = "always_off" -> [cfg EXCEPT !.ratio = 0]
      [] OTHER -> cfg

(* Mutant: the argument counts for traceidratio only. *)
ArgOfRatioOnly(env, cfg) ==
    IF env.sampler = "traceidratio" /\ env.arg # <<>> THEN [cfg EXCEPT !.ratio = Head(env.arg)] ELSE cfg

(* Whatever the sampler is. *)
ArgFromEnv(env, cfg) ==
    IF env.arg = <<>> THEN cfg ELSE [cfg EXCEPT !.ratio = Head(env.arg)]

(* Mutant: a key that is there keeps its value. *)
PutAbsent(m, a) ==
    IF a[1] = "" THEN m
    ELSE [k \in DOMAIN m \cup {a[1]} |-> IF k \in DOMAIN m THEN m[k] ELSE a[2]]

(* A pair without a key is ignored. *)
Put(m, a) ==
    IF a[1] = "" THEN m
    ELSE [k \in DOMAIN m \cup {a[1]} |-> IF k = a[1] THEN a[2] ELSE m[k]]

(* Pair by pair. *)
Merged(m, pairs) ==
    LET made[n \in 0..Len(pairs)] == IF n = 0 THEN m ELSE Put(made[n - 1], pairs[n])
    IN  made[Len(pairs)]

AttributesFromEnv(env, cfg) == [cfg EXCEPT !.attrs = Merged(@, env.attrs)]

LevelFromEnv(env, cfg) ==
    CASE env.level = "unset" -> cfg
      [] env.level = "unknown" -> [cfg EXCEPT !.level = "info"]
      [] OTHER -> [cfg EXCEPT !.level = env.level]

ConfigFromEnv(env, cfg) ==
    LET wired == EndpointFromEnv(env, ExportersFromEnv(env, NameFromEnv(env, cfg)))
    IN  LevelFromEnv(env, AttributesFromEnv(env, ArgFromEnv(env, SamplerFromEnv(env, wired))))

-----------------------------------------------------------------------------
(* New. *)

WithDefaults(cfg) == IF cfg.ratio = 0 THEN [cfg EXCEPT !.ratio = Full] ELSE cfg

TraceExporters(cfg) == IF cfg.exporters # <<>> THEN cfg.exporters ELSE <<cfg.exporter>>

MetricExporter(cfg) == IF cfg.metric # "" THEN cfg.metric ELSE cfg.exporter

(* New needs a name, and an endpoint for the OTLP exporters it makes. *)
Refuses(cfg) ==
    \/ cfg.name = ""
    \/ ~cfg.endpoint /\ "otlp" \in Range(Append(TraceExporters(cfg), MetricExporter(cfg)))

(* The resource of traces and metrics: of two values for a key the last, and
   the application's attributes come after the service's name. *)
Resource(cfg) ==
    [k \in {"service.name"} \cup DOMAIN cfg.attrs |->
        IF k \in DOMAIN cfg.attrs THEN cfg.attrs[k] ELSE cfg.name]

(* Any other exporter, the empty name too, sends spans somewhere. *)
Active(cfg) == \E i \in DOMAIN TraceExporters(cfg) : TraceExporters(cfg)[i] # "noop"

(* Mutant: the two ends are swapped. *)
SamplerSwapped(cfg) ==
    [ base |-> CASE cfg.ratio >= Full -> 0
                 [] cfg.ratio <= 0 -> Full
                 [] OTHER -> cfg.ratio,
      errors |-> cfg.errors ]

(* The base sampler takes the traces below base, out of Full. *)
SamplerFromConfig(cfg) ==
    [ base |-> CASE cfg.ratio >= Full -> Full
                 [] cfg.ratio <= 0 -> 0
                 [] OTHER -> cfg.ratio,
      errors |-> cfg.errors ]
=============================================================================
