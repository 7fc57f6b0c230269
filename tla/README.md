# A verification project for go-telemetry

TLA+ models of go-telemetry, checked with TLC on small instances and, where a
property matters most, proved with TLAPS for every instance. Paths and line
numbers refer to the repository's sources.

## Inventory

| Component | State it keeps | Operations | Hard behaviour | What makes it correct |
|---|---|---|---|---|
| Loki exporter (`logger/loki.go`) | channel `ch`, counter `dropped`, `quit`, run's `batch`, semaphore `pushSem`, `WaitGroup` | `Export`, `run`, `pushAsync`, `push` with retries, `Shutdown` | application goroutines, one background goroutine, push goroutines, callers of Shutdown with a context; lost answers and retries; queue and slots at their limit | no entry lost without being accounted for, order, bounds, Shutdown complete, every early entry settled |
| `LogExporter` (`logger/exporter.go`) | – | `Export`, `Shutdown` | an interface: the promise, not the code | the contract the logging pipeline relies on |
| Logging pipeline (`logger/logger.go`, `logger/export_handler.go`) | attributes of each derived logger | `With`, `WithGroup`, `Debug`..`Error`, `Handle` | concurrent loggers, failing writer, colliding keys | stdout and exporter see the same records, trace identifiers kept, entries in the stream of their level |
| Provider (`telemetry.go`, `internal/export/export.go`) | `shutdownFns`, global tracer and meter provider, connections, batchers, readers, Prometheus listener | `New`, `ForceFlush`, `Shutdown` | failure halfway through `New`, two Providers sharing globals, start of the Prometheus server racing its shutdown | taken down in reverse order whatever fails; what goes on, or is still buffered, only together with an error |
| Configuration (`env.go`, `telemetry.go`) | – | `ConfigFromEnv`, defaults of `New` | zero values that mean "unset" | the effective configuration is the one asked for |
| Sampling (`tracer/sampling.go`, `internal/export/export.go`) | the sampler | `ShouldSample` | services decide independently and before errors are known | whole traces, errors kept |
| Tracer (`tracer/tracer.go`) | the OTel span | `Start`, `SetError`, `SetAttribute`, `AddEvent`, `End` | spans that are not recording | errors marked |
| gRPC streaming client (`middleware/grpc_client.go`) | span, `endOnce` | `SendMsg`, `RecvMsg` | two application goroutines on one span | one End, failures marked, no span left open |
| Request middleware (`middleware/http.go`, `http_client.go`, `grpc.go`, `grpc_client.go`) | instruments; `responseWriter` of a request | set-up, both ends of a call | panics, misuse of `WriteHeader`, instruments that fail, concurrent requests, calls from handlers, messages lost, late or repeated | span, histogram, counter and log line agree, and so do the two ends |
| Propagation and baggage (`propagation/context.go`) | the context's trace, span and baggage | headers in and out, baggage | headers shared between calls, invalid values | spans form the trees the calls form, baggage arrives |
| Meter, runtime metrics, test doubles, examples | – | wrappers | – | – |

How they interact: an application logs through a `Logger`, whose handler writes
JSON to stdout and calls `Export` of the `LogExporter` in the same goroutine;
`LokiExporter` passes the entry to its background goroutine through a channel.
`New` wires a tracer provider, a meter provider and the logger, registers the
first two globally and collects the functions `Shutdown` calls in reverse. The
middleware uses the `Tracer`, `Meter` and `Logger` of a Provider; the client's end
of a call writes the context into headers from which the server's end restores it.

The hazards, each at its line, are in `PROJECT.json`.

## Modules

| Module | Models | Runs |
|---|---|---|
| `LogExporter` | the abstract exporter: what `Export` and `Shutdown` promise | refined by `LokiSender` |
| `LokiSender` | `logger/loki.go` | `loki_safety`, `loki_live`, `loki_flush` |
| `LokiSenderProofs` | proofs about `LokiSender`: types, limits, Shutdown | TLAPS |
| `LokiDeliveryProofs` | on top of it: what becomes of the entries, refinement of `LogExporter` | TLAPS |
| `LogPipeline` | `logger/logger.go`, `logger/export_handler.go`, the grouping of `push` | `logs` |
| `LogPipelineProofs` | proofs about `LogPipeline` | TLAPS |
| `Pipeline` | the abstract pipelines: what a Provider promises of each signal | refined by `Provider` |
| `Provider` | `telemetry.go`, `internal/export/export.go` | `provider`, `provider_flush` |
| `ProviderProofs` | proofs about `Provider`, refinement of `Pipeline` | TLAPS |
| `Config` | `env.go`, defaults, refusals and resource of `New`, `SamplerFromConfig`; operators only | through `Sampling` |
| `Sampling` | `tracer/sampling.go`, `Start`, `SetError`, `End` of `tracer/tracer.go`, over `Config` | `sampling`, `sampling_off`, `sampling_errors` |
| `SamplingProofs` | proofs about `Sampling` and the way of the ratio through `Config` | TLAPS |
| `GrpcClientStream` | `StreamClientInterceptor`, `wrappedClientStream` | `stream`, `stream_leak` |
| `GrpcClientStreamProofs` | proofs about `GrpcClientStream` | TLAPS |
| `Propagation` | `propagation/context.go` and the carriers; operators only | through `Middleware` |
| `Middleware` | the four files of `middleware/` but for the streaming client | `requests` |
| `MiddlewareProofs` | proofs about `Middleware` and `Propagation` | TLAPS |
| `Induction` | lemmas: induction with a set as predicate, functions defined step by step, ranks | TLAPS |
| `MC...` | values and symmetry sets for TLC | |

An operator whose comment begins with "Mutant:" is a plausible bug of the
definition that follows it. The specification does not use it; `PROJECT.json`
names the property that must fail when it takes the definition's place.

### LokiSender

`ch`, `dropped`, `quit`, `pushSem` and `wg` are the fields of `lokiSender`.
`runPc` and `batch` are the control and the local slice of `run`; `pc`, `load`
and `attempt` those of the push goroutines; `closer` those of the callers of
`Shutdown`. An entry is the number of its call of `Export`. `fate`, `stored` and
`due` are history.

| Code | Action |
|---|---|
| `Export`, `enqueue` | `Reject` (attributes that cannot be marshalled), `Enqueue`, `Overflow` |
| `run`, outer select | `Recv`, `Tick`, `Quit` |
| `run`, drain loop | `DrainRecv`, `DrainDone` (the `default` case: only with an empty channel) |
| `flush`, `pushAsync` | `Flush`, `PushAsync` = `StartPush` or `DropBatch` |
| deferred `wg.Done` of `run` | `RunReturn` |
| `push`, `doPush` | `PushOk`, `PushFail` (`reached`: Loki has stored the batch all the same) |
| deferred calls of the push goroutine | `Release`, then `PusherReturn` |
| `shutdown` | `Shutdown`, `ShutdownNil`, `ShutdownCtx` |

Receiving an entry and flushing the batch it fills are one step. Between the two
other goroutines can send to `ch`, release slots, leave the WaitGroup or call
Shutdown. A send commutes with the flush and the receive; a release in between is
a release before the receive; the others touch nothing the flush reads. The
try-send on `pushSem` and `wg.Add` are one step: only `run` acquires slots, and
the WaitGroup cannot reach zero in between because `run` itself is counted.
The body of a push consists of strings, so marshalling it cannot fail and the
early return of `push` is left out. A second `close(quit)` panics, which ends the
process: `Alive` stops everything then.

### LogPipeline

A record is written (`Log`, `Handle`) and exported (`Export`) in two steps, since
other goroutines run in between. `Attrs` is the map `Handle` builds from the
message, the handler's attributes and the record's, in this order: of several
assignments to a key the last one stays (`Assigned`). `Streams` is the head of
`push` as a function of a batch; `ByLevel`, its loop over the batch, is a function
defined from one entry to the next.

### Provider

`pc` follows the goroutine that owns a Provider; `open` holds connections,
batchers, the periodic reader, the Prometheus listener and the goroutine that has
yet to call `srv.Serve`; `fns` is `shutdownFns`; `global` says whose the OTel
globals are. Telemetry is followed per signal: `pending` says that a pipeline still
holds something, and `LetsGo` that it does not any more, because it has been
exported or given up. The two cannot be told apart from outside: the SDK's batchers
report a failed export to `otel.Handle` and return nil, and `LokiExporter.Shutdown`
returns nil with batches dropped (`loki_flush`). So a Shutdown that returns nil has
emptied the pipelines (`ShutdownEmptiesOwn`), not necessarily exported what was in
them.

`ShutdownFn` calls one of `shutdownFns`, which may fail. What it does then is the
SDK's: `TracerProvider.Shutdown` looks at its context before each batcher and, when
it is done, leaves those that follow running (`Spared`), so that the trace pipeline
stays open; a batcher or the log exporter that has been told to stop drains in a
goroutine for which it waits only as long as the context allows (`draining`); a
periodic reader exports in the call itself. In each case the loop goes on to the next
function (`Proceeds`) and Shutdown returns an error, and that is what
`NothingRunsAfterwards` relies on: the trace pipeline, its batchers or a drain go
on after Shutdown only if it has returned one.

`Pipeline` is what this amounts to for a user: a pipeline opens once, takes
telemetry while it is open and at no other time, has it leave by an export or by
being given up, and is shut at most once, for good. The refinement takes a pair of a
Provider and a signal for a pipeline; each step of `Provider` is a step of at most
one of them, so it also says that no step touches two.

### Config and Sampling

A ratio is a whole number of `Full`-ths and a trace the number that
`TraceIDRatioBased` compares with it. `Start` applies `ConfigFromEnv`, the
defaults of `New`, its two refusals (no name, no endpoint for OTLP) and
`SamplerFromConfig`; a service whose exporters are all
`noop` gets the SDK's default sampler, an arbitrary choice here. The loops of
`ConfigFromEnv` over the names of exporters and the pairs of attributes are
functions of how far they have come (`KnownExporters`, `Merged`).

`AsAsked` says what a service comes up with, from the variables and the
application's Config alone and without the operators that translate `ConfigFromEnv`.
It has four parts: name and resource attributes; exporters of traces and of metrics,
with the endpoint they need; level; ratio. It states what the code does where
comments say otherwise. One name in OTEL_TRACES_EXPORTER does not replace
`Exporters` for traces, but does become the backend of metrics if the application
names none (env.go:11: "values overridden"). OTEL_TRACES_SAMPLER_ARG counts whatever
the sampler is, so `always_on` with an argument of -1 samples nothing (env.go:27:
"used when sampler is traceidratio"); the mutant `ArgOfRatioOnly` follows the comment
and breaks `AsAsked`. A ratio of 0 counts as 1.0, which `sampling_off` shows.

### GrpcClientStream

`pc` says where a goroutine is between the return of the stream's own method and
the return of the wrapper: `SetError` and `endSpan` are steps of their own, so
the two goroutines interleave. The RPC is external and can end at any time. gRPC's
`SendMsg` finds errors of its own before it looks at the RPC (a message it cannot
encode or that is too large, a call after `CloseSend`), so they come also when the
RPC is over; `RecvMsg` may fail on a response it cannot decode. If `io.EOF` of
`RecvMsg` has ended the span by then, an error of `SendMsg`'s own is recorded on a
span that takes nothing more (`SetError` at grpc_client.go:148): `FailureIsMarked`
names this as the one error that is lost.

### Propagation and Middleware

A context and a carrier of headers are the same record of trace, span and
baggage; `InjectHeaders` and `ExtractHeaders` lay one over the other, because the
propagators leave alone what the source lacks. A value is stored decoded;
`Decode` says which of the values an application passes are valid.

A request of `Middleware` is one passage through a wrapper, at the client's or at
the server's end of a call.

| Code | Action |
|---|---|
| `RoundTrip`, `UnaryClientInterceptor` up to the transport or invoker | `Call` = `Start`, `Send`; by the application or by a handler that runs |
| `HTTP`, the server interceptors up to the handler | `Arrive` = `Serve`: what a client sent, or what an uninstrumented service sends |
| the handler | `HandlerSetsBaggage`, `WriteHeader`, `Write`, `HandlerReturns`, `Panics` |
| return of the transport or invoker | `CallReturns`, `CallFails` |
| `Record`, `Add`, `Logger.Info` | `Report` |
| deferred `span.End` | `End`, whatever brought the request there |

The network is what the actions leave open: a request that is sent may be
served never, later than the client waits, or several times (net/http repeats a
request on a broken connection); a client may fail although the handler ran. In
HTTP a client has its answer as soon as the status is sent, in gRPC when the
server's interceptor has returned. `Record`, `Add` and the log line are one step:
each belongs to one request and reads nothing another writes. Only HTTP servers
take a Logger (`Logs`). `status` is what a
wrapper records, `sent` what goes out. The statuses are classes: HTTP marks only
5xx, gRPC everything but OK.

## Runs

| Run | Instance | Shows |
|---|---|---|
| `loki_safety` | 3 entries, queue 2, batch 2, 2 slots, 3 push goroutines, 2 attempts, 1 caller | accounting (`Ledger`), order (`Fifo`), bounds, deliveries, completeness of Shutdown, refinement of `LogExporter` |
| `loki_live` | 2 entries, queue 1, batch 2, 1 slot, 2 attempts, 2 callers | Shutdown returns, early entries settle, `run` never waits for Loki; a second Shutdown panics |
| `loki_flush` | as small | **violated**: the final flush may drop the buffered entries |
| `logs` | 2 goroutines, 3 records, 1 derivation, 3 levels, colliding keys | tee, trace identifiers, streams |
| `provider` | 2 Providers, 4 configurations | emptying, release, order, refinement of `Pipeline`; the Prometheus port is given back |
| `provider_flush` | the same | **violated**: ForceFlush flushes another Provider |
| `sampling` | 2 services, 18 settings, ratios -1/2 to 3/2, 2 spans | agreement between services, error spans, every variable of the environment against the Config |
| `sampling_off` | the same | **violated**: `always_off` samples everything |
| `sampling_errors` | the same | **violated**: an error recorded after the start is lost |
| `stream` | 3 sends, 2 responses, both kinds of answer | the race of SendMsg and RecvMsg |
| `stream_leak` | the same | **violated**: the span of a call with one response never ends |
| `requests` | 3 client or server ends, 4 set-ups, 2 calls of WriteHeader, 1 of SetBaggage in a handler, 1 panic | telemetry agrees within and between the ends, trace tree, baggage |

Why the bounds are enough. In `loki_safety` the queue overflows (3 entries, 2
places), a batch fills (2), the final flush exceeds the batch (1 in hand, 2
queued), all slots are taken and a third batch is dropped, a push is retried
(2 attempts), and a push goroutine can still be in its deferred calls when
another starts (3 goroutines, 2 slots). A model in which no push goroutine is
idle lets `run` wait for one to return: with as many as slots plus one this only
delays a step. In `provider` the four configurations meet each backend, an
exporter list with a failing second member, two batchers of which a Shutdown spares
both, the second or none, and the contended Prometheus port.
In `sampling` two spans are what agreement talks about. In `requests` three ends
make the chains that matter: a call, its server, and the call the server makes;
a call served twice; two calls that share the application's headers, with the
server of one. Two calls of WriteHeader, before and after a Write, meet each way in
which a recorded status differs from the one sent. The provider
run has no symmetry because it checks a liveness property.

Deadlock is checked in every run; a specification that has finished stutters
explicitly.

## Fairness

`LokiSender`: the steps of `run` and the deferred calls of push goroutines are
weakly fair (the Go scheduler runs a runnable goroutine) and so is the return of
a caller whose WaitGroup is done. Logging, Shutdown and cancellation are not
fair. That an attempt to push ends is a hypothesis (`AttemptsEnd`) of the
properties that need it; the HTTP client's time-out (`lokiHTTPTimeout`) and the
bound on the retries justify it. `RunNeverWaitsForLoki` does without. Weak
fairness of `run` as a whole is enough in the model, although Go chooses at random
among the ready cases of a select: a tick with an empty batch is a stutter, so it
does not count as a step of `run`, and a tick with a full one, like a receive, can
happen only as often as there are entries. In the code that random choice is what
keeps the ticker from being preferred to `done` for ever.

`Provider`: the goroutine that serves the Prometheus endpoint is weakly fair, and
so are the steps of a Shutdown that has begun: the SDK's exporters time out.
New, ForceFlush and the application are not fair.

`GrpcClientStream`: the wrapper's steps and the application's reading of the
responses, which gRPC asks for, are weakly fair.

## Proofs

Every safety invariant and every action property of the passing runs is a theorem
for every value of the constants, and so are the two refinements. In each of the
seven modules that prove them a property is strengthened to an inductive invariant
(`IInv`, in `LokiDeliveryProofs` also `DInv`) that TLC has confirmed as an invariant
of the run in question; one lemma per action shows that the action keeps it, and the
theorems follow from it. What the invariants add is what a reader of the code has to
know.

Some theorems say what no run checks, because TLC would have to enumerate paths or
batches, or because a run already shows the property's violation: that a trace is a
tree, what a push makes of any batch, which spans are exported, what follows a
Shutdown, when ForceFlush keeps its promise, which streams end their span.

The eighth module, `Induction`, is for what the code's loops compute. The induction
theorems of the library take a predicate as an operator, which the provers cannot
instantiate. Here a predicate is the set of numbers that satisfy it: a set that
holds 0 and with each number the next one holds all (`UpTo`), because the least
number it lacks (`LeastNat`, from the well-foundedness of the naturals) is neither 0
nor the successor of one it holds. `StepByStep` is the same for the existence of a
function defined from each value to the next, as the loops are modelled. `Rank` is
where an element of a list stands among those that are kept of it.

### The Loki sender

| Theorem | Statement |
|---|---|
| `LokiSenderProofs!TypeCorrect` | `Spec => []TypeOK` |
| `LokiSenderProofs!PushCap` | `Spec => []PushesBounded` |
| `LokiSenderProofs!Stranded` | `Spec => []OnlyLateEntriesStranded` |
| `LokiSenderProofs!ShutdownStops` | `Spec => []NilMeansQuiescent` |
| `LokiSenderProofs!ShutdownSettles` | `Spec => []NilMeansSettled` |
| `LokiSenderProofs!ShutdownLasts` | `Spec => ShutdownIsFinal` |
| `LokiDeliveryProofs!NothingLost` | `Spec => []Ledger` |
| `LokiDeliveryProofs!KeepsOrder` | `Spec => []Fifo` |
| `LokiDeliveryProofs!BatchesSmall` | `Spec => []BatchBounded` |
| `LokiDeliveryProofs!CopiesBounded` | `Spec => []DeliveryCount` |
| `LokiDeliveryProofs!DecidedOnce` | `Spec => SettledStays` |
| `LokiDeliveryProofs!StepImplements` | `IInv /\ DInv /\ [Next]_vars /\ Alive' => [Exporter!Next]_(Exporter!vars)` |
| `LokiDeliveryProofs!ImplementsUntilPanic` | `Spec /\ []Alive => ImplementsExporter` |
| `LokiDeliveryProofs!ImplementsOnce` | with at most one caller of Shutdown, `Spec => ImplementsExporter` |

`IInv`: `wg` is the number of goroutines that have not returned (`WgCounts`) and
`pushSem` of those that hold a slot (`SemCounts`), so that `wg = 0` means that
everything has returned; a push goroutine has attempts left (`AttemptsLeft`); a
pending entry is in the channel, in the batch or in a load (`PendingInHand`);
queued entries have been logged (`Numbered`); `run` leaves only after quit is
closed and with an empty batch (`QuitFirst`); a caller that got nil came after all
that (`NilAfterAll`). From the last part `ShutdownIsFinal` follows too: after a nil
nothing is posted, no goroutine comes back, and what is pending, or logged later and
queued, stays pending for good, in the channel and not counted as dropped. `Frame`,
`TakeStep`, `FlushStep` and `FlushAllStep` hold what several actions share.

`DInv`, which stands on `IInv`: entries wait in the order they were logged, are
undecided, not yet with Loki and younger than all that push goroutines have
(`Waiting`); a load is in order, shares no entry with another, is stored at most as
often as attempts have failed, and exceeds `MaxBatch` only after quit is closed
(`Loaded`); run's batch stays below `MaxBatch` (`SmallBatch`); the entries above
`logged` are the new ones (`NewAbove`); `dropped` counts the overflowed.

A second `close(quit)` panics, and the contract has no step for that. So the
refinement is stated with `[]Alive`, which a behaviour satisfies exactly as long as
nobody calls Shutdown twice, and once more without it for one caller.

### The logging pipeline

| Theorem | Statement |
|---|---|
| `LogPipelineProofs!TypeCorrect` | `Spec => []TypeOK` |
| `LogPipelineProofs!TeeAgrees` | `Spec => []SameOnBothSides` |
| `LogPipelineProofs!TraceArrives` | `Spec => []TraceKept` |
| `LogPipelineProofs!AnyPushPartitions` | for any batch: each entry once, in the stream of its level, in order |
| `LogPipelineProofs!PushPartitions` | `Spec => []StreamsPartition` |

`SameOnBothSides` is inductive once types are known and records written have an
identifier of at most `logged`. For `TraceKept` each record of a call with a span
begins with its trace (`Traced`) and each entry is what `Attrs` makes of its
record (`EntrySet`); `LastStays` and `TraceStays` are about the map.

The streams need no invariant, only the loop of `push`. After n entries the values
of a level are the attributes of the entries of that level among them, each at its
`Rank` (`Sorted`); one more entry lengthens the values of its own level by one and
leaves the others (`SortedStep`, from `RankGrows`), so it holds of the whole batch
(`ByLevelSorted`).

### The Provider

| Theorem | Statement |
|---|---|
| `ProviderProofs!TypeCorrect` | `Spec => []TypeOK` |
| `ProviderProofs!EmptiesOwn` | `Spec => []ShutdownEmptiesOwn` |
| `ProviderProofs!NothingOutlives` | `Spec => []NothingRunsAfterwards` |
| `ProviderProofs!TakenDownInReverse` | `Spec => []ReverseOrder` |
| `ProviderProofs!StepImplements` | `IInv /\ [Next]_vars => [Pipelines!Next]_(Pipelines!vars)` |
| `ProviderProofs!KeepsPipelines` | `Spec => ImplementsPipelines` |
| `ProviderProofs!FlushesIfRegistered` | `Spec /\ []OwnTracer => []ForceFlushFlushes` |
| `ProviderProofs!FlushesAlone` | with one Provider, `Spec => []ForceFlushFlushes` |

The invariant says of each Provider that `shutdownFns` is as long as New has come
(`Listed`); that the signals up to its `Level` are open, those above have been shut,
or in the case of spans left open with an error, and the rest never started
(`Ladder`); that telemetry is left in a shut pipeline, and drained behind Shutdown's
back, only together with an error (`Kept`); and which pipeline each resource belongs
to (`Runs`). Only the Provider that moves has to be looked at (`Assemble`): of
another one a step can at most empty a pipeline (`Elsewhere`), which is what
ForceFlush through the globals does.

`provider_flush` shows that ForceFlush can break its promise. The last two theorems
say what is needed to keep it: that ForceFlush finds the Provider's own tracer
provider in the globals (`OwnTracer`), which it always does if there is no other
Provider.

### Sampling

| Theorem | Statement |
|---|---|
| `SamplingProofs!ServicesAgree` | `Spec => []Agreement` |
| `SamplingProofs!ErrorsReachExporter` | `Spec => []ErrorsAtStartExported` |
| `SamplingProofs!TypeCorrect` | `Spec => []TypeOK` |
| `SamplingProofs!ConfigObeyed` | `Spec => []AsAsked` |
| `SamplingProofs!RatioObeyed` | `Spec => []RatioAsAsked`, the part of `AsAsked` about the sampler |
| `SamplingProofs!NamesTakenInOrder` | `KnownExporters` takes from any list of names what `AsAsked` calls `Lists` |
| `SamplingProofs!ExportsExplained` | `Spec => []ExportedExactly` |

A service that runs has the Config and the sampler of its setting (`Booted`), and
every span carries its sampler's decision and what follows from it (`Decided`).
One lemma for each variable of the environment shows which fields of the Config it
can change and how; `EnvStep` puts them together, and `RunningConfig` and
`RunningSampler` say what a running service has in the end. The loops: after n pairs
of attributes each name has the value of the last pair that carries it, or else the
one it had (`Layered`); after n names of exporters each known one is at its `Rank`
(`Listed`).

`ExportedExactly` says in terms of environment and Config alone which spans are
exported: at an exporting service those that have ended and started as an error
with AlwaysSampleErrors on, or whose trace is below the ratio asked for, and all of
them if that ratio is 0. So the violations of `sampling_off` and `sampling_errors` are
no accident of their instances: `always_off` exports everything wherever it is what
counts, and an error recorded after the start never makes a difference.

### The stream's span

| Theorem | Statement |
|---|---|
| `GrpcClientStreamProofs!TypeCorrect` | `Spec => []TypeOK` |
| `GrpcClientStreamProofs!SpanEndsOnce` | `Spec => []EndsOnce` |
| `GrpcClientStreamProofs!FailuresMarked` | `Spec => []FailureIsMarked` |
| `GrpcClientStreamProofs!UnmarkedOk` | `Spec => []UnmarkedMeansOk` |
| `GrpcClientStreamProofs!EndsOnlyForErrors` | `Spec => []EndsForErrors` |
| `GrpcClientStreamProofs!ManyResponsesEnd` | `Spec /\ kind = "many" => []SpanEndsWithTheStream` |

The steps in between matter: `endOnce` has fired exactly if the span has ended
(`Opened`), a wrapper is past the call only when the RPC is over
(`OverBeforeEnd`), and one about to end the span has marked it unless it is the
receiver with `io.EOF` or the other was first (`MarkedBeforeEnd`). `FailuresMarked`
allows one loss and no other: an error of `SendMsg`'s own after `RecvMsg` has met the
end of an RPC that was OK.

`stream_leak` shows a span that never ends. `EndsForErrors` says which do: between the
calls the span has ended exactly if one of them has returned an error, io.EOF
included (`ErrorFirst`). With many responses the application is told of the end by
nothing else, so `SpanEndsWithTheStream` holds there.

### Requests

| Theorem | Statement |
|---|---|
| `MiddlewareProofs!TypeCorrect` | `Spec => []TypeOK` |
| `MiddlewareProofs!SpansEnd` | `Spec => []SpanEndsWithRequest` |
| `MiddlewareProofs!MetricsTogether` | `Spec => []MetricsAgree` |
| `MiddlewareProofs!StoriesAgree` | `Spec => []OneStory` |
| `MiddlewareProofs!BothEndsAgree` | `Spec => []EndsAgree` |
| `MiddlewareProofs!SpansFormTrees` | `Spec => []TraceTree` |
| `MiddlewareProofs!BaggageKept` | `Spec => []BaggageArrives` |
| `MiddlewareProofs!TracesAreTrees` | `Spec => []OneTreePerTrace` |

The invariant has two halves. `TreeInv` is about contexts: a request's context
holds its own span (`OwnSpan`), a client has sent its own trace, span and baggage
(`Injected`), and the application's headers stay as they were (`OwnHeaders`).
`StoryInv` is about outcomes: the span is marked by the status once the inner call
has returned (`Judged`), histogram and log hold that status or nothing (`Told`),
`responseWriter` remembers what was sent if the handler is tidy (`Written`), and a
client keeps the status it was answered with (`Kept`).

`TraceTree` is about a span and its parent, `OneTreePerTrace` about the whole of a
trace: no span is its own ancestor, from each span the calls lead up to a root in the
same trace, and a trace that was not begun far away has one root. The depth of a
request is one more than its caller's, so there is no cycle (`Acyclic`), and a request
without a root that is least deep would have a caller without one, less deep still
(`RootsReached`). Two roots of one trace would share the identifier one of them has
made up (`Sourced`).

### Assumptions

They are the ones named in the modules, and TLC evaluates them in every run. Most
only say that a bound is a number or a capacity positive. Two of `Middleware` keep
values apart that the code keeps apart by their types or lengths:
`RequestAssumption`, that the name of a request (it stands for the identifiers its
span gets) is none of the labels, and `OutsideAssumption`, that headers from
services that are not instrumented hold a span exactly if they hold a trace, for
the propagator accepts `traceparent` only as a whole. `TextAssumption` says that
"service.name" is a text and that the empty string, which stands for what is not set,
is not. The two theorems about ForceFlush have a hypothesis of their own, that `None`,
which stands for nobody in the globals, is not a Provider. `PusherAssumption` makes the
number of push goroutines at a time finite, as memory does.

### Only model-checked

- Liveness (`ShutdownReturns`, `EarlyEntriesSettle`, `RunNeverWaitsForLoki`,
  `SpanEnds`, `PortGivenBack`): the prover does not reason about ENABLED.

## What is not modelled

- Formatting, log messages, time stamps and durations.
- log/slog, net/http, gRPC and the OpenTelemetry SDK beyond what this code sees
  of them.
- Back-off between retries: time is not modelled, an attempt may follow at any
  time.
- The meter wrappers and the runtime gauges: they pass their arguments on and keep
  no state. That making an instrument fails is modelled where it matters, in
  `Middleware`.
- Links, events and attributes of spans other than the error mark; the queries
  `IsSampled`, `IsRecording` and `BaggageMap`; limits on the size of baggage;
  `tracestate`.
- Changes of the environment while a process runs, and so the attributes that
  `ConfigFromEnv` leaves in the map of the Config it is given.
- The groups of a logger in the exported entry, whose keys are flat: attributes of
  different groups with one name replace each other, as those of one group do.
- A second Shutdown of a Provider (the log exporter's panics, see `loki_live`), scrapes
  of the Prometheus endpoint that are under way when the context of `srv.Shutdown`
  ends, and entries logged while the log exporter's function runs, which are the
  sender's matter (`LokiSender`).
- Test doubles and examples.

## Plan

Written in this order: the sender (the only concurrent component, and the one
that can lose data), the contract it implements, its invariant and proofs; then
the Provider, the stream's span, the logging pipeline, sampling and the request
middleware; then propagation through client and server ends of calls, the whole of
`ConfigFromEnv`, and the abstract pipelines; then the proofs: the entries of the
sender and its refinement, the stream's span, the requests, the Provider and its
refinement, sampling, the logging pipeline; last the loops over batches, names and
attributes, and what the invariants mean together for traces, exports and the time
after a Shutdown. Left: consequences across modules. The Provider's Shutdown ends
with the exporter's, whose nil means that early entries are settled, but no module
has both.
