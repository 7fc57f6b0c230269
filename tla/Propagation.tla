----------------------------- MODULE Propagation -----------------------------
(***************************************************************************)
(* Trace context and baggage, from a context.Context to the headers of a   *)
(* request and back (propagation/context.go, and the carriers of           *)
(* middleware/grpc.go and middleware/grpc_client.go).                      *)
(*                                                                         *)
(* A context and a carrier (http.Header or gRPC metadata) hold the same    *)
(* three things: a trace, the span in it, and baggage.  The propagators    *)
(* for TraceContext and Baggage are external: Inject leaves a header alone *)
(* for which the context has no value, and Extract the context for which   *)
(* the carrier has none.                                                   *)
(***************************************************************************)

CONSTANTS
    Key,        \* valid baggage keys
    Raw,        \* what applications pass as baggage values
    Value,      \* baggage values
    Decode      \* raw values that are valid, and the values they stand for

ASSUME DecodeAssumption == DOMAIN Decode \subseteq Raw /\ Decode \in [DOMAIN Decode -> Value]

NoTrace == "no trace"
NoSpan  == "no span"

Baggage == UNION {[K -> Value] : K \in SUBSET Key}
NoBaggage == [k \in {} |-> {}]

(* context.Background(), and the headers of a request that carries nothing. *)
Background == [trace |-> NoTrace, span |-> NoSpan, bag |-> NoBaggage]

TraceID(ctx) == ctx.trace
SpanID(ctx)  == ctx.span

Over(top, bottom) ==
    [ trace |-> IF top.trace # NoTrace THEN top.trace ELSE bottom.trace,
      span  |-> IF top.trace # NoTrace THEN top.span ELSE bottom.span,
      bag   |-> IF top.bag # NoBaggage THEN top.bag ELSE bottom.bag ]

InjectHeaders(ctx, h) == Over(ctx, h)

ExtractHeaders(ctx, h) == Over(h, ctx)

(* Mutant: a value that is not valid takes the other members along. *)
SetBaggageForgetful(ctx, key, raw) ==
    IF raw \in DOMAIN Decode
      THEN [ctx EXCEPT !.bag = [k \in DOMAIN @ \cup {key} |-> IF k = key THEN Decode[raw] ELSE @[k]]]
      ELSE [ctx EXCEPT !.bag = NoBaggage]

(* The context as it was, if the value is not valid. *)
SetBaggage(ctx, key, raw) ==
    IF raw \in DOMAIN Decode
      THEN [ctx EXCEPT !.bag = [k \in DOMAIN @ \cup {key} |-> IF k = key THEN Decode[raw] ELSE @[k]]]
      ELSE ctx

GetBaggage(ctx, key) == IF key \in DOMAIN ctx.bag THEN {ctx.bag[key]} ELSE {}
=============================================================================
