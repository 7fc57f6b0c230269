----------------------------- MODULE Middleware -----------------------------
(***************************************************************************)
(* Instrumented calls between services: the HTTP transport                 *)
(* (middleware/http_client.go) and the HTTP middleware with its            *)
(* responseWriter (middleware/http.go), the unary client interceptor       *)
(* (middleware/grpc_client.go) and the server interceptors for unary calls *)
(* and for streams (middleware/grpc.go).  Both ends of a call start a span,*)
(* carry trace and baggage over (Propagation), measure, and end the span.  *)
(* The stream client interceptor is GrpcClientStream.                      *)
(*                                                                         *)
(* A request is one passage through a wrapper, at the client's or at the   *)
(* server's end.  The application calls from outside any request or from a *)
(* handler, whose headers it forwards.  Between the two ends a message may *)
(* be lost, delayed past the client's patience, or delivered twice (net/   *)
(* http repeats a request whose connection broke).  Services that are not  *)
(* instrumented may be at the other end: "outside".                        *)
(***************************************************************************)
EXTENDS Propagation, Integers, FiniteSets

CONSTANTS
    Request,
    Setups,         \* the configurations: protocol, Meter and Logger
    OutsideHeaders, \* what services that are not instrumented send
    MaxHeaders,     \* bound: calls of WriteHeader
    MaxSets,        \* bound: calls of SetBaggage in handlers
    MaxPanics       \* bound: panics of handlers

(* A Meter is absent, fails to make a histogram or a counter, or works. *)
ASSUME SetupsAssumption ==
    Setups \subseteq [ proto : {"http", "unary", "stream"}, logs : BOOLEAN,
                       meter : {"absent", "histFails", "counterFails", "works"} ]

ASSUME BoundsAssumption == MaxHeaders \in Nat /\ MaxSets \in Nat /\ MaxPanics \in Nat

(* A request has a name that stands for nothing else. *)
ASSUME RequestAssumption ==
    Request \cap {"none", "app", "outside", "far", NoTrace, NoSpan} = {}

(* Headers name a span together with its trace, or neither. *)
ASSUME OutsideAssumption ==
    \A h \in OutsideHeaders :
        /\ h \in [trace : {NoTrace, "far"}, span : {NoSpan, "far"}, bag : Baggage]
        /\ h.trace = NoTrace <=> h.span = NoSpan

(* "early" is an HTTP status below 200, "refused" one of 400 or more and
   "error" one of 500 or more; a gRPC status is "ok" or one of the others. *)
Final  == {"ok", "refused", "error"}
Status == {"early"} \cup Final

Role == {"client", "server"}

VARIABLES
    setup,      \* the configuration of both ends
    pc,         \* where each request is in its wrapper
    role,       \* the end it is at
    from,       \* client: the handler that calls or "app"; server: the call served or "outside"
    ctx,        \* the context with the wrapper's span
    parent,     \* the span in the context the wrapper's span was started with
    headers,    \* of a server's request what arrived, of "app" its own; forwarded with calls
    wire,       \* client: what was sent
    status,     \* rw.statusCode, resp.StatusCode or code
    sent,       \* server: the status the client is sent, "none" before
    tidy,       \* history: WriteHeader was called once, with a final status, or never
    answer,     \* client: the server's request whose answer it got, or "none"
    span,       \* the wrapper's span: "none", "live" or "ended"
    marked,     \* it has the error status
    measured,   \* the status under which the histogram holds the request
    counted,    \* the status under which the counter holds it
    logged,     \* the status the log line names
    calls,      \* calls of WriteHeader
    sets        \* calls of SetBaggage in handlers

enterVars == <<setup, role, from, parent, headers, wire>>
serveVars == <<sent, calls, tidy>>
storyVars == <<measured, counted, logged>>
vars == <<pc, enterVars, ctx, status, serveVars, answer, span, marked, storyVars, sets>>

proto == setup.proto

(* Mutant: statusCode is left at its zero value. *)
newResponseWriterZero == "none"

(* The status of a handler that never calls WriteHeader; gRPC starts from OK. *)
newResponseWriter == "ok"

Init ==
    /\ setup \in Setups
    /\ pc = [r \in Request |-> "idle"]
    /\ role = [r \in Request |-> "none"]
    /\ from = [r \in Request |-> "none"]
    /\ ctx = [r \in Request |-> Background]
    /\ parent = [r \in Request |-> NoSpan]
    /\ headers = [o \in Request \cup {"app"} |-> Background]
    /\ wire = [r \in Request |-> Background]
    /\ status = [r \in Request |-> newResponseWriter]
    /\ sent = [r \in Request |-> "none"]
    /\ tidy = [r \in Request |-> TRUE]
    /\ answer = [r \in Request |-> "none"]
    /\ span = [r \in Request |-> "none"]
    /\ marked = [r \in Request |-> FALSE]
    /\ measured = [r \in Request |-> "none"]
    /\ counted = [r \in Request |-> "none"]
    /\ logged = [r \in Request |-> "none"]
    /\ calls = 0
    /\ sets = 0

Goto(r, label) == pc' = [pc EXCEPT ![r] = label]

At(r, label) == pc[r] = label

-----------------------------------------------------------------------------
(* The instruments a wrapper is made with. *)

(* Mutant: the histogram stays although the counter could not be made. *)
BothInstrumentsHalf(m) == [hist |-> m \in {"counterFails", "works"}, counter |-> m = "works"]

BothInstruments(m) == [hist |-> m = "works", counter |-> m = "works"]

HTTP(m) == BothInstruments(m)
UnaryServerInterceptor(m) == BothInstruments(m)
StreamServerInterceptor(m) == BothInstruments(m)
UnaryClientInterceptor(m) == BothInstruments(m)
HTTPClientTransport(m) == [hist |-> m \in {"counterFails", "works"}, counter |-> FALSE]

Instruments(r) ==
    CASE role[r] = "client" /\ proto = "http"   -> HTTPClientTransport(setup.meter)
      [] role[r] = "client" /\ proto = "unary"  -> UnaryClientInterceptor(setup.meter)
      [] role[r] = "server" /\ proto = "http"   -> HTTP(setup.meter)
      [] role[r] = "server" /\ proto = "unary"  -> UnaryServerInterceptor(setup.meter)
      [] role[r] = "server" /\ proto = "stream" -> StreamServerInterceptor(setup.meter)

-----------------------------------------------------------------------------
(* A request enters its wrapper. *)

(* Tracer.Start: a child of the span in ctx, or the root of a new trace. *)
NewSpan(c, r) == [c EXCEPT !.span = r, !.trace = IF @ = NoTrace THEN r ELSE @]

Start(r, c) ==
    /\ parent' = [parent EXCEPT ![r] = SpanID(c)]
    /\ ctx' = [ctx EXCEPT ![r] = NewSpan(c, r)]
    /\ span' = [span EXCEPT ![r] = "live"]

Begins(r, end, who) ==
    /\ At(r, "idle")
    /\ role' = [role EXCEPT ![r] = end]
    /\ from' = [from EXCEPT ![r] = who]
    /\ Goto(r, "inside")
    /\ UNCHANGED <<setup, status, serveVars, answer, marked, storyVars, sets>>

(* Mutant: the headers are injected where the caller keeps them. *)
SendInPlace(r, owner) ==
    /\ wire' = [wire EXCEPT ![r] = InjectHeaders(ctx'[r], headers[owner])]
    /\ headers' = [headers EXCEPT ![owner] = wire'[r]]

(* Mutant: the context the call was made with is injected. *)
SendUnstarted(r, owner) ==
    /\ wire' = [wire EXCEPT ![r] =
                  InjectHeaders([ctx'[r] EXCEPT !.span = parent'[r]], headers[owner])]
    /\ UNCHANGED headers

(* The trace context goes into a copy of the caller's headers or metadata. *)
Send(r, owner) ==
    /\ wire' = [wire EXCEPT ![r] = InjectHeaders(ctx'[r], headers[owner])]
    /\ UNCHANGED headers

(* A call of the application, with baggage or without, or of a handler. *)
AppContexts == {SetBaggage(Background, k, raw) : k \in Key, raw \in Raw}

Call(r) ==
    /\ proto # "stream"
    /\ \E owner \in {"app"} \cup {s \in Request : role[s] = "server" /\ At(s, "inside")} :
          /\ \E c \in IF owner = "app" THEN AppContexts ELSE {ctx[owner]} : Start(r, c)
          /\ Send(r, owner)
          /\ Begins(r, "client", owner)

(* Mutant: the trace context that arrives is not looked at. *)
ServeUnextracted(r, who, h) ==
    /\ Start(r, Background)
    /\ headers' = [headers EXCEPT ![r] = h]
    /\ Begins(r, "server", who)
    /\ UNCHANGED wire

Serve(r, who, h) ==
    /\ Start(r, ExtractHeaders(Background, h))
    /\ headers' = [headers EXCEPT ![r] = h]
    /\ Begins(r, "server", who)
    /\ UNCHANGED wire

Arrive(r) ==
    \/ \E c \in Request : role[c] = "client" /\ Serve(r, c, wire[c])
    \/ \E h \in OutsideHeaders : Serve(r, "outside", h)

-----------------------------------------------------------------------------
(* The handler runs; net/http sends the first final status and ignores later
   ones. *)

Inside(r, end) == At(r, "inside") /\ role[r] = end

Handling(r) == Inside(r, "server") /\ UNCHANGED <<enterVars, answer, span, storyVars>>

(* propagation.SetBaggage in a handler, which goes on with the new context. *)
HandlerSetsBaggage(r, key, raw) ==
    /\ Handling(r)
    /\ sets < MaxSets
    /\ sets' = sets + 1
    /\ ctx' = [ctx EXCEPT ![r] = SetBaggage(@, key, raw)]
    /\ UNCHANGED <<pc, status, serveVars, marked>>

Sends(r, code) == sent' = [sent EXCEPT ![r] = IF @ = "none" /\ code \in Final THEN code ELSE @]

Header(r, code) ==
    /\ Handling(r) /\ proto = "http"
    /\ calls < MaxHeaders
    /\ calls' = calls + 1
    /\ tidy' = [tidy EXCEPT ![r] = @ /\ sent[r] = "none" /\ code \in Final]
    /\ Sends(r, code)
    /\ UNCHANGED <<pc, ctx, marked, sets>>

(* Mutant: the code is passed on and not kept. *)
WriteHeaderPassedOn(r, code) == Header(r, code) /\ UNCHANGED status

(* responseWriter.WriteHeader: the last code is kept, the first final one is
   sent. *)
WriteHeader(r, code) == Header(r, code) /\ status' = [status EXCEPT ![r] = code]

(* responseWriter.Write, which makes net/http send 200 if nothing was sent. *)
Write(r) ==
    /\ Handling(r) /\ proto = "http"
    /\ Sends(r, "ok")
    /\ UNCHANGED <<pc, ctx, status, calls, tidy, marked, sets>>

(* Mutant: every status of 400 or more is an error. *)
MarksRefusals(code) == code \in {"refused", "error"}

(* Only 5xx marks a span in HTTP, every status but OK in gRPC. *)
Marks(code) == IF proto = "http" THEN code = "error" ELSE code # "ok"

(* The handler returns: in HTTP net/http sends 200 if nothing was sent, in
   gRPC with the status that is sent when the interceptor has returned. *)
HandlerReturns(r, code) ==
    /\ Handling(r)
    /\ IF proto = "http" THEN code = status[r] ELSE code \in Final
    /\ status' = [status EXCEPT ![r] = code]
    /\ Sends(r, IF proto = "http" THEN "ok" ELSE code)
    /\ marked' = [marked EXCEPT ![r] = Marks(code)]
    /\ Goto(r, "report")
    /\ UNCHANGED <<ctx, calls, tidy, sets>>

(* A panic goes through the wrapper, which runs the deferred End only. *)
Panics(r) ==
    /\ Handling(r)
    /\ Cardinality({p \in Request : pc[p] \in {"panicking", "panicked"}}) < MaxPanics
    /\ Goto(r, "panicking")
    /\ UNCHANGED <<ctx, status, serveVars, marked, sets>>

-----------------------------------------------------------------------------
(* The transport or the invoker returns to the client's wrapper. *)

Calling(r) ==
    Inside(r, "client") /\ UNCHANGED <<enterVars, ctx, serveVars, span, storyVars, sets>>

Returns(r, code, who, label) ==
    /\ Calling(r)
    /\ status' = [status EXCEPT ![r] = code]
    /\ answer' = [answer EXCEPT ![r] = who]
    /\ marked' = [marked EXCEPT ![r] = Marks(code)]
    /\ Goto(r, label)

Answered(s) == IF proto = "http" THEN sent[s] # "none" ELSE At(s, "done")

(* With the answer of an instrumented server, as soon as it is sent, or of
   another one. *)
CallReturns(r) ==
    \/ \E s \in Request : role[s] = "server" /\ from[s] = r /\ Answered(s) /\ Returns(r, sent[s], s, "report")
    \/ \E code \in Final : Returns(r, code, "none", "report")

(* Without one, whatever the server does: RoundTrip returns at once, the
   interceptor goes on with the status the error stands for. *)
CallFails(r) == Returns(r, "error", "none", IF proto = "http" THEN "unmeasured" ELSE "report")

-----------------------------------------------------------------------------
(* The rest of the wrapper. *)

Leaving(r) == UNCHANGED <<enterVars, ctx, status, serveVars, answer, marked, sets>>

RecordAndAdd(r) ==
    /\ measured' = [measured EXCEPT ![r] = IF Instruments(r).hist THEN status[r] ELSE @]
    /\ counted' = [counted EXCEPT ![r] = IF Instruments(r).counter THEN status[r] ELSE @]

(* Only the middleware of an HTTP server takes a Logger. *)
Logs(r) == setup.logs /\ proto = "http" /\ role[r] = "server"

(* Mutant: the log line is only written for a request that went wrong. *)
ReportUnlogged(r) ==
    /\ At(r, "report") /\ Leaving(r)
    /\ RecordAndAdd(r)
    /\ logged' = [logged EXCEPT ![r] = IF Logs(r) /\ marked[r] THEN status[r] ELSE @]
    /\ Goto(r, "end")
    /\ UNCHANGED span

(* Histogram.Record, Counter.Add and Logger.Info. *)
Report(r) ==
    /\ At(r, "report") /\ Leaving(r)
    /\ RecordAndAdd(r)
    /\ logged' = [logged EXCEPT ![r] = IF Logs(r) THEN status[r] ELSE @]
    /\ Goto(r, "end")
    /\ UNCHANGED span

(* Where the wrapper is left, by what brought it to its deferred End. *)
Exit ==
    [ label \in {"end", "unmeasured", "panicking"} |->
        CASE label = "end" -> "done"
          [] label = "unmeasured" -> "failed"
          [] label = "panicking" -> "panicked" ]

(* Mutant: without defer, a panic skips span.End. *)
EndUnlessPanicking(r) ==
    /\ pc[r] \in DOMAIN Exit /\ Leaving(r)
    /\ span' = [span EXCEPT ![r] = IF At(r, "panicking") THEN @ ELSE "ended"]
    /\ Goto(r, Exit[pc[r]])
    /\ UNCHANGED storyVars

End(r) ==
    /\ pc[r] \in DOMAIN Exit /\ Leaving(r)
    /\ span' = [span EXCEPT ![r] = "ended"]
    /\ Goto(r, Exit[pc[r]])
    /\ UNCHANGED storyVars

Left == {Exit[label] : label \in DOMAIN Exit}

Next ==
    \/ \E r \in Request :
          \/ Call(r) \/ Arrive(r)
          \/ \E key \in Key, raw \in Raw : HandlerSetsBaggage(r, key, raw)
          \/ \E code \in Status : WriteHeader(r, code) \/ HandlerReturns(r, code)
          \/ Write(r) \/ Panics(r) \/ CallReturns(r) \/ CallFails(r)
          \/ Report(r) \/ End(r)
    \/ (\A r \in Request : pc[r] \in Left) /\ UNCHANGED vars

Spec == Init /\ [][Next]_vars

-----------------------------------------------------------------------------
Contexts == [ trace : {NoTrace, "far"} \cup Request, span : {NoSpan, "far"} \cup Request,
              bag : Baggage ]

(* A wrapper has its span from the moment it starts one, until then none. *)
HasSpan == \A r \in Request : pc[r] = "idle" <=> span[r] = "none"

(* The variables keep their types, and a request has a span exactly from when
   it enters its wrapper (SpanEndsWithRequest says when the span is ended). *)
TypeOK ==
    /\ setup \in Setups
    /\ pc \in [Request -> {"idle", "inside", "report"} \cup DOMAIN Exit \cup Left]
    /\ role \in [Request -> Role \cup {"none"}]
    /\ from \in [Request -> Request \cup {"none", "app", "outside"}]
    /\ ctx \in [Request -> Contexts] /\ wire \in [Request -> Contexts]
    /\ headers \in [Request \cup {"app"} -> Contexts]
    /\ parent \in [Request -> {NoSpan, "far"} \cup Request]
    /\ status \in [Request -> Status]
    /\ sent \in [Request -> Final \cup {"none"}]
    /\ tidy \in [Request -> BOOLEAN] /\ marked \in [Request -> BOOLEAN]
    /\ answer \in [Request -> Request \cup {"none"}]
    /\ span \in [Request -> {"none", "live", "ended"}]
    /\ {measured, counted, logged} \subseteq [Request -> Status \cup {"none"}]
    /\ calls \in 0..MaxHeaders /\ sets \in 0..MaxSets
    /\ HasSpan

Clients == {r \in Request : role[r] = "client"}
Servers == {r \in Request : role[r] = "server"}

(* However a request leaves its wrapper - with an answer, a transport error
   (the early return of RoundTrip) or a panic of the handler - its span is
   ended, and not before. *)
SpanEndsWithRequest ==
    \A r \in Request : pc[r] \in Left <=> span[r] = "ended"

(* A wrapper with both instruments counts what it measures, under the same
   status, whatever instrument could not be made; only HTTP's transport has
   no counter. *)
MetricsAgree ==
    \A r \in Request \ (IF proto = "http" THEN Clients ELSE {}) : counted[r] = measured[r]

(* Span, histogram and log line tell one story of a request that is over: the
   span has the error status exactly if the status measured and logged is a 5xx
   in HTTP ("marks 5xx as errors", middleware/http.go:56) or another than OK in
   gRPC; a request whose wrapper has a Meter that works is measured, and one
   whose wrapper has a Logger is logged, unless a panic or a transport error
   ended it, and then it is neither. *)
OneStory ==
    \A r \in Request :
        /\ \A s \in {measured[r], logged[r]} \ {"none"} :
              marked[r] <=> s = "error" \/ (proto # "http" /\ s = "refused")
        /\ pc[r] = "done" /\ setup.meter = "works" => measured[r] # "none"
        /\ pc[r] = "done" /\ Logs(r) => logged[r] # "none"
        /\ pc[r] \in {"failed", "panicked"} => measured[r] = "none" /\ logged[r] = "none"

(* A client that got a server's answer and the server that gave it, once both
   have returned, agree on the status and on whether their spans are errors,
   unless the handler wrote its status more than once, late, or not a final
   one (then responseWriter keeps what it wrote last, not what was sent). *)
EndsAgree ==
    \A c \in Clients, s \in Servers :
        answer[c] = s /\ pc[s] = "done" /\ tidy[s]
            => status[c] = status[s] /\ marked[c] = marked[s]

(* Spans form the trees the calls form: a server's span is the child of the
   span of the call it serves, that call's span the child of the span of the
   handler it was made in, in one trace - although headers are forwarded,
   shared between calls and delivered more than once. *)
TraceTree ==
    /\ \A r \in Request, up \in Request :
          from[r] = up => parent[r] = up /\ TraceID(ctx[r]) = TraceID(ctx[up])
    /\ \A r \in Request :
          from[r] = "app" => parent[r] = NoSpan /\ TraceID(ctx[r]) = r
    /\ \A r \in Request :
          from[r] = "outside" => parent[r] = headers[r].span

(* A call is sent with the baggage of the context it is made with and with no
   other call's, although calls share the application's headers; it reaches
   the handler, and neither SetBaggage with a value that is not valid nor a
   delivery after the client gave up takes any of it away. *)
BaggageArrives ==
    /\ \A c \in Clients : wire[c].bag = ctx[c].bag
    /\ \A s \in Servers : \A k \in DOMAIN headers[s].bag :
          GetBaggage(ctx[s], k) # {}
    /\ \A s \in Servers, c \in Clients :
          from[s] = c => headers[s].bag = ctx[c].bag
=============================================================================
