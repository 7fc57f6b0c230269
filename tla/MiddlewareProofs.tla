--------------------------- MODULE MiddlewareProofs ---------------------------
(***************************************************************************)
(* Proofs, for every set of requests, every configuration and whatever     *)
(* services outside send, of the type invariant of Middleware, of the tree *)
(* the spans form, of the way of the baggage, and of what span, metrics,   *)
(* log line and status tell of a request.                                  *)
(***************************************************************************)
EXTENDS Middleware, Induction, TLAPS

(* A request has a role and a caller from when it enters its wrapper. *)
Begun ==
    \A r \in Request :
        /\ pc[r] = "idle" <=> role[r] = "none"
        /\ pc[r] = "idle" => from[r] = "none"
        /\ \A up \in Request : from[r] = up => role[up] # "none"

(* The wrapper's context carries the wrapper's span, in some trace. *)
OwnSpan ==
    \A r \in Request :
        role[r] # "none" => SpanID(ctx[r]) = r /\ TraceID(ctx[r]) # NoTrace

(* A client has sent its own trace, span and baggage. *)
Injected ==
    \A r \in Request :
        role[r] = "client" =>
            /\ TraceID(wire[r]) = TraceID(ctx[r])
            /\ SpanID(wire[r]) = r
            /\ wire[r].bag = ctx[r].bag

(* Sending leaves the application's headers as they were. *)
OwnHeaders == headers["app"] = Background

TreeTyped ==
    /\ role \in [Request -> Role \cup {"none"}]
    /\ from \in [Request -> Request \cup {"none", "app", "outside"}]
    /\ ctx \in [Request -> Contexts] /\ wire \in [Request -> Contexts]
    /\ headers \in [Request \cup {"app"} -> Contexts]
    /\ parent \in [Request -> {NoSpan, "far"} \cup Request]

TreeInv ==
    /\ TreeTyped
    /\ OwnSpan
    /\ Injected
    /\ OwnHeaders
    /\ TraceTree
    /\ BaggageArrives

-----------------------------------------------------------------------------
Before == {"idle", "inside"}
Judging == {"report", "unmeasured", "end", "done", "failed"}
Answering == {"report", "end", "done"}
Telling == {"end", "done"}

(* When the inner call has returned, the span is marked by the status. *)
Judged ==
    \A r \in Request : pc[r] \in Judging =>
        /\ marked[r] <=> Marks(status[r])
        /\ proto # "http" => status[r] \in Final

(* Histogram and log hold nothing before they are written to, and then the
   status the wrapper holds. *)
Told ==
    \A r \in Request :
        /\ pc[r] \notin Telling => measured[r] = "none" /\ logged[r] = "none"
        /\ {measured[r], logged[r]} \subseteq {status[r], "none"}
        /\ pc[r] \in Telling /\ setup.meter = "works" => measured[r] # "none"
        /\ pc[r] \in Telling /\ Logs(r) => logged[r] # "none"

(* What a handler has had sent, and what responseWriter remembers of it. *)
Written ==
    \A s \in Request :
        /\ pc[s] = "idle" => sent[s] = "none" /\ status[s] = newResponseWriter
        /\ pc[s] = "inside" /\ proto # "http" => sent[s] = "none"
        /\ pc[s] = "inside" /\ tidy[s] =>
              sent[s] = status[s] \/ (sent[s] = "none" /\ status[s] = newResponseWriter)
        /\ role[s] = "server" /\ pc[s] \in Answering =>
              sent[s] # "none" /\ (tidy[s] => sent[s] = status[s])

(* A client keeps the status it was answered with. *)
Kept ==
    \A c, s \in Request : answer[c] = s =>
        /\ role[c] = "client" /\ pc[c] \in Judging
        /\ role[s] = "server" /\ sent[s] # "none"
        /\ status[c] = sent[s]

(* Streams have an interceptor of their own at the client's end. *)
NoStreamClient == proto = "stream" => Clients = {}

StoryTyped ==
    /\ setup \in Setups
    /\ pc \in [Request -> {"idle", "inside", "report"} \cup DOMAIN Exit \cup Left]
    /\ status \in [Request -> Status]
    /\ sent \in [Request -> Final \cup {"none"}]
    /\ tidy \in [Request -> BOOLEAN] /\ marked \in [Request -> BOOLEAN]
    /\ answer \in [Request -> Request \cup {"none"}]
    /\ span \in [Request -> {"none", "live", "ended"}]
    /\ {measured, counted, logged} \subseteq [Request -> Status \cup {"none"}]
    /\ calls \in 0..MaxHeaders /\ sets \in 0..MaxSets

StoryInv ==
    /\ StoryTyped
    /\ Judged
    /\ Told
    /\ Written
    /\ Kept
    /\ NoStreamClient
    /\ MetricsAgree
    /\ SpanEndsWithRequest
    /\ HasSpan

IInv == Begun /\ TreeInv /\ StoryInv

-----------------------------------------------------------------------------
(* Contexts. *)

(* Where a wrapper is left. *)
LEMMA Exits ==
    /\ DOMAIN Exit = {"end", "unmeasured", "panicking"}
    /\ Exit["end"] = "done" /\ Exit["unmeasured"] = "failed" /\ Exit["panicking"] = "panicked"
    /\ Left = {"done", "failed", "panicked"}
<1>1. DOMAIN Exit = {"end", "unmeasured", "panicking"}
  BY DEF Exit
<1>2. Exit["end"] = "done" /\ Exit["unmeasured"] = "failed" /\ Exit["panicking"] = "panicked"
  BY DEF Exit
<1>. QED  BY <1>1, <1>2 DEF Left

(* Baggage: finite or not, a function from keys to values. *)
LEMMA BaggageMember ==
    ASSUME NEW bag
    PROVE  bag \in Baggage <=> DOMAIN bag \subseteq Key /\ bag \in [DOMAIN bag -> Value]
  BY DEF Baggage

(* Nothing is carried by Background. *)
LEMMA BackgroundType == Background \in Contexts
<1>1. NoBaggage \in Baggage
  BY DEF NoBaggage, Baggage
<1>. QED  BY <1>1 DEF Background, Contexts

(* No keys, no baggage. *)
LEMMA EmptyBaggage ==
    ASSUME NEW bag \in Baggage, DOMAIN bag = {}
    PROVE  bag = NoBaggage
  BY BaggageMember DEF NoBaggage

(* SetBaggage changes the baggage and loses none of it. *)
LEMMA SetBaggageKeeps ==
    ASSUME NEW c \in Contexts, NEW k \in Key, NEW raw \in Raw
    PROVE  /\ SetBaggage(c, k, raw) \in Contexts
           /\ SetBaggage(c, k, raw).trace = c.trace
           /\ SetBaggage(c, k, raw).span = c.span
           /\ DOMAIN c.bag \subseteq DOMAIN SetBaggage(c, k, raw).bag
<1>1. CASE raw \in DOMAIN Decode
  <2>. DEFINE bag == [j \in DOMAIN c.bag \cup {k} |-> IF j = k THEN Decode[raw] ELSE c.bag[j]]
  <2>1. SetBaggage(c, k, raw) = [c EXCEPT !.bag = bag]
    BY <1>1 DEF SetBaggage
  <2>2. Decode[raw] \in Value /\ c.bag \in Baggage
    BY <1>1, DecodeAssumption DEF Contexts
  <2>3. DOMAIN c.bag \subseteq Key /\ c.bag \in [DOMAIN c.bag -> Value]
    BY <2>2, BaggageMember
  <2>4. bag \in [DOMAIN c.bag \cup {k} -> Value]
    BY <2>2, <2>3
  <2>5. bag \in Baggage
    BY <2>3, <2>4 DEF Baggage
  <2>6. [c EXCEPT !.bag = bag] = [trace |-> c.trace, span |-> c.span, bag |-> bag]
    BY DEF Contexts
  <2>. QED  BY <2>1, <2>4, <2>5, <2>6 DEF Contexts
<1>2. CASE raw \notin DOMAIN Decode
  BY <1>2 DEF SetBaggage
<1>. QED  BY <1>1, <1>2

(* Inject and Extract give a context of the trace and baggage they are given. *)
LEMMA OverType ==
    ASSUME NEW top \in Contexts, NEW bottom \in Contexts
    PROVE  Over(top, bottom) \in Contexts
  BY DEF Over, Contexts

(* Inject gives way to the context, Extract to the headers. *)
LEMMA OverKeeps ==
    ASSUME NEW top \in Contexts, NEW bottom \in Contexts,
           top.bag = NoBaggage => bottom.bag = NoBaggage
    PROVE  /\ Over(top, bottom).bag = top.bag
           /\ top.trace # NoTrace =>
                 Over(top, bottom).trace = top.trace /\ Over(top, bottom).span = top.span
  BY DEF Over

(* Starting a span: it has a trace, its parent is the span in the context, and
   it keeps the baggage. *)
LEMMA StartStep ==
    ASSUME TreeTyped, NEW r \in Request, NEW c \in Contexts, Start(r, c)
    PROVE  /\ ctx' \in [Request -> Contexts]
           /\ parent' \in [Request -> {NoSpan, "far"} \cup Request]
           /\ ctx'[r].span = r /\ ctx'[r].bag = c.bag /\ ctx'[r].trace # NoTrace
           /\ ctx'[r].trace = IF c.trace = NoTrace THEN r ELSE c.trace
           /\ parent'[r] = c.span
           /\ \A x \in Request \ {r} : ctx'[x] = ctx[x] /\ parent'[x] = parent[x]
<1>1. /\ NewSpan(c, r) \in Contexts
      /\ NewSpan(c, r).span = r /\ NewSpan(c, r).bag = c.bag
      /\ NewSpan(c, r).trace = IF c.trace = NoTrace THEN r ELSE c.trace
  BY DEF NewSpan, Contexts
<1>2. r # NoTrace /\ c.span \in {NoSpan, "far"} \cup Request
  BY RequestAssumption DEF Contexts
<1>. QED  BY <1>1, <1>2 DEF Start, TreeTyped, SpanID

-----------------------------------------------------------------------------
(* The invariant holds before the first request. *)
THEOREM InitIInv == Init => IInv
<1>. SUFFICES ASSUME Init PROVE IInv
  OBVIOUS
<1>1. /\ \A r \in Request : pc[r] = "idle" /\ role[r] = "none" /\ from[r] = "none"
      /\ \A r \in Request : measured[r] = "none" /\ counted[r] = "none" /\ logged[r] = "none"
      /\ \A r \in Request : sent[r] = "none" /\ answer[r] = "none" /\ span[r] = "none"
      /\ \A r \in Request : status[r] = newResponseWriter
      /\ headers["app"] = Background
  BY DEF Init
<1>2. "none" \notin Request
  BY RequestAssumption
<1>3. Begun
  BY <1>1, <1>2 DEF Begun
<1>4. TreeInv
  <2>1. TreeTyped
    BY BackgroundType DEF Init, TreeTyped, Role
  <2>2. OwnSpan /\ Injected /\ OwnHeaders
    BY <1>1 DEF OwnSpan, Injected, OwnHeaders
  <2>3. TraceTree /\ BaggageArrives
    BY <1>1, <1>2 DEF TraceTree, BaggageArrives, Clients, Servers
  <2>. QED  BY <2>1, <2>2, <2>3 DEF TreeInv
<1>5. StoryInv
  <2>1. StoryTyped
    <3>1. calls \in 0..MaxHeaders /\ sets \in 0..MaxSets
      BY BoundsAssumption DEF Init
    <3>. QED  BY <3>1 DEF Init, StoryTyped, Status, Final, newResponseWriter
  <2>2. Judged /\ Told
    BY <1>1 DEF Judged, Told, Judging, Telling, Logs
  <2>3. Written /\ Kept
    BY <1>1, <1>2 DEF Written, Kept, Answering
  <2>4. NoStreamClient /\ MetricsAgree
    BY <1>1 DEF NoStreamClient, MetricsAgree, Clients
  <2>5. SpanEndsWithRequest /\ HasSpan
    BY <1>1, Exits DEF SpanEndsWithRequest, HasSpan
  <2>. QED  BY <2>1, <2>2, <2>3, <2>4, <2>5 DEF StoryInv
<1>. QED  BY <1>3, <1>4, <1>5 DEF IInv

-----------------------------------------------------------------------------
(* Contexts and headers: each action preserves Begun and TreeInv. *)

(* A step after the wrapper's start that leaves contexts and headers alone. *)
LEMMA TreeFrame ==
    ASSUME Begun, TreeInv, UNCHANGED <<role, from, ctx, parent, headers, wire>>,
           \A r \in Request : pc'[r] = "idle" <=> pc[r] = "idle"
    PROVE  Begun' /\ TreeInv'
<1>1. Begun'
  BY DEF Begun
<1>2. TreeTyped' /\ OwnSpan' /\ Injected' /\ OwnHeaders'
  BY DEF TreeInv, TreeTyped, OwnSpan, Injected, OwnHeaders
<1>3. TraceTree' /\ BaggageArrives'
  BY DEF TreeInv, TraceTree, BaggageArrives, Clients, Servers
<1>. QED  BY <1>1, <1>2, <1>3 DEF TreeInv

(* What entering a wrapper does to roles. *)
LEMMA BeginsStep ==
    ASSUME Begun, TreeTyped, NEW r \in Request, NEW end \in Role,
           NEW who \in Request \cup {"app", "outside"}, who \in Request => role[who] # "none",
           pc \in [Request -> {"idle", "inside", "report"} \cup DOMAIN Exit \cup Left],
           Begins(r, end, who)
    PROVE  /\ role' \in [Request -> Role \cup {"none"}]
           /\ from' \in [Request -> Request \cup {"none", "app", "outside"}]
           /\ role[r] = "none" /\ role'[r] = end /\ from'[r] = who
           /\ \A x \in Request \ {r} : role'[x] = role[x] /\ from'[x] = from[x] /\ from[x] # r
           /\ who # r
           /\ Begun'
<1>. USE DEF Begins, At, Goto, TreeTyped
<1>1. role[r] = "none" /\ who # r
  BY DEF Begun
<1>2. /\ role' \in [Request -> Role \cup {"none"}]
      /\ from' \in [Request -> Request \cup {"none", "app", "outside"}]
  OBVIOUS
<1>3. /\ role'[r] = end /\ from'[r] = who
      /\ \A x \in Request \ {r} : role'[x] = role[x] /\ from'[x] = from[x]
  OBVIOUS
<1>4. \A x \in Request : from[x] # r
  BY <1>1 DEF Begun
<1>5. Begun'
  BY <1>1, <1>3, RequestAssumption DEF Begun, Role
<1>. QED  BY <1>1, <1>2, <1>3, <1>4, <1>5

(* A call: the client's span is the child of its caller's, and the caller's
   baggage goes with it. *)
LEMMA CallTree == ASSUME IInv, NEW r \in Request, Call(r) PROVE Begun' /\ TreeInv'
<1>. USE DEF IInv, TreeInv
<1>1. PICK owner \in {"app"} \cup {s \in Request : role[s] = "server" /\ At(s, "inside")} :
        /\ \E c \in IF owner = "app" THEN AppContexts ELSE {ctx[owner]} : Start(r, c)
        /\ Send(r, owner)
        /\ Begins(r, "client", owner)
  BY DEF Call
<1>2. PICK c \in IF owner = "app" THEN AppContexts ELSE {ctx[owner]} : Start(r, c)
  BY <1>1
<1>3. /\ c \in Contexts /\ headers[owner] \in Contexts
      /\ c.bag = NoBaggage => headers[owner].bag = NoBaggage
      /\ owner = "app" => c.trace = NoTrace /\ c.span = NoSpan
      /\ owner \in Request => owner # "app" /\ role[owner] = "server" /\ c = ctx[owner]
  <2>1. CASE owner = "app"
    <3>1. PICK k \in Key, raw \in Raw : c = SetBaggage(Background, k, raw)
      BY <2>1 DEF AppContexts
    <3>2. c \in Contexts /\ c.trace = NoTrace /\ c.span = NoSpan
      BY <3>1, BackgroundType, SetBaggageKeeps DEF Background
    <3>3. headers[owner] = Background /\ owner \notin Request
      BY <2>1, RequestAssumption DEF OwnHeaders
    <3>. QED  BY <2>1, <3>2, <3>3, BackgroundType DEF Background
  <2>2. CASE owner \in Request /\ role[owner] = "server"
    <3>1. owner # "app" /\ c = ctx[owner]
      BY <1>2, <2>2, RequestAssumption
    <3>2. c \in Contexts /\ headers[owner] \in Contexts
      BY <2>2, <3>1 DEF TreeTyped
    <3>3. \A k \in DOMAIN headers[owner].bag : k \in DOMAIN c.bag
      BY <2>2, <3>1 DEF BaggageArrives, GetBaggage, Servers
    <3>4. ASSUME c.bag = NoBaggage PROVE headers[owner].bag = NoBaggage
      <4>1. DOMAIN headers[owner].bag = {}
        BY <3>3, <3>4 DEF NoBaggage
      <4>. QED  BY <3>2, <4>1, EmptyBaggage DEF Contexts
    <3>. QED  BY <2>2, <3>1, <3>2, <3>4
  <2>. QED  BY <2>1, <2>2
<1>4. /\ ctx' \in [Request -> Contexts]
      /\ parent' \in [Request -> {NoSpan, "far"} \cup Request]
      /\ ctx'[r].span = r /\ ctx'[r].bag = c.bag /\ ctx'[r].trace # NoTrace
      /\ ctx'[r].trace = IF c.trace = NoTrace THEN r ELSE c.trace
      /\ parent'[r] = c.span
      /\ \A x \in Request \ {r} : ctx'[x] = ctx[x] /\ parent'[x] = parent[x]
  BY <1>2, <1>3, StartStep
<1>5. /\ role' \in [Request -> Role \cup {"none"}]
      /\ from' \in [Request -> Request \cup {"none", "app", "outside"}]
      /\ role[r] = "none" /\ role'[r] = "client" /\ from'[r] = owner
      /\ \A x \in Request \ {r} : role'[x] = role[x] /\ from'[x] = from[x] /\ from[x] # r
      /\ owner # r
      /\ Begun'
  <2>1. owner \in Request => role[owner] # "none"
    BY <1>3
  <2>. QED  BY <1>1, <2>1, BeginsStep DEF StoryInv, StoryTyped, Role
<1>6. /\ headers' = headers
      /\ wire' = [wire EXCEPT ![r] = Over(ctx'[r], headers[owner])]
      /\ wire'[r] \in Contexts
      /\ wire'[r].trace = ctx'[r].trace /\ wire'[r].span = r /\ wire'[r].bag = ctx'[r].bag
  <2>1. headers' = headers /\ wire' = [wire EXCEPT ![r] = Over(ctx'[r], headers[owner])]
    BY <1>1 DEF Send, InjectHeaders
  <2>2. wire'[r] = Over(ctx'[r], headers[owner])
    BY <2>1 DEF TreeTyped
  <2>3. ctx'[r] \in Contexts
    BY <1>4
  <2>4. ctx'[r].bag = NoBaggage => headers[owner].bag = NoBaggage
    BY <1>3, <1>4
  <2>5. headers[owner] \in Contexts /\ ctx'[r].trace # NoTrace
    BY <1>3, <1>4
  <2>6. /\ wire'[r] \in Contexts
        /\ wire'[r].trace = ctx'[r].trace /\ wire'[r].span = ctx'[r].span
        /\ wire'[r].bag = ctx'[r].bag
    <3>. DEFINE top == ctx'[r]
                bottom == headers[owner]
    <3>. HIDE DEF top, bottom
    <3>1. Over(top, bottom) \in Contexts /\ Over(top, bottom).bag = top.bag
          /\ Over(top, bottom).trace = top.trace /\ Over(top, bottom).span = top.span
      BY <2>3, <2>4, <2>5, OverType, OverKeeps DEF top, bottom
    <3>. QED  BY <2>2, <3>1 DEF top, bottom
  <2>. QED  BY <1>4, <2>1, <2>6
<1>7. TreeTyped'
  BY <1>4, <1>5, <1>6 DEF TreeTyped
<1>8. OwnSpan' /\ OwnHeaders'
  BY <1>4, <1>5, <1>6 DEF OwnSpan, OwnHeaders, SpanID, TraceID
<1>9. Injected'
  BY <1>4, <1>5, <1>6 DEF Injected, SpanID, TraceID, TreeTyped
<1>10. TraceTree'
  <2>1. ASSUME NEW x \in Request, NEW up \in Request, from'[x] = up
        PROVE  parent'[x] = up /\ TraceID(ctx'[x]) = TraceID(ctx'[up])
    <3>1. CASE x = r
      <4>1. up = owner /\ up # r /\ c = ctx[up] /\ role[up] = "server"
        BY <1>3, <1>5, <2>1, <3>1
      <4>2. c.span = up /\ c.trace # NoTrace /\ ctx'[up] = c
        BY <1>4, <4>1 DEF OwnSpan, SpanID, TraceID
      <4>. QED  BY <1>4, <3>1, <4>2 DEF TraceID
    <3>2. CASE x # r
      <4>1. from[x] = up /\ up # r
        BY <1>5, <2>1, <3>2
      <4>. QED  BY <1>4, <3>2, <4>1 DEF TraceTree
    <3>. QED  BY <3>1, <3>2
  <2>2. ASSUME NEW x \in Request, from'[x] = "app"
        PROVE  parent'[x] = NoSpan /\ TraceID(ctx'[x]) = x
    BY <1>3, <1>4, <1>5, <2>2 DEF TraceTree, TraceID
  <2>3. ASSUME NEW x \in Request, from'[x] = "outside"
        PROVE  parent'[x] = headers'[x].span
    <3>1. x # r
      BY <1>5, <2>3, RequestAssumption
    <3>. QED  BY <1>4, <1>5, <1>6, <2>3, <3>1 DEF TraceTree
  <2>. QED  BY <2>1, <2>2, <2>3 DEF TraceTree
<1>11. BaggageArrives'
  <2>1. ASSUME NEW x \in Clients' PROVE wire'[x].bag = ctx'[x].bag
    BY <1>4, <1>5, <1>6, <2>1 DEF BaggageArrives, Clients, TreeTyped
  <2>2. ASSUME NEW x \in Servers' PROVE x \in Servers /\ x # r /\ ctx'[x] = ctx[x]
    BY <1>4, <1>5, <2>2 DEF Servers
  <2>3. ASSUME NEW x \in Servers', NEW y \in Clients', from'[x] = y
        PROVE  headers'[x].bag = ctx'[y].bag
    <3>1. from[x] = y /\ y # r /\ y \in Clients
      BY <1>5, <2>2, <2>3 DEF Clients, Servers
    <3>. QED  BY <1>4, <1>6, <2>2, <2>3, <3>1 DEF BaggageArrives, Clients
  <2>. QED  BY <1>6, <2>1, <2>2, <2>3 DEF BaggageArrives
<1>. QED  BY <1>5, <1>7, <1>8, <1>9, <1>10, <1>11

(* What arrives at a server: the headers of a client's call or of one from
   outside, of which Extract makes the context. *)
LEMMA ArrivalContext ==
    ASSUME NEW h \in Contexts, h.trace = NoTrace => h.span = NoSpan
    PROVE  /\ ExtractHeaders(Background, h) \in Contexts
           /\ ExtractHeaders(Background, h).trace = h.trace
           /\ ExtractHeaders(Background, h).span = h.span
           /\ ExtractHeaders(Background, h).bag = h.bag
<1>1. ExtractHeaders(Background, h) \in Contexts
  BY BackgroundType, OverType DEF ExtractHeaders
<1>. QED  BY <1>1 DEF ExtractHeaders, Over, Background

(* A server's span is the child of the span whose headers arrive, in its trace
   and with its baggage. *)
LEMMA ArriveTree == ASSUME IInv, NEW r \in Request, Arrive(r) PROVE Begun' /\ TreeInv'
<1>. USE DEF IInv, TreeInv
<1>1. PICK who, h :
        /\ Serve(r, who, h)
        /\ \/ who \in Request /\ role[who] = "client" /\ h = wire[who]
           \/ who = "outside" /\ h \in OutsideHeaders
  BY DEF Arrive
<1>2. /\ h \in Contexts
      /\ h.trace = NoTrace => h.span = NoSpan
      /\ who \in Request => who # "outside" /\ role[who] = "client" /\ h = wire[who]
      /\ who \in Request \cup {"outside"} /\ who # "app"
  <2>1. CASE who \in Request /\ role[who] = "client" /\ h = wire[who]
    <3>1. h \in Contexts
      BY <2>1 DEF TreeTyped
    <3>2. h.trace # NoTrace
      BY <2>1 DEF Injected, OwnSpan, TraceID
    <3>. QED  BY <2>1, <3>1, <3>2, RequestAssumption
  <2>2. CASE who = "outside" /\ h \in OutsideHeaders
    BY <2>2, OutsideAssumption, RequestAssumption DEF Contexts
  <2>. QED  BY <1>1, <2>1, <2>2
<1>3. PICK c \in Contexts :
        Start(r, c) /\ c.trace = h.trace /\ c.span = h.span /\ c.bag = h.bag
  BY <1>1, <1>2, ArrivalContext DEF Serve
<1>4. /\ ctx' \in [Request -> Contexts]
      /\ parent' \in [Request -> {NoSpan, "far"} \cup Request]
      /\ ctx'[r].span = r /\ ctx'[r].bag = h.bag /\ ctx'[r].trace # NoTrace
      /\ ctx'[r].trace = IF h.trace = NoTrace THEN r ELSE h.trace
      /\ parent'[r] = h.span
      /\ \A x \in Request \ {r} : ctx'[x] = ctx[x] /\ parent'[x] = parent[x]
  BY <1>3, StartStep
<1>5. /\ role' \in [Request -> Role \cup {"none"}]
      /\ from' \in [Request -> Request \cup {"none", "app", "outside"}]
      /\ role[r] = "none" /\ role'[r] = "server" /\ from'[r] = who
      /\ \A x \in Request \ {r} : role'[x] = role[x] /\ from'[x] = from[x] /\ from[x] # r
      /\ who # r
      /\ Begun'
  <2>1. who \in Request => role[who] # "none"
    BY <1>2
  <2>2. Begins(r, "server", who)
    BY <1>1 DEF Serve
  <2>. QED  BY <1>2, <2>1, <2>2, BeginsStep DEF StoryInv, StoryTyped, Role
<1>6. /\ wire' = wire
      /\ headers' = [headers EXCEPT ![r] = h]
      /\ headers' \in [Request \cup {"app"} -> Contexts]
      /\ headers'[r] = h
      /\ \A x \in (Request \cup {"app"}) \ {r} : headers'[x] = headers[x]
  BY <1>1, <1>2 DEF Serve, TreeTyped
<1>7. TreeTyped'
  BY <1>4, <1>5, <1>6 DEF TreeTyped
<1>8. OwnSpan' /\ OwnHeaders'
  <2>1. r # "app"
    BY RequestAssumption
  <2>. QED  BY <1>4, <1>5, <1>6, <2>1 DEF OwnSpan, OwnHeaders, SpanID, TraceID
<1>9. Injected'
  BY <1>4, <1>5, <1>6 DEF Injected, SpanID, TraceID
<1>10. TraceTree'
  <2>1. ASSUME NEW x \in Request, NEW up \in Request, from'[x] = up
        PROVE  parent'[x] = up /\ TraceID(ctx'[x]) = TraceID(ctx'[up])
    <3>1. CASE x = r
      <4>1. up = who /\ up # r /\ role[up] = "client" /\ h = wire[up] /\ ctx'[up] = ctx[up]
        BY <1>2, <1>4, <1>5, <2>1, <3>1
      <4>2. h.span = up /\ h.trace = ctx[up].trace /\ h.trace # NoTrace
        BY <4>1 DEF Injected, OwnSpan, SpanID, TraceID
      <4>. QED  BY <1>4, <3>1, <4>1, <4>2 DEF TraceID
    <3>2. CASE x # r
      <4>1. from[x] = up /\ up # r
        BY <1>5, <2>1, <3>2
      <4>. QED  BY <1>4, <3>2, <4>1 DEF TraceTree
    <3>. QED  BY <3>1, <3>2
  <2>2. ASSUME NEW x \in Request, from'[x] = "app"
        PROVE  parent'[x] = NoSpan /\ TraceID(ctx'[x]) = x
    <3>1. x # r
      BY <1>2, <1>5, <2>2
    <3>. QED  BY <1>4, <1>5, <2>2, <3>1 DEF TraceTree
  <2>3. ASSUME NEW x \in Request, from'[x] = "outside"
        PROVE  parent'[x] = headers'[x].span
    BY <1>4, <1>5, <1>6, <2>3 DEF TraceTree
  <2>. QED  BY <2>1, <2>2, <2>3 DEF TraceTree
<1>11. BaggageArrives'
  <2>1. ASSUME NEW x \in Clients' PROVE x \in Clients /\ x # r /\ ctx'[x] = ctx[x]
    BY <1>4, <1>5, <2>1 DEF Clients
  <2>2. ASSUME NEW x \in Servers', NEW k \in DOMAIN headers'[x].bag
        PROVE  GetBaggage(ctx'[x], k) # {}
    BY <1>4, <1>5, <1>6, <2>2 DEF BaggageArrives, GetBaggage, Servers
  <2>3. ASSUME NEW x \in Servers', NEW y \in Clients', from'[x] = y
        PROVE  headers'[x].bag = ctx'[y].bag
    <3>1. CASE x = r
      <4>1. y = who /\ h = wire[y] /\ y \in Request
        BY <1>2, <1>5, <2>3, <3>1 DEF Clients
      <4>. QED  BY <1>6, <2>1, <3>1, <4>1 DEF BaggageArrives
    <3>2. CASE x # r
      BY <1>5, <1>6, <2>1, <2>3, <3>2 DEF BaggageArrives, Servers
    <3>. QED  BY <3>1, <3>2
  <2>. QED  BY <1>6, <2>1, <2>2, <2>3 DEF BaggageArrives
<1>. QED  BY <1>5, <1>7, <1>8, <1>9, <1>10, <1>11

(* A handler that sets baggage keeps its trace, its span and the baggage that
   arrived. *)
LEMMA SetBaggageTree ==
    ASSUME IInv, NEW r \in Request, NEW key \in Key, NEW raw \in Raw,
           HandlerSetsBaggage(r, key, raw)
    PROVE  Begun' /\ TreeInv'
<1>. USE DEF IInv, TreeInv
<1>1. /\ role[r] = "server"
      /\ UNCHANGED <<pc, role, from, parent, headers, wire>>
      /\ ctx' = [ctx EXCEPT ![r] = SetBaggage(ctx[r], key, raw)]
  BY DEF HandlerSetsBaggage, Handling, Inside, enterVars
<1>2. /\ ctx' \in [Request -> Contexts]
      /\ \A x \in Request :
            /\ ctx'[x].trace = ctx[x].trace /\ ctx'[x].span = ctx[x].span
            /\ DOMAIN ctx[x].bag \subseteq DOMAIN ctx'[x].bag
            /\ role[x] = "client" => ctx'[x] = ctx[x]
  BY <1>1, SetBaggageKeeps DEF TreeTyped
<1>3. Begun' /\ TreeTyped' /\ OwnHeaders'
  BY <1>1, <1>2 DEF Begun, TreeTyped, OwnHeaders
<1>4. OwnSpan' /\ Injected'
  BY <1>1, <1>2 DEF OwnSpan, Injected, SpanID, TraceID
<1>5. TraceTree'
  BY <1>1, <1>2 DEF TraceTree, TraceID
<1>6. BaggageArrives'
  BY <1>1, <1>2 DEF BaggageArrives, GetBaggage, Clients, Servers
<1>. QED  BY <1>3, <1>4, <1>5, <1>6

-----------------------------------------------------------------------------
(* The story of a request: each action preserves StoryInv. *)

(* Entering a wrapper. *)
LEMMA EnterStory ==
    ASSUME IInv, NEW r \in Request, NEW end \in Role, NEW who, Begins(r, end, who),
           span' = [span EXCEPT ![r] = "live"],
           end = "client" => proto # "stream"
    PROVE  StoryInv'
<1>. USE DEF IInv, StoryInv
<1>1. /\ UNCHANGED <<setup, status, sent, calls, tidy, answer, marked,
                     measured, counted, logged, sets>>
      /\ pc[r] = "idle" /\ role[r] = "none"
      /\ pc' = [pc EXCEPT ![r] = "inside"]
      /\ role' = [role EXCEPT ![r] = end]
  BY DEF Begins, At, Goto, serveVars, storyVars, Begun
<1>2. /\ pc'[r] = "inside" /\ role'[r] = end
      /\ \A x \in Request \ {r} : pc'[x] = pc[x] /\ role'[x] = role[x] /\ span'[x] = span[x]
      /\ span'[r] = "live"
  BY <1>1 DEF StoryTyped, TreeInv, TreeTyped
<1>3. StoryTyped'
  BY <1>1 DEF StoryTyped
<1>4. Judged' /\ Told'
  BY <1>1, <1>2 DEF Judged, Told, Judging, Telling, Logs, Marks, proto
<1>5. Written'
  BY <1>1, <1>2 DEF Written, Answering, proto
<1>6. Kept'
  <2>1. ASSUME NEW c \in Request, NEW s \in Request, answer'[c] = s
        PROVE  c # r /\ s # r
    BY <1>1, <2>1 DEF Kept, Role, Judging
  <2>. QED  BY <1>1, <1>2, <2>1 DEF Kept
<1>7. NoStreamClient' /\ MetricsAgree'
  BY <1>1, <1>2 DEF NoStreamClient, MetricsAgree, Clients, proto
<1>8. SpanEndsWithRequest' /\ HasSpan'
  BY <1>1, <1>2, Exits DEF SpanEndsWithRequest, HasSpan
<1>. QED  BY <1>3, <1>4, <1>5, <1>6, <1>7, <1>8

(* Call and Arrive. *)
LEMMA CallStory == ASSUME IInv, NEW r \in Request, Call(r) \/ Arrive(r) PROVE StoryInv'
<1>1. CASE Call(r)
  <2>1. PICK who : Begins(r, "client", who) /\ proto # "stream"
    BY <1>1 DEF Call
  <2>2. span' = [span EXCEPT ![r] = "live"]
    BY <1>1 DEF Call, Start
  <2>. QED  BY <2>1, <2>2, EnterStory DEF Role
<1>2. CASE Arrive(r)
  <2>1. PICK who, h : Serve(r, who, h)
    BY <1>2 DEF Arrive
  <2>. QED  BY <2>1, EnterStory DEF Serve, Start, Role
<1>. QED  BY <1>1, <1>2

(* What a handler does before it returns. *)
LEMMA HandlerStory ==
    ASSUME IInv, NEW r \in Request, Handling(r),
           UNCHANGED <<pc, marked>>,
           calls' \in 0..MaxHeaders, sets' \in 0..MaxSets,
           \E code \in Status, sends \in Final \cup {"none"}, clean \in BOOLEAN :
              /\ status' = [status EXCEPT ![r] = code]
              /\ sent' = [sent EXCEPT ![r] = sends]
              /\ tidy' = [tidy EXCEPT ![r] = clean]
              /\ sent[r] # "none" => sends = sent[r]
              /\ proto # "http" => sends = "none"
              /\ clean => sends = code \/ (sends = "none" /\ code = newResponseWriter)
    PROVE  StoryInv'
<1>. USE DEF IInv, StoryInv
<1>1. PICK code \in Status, sends \in Final \cup {"none"}, clean \in BOOLEAN :
        /\ status' = [status EXCEPT ![r] = code]
        /\ sent' = [sent EXCEPT ![r] = sends]
        /\ tidy' = [tidy EXCEPT ![r] = clean]
        /\ sent[r] # "none" => sends = sent[r]
        /\ proto # "http" => sends = "none"
        /\ clean => sends = code \/ (sends = "none" /\ code = newResponseWriter)
  OBVIOUS
<1>2. /\ pc[r] = "inside" /\ role[r] = "server"
      /\ UNCHANGED <<setup, role, pc, answer, span, marked, measured, counted, logged>>
  BY DEF Handling, Inside, At, enterVars, storyVars
<1>3. StoryTyped'
  BY <1>1, <1>2 DEF StoryTyped
<1>4. Judged' /\ Told'
  BY <1>1, <1>2 DEF Judged, Told, Judging, Telling, Logs, StoryTyped, Marks, proto
<1>5. Written'
  BY <1>1, <1>2 DEF Written, Answering, StoryTyped, proto
<1>6. Kept'
  BY <1>1, <1>2 DEF Kept, Judging, StoryTyped
<1>7. NoStreamClient' /\ MetricsAgree' /\ SpanEndsWithRequest' /\ HasSpan'
  BY <1>2 DEF NoStreamClient, MetricsAgree, SpanEndsWithRequest, HasSpan, Clients, proto
<1>. QED  BY <1>3, <1>4, <1>5, <1>6, <1>7

(* SetBaggage, WriteHeader and Write. *)
LEMMA BusyStory ==
    ASSUME IInv, NEW r \in Request,
           \/ \E key \in Key, raw \in Raw : HandlerSetsBaggage(r, key, raw)
           \/ \E code \in Status : WriteHeader(r, code)
           \/ Write(r)
    PROVE  StoryInv'
<1>. USE DEF IInv, StoryInv
<1>1. Handling(r) /\ UNCHANGED <<pc, marked>>
  BY DEF HandlerSetsBaggage, WriteHeader, Header, Write
<1>2. pc[r] = "inside"
  BY <1>1 DEF Handling, Inside, At
<1>3. calls' \in 0..MaxHeaders /\ sets' \in 0..MaxSets
  BY BoundsAssumption DEF HandlerSetsBaggage, WriteHeader, Header, Write, StoryTyped, serveVars
<1>4. CASE UNCHANGED <<status, sent, tidy>>
  <2>1. /\ status' = [status EXCEPT ![r] = status[r]] /\ sent' = [sent EXCEPT ![r] = sent[r]]
        /\ tidy' = [tidy EXCEPT ![r] = tidy[r]]
        /\ status[r] \in Status /\ sent[r] \in Final \cup {"none"} /\ tidy[r] \in BOOLEAN
    BY <1>4 DEF StoryTyped
  <2>2. /\ proto # "http" => sent[r] = "none"
        /\ tidy[r] => sent[r] = status[r] \/ (sent[r] = "none" /\ status[r] = newResponseWriter)
    BY <1>2 DEF Written
  <2>. QED  BY <1>1, <1>3, <2>1, <2>2, HandlerStory
<1>5. ASSUME NEW code \in Status, WriteHeader(r, code) PROVE StoryInv'
  <2>. DEFINE sends == IF sent[r] = "none" /\ code \in Final THEN code ELSE sent[r]
              clean == tidy[r] /\ sent[r] = "none" /\ code \in Final
  <2>1. /\ proto = "http"
        /\ status' = [status EXCEPT ![r] = code] /\ sent' = [sent EXCEPT ![r] = sends]
        /\ tidy' = [tidy EXCEPT ![r] = clean]
        /\ sends \in Final \cup {"none"} /\ clean \in BOOLEAN
    BY <1>5 DEF WriteHeader, Header, Sends, StoryTyped
  <2>2. (sent[r] # "none" => sends = sent[r]) /\ (clean => sends = code)
    OBVIOUS
  <2>. QED  BY <1>1, <1>3, <2>1, <2>2, HandlerStory
<1>6. CASE Write(r)
  <2>. DEFINE sends == IF sent[r] = "none" THEN "ok" ELSE sent[r]
  <2>1. /\ proto = "http"
        /\ status' = [status EXCEPT ![r] = status[r]] /\ sent' = [sent EXCEPT ![r] = sends]
        /\ tidy' = [tidy EXCEPT ![r] = tidy[r]]
        /\ sends \in Final \cup {"none"} /\ status[r] \in Status /\ tidy[r] \in BOOLEAN
    BY <1>6 DEF Write, Sends, Final, StoryTyped
  <2>2. tidy[r] => sends = status[r]
    BY <1>2 DEF Written, newResponseWriter, StoryTyped, Status, Final
  <2>. QED  BY <1>1, <1>3, <2>1, <2>2, HandlerStory
<1>. QED  BY <1>4, <1>5, <1>6 DEF HandlerSetsBaggage, serveVars

(* The handler returns: what was sent and what is held agree if it was tidy. *)
LEMMA HandlerReturnsStory ==
    ASSUME IInv, NEW r \in Request, NEW code \in Status, HandlerReturns(r, code)
    PROVE  StoryInv'
<1>. USE DEF IInv, StoryInv
<1>1. /\ pc[r] = "inside" /\ role[r] = "server"
      /\ UNCHANGED <<setup, role, answer, span, measured, counted, logged, calls, tidy, sets>>
      /\ status' = [status EXCEPT ![r] = code]
      /\ marked' = [marked EXCEPT ![r] = Marks(code)]
      /\ pc' = [pc EXCEPT ![r] = "report"]
      /\ IF proto = "http" THEN code = status[r] ELSE code \in Final
  BY DEF HandlerReturns, Handling, Inside, At, Goto, enterVars, storyVars
<1>2. PICK sends \in Final \cup {"none"} :
        /\ sent' = [sent EXCEPT ![r] = sends]
        /\ sends = IF sent[r] # "none" THEN sent[r] ELSE IF proto = "http" THEN "ok" ELSE code
  BY <1>1 DEF HandlerReturns, Sends, StoryTyped, Final
<1>3. Marks(code) \in BOOLEAN
  BY DEF Marks
<1>4. /\ pc'[r] = "report" /\ status'[r] = code /\ marked'[r] = Marks(code) /\ sent'[r] = sends
      /\ \A x \in Request \ {r} : pc'[x] = pc[x] /\ status'[x] = status[x]
                                /\ marked'[x] = marked[x] /\ sent'[x] = sent[x]
  BY <1>1, <1>2 DEF StoryTyped
<1>5. StoryTyped'
  BY <1>1, <1>2, <1>3 DEF StoryTyped
<1>6. Judged'
  <2>1. ASSUME NEW x \in Request, pc'[x] \in Judging
        PROVE  (marked[x] <=> Marks(status[x]))' /\ (proto # "http" => status[x] \in Final)'
    <3>1. CASE x = r
      <4>1. setup' = setup /\ status'[x] = code /\ marked'[x] = Marks(code)
        BY <1>1, <1>4, <3>1
      <4>2. Marks(status[x])' = Marks(code)
        BY <4>1 DEF Marks, proto
      <4>3. (proto # "http" => status[x] \in Final)'
        BY <1>1, <4>1 DEF proto
      <4>. QED  BY <4>1, <4>2, <4>3
    <3>2. CASE x # r
      BY <1>1, <1>4, <2>1, <3>2 DEF Judged, Marks, proto
    <3>. QED  BY <3>1, <3>2
  <2>. QED  BY <2>1 DEF Judged
<1>7. Told'
  <2>1. measured[r] = "none" /\ logged[r] = "none"
    BY <1>1 DEF Told, Telling, Logs, proto
  <2>. QED  BY <1>1, <1>4, <2>1 DEF Told, Telling, Logs, proto
<1>8. Written'
  <2>1. sends # "none" /\ (tidy[r] => sends = code)
    BY <1>1, <1>2 DEF Written, Status, Final, newResponseWriter, StoryTyped
  <2>. QED  BY <1>1, <1>4, <2>1 DEF Written, proto
<1>9. Kept'
  <2>1. \A s \in Request : sent[s] # "none" => sent'[s] = sent[s]
    BY <1>2, <1>4
  <2>. QED  BY <1>1, <1>4, <2>1 DEF Kept, Judging
<1>10. NoStreamClient' /\ MetricsAgree'
  BY <1>1 DEF NoStreamClient, MetricsAgree, Clients, proto
<1>11. SpanEndsWithRequest' /\ HasSpan'
  BY <1>1, <1>4, Exits DEF SpanEndsWithRequest, HasSpan
<1>. QED  BY <1>5, <1>6, <1>7, <1>8, <1>9, <1>10, <1>11

(* A handler panics. *)
LEMMA PanicsStory == ASSUME IInv, NEW r \in Request, Panics(r) PROVE StoryInv'
<1>. USE DEF IInv, StoryInv
<1>1. /\ pc[r] = "inside" /\ role[r] = "server" /\ pc' = [pc EXCEPT ![r] = "panicking"]
      /\ UNCHANGED <<setup, role, status, sent, tidy, answer, span, marked,
                     measured, counted, logged, calls, sets>>
  BY DEF Panics, Handling, Inside, At, Goto, enterVars, storyVars, serveVars
<1>2. pc'[r] = "panicking" /\ \A x \in Request \ {r} : pc'[x] = pc[x]
  BY <1>1 DEF StoryTyped
<1>3. StoryTyped'
  BY <1>1, Exits DEF StoryTyped
<1>4. Judged' /\ Told'
  BY <1>1, <1>2 DEF Judged, Told, Judging, Telling, Logs, Marks, proto
<1>5. Written' /\ Kept'
  BY <1>1, <1>2 DEF Written, Kept, Answering, Judging, proto
<1>6. NoStreamClient' /\ MetricsAgree'
  BY <1>1 DEF NoStreamClient, MetricsAgree, Clients, proto
<1>7. SpanEndsWithRequest' /\ HasSpan'
  BY <1>1, <1>2, Exits DEF SpanEndsWithRequest, HasSpan
<1>. QED  BY <1>3, <1>4, <1>5, <1>6, <1>7

(* The transport or the invoker returns to a client, with an answer or not. *)
LEMMA ReturnsStory ==
    ASSUME IInv, NEW r \in Request, NEW code \in Final, NEW who \in Request \cup {"none"},
           NEW label \in {"report", "unmeasured"}, Returns(r, code, who, label),
           who \in Request => role[who] = "server" /\ sent[who] = code
    PROVE  StoryInv'
<1>. USE DEF IInv, StoryInv
<1>1. /\ pc[r] = "inside" /\ role[r] = "client"
      /\ UNCHANGED <<setup, role, sent, tidy, span, measured, counted, logged, calls, sets>>
      /\ status' = [status EXCEPT ![r] = code]
      /\ answer' = [answer EXCEPT ![r] = who]
      /\ marked' = [marked EXCEPT ![r] = Marks(code)]
      /\ pc' = [pc EXCEPT ![r] = label]
  BY DEF Returns, Calling, Inside, At, Goto, enterVars, serveVars, storyVars
<1>2. Marks(code) \in BOOLEAN /\ code \in Status /\ code # "none"
  BY DEF Marks, Status, Final
<1>3. /\ pc'[r] = label /\ status'[r] = code /\ marked'[r] = Marks(code) /\ answer'[r] = who
      /\ \A x \in Request \ {r} : pc'[x] = pc[x] /\ status'[x] = status[x]
                                /\ marked'[x] = marked[x] /\ answer'[x] = answer[x]
  BY <1>1 DEF StoryTyped
<1>4. StoryTyped'
  BY <1>1, <1>2, Exits DEF StoryTyped
<1>5. Judged'
  <2>1. ASSUME NEW x \in Request, pc'[x] \in Judging
        PROVE  (marked[x] <=> Marks(status[x]))' /\ (proto # "http" => status[x] \in Final)'
    <3>1. CASE x = r
      BY <1>1, <1>3, <3>1 DEF Marks, proto
    <3>2. CASE x # r
      BY <1>1, <1>3, <2>1, <3>2 DEF Judged, Marks, proto
    <3>. QED  BY <3>1, <3>2
  <2>. QED  BY <2>1 DEF Judged
<1>6. Told'
  <2>1. measured[r] = "none" /\ logged[r] = "none"
    BY <1>1 DEF Told, Telling, Logs, proto
  <2>. QED  BY <1>1, <1>3, <2>1 DEF Told, Telling, Logs, proto
<1>7. Written'
  BY <1>1, <1>3 DEF Written, Role, proto
<1>8. Kept'
  <2>1. ASSUME NEW s \in Request, who = s
        PROVE  role[s] = "server" /\ sent[s] # "none" /\ code = sent[s]
    BY <1>2, <2>1
  <2>. QED  BY <1>1, <1>3, <2>1 DEF Kept, Judging
<1>9. NoStreamClient' /\ MetricsAgree'
  BY <1>1 DEF NoStreamClient, MetricsAgree, Clients, proto
<1>10. SpanEndsWithRequest' /\ HasSpan'
  BY <1>1, <1>3, Exits DEF SpanEndsWithRequest, HasSpan
<1>. QED  BY <1>4, <1>5, <1>6, <1>7, <1>8, <1>9, <1>10

(* CallReturns and CallFails. *)
LEMMA ClientStory ==
    ASSUME IInv, NEW r \in Request, CallReturns(r) \/ CallFails(r)
    PROVE  StoryInv'
<1>1. ASSUME NEW s \in Request, role[s] = "server", Answered(s), Returns(r, sent[s], s, "report")
      PROVE  StoryInv'
  <2>1. sent[s] # "none"
    BY <1>1 DEF Answered, At, IInv, StoryInv, Written, Answering
  <2>2. sent[s] \in Final
    BY <2>1 DEF IInv, StoryInv, StoryTyped
  <2>. QED  BY <1>1, <2>2, ReturnsStory
<1>2. ASSUME NEW code \in Final, NEW label \in {"report", "unmeasured"},
             Returns(r, code, "none", label)
      PROVE  StoryInv'
  <2>1. "none" \notin Request
    BY RequestAssumption
  <2>. QED  BY <1>2, <2>1, ReturnsStory
<1>. QED  BY <1>1, <1>2 DEF CallReturns, CallFails, Final

(* Histogram, counter and log line: all are told the status the wrapper holds. *)
LEMMA ReportStory == ASSUME IInv, NEW r \in Request, Report(r) PROVE StoryInv'
<1>. USE DEF IInv, StoryInv
<1>1. /\ pc[r] = "report" /\ pc' = [pc EXCEPT ![r] = "end"]
      /\ UNCHANGED <<setup, role, status, sent, tidy, answer, span, marked, calls, sets>>
  BY DEF Report, At, Goto, Leaving, enterVars, serveVars
<1>2. PICK m \in {status[r], "none"}, n \in {status[r], counted[r]}, l \in {status[r], "none"} :
        /\ measured' = [measured EXCEPT ![r] = m]
        /\ counted' = [counted EXCEPT ![r] = n]
        /\ logged' = [logged EXCEPT ![r] = l]
        /\ m = IF Instruments(r).hist THEN status[r] ELSE measured[r]
        /\ n = IF Instruments(r).counter THEN status[r] ELSE counted[r]
        /\ Logs(r) => l = status[r]
  <2>1. measured[r] = "none" /\ logged[r] = "none"
    BY <1>1 DEF Told, Telling, Logs, proto
  <2>2. /\ (IF Instruments(r).hist THEN status[r] ELSE measured[r]) \in {status[r], "none"}
        /\ (IF Instruments(r).counter THEN status[r] ELSE counted[r]) \in {status[r], counted[r]}
        /\ (IF Logs(r) THEN status[r] ELSE logged[r])
              \in {status[r], "none"}
    BY <2>1
  <2>. QED  BY <2>2 DEF Report, RecordAndAdd
<1>3. /\ pc'[r] = "end" /\ measured'[r] = m /\ counted'[r] = n /\ logged'[r] = l
      /\ \A x \in Request \ {r} : /\ pc'[x] = pc[x] /\ measured'[x] = measured[x]
                               /\ counted'[x] = counted[x] /\ logged'[x] = logged[x]
  BY <1>1, <1>2 DEF StoryTyped
<1>4. StoryTyped'
  BY <1>1, <1>2, Exits DEF StoryTyped
<1>5. Judged'
  BY <1>1, <1>3 DEF Judged, Judging, Marks, proto
<1>6. Told'
  <2>1. setup.meter = "works" => m # "none"
    <3>1. ASSUME setup.meter = "works" PROVE Instruments(r).hist
      <4>1. role[r] \in Role
        BY <1>1 DEF Begun, TreeInv, TreeTyped
      <4>2. proto \in {"http", "unary", "stream"}
        BY SetupsAssumption DEF StoryTyped, proto
      <4>3. role[r] = "client" => proto # "stream"
        BY DEF NoStreamClient, Clients
      <4>. QED  BY <3>1, <4>1, <4>2, <4>3
                DEF Instruments, HTTPClientTransport, UnaryClientInterceptor, HTTP, Role,
                    UnaryServerInterceptor, StreamServerInterceptor, BothInstruments
    <3>2. status[r] # "none"
      BY DEF StoryTyped, Status, Final
    <3>. QED  BY <1>2, <3>1, <3>2
  <2>2. Logs(r) => l # "none"
    BY <1>2 DEF StoryTyped, Status, Final
  <2>3. \A x \in Request : Logs(x)' = Logs(x)
    BY <1>1 DEF Logs, proto
  <2>. QED  BY <1>1, <1>2, <1>3, <2>1, <2>2, <2>3 DEF Told, Telling
<1>7. Written' /\ Kept'
  BY <1>1, <1>3 DEF Written, Kept, Answering, Judging, proto
<1>8. NoStreamClient'
  BY <1>1 DEF NoStreamClient, Clients, proto
<1>9. MetricsAgree'
  <2>1. ASSUME ~(role[r] = "client" /\ proto = "http") PROVE m = n
    <3>1. counted[r] = measured[r]
      BY <2>1 DEF MetricsAgree, Clients
    <3>2. Instruments(r).hist = Instruments(r).counter
      <4>1. role[r] \in Role
        BY <1>1 DEF Begun, TreeInv, TreeTyped
      <4>2. proto \in {"http", "unary", "stream"}
        BY SetupsAssumption DEF StoryTyped, proto
      <4>3. role[r] = "client" => proto # "stream"
        BY DEF NoStreamClient, Clients
      <4>. QED  BY <2>1, <4>1, <4>2, <4>3
                DEF Instruments, UnaryClientInterceptor, HTTP, Role,
                    UnaryServerInterceptor, StreamServerInterceptor, BothInstruments
    <3>. QED  BY <1>2, <3>1, <3>2
  <2>. QED  BY <1>1, <1>3, <2>1 DEF MetricsAgree, Clients, proto
<1>10. SpanEndsWithRequest' /\ HasSpan'
  BY <1>1, <1>3, Exits DEF SpanEndsWithRequest, HasSpan
<1>. QED  BY <1>4, <1>5, <1>6, <1>7, <1>8, <1>9, <1>10

(* The deferred span.End, on every way out. *)
LEMMA EndStory == ASSUME IInv, NEW r \in Request, End(r) PROVE StoryInv'
<1>. USE DEF IInv, StoryInv
<1>1. /\ pc[r] \in {"end", "unmeasured", "panicking"}
      /\ pc' = [pc EXCEPT ![r] = Exit[pc[r]]]
      /\ span' = [span EXCEPT ![r] = "ended"]
      /\ UNCHANGED <<setup, role, status, sent, tidy, answer, marked,
                     measured, counted, logged, calls, sets>>
  BY Exits DEF End, Goto, Leaving, enterVars, serveVars, storyVars
<1>2. /\ pc'[r] = Exit[pc[r]] /\ span'[r] = "ended"
      /\ \/ pc[r] = "end" /\ pc'[r] = "done"
         \/ pc[r] = "unmeasured" /\ pc'[r] = "failed"
         \/ pc[r] = "panicking" /\ pc'[r] = "panicked"
      /\ \A x \in Request \ {r} : pc'[x] = pc[x] /\ span'[x] = span[x]
  BY <1>1, Exits DEF StoryTyped
<1>3. StoryTyped'
  BY <1>1, <1>2, Exits DEF StoryTyped
<1>4. Judged'
  BY <1>1, <1>2 DEF Judged, Judging, Marks, proto
<1>5. Told'
  BY <1>1, <1>2 DEF Told, Telling, Logs, proto
<1>6. Written'
  BY <1>1, <1>2 DEF Written, Answering, proto
<1>7. Kept'
  BY <1>1, <1>2 DEF Kept, Judging
<1>8. NoStreamClient' /\ MetricsAgree'
  BY <1>1 DEF NoStreamClient, MetricsAgree, Clients, proto
<1>9. SpanEndsWithRequest' /\ HasSpan'
  BY <1>1, <1>2, Exits DEF SpanEndsWithRequest, HasSpan
<1>. QED  BY <1>3, <1>4, <1>5, <1>6, <1>7, <1>8, <1>9

-----------------------------------------------------------------------------
(* Every step preserves the invariant. *)
THEOREM NextIInv == IInv /\ [Next]_vars => IInv'
<1>. SUFFICES ASSUME IInv, [Next]_vars PROVE IInv'
  OBVIOUS
<1>1. ASSUME NEW r \in Request, Call(r) \/ Arrive(r) PROVE IInv'
  BY <1>1, CallTree, ArriveTree, CallStory DEF IInv
<1>2. ASSUME NEW r \in Request, NEW key \in Key, NEW raw \in Raw, HandlerSetsBaggage(r, key, raw)
      PROVE  IInv'
  BY <1>2, SetBaggageTree, BusyStory DEF IInv
<1>3. ASSUME NEW r \in Request,
             \/ \E code \in Status : WriteHeader(r, code) \/ HandlerReturns(r, code)
             \/ Write(r) \/ Panics(r) \/ CallReturns(r) \/ CallFails(r) \/ Report(r) \/ End(r)
      PROVE  IInv'
  <2>1. StoryInv'
    BY <1>3, BusyStory, HandlerReturnsStory, PanicsStory, ClientStory, ReportStory, EndStory
  <2>2. UNCHANGED <<role, from, ctx, parent, headers, wire>>
    BY <1>3 DEF WriteHeader, Header, HandlerReturns, Write, Panics, Handling, CallReturns, CallFails,
                Returns, Calling, Report, End, Leaving, enterVars
  <2>3. \A x \in Request : pc'[x] = "idle" <=> pc[x] = "idle"
    <3>1. pc' = pc \/ \E label \in {"report", "unmeasured", "panicking", "end"} \cup Left :
                         pc[r] # "idle" /\ pc' = [pc EXCEPT ![r] = label]
      BY <1>3, Exits DEF WriteHeader, Header, HandlerReturns, Write, Panics, Handling, CallReturns,
                CallFails, Returns, Calling, Report, End, Inside, At, Goto
    <3>. QED  BY <3>1, Exits DEF IInv, StoryInv, StoryTyped
  <2>. QED  BY <2>1, <2>2, <2>3, TreeFrame DEF IInv
<1>4. CASE UNCHANGED vars
  <2>1. Begun' /\ TreeInv'
    BY <1>4, TreeFrame DEF IInv, vars, enterVars
  <2>2. StoryTyped' /\ Judged' /\ Told' /\ Written' /\ Kept'
    BY <1>4 DEF IInv, StoryInv, vars, enterVars, serveVars, storyVars, StoryTyped, Judged, Marks, Told, Logs,
                Written, Kept, proto
  <2>3. NoStreamClient' /\ MetricsAgree' /\ SpanEndsWithRequest' /\ HasSpan'
    BY <1>4 DEF IInv, StoryInv, vars, enterVars, serveVars, storyVars, NoStreamClient, MetricsAgree,
                SpanEndsWithRequest, HasSpan, Clients, proto
  <2>. QED  BY <2>1, <2>2, <2>3 DEF IInv, StoryInv
<1>. QED  BY <1>1, <1>2, <1>3, <1>4 DEF Next

(* The invariant holds throughout. *)
THEOREM SpecIInv == Spec => []IInv
<1>. QED  BY InitIInv, NextIInv, PTL DEF Spec

-----------------------------------------------------------------------------
(* Every variable of the middleware keeps to its type. *)
THEOREM TypeCorrect == Spec => []TypeOK
<1>1. IInv => TypeOK
  BY DEF IInv, TreeInv, TreeTyped, StoryInv, StoryTyped, TypeOK
<1>. QED  BY <1>1, SpecIInv, PTL

(* span.End runs on every way out of a wrapper, a panic of the handler among
   them (middleware/grpc.go, middleware/http.go: defer span.End()). *)
THEOREM SpansEnd == Spec => []SpanEndsWithRequest
<1>1. IInv => SpanEndsWithRequest
  BY DEF IInv, StoryInv
<1>. QED  BY <1>1, SpecIInv, PTL

(* A wrapper counts what it measures, or does neither. *)
THEOREM MetricsTogether == Spec => []MetricsAgree
<1>1. IInv => MetricsAgree
  BY DEF IInv, StoryInv
<1>. QED  BY <1>1, SpecIInv, PTL

(* Span, histogram and log line agree about every request. *)
THEOREM StoriesAgree == Spec => []OneStory
<1>1. IInv => OneStory
  <2>. SUFFICES ASSUME IInv, NEW r \in Request
                PROVE  /\ \A s \in {measured[r], logged[r]} \ {"none"} :
                             marked[r] <=> s = "error" \/ (proto # "http" /\ s = "refused")
                       /\ pc[r] = "done" /\ setup.meter = "works" => measured[r] # "none"
                       /\ pc[r] = "done" /\ Logs(r) => logged[r] # "none"
                       /\ pc[r] \in {"failed", "panicked"} => measured[r] = "none" /\ logged[r] = "none"
    BY DEF OneStory
  <2>. USE DEF IInv, StoryInv
  <2>1. ASSUME NEW s \in {measured[r], logged[r]} \ {"none"}
        PROVE  marked[r] <=> s = "error" \/ (proto # "http" /\ s = "refused")
    <3>1. s = status[r] /\ pc[r] \in Telling
      BY <2>1 DEF Told
    <3>2. (marked[r] <=> Marks(s)) /\ (proto # "http" => s \in Final)
      BY <3>1 DEF Judged, Judging, Telling
    <3>. QED  BY <3>2 DEF Marks, Final
  <2>2. /\ pc[r] = "done" /\ setup.meter = "works" => measured[r] # "none"
        /\ pc[r] = "done" /\ Logs(r) => logged[r] # "none"
    BY DEF Told, Telling
  <2>3. pc[r] \in {"failed", "panicked"} => measured[r] = "none" /\ logged[r] = "none"
    BY DEF Told, Telling
  <2>. QED  BY <2>1, <2>2, <2>3
<1>. QED  BY <1>1, SpecIInv, PTL

(* The two ends of an instrumented call record the same status. *)
THEOREM BothEndsAgree == Spec => []EndsAgree
<1>1. IInv => EndsAgree
  <2>. SUFFICES ASSUME IInv, NEW c \in Clients, NEW s \in Servers,
                       answer[c] = s, pc[s] = "done", tidy[s]
                PROVE  status[c] = status[s] /\ marked[c] = marked[s]
    BY DEF EndsAgree
  <2>. USE DEF IInv, StoryInv
  <2>1. c \in Request /\ s \in Request /\ role[s] = "server"
    BY DEF Clients, Servers
  <2>2. status[c] = sent[s] /\ pc[c] \in Judging
    BY <2>1 DEF Kept
  <2>3. status[s] = sent[s]
    BY <2>1 DEF Written, Answering
  <2>4. (marked[c] <=> Marks(status[c])) /\ (marked[s] <=> Marks(status[s]))
    BY <2>1, <2>2 DEF Judged, Judging
  <2>5. marked[c] \in BOOLEAN /\ marked[s] \in BOOLEAN
    BY <2>1 DEF StoryTyped
  <2>. QED  BY <2>2, <2>3, <2>4, <2>5
<1>. QED  BY <1>1, SpecIInv, PTL

(* The spans of the requests form the tree of the calls
   (propagation/context.go, tracer.Start). *)
THEOREM SpansFormTrees == Spec => []TraceTree
<1>1. IInv => TraceTree
  BY DEF IInv, TreeInv
<1>. QED  BY <1>1, SpecIInv, PTL

(* Baggage reaches the handler it is sent to, and nothing else does. *)
THEOREM BaggageKept == Spec => []BaggageArrives
<1>1. IInv => BaggageArrives
  BY DEF IInv, TreeInv
<1>. QED  BY <1>1, SpecIInv, PTL

-----------------------------------------------------------------------------
(* TraceTree relates a span to its parent.  What follows is about whole
   traces. *)

(* No call is made, over any number of hops, from a request it led to. *)
Acyclic ==
    \E depth \in [Request -> Nat] :
        \A r, up \in Request : from[r] = up => depth[up] < depth[r]

Roots == {r \in Request : from[r] \in {"app", "outside"}}

(* The calls between r and the request its chain of calls began with. *)
DescendsFrom(r, root) ==
    \E n \in Nat : \E path \in [0..n -> Request] :
        /\ path[0] = r /\ path[n] = root
        /\ \A i \in 1..n : from[path[i - 1]] = path[i]

(* Every trace is a tree: its spans descend from a root in the same trace, and
   a trace that was not begun far away has one root only. *)
OneTreePerTrace ==
    /\ Acyclic
    /\ \A r \in Request : role[r] # "none" =>
          \E root \in Roots : DescendsFrom(r, root) /\ TraceID(ctx[root]) = TraceID(ctx[r])
    /\ \A r, s \in Roots :
          TraceID(ctx[r]) = TraceID(ctx[s]) /\ TraceID(ctx[r]) # "far" => r = s

(* What is served has a caller; outsiders begin a trace or name a far one. *)
Sourced ==
    \A r \in Request :
        /\ role[r] # "none" => from[r] # "none"
        /\ from[r] = "outside" => TraceID(ctx[r]) \in {r, "far"}

(* r begins, called by who. *)
Entered(r, who) ==
    /\ role[r] = "none" /\ role'[r] # "none" /\ from'[r] = who /\ who # r
    /\ who = "outside" => TraceID(ctx'[r]) \in {r, "far"}
    /\ \A x \in Request \ {r} :
          role'[x] = role[x] /\ from'[x] = from[x] /\ from[x] # r /\ ctx'[x] = ctx[x]

(* Requests get their caller and their trace when they begin. *)
LEMMA EnteringStep ==
    ASSUME IInv, NEW r \in Request, Call(r) \/ Arrive(r)
    PROVE  \E who \in Request \cup {"app", "outside"} : Entered(r, who)
<1>. USE DEF IInv, TreeInv
<1>1. CASE Call(r)
  <2>1. PICK owner \in {"app"} \cup {s \in Request : role[s] = "server" /\ At(s, "inside")} :
          (\E c : Start(r, c)) /\ Begins(r, "client", owner)
    BY <1>1 DEF Call
  <2>2. owner \in Request => role[owner] # "none"
    BY <2>1, RequestAssumption
  <2>3. /\ role[r] = "none" /\ role'[r] = "client" /\ from'[r] = owner /\ owner # r
        /\ \A x \in Request \ {r} : role'[x] = role[x] /\ from'[x] = from[x] /\ from[x] # r
    BY <2>1, <2>2, BeginsStep DEF StoryInv, StoryTyped, Role
  <2>4. \A x \in Request \ {r} : ctx'[x] = ctx[x]
    BY <2>1 DEF Start, TreeTyped
  <2>5. owner # "outside"
    BY <2>1, RequestAssumption
  <2>. QED  BY <2>1, <2>3, <2>4, <2>5 DEF Entered
<1>2. ASSUME NEW c \in Request, role[c] = "client", Serve(r, c, wire[c])
      PROVE  Entered(r, c)
  <2>1. Begins(r, "server", c) /\ role[c] # "none" /\ c # "outside"
    BY <1>2, RequestAssumption DEF Serve
  <2>2. /\ role[r] = "none" /\ role'[r] = "server" /\ from'[r] = c /\ c # r
        /\ \A x \in Request \ {r} : role'[x] = role[x] /\ from'[x] = from[x] /\ from[x] # r
    BY <2>1, BeginsStep DEF StoryInv, StoryTyped, Role
  <2>3. \A x \in Request \ {r} : ctx'[x] = ctx[x]
    BY <1>2 DEF Serve, Start, TreeTyped
  <2>. QED  BY <2>1, <2>2, <2>3 DEF Entered
<1>3. ASSUME NEW h \in OutsideHeaders, Serve(r, "outside", h)
      PROVE  Entered(r, "outside")
  <2>1. Begins(r, "server", "outside") /\ "outside" \notin Request
    BY <1>3, RequestAssumption DEF Serve
  <2>2. /\ role[r] = "none" /\ role'[r] = "server" /\ from'[r] = "outside"
        /\ \A x \in Request \ {r} : role'[x] = role[x] /\ from'[x] = from[x] /\ from[x] # r
    BY <2>1, BeginsStep DEF StoryInv, StoryTyped, Role
  <2>3. h \in Contexts /\ h.trace \in {NoTrace, "far"} /\ (h.trace = NoTrace => h.span = NoSpan)
    BY OutsideAssumption DEF Contexts
  <2>4. PICK c \in Contexts : Start(r, c) /\ c.trace = h.trace
    BY <1>3, <2>3, ArrivalContext DEF Serve
  <2>5. /\ ctx'[r].trace = IF c.trace = NoTrace THEN r ELSE c.trace
        /\ \A x \in Request \ {r} : ctx'[x] = ctx[x]
    BY <2>4, StartStep
  <2>6. TraceID(ctx'[r]) \in {r, "far"}
    BY <2>3, <2>4, <2>5 DEF TraceID
  <2>7. r # "outside"
    BY <2>1
  <2>. QED  BY <2>2, <2>5, <2>6, <2>7 DEF Entered
<1>. QED  BY <1>1, <1>2, <1>3 DEF Arrive

(* Until then nothing is known of them, and afterwards neither changes. *)
LEMMA TraceStep ==
    ASSUME IInv, [Next]_vars
    PROVE  \/ /\ UNCHANGED <<role, from>>
              /\ \A x \in Request : TraceID(ctx'[x]) = TraceID(ctx[x])
           \/ \E r \in Request, who \in Request \cup {"app", "outside"} : Entered(r, who)
<1>1. ASSUME NEW r \in Request, Call(r) \/ Arrive(r)
      PROVE  \E who \in Request \cup {"app", "outside"} : Entered(r, who)
  BY <1>1, EnteringStep
<1>2. ASSUME NEW r \in Request, NEW key \in Key, NEW raw \in Raw, HandlerSetsBaggage(r, key, raw)
      PROVE  /\ UNCHANGED <<role, from>>
             /\ \A x \in Request : TraceID(ctx'[x]) = TraceID(ctx[x])
  <2>1. UNCHANGED <<role, from>> /\ ctx' = [ctx EXCEPT ![r] = SetBaggage(ctx[r], key, raw)]
    BY <1>2 DEF HandlerSetsBaggage, Handling, enterVars
  <2>2. ctx \in [Request -> Contexts]
    BY DEF IInv, TreeInv, TreeTyped
  <2>3. SetBaggage(ctx[r], key, raw).trace = ctx[r].trace
    BY <2>2, SetBaggageKeeps
  <2>. QED  BY <2>1, <2>2, <2>3 DEF TraceID
<1>3. ASSUME NEW r \in Request,
             \/ \E code \in Status : WriteHeader(r, code) \/ HandlerReturns(r, code)
             \/ Write(r) \/ Panics(r) \/ CallReturns(r) \/ CallFails(r) \/ Report(r) \/ End(r)
      PROVE  UNCHANGED <<role, from, ctx>>
  BY <1>3 DEF WriteHeader, Header, HandlerReturns, Write, Panics, Handling, CallReturns, CallFails,
              Returns, Calling, Report, End, Leaving, enterVars
<1>4. CASE UNCHANGED vars
  BY <1>4 DEF vars, enterVars
<1>. QED  BY <1>1, <1>2, <1>3, <1>4 DEF Next

(* One that begins goes below its caller; nobody is below it yet. *)
LEMMA AcyclicSourced ==
    ASSUME IInv, Acyclic, Sourced, [Next]_vars
    PROVE  Acyclic' /\ Sourced'
<1>1. CASE /\ UNCHANGED <<role, from>>
           /\ \A x \in Request : TraceID(ctx'[x]) = TraceID(ctx[x])
  BY <1>1 DEF Acyclic, Sourced
<1>2. ASSUME NEW r \in Request, NEW who \in Request \cup {"app", "outside"}, Entered(r, who)
      PROVE  Acyclic' /\ Sourced'
  <2>1. Sourced'
    BY <1>2, RequestAssumption DEF Sourced, Entered
  <2>2. PICK d \in [Request -> Nat] :
          \A x, up \in Request : from[x] = up => d[up] < d[x]
    BY DEF Acyclic
  <2>. DEFINE below == [d EXCEPT ![r] = IF who \in Request THEN d[who] + 1 ELSE 0]
  <2>4. below \in [Request -> Nat]
    OBVIOUS
  <2>5. ASSUME NEW x \in Request, NEW up \in Request, from'[x] = up
        PROVE  below[up] < below[x]
    <3>1. CASE x = r
      <4>1. up = who /\ up # r
        BY <1>2, <2>5, <3>1 DEF Entered
      <4>. QED  BY <3>1, <4>1
    <3>2. CASE x # r
      <4>1. from[x] = up /\ up # r
        BY <1>2, <2>5, <3>2 DEF Entered
      <4>. QED  BY <2>2, <3>2, <4>1
    <3>. QED  BY <3>1, <3>2
  <2>. HIDE DEF below
  <2>6. Acyclic'
    BY <2>4, <2>5 DEF Acyclic
  <2>. QED  BY <2>1, <2>6
<1>. QED  BY <1>1, <1>2, TraceStep

(* A chain of calls, one call longer. *)
LEMMA LongerChain ==
    ASSUME NEW r \in Request, NEW up \in Request, NEW root, from[r] = up, DescendsFrom(up, root)
    PROVE  DescendsFrom(r, root)
<1>1. PICK n \in Nat : \E path \in [0..n -> Request] :
        /\ path[0] = up /\ path[n] = root
        /\ \A i \in 1..n : from[path[i - 1]] = path[i]
  BY DEF DescendsFrom
<1>2. PICK path \in [0..n -> Request] :
        /\ path[0] = up /\ path[n] = root
        /\ \A i \in 1..n : from[path[i - 1]] = path[i]
  BY <1>1
<1>. DEFINE longer == [i \in 0..(n + 1) |-> IF i = 0 THEN r ELSE path[i - 1]]
<1>3. longer \in [0..(n + 1) -> Request] /\ longer[0] = r /\ longer[n + 1] = root
  <2>1. \A i \in 0..(n + 1) : i # 0 => i - 1 \in 0..n
    OBVIOUS
  <2>. QED  BY <1>2, <2>1
<1>4. ASSUME NEW i \in 1..(n + 1) PROVE from[longer[i - 1]] = longer[i]
  <2>1. CASE i = 1
    BY <1>2, <2>1
  <2>2. CASE i # 1
    <3>1. i - 1 \in 1..n /\ longer[i] = path[i - 1] /\ longer[i - 1] = path[(i - 1) - 1]
      BY <2>2
    <3>. QED  BY <1>2, <3>1
  <2>. QED  BY <2>1, <2>2
<1>. HIDE DEF longer
<1>5. n + 1 \in Nat
  OBVIOUS
<1>. QED  BY <1>3, <1>4, <1>5 DEF DescendsFrom

(* Going up from caller to caller, one comes to a root: a request without one
   that is least deep would have a caller without one, less deep still. *)
LEMMA RootsReached ==
    ASSUME IInv, Acyclic, Sourced, NEW r \in Request, role[r] # "none"
    PROVE  \E root \in Roots : DescendsFrom(r, root) /\ TraceID(ctx[root]) = TraceID(ctx[r])
<1>. DEFINE Reached(x) ==
       \E root \in Roots : DescendsFrom(x, root) /\ TraceID(ctx[root]) = TraceID(ctx[x])
<1>1. PICK depth \in [Request -> Nat] : \A x, up \in Request : from[x] = up => depth[up] < depth[x]
  BY DEF Acyclic
<1>. DEFINE Astray == {x \in Request : role[x] # "none" /\ ~Reached(x)}
            Depths == {depth[x] : x \in Astray}
<1>2. SUFFICES ASSUME r \in Astray PROVE FALSE
  OBVIOUS
<1>3. PICK least \in Depths : \A other \in Depths : least <= other
  <2>1. Depths \subseteq Nat /\ Depths # {}
    BY <1>2
  <2>. HIDE DEF Depths
  <2>. QED  BY <2>1, LeastNat
<1>4. PICK x \in Astray : depth[x] = least
  OBVIOUS
<1>5. x \in Request /\ role[x] # "none" /\ ~Reached(x)
  OBVIOUS
<1>6. from[x] \in Request \cup {"app", "outside"}
  BY <1>5 DEF Sourced, IInv, TreeInv, TreeTyped
<1>7. CASE from[x] \in Request
  <2>1. PICK up \in Request : from[x] = up
    BY <1>7
  <2>2. role[up] # "none" /\ TraceID(ctx[up]) = TraceID(ctx[x])
    BY <1>5, <2>1 DEF IInv, TreeInv, Begun, TraceTree
  <2>3. ~Reached(up)
    <3>1. ASSUME NEW root \in Roots, DescendsFrom(up, root)
          PROVE  DescendsFrom(x, root)
      BY <1>5, <2>1, <3>1, LongerChain
    <3>. QED  BY <1>5, <2>2, <3>1
  <2>4. depth[up] \in Depths /\ depth[up] < depth[x] /\ depth[up] \in Nat /\ depth[x] \in Nat
    BY <1>1, <1>5, <2>1, <2>2, <2>3
  <2>. QED  BY <1>3, <1>4, <2>4
<1>8. CASE from[x] \in {"app", "outside"}
  <2>1. x \in Roots
    BY <1>5, <1>8 DEF Roots
  <2>. DEFINE path == [i \in 0..0 |-> x]
  <2>2. path \in [0..0 -> Request] /\ path[0] = x /\ \A i \in 1..0 : from[path[i - 1]] = path[i]
    BY <1>5
  <2>. HIDE DEF path
  <2>3. DescendsFrom(x, x)
    BY <2>2 DEF DescendsFrom
  <2>. QED  BY <1>5, <2>1, <2>3
<1>. QED  BY <1>6, <1>7, <1>8

(* However calls are forwarded, repeated, delayed or lost, the spans with one
   trace identifier are one tree (propagation/context.go, tracer.Start). *)
THEOREM TracesAreTrees == Spec => []OneTreePerTrace
<1>1. Init => Acyclic /\ Sourced
  <2>. SUFFICES ASSUME Init PROVE Acyclic /\ Sourced
    OBVIOUS
  <2>1. \A r \in Request : role[r] = "none" /\ from[r] = "none"
    BY DEF Init
  <2>. DEFINE depth == [r \in Request |-> 0]
  <2>2. depth \in [Request -> Nat]
    OBVIOUS
  <2>. HIDE DEF depth
  <2>3. Acyclic
    BY <2>1, <2>2, RequestAssumption DEF Acyclic
  <2>. QED  BY <2>1, <2>3 DEF Sourced
<1>2. IInv /\ Acyclic /\ Sourced /\ [Next]_vars => Acyclic' /\ Sourced'
  BY AcyclicSourced
<1>3. IInv /\ Acyclic /\ Sourced => OneTreePerTrace
  <2>. SUFFICES ASSUME IInv, Acyclic, Sourced PROVE OneTreePerTrace
    OBVIOUS
  <2>1. ASSUME NEW r \in Roots, NEW s \in Roots,
               TraceID(ctx[r]) = TraceID(ctx[s]), TraceID(ctx[r]) # "far"
        PROVE  r = s
    <3>1. \A x \in Roots : TraceID(ctx[x]) \in {x, "far"}
      BY DEF Roots, Sourced, IInv, TreeInv, TraceTree
    <3>. QED  BY <2>1, <3>1
  <2>. QED  BY <2>1, RootsReached DEF OneTreePerTrace
<1>. QED  BY <1>1, <1>2, <1>3, SpecIInv, PTL DEF Spec
==============================================================================
