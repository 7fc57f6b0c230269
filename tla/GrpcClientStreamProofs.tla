----------------------- MODULE GrpcClientStreamProofs -----------------------
(***************************************************************************)
(* Proofs, for any number of requests and responses, that the span of a    *)
(* streaming RPC ends once and tells how the RPC ended, however SendMsg,   *)
(* RecvMsg and the transport race, and of which RPCs it ends at all.       *)
(***************************************************************************)
EXTENDS GrpcClientStream, TLAPS

InWrapper(g) == pc[g] \in {"setError", "end"}

(* What has not been opened has not been used; the span of an open stream is
   ended by endOnce and by nothing else. *)
Opened ==
    /\ rpc = "closed" => /\ \A g \in Goroutine : ~InWrapper(g) /\ err[g] = "nil"
                         /\ ~endOnce /\ inbox = 0
                         /\ span # "live"
    /\ rpc # "closed" => span # "none" /\ (endOnce <=> span = "ended")

(* A wrapper goes past the call only when the RPC is over; RecvMsg returns
   io.EOF only when it was OK, and to a receiver that then stops. *)
OverBeforeEnd ==
    /\ \A g \in Goroutine : InWrapper(g) => rpc \in {"ok", "failed"}
    /\ err["receiver"] = "EOF" => rpc = "ok" /\ pc["receiver"] \in {"end", "ready"}

(* A goroutine about to end the span has marked it, or need not: it is the
   receiver with io.EOF, or the other one was first.  So only io.EOF of RecvMsg
   ends a span unmarked. *)
MarkedBeforeEnd ==
    /\ \A g \in Goroutine :
          pc[g] = "end" => marked \/ span = "ended" \/ (g = "receiver" /\ err[g] = "EOF")
    /\ span = "ended" /\ ~marked => err["receiver"] = "EOF"

IInv ==
    /\ TypeOK
    /\ inbox <= responses
    /\ EndsOnce
    /\ Opened
    /\ OverBeforeEnd
    /\ MarkedBeforeEnd
    /\ FailureIsMarked
    /\ UnmarkedMeansOk

-----------------------------------------------------------------------------
(* Before the interceptor runs there is no span and no RPC. *)
THEOREM InitIInv == Init => IInv
<1>. SUFFICES ASSUME Init PROVE IInv
  OBVIOUS
<1>1. TypeOK /\ inbox <= responses
  <2>1. inbox \in 0..MaxResponses /\ responses \in 0..MaxResponses /\ sends \in 0..MaxSends
    BY BoundsAssumption DEF Init
  <2>2. inbox <= responses /\ ends \in 0..1
    BY DEF Init
  <2>. QED  BY <2>1, <2>2 DEF Init, TypeOK
<1>2. EndsOnce /\ Opened /\ OverBeforeEnd
  BY DEF Init, EndsOnce, Opened, OverBeforeEnd, InWrapper, Goroutine
<1>3. MarkedBeforeEnd /\ FailureIsMarked /\ UnmarkedMeansOk
  BY DEF Init, MarkedBeforeEnd, FailureIsMarked, UnmarkedMeansOk
<1>. QED  BY <1>1, <1>2, <1>3 DEF IInv

-----------------------------------------------------------------------------
(* Each action preserves IInv. *)

(* The interceptor opens the stream, or ends the span of one it cannot open. *)
LEMMA OpenStep == ASSUME IInv, StreamOpens \/ StreamFails PROVE IInv'
<1>. USE DEF IInv, StreamOpens, StreamFails, rpcVars, callVars
<1>1. rpc = "closed"
  BY DEF Opened
<1>2. TypeOK' /\ inbox' <= responses'
  <2>1. ends = 0 /\ ends' \in 0..1
    BY DEF EndsOnce
  <2>. QED  BY <2>1 DEF TypeOK
<1>3. EndsOnce'
  BY <1>1 DEF EndsOnce
<1>4. Opened'
  BY <1>1 DEF Opened, InWrapper
<1>5. OverBeforeEnd' /\ MarkedBeforeEnd'
  BY <1>1 DEF Opened, OverBeforeEnd, MarkedBeforeEnd, InWrapper
<1>6. FailureIsMarked' /\ UnmarkedMeansOk'
  BY <1>1 DEF Opened, FailureIsMarked, UnmarkedMeansOk
<1>. QED  BY <1>2, <1>3, <1>4, <1>5, <1>6

(* The transport hears from the server, or loses it. *)
LEMMA RpcStep ==
    ASSUME IInv, ServerResponds \/ ServerFinishes \/ RpcFails
    PROVE  IInv'
<1>. USE DEF IInv, ServerResponds, ServerFinishes, RpcFails, callVars, spanVars
<1>1. TypeOK' /\ inbox' <= responses'
  BY BoundsAssumption DEF TypeOK
<1>2. EndsOnce'
  BY DEF EndsOnce
<1>3. Opened' /\ OverBeforeEnd'
  BY DEF Opened, OverBeforeEnd, InWrapper
<1>4. MarkedBeforeEnd' /\ FailureIsMarked'
  BY DEF OverBeforeEnd, InWrapper, MarkedBeforeEnd, FailureIsMarked
<1>5. UnmarkedMeansOk'
  BY DEF EndsOnce, UnmarkedMeansOk
<1>. QED  BY <1>1, <1>2, <1>3, <1>4, <1>5

(* A call of SendMsg. *)
LEMMA SendStep == ASSUME IInv, SendMsg PROVE IInv'
<1>. USE DEF IInv, SendMsg, SendMsgOk, SendMsgFails, SendMsgEOF, Send, Returns, Goto,
             Aborted, Goroutine, spanVars
<1>1. TypeOK' /\ inbox' <= responses'
  BY BoundsAssumption DEF TypeOK
<1>2. EndsOnce'
  BY DEF EndsOnce
<1>3. Opened'
  BY DEF Opened, InWrapper, TypeOK
<1>4. OverBeforeEnd'
  BY DEF OverBeforeEnd, InWrapper, TypeOK
<1>5. MarkedBeforeEnd' /\ FailureIsMarked'
  BY DEF OverBeforeEnd, InWrapper, MarkedBeforeEnd, FailureIsMarked, TypeOK
<1>6. UnmarkedMeansOk'
  BY DEF EndsOnce, UnmarkedMeansOk
<1>. QED  BY <1>1, <1>2, <1>3, <1>4, <1>5, <1>6

(* A call of RecvMsg. *)
LEMMA RecvStep == ASSUME IInv, RecvMsg PROVE IInv'
<1>. USE DEF IInv, RecvMsg, RecvMsgOk, RecvMsgEOF, RecvMsgFails, Recv, Returns, Goto,
             Aborted, Goroutine, spanVars
<1>1. TypeOK' /\ inbox' <= responses'
  BY BoundsAssumption DEF TypeOK
<1>2. EndsOnce'
  BY DEF EndsOnce
<1>3. Opened'
  BY DEF Opened, InWrapper, TypeOK
<1>4. OverBeforeEnd'
  BY DEF Opened, OverBeforeEnd, InWrapper, TypeOK
<1>5. MarkedBeforeEnd'
  BY DEF MarkedBeforeEnd, TypeOK
<1>6. FailureIsMarked'
  BY DEF FailureIsMarked, TypeOK
<1>7. UnmarkedMeansOk'
  BY DEF UnmarkedMeansOk
<1>. QED  BY <1>1, <1>2, <1>3, <1>4, <1>5, <1>6, <1>7

(* The wrapper records the error: on a live span, or on none. *)
LEMMA SetErrorStep == ASSUME IInv, NEW g \in Goroutine, SetError(g) PROVE IInv'
<1>. USE DEF IInv, SetError, Goto, rpcVars
<1>1. TypeOK' /\ inbox' <= responses'
  BY DEF TypeOK
<1>2. EndsOnce' /\ Opened' /\ OverBeforeEnd'
  BY DEF EndsOnce, Opened, OverBeforeEnd, InWrapper, TypeOK
<1>3. MarkedBeforeEnd'
  BY DEF MarkedBeforeEnd, Opened, OverBeforeEnd, InWrapper, TypeOK
<1>4. FailureIsMarked' /\ UnmarkedMeansOk'
  BY DEF FailureIsMarked, UnmarkedMeansOk, TypeOK
<1>. QED  BY <1>1, <1>2, <1>3, <1>4

(* The wrapper ends the span, unless the other goroutine has. *)
LEMMA EndSpanStep == ASSUME IInv, NEW g \in Goroutine, EndSpan(g) PROVE IInv'
<1>. USE DEF IInv, EndSpan, Goto, rpcVars
<1>1. rpc \in {"ok", "failed"} /\ span # "none" /\ (endOnce <=> span = "ended")
  BY DEF OverBeforeEnd, InWrapper, Opened
<1>2. span' = "ended" /\ endOnce' = TRUE /\ ends' = 1
  BY <1>1 DEF EndsOnce, TypeOK
<1>3. TypeOK' /\ inbox' <= responses'
  BY <1>2 DEF TypeOK
<1>4. EndsOnce' /\ Opened' /\ OverBeforeEnd' /\ MarkedBeforeEnd'
  BY <1>1, <1>2 DEF EndsOnce, Opened, OverBeforeEnd, MarkedBeforeEnd, InWrapper, TypeOK
<1>5. UnmarkedMeansOk'
  BY <1>4 DEF MarkedBeforeEnd, OverBeforeEnd, UnmarkedMeansOk
<1>6. FailureIsMarked'
  BY <1>2, <1>4 DEF MarkedBeforeEnd, FailureIsMarked, Goroutine
<1>. QED  BY <1>3, <1>4, <1>5, <1>6

(* Every step of the stream preserves the invariant. *)
THEOREM NextIInv == IInv /\ [Next]_vars => IInv'
<1>. SUFFICES ASSUME IInv, [Next]_vars PROVE IInv'
  OBVIOUS
<1>1. CASE StreamOpens \/ StreamFails
  BY <1>1, OpenStep
<1>2. CASE ServerResponds \/ ServerFinishes \/ RpcFails
  BY <1>2, RpcStep
<1>3. CASE SendMsg \/ RecvMsg
  BY <1>3, SendStep, RecvStep
<1>4. ASSUME NEW g \in Goroutine, Wrapper(g) PROVE IInv'
  BY <1>4, SetErrorStep, EndSpanStep DEF Wrapper
<1>5. CASE UNCHANGED vars
  BY <1>5 DEF vars, rpcVars, callVars, spanVars, IInv, TypeOK, EndsOnce, Opened, InWrapper,
              OverBeforeEnd, MarkedBeforeEnd, FailureIsMarked, UnmarkedMeansOk
<1>. QED  BY <1>1, <1>2, <1>3, <1>4, <1>5 DEF Next

(* The invariant holds throughout. *)
THEOREM SpecIInv == Spec => []IInv
<1>. QED  BY InitIInv, NextIInv, PTL DEF Spec

-----------------------------------------------------------------------------
(* Every variable of the stream keeps to its type. *)
THEOREM TypeCorrect == Spec => []TypeOK
<1>1. IInv => TypeOK
  BY DEF IInv
<1>. QED  BY <1>1, SpecIInv, PTL

(* endOnce makes concurrent SendMsg and RecvMsg end the span once, and after
   the RPC (middleware/grpc_client.go, endSpan). *)
THEOREM SpanEndsOnce == Spec => []EndsOnce
<1>1. IInv => EndsOnce
  BY DEF IInv
<1>. QED  BY <1>1, SpecIInv, PTL

(* An error that the application is told of is on the span, although the
   other goroutine may have ended it first; the one exception is an error of
   SendMsg's own after RecvMsg has met the end of an RPC that was OK. *)
THEOREM FailuresMarked == Spec => []FailureIsMarked
<1>1. IInv => FailureIsMarked
  BY DEF IInv
<1>. QED  BY <1>1, SpecIInv, PTL

(* No failed RPC leaves an ended span without the error status. *)
THEOREM UnmarkedOk == Spec => []UnmarkedMeansOk
<1>1. IInv => UnmarkedMeansOk
  BY DEF IInv
<1>. QED  BY <1>1, SpecIInv, PTL
-----------------------------------------------------------------------------
(* SpanEndsWithTheStream fails when there is one response.  What holds is that
   the wrappers end the span for an error and for nothing else. *)

(* A goroutine inside a wrapper, or back with an error, has met one; the span
   is not ended before some goroutine has; and only the one response lets the
   receiver stop without. *)
ErrorFirst ==
    /\ \A g \in Goroutine : InWrapper(g) => err[g] # "nil"
    /\ \A g \in Goroutine : pc[g] = "ready" /\ err[g] # "nil" => endOnce
    /\ endOnce => \E g \in Goroutine : err[g] # "nil"
    /\ pc["sender"] # "stop"
    /\ pc["receiver"] = "stop" => kind = "one" /\ err["receiver"] = "nil"

LEMMA ErrorFirstStep == ASSUME IInv, ErrorFirst, [Next]_vars PROVE ErrorFirst'
<1>. USE DEF Goroutine, InWrapper
<1>1. CASE StreamOpens \/ StreamFails \/ ServerResponds \/ ServerFinishes \/ RpcFails \/ UNCHANGED vars
  BY <1>1 DEF ErrorFirst, StreamOpens, StreamFails, ServerResponds, ServerFinishes, RpcFails,
              vars, rpcVars, callVars, spanVars
<1>2. CASE SendMsg
  BY <1>2 DEF IInv, TypeOK, ErrorFirst, SendMsg, SendMsgOk, SendMsgFails, SendMsgEOF,
              Send, Returns, Goto, spanVars
<1>3. CASE RecvMsg
  BY <1>3 DEF IInv, TypeOK, ErrorFirst, RecvMsg, RecvMsgOk, RecvMsgEOF, RecvMsgFails,
              Recv, Returns, Goto, spanVars
<1>4. ASSUME NEW g \in Goroutine, SetError(g) PROVE ErrorFirst'
  BY <1>4 DEF IInv, TypeOK, ErrorFirst, SetError, Goto, rpcVars
<1>5. ASSUME NEW g \in Goroutine, EndSpan(g) PROVE ErrorFirst'
  BY <1>5 DEF IInv, TypeOK, ErrorFirst, EndSpan, Goto, rpcVars
<1>. QED  BY <1>1, <1>2, <1>3, <1>4, <1>5 DEF Next, Wrapper

LEMMA SpecErrorFirst == Spec => []ErrorFirst
<1>1. Init => ErrorFirst
  BY DEF Init, ErrorFirst, InWrapper, Goroutine
<1>2. IInv /\ ErrorFirst /\ [Next]_vars => ErrorFirst'
  BY ErrorFirstStep
<1>. QED  BY <1>1, <1>2, SpecIInv, PTL DEF Spec

(* Between the calls on an open stream its span has ended exactly if SendMsg or
   RecvMsg has returned an error to one of the goroutines. *)
EndsForErrors ==
    rpc # "closed" /\ ~InCall => (span = "ended" <=> \E g \in Goroutine : err[g] # "nil")

(* The wrappers end the span for io.EOF and other errors, and for nothing else:
   a call with one response that succeeds leaves it open, unless a further
   SendMsg meets the end of the stream (middleware/grpc_client.go:145-164). *)
THEOREM EndsOnlyForErrors == Spec => []EndsForErrors
<1>1. IInv /\ ErrorFirst => EndsForErrors
  <2>. SUFFICES ASSUME IInv, ErrorFirst, rpc # "closed", ~InCall
                PROVE  endOnce <=> \E g \in Goroutine : err[g] # "nil"
    BY DEF EndsForErrors, IInv, Opened
  <2>1. ASSUME NEW g \in Goroutine, err[g] # "nil" PROVE pc[g] = "ready"
    BY <2>1 DEF IInv, TypeOK, InCall, ErrorFirst, Goroutine
  <2>. QED  BY <2>1 DEF ErrorFirst
<1>. QED  BY <1>1, SpecIInv, SpecErrorFirst, PTL

(* The span lives for the full duration of the stream when the server may
   answer more than once: "creates a client span that lives for the full
   duration of the stream" (middleware/grpc_client.go:102). *)
THEOREM ManyResponsesEnd == Spec /\ kind = "many" => []SpanEndsWithTheStream
<1>1. IInv /\ ErrorFirst /\ EndsForErrors /\ kind = "many" => SpanEndsWithTheStream
  <2>. SUFFICES ASSUME IInv, ErrorFirst, EndsForErrors, kind = "many", Told, ~InCall, span # "ended"
                PROVE  FALSE
    BY DEF SpanEndsWithTheStream
  <2>1. \E g \in Goroutine : err[g] # "nil"
    BY DEF Told, ErrorFirst, Goroutine
  <2>2. rpc # "closed"
    BY <2>1 DEF IInv, Opened
  <2>. QED  BY <2>1, <2>2 DEF EndsForErrors
<1>2. kind = "many" /\ [Next]_vars => (kind = "many")'
  BY DEF Next, StreamOpens, StreamFails, ServerResponds, ServerFinishes, RpcFails,
         SendMsg, SendMsgOk, SendMsgFails, SendMsgEOF, Send,
         RecvMsg, RecvMsgOk, RecvMsgEOF, RecvMsgFails, Recv,
         Wrapper, SetError, EndSpan, vars, rpcVars
<1>. QED  BY <1>1, <1>2, SpecIInv, SpecErrorFirst, EndsOnlyForErrors, PTL DEF Spec
=============================================================================
