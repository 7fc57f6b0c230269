-------------------------- MODULE GrpcClientStream --------------------------
(***************************************************************************)
(* The span of one streaming RPC on the client: StreamClientInterceptor    *)
(* and wrappedClientStream of middleware/grpc_client.go, with the          *)
(* application goroutine that calls SendMsg and the one that calls         *)
(* RecvMsg, which gRPC allows to run at the same time.                     *)
(*                                                                         *)
(* The stream under the wrapper is gRPC's: it is modelled by what the      *)
(* wrapper sees of it.  SendMsg fails with io.EOF once the RPC is over, or *)
(* with an error of its own (a message it cannot encode or that is too     *)
(* large, a call after CloseSend), which it finds before it looks at the   *)
(* RPC and which aborts one that is under way.  RecvMsg hands out the      *)
(* responses, or fails on one it cannot decode, and then tells how the RPC *)
(* ended: io.EOF for OK, else the status.  When the server answers with    *)
(* one response, RecvMsg waits for the status too and returns nil for an   *)
(* OK one.                                                                 *)
(***************************************************************************)
EXTENDS Naturals

CONSTANTS
    MaxSends,       \* bound: requests the application sends
    MaxResponses    \* bound: responses the server sends on one stream

ASSUME BoundsAssumption == MaxSends \in Nat /\ MaxResponses \in Nat \ {0}

VARIABLES
    kind,       \* the server answers with "one" response or with "many"
    rpc,        \* the state of the RPC as the client's transport knows it
    inbox,      \* responses received and not yet read
    responses,  \* responses sent by the server
    sends,      \* calls of SendMsg
    pc,         \* where the two goroutines are inside SendMsg and RecvMsg
    err,        \* what the stream's own SendMsg or RecvMsg returned last:
                \* "nil", "EOF", or "status" for any other error
    span,       \* the span: "none", "live" or "ended"
    marked,     \* the span has the error status
    endOnce,    \* endOnce has run
    ends        \* calls of span.End

rpcVars  == <<kind, rpc, inbox, responses>>
callVars == <<sends, pc, err>>
spanVars == <<span, marked, endOnce, ends>>
vars     == <<rpcVars, callVars, spanVars>>

Goroutine == {"sender", "receiver"}

Init ==
    /\ kind \in {"one", "many"}
    /\ rpc = "closed"
    /\ inbox = 0
    /\ responses = 0
    /\ sends = 0
    /\ pc = [g \in Goroutine |-> "ready"]
    /\ err = [g \in Goroutine |-> "nil"]
    /\ span = "none"
    /\ marked = FALSE
    /\ endOnce = FALSE
    /\ ends = 0

-----------------------------------------------------------------------------
(* The interceptor: start the span, then open the stream. *)

StreamOpens ==
    /\ span = "none"
    /\ rpc' = "open"
    /\ span' = "live"
    /\ UNCHANGED <<kind, inbox, responses, callVars, marked, endOnce, ends>>

StreamFails ==
    /\ span = "none"
    /\ span' = "ended"
    /\ marked' = TRUE
    /\ ends' = ends + 1
    /\ UNCHANGED <<rpcVars, callVars, endOnce>>

-----------------------------------------------------------------------------
(* The RPC, as the client's transport sees it. *)

ServerResponds ==
    /\ rpc = "open"
    /\ responses < IF kind = "one" THEN 1 ELSE MaxResponses
    /\ responses' = responses + 1
    /\ inbox' = inbox + 1
    /\ UNCHANGED <<kind, rpc, callVars, spanVars>>

ServerFinishes ==
    /\ rpc = "open"
    /\ kind = "one" => responses = 1
    /\ rpc' = "ok"
    /\ UNCHANGED <<kind, inbox, responses, callVars, spanVars>>

(* A status that is not OK, a lost connection or a cancelled context. *)
RpcFails ==
    /\ rpc = "open"
    /\ rpc' = "failed"
    /\ UNCHANGED <<kind, inbox, responses, callVars, spanVars>>

-----------------------------------------------------------------------------
(* wrappedClientStream.SendMsg and RecvMsg.  Each goroutine stops calling  *)
(* when a call has failed, and the receiver when it has the one response.  *)

Goto(g, label) == pc' = [pc EXCEPT ![g] = label]

Returns(g, e) == err' = [err EXCEPT ![g] = e]

Send(e) ==
    /\ pc["sender"] = "ready" /\ err["sender"] = "nil"
    /\ sends < MaxSends
    /\ sends' = sends + 1
    /\ Returns("sender", e)
    /\ UNCHANGED <<kind, inbox, responses, spanVars>>

SendMsgOk ==
    /\ rpc = "open"
    /\ Send("nil")
    /\ UNCHANGED <<rpc, pc>>

(* An error of the client's own ends the RPC, if the server has not. *)
Aborted == IF rpc = "open" THEN "failed" ELSE rpc

SendMsgFails ==
    /\ rpc # "closed"
    /\ rpc' = Aborted
    /\ Send("status")
    /\ Goto("sender", "setError")

SendMsgEOF ==
    /\ rpc \in {"ok", "failed"}
    /\ Send("EOF")
    /\ Goto("sender", "setError")
    /\ UNCHANGED rpc

Recv(e) ==
    /\ pc["receiver"] = "ready" /\ err["receiver"] = "nil"
    /\ Returns("receiver", e)
    /\ UNCHANGED <<kind, responses, sends, spanVars>>

(* Mutant: every call of RecvMsg ends the span. *)
RecvMsgOkEnds ==
    /\ inbox > 0
    /\ kind = "one" => rpc = "ok"
    /\ inbox' = inbox - 1
    /\ Recv("nil")
    /\ Goto("receiver", "end")
    /\ UNCHANGED rpc

RecvMsgOk ==
    /\ inbox > 0
    /\ kind = "one" => rpc = "ok"
    /\ inbox' = inbox - 1
    /\ Recv("nil")
    /\ IF kind = "one" THEN Goto("receiver", "stop") ELSE UNCHANGED pc
    /\ UNCHANGED rpc

(* Mutant: io.EOF is treated like nil. *)
RecvMsgEOFIgnored ==
    /\ kind = "many" /\ rpc = "ok" /\ inbox = 0
    /\ Recv("EOF")
    /\ UNCHANGED <<rpc, inbox, pc>>

RecvMsgEOF ==
    /\ kind = "many" /\ rpc = "ok" /\ inbox = 0
    /\ Recv("EOF")
    /\ Goto("receiver", "end")
    /\ UNCHANGED <<rpc, inbox>>

(* Mutant: no error of RecvMsg is recorded. *)
RecvMsgFailsUnmarked ==
    /\ rpc = "failed" \/ inbox > 0
    /\ rpc' = Aborted
    /\ Recv("status")
    /\ Goto("receiver", "end")
    /\ UNCHANGED inbox

(* The RPC has failed, or the next response cannot be decoded. *)
RecvMsgFails ==
    /\ rpc = "failed" \/ inbox > 0
    /\ rpc' = Aborted
    /\ Recv("status")
    /\ Goto("receiver", "setError")
    /\ UNCHANGED inbox

(* span.SetError: a span that has ended takes no status. *)
SetError(g) ==
    /\ pc[g] = "setError"
    /\ marked' = (marked \/ span = "live")
    /\ Goto(g, "end")
    /\ UNCHANGED <<rpcVars, sends, err, span, endOnce, ends>>

(* Mutant: without endOnce. *)
EndSpanAgain(g) ==
    /\ pc[g] = "end"
    /\ span' = "ended"
    /\ ends' = ends + 1
    /\ Goto(g, "ready")
    /\ UNCHANGED <<rpcVars, sends, err, marked, endOnce>>

(* endSpan, and the return to the application. *)
EndSpan(g) ==
    /\ pc[g] = "end"
    /\ IF endOnce
         THEN UNCHANGED <<span, endOnce, ends>>
         ELSE span' = "ended" /\ endOnce' = TRUE /\ ends' = ends + 1
    /\ Goto(g, "ready")
    /\ UNCHANGED <<rpcVars, sends, err, marked>>

Wrapper(g) == SetError(g) \/ EndSpan(g)
SendMsg == SendMsgOk \/ SendMsgFails \/ SendMsgEOF
RecvMsg == RecvMsgOk \/ RecvMsgEOF \/ RecvMsgFails

-----------------------------------------------------------------------------
(* The application has been told how the RPC ended. *)
Told ==
    \/ span = "ended" /\ rpc = "closed"
    \/ pc["receiver"] = "stop"
    \/ pc["receiver"] = "ready" /\ err["receiver"] # "nil"
    \/ pc["sender"] = "ready" /\ err["sender"] = "status"

InCall == \E g \in Goroutine : pc[g] \in {"setError", "end"}

Next ==
    \/ StreamOpens \/ StreamFails
    \/ ServerResponds \/ ServerFinishes \/ RpcFails
    \/ SendMsg \/ RecvMsg
    \/ \E g \in Goroutine : Wrapper(g)
    \/ Told /\ ~InCall /\ UNCHANGED vars

(* The goroutines run, and the application reads the stream to its end, as
   gRPC asks of it. *)
Fairness ==
    /\ WF_vars(RecvMsg)
    /\ \A g \in Goroutine : WF_vars(Wrapper(g))

Spec == Init /\ [][Next]_vars /\ Fairness

-----------------------------------------------------------------------------
(* Properties. *)

(* Every variable keeps to its type. *)
TypeOK ==
    /\ kind \in {"one", "many"}
    /\ rpc \in {"closed", "open", "ok", "failed"}
    /\ inbox \in 0..MaxResponses /\ responses \in 0..MaxResponses
    /\ sends \in 0..MaxSends
    /\ pc \in [Goroutine -> {"ready", "setError", "end", "stop"}]
    /\ err \in [Goroutine -> {"nil", "EOF", "status"}]
    /\ span \in {"none", "live", "ended"}
    /\ marked \in BOOLEAN /\ endOnce \in BOOLEAN
    /\ ends \in 0..1

(* However SendMsg and RecvMsg race, span.End is called once, and never while
   the RPC is under way. *)
EndsOnce ==
    /\ ends = IF span = "ended" THEN 1 ELSE 0
    /\ span = "ended" => rpc # "open"

(* A call that hands the application an error other than io.EOF has left an
   ended span behind that says so, whichever goroutine ended it.  One error is
   lost: SendMsg's own, when RecvMsg's io.EOF is what ended the span. *)
FailureIsMarked ==
    \A g \in Goroutine :
        pc[g] = "ready" /\ err[g] = "status" =>
            /\ span = "ended"
            /\ marked \/ (g = "sender" /\ err["receiver"] = "EOF")

(* An ended span without the error status stands for an RPC that was OK. *)
UnmarkedMeansOk == span = "ended" /\ ~marked => rpc = "ok"

(* When there are many responses, an RPC that is over has its span ended. *)
SpanEnds == (kind = "many" /\ rpc \in {"ok", "failed"}) ~> (span = "ended")

(* "creates a client span that lives for the full duration of the stream"
   (middleware/grpc_client.go:102): once the application has been told that
   the RPC is over, the span has ended. *)
SpanEndsWithTheStream == Told /\ ~InCall => span = "ended"
=============================================================================
