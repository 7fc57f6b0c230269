---------------------------- MODULE MCMiddleware ----------------------------
(* Middleware for TLC: requests are interchangeable; one baggage key, a value
   that is written with an escape and one that is not valid; a request from
   outside comes with a trace and baggage. *)
EXTENDS Middleware, TLC

MCDecode == "b%20c" :> "b c"

With(p, m, l) == [proto |-> p, meter |-> m, logs |-> l]

MCSetups ==
    { With("http", "works", TRUE), With("unary", "works", FALSE),
      With("stream", "counterFails", FALSE), With("stream", "histFails", FALSE) }

MCOutsideHeaders == {[trace |-> "far", span |-> "far", bag |-> "tenant" :> "b c"]}

RequestSymmetry == Permutations(Request)
=============================================================================
