----------------------------- MODULE MCProvider -----------------------------
(* Provider for TLC: configurations that between them use every exporter for
   every signal it can serve, a fan-out, and a log exporter or none. *)
EXTENDS Provider, TLC

MCConfig ==
    { [traces |-> <<"stdout">>,             metrics |-> "prometheus", logs |-> TRUE],
      [traces |-> <<"otlp", "stdout">>,     metrics |-> "otlp",       logs |-> FALSE],
      [traces |-> <<"noop">>,               metrics |-> "stdout",     logs |-> FALSE],
      [traces |-> <<"noop", "prometheus">>, metrics |-> "noop",       logs |-> FALSE] }

ProviderSymmetry == Permutations(Provider)
=============================================================================
