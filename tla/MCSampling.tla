----------------------------- MODULE MCSampling -----------------------------
(* Sampling for TLC: settings that meet every branch of ConfigFromEnv. *)
EXTENDS Sampling

Env(exporters, name, arg) ==
    [ name |-> "", attrs |-> <<>>, endpoint |-> FALSE, insecure |-> FALSE,
      exporters |-> exporters, sampler |-> name, arg |-> arg, level |-> "unset" ]

App(exporters, ratio, errors) ==
    [ name |-> "shop", attrs |-> "tier" :> "front", endpoint |-> TRUE, insecure |-> FALSE,
      exporter |-> "otlp", exporters |-> exporters, metric |-> "",
      ratio |-> ratio, errors |-> errors, level |-> "info" ]

Pair(env, app) == [env |-> env, cfg |-> app]

MCText == {"shop", "cart", "service.name", "tier", "front", "back"}

MCSetting ==
    {Pair(Env(<<>>, "unset", <<>>), App(<<>>, ratio, errors)) : ratio \in Ratio, errors \in BOOLEAN}
    \cup
    { Pair([Env(<<"unknown", "stdout">>, "always_off", <<>>) EXCEPT !.name = "cart"], App(<<>>, 1, TRUE)),
      Pair([Env(<<"otlp", "stdout">>, "always_on", <<>>) EXCEPT !.level = "unknown"], App(<<>>, 1, FALSE)),
      Pair([Env(<<"stdout">>, "traceidratio", <<1>>) EXCEPT !.level = "warn"],
           App(<<"otlp", "stdout">>, 0, FALSE)),
      Pair(Env(<<"noop">>, "unknown", <<-1>>), App(<<>>, 1, TRUE)),
      Pair([Env(<<>>, "always_on", <<-1>>) EXCEPT
              !.attrs = <<<<"tier", "shop">>, <<"", "cart">>, <<"tier", "back">>, <<"service.name", "cart">>>>],
           App(<<>>, 1, FALSE)),
      Pair([Env(<<"otlp">>, "unset", <<>>) EXCEPT !.endpoint = TRUE, !.insecure = TRUE],
           [App(<<>>, 1, TRUE) EXCEPT !.endpoint = FALSE, !.metric = "noop"]),
      Pair(Env(<<>>, "unset", <<>>), [App(<<"stdout">>, 1, TRUE) EXCEPT !.endpoint = FALSE]),
      Pair(Env(<<>>, "unset", <<>>), [App(<<>>, 1, TRUE) EXCEPT !.name = ""]) }

ServiceSymmetry == Permutations(Service)
=============================================================================
