------------------------- MODULE MCSwarmClientLoop -------------------------
(* A moment is half a second.  The client is started with a window, with a
   bench of samples that starts at once or after a warm-up, or with one of a
   summary. *)
EXTENDS SwarmClientLoop, TLC

MCNumber == ("0" :> 0) @@ ("1" :> 1) @@ ("3" :> 3) @@ ("5" :> 5) @@ ("7000" :> 7000)
            @@ ("70000" :> 70000) @@ ("-5" :> -5)

MCDashed == PortOption \cup IntOption \cup TextOption
            \cup {"--bench", "-5", "--help"}

Bench(warmup, duration) ==
  <<"--bench", "--warmup-ms", warmup, "--duration-ms", duration>>

MCCommandLines ==
  {<<>>, Bench("0", "5"), Bench("1", "3"),
   Bench("1", "1") \o <<"--metrics-mode", "summary">>}

\* The command lines and environments the scanners are compared on.
Text == {"--bench", "--host", "--port", "--run", "--help", "-5", "alpha", "7000"}
Env == [host : {"", "beta"}, port : {"", "3", "70000", "gamma"}]

ASSUME Parsers == ParsersAgree(MCDashed \cup DOMAIN MCNumber \cup {"", "alpha"})
ASSUME Scanners == ScannersAgree(BoundedSeq(Text, 4))
ASSUME Endpoints == EndpointsAreUsable(BoundedSeq(Text, 3), Env)
ASSUME Documented == DocumentedForms({"alpha", "beta"}, {"1", "7000"}, Env)
ASSUME Axis == AxisIsBalanced(0..40, 64)
=============================================================================
