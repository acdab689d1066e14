---------------------------- MODULE CommandLine ----------------------------
(***************************************************************************)
(* How the raylib programs read their command line: the options of         *)
(* benchmark_utils.hpp, which every program parses, and the port and host  *)
(* of ship-swarm, whose client scans the same arguments a second time with *)
(* a list of its own of the options that take a value, and whose server    *)
(* reads its first argument by its place.                                  *)
(*                                                                         *)
(* A text is a string.  Which of them begin with a dash, and which are     *)
(* whole numbers, is given by the constants.                               *)
(***************************************************************************)
EXTENDS Integers, Sequences, SequencesExt

CONSTANTS
  Dashed,      \* the texts that begin with a dash and do not end there
  Number,      \* a function: the integer each text is that is a whole number
  UInt16,      \* the largest std::uint16_t
  kDefaultShipSwarmPort

PortOption == {"--port", "--lobby-port", "--game-port"}
IntOption == {"--duration-ms", "--warmup-ms", "--seed", "--clients", "--run"}
TextOption == {"--host", "--metrics", "--metrics-mode"}

ASSUME CommandLineAssumption ==
  /\ PortOption \cup IntOption \cup TextOption \cup {"--bench"} \subseteq Dashed
  /\ DOMAIN Number \cap (TextOption \cup PortOption \cup IntOption) = {}
  /\ Number \in [DOMAIN Number -> Int]
  /\ UInt16 \in Nat
  /\ kDefaultShipSwarmPort \in 1..UInt16

-----------------------------------------------------------------------------
(* benchmark_utils.hpp *)

\* The value of the text, or what was there before.
ParseInt(text, old) == IF text \in DOMAIN Number THEN Number[text] ELSE old

ParseUInt16(text, old) ==
  IF ParseInt(text, 0) \in 1..UInt16 THEN Number[text] ELSE old

\* The members of Options by the name of the option that sets them.
Defaults ==
  [option \in PortOption \cup IntOption \cup TextOption |->
     CASE option = "--port"         -> kDefaultShipSwarmPort
       [] option = "--lobby-port"   -> 10887
       [] option = "--game-port"    -> 10888
       [] option = "--duration-ms"  -> 60000
       [] option = "--warmup-ms"    -> 5000
       [] option \in {"--seed", "--clients"} -> 1
       [] option = "--run"          -> 0
       [] option = "--host"         -> "127.0.0.1"
       [] option = "--metrics"      -> ""
       [] option = "--metrics-mode" -> "samples"]

\* What is known once the first arguments are read: whether --bench was among
\* them, the values of the options, and the option the next one is a value of.
ScanStart == [enabled |-> FALSE, value |-> Defaults, option |-> ""]

\* An option that takes a value takes the next argument, whatever it is; the
\* last argument has none and is ignored, as is every other argument.
ScanNext(acc, argv, i) ==
  IF acc.option # "" THEN
    [acc EXCEPT
       !.option = "",
       !.value[acc.option] =
         IF acc.option \in PortOption THEN ParseUInt16(argv[i], @)
         ELSE IF acc.option \in IntOption THEN ParseInt(argv[i], @)
         ELSE argv[i]]
  ELSE IF argv[i] = "--bench" THEN [acc EXCEPT !.enabled = TRUE]
  ELSE IF argv[i] \in DOMAIN Defaults /\ i < Len(argv)
    THEN [acc EXCEPT !.option = argv[i]]
  ELSE acc

Scanned(argv) ==
  LET scan[i \in 0..Len(argv)] ==
        IF i = 0 THEN ScanStart ELSE ScanNext(scan[i - 1], argv, i)
  IN scan[Len(argv)]

ParseOptions(argv) ==
  LET v == Scanned(argv).value
  IN [enabled     |-> Scanned(argv).enabled,
      host        |-> v["--host"],
      port        |-> v["--port"],
      durationMs  |-> IF v["--duration-ms"] <= 0 THEN 60000
                                                 ELSE v["--duration-ms"],
      warmupMs    |-> IF v["--warmup-ms"] < 0 THEN 0 ELSE v["--warmup-ms"],
      clients     |-> IF v["--clients"] <= 0 THEN 1 ELSE v["--clients"],
      metricsMode |-> IF v["--metrics-mode"] = "summary" THEN "summary"
                                                         ELSE "samples"]

\* In each block of 30 frames one of four: the seed is std::uint32_t, and its
\* product with 17 is cut to Width values before it is added.
DeterministicAxis(seed, frame, axis, Width) ==
  LET phase == ((frame \div 30) + ((seed * 17) % Width) + ((axis * 7) % Width)) % 4
  IN CASE phase = 0 -> 1
       [] phase = 2 -> -1
       [] OTHER -> 0

-----------------------------------------------------------------------------
(* socketwire_example_utils.hpp *)

None == 0

\* Zero, which no port is, for a text that is no port.
ParsePort(text) ==
  IF text \in DOMAIN Number /\ Number[text] \in 1..UInt16 THEN Number[text]
                                                          ELSE None

OrElse(port, otherwise) == IF port # None THEN port ELSE otherwise

\* The argument at the index wins over the environment ("" if it is not set).
PortFromArgsOrEnv(argv, arg_index, env_value, default_port) ==
  LET port == OrElse(ParsePort(env_value), default_port)
  IN IF arg_index \in DOMAIN argv THEN OrElse(ParsePort(argv[arg_index]), port)
                                  ELSE port

\* Wherever it stands, also as the value of another option.
HasCommandLineOption(argv, option) == \E i \in DOMAIN argv : argv[i] = option

IsCommandLineOption(arg) == arg \in Dashed

-----------------------------------------------------------------------------
(* ship-swarm *)

IsOptionWithValue(option) ==
  option \in {"--host", "--port", "--lobby-port", "--game-port", "--duration-ms",
              "--warmup-ms", "--seed", "--metrics", "--metrics-mode",
              "--clients", "--run"}

\* Where the positionals are.
Positions(argv) ==
  LET Step(acc, i) ==
        IF acc.skip THEN [acc EXCEPT !.skip = FALSE]
        ELSE IF IsCommandLineOption(argv[i])
          THEN [acc EXCEPT !.skip = IsOptionWithValue(argv[i]) /\ i < Len(argv)]
        ELSE [acc EXCEPT !.at = Append(@, i)]
  IN FoldLeftDomain(Step, [at |-> <<>>, skip |-> FALSE], argv).at

CollectPositionals(argv) ==
  [k \in DOMAIN Positions(argv) |-> argv[Positions(argv)[k]]]

\* env is the host and the port the environment names, "" where it names none.
\* Without --bench the environment wins over the defaults, an option over the
\* environment, and a positional over an option.
ResolveClientEndpoint(argv, env) ==
  LET options == ParseOptions(argv)
      positionals == CollectPositionals(argv)
      host == IF HasCommandLineOption(argv, "--host") THEN options.host
              ELSE IF env.host # "" THEN env.host ELSE Defaults["--host"]
      port == IF HasCommandLineOption(argv, "--port") THEN options.port
              ELSE OrElse(ParsePort(env.port), kDefaultShipSwarmPort)
      first == IF positionals = <<>> THEN None ELSE ParsePort(positionals[1])
      second == IF Len(positionals) < 2 THEN None ELSE ParsePort(positionals[2])
  IN IF options.enabled THEN [host |-> options.host, port |-> options.port]
     ELSE [host |-> IF positionals # <<>> /\ first = None THEN positionals[1]
                                                          ELSE host,
           port |-> OrElse(second, OrElse(first, port))]

\* The server's port.
ResolveListenPort(argv, env) ==
  LET options == ParseOptions(argv)
  IN IF options.enabled \/ HasCommandLineOption(argv, "--port")
     THEN options.port
     ELSE PortFromArgsOrEnv(argv, 1, env.port, kDefaultShipSwarmPort)

-----------------------------------------------------------------------------
(* What the two scanners owe each other and the documentation, for command   *)
(* lines and environments of the sets given                                  *)

\* The parsers of a port accept the same texts, with the same value.
ParsersAgree(Text) ==
  \A text \in Text : ParseUInt16(text, None) = ParsePort(text)

\* Both scanners take the same arguments for values of options: without its
\* positionals a command line has the same options, and no positional left.
ScannersAgree(CommandLines) ==
  \A argv \in CommandLines :
    LET options == SelectSeq([i \in DOMAIN argv |-> i],
                             LAMBDA i : i \notin ToSet(Positions(argv)))
        rest == [k \in DOMAIN options |-> argv[options[k]]]
    IN /\ Scanned(rest).value = Scanned(argv).value
       /\ Scanned(rest).enabled = Scanned(argv).enabled
       /\ CollectPositionals(rest) = <<>>

\* README.md:30-32 and 63 of the raylib examples: a port alone, --host and
\* --port in either order, or host and port in their places, give that host
\* and that port whatever the environment says; a server and a client started
\* with the same port find each other.
DocumentedForms(Host, Port, Env) ==
  \A host \in Host, port \in Port, env \in Env :
    LET endpoint == [host |-> host, port |-> Number[port]]
    IN /\ \A argv \in {<<"--host", host, "--port", port>>,
                       <<"--port", port, "--host", host>>, <<host, port>>} :
            ResolveClientEndpoint(argv, env) = endpoint
       /\ \A argv \in {<<>>, <<port>>, <<"--port", port>>} :
            ResolveClientEndpoint(argv, env).port = ResolveListenPort(argv, env)

\* An endpoint always has a host and a port in range.
EndpointsAreUsable(CommandLines, Env) ==
  \A argv \in CommandLines, env \in Env :
    /\ ResolveClientEndpoint(argv, env).port \in 1..UInt16
    /\ ResolveClientEndpoint(argv, env).host # ""
    /\ ResolveListenPort(argv, env) \in 1..UInt16

\* Cutting the product of the seed loses nothing, and over four blocks of
\* frames a simulated player steers to both sides alike.
AxisIsBalanced(Seed, Width) ==
  \A seed \in Seed, axis \in 0..1 :
    /\ \A block \in 0..3 :
         DeterministicAxis(seed, 30 * block, axis, Width) =
           DeterministicAxis(seed % 4, 30 * block + 29, axis, 4 * Width)
    /\ {DeterministicAxis(seed, 30 * block, axis, Width) : block \in 0..3} =
         {-1, 0, 1}
=============================================================================
