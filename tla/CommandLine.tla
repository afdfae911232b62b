----------------------------- MODULE CommandLine -----------------------------
(***************************************************************************)
(* The command line of the bridge, and of the commands that take one       *)
(* device (cli/bluetti-mqtt.ts parseArgs and main, cli-config.ts,          *)
(* args.ts): the arguments are scanned word by word, a JSON file fills     *)
(* what they leave open, and the PEM files are read.                       *)
(*                                                                         *)
(* A word is a string that the constants give a meaning to.  An option is  *)
(* <<>> while it is undefined and <<value>> afterwards.                    *)
(***************************************************************************)
EXTENDS Integers, Sequences, SequencesExt, FiniteSetsExt

CONSTANTS Arguments,   \* the command lines
          Files,       \* what the config file may hold, a value for each of Members
          Seconds,     \* the words and file values that are valid intervals
          Address,     \* the words that are an address, with the address they spell
          Levels,      \* the words that are a log level
          ReadablePem  \* the paths that can be read

VARIABLES program,   \* which program was called
          argv, file,
          rest,      \* the words that have not been scanned
          options, addresses,
          outcome    \* "scan", "file", "tls", "main", then "runs", "help" or "usage"

parseVars == <<program, argv, file, rest, options, addresses, outcome>>

Unset == <<>>

\* The flags that take a value, the option that each sets, and the switches.
Valued ==
  {<<"--broker", "brokerUrl">>, <<"--config", "configPath">>, <<"--username", "username">>,
   <<"--password", "password">>, <<"--mqtt-ca", "tlsCaPath">>, <<"--mqtt-cert", "tlsCertPath">>,
   <<"--mqtt-key", "tlsKeyPath">>, <<"--mqtt-servername", "tlsServername">>,
   <<"--interval", "interval">>, <<"--log-level", "logLevel">>}
ValuedFlags == {pair[1] : pair \in Valued}
OptionOf(flag) == CHOOSE option \in {pair[2] : pair \in Valued} : <<flag, option>> \in Valued
Switches == {"--mqtt-insecure", "--once", "-h", "--help"}
Help == {"-h", "--help"}
StartsWithDashes(word) == word \in (ValuedFlags \cup Switches \cup {"--unknown"}) \ {"-h"}

PemPaths == {"tlsCaPath", "tlsCertPath", "tlsKeyPath"}
Strings == PemPaths \cup {"brokerUrl", "username", "password", "tlsServername"}

\* The members of the file: strings by their option, the rest of CliConfigFile.
\* A file that cannot be read, or holds no object, is one where everything is wrong.
Members == Strings \cup {"rejectUnauthorized", "interval", "runOnce", "addresses", "logLevel"}
Wrong == <<"wrong", "type">>
BadFile == [member \in Members |-> Wrong]

\* What parseArgs has to fill in, and what it starts from.
Options == Strings \cup {"configPath", "rejectUnauthorized", "interval", "logLevel", "runOnce", "help"}

Default(option) ==
  CASE option = "interval" -> <<0>>
    [] option = "logLevel" -> <<"info">>
    [] option \in {"runOnce", "help"} -> <<"no">>
    [] OTHER -> Unset

\* No address is spelled like a flag or empty, and what the config file lists are
\* strings.
ASSUME CommandLineAssumption ==
  /\ Arguments \subseteq Seq(STRING)
  /\ DOMAIN Address \cap (ValuedFlags \cup Switches \cup {""}) = {}
  /\ \A word \in DOMAIN Seconds : Seconds[word] \in Nat
  /\ \A content \in Files :
       content.addresses \notin {Unset, Wrong} => content.addresses[1] \in Seq(STRING)

ParseInit ==
  /\ program \in {"bridge", "one address", "one address at most"}
  /\ argv \in Arguments
  /\ file \in Files
  /\ rest = argv
  /\ options = [option \in Options |-> Default(option)]
  /\ addresses = <<>>
  /\ outcome = "scan"

Set(option, value) == options' = [options EXCEPT ![option] = <<value>>]

Fail ==
  /\ outcome' = "usage"
  /\ UNCHANGED <<program, argv, file, rest, options, addresses>>

\* What a flag's value is taken for, or Unset if it is not valid.
Converted(option, word) ==
  CASE option = "interval" -> IF word \in DOMAIN Seconds THEN <<Seconds[word]>> ELSE Unset
    [] option = "logLevel" -> IF word \in Levels THEN <<word>> ELSE Unset
    [] OTHER -> <<word>>
-----------------------------------------------------------------------------
Scanning == program = "bridge" /\ outcome = "scan" /\ rest # <<>>
Word == Head(rest)

ScanValue ==
  /\ Scanning
  /\ Word \in ValuedFlags
  /\ LET option == OptionOf(Word)
         value == IF Len(rest) = 1 \/ StartsWithDashes(rest[2]) THEN Unset ELSE Converted(option, rest[2])
     IN  IF value = Unset
         THEN Fail
         ELSE /\ options' = [options EXCEPT ![option] = value]
              /\ rest' = Tail(Tail(rest))
              /\ UNCHANGED <<program, argv, file, addresses, outcome>>

ScanSwitch ==
  /\ Scanning
  /\ Word \in Switches
  /\ CASE Word = "--mqtt-insecure" -> Set("rejectUnauthorized", "no")
       [] Word = "--once" -> Set("runOnce", "yes")
       [] Word \in Help -> Set("help", "yes")
  /\ rest' = Tail(rest)
  /\ UNCHANGED <<program, argv, file, addresses, outcome>>

\* An empty word is skipped.
ScanAddress ==
  /\ Scanning
  /\ Word \notin ValuedFlags \cup Switches
  /\ IF Word \in DOMAIN Address \cup {""}
     THEN /\ addresses' = IF Word = "" THEN addresses ELSE Append(addresses, Address[Word])
          /\ rest' = Tail(rest)
          /\ UNCHANGED <<program, argv, file, options, outcome>>
     ELSE Fail

ScanEnds ==
  /\ program = "bridge" /\ outcome = "scan" /\ rest = <<>>
  /\ outcome' = IF options.configPath = Unset THEN "tls" ELSE "file"
  /\ UNCHANGED <<program, argv, file, rest, options, addresses>>

\* The operator ?? of the code.
Coalesce(given, other) == IF given # Unset THEN given ELSE other

\* Fault: || instead of ??, for which the switch's false is no value.
RejectWithOr ==
  IF options.rejectUnauthorized = <<"yes">> THEN options.rejectUnauthorized ELSE file.rejectUnauthorized

RejectUnauthorized == Coalesce(options.rejectUnauthorized, file.rejectUnauthorized)

\* An interval of 0 and the log level info count as not given.
Merged(option) ==
  CASE option \in Strings -> Coalesce(options[option], file[option])
    [] option = "rejectUnauthorized" -> RejectUnauthorized
    [] option = "interval" ->
         IF options.interval[1] > 0 THEN options.interval ELSE Coalesce(file.interval, <<0>>)
    [] option = "runOnce" -> IF <<"yes">> \in {options.runOnce, file.runOnce} THEN <<"yes">> ELSE <<"no">>
    [] option = "logLevel" ->
         IF options.logLevel # <<"info">> THEN options.logLevel ELSE Coalesce(file.logLevel, <<"info">>)
    [] OTHER -> options[option]

\* readConfigFile: an interval is checked as a flag's is, the members have their
\* types; an address is only checked where the command line names none.
FileIsValid == \A member \in Members : file[member] # Wrong

ReadConfigFile ==
  /\ outcome = "file"
  /\ LET filled == addresses = <<>> /\ file.addresses # Unset
         listed == IF filled THEN file.addresses[1] ELSE <<>>
     IN  IF FileIsValid /\ \A i \in DOMAIN listed : listed[i] \in DOMAIN Address
         THEN /\ options' = [option \in DOMAIN options |-> Merged(option)]
              /\ addresses' = addresses \o [i \in DOMAIN listed |-> Address[listed[i]]]
              /\ outcome' = "tls"
              /\ UNCHANGED <<program, argv, file, rest>>
         ELSE Fail

\* buildMqttTlsOptions, readTlsFile: every path that is set must be readable.
ReadTlsFiles ==
  /\ outcome = "tls"
  /\ IF \A path \in PemPaths : options[path] = Unset \/ options[path][1] \in ReadablePem
     THEN outcome' = "main" /\ UNCHANGED <<program, argv, file, rest, options, addresses>>
     ELSE Fail

\* Help is only asked for after everything was read; then main checks what it needs.
Main ==
  /\ outcome = "main"
  /\ outcome' = IF options.help = <<"yes">> THEN "help"
                ELSE IF options.brokerUrl \in {Unset, <<"">>} \/ addresses = <<>> THEN "usage"
                ELSE "runs"
  /\ UNCHANGED <<program, argv, file, rest, options, addresses>>

\* requireSingleAddressArg and optionalSingleAddressArg, where help comes first.  An
\* empty word counts as no address.
SingleAddress ==
  /\ program # "bridge" /\ outcome = "scan"
  /\ LET words == SelectSeq(argv, LAMBDA word : word # "")
     IN  /\ outcome' = IF \E i \in DOMAIN argv : argv[i] \in Help THEN "help"
                       ELSE IF \/ Len(argv) > 1
                               \/ words = <<>> /\ program = "one address"
                               \/ \E i \in DOMAIN words : words[i] \notin DOMAIN Address
                            THEN "usage" ELSE "runs"
         /\ addresses' = IF outcome' = "runs" THEN [i \in DOMAIN words |-> Address[words[i]]] ELSE <<>>
  /\ UNCHANGED <<program, argv, file, rest, options>>

ParseNext ==
  \/ ScanValue \/ ScanSwitch \/ ScanAddress \/ ScanEnds
  \/ ReadConfigFile \/ ReadTlsFiles \/ Main
  \/ SingleAddress

ParseSpec == ParseInit /\ [][ParseNext]_parseVars
-----------------------------------------------------------------------------
(* What was meant, read off the whole command line at once.                *)

\* The last value of an option on a command line without mistakes: no value starts
\* with two dashes, so that a flag that takes one is never itself a value.
Given(option) ==
  LET at == {i \in DOMAIN argv : argv[i] \in ValuedFlags /\ OptionOf(argv[i]) = option}
  IN  IF at = {} THEN Unset ELSE Converted(option, argv[Max(at) + 1])

\* Whether a word is the value of the flag before it.
IsValue(i) == i > 1 /\ argv[i - 1] \in ValuedFlags

IsGiven(switch) == \E i \in DOMAIN argv : argv[i] = switch /\ ~IsValue(i)

Named == {i \in DOMAIN argv : argv[i] \in DOMAIN Address /\ ~IsValue(i)}

FromFile(option) == IF Given("configPath") = Unset THEN Unset ELSE file[option]

\* The command line's value, else the file's, else the default.
Effective(option) == Coalesce(Given(option), Coalesce(FromFile(option), Default(option)))

\* A value of the command line that the code takes for one that was not given.
Yields(option) == option \in {"interval", "logLevel"} /\ Given(option) = Default(option)

EffectiveValues ==
  /\ \A option \in Strings \cup {"interval", "logLevel"} :
       ~Yields(option) => options[option] = Effective(option)
  /\ options.rejectUnauthorized =
       IF IsGiven("--mqtt-insecure") THEN <<"no">> ELSE FromFile("rejectUnauthorized")
  /\ options.runOnce = IF IsGiven("--once") \/ FromFile("runOnce") = <<"yes">> THEN <<"yes">> ELSE <<"no">>

\* The named devices in the order in which they are named, else those of the file.
EffectiveAddresses ==
  IF Named # {}
  THEN \E position \in [DOMAIN addresses -> Named] :
         /\ \A i, j \in DOMAIN addresses : i < j => position[i] < position[j]
         /\ \A p \in Named : \E i \in DOMAIN addresses : position[i] = p
         /\ \A i \in DOMAIN addresses : addresses[i] = Address[argv[position[i]]]
  ELSE LET words == Coalesce(FromFile("addresses"), << <<>> >>)[1]
       IN  addresses = [i \in DOMAIN words |-> Address[words[i]]]

\* What the bridge runs with is the command line's last word on each option, else the
\* file's, else the default.  Nothing is said of --interval 0 and --log-level info, for
\* which the code breaks that promise (FlagsOverrideFile).  In particular a switch
\* that turns the certificate check off is not undone by the file, the file adds no
\* device to those named, and every file it trusts was read.
EffectiveOptions ==
  program = "bridge" /\ outcome = "runs" =>
    /\ EffectiveValues
    /\ EffectiveAddresses
    /\ addresses # <<>> /\ options.brokerUrl \notin {Unset, <<"">>}
    /\ \A path \in PemPaths : options[path] # Unset => options[path][1] \in ReadablePem
    /\ ~ \E switch \in Help : IsGiven(switch)

\* As the README has it, "CLI flags override config-file values when both are
\* provided": no value that a flag gave is replaced (parseArgs, bluetti-mqtt.ts).
FlagsOverrideFile ==
  program = "bridge" /\ outcome = "runs" =>
    \A option \in Strings \cup {"interval", "logLevel"} :
      Given(option) # Unset => options[option] = Given(option)
=============================================================================
