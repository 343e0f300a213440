----------------------------- MODULE CommandLine -----------------------------
(***************************************************************************)
(* What the words of a command line ask for: main (source/cli/src/         *)
(* UsdOptimize.cpp) and parseArgs (UsdOptimizeInterface.cpp).  A word is   *)
(* the tuple of its texts between "=" signs.                               *)
(***************************************************************************)
EXTENDS Registry

CONSTANT Dashed   \* texts that begin with a dash, such as a mistyped option

NoArgs == [config |-> NoName, input |-> NoName, output |-> NoName, json |-> NoName,
           flatten |-> FALSE, relative |-> FALSE, stats |-> FALSE,
           report |-> FALSE, analysis |-> FALSE, commands |-> <<>>]

\* Options that take the next word, and options that switch something on.
Taking    == { "-a", "-c", "-i", "-j", "-o", "-w" }
Switching == { "-an", "-fl", "-r", "-rp", "-s" }
Help == <<"-h">>

\* Of the parse, "what" is its outcome so far: "on", or "exit" when the program ended.
Exit(parse) == [parse EXCEPT !.what = "exit"]
Switch(parse, option) ==
  CASE option = "-an" -> [parse EXCEPT !.args.analysis = TRUE]
    [] option = "-fl" -> [parse EXCEPT !.args.flatten = TRUE]
    [] option = "-r"  -> [parse EXCEPT !.args.report = TRUE]
    [] option = "-rp" -> [parse EXCEPT !.args.relative = TRUE]
    [] option = "-s"  -> [parse EXCEPT !.args.stats = TRUE]

\* An operation is a command without arguments; one that cannot analyze is left out when
\* analysis has been asked for by then.
AppendOperation(parse, name) ==
  CASE GetOperation(name) = NoName -> Exit(parse)
    [] GetOperation(name) # NoName /\ parse.args.analysis
         /\ ~Definitions[GetOperation(name)].supportsAnalysis -> parse
    [] OTHER -> [parse EXCEPT !.args.commands = Append(@, [operation |-> <<"string", name>>])]

\* An argument goes to the last command.  Without a value, a Boolean one is true.
AppendArgument(parse, word) ==
  LET commands == parse.args.commands
      arguments == Definitions[GetOperation(commands[Len(commands)].operation[2])].arguments
      given == Named(arguments, word[1])
      argument == arguments[CHOOSE i \in given : TRUE]
      flag == given # {} /\ Len(word) = 1 /\ Type(argument.defaultValue) = "bool"
      values == IF given = {} \/ (~flag /\ Len(word) # 2) THEN {}
                ELSE ValueOfText(argument, IF flag THEN "1" ELSE word[2])
  IN IF values = {} THEN Exit(parse)
     ELSE [parse EXCEPT !.args.commands[Len(commands)] = Put(@, word[1], CHOOSE v \in values : TRUE)]

Take(parse, option, word) ==
  CASE option = "-a" -> AppendArgument(parse, word)
    [] option = "-c" -> [parse EXCEPT !.args.config = word[1]]
    [] option = "-i" -> [parse EXCEPT !.args.input = word[1]]
    [] option = "-j" -> [parse EXCEPT !.args.json = word[1]]
    [] option = "-o" -> AppendOperation(parse, word[1])
    [] option = "-w" -> [parse EXCEPT !.args.output = word[1]]

\* A word that is no option is the input when it is the last one and has no dash before it.
Word(parse, word, last) ==
  CASE parse.what # "on" -> parse
    [] parse.what = "on" /\ parse.takes # NoName ->
         Take([parse EXCEPT !.takes = NoName], parse.takes, word)
    [] parse.what = "on" /\ parse.takes = NoName /\ word[1] \in Taking ->
         IF word[1] = "-a" /\ parse.args.commands = <<>> THEN Exit(parse)
         ELSE [parse EXCEPT !.takes = word[1]]
    [] parse.what = "on" /\ parse.takes = NoName /\ word[1] \in Switching -> Switch(parse, word[1])
    [] OTHER -> IF last /\ word[1] \notin Dashed THEN [parse EXCEPT !.args.input = word[1]] ELSE Exit(parse)

\* An option that takes a word and is the last one has none: getArg returns the null
\* pointer behind the words, and making a string of it ends the program as well.
ParseArgs(argv) ==
  LET end == FoldLeft(LAMBDA parse, i : Word(parse, argv[i], i = Len(argv)),
                      [what |-> "on", takes |-> NoName, args |-> NoArgs], [i \in 1..Len(argv) |-> i])
  IN IF end.what = "on" /\ end.takes # NoName THEN Exit(end) ELSE end
=============================================================================
