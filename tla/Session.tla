------------------------------- MODULE Session -------------------------------
(***************************************************************************)
(* A process that uses usd-optimize: it loads plugins, and then runs       *)
(* operations through one of the ways in, which all end in the same        *)
(* registry, arguments and configurations (modules Registry, Arguments and *)
(* ConfigRun):                                                             *)
(*   - executeConfig and mapConfig of the Python binding;                  *)
(*   - executeOperation, alone and from analyze() and optimize() of        *)
(*     analysis.py, which the validators' rules use;                       *)
(*   - an operation that a C++ caller creates once and executes again;     *)
(*   - the command line.                                                   *)
(* A script says what the caller does; how an operation ends, whether its  *)
(* report opens and what else the caller does with its context is open.    *)
(***************************************************************************)
EXTENDS ConfigRun, CommandLine

CONSTANTS Scripts,   \* what callers do: sequences of calls
          Disk       \* the files there are: name -> commands, or NoObjects

NoObjects == << [array |-> <<"bool", FALSE>>] >>   \* stands for a document that is no array

\* What the callers hand over: sequences, objects of values, and rules whose parameters are
\* arguments.  Plugins are loaded from a path by way of the Python package, which is
\* imported for it.
IsSequence(s) == Len(s) \in Nat /\ s = [k \in 1..Len(s) |-> s[k]]
IsConfig(objects) == /\ IsSequence(objects)
                     /\ objects = NoObjects \/ \A k \in DOMAIN objects : IsObject(objects[k])
IsRule(rule) == /\ IsObject(rule.object) /\ IsSequence(rule.parameters)
                /\ rule.object = [k \in DOMAIN rule.object |-> rule.object[k]]
                /\ rule.operation \in DOMAIN Definitions
                /\ \A k \in DOMAIN rule.parameters : /\ rule.parameters[k].opArg \in Range(Keys)
                                                     /\ IsValue(rule.parameters[k].value)
Handed(c) ==
  /\ c.call = "loadPluginsFromPath" => c.files \in Seq(Plugins)
  /\ c.call \in {"executeConfig", "mapConfig"} => IsConfig(c.commands)
  /\ c.call = "executeOperation" => IsObject(c.object)
  /\ c.call = "hold" => IsSequence(c.objects) /\ \A k \in DOMAIN c.objects : IsObject(c.objects[k])
  /\ c.call \in {"analyze", "optimize"} =>
       IsSequence(c.calls) /\ \A k \in DOMAIN c.calls : IsObject(c.calls[k].object)
  /\ c.call = "check" => IsRule(c.rule) /\ \A p \in DOMAIN c.assigned : IsValue(c.assigned[p])
  /\ c.call = "cli" => IsSequence(c.argv)
ASSUME ScriptsAssumption ==
  \A s \in Scripts :
    /\ IsSequence(s)
    /\ \A k \in DOMAIN s : /\ Handed(s[k])
                           /\ s[k].call = "loadPluginsFromPath" => \E i \in 1..k-1 : s[i].call = "import"
ASSUME DiskAssumption == \A file \in DOMAIN Disk : IsConfig(Disk[file])

VARIABLES script, at,         \* the calls, and the next one
          sources, commands,  \* a configuration as it was written, and as it runs
          analysis,           \* analysisMode of the context
          queue,              \* executions that a call still has to make
          members,            \* what the operation that is held has in its members
          told,               \* executions of the process: what was given and what was read
          cli,                \* the command line that runs
          files,              \* the files on disk
          recorded            \* file -> what was told in the run whose commands it holds

sessionVars == <<script, at, sources, commands, analysis, queue, members, told, cli, files, recorded>>
allVars == <<vars, registryVars, sessionVars>>
callVars == <<script, at>>
runVars  == <<sources, commands, analysis, queue, members, told>>
cliVars  == <<cli, files, recorded>>

NoCli == [phase |-> "none", args |-> NoArgs, exit |-> 0, written |-> <<>>]
call == script[at]
Calls(kind) == /\ pc = "idle" /\ queue = <<>> /\ cli.phase = "none"
               /\ at <= Len(script) /\ call.call = kind
               /\ at' = at + 1 /\ UNCHANGED script

Arguments(name) == Definitions[name].arguments
Switches(object) == "generateReport" \in DOMAIN object /\ object["generateReport"] = <<"int", 1>>
Kind(object) ==
  CASE "operation" \notin DOMAIN object -> "malformed"
    [] "operation" \in DOMAIN object /\ NameIn(object) = "executionContext" ->
         IF Switches(object) THEN "reportOn" ELSE "reportOff"
    [] OTHER -> IF GetOperation(NameIn(object)) = NoName THEN "unknown" ELSE "operation"
Kinds(objects) == IF objects = NoObjects THEN NotArray ELSE [k \in DOMAIN objects |-> Kind(objects[k])]

\* One execution: what Operation::execute, or PythonOperation::execute, makes of an
\* object.  A Python operation takes any object, in whatever mode, and has no report.
Populated(name, held, object) ==
  IF IsPython(name) THEN [ok |-> TRUE, members |-> Merged(Arguments(name), object)]
  ELSE PopulateExecutionArguments(Arguments(name), held, MapOperation(name, object))
Reaches(name) == cached /\ (IsPython(name) \/ (analysis => Definitions[name].supportsAnalysis))
Told(name, given, populated, renames) ==
  [operation |-> name, given |-> given, members |-> populated.members,
   python |-> IsPython(name), renames |-> renames]

-----------------------------------------------------------------------------
SessionInit ==
  /\ Init
  /\ script \in Scripts /\ at = 1
  /\ (\E k \in DOMAIN script : script[k].call # "executeConfig") => hasContext
  /\ operations = Nothing /\ pythonOperations = Nothing /\ wrappers = 0 /\ mappings = Nothing
  /\ sources = <<>> /\ commands = <<>> /\ analysis = FALSE
  /\ queue = <<>> /\ members = Nothing /\ told = <<>>
  /\ cli = NoCli /\ files = Disk /\ recorded = Nothing

\* Importing the Python package loads the plugins.
Import == /\ Calls("import")
          /\ LoadPlugins(Current, TRUE)
          /\ UNCHANGED <<vars, runVars, cliVars>>
LoadMore == /\ Calls("loadPluginsFromPath")
            /\ Become(LoadPluginsFromPath(Current, call.files, TRUE))
            /\ UNCHANGED <<vars, mappings, runVars, cliVars>>
Deregister == /\ Calls("deregisterOperation")
              /\ DeregisterOperation(call.operation)
              /\ UNCHANGED <<vars, runVars, cliVars>>

\* The caller puts its stage into the cache, or takes it out.
SetStage == /\ CallerCaches
            /\ cli.phase = "none" /\ queue = <<>>
            /\ UNCHANGED <<registryVars, sessionVars>>

-----------------------------------------------------------------------------
(* Configurations *)

ExecuteConfig == /\ Calls("executeConfig")
                 /\ CallExecuteConfig(Kinds(call.commands))
                 /\ sources' = call.commands /\ commands' = call.commands
                 /\ UNCHANGED <<registryVars, analysis, queue, members, told, cliVars>>

\* The configuration is brought up to date first, and then executed.
MappedConfig == [sources |-> Known(call.commands), commands |-> MapConfig(call.commands)]
ExecuteMapped == /\ Calls("mapConfig")
                 /\ CallExecuteConfig(Kinds(MappedConfig.commands))
                 /\ sources' = MappedConfig.sources /\ commands' = MappedConfig.commands
                 /\ UNCHANGED <<registryVars, analysis, queue, members, told, cliVars>>

\* Of a command, the arguments are renamed when it is looked at and when it is executed.
RunCommand ==
  /\ ExecuteOperation
  /\ LET name == GetOperation(NameIn(commands[next]))
         object == MapOperation(name, commands[next])
         populated == Populated(name, Initial(Arguments(name)), object)
         reaches == hasContext /\ Reaches(name)
         ran == reaches /\ populated.ok
     IN /\ executed'[Len(executed')].ok => ran
        /\ reports' # reports => reaches /\ ~IsPython(name)
        /\ told' = IF ran THEN Append(told, Told(name, sources[next], populated, TRUE)) ELSE told
  /\ UNCHANGED <<registryVars, callVars, sources, commands, analysis, queue, members, cliVars>>

OtherSteps ==
  /\ \/ CacheStage \/ CutShort \/ RejectMalformed \/ ChangeContext
     \/ UnknownOperation \/ EndOfCommands \/ Cleanup
     \/ (cli.phase = "none" /\ Returned)
  /\ UNCHANGED <<registryVars, sessionVars>>

-----------------------------------------------------------------------------
(* Single executions *)

Execution(name, object, held) == [operation |-> name, object |-> object, held |-> held]

\* executeOperation, with the report the caller wants.
ExecuteOne == /\ Calls("executeOperation")
              /\ queue' = <<Execution(call.operation, call.object, FALSE)>>
              /\ \E on \in BOOLEAN : reporting' = on
              /\ UNCHANGED <<entry, pc, document, next, hasContext, callerPath,
                             ownPath, heap, allocated,
                             memoryError, stage, executed, reports, results, rc, leaked, runs>>
              /\ UNCHANGED <<registryVars, sources, commands, analysis, members, told, cliVars>>

\* An operation is created, and executed several times before it is destroyed.
Hold == /\ Calls("hold")
        /\ queue' = [k \in DOMAIN call.objects |-> Execution(call.operation, call.objects[k], TRUE)]
        /\ members' = Initial(Arguments(GetOperation(call.operation)))
        /\ UNCHANGED <<vars, registryVars, sources, commands, analysis, told, cliVars>>

\* analyze() and optimize() run the operations that are registered by the names given,
\* one by one; the stage stays in the cache, and the context in analysis mode.
Registered(calls) == Among(calls, { c \in Range(calls) : c.operation \in DOMAIN operations })
Analyzing(calls)  == Among(calls, { c \in Range(calls) : Definitions[c.operation].supportsAnalysis })
Batch(calls) == [k \in DOMAIN calls |-> Execution(calls[k].operation, calls[k].object, FALSE)]
InsertsStage(on) == /\ cached' = TRUE /\ callerCached' = TRUE /\ left' = FALSE
                    /\ reporting' = on
                    /\ UNCHANGED <<entry, pc, document, next, hasContext, memory, inserted, executed,
                                   reports, results, rc, runs>>
Analyzed(calls) ==
  /\ queue' = Batch(Analyzing(Registered(calls)))
  /\ analysis' = TRUE
  /\ InsertsStage(FALSE)
  /\ UNCHANGED <<registryVars, sources, commands, members, told, cliVars>>
Analyze == Calls("analyze") /\ Analyzed(call.calls)
Optimize == /\ Calls("optimize")
            /\ queue' = Batch(Registered(call.calls))
            /\ UNCHANGED analysis
            /\ InsertsStage(TRUE)
            /\ UNCHANGED <<registryVars, sources, commands, members, told, cliVars>>

\* A rule of the validators analyzes with its own arguments and its parameters: of what the
\* user assigns to a parameter, the value for this rule counts before the one for all.
\* A parameter without a default takes the operation's.
FromOperation(rule, parameter) ==
  LET found == Named(Arguments(rule.operation), parameter.opArg)
  IN IF parameter.value = <<"null", 0>> /\ found # {}
     THEN Defined(Arguments(rule.operation), parameter.opArg).defaultValue ELSE parameter.value
Assigned(rule, parameter, assigned) ==
  CASE <<rule.name, parameter.name>> \in DOMAIN assigned -> assigned[<<rule.name, parameter.name>>]
    [] <<rule.name, parameter.name>> \notin DOMAIN assigned
         /\ <<parameter.name>> \in DOMAIN assigned -> assigned[<<parameter.name>>]
    [] OTHER -> FromOperation(rule, parameter)
EffectiveArgs(rule, assigned) ==
  FoldLeft(LAMBDA object, p : Put(object, p.opArg, Assigned(rule, p, assigned)),
           rule.object, rule.parameters)
CheckStage == /\ Calls("check")
              /\ Analyzed(<<[operation |-> call.rule.operation,
                             object |-> EffectiveArgs(call.rule, call.assigned)]>>)

\* Its report is opened on the caller's own context, where its path is left.
OpenCallerReport(opened) ==
  LET file == IF callerPath = Null THEN allocated + 1 ELSE heap[callerPath]
  IN IF ~opened THEN UNCHANGED <<heap, allocated, memoryError, callerPath, reports>>
     ELSE /\ allocated' = allocated + 1
          /\ memoryError' = (memoryError \/ Dead(heap, callerPath))
          /\ heap' = With(Freed(heap, callerPath), allocated + 1, file)
          /\ callerPath' = allocated + 1
          /\ reports' = With(reports, file,
                             Append(IF file \in DOMAIN reports THEN reports[file] ELSE <<>>,
                                                   <<0, at>>))
ExecuteNext ==
  /\ pc = "idle" /\ queue # <<>>
  /\ queue' = Tail(queue)
  /\ LET one == queue[1]
         name == GetOperation(one.operation)
     IN IF name = NoName
        THEN UNCHANGED <<heap, allocated, memoryError, callerPath, reports, members, told>>
        ELSE LET held == IF one.held THEN members ELSE Initial(Arguments(name))
                 populated == Populated(name, held, one.object)
                 reaches == Reaches(name)
             IN /\ \E opened \in BOOLEAN :
                     /\ opened => reporting /\ reaches /\ ~IsPython(name)
                     /\ OpenCallerReport(opened)
                /\ told' = IF reaches /\ populated.ok
                           THEN Append(told, Told(name, one.object, populated, ~IsPython(name)))
                               ELSE told
                /\ members' = IF one.held /\ reaches /\ ~IsPython(name)
                              THEN ResetArgs(Arguments(name), populated.members) ELSE members
  /\ UNCHANGED <<entry, pc, document, next, hasContext, ownPath, reporting,
                 stage, executed, results, rc,
                 leaked, runs>>
  /\ UNCHANGED <<registryVars, callVars, sources, commands, analysis, cliVars>>

-----------------------------------------------------------------------------
(* The command line: every call is a process of its own. *)

CliProcess ==
  /\ Calls("cli")
  /\ LoadPlugins(Empty, FALSE)
  /\ cli' = [NoCli EXCEPT !.phase = "parse"]
  /\ heap' = Nothing /\ allocated' = 0 /\ callerPath' = Null /\ leaked' = {}
  /\ cached' = FALSE /\ callerCached' = FALSE /\ left' = FALSE
  /\ reports' = Nothing /\ told' = <<>> /\ analysis' = FALSE
  /\ executed' = <<>> /\ document' = <<>> /\ next' = 1 /\ rc' = TRUE
  /\ UNCHANGED <<entry, pc, hasContext, ownPath, reporting, memoryError, inserted, results, runs>>
  /\ UNCHANGED <<sources, commands, queue, members, files, recorded>>

argv == script[at - 1].argv
Exits(code) == cli' = [cli EXCEPT !.phase = "exited", !.exit = code]

\* Help, a word that is refused, a missing input and a stage that does not open end the
\* program; otherwise the stage goes into the cache.
CliParse ==
  /\ cli.phase = "parse"
  /\ LET parse == ParseArgs(argv)
     IN \/ /\ argv = <<>> \/ Help \in Range(argv) \/ parse.what = "exit" \/ parse.args.input = NoName
           /\ Exits(IF Help \in Range(argv) THEN 0 ELSE 1)
           /\ UNCHANGED <<cached, callerCached, analysis>>
        \/ /\ argv # <<>> /\ Help \notin Range(argv) /\ parse.what = "on" /\ parse.args.input # NoName
           /\ \/ Exits(1) /\ UNCHANGED <<cached, callerCached, analysis>>
              \/ /\ cli' = [cli EXCEPT !.phase = "run", !.args = parse.args]
                 /\ cached' = TRUE /\ callerCached' = TRUE
                 /\ analysis' = parse.args.analysis
  /\ UNCHANGED <<entry, pc, document, next, hasContext, memory, reporting, left, inserted, executed,
                 reports, results, rc, runs>>
  /\ UNCHANGED <<registryVars, callVars, sources, commands, queue, members, told, files, recorded>>

\* A configuration counts before the operations of the command line.
CliRun ==
  /\ cli.phase = "run" /\ pc = "idle"
  /\ LET objects == IF cli.args.config # NoName THEN files[cli.args.config] ELSE cli.args.commands
     IN /\ cli.args.config # NoName => cli.args.config \in DOMAIN files
        /\ objects # <<>> \/ cli.args.config # NoName
        /\ CallParseJson(Kinds(objects))
        /\ reporting' = cli.args.report
        /\ sources' = objects /\ commands' = objects
  /\ cli' = [cli EXCEPT !.phase = "running"]
  /\ UNCHANGED <<registryVars, callVars, analysis, queue, members, told, files, recorded>>

\* A configuration that cannot be read fails, and nothing to do is no failure.
CliNothing ==
  /\ cli.phase = "run" /\ pc = "idle"
  /\ \/ /\ cli.args.config # NoName /\ cli.args.config \notin DOMAIN files
        /\ Exits(1)
     \/ /\ cli.args.config = NoName /\ cli.args.commands = <<>>
        /\ Exits(0)
  /\ UNCHANGED <<vars, registryVars, callVars, runVars, files, recorded>>

\* The commands are saved as a configuration.  Nothing looks at the stream that writes it: the
\* file may not be opened, and stays what it was, or be cut off, and is no configuration.
SavesCommands == cli.args.config = NoName /\ cli.args.json # NoName
SaveAs(objects) ==
  \/ files' = Put(files, cli.args.json, objects) /\ recorded' = Put(recorded, cli.args.json, told)
  \/ UNCHANGED <<files, recorded>>
  \/ files' = Put(files, cli.args.json, NoObjects) /\ recorded' = Without(recorded, cli.args.json)

\* Mutant: without their arguments.
M_CliReturned ==
  /\ cli.phase = "running" /\ pc \in {"returned", "cut"}
  /\ pc' = "idle"
  /\ UNCHANGED <<caller, next, memory, reporting, stage, executed, reports, results, rc>>
  /\ cli' = [cli EXCEPT !.phase = "write"]
  /\ IF SavesCommands
     THEN SaveAs([k \in DOMAIN commands |-> [operation |-> commands[k].operation]])
     ELSE UNCHANGED <<files, recorded>>
  /\ UNCHANGED <<registryVars, callVars, runVars>>
CliReturned ==
  /\ cli.phase = "running" /\ pc \in {"returned", "cut"}
  /\ pc' = "idle"
  /\ UNCHANGED <<caller, next, memory, reporting, stage, executed, reports, results, rc>>
  /\ cli' = [cli EXCEPT !.phase = "write"]
  /\ IF SavesCommands THEN SaveAs(commands) ELSE UNCHANGED <<files, recorded>>
  /\ UNCHANGED <<registryVars, callVars, runVars>>

\* The stage is saved in place or exported, and either may fail.  Only an export reports it:
\* what Save returns is not looked at, neither here nor after the paths of an export were
\* made relative.
InPlace == cli.args.output = cli.args.input
Output(relative) == [edits |-> told, relative |-> relative]
Rewrites == cli.args.relative /\ ~InPlace

\* Mutant: the stage is written whatever came of the operations.
M_CliWrite ==
  /\ cli.phase = "write"
  /\ \E ok, relative \in BOOLEAN :
       /\ ok \/ cli.args.output # NoName
       /\ relative => ok /\ cli.args.output # NoName /\ Rewrites
       /\ cli' = [cli EXCEPT !.phase = "exited", !.exit = IF rc /\ (ok \/ InPlace) THEN 0 ELSE 1,
                             !.written = IF ok /\ cli.args.output # NoName
                                 THEN <<Output(relative)>> ELSE <<>>]
  /\ UNCHANGED <<vars, registryVars, callVars, runVars, files, recorded>>
CliWrite ==
  /\ cli.phase = "write"
  /\ \E ok, relative \in BOOLEAN :
       /\ ok \/ (rc /\ cli.args.output # NoName)
       /\ relative => ok /\ rc /\ cli.args.output # NoName /\ Rewrites
       /\ cli' = [cli EXCEPT !.phase = "exited", !.exit = IF rc /\ (ok \/ InPlace) THEN 0 ELSE 1,
                             !.written = IF rc /\ ok /\ cli.args.output # NoName
                                 THEN <<Output(relative)>> ELSE <<>>]
  /\ UNCHANGED <<vars, registryVars, callVars, runVars, files, recorded>>

\* The context is freed at the end.
CliExit ==
  /\ cli.phase = "exited"
  /\ cli' = NoCli
  /\ FreeContext
  /\ UNCHANGED <<entry, pc, document, next, hasContext, ownPath, reporting, allocated, stage, executed,
                 reports, results, rc, leaked, runs>>
  /\ UNCHANGED <<registryVars, callVars, runVars, files, recorded>>

Ended == pc = "idle" /\ queue = <<>> /\ cli.phase = "none" /\ at > Len(script) /\ UNCHANGED allVars

SessionNext ==
  \/ Import \/ LoadMore \/ Deregister \/ SetStage
  \/ ExecuteConfig \/ ExecuteMapped \/ RunCommand \/ OtherSteps
  \/ ExecuteOne \/ Hold \/ Analyze \/ Optimize \/ CheckStage \/ ExecuteNext
  \/ CliProcess \/ CliParse \/ CliRun \/ CliNothing \/ CliReturned \/ CliWrite \/ CliExit
  \/ Ended

SessionSpec == SessionInit /\ [][SessionNext]_allVars

-----------------------------------------------------------------------------
\* What the caller said of an argument: the value under its name, or else under a name it
\* had before; nothing when it said nothing.  A Python operation knows no old names when it
\* is executed by itself.
Says(one, argument) ==
  LET former == IF one.renames /\ one.operation \in DOMAIN RenamedArgs
                THEN RenamedArgs[one.operation] ELSE Nothing
  IN IF argument.name \in DOMAIN one.given THEN {one.given[argument.name]}
     ELSE { one.given[k] : k \in { o \in DOMAIN one.given \cap DOMAIN former : former[o] = argument.name } }

\* A number keeps to the bounds; an integer is as good as a real.
Between(argument, half) == (\A b \in argument.min : half >= b) /\ (\A b \in argument.max : half <= b)
Nearest(argument, half) ==
  IF Between(argument, half) THEN half
  ELSE CHOOSE b \in argument.min \cup argument.max :
         Between(argument, b) /\ IF half < b THEN b \in argument.min ELSE b \in argument.max
Meaning(argument, v) ==
  CASE IsNumber(v) -> IF Type(argument.defaultValue) = "real"
                      THEN <<"real", Nearest(argument, Real(v))>>
                      ELSE <<"int", Nearest(argument, 2 * v[2]) \div 2>>
    [] Type(v) = "array" /\ argument.arrayType = "real" ->
         <<"array", [k \in DOMAIN v[2] |-> <<"real", Real(v[2][k])>>]>>
    [] OTHER -> v

\* Whichever way an operation is executed, however often, and whatever was executed before:
\* each of its arguments has the value that the caller gave for it, under its name or an old
\* one, within its bounds, and the default when the caller gave none (Operation::execute
\* maps and populates what executeConfig, parseArgs and the rules have built).
ArgumentsTold ==
  \A k \in DOMAIN told : \A name \in NamesOf(Arguments(told[k].operation)) :
    LET argument == Defined(Arguments(told[k].operation), name)
        said == Says(told[k], argument)
    IN told[k].members[name] =
         IF said = {} THEN argument.defaultValue
         ELSE LET v == CHOOSE v \in said : TRUE
              IN IF told[k].python THEN v
                 ELSE Meaning(argument, v)

\* "Write any operation configuration to the specified JSON file" (UsdOptimize.cpp:187): a
\* later run of that file executes the same operations with the same arguments, as far as
\* both runs get.
Replayed ==
  cli.phase # "none" /\ cli.args.config \in DOMAIN recorded =>
    LET first == recorded[cli.args.config]
    IN \A k \in DOMAIN told \cap DOMAIN first :
         told[k].operation = first[k].operation /\ told[k].members = first[k].members

\* "rather than reporting a phantom success" (UsdOptimizeInterface.cpp:469): a stage is only
\* written with all the operations found in the commands executed, and none failed; exit 0
\* of a run that executed something means that nothing failed, and, when the output is
\* another file than the input, that it was exported.  (Of a stage that is saved in place it
\* does not mean that it was saved: line 491 does not look at what Save returns.)
ExitTells ==
  cli.phase = "exited" =>
    /\ cli.written # <<>> => /\ \A k \in DOMAIN executed : executed[k].ok
                             /\ Len(told) = Cardinality({ i \in DOMAIN document : document[i] = "operation" })
                             /\ cli.exit = 0
    /\ cli.exit = 0 /\ executed # <<>> => \A k \in DOMAIN executed : executed[k].ok
    /\ cli.exit = 0 /\ executed # <<>> /\ cli.args.output \notin {NoName, cli.args.input} =>
         cli.written # <<>>

\* What is registered can be created: the creator of a Python operation returns a wrapper
\* that is alive (Core.cpp:348), and a wrapper lives no longer than its registration.
OperationsUsable ==
  /\ \A name \in DOMAIN operations :
       operations[name].wrapper # 0 =>
         name \in DOMAIN pythonOperations /\ pythonOperations[name] = operations[name].wrapper
  /\ DOMAIN pythonOperations \subseteq DOMAIN operations
=============================================================================
