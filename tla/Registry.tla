------------------------------ MODULE Registry ------------------------------
(***************************************************************************)
(* The registry of UsdOptimizeCore (source/core/src/Core.cpp): operations  *)
(* by name, as libraries and Python packages bring them, and the renames   *)
(* of the mapping file.                                                    *)
(*                                                                         *)
(* A Python operation is owned by a wrapper that pythonOperations holds;   *)
(* what is registered is a creator that returns the wrapper's address.     *)
(* Wrappers are numbered as they are made.                                 *)
(***************************************************************************)
EXTENDS Arguments

CONSTANTS Shipped,       \* the entries of the directory of the product's operations
          OnPath,        \* directories of the environment variable: their entries
          Definitions,   \* operation -> [arguments, supportsAnalysis]
          Renamed,       \* old operation -> operation, of the mapping file
          RenamedArgs    \* operation -> (old argument -> argument)

\* A plugin is a library or a Python package; a package brings one operation.
Plugins == [kind : {"library", "python"}, id : STRING, loads : BOOLEAN,
            operations : Seq(DOMAIN Definitions) \ {<<>>}]
ASSUME PluginsAssumption == Shipped \in Seq(Plugins) /\ OnPath \in Seq(Seq(Plugins))

\* What the operations of the product register: names that differ (addArgument keeps them
\* so), at most one bound on each side, the lower one no higher, and defaults within them.
\* A bound of an integer is no negative fraction, which truncation would move outwards.
Settable(argument) ==
  \/ Type(argument.defaultValue) \in {"string", "bool", "int", "real"}
  \/ Type(argument.defaultValue) = "array" /\ argument.arrayType \in {"int", "real", "string"}
BoundsTell(argument) ==
  /\ argument.min \subseteq Int /\ \A b, c \in argument.min : b = c
  /\ argument.max \subseteq Int /\ \A b, c \in argument.max : b = c
  /\ \A b \in argument.min, c \in argument.max : b <= c
  /\ Type(argument.defaultValue) = "int" => \A b \in argument.min \cup argument.max : Truncated(b) = b \div 2
WellDefined(arguments) ==
  \A i \in DOMAIN arguments :
    /\ arguments[i].name \in Range(Keys) \ {"operation"}
    /\ \A j \in DOMAIN arguments : arguments[i].name = arguments[j].name => i = j
    /\ IsValue(arguments[i].defaultValue) /\ BoundsTell(arguments[i])
    /\ Settable(arguments[i]) =>
         SetArg(arguments[i], arguments[i].defaultValue) = { arguments[i].defaultValue }
ASSUME DefinitionsAssumption == \A name \in DOMAIN Definitions : WellDefined(Definitions[name].arguments)

\* What the mapping file holds: each argument had one other name, which no argument has
\* today and which comes before the name of today in the order of the keys.
ASSUME RenamedArgsAssumption ==
  \A name \in DOMAIN RenamedArgs :
    LET former == RenamedArgs[name]
    IN /\ "operation" \notin DOMAIN former \cup Range(former)
       /\ Range(former) \subseteq Range(Keys) \ DOMAIN former
       /\ \A old, other \in DOMAIN former : former[old] = former[other] => old = other
       /\ \A i, j \in DOMAIN Keys : Keys[i] \in DOMAIN former /\ Keys[j] = former[Keys[i]] => i < j
       /\ name \in DOMAIN Definitions =>
            NamesOf(Definitions[name].arguments) \cap DOMAIN former = {}

VARIABLES operations,        \* name -> [from, wrapper]; wrapper 0 for a library's
          pythonOperations,  \* name -> wrapper
          wrappers,          \* made so far
          mappings           \* old or current operation -> [name, attributes]

registryVars == <<operations, pythonOperations, wrappers, mappings>>
NoName == ""
Nothing == [x \in {} |-> 0]

Entry(from, wrapper) == [from |-> from, wrapper |-> wrapper]
Without(f, name) == Restrict(f, DOMAIN f \ {name})

\* Registering never replaces: the first one keeps the name.
RegisterOperation(r, name, entry) ==
  IF name \in DOMAIN r.operations THEN r
  ELSE [r EXCEPT !.operations = Put(@, name, entry)]

\* A library that does not load, or has no init function, registers nothing.
LoadLibrary(r, file) ==
  IF ~file.loads THEN r
  ELSE FoldLeft(LAMBDA q, name : RegisterOperation(q, name, Entry(file.id, 0)), r, file.operations)

\* A package that fails anywhere on the way to its operation registers nothing, and
\* neither does one whose name is taken.
LoadPython(r, file) ==
  IF ~file.loads \/ file.operations[1] \in DOMAIN r.operations THEN r
  ELSE LET made == r.wrappers + 1
       IN RegisterOperation(
            [r EXCEPT !.wrappers = made,
                      !.pythonOperations = Put(r.pythonOperations, file.operations[1], made)],
            file.operations[1], Entry(file.id, made))

\* The libraries of a directory before its packages, which need an interpreter.
LoadLibraries(r, files) ==
  FoldLeft(LAMBDA q, f : IF f.kind = "library" THEN LoadLibrary(q, f) ELSE q, r, files)
LoadPackages(r, files) ==
  FoldLeft(LAMBDA q, f : IF f.kind = "python" THEN LoadPython(q, f) ELSE q, r, files)
LoadPluginsFromPath(r, files, python) ==
  IF python THEN LoadPackages(LoadLibraries(r, files), files) ELSE LoadLibraries(r, files)

Current == [operations |-> operations, pythonOperations |-> pythonOperations, wrappers |-> wrappers]
Empty == [operations |-> Nothing, pythonOperations |-> Nothing, wrappers |-> 0]
Become(r) == /\ operations' = r.operations
             /\ pythonOperations' = r.pythonOperations
             /\ wrappers' = r.wrappers

\* The renames of operations, then those of their arguments; both are looked up by
\* name in one table.
LoadMappings ==
  [name \in DOMAIN Renamed \cup DOMAIN RenamedArgs |->
     [name |-> IF name \in DOMAIN Renamed THEN Renamed[name] ELSE NoName,
      attributes |-> IF name \in DOMAIN RenamedArgs THEN RenamedArgs[name] ELSE Nothing]]

\* The product's operations, and then those of the environment variable.
LoadPaths(registry, python) ==
  FoldLeft(LAMBDA r, files : LoadPluginsFromPath(r, files, python), registry, <<Shipped>> \o OnPath)
LoadPlugins(registry, python) ==
  /\ Become(LoadPaths(registry, python))
  /\ mappings' = LoadMappings

\* Mutant: only the wrapper goes.
M_DeregisterOperation(name) ==
  /\ UNCHANGED operations
  /\ pythonOperations' = Without(pythonOperations, name)
  /\ UNCHANGED <<wrappers, mappings>>
DeregisterOperation(name) ==
  /\ operations' = Without(operations, name)
  /\ pythonOperations' = Without(pythonOperations, name)
  /\ UNCHANGED <<wrappers, mappings>>

\* The operation of a name, or of the name it was renamed to; NoName when there is none.
GetOperation(name) ==
  CASE name \in DOMAIN operations -> name
    [] name \notin DOMAIN operations /\ name \in DOMAIN mappings
         /\ mappings[name].name \in DOMAIN operations -> mappings[name].name
    [] OTHER -> NoName
IsPython(name) == operations[name].wrapper # 0

\* Renamed arguments get their names, in the order of the old ones: of two keys with
\* one name the later one stays.
MappedKey(attributes, key) == IF key \in DOMAIN attributes THEN attributes[key] ELSE key
MapKey(name, attributes, object, mapped, key) ==
  CASE key \notin DOMAIN object -> mapped
    [] key \in DOMAIN object /\ key = "operation" -> Put(mapped, key, <<"string", name>>)
    [] OTHER -> Put(mapped, MappedKey(attributes, key), object[key])
Mapped(name, attributes, object) ==
  FoldLeft(LAMBDA mapped, key : MapKey(name, attributes, object, mapped, key), Nothing, Keys)

\* Mutant: the keys are looked up from the last one to the first.
M_MapOperation(name, object) ==
  IF name \notin DOMAIN mappings THEN object
  ELSE FoldLeft(LAMBDA mapped, key : MapKey(name, mappings[name].attributes, object, mapped, key),
                Nothing, Reverse(Keys))
MapOperation(name, object) ==
  IF name \notin DOMAIN mappings THEN object ELSE Mapped(name, mappings[name].attributes, object)

\* A configuration without the entries nobody can run, in the names of today.
NameIn(object) == object["operation"][2]
Known(objects) == Among(objects, { o \in Range(objects) :
                                     "operation" \in DOMAIN o /\ GetOperation(NameIn(o)) # NoName })
MapConfig(objects) ==
  LET known == Known(objects)
  IN [k \in DOMAIN known |-> MapOperation(GetOperation(NameIn(known[k])), known[k])]
=============================================================================
