------------------------------ MODULE Arguments ------------------------------
(***************************************************************************)
(* The arguments of operations: how a JSON object, a Python dictionary or  *)
(* words of a command line become the values that an operation reads       *)
(* (source/core/src/Argument.cpp, Operation.cpp, PythonOperation.cpp,      *)
(* source/cli/src/UsdOptimizeInterface.cpp).                               *)
(*                                                                         *)
(* A JSON value is a pair of its type and its payload; reals are counted   *)
(* in halves.  A JSON object is a function from keys to values.  An        *)
(* argument is a record: name, defaultValue, displayType, arrayType, min   *)
(* and max (sets of at most one bound, in halves), rejectOutOfRange and    *)
(* group (it is a group, which has no value).                              *)
(***************************************************************************)
EXTENDS Integers, Sequences, SequencesExt, FiniteSets, Functions

CONSTANTS Keys,         \* every key of an object, in the order of std::map
          ValidPaths,   \* texts that are prim paths
          Expressions,  \* texts that are path expressions and no paths
          Integers10,   \* text -> what std::stoi makes of it, where it does not throw
          Numbers,      \* text -> what std::stod makes of it, in halves
          Listed        \* text -> its parts between commas

\* The elements of a sequence that are in a set, in their order.
Among(s, T) == FoldLeft(LAMBDA kept, x : IF x \in T THEN Append(kept, x) ELSE kept, <<>>, s)

Type(v) == v[1]
IsNumber(v) == Type(v) \in {"int", "real"}
\* A JSON value, and an object; numbers are what their texts are parsed to.
IsValue(v)  == v = <<Type(v), v[2]>> /\ (IsNumber(v) => v[2] \in Int)
IsObject(o) == DOMAIN o \subseteq Range(Keys) /\ \A k \in DOMAIN o : IsValue(o[k])
ASSUME TextsAssumption ==
  /\ Keys \in Seq(STRING) /\ "operation" \in Range(Keys)
  /\ \A text \in DOMAIN Integers10 : Integers10[text] \in Int
  /\ \A text \in DOMAIN Numbers : Numbers[text] \in Int

Put(f, k, v) == [x \in DOMAIN f \cup {k} |-> IF x = k THEN v ELSE f[x]]
Named(arguments, name) == { i \in DOMAIN arguments : arguments[i].name = name }
Defined(arguments, name) == arguments[CHOOSE i \in Named(arguments, name) : TRUE]

\* Arguments are unique by name: a second one is not added.
AddArgument(arguments, argument) ==
  IF Named(arguments, argument.name) = {} THEN Append(arguments, argument) ELSE arguments

\* A group stands before its children, which are moved behind it in their order.
AddGroup(arguments, group, children) ==
  LET rest == SelectSeq(arguments, LAMBDA a : a.name \notin Range(children))
      own  == [k \in DOMAIN children |-> arguments[CHOOSE i \in Named(arguments, children[k]) : TRUE]]
  IN rest \o <<group>> \o own

-----------------------------------------------------------------------------
(* Setting a member of an operation *)

\* A bound is a float; of an int argument it is truncated.
Truncated(half) == IF half >= 0 THEN half \div 2 ELSE -((-half) \div 2)
Clamped(n, lower, upper) ==
  LET raised == IF \E b \in lower : n < b THEN CHOOSE b \in lower : TRUE ELSE n
  IN IF \E b \in upper : raised > b THEN CHOOSE b \in upper : TRUE ELSE raised
Bounded(argument, half) == <<"real", Clamped(half, argument.min, argument.max)>>

Real(v) == IF Type(v) = "int" THEN 2 * v[2] ELSE v[2]

\* What setArg stores: nothing, when the elements are not of the array's type.
ArrayValues(arrayType, elements) ==
  CASE arrayType = "real"   -> IF \A k \in DOMAIN elements : IsNumber(elements[k])
                               THEN { <<"array",
                                        [k \in DOMAIN elements |-> <<"real", Real(elements[k])>>]>> }
                               ELSE {}
    [] arrayType \in {"int", "string"} ->
         IF \A k \in DOMAIN elements : Type(elements[k]) = arrayType
             THEN { <<"array", elements>> } ELSE {}
    [] OTHER -> {}

\* Mutant: an integer given to a real argument is stored without its bounds.
M_SetArg(argument, v) ==
  CASE Type(v) \in {"string", "bool"} -> {v}
    [] Type(v) = "int" /\ Type(argument.defaultValue) = "real" -> { <<"real", 2 * v[2]>> }
    [] Type(v) = "int" /\ Type(argument.defaultValue) # "real" ->
         { <<"int", Clamped(v[2], { Truncated(b) : b \in argument.min },
                            { Truncated(b) : b \in argument.max })>> }
    [] Type(v) = "real"  -> { Bounded(argument, v[2]) }
    [] Type(v) = "array" -> ArrayValues(argument.arrayType, v[2])
    [] OTHER -> {}
SetArg(argument, v) ==
  CASE Type(v) \in {"string", "bool"} -> {v}
    [] Type(v) = "int" /\ Type(argument.defaultValue) = "real" -> { Bounded(argument, 2 * v[2]) }
    [] Type(v) = "int" /\ Type(argument.defaultValue) # "real" ->
         { <<"int", Clamped(v[2], { Truncated(b) : b \in argument.min },
                            { Truncated(b) : b \in argument.max })>> }
    [] Type(v) = "real"  -> { Bounded(argument, v[2]) }
    [] Type(v) = "array" -> ArrayValues(argument.arrayType, v[2])
    [] OTHER -> {}

OutOfRange(argument, v) ==
  /\ argument.rejectOutOfRange /\ IsNumber(v)
  /\ (\E b \in argument.min : Real(v) < b) \/ (\E b \in argument.max : Real(v) > b)

Texts(elements) == { elements[k][2] : k \in DOMAIN elements }
IsValidPathsArgument(elements) ==
  Texts(elements) \subseteq ValidPaths
    \/ (Texts(elements) \subseteq ValidPaths \cup Expressions /\ elements # <<>>)

\* The values are stored one key after the other, until one of them cannot be.
Rejected(argument, v) ==
  \/ Type(v) # Type(argument.defaultValue) /\ ~(Type(v) = "int" /\ Type(argument.defaultValue) = "real")
  \/ OutOfRange(argument, v)
  \/ argument.displayType = "primPaths" /\ ~IsValidPathsArgument(v[2])
  \/ SetArg(argument, v) = {}

Stored(arguments, so, key, v) ==
  LET argument == Defined(arguments, key)
  IN IF Rejected(argument, v) THEN [so EXCEPT !.ok = FALSE]
     ELSE [so EXCEPT !.members[key] = CHOOSE stored \in SetArg(argument, v) : TRUE]
PopulateExecutionArguments(arguments, members, object) ==
  FoldLeft(LAMBDA so, key : IF so.ok /\ key \in DOMAIN object /\ Named(arguments, key) # {}
                            THEN Stored(arguments, so, key, object[key]) ELSE so,
           [ok |-> TRUE, members |-> members], Keys)

Valued(arguments) == { i \in DOMAIN arguments : ~arguments[i].group }
NamesOf(arguments) == { arguments[i].name : i \in Valued(arguments) }

\* The members of an operation when it has been created, and after it was executed.
Initial(arguments) == [name \in NamesOf(arguments) |-> Defined(arguments, name).defaultValue]

\* Mutant: the members keep what the last execution was given.
M_ResetArgs(arguments, members) == members
ResetArgs(arguments, members) ==
  [name \in NamesOf(arguments) |->
     LET argument == Defined(arguments, name)
         set == SetArg(argument, argument.defaultValue)
     IN IF set = {} THEN members[name] ELSE CHOOSE stored \in set : TRUE]

-----------------------------------------------------------------------------
(* Python operations keep their arguments in Python. *)

\* Operation.add_argument: every argument that is given no metadata of its own writes
\* into one dictionary, the default of the parameter.
SharedMetadata(declared) ==
  FoldLeft(LAMBDA shared, a : a.metadata @@ shared, <<>>, declared)

\* What C++ reads of the text of an argument: the enums are looked for beside the
\* metadata, and never found there.
Deserialize(declared, a) ==
  LET metadata == SharedMetadata(declared)
      Bound(key) == IF key \in DOMAIN metadata THEN {metadata[key]} ELSE {}
  IN [name |-> a.name, defaultValue |-> a.defaultValue, displayType |-> a.displayType,
      arrayType |-> "none", min |-> Bound("min"), max |-> Bound("max"),
      rejectOutOfRange |-> FALSE, group |-> FALSE]
PythonArguments(declared) == [i \in DOMAIN declared |-> Deserialize(declared, declared[i])]

\* The dictionary execute() is called with: what is given, over the defaults.
Merged(arguments, object) ==
  [key \in DOMAIN object \cup NamesOf(arguments) |->
     IF key \in DOMAIN object THEN object[key] ELSE Defined(arguments, key).defaultValue]

-----------------------------------------------------------------------------
(* Words of the command line: what an argument of this type makes of a text; nothing,
   when that ends the program. *)
ParseBool(text) ==
  CASE text \in {"true", "TRUE", "1"} -> { <<"bool", TRUE>> }
    [] text \in {"false", "FALSE", "0"} -> { <<"bool", FALSE>> }
    [] OTHER -> {}
ParseInt(text)  == IF text \in DOMAIN Integers10 THEN { <<"int", Integers10[text]>> } ELSE {}
ParseReal(text) == IF text \in DOMAIN Numbers THEN { <<"real", Numbers[text]>> } ELSE {}
ParseAs(type, text) == CASE type = "int" -> ParseInt(text)
                         [] type = "real" -> ParseReal(text)
                         [] type = "string" -> { <<"string", text>> }
                         [] OTHER -> {}
TransformValue(type, texts) ==
  IF \E k \in DOMAIN texts : ParseAs(type, texts[k]) = {} THEN {}
  ELSE { <<"array", [k \in DOMAIN texts |-> CHOOSE v \in ParseAs(type, texts[k]) : TRUE]>> }
ValueOfText(argument, text) ==
  CASE Type(argument.defaultValue) = "bool"  -> ParseBool(text)
    [] Type(argument.defaultValue) = "array" -> TransformValue(argument.arrayType, Listed[text])
    [] OTHER -> ParseAs(Type(argument.defaultValue), text)
=============================================================================
