------------------------------ MODULE MCSession ------------------------------
(* Four operations, the shipped mapping file, and scripts for every way in. *)
EXTENDS Session

Whole(n)  == <<"int", n>>
Half(n) == <<"real", n>>
Text(s) == <<"string", s>>
List(values) == <<"array", values>>
Argument(name, default) ==
  [name |-> name, defaultValue |-> default, displayType |-> "any", arrayType |-> "none",
   min |-> {}, max |-> {}, rejectOutOfRange |-> FALSE, group |-> FALSE]
Group(name) == [Argument(name, Whole(0)) EXCEPT !.group = TRUE]

\* The second "offset" is not added.
Coinciding ==
  AddGroup(AddArgument(AddArgument(AddArgument(<<>>,
      [Argument("primPaths", List(<<>>)) EXCEPT !.displayType = "primPaths", !.arrayType = "string"]),
      [Argument("offset", Half(2)) EXCEPT !.min = {0}, !.max = {7}]),
      Argument("offset", Whole(0))),
    Group("search"), <<"offset">>)
Occluded == <<[Argument("maximumGridResolution", Whole(4)) EXCEPT !.min = {3}, !.max = {17}],
              Argument("singleSided", <<"bool", FALSE>>)>>
Decimate == <<[Argument("reductionFactor", Half(100)) EXCEPT !.min = {0},
               !.max = {200}, !.rejectOutOfRange = TRUE],
              [Argument("weights", List(<<Half(1)>>)) EXCEPT !.arrayType = "real"]>>
Declared == <<[name |-> "primName", defaultValue |-> Text("x"),
               displayType |-> "text", metadata |-> <<>>],
              [name |-> "offset", defaultValue |-> Whole(1), displayType |-> "int",
               metadata |-> [min |-> 0]]>>

MCDefinitions ==
  [findCoincidingGeometry |-> [arguments |-> Coinciding, supportsAnalysis |-> TRUE],
   findOccludedMeshes     |-> [arguments |-> Occluded, supportsAnalysis |-> TRUE],
   decimateMeshes         |-> [arguments |-> Decimate, supportsAnalysis |-> FALSE],
   testOperation          |-> [arguments |-> PythonArguments(Declared), supportsAnalysis |-> FALSE]]
MCRenamed == [findCoincidingMeshes |-> "findCoincidingGeometry",
              findHiddenMeshes |-> "findOccludedMeshes"]
MCRenamedArgs == [findCoincidingGeometry |-> [meshPrimPaths |-> "primPaths"],
                  findOccludedMeshes |-> [gridResolution |-> "maximumGridResolution"]]
MCKeys == <<"generateReport", "gridResolution", "maximumGridResolution",
            "meshPrimPaths", "notes", "offset",
            "operation", "primName", "primPaths", "reductionFactor", "search",
            "singleSided", "weights">>
MCValidPaths == {"/World", "/World/A"}
MCExpressions == {"//Mesh*"}
MCIntegers10 == [x \in {"1", "9", "2.5"} |-> CASE x = "1" -> 1 [] x = "9" -> 9 [] x = "2.5" -> 2]
MCNumbers == [x \in {"1", "9", "2.5"} |-> CASE x = "1" -> 2 [] x = "9" -> 18 [] x = "2.5" -> 5]
MCListed == [x \in {"1", "1,9", "/World,/World/A"} |->
               CASE x = "1"   -> <<"1">>
                 [] x = "1,9" -> <<"1", "9">>
                 [] OTHER     -> <<"/World", "/World/A">>]

Plugin(kind, id, loads, names) == [kind |-> kind, id |-> id, loads |-> loads, operations |-> names]
MCShipped == <<Plugin("python", "test", TRUE, <<"testOperation">>),
               Plugin("library", "mesh", TRUE, <<"findCoincidingGeometry", "findOccludedMeshes">>),
               Plugin("library", "broken", FALSE, <<"decimateMeshes">>),
               Plugin("library", "decimate", TRUE, <<"decimateMeshes">>)>>
Extra == <<Plugin("library", "other", TRUE, <<"testOperation">>),
           Plugin("python", "again", TRUE, <<"findOccludedMeshes">>),
           Plugin("python", "faulty", FALSE, <<"testOperation">>)>>
MCOnPath == <<Extra>>

Run(name, object) == object @@ [operation |-> Text(name)]
Report == [operation |-> Text("executionContext"), generateReport |-> Whole(1)]
NoReport == [operation |-> Text("executionContext"), generateReport |-> Whole(0)]
OldNames == Run("findCoincidingMeshes", [meshPrimPaths |-> List(<<Text("/World")>>),
                                         primPaths |-> List(<<Text("/World/A")>>), offset |-> Whole(9)])
OldName == Run("findHiddenMeshes", [gridResolution |-> Whole(9), singleSided |-> <<"bool", TRUE>>])
Lowest == Run("findOccludedMeshes", [maximumGridResolution |-> Whole(0), notes |-> Text("x")])
TooFar == Run("decimateMeshes", [reductionFactor |-> Whole(101)])
Weighted == Run("decimateMeshes",
                [weights |-> List(<<Whole(1), Half(1)>>), reductionFactor |-> Half(200)])
NoPath == Run("findCoincidingGeometry",
              [offset |-> Half(3), primPaths |-> List(<<Text("not a path")>>)])
Script == Run("testOperation", [primName |-> Whole(3)])
Unknown == Run("nobody", [offset |-> Whole(1)])
Bad == [notes |-> Whole(1)]

ConfigOf(objects) == [call |-> "executeConfig", commands |-> objects]
MapOf(objects) == [call |-> "mapConfig", commands |-> objects]
One(name, object) == [call |-> "executeOperation", operation |-> name, object |-> object]
Holds(name, objects) == [call |-> "hold", operation |-> name, objects |-> objects]
Batched(kind, calls) == [call |-> kind, calls |-> calls]
To(name, object) == [operation |-> name, object |-> object]
Cli(words) == [call |-> "cli", argv |-> words]
Imports == [call |-> "import"]
Loads == [call |-> "loadPluginsFromPath", files |-> Extra]
Drops(name) == [call |-> "deregisterOperation", operation |-> name]
Rule == [name |-> "CoincidingChecker", operation |-> "findCoincidingGeometry",
         object |-> [primPaths |-> List(<<Text("//Mesh*")>>)],
         parameters |-> <<[name |-> "OFFSET", opArg |-> "offset", value |-> <<"null", 0>>]>>]
Checks(assigned) == [call |-> "check", rule |-> Rule, assigned |-> assigned]

Configs == BoundedSeq({ Report, NoReport, OldNames, TooFar, Unknown, Bad }, 3) \cup { NoObjects }
Others == { <<OldName, Lowest>>, <<Weighted, NoPath>>, <<Report, Lowest, Script>>,
           <<Script, Report, Weighted>> }
MCDisk == [config |-> <<Report, OldNames, Unknown, TooFar>>, broken |-> NoObjects,
           odd |-> <<Lowest, Bad>>]
MCDashed == Taking \cup Switching \cup {"-h", "-x"}
W(s) == <<s>>
CliRuns ==
  { <<W("-o"), W("findHiddenMeshes"), W("-a"), <<"maximumGridResolution", "2.5">>,
      W("-a"), W("singleSided"),
      W("-o"), W("findCoincidingGeometry"), W("-a"), <<"primPaths", "/World,/World/A">>,
          W("-a"), <<"offset", "9">>,
      W("-j"), W("saved"), W("-r"), W("-w"), W("out"), W("in")>>,
    <<W("-an"), W("-o"), W("findOccludedMeshes"), W("-o"), W("decimateMeshes"),
      W("-a"), <<"singleSided", "0">>,
      W("-j"), W("saved"), W("in")>>,
    <<W("-o"), W("decimateMeshes"), W("-a"), <<"weights", "1,9">>, W("-a"), <<"reductionFactor", "9">>,
      W("-an"), W("-w"), W("out"), W("-i"), W("in")>>,
    <<W("-o"), W("decimateMeshes"), W("-a"), <<"reductionFactor", "1">>,
      W("-o"), W("findOccludedMeshes"),
      W("-a"), <<"singleSided", "true">>, W("-j"), W("saved"), W("-w"), W("in"), W("-i"), W("in")>>,
    <<W("-a"), <<"offset", "1">>, W("in")>>, <<W("-o"), W("nobody"), W("in")>>,
        <<W("-o"), W("testOperation"), W("in")>>,
    <<W("-o"), W("decimateMeshes"), W("-a"), <<"reductionFactor", "/World">>, W("in")>>,
    <<W("-o"), W("decimateMeshes"), W("-a"), <<"reductionFactor">>, W("in")>>,
    <<>>, <<W("-h")>>, <<W("-c"), W("missing"), W("in")>>, <<W("-s"), W("in")>>, <<W("-s")>>,
    <<W("x"), W("in")>>, <<W("-o"), W("findOccludedMeshes"), W("-x")>>, <<W("-i"), W("in"), W("-c")>> }
Again == { <<W("-c"), W("saved"), W("-w"), W("out"), W("-rp"), W("-fl"), W("in")>>,
           <<W("-c"), W("config"), W("-w"), W("out"), W("in")>>,
           <<W("-c"), W("broken"), W("in")>>, <<W("-c"), W("odd"), W("-r"), W("in")>> }

MCScripts ==
  { <<Imports, ConfigOf(c), ConfigOf(d)>> : c \in Configs, d \in Others }
    \cup { <<Imports, MapOf(<<OldNames, Unknown, OldName, Bad>>), ConfigOf(<<OldName, Lowest>>)>> }
    \cup { <<Cli(first), Cli(second)>> : first \in CliRuns, second \in Again }
    \cup { <<Imports,
             Holds("findHiddenMeshes", <<OldName, Nothing, [maximumGridResolution |-> Half(9)]>>),
             Drops("testOperation"), Loads, One("testOperation", Script)>>,
           <<Imports, Holds("findCoincidingGeometry",
                            <<[offset |-> Half(9)], NoPath, [offset |-> Whole(-1)], Nothing>>)>>,
           <<Imports, Holds("decimateMeshes", <<Weighted, TooFar, Nothing>>), One("nobody", Nothing)>>,
           <<Imports, Drops("nobody"), Drops("testOperation"), Imports,
             One("testOperation", Script), Drops("findOccludedMeshes"), Loads,
             One("findHiddenMeshes", OldName)>>,
           <<Imports, Batched("analyze", <<To("findOccludedMeshes", OldName),
                                           To("decimateMeshes", Nothing), To("nobody", Nothing)>>),
             Batched("optimize", <<To("decimateMeshes", Weighted), To("findHiddenMeshes", OldName)>>)>>,
           <<Imports, Batched("optimize",
                              <<To("decimateMeshes", Weighted), To("testOperation", Script)>>),
             ConfigOf(<<Report, OldNames, Script>>)>>,
           <<Imports, Checks(Nothing),
             Checks(<<"OFFSET">> :> Whole(4) @@ <<"CoincidingChecker", "OFFSET">> :> Half(5))>>,
           <<Imports, Checks(<<"OFFSET">> :> Whole(2)), One("findCoincidingMeshes", OldNames)>> }
=============================================================================
