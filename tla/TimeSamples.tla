---------------------------- MODULE TimeSamples ----------------------------
(***************************************************************************)
(* OptimizeTimeSamples: removes the time samples of attributes that the    *)
(* others tell already.  Values count as close when they are equal.        *)
(***************************************************************************)
EXTENDS Attributes

\* The types whose samples the operation takes to be interpolated: by name,
\* so not those with a role.
QuatTypes == {"quatd", "quatd[]", "quatf", "quatf[]"}
LinearTypes == QuatTypes \cup
    {"double", "double[]", "double2", "double2[]", "double3", "double3[]", "double4", "double4[]",
     "float", "float[]", "float2", "float2[]", "float3", "float3[]", "float4", "float4[]",
     "matrix2d", "matrix3d", "matrix4d", "half", "half[]"}
isHeldType(type) == type \notin LinearTypes

\* Several samples of such a type are read as what the type says, unchecked: the behaviour is
\* undefined when one of them is blocked.  Samples of the other types are compared as they are.
Readable(attr) ==
    ~isHeldType(attr.type) /\ Cardinality(DOMAIN attr.samples) > 1
        => \A t \in DOMAIN attr.samples : attr.samples[t] # Block

\* The places of redundant samples among the values vs, sampled at times.
\* Held: a duplicate of the one before.
filterHeld(vs) == { i \in 2..Len(vs) : vs[i] = vs[i - 1] }

\* Mutant: the last sample is kept, as the end of the animation.
M_LastKept(vs) == {}
\* The middle of three equal samples, and a last one equal to the one before.
LastRedundant(vs) == { i \in {Len(vs)} : vs[i] = vs[i - 1] }
filterFloatingPoint(vs) ==
    { i \in 2..(Len(vs) - 1) : vs[i] = vs[i - 1] /\ vs[i + 1] = vs[i] } \cup LastRedundant(vs)

\* Those the neighbours interpolate to: the differences before and after,
\* adjusted for the time between, are equal.
adjustForDelta(diff, delta) == [i \in DOMAIN diff |-> Over(diff[i], delta, 1)]
Diff(vs, i) == [j \in DOMAIN vs[i] |-> Minus(vs[i][j], vs[i - 1][j])]
\* Mutant: the time between samples is not looked at.
M_FilterDifferences(times, vs) ==
    { i \in 2..(Len(vs) - 1) : Diff(vs, i + 1) = Diff(vs, i) } \cup LastRedundant(vs)
filterInterpolated(times, vs) ==
    { i \in 2..(Len(vs) - 1) :
        adjustForDelta(Diff(vs, i + 1), times[i] - times[i - 1])
          = adjustForDelta(Diff(vs, i), times[i + 1] - times[i]) }
    \cup LastRedundant(vs)

\* Interpolation is not asked of rotations.
Redundant(type, times, vs, removeInterpolated) ==
    IF isHeldType(type) THEN filterHeld(vs)
    ELSE IF removeInterpolated /\ type \notin QuatTypes THEN filterInterpolated(times, vs)
    ELSE filterFloatingPoint(vs)
\* The times of a map of samples, which is ordered by them.
Ordered(T) ==
    CHOOSE times \in [1..Cardinality(T) -> T] : \A i, j \in DOMAIN times : i < j => times[i] < times[j]
filterTimeSamples(attr, removeInterpolated) ==
    LET times == Ordered(DOMAIN attr.samples)
        redundant == Redundant(attr.type, times, [i \in DOMAIN times |-> attr.samples[times[i]]],
                               removeInterpolated)
    IN { times[i] : i \in redundant }

\* A single sample, or the only one left, becomes the value.  Of a single one that is blocked
\* there is no value to get, and none is set.
LeftValue(attr, t) ==
    IF DOMAIN attr.samples = {t} /\ attr.samples[t] = Block THEN None ELSE attr.samples[t]
Optimized(attr, removed) ==
    LET kept == DOMAIN attr.samples \ removed
        Cleared(t) == [attr EXCEPT !.samples = << >>, !.default = LeftValue(attr, t)]
    IN IF Cardinality(kept) = 1 THEN Cleared(CHOOSE t \in kept : TRUE)
       ELSE [attr EXCEPT !.samples = [t \in kept |-> @[t]]]
processAttribute(attr, removeInterpolated) ==
    IF attr.samples = << >> THEN attr
    ELSE IF Cardinality(DOMAIN attr.samples) = 1 THEN Optimized(attr, {})
    ELSE Optimized(attr, filterTimeSamples(attr, removeInterpolated))

\* Mutant: a sample that would be left alone is not counted.
M_AnalyzedFiltered(attr, removeInterpolated) ==
    LET size == Cardinality(DOMAIN attr.samples)
    IN IF size <= 1 THEN size ELSE Cardinality(filterTimeSamples(attr, removeInterpolated))
\* What the analysis counts as redundant: all, if it leaves one.
AnalyzedAttribute(attr, removeInterpolated) ==
    LET size == Cardinality(DOMAIN attr.samples)
        removed == Cardinality(filterTimeSamples(attr, removeInterpolated))
    IN IF size <= 1 THEN size ELSE IF removed = size - 1 THEN size ELSE removed
AnalyzedPrim(prim, removeInterpolated) ==
    SumFunction([n \in DOMAIN prim.attrs |-> AnalyzedAttribute(prim.attrs[n], removeInterpolated)])
Analysis(s, removeInterpolated) ==
    SumFunction([p \in Resolved(s) |-> AnalyzedPrim(s.prims[p], removeInterpolated)])

OptimizedPrim(prim, removeInterpolated) ==
    [prim EXCEPT !.attrs = [n \in DOMAIN @ |-> processAttribute(@[n], removeInterpolated)]]
OptimizeTimeSamples(removeInterpolated) ==
    LET resolved == Resolved(stage)
    IN stage' = [stage EXCEPT !.prims =
          [p \in DOMAIN @ |-> IF p \in resolved THEN OptimizedPrim(@[p], removeInterpolated)
                              ELSE @[p]]]
=============================================================================
