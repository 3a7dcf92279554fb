------------------------------ MODULE PutPlan ------------------------------
(***************************************************************************)
(* From the judged files of one category to the candidates of a run: the   *)
(* set completeness gate (internal/put/setgate.go) and the MaxFilesPerRun  *)
(* cut on set boundaries (internal/put/plan.go).  No variables.            *)
(***************************************************************************)
EXTENDS Naturals, FiniteSets

CONSTANTS
    File,            \* (category, file name); one category
    Rank,            \* [File -> Nat]: the order of SortCandidates
    NoSet,           \* the set key of a name the parser does not understand
    SetOf,           \* [File -> set key or NoSet]: domain.SetKeyKind
    KindOf,          \* [File -> kind letter]
    RequiredKinds,   \* the kinds a set needs; {} switches the gate off
    ResendMinKinds   \* the kinds a resend run is content with; {} bypasses

ASSUME RankAssumption ==
    /\ IsFiniteSet(File)
    /\ Rank \in [File -> Nat]
    /\ \A f, g \in File : Rank[f] = Rank[g] => f = g
ASSUME KindAssumption == ResendMinKinds \subseteq RequiredKinds
-----------------------------------------------------------------------------
\* The kinds a file is held for: a resend run that has a gate at all holds
\* for ResendMinKinds only.
HoldKinds(resend) ==
    IF resend /\ RequiredKinds # {} THEN ResendMinKinds ELSE RequiredKinds

Complete(set, kinds, observed) ==
    kinds \subseteq {KindOf[g] : g \in {h \in observed : SetOf[h] = set}}

Holds(f, kinds, observed) ==
    /\ kinds # {}
    /\ SetOf[f] # NoSet
    /\ ~ Complete(SetOf[f], kinds, observed)

\* The identity of a candidate's set always follows RequiredKinds, so that a
\* resend that bypasses the gate still cuts on set boundaries.
SetKey(f) == IF RequiredKinds = {} THEN NoSet ELSE SetOf[f]
-----------------------------------------------------------------------------
\* SortCandidates: by day, then by name.
Before(f, g) == Rank[f] < Rank[g]

\* The first max candidates; 0 is "no limit".
FirstN(cands, max) ==
    IF max = 0 THEN cands
    ELSE {f \in cands : Cardinality({g \in cands : Before(g, f)}) < max}

SplitSets(cands, max) ==
    {SetKey(f) : f \in cands \ FirstN(cands, max)} \ {NoSet}

\* Slip: the cut without the set boundary.
KeptPrefix(cands, max) == FirstN(cands, max)

\* What the cut keeps: the freed places are not filled from the files cut.
Kept(cands, max) ==
    {f \in FirstN(cands, max) : SetKey(f) \notin SplitSets(cands, max)}
=============================================================================
