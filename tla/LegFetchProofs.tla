--------------------------- MODULE LegFetchProofs ---------------------------
(***************************************************************************)
(* What holds of a leg's files for every finite tree and any number of     *)
(* pulls, hosts and relaunches.  The order of publish is shown to be a     *)
(* strict total order with the marker last in it, if the marker is at most *)
(* two components deep; from there the marker is followed backwards, from  *)
(* the leg's directory through the staging directories to the box.         *)
(***************************************************************************)
EXTENDS LegFetch, FiniteSetTheorems, WellFoundedInduction, TLAPS

-----------------------------------------------------------------------------
(* The order of publish                                                    *)

\* One component ahead of another, at depth k.
Ahead(k, a, b) == a # b /\ (b = LastAt(k) \/ (a # LastAt(k) /\ a < b))

LEMMA LayoutFacts ==
  ASSUME layout \in Layouts
  PROVE  /\ layout.files \subseteq Seq(Nat) /\ IsFiniteSet(layout.files)
         /\ layout.marker \in layout.files /\ Nothing \notin layout.files
         /\ \A f, g \in layout.files : f # g => \E k \in 1 .. Len(f) : PartAt(f, g, k)
  BY LegFetchAssumption DEF Nothing

LEMMA BeforeIsAhead ==
  ASSUME NEW f, NEW g
  PROVE  Before(f, g) <=> \E k \in 1 .. Len(f) : PartAt(f, g, k) /\ Ahead(k, f[k], g[k])
  BY DEF Before, Ahead, PartAt

LEMMA AheadIsTotal ==
  ASSUME NEW k, NEW a \in Nat, NEW b \in Nat, a # b
  PROVE  Ahead(k, a, b) \/ Ahead(k, b, a)
  BY DEF Ahead

LEMMA AheadIsTransitive ==
  ASSUME NEW k, NEW a \in Nat, NEW b \in Nat, NEW c \in Nat, Ahead(k, a, b), Ahead(k, b, c)
  PROVE  Ahead(k, a, c)
  BY DEF Ahead

\* Any two files are in one order or the other.
LEMMA BeforeIsTotal ==
  ASSUME layout \in Layouts, NEW f \in layout.files, NEW g \in layout.files, f # g
  PROVE  Before(f, g) \/ Before(g, f)
<1>1. PICK k \in 1 .. Len(f) : PartAt(f, g, k)
  BY LayoutFacts
<1>2. f \in Seq(Nat) /\ g \in Seq(Nat)
  BY LayoutFacts
<1>3. k \in 1 .. Len(g) /\ f[k] \in Nat /\ g[k] \in Nat /\ f[k] # g[k]
  BY <1>1, <1>2 DEF PartAt
<1>4. PartAt(g, f, k)
  BY <1>1, <1>2, <1>3 DEF PartAt
<1>5. Ahead(k, f[k], g[k]) \/ Ahead(k, g[k], f[k])
  BY <1>3, AheadIsTotal
<1>6. QED
  BY <1>1, <1>3, <1>4, <1>5, BeforeIsAhead

LEMMA BeforeIsIrreflexive ==
  ASSUME NEW f
  PROVE  ~ Before(f, f)
  BY DEF Before, PartAt

LEMMA BeforeIsTransitive ==
  ASSUME layout \in Layouts, NEW f \in layout.files, NEW g \in layout.files,
         NEW h \in layout.files, Before(f, g), Before(g, h)
  PROVE  Before(f, h)
<1>1. PICK k \in 1 .. Len(f) : PartAt(f, g, k) /\ Ahead(k, f[k], g[k])
  BY BeforeIsAhead
<1>2. PICK m \in 1 .. Len(g) : PartAt(g, h, m) /\ Ahead(m, g[m], h[m])
  BY BeforeIsAhead
<1>3. f \in Seq(Nat) /\ g \in Seq(Nat) /\ h \in Seq(Nat)
  BY LayoutFacts
<1>4. CASE k < m
  <2>1. k \in 1 .. m - 1
    BY <1>1, <1>2, <1>3, <1>4
  <2>2. \A j \in 1 .. m - 1 : h[j] = g[j]
    BY <1>2 DEF PartAt
  <2>3. \A j \in 1 .. k - 1 : f[j] = h[j]
    BY <1>1, <1>3, <1>4, <2>2 DEF PartAt
  <2>4. PartAt(f, h, k)
    BY <1>1, <1>2, <1>3, <1>4, <2>1, <2>2, <2>3 DEF PartAt
  <2>5. QED
    BY <1>1, <2>1, <2>2, <2>4, BeforeIsAhead
<1>5. CASE m < k
  <2>1. m \in 1 .. Len(f) /\ m \in 1 .. k - 1
    BY <1>1, <1>2, <1>3, <1>5
  <2>2. \A j \in 1 .. k - 1 : f[j] = g[j]
    BY <1>1 DEF PartAt
  <2>3. \A j \in 1 .. m - 1 : g[j] = h[j]
    BY <1>2 DEF PartAt
  <2>4. \A j \in 1 .. m - 1 : f[j] = h[j]
    BY <1>3, <1>5, <2>1, <2>2, <2>3
  <2>5. m <= Len(h) /\ g[m] # h[m]
    BY <1>2 DEF PartAt
  <2>6. PartAt(f, h, m)
    BY <1>3, <2>1, <2>2, <2>4, <2>5 DEF PartAt
  <2>7. QED
    BY <1>2, <2>1, <2>2, <2>6, BeforeIsAhead
<1>6. CASE k = m
  <2>1. f[k] \in Nat /\ g[k] \in Nat /\ h[k] \in Nat
    BY <1>1, <1>2, <1>3, <1>6 DEF PartAt
  <2>2. Ahead(k, f[k], h[k])
    BY <1>1, <1>2, <1>6, <2>1, AheadIsTransitive
  <2>3. PartAt(f, h, k)
    BY <1>1, <1>2, <1>3, <1>6, <2>2 DEF PartAt, Ahead
  <2>4. QED
    BY <2>2, <2>3, BeforeIsAhead
<1>7. QED
  BY <1>1, <1>2, <1>3, <1>4, <1>5, <1>6

\* Numbers are well-ordered.
LEMMA LeastNumber ==
  ASSUME NEW T, T \subseteq Nat, T # {}
  PROVE  \E n \in T : \A m \in T : n <= m
<1>1. PICK n \in T : \A m \in T : ~ (<<m, n>> \in OpToRel(<, Nat))
  BY NatLessThanWellFounded, WFMin
<1>2. \A m \in T : ~ (m < n)
  BY <1>1 DEF OpToRel
<1>3. QED
  BY <1>2

\* A nonempty set of files has a first one: the file with the fewest before it.
LEMMA FirstIsFirst ==
  ASSUME layout \in Layouts, NEW S \in SUBSET layout.files, S # {}
  PROVE  /\ First(S) \in S
         /\ \A g \in S \ {First(S)} : Before(First(S), g)
<1> DEFINE Pred(f) == {g \in S : Before(g, f)}
           T == {Cardinality(Pred(f)) : f \in S}
<1>1. IsFiniteSet(S)
  BY LayoutFacts, FS_Subset
<1>2. \A f \in S : IsFiniteSet(Pred(f)) /\ Cardinality(Pred(f)) \in Nat
  <2>1. ASSUME NEW f \in S
        PROVE  IsFiniteSet(Pred(f)) /\ Cardinality(Pred(f)) \in Nat
    <3>1. Pred(f) \in SUBSET S
      OBVIOUS
    <3>2. IsFiniteSet(Pred(f))
      BY <1>1, <3>1, FS_Subset
    <3>3. QED
      BY <3>2, FS_CardinalityType
  <2>2. QED
    BY <2>1
<1>3. T \subseteq Nat /\ T # {}
  BY <1>2
<1>4. PICK n \in T : \A m \in T : n <= m
  BY <1>3, LeastNumber
<1>5. PICK f \in S : n = Cardinality(Pred(f))
  BY <1>4
<1>6. \A g \in S : Cardinality(Pred(f)) <= Cardinality(Pred(g))
  BY <1>4, <1>5
<1>7. ASSUME NEW g \in S \ {f}, ~ Before(f, g) PROVE FALSE
  <2>1. Before(g, f)
    BY <1>7, BeforeIsTotal
  <2>2. Pred(g) \subseteq Pred(f)
    BY <2>1, BeforeIsTransitive
  <2>3. g \in Pred(f) /\ g \notin Pred(g)
    BY <2>1, BeforeIsIrreflexive
  <2>4. Pred(g) \in SUBSET Pred(f) /\ Pred(g) # Pred(f)
    BY <2>2, <2>3
  <2>5. Cardinality(Pred(g)) <= Cardinality(Pred(f))
        /\ Cardinality(Pred(g)) # Cardinality(Pred(f))
    BY <1>2, <2>4, FS_Subset
  <2>6. Cardinality(Pred(g)) \in Nat /\ Cardinality(Pred(f)) \in Nat
    BY <1>2
  <2>7. Cardinality(Pred(f)) <= Cardinality(Pred(g))
    BY <1>6
  <2>8. QED
    BY <2>5, <2>6, <2>7
<1>8. \E x \in S : \A g \in S \ {x} : Before(x, g)
  BY <1>7
<1>9. QED
  BY <1>8 DEF First

\* The trees whose done_when is a file of the leg's directory or of a directory in
\* it: below that, publish knows a file named like the marker from any other no more.
ShallowMarkers == \A lay \in Layouts : Len(lay.marker) <= 2

\* publish moves a marker last of all.
LEMMA MarkerIsLast ==
  ASSUME ShallowMarkers, layout \in Layouts, NEW S \in SUBSET layout.files,
         layout.marker \in S, First(S) = layout.marker
  PROVE  S = {layout.marker}
<1>1. ASSUME NEW f \in S \ {layout.marker} PROVE FALSE
  <2>1. f \in layout.files /\ layout.marker \in layout.files
    BY <1>1, LayoutFacts
  <2>2. PICK k \in 1 .. Len(f) : PartAt(f, layout.marker, k)
    BY <1>1, <2>1, LayoutFacts
  <2>3. layout.marker \in Seq(Nat) /\ f \in Seq(Nat)
    BY <2>1, LayoutFacts
  <2>4. Len(layout.marker) <= 2
    BY DEF ShallowMarkers
  <2>5. layout.marker[k] = LastAt(k)
    BY <2>2, <2>3, <2>4 DEF PartAt, LastAt
  <2>6. Before(f, layout.marker)
    BY <2>2, <2>5 DEF Before
  <2>7. Before(layout.marker, f)
    BY <1>1, FirstIsFirst
  <2>8. Before(f, f)
    BY <2>1, <2>6, <2>7, BeforeIsTransitive
  <2>9. QED
    BY <2>8, BeforeIsIrreflexive
<1>2. QED
  BY <1>1

-----------------------------------------------------------------------------
(* Types                                                                   *)

Trees == [layout.files -> Contents]

LegTypes ==
  /\ layout \in Layouts /\ atomic \in AtomicWriters /\ cuts \in CutTransfers
  /\ leg \in {"idle", "working", "joining", "fetching", "checking", "done"}
  /\ rc \in {"none", "ok", "failed", "died"}
  /\ status \in {"none", "SKIP", "OK", "NO_RESULT", "BAD_ARTIFACTS", "RUN_FAIL"}
  /\ remote \in Trees /\ local \in Trees
  /\ stage \in [Fetches -> Trees]
  /\ writing \in layout.files \cup {Nothing}
  /\ up \in BOOLEAN
  /\ fpc \in [Fetches -> {"off", "copying", "publishing"}]
  /\ listing \in [Fetches -> SUBSET layout.files]

\* Only a leg past its join has a final fetch, and only a leg whose command runs,
\* or is about to be joined, a mid-run one, if joins do not time out.  A joining
\* leg knows how its command ended.
FetcherInv ==
  /\ fpc["final"] # "off" => leg = "fetching"
  /\ ~ JoinTimesOut => (fpc["midrun"] # "off" => leg \in {"working", "joining"})
  /\ leg = "joining" => rc # "none"

LEMMA EmptyIsATree ==
  ASSUME layout \in Layouts
  PROVE  Empty \in Trees
  BY DEF Empty, Trees, Contents

\* One file of a staging directory changes.
LEMMA StageOne ==
  ASSUME stage \in [Fetches -> Trees], NEW a \in Fetches, NEW f \in layout.files,
         NEW c \in Contents
  PROVE  [stage EXCEPT ![a][f] = c] \in [Fetches -> Trees]
  BY DEF Trees

LEMMA PublishedFile ==
  ASSUME LegTypes, NEW a \in Fetches, PublishFile(a)
  PROVE  \E f \in Present(stage[a]) :
           /\ f \in layout.files /\ f = First(Present(stage[a]))
           /\ stage[a][f] \in Contents \ {"absent"}
           /\ local' = [local EXCEPT ![f] = stage[a][f]]
           /\ stage' = [stage EXCEPT ![a][f] = "absent"]
<1> DEFINE f == First(Present(stage[a]))
<1>1. Present(stage[a]) \in SUBSET layout.files /\ Present(stage[a]) # {}
  BY DEF PublishFile, Present
<1>2. f \in Present(stage[a])
  BY <1>1, FirstIsFirst DEF LegTypes
<1>3. f \in layout.files /\ stage[a][f] \in Contents \ {"absent"}
  BY <1>2 DEF Present, LegTypes, Trees
<1>4. QED
  BY <1>2, <1>3 DEF PublishFile

LEMMA LegTypesKept ==
  ASSUME LegTypes, FetcherInv, [Next]_vars
  PROVE  LegTypes' /\ FetcherInv'
<1> USE DEF LegTypes, FetcherInv, setting, boxVars, fetchVars, Fetches
<1> layout \in Layouts
  OBVIOUS
<1>0. Empty \in Trees /\ "absent" \in Contents /\ "part" \in Contents /\ "full" \in Contents
  BY EmptyIsATree DEF Contents
<1>1. ASSUME NEW f \in layout.files, Write(f) PROVE LegTypes' /\ FetcherInv'
  BY <1>0, <1>1 DEF Write, Trees
<1>2. CASE FinishWrite
  BY <1>0, <1>2 DEF FinishWrite, Trees
<1>3. CASE HostDies
  BY <1>3 DEF HostDies, Trees
<1>4. ASSUME NEW a \in Fetches, StartFetch(a) PROVE LegTypes' /\ FetcherInv'
  BY <1>0, <1>4 DEF StartFetch, Fetching, Trees, Present
<1>5. ASSUME NEW a \in Fetches, CopyEnds(a) PROVE LegTypes' /\ FetcherInv'
  BY <1>5 DEF CopyEnds, Trees
<1>6. ASSUME NEW a \in Fetches, PublishFile(a) PROVE LegTypes' /\ FetcherInv'
  <2>1. PICK f \in layout.files :
          /\ stage[a][f] \in Contents
          /\ local' = [local EXCEPT ![f] = stage[a][f]]
          /\ stage' = [stage EXCEPT ![a][f] = "absent"]
    BY <1>6, PublishedFile
  <2>2. stage' \in [Fetches -> Trees]
    BY <1>0, <2>1, StageOne
  <2>3. local' \in Trees
    BY <2>1 DEF Trees
  <2>4. Trees' = Trees
    BY <1>6 DEF PublishFile, Trees
  <2>5. QED
    BY <1>6, <2>2, <2>3, <2>4 DEF PublishFile
<1>7. ASSUME NEW a \in Fetches, PublishEnds(a) PROVE LegTypes' /\ FetcherInv'
  BY <1>7 DEF PublishEnds, Trees
<1>8. ASSUME NEW a \in Fetches, NEW f \in layout.files, CopyFile(a, f)
      PROVE  LegTypes' /\ FetcherInv'
  <2>1. remote[f] \in Contents
    BY DEF Trees
  <2>2. stage' \in [Fetches -> Trees]
    BY <1>8, <2>1, StageOne DEF CopyFile
  <2>3. Trees' = Trees
    BY <1>8 DEF CopyFile, Trees
  <2>4. QED
    BY <1>8, <2>2, <2>3 DEF CopyFile
<1>9. ASSUME NEW a \in Fetches, NEW f \in layout.files, CopyCut(a, f)
      PROVE  LegTypes' /\ FetcherInv'
  <2>2. stage' \in [Fetches -> Trees]
    BY <1>0, <1>9, StageOne DEF CopyCut
  <2>3. Trees' = Trees
    BY <1>9 DEF CopyCut, Trees
  <2>4. QED
    BY <1>9, <2>2, <2>3 DEF CopyCut
<1>10. CASE BeginLeg
  BY <1>0, <1>10 DEF BeginLeg, Restored, Trees
<1>11. CASE CommandEnds
  BY <1>11 DEF CommandEnds, Trees
<1>12. CASE Join
  <2>1. /\ leg = "joining" /\ (fpc["midrun"] = "off" \/ JoinTimesOut)
        /\ UNCHANGED <<layout, atomic, cuts, rc, remote, writing, up, local, fpc, listing, stage>>
    BY <1>12 DEF Join
  <2>2. rc \in {"ok", "failed", "died"}
    BY <2>1
  <2>3. leg' \in {"fetching", "done", "idle"}
    BY <1>12, <2>2 DEF Join
  <2>4. status' \in {"none", "SKIP", "OK", "NO_RESULT", "BAD_ARTIFACTS", "RUN_FAIL"}
    BY <1>12 DEF Join
  <2>5. Trees' = Trees
    BY <2>1 DEF Trees
  <2>6. QED
    BY <2>1, <2>2, <2>3, <2>4, <2>5
<1>13. CASE Check
  BY <1>13 DEF Check, Trees
<1>14. CASE DriverRestarts
  BY <1>0, <1>14 DEF DriverRestarts, Trees
<1>15. CASE UNCHANGED vars
  BY <1>15 DEF vars, Trees
<1>16. QED
  BY <1>1, <1>2, <1>3, <1>4, <1>5, <1>6, <1>7, <1>8, <1>9, <1>10, <1>11, <1>12, <1>13,
     <1>14, <1>15 DEF Next, FetchStep

-----------------------------------------------------------------------------
(* Torn files                                                              *)

\* Where a payload writes atomically and transfers are whole, nothing is torn
\* anywhere on its way.
WholeInv ==
  atomic /\ ~ cuts =>
    /\ writing = Nothing
    /\ \A f \in layout.files :
         /\ remote[f] # "part" /\ local[f] # "part"
         /\ \A a \in Fetches : stage[a][f] # "part"

\* The same, and the leg's directory loses nothing that was whole.
LEMMA WholeKept ==
  ASSUME LegTypes, FetcherInv, WholeInv, [Next]_vars
  PROVE  /\ WholeInv'
         /\ atomic /\ ~ cuts =>
              \A f \in layout.files : local[f] = "full" => local'[f] = "full"
<1> USE DEF LegTypes, WholeInv, setting, boxVars, fetchVars, Fetches, Trees
<1> DEFINE Kept == atomic /\ ~ cuts =>
                     \A f \in layout.files : local[f] = "full" => local'[f] = "full"
<1>0. Empty \in Trees /\ \A f \in layout.files : Empty[f] # "part"
  BY EmptyIsATree DEF Empty
<1>1. ASSUME NEW f \in layout.files, Write(f) PROVE WholeInv' /\ Kept
  BY <1>1 DEF Write
<1>2. CASE FinishWrite
  BY <1>2 DEF FinishWrite
<1>3. CASE HostDies
  BY <1>3 DEF HostDies
<1>4. ASSUME NEW a \in Fetches, StartFetch(a) PROVE WholeInv' /\ Kept
  BY <1>0, <1>4 DEF StartFetch
<1>5. ASSUME NEW a \in Fetches, CopyEnds(a) PROVE WholeInv' /\ Kept
  BY <1>5 DEF CopyEnds
<1>6. ASSUME NEW a \in Fetches, PublishFile(a) PROVE WholeInv' /\ Kept
  <2>1. PICK f \in layout.files :
          /\ stage[a][f] \in Contents \ {"absent"}
          /\ local' = [local EXCEPT ![f] = stage[a][f]]
          /\ stage' = [stage EXCEPT ![a][f] = "absent"]
    BY <1>6, PublishedFile
  <2>2. UNCHANGED <<layout, atomic, cuts, remote, writing>>
    BY <1>6 DEF PublishFile
  <2>3. atomic /\ ~ cuts => stage[a][f] = "full"
    BY <2>1 DEF Contents
  <2>4. QED
    BY <2>1, <2>2, <2>3
<1>7. ASSUME NEW a \in Fetches, PublishEnds(a) PROVE WholeInv' /\ Kept
  BY <1>7 DEF PublishEnds
<1>8. ASSUME NEW a \in Fetches, NEW f \in layout.files, CopyFile(a, f) PROVE WholeInv' /\ Kept
  BY <1>8 DEF CopyFile
<1>9. ASSUME NEW a \in Fetches, NEW f \in layout.files, CopyCut(a, f) PROVE WholeInv' /\ Kept
  BY <1>9 DEF CopyCut
<1>10. CASE BeginLeg
  BY <1>0, <1>10 DEF BeginLeg, Restored
<1>11. CASE CommandEnds
  BY <1>11 DEF CommandEnds
<1>12. CASE Join
  <2>1. UNCHANGED <<layout, atomic, cuts, remote, writing, local, stage>>
    BY <1>12 DEF Join
  <2>2. QED
    BY <2>1
<1>13. CASE Check
  BY <1>13 DEF Check
<1>14. CASE DriverRestarts
  BY <1>0, <1>14 DEF DriverRestarts
<1>15. CASE UNCHANGED vars
  BY <1>15 DEF vars
<1>16. QED
  BY <1>1, <1>2, <1>3, <1>4, <1>5, <1>6, <1>7, <1>8, <1>9, <1>10, <1>11, <1>12, <1>13,
     <1>14, <1>15 DEF Next, FetchStep

-----------------------------------------------------------------------------
(* The marker, from the box to the leg's directory                         *)

\* On the box, and in the leg's directory.  A file being written is there.
SourceInv ==
  /\ writing # Nothing => writing \in Present(remote)
  /\ layout.marker \in Present(remote) => Payload \subseteq Present(remote)
  /\ layout.marker \in Present(local) => Payload \subseteq Present(local)

\* What a pull lists is there, and a marker in it, copied or not, has the payload
\* beside it.
PullInv ==
  \A a \in Fetches : fpc[a] = "copying" =>
    /\ listing[a] \subseteq Present(remote)
    /\ layout.marker \in listing[a] \cup Present(stage[a]) =>
         Payload \subseteq listing[a] \cup Present(stage[a])

\* What a publish still has to move is, with the marker, all that is missing.
PublishInv ==
  \A a \in Fetches : fpc[a] = "publishing" /\ layout.marker \in Present(stage[a]) =>
    Payload \subseteq Present(stage[a]) \cup Present(local)

MarkerInv == ~ cuts => SourceInv /\ PullInv /\ PublishInv

\* The same, step by step.
LEMMA MarkerKept ==
  ASSUME ShallowMarkers, LegTypes, FetcherInv, MarkerInv, [Next]_vars
  PROVE  MarkerInv'
<1> SUFFICES ASSUME ~ cuts PROVE (SourceInv /\ PullInv /\ PublishInv)'
  <2>1. cuts' = cuts
    BY DEF Next, FetchStep, Write, FinishWrite, HostDies, StartFetch, CopyFile, CopyCut,
       CopyEnds, PublishFile, PublishEnds, BeginLeg, CommandEnds, Join, Check,
       DriverRestarts, setting, vars
  <2>2. QED
    BY <2>1 DEF MarkerInv
<1> USE DEF LegTypes, MarkerInv, setting, boxVars, fetchVars, Fetches, Trees
<1> DEFINE Goal == SourceInv' /\ PullInv' /\ PublishInv'
<1>0. /\ layout.marker \in layout.files /\ Payload \subseteq layout.files
      /\ Empty \in Trees /\ Present(Empty) = {}
  BY LayoutFacts, EmptyIsATree DEF Payload, Present, Empty
<1>1. ASSUME NEW f \in layout.files, Write(f) PROVE Goal
  <2>1. Present(remote)' = Present(remote) \cup {f}
    BY <1>1 DEF Write, Present
  <2>2. f = layout.marker => Payload \subseteq Present(remote)
    BY <1>1 DEF Write, MayWrite, Payload, Present
  <2>3. Payload' = Payload /\ Present(local)' = Present(local)
        /\ \A a \in Fetches : Present(stage[a])' = Present(stage[a])
    BY <1>1 DEF Write, Payload, Present
  <2>4. QED
    BY <1>1, <2>1, <2>2, <2>3 DEF Write, SourceInv, PullInv, PublishInv
<1>2. CASE FinishWrite
  <2>1. /\ writing \in Present(remote) /\ writing' = Nothing
        /\ remote' = [remote EXCEPT ![writing] = "full"]
        /\ UNCHANGED <<layout, local, fpc, listing, stage>>
    BY <1>2 DEF FinishWrite, SourceInv
  <2>2. Present(remote)' = Present(remote)
    BY <2>1 DEF Present
  <2>3. /\ Payload' = Payload /\ Present(local)' = Present(local)
        /\ \A b \in Fetches : Present(stage[b])' = Present(stage[b])
    BY <2>1 DEF Payload, Present
  <2>4. QED
    BY <2>1, <2>2, <2>3 DEF SourceInv, PullInv, PublishInv
<1>3. CASE HostDies
  BY <1>3 DEF HostDies, SourceInv, PullInv, PublishInv, Present, Payload
<1>4. ASSUME NEW a \in Fetches, StartFetch(a) PROVE Goal
  <2>1. /\ UNCHANGED <<layout, remote, writing, local>>
        /\ fpc' = [fpc EXCEPT ![a] = "copying"]
        /\ stage' = [stage EXCEPT ![a] = Empty]
        /\ \E seen \in {{}, Present(remote)} : listing' = [listing EXCEPT ![a] = seen]
    BY <1>4 DEF StartFetch
  <2>2. Payload' = Payload /\ Present(local)' = Present(local) /\ Present(remote)' = Present(remote)
    BY <2>1 DEF Payload, Present
  <2>3. \A b \in Fetches : Present(stage[b])' = IF b = a THEN {} ELSE Present(stage[b])
    BY <1>0, <2>1 DEF Present
  <2>4. SourceInv' /\ PublishInv'
    BY <2>1, <2>2, <2>3 DEF SourceInv, PublishInv
  <2>5. PullInv'
    BY <2>1, <2>2, <2>3 DEF SourceInv, PullInv
  <2>6. QED
    BY <2>4, <2>5
<1>5. ASSUME NEW a \in Fetches, CopyEnds(a) PROVE Goal
  <2>1. /\ UNCHANGED <<layout, remote, writing, local, stage>>
        /\ fpc[a] = "copying" /\ listing[a] = {}
        /\ fpc' = [fpc EXCEPT ![a] = "publishing"]
        /\ listing' = [listing EXCEPT ![a] = {}]
    BY <1>5 DEF CopyEnds
  <2>2. /\ Payload' = Payload /\ Present(local)' = Present(local)
        /\ Present(remote)' = Present(remote)
        /\ \A b \in Fetches : Present(stage[b])' = Present(stage[b])
    BY <2>1 DEF Payload, Present
  <2>3. QED
    BY <2>1, <2>2 DEF SourceInv, PullInv, PublishInv
<1>6. ASSUME NEW a \in Fetches, PublishFile(a) PROVE Goal
  <2>1. PICK f \in Present(stage[a]) :
          /\ f \in layout.files /\ f = First(Present(stage[a]))
          /\ stage[a][f] \in Contents \ {"absent"}
          /\ local' = [local EXCEPT ![f] = stage[a][f]]
          /\ stage' = [stage EXCEPT ![a][f] = "absent"]
    BY <1>6, PublishedFile
  <2>2. /\ UNCHANGED <<layout, remote, writing, fpc, listing>> /\ fpc[a] = "publishing"
    BY <1>6 DEF PublishFile
  <2>3. /\ Payload' = Payload /\ Present(remote)' = Present(remote)
        /\ Present(local)' = Present(local) \cup {f}
    BY <2>1, <2>2 DEF Payload, Present, Contents
  <2>4. \A b \in Fetches :
          Present(stage[b])' = IF b = a THEN Present(stage[b]) \ {f} ELSE Present(stage[b])
    BY <2>1, <2>2 DEF Present
  <2>5. f = layout.marker => Present(stage[a]) = {layout.marker}
    <3>1. Present(stage[a]) \in SUBSET layout.files
      BY DEF Present
    <3>2. ASSUME f = layout.marker PROVE Present(stage[a]) = {layout.marker}
      <4>1. layout.marker \in Present(stage[a]) /\ First(Present(stage[a])) = layout.marker
        BY <2>1, <3>2
      <4>2. QED
        BY <3>1, <4>1, MarkerIsLast
    <3>3. QED
      BY <3>2
  <2>6. f = layout.marker => Payload \subseteq Present(local)
    BY <2>1, <2>2, <2>5 DEF PublishInv, Payload
  <2>7. SourceInv'
    BY <2>3, <2>6, <2>2 DEF SourceInv
  <2>8. PullInv'
    BY <2>2, <2>3, <2>4 DEF PullInv
  <2>9. PublishInv'
    BY <2>2, <2>3, <2>4 DEF PublishInv
  <2>10. QED
    BY <2>7, <2>8, <2>9
<1>7. ASSUME NEW a \in Fetches, PublishEnds(a) PROVE Goal
  <2>1. /\ UNCHANGED <<layout, remote, writing, local, stage, listing>>
        /\ fpc' = [fpc EXCEPT ![a] = "off"]
    BY <1>7 DEF PublishEnds
  <2>2. /\ Payload' = Payload /\ Present(local)' = Present(local)
        /\ Present(remote)' = Present(remote)
        /\ \A b \in Fetches : Present(stage[b])' = Present(stage[b])
    BY <2>1 DEF Payload, Present
  <2>3. QED
    BY <2>1, <2>2 DEF SourceInv, PullInv, PublishInv
<1>8. ASSUME NEW a \in Fetches, NEW f \in layout.files, CopyFile(a, f) PROVE Goal
  <2>1. /\ UNCHANGED <<layout, remote, writing, local, fpc>>
        /\ fpc[a] = "copying" /\ f \in listing[a]
        /\ stage' = [stage EXCEPT ![a][f] = remote[f]]
        /\ listing' = [listing EXCEPT ![a] = @ \ {f}]
    BY <1>8 DEF CopyFile
  <2>2. remote[f] # "absent"
    BY <2>1 DEF PullInv, Present
  <2>3. /\ Payload' = Payload /\ Present(local)' = Present(local)
        /\ Present(remote)' = Present(remote)
        /\ \A b \in Fetches :
             Present(stage[b])' = IF b = a THEN Present(stage[b]) \cup {f} ELSE Present(stage[b])
    BY <2>1, <2>2 DEF Payload, Present
  <2>4. \A b \in Fetches : b # a => listing'[b] = listing[b]
    BY <2>1
  <2>5. listing'[a] = listing[a] \ {f}
    BY <2>1
  <2>6. QED
    BY <2>1, <2>3, <2>4, <2>5 DEF SourceInv, PullInv, PublishInv
<1>9. ASSUME NEW a \in Fetches, NEW f \in layout.files, CopyCut(a, f) PROVE Goal
  BY <1>9 DEF CopyCut
<1>10. CASE BeginLeg
  <2>1. /\ UNCHANGED <<layout, local, fpc, listing, stage>>
        /\ remote' \in {remote, Empty, local}
        /\ remote' # remote => leg = "idle" /\ fpc["midrun"] = "off"
        /\ writing' = Nothing \/ (writing' = writing /\ remote' = remote)
    BY <1>10 DEF BeginLeg, Restored
  <2>2. /\ Payload' = Payload /\ Present(local)' = Present(local)
        /\ \A b \in Fetches : Present(stage[b])' = Present(stage[b])
    BY <2>1 DEF Payload, Present
  <2>3. Present(remote)' \in {Present(remote), {}, Present(local)}
    BY <1>0, <2>1 DEF Present
  <2>4. remote' # remote => \A a \in Fetches : fpc[a] = "off"
    BY <2>1 DEF FetcherInv
  <2>5. remote' = remote => Present(remote)' = Present(remote)
    BY <2>1 DEF Present
  <2>6. SourceInv' /\ PublishInv'
    BY <2>1, <2>2, <2>3, <2>5 DEF SourceInv, PublishInv
  <2>7. PullInv'
    BY <2>1, <2>2, <2>4, <2>5 DEF PullInv
  <2>8. QED
    BY <2>6, <2>7
<1>11. CASE CommandEnds
  BY <1>11 DEF CommandEnds, SourceInv, PullInv, PublishInv, Present, Payload
<1>12. CASE Join
  <2>1. UNCHANGED <<layout, remote, writing, local, fpc, listing, stage>>
    BY <1>12 DEF Join
  <2>2. QED
    BY <2>1 DEF SourceInv, PullInv, PublishInv, Present, Payload
<1>13. CASE Check
  BY <1>13 DEF Check, SourceInv, PullInv, PublishInv, Present, Payload
<1>14. CASE DriverRestarts
  <2>1. /\ UNCHANGED <<layout, remote, writing, local>>
        /\ \A a \in Fetches : fpc'[a] = "off"
    BY <1>14 DEF DriverRestarts
  <2>2. QED
    BY <2>1 DEF SourceInv, PullInv, PublishInv, Present, Payload
<1>15. CASE UNCHANGED vars
  BY <1>15 DEF vars, SourceInv, PullInv, PublishInv, Present, Payload
<1>16. QED
  BY <1>1, <1>2, <1>3, <1>4, <1>5, <1>6, <1>7, <1>8, <1>9, <1>10, <1>11, <1>12, <1>13,
     <1>14, <1>15 DEF Next, FetchStep

-----------------------------------------------------------------------------
(* What follows                                                            *)

LegFetchInv == LegTypes /\ FetcherInv /\ WholeInv

\* The inductive invariant, for trees of any depth.
THEOREM LegFetchInvariant == Spec => []LegFetchInv
<1>1. Init => LegFetchInv
  <2>1. ASSUME Init PROVE LegFetchInv
    <3>1. Empty \in Trees /\ \A f \in layout.files : Empty[f] = "absent"
      BY <2>1, EmptyIsATree DEF Init, Empty
    <3>2. LegTypes
      BY <2>1, <3>1 DEF Init, LegTypes, Fetches
    <3>3. FetcherInv /\ WholeInv
      BY <2>1, <3>1 DEF Init, FetcherInv, WholeInv, Fetches
    <3>4. QED
      BY <3>2, <3>3 DEF LegFetchInv
  <2>2. QED
    BY <2>1
<1>2. LegFetchInv /\ [Next]_vars => LegFetchInv'
  BY LegTypesKept, WholeKept DEF LegFetchInv
<1>3. QED
  BY <1>1, <1>2, PTL DEF Spec

\* Every reachable state is well-typed, for any trees, writers and transfers.
THEOREM LegFetchTypeCorrect == Spec => []LegFetchTypeOK
<1>1. LegFetchInv => LegFetchTypeOK
  BY DEF LegFetchInv, LegTypes, LegFetchTypeOK, Trees, Fetches
<1>2. QED
  BY <1>1, LegFetchInvariant, PTL

\* What is banked whole survives every later pull, restore, kill and relaunch, even
\* a pull that a late join left running.
THEOREM BankedIsKept == Spec => BankedSurvives
<1>1. LegFetchInv /\ [Next]_vars =>
        (atomic /\ ~ cuts => \A f \in layout.files : local[f] = "full" => local'[f] = "full")
  BY WholeKept DEF LegFetchInv
<1>2. QED
  BY <1>1, LegFetchInvariant, PTL DEF Spec, BankedSurvives

\* A marker in the leg's directory vouches for its payload, in whatever order scp
\* copies, however pulls overlap and wherever a kill falls, if the marker is no more
\* than two components deep.
THEOREM MarkerMeansAll == Spec => [](LegFetchInv /\ (ShallowMarkers => MarkerInv))
<1>1. Init => MarkerInv
  BY DEF Init, MarkerInv, SourceInv, PullInv, PublishInv, Present, Empty, Fetches, Nothing
<1>2. LegFetchInv /\ (ShallowMarkers => MarkerInv) /\ [Next]_vars => (ShallowMarkers => MarkerInv)'
  BY MarkerKept DEF LegFetchInv, ShallowMarkers
<1>3. QED
  BY <1>1, <1>2, LegFetchInvariant, PTL DEF Spec

THEOREM MarkerComesLast == Spec => [](ShallowMarkers => MarkerLast)
<1>1. LegFetchInv /\ (ShallowMarkers => MarkerInv) => (ShallowMarkers => MarkerLast)
  BY LayoutFacts DEF LegFetchInv, LegTypes, MarkerInv, SourceInv, MarkerLast,
     MarkerMeansPayload, Complete, Present, Payload
<1>2. QED
  BY <1>1, MarkerMeansAll, PTL

\* Nothing moves into the directory of a leg that is done.
LEMMA DoneIsStill ==
  ASSUME ~ JoinTimesOut, LegTypes, FetcherInv, [Next]_vars, leg = "done"
  PROVE  local' = local /\ layout' = layout
<1>1. \A a \in Fetches : fpc[a] = "off"
  BY DEF FetcherInv, Fetches
<1>2. QED
  BY <1>1 DEF Next, FetchStep, Write, FinishWrite, HostDies, StartFetch, CopyFile, CopyCut,
     CopyEnds, PublishFile, PublishEnds, BeginLeg, CommandEnds, Join, Check,
     DriverRestarts, setting, boxVars, fetchVars, vars

\* How a leg comes to be done, and its report: by a skip, a failed command, or a
\* check; otherwise neither changes, or a new attempt begins.
LEMMA ReportChanges ==
  ASSUME LegTypes, FetcherInv, [Next]_vars
  PROVE  \/ BeginLeg \/ Join \/ Check
         \/ status' = status /\ (leg' = "done" => leg = "done")
  BY DEF Next, FetchStep, Write, FinishWrite, HostDies, StartFetch, CopyFile, CopyCut,
     CopyEnds, PublishFile, PublishEnds, CommandEnds, DriverRestarts, setting, boxVars,
     fetchVars, vars

\* A leg reported OK has no torn file, and keeps having none, whatever its writer
\* and its transfers did, as long as the fetcher's join does not time out.
THEOREM OkIsIntact == Spec => [](~ JoinTimesOut => OkIsNotTorn)
<1>1. Init => OkIsNotTorn
  BY DEF Init, OkIsNotTorn
<1>2. ASSUME LegFetchInv, ~ JoinTimesOut, OkIsNotTorn, [Next]_vars
      PROVE  OkIsNotTorn'
  <2> USE <1>2 DEF LegFetchInv, OkIsNotTorn
  <2>1. CASE leg = "done" /\ status' = status
    BY <2>1, DoneIsStill
  <2>2. CASE BeginLeg
    BY <2>2 DEF BeginLeg
  <2>3. CASE Join
    <3>1. rc \in {"ok", "failed", "died"}
      BY <2>3 DEF Join, LegTypes, FetcherInv
    <3>2. leg' = "done" => status' = "RUN_FAIL"
      BY <2>3, <3>1 DEF Join
    <3>3. QED
      BY <3>2
  <2>4. CASE Check
    BY <2>4 DEF Check, setting
  <2>5. QED
    BY <2>1, <2>2, <2>3, <2>4, ReportChanges
<1>3. LegFetchInv /\ (~ JoinTimesOut => OkIsNotTorn) /\ [Next]_vars
        => (~ JoinTimesOut => OkIsNotTorn)'
  BY <1>2
<1>4. QED
  BY <1>1, <1>3, LegFetchInvariant, PTL DEF Spec

\* Behind the report nothing moves, if joins do not time out.
THEOREM DoneStaysStill == Spec => (~ JoinTimesOut => ReportedIsStill)
<1>1. LegFetchInv /\ [Next]_vars
        => (~ JoinTimesOut => (leg = "done" /\ leg' = "done" => local' = local))
  BY DoneIsStill DEF LegFetchInv
<1>2. CASE JoinTimesOut
  BY <1>2
<1>3. CASE ~ JoinTimesOut
  <2>1. LegFetchInv /\ [Next]_vars => (leg = "done" /\ leg' = "done" => local' = local)
    BY <1>1, <1>3
  <2>2. Spec => ReportedIsStill
    BY <2>1, LegFetchInvariant, PTL DEF Spec, ReportedIsStill
  <2>3. QED
    BY <2>2
<1>4. QED
  BY <1>2, <1>3

\* A relaunch that skips the leg has all an atomic writer finished, in one piece.
THEOREM SkippedIsWhole == Spec => [](ShallowMarkers => SkipIsWhole)
<1>1. Init => SkipIsWhole
  BY DEF Init, SkipIsWhole
<1>2. ASSUME LegFetchInv, MarkerInv, SkipIsWhole, [Next]_vars
      PROVE  SkipIsWhole'
  <2> USE <1>2 DEF LegFetchInv, SkipIsWhole
  <2>1. UNCHANGED setting
    BY DEF Next, FetchStep, Write, FinishWrite, HostDies, StartFetch, CopyFile, CopyCut,
       CopyEnds, PublishFile, PublishEnds, BeginLeg, CommandEnds, Join, Check,
       DriverRestarts, vars, setting
  <2>2. CASE status = "SKIP"
    BY <2>1, <2>2, WholeKept DEF setting
  <2>3. CASE BeginLeg
    <3>1. ASSUME status' = "SKIP", status # "SKIP", atomic, ~ cuts,
                 NEW f \in layout.files
          PROVE  local'[f] = "full"
      <4>1. Complete /\ local' = local
        BY <2>3, <3>1 DEF BeginLeg
      <4>2. local[f] # "absent"
        BY <3>1, <4>1, LayoutFacts DEF MarkerInv, SourceInv, Complete, Present, Payload, LegTypes
      <4>3. QED
        BY <3>1, <4>1, <4>2 DEF WholeInv, LegTypes, Trees, Contents
    <3>2. QED
      BY <2>1, <2>2, <3>1 DEF setting
  <2>4. CASE Join \/ Check
    BY <2>1, <2>2, <2>4 DEF Join, Check, setting
  <2>5. QED
    BY <2>2, <2>3, <2>4, ReportChanges
<1>3. LegFetchInv /\ (ShallowMarkers => MarkerInv) /\ (ShallowMarkers => SkipIsWhole)
        /\ [Next]_vars => (ShallowMarkers => SkipIsWhole)'
  BY <1>2 DEF ShallowMarkers
<1>4. QED
  BY <1>1, <1>3, MarkerMeansAll, PTL DEF Spec

=============================================================================
