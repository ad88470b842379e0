----------------------------- MODULE FarmProofs -----------------------------
(***************************************************************************)
(* What holds of module Farm for any legs, contents, calls, exceptions and *)
(* restarts.  First the cut-flow by itself: Enter, Drop and Pass keep a    *)
(* reason at or before every stage that was not survived, and touch no row *)
(* but their own.  Then what one leg's result may do, and the campaign.    *)
(***************************************************************************)
EXTENDS Farm, TLAPS

Marks == [Stages -> {"none", "ok", "no"}]

\* A cut-flow whose every "no" has its reason, and whose reasons are all of a "no".
CutOK(c) ==
  /\ c.rows \in [Rows -> Marks \cup {None}]
  /\ c.reasons \subseteq Rows \X Stages
  /\ \A row \in Rows : c.rows[row] # None =>
       \A i \in Stages : c.rows[row][i] = "no" => \E k \in 1 .. i : <<row, k>> \in c.reasons
  /\ \A row \in Rows, k \in Stages : <<row, k>> \in c.reasons => c.rows[row] # None /\ c.rows[row][k] = "no"

SameBut(c, d, row) == \A q \in Rows : q # row => d.rows[q] = c.rows[q]

LEMMA StagesAre == Stages = {1, 2, 3, 4, 5, 6} /\ Stages = 1 .. 6
  BY DEF Stages, planned, registered

\* A fresh row has no marks and no reasons; an entered row keeps what it has.
LEMMA EnterOK ==
  ASSUME NEW c, CutOK(c), NEW row \in Rows
  PROVE  CutOK(Enter(c, row)) /\ SameBut(c, Enter(c, row), row)
<1>1. Unknown \in Marks /\ \A i \in Stages : Unknown[i] # "no"
  BY DEF Unknown, Marks
<1> DEFINE d == Enter(c, row)
<1>2. d.rows = [c.rows EXCEPT ![row] = Unknown] /\ d.reasons = {x \in c.reasons : x[1] # row}
  BY DEF Enter
<1> HIDE DEF d
<1>3. \A q \in Rows : q # row => \A k : <<q, k>> \in c.reasons => <<q, k>> \in d.reasons
  BY <1>2
<1>4. CutOK(d)
  BY <1>1, <1>2, <1>3 DEF CutOK
<1>5. SameBut(c, d, row)
  BY <1>2 DEF SameBut, CutOK
<1>6. QED
  BY <1>4, <1>5 DEF d

LEMMA EnteredOK ==
  ASSUME NEW c, CutOK(c), NEW row \in Rows
  PROVE  CutOK(Entered(c, row)) /\ SameBut(c, Entered(c, row), row) /\ Entered(c, row).rows[row] \in Marks
<1>1. CASE c.rows[row] = None
  <2>1. Entered(c, row) = Enter(c, row)
    BY <1>1 DEF Entered
  <2>2. Enter(c, row).rows[row] = Unknown
    BY DEF Enter, CutOK
  <2>3. QED
    BY <2>1, <2>2, EnterOK DEF Unknown, Marks
<1>2. CASE c.rows[row] # None
  BY <1>2 DEF Entered, CutOK, SameBut
<1>3. QED
  BY <1>1, <1>2

\* One row changed, in a way that its own reasons account for.
LEMMA OneRow ==
  ASSUME NEW e, CutOK(e), NEW row \in Rows, NEW marks \in Marks, NEW d,
         d.rows = [e.rows EXCEPT ![row] = marks], NEW why, d.reasons = why, why \subseteq Rows \X Stages,
         \A i \in Stages : marks[i] = "no" => \E k \in 1 .. i : <<row, k>> \in why,
         \A k \in Stages : <<row, k>> \in why => marks[k] = "no",
         \A q \in Rows : q # row => \A k : <<q, k>> \in why <=> <<q, k>> \in e.reasons
  PROVE  CutOK(d)
<1>1. d.rows \in [Rows -> Marks \cup {None}] /\ d.rows[row] = marks /\ \A q \in Rows : q # row => d.rows[q] = e.rows[q]
  BY DEF CutOK
<1>2. marks # None
  BY RowAssumption DEF Marks
<1>3. ASSUME NEW q \in Rows, d.rows[q] # None, NEW i \in Stages, d.rows[q][i] = "no"
      PROVE  \E k \in 1 .. i : <<q, k>> \in why
  <2>1. CASE q = row
    BY <1>1, <1>3, <2>1
  <2>2. CASE q # row
    <3>1. \E k \in 1 .. i : <<q, k>> \in e.reasons
      BY <1>1, <1>3, <2>2 DEF CutOK
    <3>2. QED
      BY <2>2, <3>1
  <2>3. QED
    BY <2>1, <2>2
<1>4. ASSUME NEW q \in Rows, NEW k \in Stages, <<q, k>> \in why
      PROVE  d.rows[q] # None /\ d.rows[q][k] = "no"
  <2>1. CASE q = row
    BY <1>1, <1>2, <1>4, <2>1
  <2>2. CASE q # row
    <3>1. <<q, k>> \in e.reasons
      BY <1>4, <2>2
    <3>2. QED
      BY <1>1, <2>2, <3>1 DEF CutOK
  <2>3. QED
    BY <2>1, <2>2
<1>5. QED
  BY <1>1, <1>3, <1>4 DEF CutOK

\* A drop leaves its reason, and the leg is not registered.
LEMMA DropOK ==
  ASSUME NEW c, CutOK(c), NEW row \in Rows, NEW stage \in Stages
  PROVE  /\ CutOK(Drop(c, row, stage)) /\ SameBut(c, Drop(c, row, stage), row)
         /\ Drop(c, row, stage).rows[row][registered] = "no"
<1> DEFINE e == Entered(c, row)
           d == Drop(c, row, stage)
           marks == [i \in Stages |-> IF i < stage THEN e.rows[row][i] ELSE "no"]
<1>1. d.rows = [e.rows EXCEPT ![row] = marks] /\ d.reasons = e.reasons \cup {<<row, stage>>}
  BY DEF Drop
<1>2. CutOK(e) /\ SameBut(c, e, row) /\ e.rows[row] \in Marks
  BY EnteredOK
<1>3. marks \in Marks
  BY <1>2 DEF Marks
<1>4. ASSUME NEW i \in Stages, marks[i] = "no" PROVE \E k \in 1 .. i : <<row, k>> \in d.reasons
  <2>1. CASE i < stage
    <3>1. e.rows[row][i] = "no"
      BY <1>4, <2>1
    <3>2. e.rows[row] # None => \E k \in 1 .. i : <<row, k>> \in e.reasons
      BY <1>2, <3>1 DEF CutOK
    <3>3. QED
      BY <1>1, <1>2, <3>2, RowAssumption DEF Marks
  <2>2. CASE ~ (i < stage)
    BY <1>1, <2>2, StagesAre
  <2>3. QED
    BY <2>1, <2>2
<1>5. marks[registered] = "no"
  BY StagesAre DEF registered
<1>6. ASSUME NEW k \in Stages, <<row, k>> \in d.reasons PROVE marks[k] = "no"
  <2>1. <<row, k>> \in e.reasons \/ k = stage
    BY <1>1, <1>6
  <2>2. <<row, k>> \in e.reasons => e.rows[row][k] = "no"
    BY <1>2 DEF CutOK
  <2>3. QED
    BY <2>1, <2>2, StagesAre
<1>7. \A q \in Rows : q # row => \A k : <<q, k>> \in d.reasons <=> <<q, k>> \in e.reasons
  BY <1>1
<1> HIDE DEF d, e, marks
<1>8. CutOK(d)
  <2>1. d.reasons \subseteq Rows \X Stages
    BY <1>1, <1>2 DEF CutOK
  <2>2. QED
    BY <1>1, <1>2, <1>3, <1>4, <1>6, <1>7, <2>1, OneRow
<1>9. SameBut(c, d, row) /\ d.rows[row] = marks
  BY <1>1, <1>2 DEF SameBut, CutOK
<1>10. QED
  BY <1>5, <1>8, <1>9 DEF d

\* Passing a stage gives back only what no other reason accounts for.
LEMMA PassOK ==
  ASSUME NEW c, CutOK(c), NEW row \in Rows, NEW stage \in Stages
  PROVE  /\ CutOK(Pass(c, row, stage)) /\ SameBut(c, Pass(c, row, stage), row)
         /\ Pass(c, row, stage).rows[row][stage] = "ok"
<1> DEFINE e == Entered(c, row)
           d == Pass(c, row, stage)
           why == e.reasons \ {<<row, stage>>}
           Forced(i) == e.rows[row][i] = "no" /\ \A k \in stage + 1 .. i : <<row, k>> \notin why
           marks == [i \in Stages |-> IF i = stage THEN "ok"
                                      ELSE IF i > stage /\ Forced(i) THEN "none"
                                      ELSE e.rows[row][i]]
<1>1. d.rows = [e.rows EXCEPT ![row] = marks] /\ d.reasons = why
  BY DEF Pass
<1>2. CutOK(e) /\ SameBut(c, e, row) /\ e.rows[row] \in Marks
  BY EnteredOK
<1>3. marks \in Marks /\ marks[stage] = "ok"
  BY <1>2 DEF Marks
<1>4. ASSUME NEW i \in Stages, marks[i] = "no" PROVE \E k \in 1 .. i : <<row, k>> \in why
  <2>1. e.rows[row][i] = "no" /\ i # stage
    BY <1>4
  <2>2. \E k \in 1 .. i : <<row, k>> \in e.reasons
    BY <1>2, <2>1, RowAssumption DEF CutOK, Marks
  <2>3. CASE i < stage
    BY <2>2, <2>3, StagesAre
  <2>4. CASE i > stage
    <3>1. PICK k \in stage + 1 .. i : <<row, k>> \in why
      BY <1>4, <2>1, <2>4
    <3>2. k \in 1 .. i
      BY <3>1, StagesAre
    <3>3. QED
      BY <3>1, <3>2
  <2>5. QED
    BY <2>1, <2>3, <2>4, StagesAre
<1>5. \A q \in Rows : q # row => \A k : <<q, k>> \in why <=> <<q, k>> \in e.reasons
  OBVIOUS
<1>6. ASSUME NEW k \in Stages, <<row, k>> \in why PROVE marks[k] = "no"
  <2>1. e.rows[row][k] = "no" /\ k # stage
    BY <1>2, <1>6 DEF CutOK
  <2>2. k > stage => k \in stage + 1 .. k
    BY StagesAre
  <2>3. QED
    BY <1>6, <2>1, <2>2
<1> HIDE DEF d, e, marks
<1>7. CutOK(d)
  <2>1. why \subseteq Rows \X Stages
    BY <1>2 DEF CutOK
  <2> HIDE DEF why
  <2>2. QED
    BY <1>1, <1>2, <1>3, <1>4, <1>5, <1>6, <2>1, OneRow
<1>8. SameBut(c, d, row) /\ d.rows[row] = marks
  BY <1>1, <1>2 DEF SameBut, CutOK
<1>9. QED
  BY <1>3, <1>7, <1>8 DEF d

LEMMA SameButTwice ==
  ASSUME NEW c, NEW d, NEW e, NEW row, SameBut(c, d, row), SameBut(d, e, row)
  PROVE  SameBut(c, e, row)
  BY DEF SameBut

\* A run of stages passed one after the other.
LEMMA PassUpToOK ==
  ASSUME NEW c, CutOK(c), NEW row \in Rows, NEW from \in Stages, NEW to \in Stages
  PROVE  /\ CutOK(PassUpTo(c, row, from, to)) /\ SameBut(c, PassUpTo(c, row, from, to), row)
         /\ from <= to /\ to = registered => PassUpTo(c, row, from, to).rows[row][registered] = "ok"
<1> DEFINE At(d, i) == IF from <= i /\ i <= to THEN Pass(d, row, i) ELSE d
           d1 == At(c, planned)
           d2 == At(d1, launchGate)
           d3 == At(d2, completed)
           d4 == At(d3, shipped)
           d5 == At(d4, verified)
           d6 == At(d5, registered)
<1>1. ASSUME NEW d, NEW i \in Stages, CutOK(d), SameBut(c, d, row)
      PROVE  CutOK(At(d, i)) /\ SameBut(c, At(d, i), row)
             /\ (from <= i /\ i <= to => At(d, i).rows[row][i] = "ok")
  BY <1>1, PassOK, SameButTwice
<1>2. SameBut(c, c, row)
  BY DEF SameBut
<1>3. planned \in Stages /\ launchGate \in Stages /\ completed \in Stages
      /\ shipped \in Stages /\ verified \in Stages /\ registered \in Stages
  BY DEF Stages, planned, launchGate, completed, shipped, verified, registered
<1>4. PassUpTo(c, row, from, to) = d6
  BY DEF PassUpTo
<1> HIDE DEF At
<1>5. CutOK(d1) /\ SameBut(c, d1, row)
  BY <1>1, <1>2, <1>3
<1> HIDE DEF d1
<1>6. CutOK(d2) /\ SameBut(c, d2, row)
  BY <1>1, <1>3, <1>5
<1> HIDE DEF d2
<1>7. CutOK(d3) /\ SameBut(c, d3, row)
  BY <1>1, <1>3, <1>6
<1> HIDE DEF d3
<1>8. CutOK(d4) /\ SameBut(c, d4, row)
  BY <1>1, <1>3, <1>7
<1> HIDE DEF d4
<1>9. CutOK(d5) /\ SameBut(c, d5, row)
  BY <1>1, <1>3, <1>8
<1> HIDE DEF d5
<1>10. CutOK(d6) /\ SameBut(c, d6, row) /\ (from <= registered /\ registered <= to => d6.rows[row][registered] = "ok")
  BY <1>1, <1>3, <1>9
<1> HIDE DEF d6
<1>11. QED
  BY <1>3, <1>4, <1>10, StagesAre

-----------------------------------------------------------------------------
(* One leg's result                                                        *)

\* The campaign but for its cut-flow.
FarmTypes ==
  /\ configs \subseteq Rids /\ cleared \subseteq Rids
  /\ ingested \in [Rids -> Contents \cup {None}]
  /\ out \in [Rids -> Statuses]
  /\ failures \in Nat

\* What is reported of a leg is what the cut-flow and the corpus say of it.
Agrees(c, corpus, r, status) ==
  /\ status \in {"REGISTERED", "SKIP_OK", "CONFLICT"} =>
       c.rows[Leg(r)][registered] = "ok" /\ corpus[r] # None
  /\ status \in {"LOST", "REJECTED"} => c.rows[Leg(r)][registered] = "no"

Stays(corpus, later) ==
  /\ later \in [Rids -> Contents \cup {None}]
  /\ \A q \in Rids : corpus[q] # None => later[q] = corpus[q]

\* A leg's answer concerns its own row and its own place in the corpus; or the
\* call has raised.
Answered(r) ==
  /\ CutOK(cf')
  /\ \A q \in Rids : q # r => cf'.rows[Leg(q)] = cf.rows[Leg(q)]
  /\ Stays(ingested, ingested')
  /\ \/ out' = Nobody /\ call' = "none" /\ failures' = failures + 1
     \/ /\ UNCHANGED <<call, failures>>
        /\ \E status \in Statuses \ {"none"} : Report(r, status) /\ Agrees(cf', ingested', r, status)

LEMMA LegRows ==
  ASSUME NEW r \in Rids
  PROVE  /\ Leg(r) \in Rows /\ <<r, "conflict">> \in Rows /\ <<r, "dup">> \in Rows /\ <<r, "unplanned">> \in Rows
         /\ \A q \in Rids : q # r => Leg(q) # Leg(r)
         /\ \A q \in Rids : Leg(q) # <<r, "conflict">> /\ Leg(q) # <<r, "dup">> /\ Leg(q) # <<r, "unplanned">>
  BY DEF Rows, Leg

LEMMA StageNames ==
  /\ planned \in Stages /\ launchGate \in Stages /\ completed \in Stages
  /\ shipped \in Stages /\ verified \in Stages /\ registered \in Stages
  /\ completed <= registered /\ planned <= verified
  BY DEF Stages, planned, launchGate, completed, shipped, verified, registered

\* A change of the leg's own row is no other leg's.
LEMMA OwnRow ==
  ASSUME NEW r \in Rids, NEW c, NEW d, SameBut(c, d, Leg(r))
  PROVE  \A q \in Rids : q # r => d.rows[Leg(q)] = c.rows[Leg(q)]
  BY LegRows DEF SameBut

LEMMA LostAnswers ==
  ASSUME CutOK(cf), FarmTypes, NEW r \in Rids, Lost(r)
  PROVE  Answered(r)
<1>1. CutOK(cf') /\ SameBut(cf, cf', Leg(r)) /\ cf'.rows[Leg(r)][registered] = "no"
  BY DropOK, LegRows, StageNames DEF Lost
<1>2. Agrees(cf', ingested', r, "LOST")
  BY <1>1 DEF Agrees
<1>3. Stays(ingested, ingested')
  BY DEF Lost, Stays, FarmTypes
<1>4. QED
  BY <1>1, <1>2, <1>3, OwnRow DEF Answered, Lost, Statuses

LEMMA RejectedAnswers ==
  ASSUME CutOK(cf), FarmTypes, NEW r \in Rids, NEW shipment \in Shipments, Rejected(r, shipment)
  PROVE  Answered(r)
<1>1. shipment \in {"malformed", "tampered", "unhashable"}
  BY FarmAssumption DEF Rejected, Shipments
<1>2. PICK stage \in {shipped, verified, registered} :
        cf' = Drop(PassUpTo(cf, Leg(r), completed, stage - 1), Leg(r), stage)
  BY <1>1 DEF Rejected
<1>3. stage \in Stages /\ stage - 1 \in Stages
  BY DEF shipped, verified, registered, Stages, planned
<1> DEFINE mid == PassUpTo(cf, Leg(r), completed, stage - 1)
<1>4. CutOK(mid) /\ SameBut(cf, mid, Leg(r))
  BY <1>3, PassUpToOK, LegRows, StageNames
<1> HIDE DEF mid
<1>5. CutOK(cf') /\ SameBut(mid, cf', Leg(r)) /\ cf'.rows[Leg(r)][registered] = "no"
  BY <1>2, <1>3, <1>4, DropOK, LegRows DEF mid
<1>6. SameBut(cf, cf', Leg(r))
  BY <1>4, <1>5, SameButTwice
<1>7. Agrees(cf', ingested', r, "REJECTED")
  BY <1>5 DEF Agrees
<1>8. Stays(ingested, ingested')
  BY DEF Rejected, Stays, FarmTypes
<1>9. QED
  BY <1>5, <1>6, <1>7, <1>8, OwnRow DEF Answered, Rejected, Statuses

\* The leg's row affirmed up to the end.
LEMMA Affirmed ==
  ASSUME CutOK(cf), NEW r \in Rids
  PROVE  LET c == PassUpTo(cf, Leg(r), completed, registered)
         IN  CutOK(c) /\ SameBut(cf, c, Leg(r)) /\ c.rows[Leg(r)][registered] = "ok"
  BY PassUpToOK, LegRows, StageNames

LEMMA IngestAnswers ==
  ASSUME CutOK(cf), FarmTypes, NEW r \in Rids, NEW content \in Contents, Ingest(r, content)
  PROVE  Answered(r)
<1>1. CutOK(cf') /\ SameBut(cf, cf', Leg(r)) /\ cf'.rows[Leg(r)][registered] = "ok"
  BY Affirmed DEF Ingest
<1>2. ingested' = [ingested EXCEPT ![r] = content] /\ ingested[r] = None
  BY DEF Ingest
<1>3. Stays(ingested, ingested') /\ ingested'[r] # None
  BY <1>2, FarmAssumption DEF Stays, FarmTypes
<1>4. Agrees(cf', ingested', r, "REGISTERED")
  BY <1>1, <1>3 DEF Agrees
<1>5. QED
  BY <1>1, <1>3, <1>4, OwnRow DEF Answered, Ingest, Statuses

LEMMA IngestRaisesAnswers ==
  ASSUME CutOK(cf), FarmTypes, NEW r \in Rids, IngestRaises(r)
  PROVE  Answered(r)
<1>1. CutOK(cf') /\ SameBut(cf, cf', Leg(r))
  BY PassUpToOK, LegRows, StageNames DEF IngestRaises
<1>2. Stays(ingested, ingested')
  BY DEF IngestRaises, Stays, FarmTypes
<1>3. QED
  BY <1>1, <1>2, OwnRow DEF Answered, IngestRaises

LEMMA ReattemptAnswers ==
  ASSUME CutOK(cf), FarmTypes, NEW r \in Rids, NEW content \in Contents, Reattempt(r, content)
  PROVE  Answered(r)
<1> DEFINE affirmed == PassUpTo(cf, Leg(r), completed, registered)
           row == <<r, "conflict">>
<1>1. CutOK(affirmed) /\ SameBut(cf, affirmed, Leg(r)) /\ affirmed.rows[Leg(r)][registered] = "ok"
  BY Affirmed
<1>2. Stays(ingested, ingested') /\ ingested'[r] # None /\ UNCHANGED <<call, failures>>
  BY FarmAssumption DEF Reattempt, Stays, FarmTypes
<1>3. CASE ingested[r] = content
  <2>1. cf' = affirmed /\ Report(r, "SKIP_OK")
    BY <1>3 DEF Reattempt
  <2> HIDE DEF affirmed
  <2>2. Agrees(cf', ingested', r, "SKIP_OK")
    BY <1>1, <1>2, <2>1 DEF Agrees
  <2>3. QED
    BY <1>1, <1>2, <2>1, <2>2, OwnRow DEF Answered, Statuses
<1>4. CASE ingested[r] # content
  <2> DEFINE entered == Enter(affirmed, row)
             passed == PassUpTo(entered, row, planned, verified)
  <2>1. cf' = Drop(passed, row, registered) /\ Report(r, "CONFLICT")
    BY <1>4 DEF Reattempt
  <2> HIDE DEF affirmed
  <2>2. row \in Rows /\ \A q \in Rids : Leg(q) # row
    BY LegRows
  <2> HIDE DEF row
  <2>3. CutOK(entered) /\ SameBut(affirmed, entered, row)
    BY <1>1, <2>2, EnterOK
  <2> HIDE DEF entered
  <2>4. CutOK(passed) /\ SameBut(entered, passed, row)
    BY <2>2, <2>3, PassUpToOK, StageNames
  <2> HIDE DEF passed
  <2>5. CutOK(cf') /\ SameBut(passed, cf', row)
    BY <2>1, <2>2, <2>4, DropOK, StageNames
  <2>6. SameBut(affirmed, cf', row)
    BY <2>3, <2>4, <2>5, SameButTwice
  <2>7. \A q \in Rids : cf'.rows[Leg(q)] = affirmed.rows[Leg(q)]
    BY <2>2, <2>6, LegRows DEF SameBut
  <2>8. \A q \in Rids : q # r => cf'.rows[Leg(q)] = cf.rows[Leg(q)]
    BY <1>1, <2>7, OwnRow
  <2>9. Agrees(cf', ingested', r, "CONFLICT")
    BY <1>1, <1>2, <2>7 DEF Agrees
  <2>10. QED
    BY <1>2, <2>1, <2>5, <2>8, <2>9 DEF Answered, Statuses
<1>5. QED
  BY <1>3, <1>4

LEMMA GovernAnswers ==
  ASSUME CutOK(cf), FarmTypes, NEW r \in Rids, NEW shipment \in Shipments, Govern(r, shipment)
  PROVE  Answered(r)
  BY RejectedAnswers, ReattemptAnswers, IngestAnswers, IngestRaisesAnswers DEF Govern

LEMMA OnSkipAnswers ==
  ASSUME CutOK(cf), FarmTypes, NEW r \in Rids, OnSkip(r)
  PROVE  Answered(r)
<1>1. CASE /\ ingested[r] # None
           /\ cf' = PassUpTo(cf, Leg(r), completed, registered)
           /\ Report(r, "SKIP_OK")
           /\ UNCHANGED <<ingested, call, failures>>
  <2>1. CutOK(cf') /\ SameBut(cf, cf', Leg(r)) /\ cf'.rows[Leg(r)][registered] = "ok"
    BY <1>1, Affirmed
  <2>2. Stays(ingested, ingested')
    BY <1>1 DEF Stays, FarmTypes
  <2>3. Agrees(cf', ingested', r, "SKIP_OK")
    BY <1>1, <2>1 DEF Agrees
  <2>4. QED
    BY <1>1, <2>1, <2>2, <2>3, OwnRow DEF Answered, Statuses
<1>2. CASE done[r] \in Recoverable /\ Govern(r, done[r])
  BY <1>2, GovernAnswers DEF Recoverable
<1>3. CASE TornRaises
  BY <1>3 DEF TornRaises, Answered, Stays, FarmTypes
<1>4. CASE Lost(r)
  BY <1>4, LostAnswers
<1>5. QED
  BY <1>1, <1>2, <1>3, <1>4 DEF OnSkip

-----------------------------------------------------------------------------
(* The campaign                                                            *)

GateInv == (gated \/ call = "fleet") => configs = cleared

ReportInv == \A r \in Rids : Agrees(cf, ingested, r, out[r])

\* Of a leg it did not dispatch the call can only have rejected a record.
StrayInv == call = "fleet" => \A r \in Rids \ configs : out[r] \in {"none", "REJECTED"}

FarmInv == CutOK(cf) /\ FarmTypes /\ ReportInv /\ GateInv /\ StrayInv

\* Several rows changed at once, each with the reasons it needs.
LEMMA ManyRows ==
  ASSUME NEW c, CutOK(c), NEW d, NEW S \in SUBSET Rows, NEW f,
         d.rows = [row \in Rows |-> IF row \in S THEN f[row].rows[row] ELSE c.rows[row]],
         d.reasons \subseteq Rows \X Stages,
         \A row \in S : CutOK(f[row]) /\ \A k : <<row, k>> \in f[row].reasons <=> <<row, k>> \in d.reasons,
         \A row \in Rows : row \notin S => \A k : <<row, k>> \in c.reasons <=> <<row, k>> \in d.reasons
  PROVE  CutOK(d)
<1>1. d.rows \in [Rows -> Marks \cup {None}]
  BY DEF CutOK
<1>2. ASSUME NEW row \in Rows, d.rows[row] # None, NEW i \in Stages, d.rows[row][i] = "no"
      PROVE  \E k \in 1 .. i : <<row, k>> \in d.reasons
  <2>1. CASE row \in S
    <3>1. d.rows[row] = f[row].rows[row] /\ CutOK(f[row])
      BY <2>1
    <3>2. \E k \in 1 .. i : <<row, k>> \in f[row].reasons
      BY <1>2, <3>1 DEF CutOK
    <3>3. QED
      BY <2>1, <3>2
  <2>2. CASE row \notin S
    <3>1. d.rows[row] = c.rows[row]
      BY <2>2
    <3>2. \E k \in 1 .. i : <<row, k>> \in c.reasons
      BY <1>2, <3>1 DEF CutOK
    <3>3. QED
      BY <2>2, <3>2
  <2>3. QED
    BY <2>1, <2>2
<1>3. ASSUME NEW row \in Rows, NEW k \in Stages, <<row, k>> \in d.reasons
      PROVE  d.rows[row] # None /\ d.rows[row][k] = "no"
  <2>1. CASE row \in S
    <3>1. d.rows[row] = f[row].rows[row] /\ CutOK(f[row]) /\ <<row, k>> \in f[row].reasons
      BY <1>3, <2>1
    <3>2. QED
      BY <3>1 DEF CutOK
  <2>2. CASE row \notin S
    <3>1. d.rows[row] = c.rows[row] /\ <<row, k>> \in c.reasons
      BY <1>3, <2>2
    <3>2. QED
      BY <3>1 DEF CutOK
  <2>3. QED
    BY <2>1, <2>2
<1>4. QED
  BY <1>1, <1>2, <1>3 DEF CutOK

\* What a pass or a drop does to the reasons of its row.
LEMMA PassReasons ==
  ASSUME NEW c, CutOK(c), NEW row \in Rows, NEW stage \in Stages, NEW k
  PROVE  /\ <<row, k>> \in Pass(c, row, stage).reasons <=> <<row, k>> \in c.reasons /\ k # stage
         /\ <<row, k>> \in Drop(c, row, stage).reasons <=> <<row, k>> \in c.reasons \/ k = stage
<1>1. <<row, k>> \in Entered(c, row).reasons <=> <<row, k>> \in c.reasons
  <2>1. <<row, k>> \in c.reasons => k \in Stages
    BY DEF CutOK
  <2>2. QED
    BY <2>1 DEF Entered, Enter, CutOK
<1>2. Pass(c, row, stage).reasons = Entered(c, row).reasons \ {<<row, stage>>}
  BY DEF Pass
<1>3. Drop(c, row, stage).reasons = Entered(c, row).reasons \cup {<<row, stage>>}
  BY DEF Drop
<1>4. QED
  BY <1>1, <1>2, <1>3

LEMMA PlannedOK ==
  ASSUME CutOK(cf), NEW legs \in SUBSET Rids, NEW invalid \in SUBSET legs, NEW unmarked \in SUBSET Rids
  PROVE  CutOK(Planned(legs, invalid, unmarked))
<1> DEFINE d == Planned(legs, invalid, unmarked)
           own == {Leg(r) : r \in legs}
<1>1. own \in SUBSET Rows
  BY LegRows
<1>2. \A row \in own : row[1] \in legs /\ row = Leg(row[1])
  BY DEF Leg
<1>3. d.rows = [row \in Rows |->
          IF row \notin own THEN cf.rows[row]
          ELSE IF row[1] \in unmarked THEN Unknown
          ELSE IF row[1] \in invalid THEN [i \in Stages |-> "no"]
          ELSE [Unknown EXCEPT ![planned] = "ok"]]
  BY DEF Planned
<1>4. d.reasons = {x \in cf.reasons : x[1] \notin own} \cup {<<Leg(r), planned>> : r \in (legs \cap invalid) \ unmarked}
  BY DEF Planned
<1> HIDE DEF d
<1>5. Unknown \in Marks /\ [Unknown EXCEPT ![planned] = "ok"] \in Marks /\ [i \in Stages |-> "no"] \in Marks
      /\ \A i \in Stages : Unknown[i] # "no" /\ [Unknown EXCEPT ![planned] = "ok"][i] # "no"
  BY DEF Unknown, Marks
<1>6. d.rows \in [Rows -> Marks \cup {None}]
  BY <1>3, <1>5 DEF CutOK
<1>7. d.reasons \subseteq Rows \X Stages
  <2>1. {x \in cf.reasons : x[1] \notin own} \subseteq Rows \X Stages
    BY DEF CutOK
  <2>2. \A r \in Rids : <<Leg(r), planned>> \in Rows \X Stages
    BY LegRows, StageNames
  <2>3. QED
    BY <1>4, <2>1, <2>2
<1>8. ASSUME NEW row \in Rows, d.rows[row] # None, NEW i \in Stages, d.rows[row][i] = "no"
      PROVE  \E k \in 1 .. i : <<row, k>> \in d.reasons
  <2>1. CASE row \notin own
    <3>1. \E k \in 1 .. i : <<row, k>> \in cf.reasons
      BY <1>3, <1>8, <2>1 DEF CutOK
    <3>2. \A k : <<row, k>> \in cf.reasons => <<row, k>> \in d.reasons
      BY <1>4, <2>1
    <3>3. QED
      BY <3>1, <3>2
  <2>2. CASE row \in own
    <3>1. row[1] \in invalid /\ row[1] \notin unmarked
      BY <1>3, <1>5, <1>8, <2>2
    <3>2. <<row, planned>> \in d.reasons
      BY <1>2, <1>4, <2>2, <3>1
    <3>3. planned \in 1 .. i
      BY StagesAre DEF planned
    <3>4. QED
      BY <3>2, <3>3
  <2>3. QED
    BY <2>1, <2>2
<1>r. ASSUME NEW row \in Rows, NEW k \in Stages, <<row, k>> \in d.reasons
      PROVE  d.rows[row] # None /\ d.rows[row][k] = "no"
  <2>1. CASE row \notin own
    <3>1. <<row, k>> \in cf.reasons
      BY <1>4, <1>r, <2>1
    <3>2. QED
      BY <1>3, <2>1, <3>1 DEF CutOK
  <2>2. CASE row \in own
    <3>1. PICK r \in (legs \cap invalid) \ unmarked : row = Leg(r)
      BY <1>4, <1>r, <2>2
    <3>2. row[1] = r
      BY <3>1 DEF Leg
    <3>3. d.rows[row] = [i \in Stages |-> "no"]
      BY <1>3, <2>2, <3>1, <3>2
    <3>4. QED
      BY <1>5, <3>3, RowAssumption DEF Marks
  <2>3. QED
    BY <2>1, <2>2
<1>9. CutOK(d)
  BY <1>6, <1>7, <1>8, <1>r DEF CutOK
<1>10. QED
  BY <1>9 DEF d

LEMMA NobodyAgrees ==
  ASSUME NEW r \in Rids, NEW c, NEW corpus
  PROVE  Agrees(c, corpus, r, Nobody[r]) /\ Nobody \in [Rids -> Statuses]
  BY DEF Agrees, Nobody, Statuses

\* A leg's answer keeps the invariant.
LEMMA AnswerKeeps ==
  ASSUME FarmInv, NEW r \in Rids, Answered(r), UNCHANGED <<configs, gated, cleared>>,
         call = "none" \/ r \in configs
  PROVE  FarmInv'
<1>1. CASE out' = Nobody /\ call' = "none" /\ failures' = failures + 1
  <2>1. out' \in [Rids -> Statuses] /\ \A q \in Rids : Agrees(cf', ingested', q, out'[q])
    BY <1>1, NobodyAgrees
  <2>2. QED
    BY <1>1, <2>1 DEF FarmInv, FarmTypes, ReportInv, GateInv, StrayInv, Answered, Stays
<1>2. ASSUME NEW status \in Statuses \ {"none"}, Report(r, status), Agrees(cf', ingested', r, status),
             UNCHANGED <<call, failures>>
      PROVE  FarmInv'
  <2>1. out' \in [Rids -> Statuses]
    BY <1>2, NobodyAgrees DEF Report, FarmInv, FarmTypes
  <2>2. out'[r] = status /\ \A q \in Rids : q # r => out'[q] = out[q] \/ out'[q] = Nobody[q]
    BY <1>2, NobodyAgrees DEF Report, FarmInv, FarmTypes
  <2>3. ASSUME NEW q \in Rids PROVE Agrees(cf', ingested', q, out'[q])
    <3>1. CASE q = r
      BY <1>2, <2>2, <3>1
    <3>2. CASE q # r /\ out'[q] = out[q]
      BY <3>2 DEF FarmInv, ReportInv, Answered, Stays, Agrees
    <3>3. CASE out'[q] = Nobody[q]
      BY <3>3, NobodyAgrees
    <3>4. QED
      BY <2>2, <3>1, <3>2, <3>3
  <2>4. StrayInv'
    BY <1>2 DEF Report, FarmInv, FarmTypes, StrayInv
  <2>5. QED
    BY <1>2, <2>1, <2>3, <2>4 DEF FarmInv, FarmTypes, ReportInv, GateInv, Answered, Stays
<1>3. QED
  BY <1>1, <1>2 DEF Answered

LEMMA GateLaunchOK ==
  ASSUME FarmInv, NEW launched, GateLaunch(launched)
  PROVE  CutOK(cf')
<1> DEFINE ok == LaunchGate(launched)
           S == {Leg(r) : r \in configs}
           after == [r \in configs |-> IF ok THEN Pass(cf, Leg(r), launchGate) ELSE Drop(cf, Leg(r), launchGate)]
           f == [row \in S |-> after[row[1]]]
           marks == {<<Leg(r), launchGate>> : r \in configs}
<1>1. /\ S \in SUBSET Rows
      /\ \A row \in S : row[1] \in configs /\ row = Leg(row[1])
  <2>1. configs \subseteq Rids
    BY DEF FarmInv, FarmTypes
  <2>2. S \in SUBSET Rows
    BY <2>1, LegRows
  <2>3. \A row \in S : row[1] \in configs /\ row = Leg(row[1])
    BY DEF Leg
  <2>4. QED
    BY <2>2, <2>3
<1>2. cf'.rows = [row \in Rows |-> IF row \in S THEN after[row[1]].rows[row] ELSE cf.rows[row]]
      /\ cf'.reasons = IF ok THEN cf.reasons \ marks ELSE cf.reasons \cup marks
  BY DEF GateLaunch
<1>3. marks \subseteq Rows \X Stages
  <2>1. \A r \in Rids : <<Leg(r), launchGate>> \in Rows \X Stages
    BY LegRows, StageNames
  <2>2. QED
    BY <2>1 DEF FarmInv, FarmTypes
<1>4. ASSUME NEW row \in S
      PROVE  /\ f[row] = IF ok THEN Pass(cf, row, launchGate) ELSE Drop(cf, row, launchGate)
             /\ after[row[1]] = f[row]
             /\ row \in Rows
             /\ \A k : <<row, k>> \in marks <=> k = launchGate
  <2>1. row[1] \in configs /\ row = Leg(row[1]) /\ row \in Rows
    BY <1>1
  <2>2. after[row[1]] = IF ok THEN Pass(cf, row, launchGate) ELSE Drop(cf, row, launchGate)
    BY <2>1
  <2>3. f[row] = after[row[1]]
    OBVIOUS
  <2>4. \A k : <<row, k>> \in marks <=> k = launchGate
    BY <2>1
  <2>5. QED
    BY <2>1, <2>2, <2>3, <2>4
<1>5. \A row \in Rows : row \notin S => \A k : <<row, k>> \notin marks
  OBVIOUS
<1> HIDE DEF ok, S, after, f, marks
<1>6. cf'.rows = [row \in Rows |-> IF row \in S THEN f[row].rows[row] ELSE cf.rows[row]]
  BY <1>2, <1>4
<1>7. cf'.reasons \subseteq Rows \X Stages
  BY <1>2, <1>3 DEF FarmInv, CutOK
<1>8. ASSUME NEW row \in S
      PROVE  CutOK(f[row]) /\ \A k : <<row, k>> \in f[row].reasons <=> <<row, k>> \in cf'.reasons
  <2>1. row \in Rows /\ launchGate \in Stages /\ CutOK(cf)
    BY <1>4, <1>8, StageNames DEF FarmInv
  <2>2. CASE ok
    <3>1. f[row] = Pass(cf, row, launchGate)
      BY <1>4, <1>8, <2>2
    <3>2. CutOK(f[row])
      BY <2>1, <3>1, PassOK
    <3>3. \A k : <<row, k>> \in f[row].reasons <=> <<row, k>> \in cf.reasons /\ k # launchGate
      BY <2>1, <3>1, PassReasons
    <3>4. QED
      BY <1>2, <1>4, <1>8, <2>2, <3>2, <3>3
  <2>3. CASE ~ ok
    <3>1. f[row] = Drop(cf, row, launchGate)
      BY <1>4, <1>8, <2>3
    <3>2. CutOK(f[row])
      BY <2>1, <3>1, DropOK
    <3>3. \A k : <<row, k>> \in f[row].reasons <=> <<row, k>> \in cf.reasons \/ k = launchGate
      BY <2>1, <3>1, PassReasons
    <3>4. QED
      BY <1>2, <1>4, <1>8, <2>3, <3>2, <3>3
  <2>4. QED
    BY <2>2, <2>3
<1>9. \A row \in Rows : row \notin S => \A k : <<row, k>> \in cf.reasons <=> <<row, k>> \in cf'.reasons
  BY <1>2, <1>5
<1>10. QED
  BY <1>1, <1>6, <1>7, <1>8, <1>9, ManyRows DEF FarmInv

\* The legs the dispatch left out are lost, each in its own row.
LEMMA FleetReturnsKeeps ==
  ASSUME FarmInv, FleetReturns
  PROVE  FarmInv'
<1> DEFINE S == {Leg(r) : r \in Unanswered}
           f == [row \in S |-> Drop(cf, row, completed)]
           marks == {<<Leg(r), completed>> : r \in Unanswered}
<1>1. S \in SUBSET Rows /\ Unanswered \subseteq configs /\ configs \subseteq Rids
      /\ \A r \in Rids : r \in Unanswered <=> Leg(r) \in S
  BY LegRows DEF Unanswered, FarmInv, FarmTypes, Leg
<1>2. cf'.rows = [row \in Rows |-> IF row \in S THEN f[row].rows[row] ELSE cf.rows[row]]
      /\ cf'.reasons = cf.reasons \cup marks
  BY DEF FleetReturns
<1>3. marks \subseteq Rows \X Stages
  <2>1. \A r \in Rids : <<Leg(r), completed>> \in Rows \X Stages
    BY LegRows, StageNames
  <2>2. QED
    BY <1>1, <2>1
<1>4. ASSUME NEW row \in S
      PROVE  f[row] = Drop(cf, row, completed) /\ row \in Rows /\ \A k : k = completed <=> <<row, k>> \in marks
  BY <1>1
<1>m. \A row \in Rows : row \notin S => \A k : <<row, k>> \notin marks
  OBVIOUS
<1>5. /\ out' = [r \in Rids |-> IF r \in Unanswered THEN "LOST" ELSE out[r]]
      /\ call' = "none" /\ UNCHANGED <<configs, gated, cleared, ingested, failures>>
  BY DEF FleetReturns
<1> HIDE DEF S, f, marks
<1>6. cf'.reasons \subseteq Rows \X Stages
  BY <1>2, <1>3 DEF FarmInv, CutOK
<1>7. ASSUME NEW row \in S
      PROVE  /\ CutOK(f[row]) /\ \A k : <<row, k>> \in f[row].reasons <=> <<row, k>> \in cf'.reasons
             /\ f[row].rows[row][registered] = "no"
  <2>1. row \in Rows /\ completed \in Stages /\ CutOK(cf) /\ f[row] = Drop(cf, row, completed)
    BY <1>4, <1>7, StageNames DEF FarmInv
  <2>2. CutOK(f[row]) /\ f[row].rows[row][registered] = "no"
    BY <2>1, DropOK
  <2>3. \A k : <<row, k>> \in f[row].reasons <=> <<row, k>> \in cf.reasons \/ k = completed
    BY <2>1, PassReasons
  <2>4. QED
    BY <1>2, <1>4, <1>7, <2>2, <2>3
<1>8. CutOK(cf')
  <2>1. \A row \in Rows : row \notin S => \A k : <<row, k>> \in cf.reasons <=> <<row, k>> \in cf'.reasons
    BY <1>2, <1>m
  <2>2. QED
    BY <1>1, <1>2, <1>6, <1>7, <2>1, ManyRows DEF FarmInv
<1>9. ASSUME NEW r \in Rids PROVE Agrees(cf', ingested', r, out'[r])
  <2>1. CASE r \in Unanswered
    <3>1. Leg(r) \in S /\ Leg(r) \in Rows
      BY <1>1, <2>1, LegRows
    <3>2. cf'.rows[Leg(r)][registered] = "no"
      BY <1>2, <1>7, <3>1
    <3>3. QED
      BY <1>5, <2>1, <3>2 DEF Agrees
  <2>2. CASE r \notin Unanswered
    <3>1. cf'.rows[Leg(r)] = cf.rows[Leg(r)]
      BY <1>1, <1>2, <2>2, LegRows
    <3>2. out'[r] = out[r] /\ ingested' = ingested
      BY <1>5, <2>2
    <3>3. QED
      BY <3>1, <3>2 DEF Agrees, FarmInv, ReportInv
  <2>3. QED
    BY <2>1, <2>2
<1>10. out' \in [Rids -> Statuses]
  BY <1>5 DEF FarmInv, FarmTypes, Statuses
<1>11. QED
  BY <1>5, <1>8, <1>9, <1>10 DEF FarmInv, FarmTypes, ReportInv, GateInv, StrayInv

\* A record for a row of its own: a duplicate, or nobody's.
LEMMA StrayRecordOK ==
  ASSUME CutOK(cf), NEW row \in Rows, cf' = Drop(Enter(cf, row), row, completed)
  PROVE  CutOK(cf') /\ SameBut(cf, cf', row) /\ cf'.rows[row][registered] = "no"
<1> DEFINE entered == Enter(cf, row)
<1>1. CutOK(entered) /\ SameBut(cf, entered, row)
  BY EnterOK
<1> HIDE DEF entered
<1>2. CutOK(cf') /\ SameBut(entered, cf', row) /\ cf'.rows[row][registered] = "no"
  BY <1>1, DropOK, StageNames DEF entered
<1>3. QED
  BY <1>1, <1>2, SameButTwice

LEMMA StrayRecordKeeps ==
  ASSUME FarmInv, NEW r \in Rids, FleetDuplicate(r) \/ FleetUnplanned(r), call = "fleet"
  PROVE  FarmInv'
<1>1. CASE FleetDuplicate(r)
  <2>1. CutOK(cf') /\ SameBut(cf, cf', <<r, "dup">>)
    BY <1>1, LegRows, StrayRecordOK DEF FleetDuplicate, FarmInv
  <2>2. \A q \in Rids : cf'.rows[Leg(q)] = cf.rows[Leg(q)]
    BY <2>1, LegRows DEF SameBut
  <2>3. QED
    BY <1>1, <2>1, <2>2 DEF FleetDuplicate, FarmInv, FarmTypes, ReportInv, Agrees, GateInv, StrayInv
<1>2. CASE FleetUnplanned(r)
  <2> DEFINE row == UnplannedRow(r)
  <2>1. row \in Rows /\ \A q \in Rids : q # r => Leg(q) # row
    BY LegRows DEF UnplannedRow
  <2>2. cf' = Drop(Enter(cf, row), row, completed)
        /\ out' = (IF r \in configs THEN out ELSE [out EXCEPT ![r] = "REJECTED"])
        /\ UNCHANGED <<configs, gated, cleared, ingested, call, failures>>
    BY <1>2 DEF FleetUnplanned
  <2>3. CutOK(cf') /\ SameBut(cf, cf', row) /\ cf'.rows[row][registered] = "no"
    BY <2>1, <2>2, StrayRecordOK DEF FarmInv
  <2>4. ASSUME NEW q \in Rids PROVE Agrees(cf', ingested', q, out'[q])
    <3>1. CASE row # Leg(q)
      <4>1. cf'.rows[Leg(q)] = cf.rows[Leg(q)]
        BY <2>3, <3>1, LegRows DEF SameBut
      <4>2. out'[q] = out[q] \/ (q = r /\ r \notin configs)
        BY <2>2 DEF FarmInv, FarmTypes
      <4>3. CASE out'[q] = out[q]
        BY <2>2, <4>1, <4>3 DEF FarmInv, ReportInv, Agrees
      <4>4. CASE q = r /\ r \notin configs
        <5>1. out[r] = "REJECTED"
          BY <3>1, <4>4 DEF UnplannedRow, FarmInv, StrayInv
        <5>2. out'[q] = "REJECTED"
          BY <2>2, <4>4 DEF FarmInv, FarmTypes
        <5>3. QED
          BY <4>1, <4>4, <5>1, <5>2 DEF Agrees, FarmInv, ReportInv
      <4>5. QED
        BY <4>2, <4>3, <4>4
    <3>2. CASE row = Leg(q)
      <4>1. q = r
        BY <2>1, <3>2
      <4>2. r \notin configs
        BY <3>2, <4>1, LegRows DEF UnplannedRow
      <4>3. out'[r] = "REJECTED"
        BY <2>2, <4>2 DEF FarmInv, FarmTypes
      <4>4. QED
        BY <2>3, <3>2, <4>1, <4>3 DEF Agrees
    <3>3. QED
      BY <3>1, <3>2
  <2>5. StrayInv' /\ out' \in [Rids -> Statuses]
    BY <2>2 DEF FarmInv, FarmTypes, StrayInv, Statuses
  <2>6. QED
    BY <2>2, <2>3, <2>4, <2>5 DEF FarmInv, FarmTypes, ReportInv, GateInv
<1>3. QED
  BY <1>1, <1>2

\* Init.
LEMMA FarmInit ==
  ASSUME Init
  PROVE  FarmInv
<1>1. CutOK(cf)
  BY DEF Init, Fresh, CutOK
<1>2. FarmTypes
  BY NobodyAgrees DEF Init, FarmTypes, Nobody, Statuses
<1>3. ReportInv
  BY NobodyAgrees DEF Init, ReportInv
<1>4. QED
  BY <1>1, <1>2, <1>3 DEF FarmInv, GateInv, StrayInv, Init

\* A call that answers for nobody yet, or for nobody any more.
LEMMA QuietKeeps ==
  ASSUME FarmInv, CutOK(cf'), out' = Nobody, configs' \subseteq Rids, cleared' \subseteq Rids,
         Stays(ingested, ingested') \/ ingested' = [r \in Rids |-> None],
         failures' = failures \/ failures' = failures + 1, GateInv'
  PROVE  FarmInv'
<1>1. FarmTypes'
  <2>1. out' \in [Rids -> Statuses]
    BY DEF Nobody, Statuses
  <2>2. failures' \in Nat
    BY DEF FarmInv, FarmTypes
  <2>3. ingested' \in [Rids -> Contents \cup {None}]
    BY DEF Stays
  <2>4. QED
    BY <2>1, <2>2, <2>3 DEF FarmTypes
<1>2. ReportInv'
  BY NobodyAgrees DEF ReportInv
<1>3. StrayInv'
  BY DEF StrayInv, Nobody
<1>4. QED
  BY <1>1, <1>2, <1>3 DEF FarmInv

LEMMA Staying ==
  ASSUME FarmTypes, UNCHANGED ingested
  PROVE  Stays(ingested, ingested')
  BY DEF FarmTypes, Stays

LEMMA PlanKeeps ==
  ASSUME FarmInv, Plan \/ PlanRaises
  PROVE  FarmInv'
<1>1. CutOK(cf') /\ configs' \subseteq Rids
  <2>1. CASE Plan
    <3>1. PICK legs \in SUBSET Rids, invalid \in SUBSET Rids :
            invalid \subseteq legs /\ configs' = legs \ invalid /\ cf' = Planned(legs, invalid, {})
      BY <2>1 DEF Plan
    <3>2. QED
      BY <3>1, PlannedOK DEF FarmInv
  <2>2. CASE PlanRaises
    <3>1. PICK legs \in SUBSET Rids, invalid \in SUBSET Rids, unmarked \in SUBSET Rids :
            invalid \subseteq legs /\ cf' = Planned(legs, invalid, unmarked)
      BY <2>2 DEF PlanRaises
    <3>2. configs' \subseteq Rids
      BY <2>2 DEF PlanRaises, FarmInv, FarmTypes
    <3>3. QED
      BY <3>1, <3>2, PlannedOK DEF FarmInv
  <2>3. QED
    BY <2>1, <2>2
<1>2. /\ out' = Nobody /\ UNCHANGED <<cleared, ingested, call>> /\ gated' = FALSE /\ call = "none"
      /\ failures' = failures \/ failures' = failures + 1
  BY DEF Plan, PlanRaises, Regate
<1>3. GateInv'
  BY <1>2 DEF GateInv
<1>4. QED
  BY <1>1, <1>2, <1>3, Staying, QuietKeeps DEF FarmInv, FarmTypes

LEMMA GateLaunchKeeps ==
  ASSUME FarmInv, NEW launched, GateLaunch(launched)
  PROVE  FarmInv'
<1>1. CutOK(cf')
  BY GateLaunchOK
<1>2. /\ out' = Nobody /\ UNCHANGED <<configs, ingested, call, failures>> /\ call = "none"
      /\ gated' = LaunchGate(launched)
      /\ cleared' = IF LaunchGate(launched) THEN configs ELSE cleared
  BY DEF GateLaunch
<1>3. GateInv' /\ cleared' \subseteq Rids
  BY <1>2 DEF GateInv, FarmInv, FarmTypes
<1>4. QED
  BY <1>1, <1>2, <1>3, Staying, QuietKeeps DEF FarmInv, FarmTypes

\* Every way a leg's result comes in.
LEMMA ResultAnswers ==
  ASSUME FarmInv, NEW r \in Rids, ExecuteLeg(r) \/ ExecuteElsewhere(r) \/ FleetRecord(r)
  PROVE  Answered(r) /\ UNCHANGED <<configs, gated, cleared>> /\ (call = "none" \/ r \in configs)
<1>1. Lost(r) \/ OnSkip(r) \/ \E shipment \in Shipments : Govern(r, shipment)
  BY DEF ExecuteLeg, ExecuteElsewhere, FleetRecord, Recoverable
<1>2. Answered(r)
  BY <1>1, LostAnswers, OnSkipAnswers, GovernAnswers DEF FarmInv
<1>3. QED
  BY <1>2 DEF ExecuteLeg, ExecuteElsewhere, FleetRecord

LEMMA OtherKeeps ==
  ASSUME FarmInv, StartFleet \/ DispatchRaises \/ Restart
  PROVE  FarmInv'
<1>1. CASE StartFleet
  <2>1. CutOK(cf') /\ out' = Nobody /\ UNCHANGED <<configs, cleared, ingested, failures>> /\ GateInv'
    BY <1>1 DEF StartFleet, FarmInv, GateInv
  <2>2. QED
    BY <2>1, Staying, QuietKeeps DEF FarmInv, FarmTypes
<1>2. CASE DispatchRaises
  <2>1. CutOK(cf') /\ out' = Nobody /\ UNCHANGED <<configs, cleared, ingested>> /\ GateInv'
        /\ failures' = failures + 1
    BY <1>2 DEF DispatchRaises, FarmInv, GateInv
  <2>2. QED
    BY <2>1, Staying, QuietKeeps DEF FarmInv, FarmTypes
<1>3. CASE Restart
  <2>1. cf' = Fresh /\ out' = Nobody /\ configs' = {} /\ cleared' = {} /\ GateInv'
        /\ ingested' = [r \in Rids |-> None] /\ failures' = failures + 1
    BY <1>3 DEF Restart, GateInv
  <2>2. CutOK(cf')
    BY <2>1 DEF Fresh, CutOK
  <2>3. QED
    BY <2>1, <2>2, QuietKeeps
<1>4. QED
  BY <1>1, <1>2, <1>3

LEMMA FarmStep ==
  ASSUME FarmInv, [Next]_farmVars
  PROVE  FarmInv'
<1>1. CASE Plan \/ PlanRaises
  BY <1>1, PlanKeeps
<1>2. ASSUME NEW launched \in SUBSET Rids, GateLaunch(launched) PROVE FarmInv'
  BY <1>2, GateLaunchKeeps
<1>3. ASSUME NEW r \in Rids, ExecuteLeg(r) \/ ExecuteElsewhere(r) \/ FleetRecord(r) PROVE FarmInv'
  BY <1>3, ResultAnswers, AnswerKeeps
<1>4. CASE StartFleet \/ DispatchRaises \/ Restart
  BY <1>4, OtherKeeps
<1>5. CASE FleetReturns
  BY <1>5, FleetReturnsKeeps
<1>6. ASSUME NEW r \in Rids, FleetDuplicate(r) \/ FleetUnplanned(r) PROVE FarmInv'
  BY <1>6, StrayRecordKeeps DEF FleetDuplicate, FleetUnplanned
<1>7. CASE UNCHANGED farmVars
  BY <1>7 DEF farmVars, FarmInv, CutOK, FarmTypes, ReportInv, Agrees, GateInv, StrayInv
<1>8. QED
  BY <1>1, <1>2, <1>3, <1>4, <1>5, <1>6, <1>7 DEF Next

-----------------------------------------------------------------------------
(* Theorems                                                                *)

\* The campaign keeps the inductive invariant.
THEOREM FarmInvariant == Spec => []FarmInv
<1>1. Init => FarmInv
  BY FarmInit
<1>2. FarmInv /\ [Next]_farmVars => FarmInv'
  BY FarmStep
<1>3. QED
  BY <1>1, <1>2, PTL DEF Spec

\* The rest of the types.
RestTypes ==
  /\ gated \in BOOLEAN /\ call \in {"none", "fleet"}
  /\ done \in [Rids -> Recoverable \cup {None, "torn"}]
  /\ failures \in 0 .. MaxFailures /\ calls \in 0 .. MaxCalls

LEMMA RestStep ==
  ASSUME FarmInv, RestTypes, [Next]_farmVars
  PROVE  RestTypes'
<1>1. gated' \in BOOLEAN
  BY Zenon DEF RestTypes, Next, farmVars, Plan, PlanRaises, GateLaunch, ExecuteLeg, ExecuteElsewhere, StartFleet,
               FleetRecord, FleetDuplicate, FleetUnplanned, FleetReturns, DispatchRaises, Restart, Regate, LaunchGate
<1>2. done' \in [Rids -> Recoverable \cup {None, "torn"}]
  BY DEF RestTypes, Next, farmVars, Plan, PlanRaises, GateLaunch, ExecuteLeg, ExecuteElsewhere, StartFleet,
         FleetRecord, FleetDuplicate, FleetUnplanned, FleetReturns, DispatchRaises, Restart
<1>3. ASSUME NEW r \in Rids, ExecuteLeg(r) \/ ExecuteElsewhere(r) \/ FleetRecord(r)
      PROVE  call' \in {"none", "fleet"} /\ failures' \in 0 .. MaxFailures /\ calls' \in 0 .. MaxCalls
  <2>1. calls' \in 0 .. MaxCalls
    BY <1>3, FarmAssumption DEF RestTypes, ExecuteLeg, ExecuteElsewhere, FleetRecord, NextCall
  <2>2. \/ UNCHANGED <<call, failures>>
        \/ call' = "none" /\ failures < MaxFailures /\ failures' = failures + 1
    BY <1>3 DEF ExecuteLeg, ExecuteElsewhere, FleetRecord, OnSkip, Govern, Lost, Rejected, Reattempt, Ingest,
                IngestRaises, TornRaises
  <2>3. QED
    BY <2>1, <2>2, FarmAssumption DEF RestTypes
<1>4. CASE ~ \E r \in Rids : ExecuteLeg(r) \/ ExecuteElsewhere(r) \/ FleetRecord(r)
  <2>1. \/ UNCHANGED <<call, failures, calls>>
        \/ NextCall /\ UNCHANGED <<call, failures>>
        \/ NextCall /\ call' = "fleet" /\ UNCHANGED failures
        \/ NextCall /\ UNCHANGED call /\ failures < MaxFailures /\ failures' = failures + 1
        \/ call' = "none" /\ UNCHANGED <<failures, calls>>
        \/ call' = "none" /\ UNCHANGED calls /\ failures < MaxFailures /\ failures' = failures + 1
        \/ call' = "none" /\ calls' = 0 /\ failures < MaxFailures /\ failures' = failures + 1
    BY <1>4, Zenon DEF Next, farmVars, Plan, PlanRaises, GateLaunch, StartFleet, FleetDuplicate,
                       FleetUnplanned, FleetReturns, DispatchRaises, Restart
  <2>2. calls \in 0 .. MaxCalls /\ failures \in 0 .. MaxFailures /\ MaxCalls \in Nat /\ MaxFailures \in Nat
    BY FarmAssumption DEF RestTypes
  <2>3. calls' \in 0 .. MaxCalls
    BY <2>1, <2>2 DEF NextCall
  <2>4. failures' \in 0 .. MaxFailures
    BY <2>1, <2>2
  <2>5. call' \in {"none", "fleet"}
    BY <2>1 DEF RestTypes
  <2>6. QED
    BY <1>1, <1>2, <2>3, <2>4, <2>5 DEF RestTypes
<1>5. QED
  BY <1>1, <1>2, <1>3, <1>4 DEF RestTypes

\* Every variable keeps its type, and a reason is only at a stage not survived.
THEOREM FarmTypeCorrect == Spec => []FarmTypeOK
<1>1. Init => RestTypes
  <2> SUFFICES ASSUME Init PROVE RestTypes
    OBVIOUS
  <2>1. gated \in BOOLEAN
    BY Zenon DEF Init
  <2>2. done \in [Rids -> Recoverable \cup {None, "torn"}]
    BY DEF Init
  <2>3. failures \in 0 .. MaxFailures /\ calls \in 0 .. MaxCalls
    BY FarmAssumption DEF Init
  <2>4. QED
    BY <2>1, <2>2, <2>3 DEF Init, RestTypes
<1>2. FarmInv /\ RestTypes => FarmTypeOK
  <2> SUFFICES ASSUME FarmInv, RestTypes PROVE FarmTypeOK
    OBVIOUS
  <2>1. \A x \in cf.reasons : x \in Rows \X Stages /\ cf.rows[x[1]] # None /\ cf.rows[x[1]][x[2]] = "no"
    <3> SUFFICES ASSUME NEW x \in cf.reasons
                 PROVE  x \in Rows \X Stages /\ cf.rows[x[1]] # None /\ cf.rows[x[1]][x[2]] = "no"
      OBVIOUS
    <3>1. PICK row \in Rows, k \in Stages : x = <<row, k>>
      BY DEF FarmInv, CutOK
    <3>2. QED
      BY <3>1 DEF FarmInv, CutOK
  <2>2. QED
    BY <2>1 DEF FarmTypeOK, RestTypes, FarmInv, FarmTypes, CutOK, Marks
<1>3. FarmInv /\ RestTypes /\ [Next]_farmVars => RestTypes'
  BY RestStep
<1>4. QED
  BY <1>1, <1>2, <1>3, FarmInvariant, PTL DEF Spec

\* No stage is ever not survived without a reason at it or before it.
THEOREM DropsHaveReasons == Spec => []EveryDropHasReason
<1>1. FarmInv => EveryDropHasReason
  BY DEF FarmInv, CutOK, EveryDropHasReason
<1>2. QED
  BY <1>1, FarmInvariant, PTL

\* What a call reports of a leg is what the cut-flow and the corpus say.
THEOREM ReportsAgree == Spec => []ReportMatchesCutFlow
<1>1. FarmInv => ReportMatchesCutFlow
  BY DEF FarmInv, ReportInv, Agrees, ReportMatchesCutFlow
<1>2. QED
  BY <1>1, FarmInvariant, PTL

\* execute_fleet dispatches exactly what the gate last passed.
THEOREM OnlyCleared == Spec => []OnlyClearedLegsAreDispatched
<1>1. FarmInv => OnlyClearedLegsAreDispatched
  BY DEF FarmInv, GateInv, OnlyClearedLegsAreDispatched
<1>2. QED
  BY <1>1, FarmInvariant, PTL

\* A dispatch that returns has an answer for each of its legs.
THEOREM FleetAnswers == Spec => FleetAnswersForAll
<1>1. ASSUME FarmInv, [Next]_farmVars, call = "fleet", call' = "none", failures' = failures
      PROVE  \A r \in configs : out'[r] # "none"
  <2>1. CASE FleetReturns
    BY <1>1, <2>1 DEF FleetReturns, Unanswered, FarmInv, FarmTypes
  <2>2. ASSUME NEW r \in Rids, ExecuteLeg(r) \/ ExecuteElsewhere(r) \/ FleetRecord(r) PROVE FALSE
    BY <1>1, <2>2, ResultAnswers DEF Answered, FarmInv, FarmTypes
  <2>3. QED
    BY <1>1, <2>1, <2>2 DEF Next, farmVars, Plan, PlanRaises, GateLaunch, StartFleet, DispatchRaises, Restart,
                            FleetDuplicate, FleetUnplanned, FarmInv, FarmTypes
<1>2. QED
  BY <1>1, FarmInvariant, PTL DEF Spec, FleetAnswersForAll

\* What this process ingested first for a leg is what its corpus holds.
THEOREM FirstStays == Spec => FirstContentStays
<1>1. ASSUME FarmInv, [Next]_farmVars
      PROVE  \A r \in Rids : ingested[r] # None => ingested'[r] = ingested[r] \/ cf' = Fresh
  <2>1. ASSUME NEW r \in Rids, ExecuteLeg(r) \/ ExecuteElsewhere(r) \/ FleetRecord(r)
        PROVE  Stays(ingested, ingested')
    BY <1>1, <2>1, ResultAnswers DEF Answered
  <2>2. QED
    BY <1>1, <2>1 DEF Stays, Next, farmVars, Plan, PlanRaises, GateLaunch, StartFleet, DispatchRaises, Restart,
                      FleetReturns, FleetDuplicate, FleetUnplanned
<1>2. QED
  BY <1>1, FarmInvariant, PTL DEF Spec, FirstContentStays

=============================================================================
