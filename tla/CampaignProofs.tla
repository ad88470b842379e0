---------------------------- MODULE CampaignProofs ----------------------------
(***************************************************************************)
(* What holds of module Campaign for any number of workers, steps and      *)
(* preemptions, on either backend.  The records of a run are never behind: *)
(* neither the checkpoint nor any worker, live or dead, has reached a step *)
(* whose record is missing.                                                *)
(***************************************************************************)
EXTENDS Campaign, FiniteSetTheorems, TLAPS

Typed ==
  /\ store \in {"file", "object"}
  /\ pc \in [Workers -> Phases]
  /\ at \in [Workers -> 0 .. LastStep]
  /\ outcome \in [Workers -> {"none", "skipped", "finished", "failed", "preempted"}]
  /\ config \in BOOLEAN /\ done \in BOOLEAN
  /\ lines \in 0 .. 1
  /\ ckpt \in 0 .. LastStep
  /\ events \subseteq 1 .. LastStep
  /\ torn \subseteq Files
  /\ kills \in 0 .. MaxKills
  /\ store \in Stores

Busy(w) == pc[w] # "idle"
Listing(w) == pc[w] \in {"writing_config", "listing"}

\* On a file base one worker is in the run at a time.
OneWorkerInv ==
  store = "file" => \A v, w \in Workers : Busy(v) /\ Busy(w) => v = w

\* The manifest line is written only by who created config.json, before anybody
\* else gets that far.
ManifestInv ==
  store = "file" =>
    /\ ~config => lines = 0 /\ \A w \in Workers : ~Listing(w)
    /\ \A w \in Workers : Listing(w) => lines = 0

RecordsInv ==
  /\ 1 .. ckpt \subseteq events
  /\ \A w \in Workers : 1 .. at[w] \subseteq events
  /\ \A w \in Workers : pc[w] \in {"finishing", "writing_DONE"} => at[w] = LastStep
  /\ done => 1 .. LastStep \subseteq events
  /\ \A w \in Workers : outcome[w] = "skipped" => done

\* On a file base the worker in the run is never behind the checkpoint.
ProgressInv ==
  store = "file" =>
    \A w \in Workers : pc[w] \in {"emitting", "saving", "writing_checkpoint"} => at[w] >= ckpt

CInv == Typed /\ OneWorkerInv /\ ManifestInv /\ RecordsInv /\ ProgressInv

LEMMA InitEstablishesCInv == Init => CInv
<1> SUFFICES ASSUME Init PROVE CInv
  OBVIOUS
<1> USE CampaignAssumption DEF Init
<1>1. Typed
  <2>1. pc \in [Workers -> Phases] /\ torn \subseteq Files
    BY DEF Phases, Files
  <2>2. at \in [Workers -> 0 .. LastStep]
    OBVIOUS
  <2>3. lines \in 0 .. 1 /\ ckpt \in 0 .. LastStep /\ kills \in 0 .. MaxKills
    OBVIOUS
  <2>4. outcome \in [Workers -> {"none", "skipped", "finished", "failed", "preempted"}]
    OBVIOUS
  <2>5. config \in BOOLEAN /\ done \in BOOLEAN
    OBVIOUS
  <2>6. events \subseteq 1 .. LastStep
    OBVIOUS
  <2>7. store \in {"file", "object"}
    OBVIOUS
  <2>8. QED
    BY <2>1, <2>2, <2>3, <2>4, <2>5, <2>6, <2>7 DEF Typed
<1>2. OneWorkerInv /\ ManifestInv
  BY DEF OneWorkerInv, ManifestInv, Busy, Listing
<1>3. RecordsInv /\ ProgressInv
  BY DEF RecordsInv, ProgressInv
<1>4. QED
  BY <1>1, <1>2, <1>3 DEF CInv

LEMMA StepKeepsCInv ==
  ASSUME CInv, [Next]_vars
  PROVE  CInv'
<1> USE CampaignAssumption DEF CInv, Typed, Phases, Files, Return, Go, Open, Filled
<1> DEFINE Kept == Typed' /\ OneWorkerInv' /\ ManifestInv' /\ RecordsInv' /\ ProgressInv'
<1>1. ASSUME NEW w \in Workers, Begin(w) PROVE Kept
  BY <1>1 DEF Begin, storeVars, OneWorkerInv, ManifestInv, RecordsInv, ProgressInv, Busy, Listing
<1>2. ASSUME NEW w \in Workers, Register(w) PROVE Kept
  <2>1. Typed'
    BY <1>2 DEF Register
  <2>2. OneWorkerInv'
    BY <1>2 DEF Register, OneWorkerInv, Busy
  <2>3. ManifestInv'
    BY <1>2 DEF Register, ManifestInv, OneWorkerInv, Listing, Busy
  <2>4. RecordsInv'
    BY <1>2 DEF Register, RecordsInv
  <2>5. ProgressInv'
    BY <1>2 DEF Register, ProgressInv
  <2>6. QED
    BY <2>1, <2>2, <2>3, <2>4, <2>5
<1>3. ASSUME NEW w \in Workers, FillConfig(w) PROVE Kept
  BY <1>3 DEF FillConfig, OneWorkerInv, ManifestInv, RecordsInv, ProgressInv, Busy, Listing
<1>4. ASSUME NEW w \in Workers, List(w) PROVE Kept
  BY <1>4 DEF List, OneWorkerInv, ManifestInv, RecordsInv, ProgressInv, Busy, Listing
<1>5. ASSUME NEW w \in Workers, CheckComplete(w) PROVE Kept
  BY <1>5 DEF CheckComplete, storeVars, OneWorkerInv, ManifestInv, RecordsInv, ProgressInv, Busy, Listing
<1>6. ASSUME NEW w \in Workers, Load(w) PROVE Kept
  BY <1>6 DEF Load, storeVars, OneWorkerInv, ManifestInv, RecordsInv, ProgressInv, Busy, Listing
<1>7. ASSUME NEW w \in Workers, Emit(w) PROVE Kept
  <2>1. CASE at[w] = LastStep
    <3>1. Typed'
      BY <1>7, <2>1 DEF Emit
    <3>2. OneWorkerInv'
      BY <1>7, <2>1 DEF Emit, OneWorkerInv, Busy
    <3>3. ManifestInv'
      BY <1>7, <2>1 DEF Emit, ManifestInv, OneWorkerInv, Listing, Busy
    <3>4. RecordsInv'
      BY <1>7, <2>1 DEF Emit, RecordsInv
    <3>5. ProgressInv'
      BY <1>7, <2>1 DEF Emit, ProgressInv
    <3>6. QED
      BY <3>1, <3>2, <3>3, <3>4, <3>5
  <2>2. CASE at[w] # LastStep
    <3>1. at'[w] = at[w] + 1 /\ at[w] + 1 \in 1 .. LastStep /\ events' = events \cup {at[w] + 1}
      BY <1>7, <2>2 DEF Emit
    <3>2. Typed'
      <4>1. pc' \in [Workers -> Phases] /\ outcome' \in [Workers -> {"none", "skipped", "finished", "failed", "preempted"}]
        BY <1>7, <2>2, <3>1 DEF Emit
      <4>2. torn' \subseteq Files /\ events' \subseteq 1 .. LastStep
        BY <1>7, <2>2, <3>1 DEF Emit
      <4>3. at' \in [Workers -> 0 .. LastStep]
        BY <1>7, <2>2, <3>1 DEF Emit
      <4>4. lines' \in 0 .. 1 /\ ckpt' \in 0 .. LastStep /\ kills' \in 0 .. MaxKills
        BY <1>7, <2>2, <3>1 DEF Emit
      <4>5. config' \in BOOLEAN /\ done' \in BOOLEAN /\ store' \in {"file", "object"} \cap Stores
        BY <1>7, <2>2, <3>1 DEF Emit
      <4>6. QED
        BY <4>1, <4>2, <4>3, <4>4, <4>5
    <3>6. OneWorkerInv' /\ ManifestInv'
      BY <1>7, <2>2, <3>1 DEF Emit, OneWorkerInv, ManifestInv, Busy, Listing
    <3>3. 1 .. at'[w] \subseteq events'
      BY <3>1 DEF RecordsInv
    <3>4. RecordsInv'
      BY <1>7, <2>2, <3>1, <3>3 DEF Emit, RecordsInv
    <3>5. ProgressInv'
      BY <1>7, <2>2, <3>1 DEF Emit, ProgressInv
    <3>7. QED
      BY <3>2, <3>6, <3>4, <3>5
  <2>3. QED
    BY <2>1, <2>2
<1>8. ASSUME NEW w \in Workers, Save(w) PROVE Kept
  <2>1. Typed'
    <3>1. pc' \in [Workers -> Phases] /\ outcome' \in [Workers -> {"none", "skipped", "finished", "failed", "preempted"}]
      BY <1>8 DEF Save
    <3>2. torn' \subseteq Files /\ events' \subseteq 1 .. LastStep
      BY <1>8 DEF Save
    <3>3. at' \in [Workers -> 0 .. LastStep]
      BY <1>8 DEF Save
    <3>4. lines' \in 0 .. 1 /\ ckpt' \in 0 .. LastStep /\ kills' \in 0 .. MaxKills
      BY <1>8 DEF Save
    <3>5. config' \in BOOLEAN /\ done' \in BOOLEAN /\ store' \in {"file", "object"} \cap Stores
      BY <1>8 DEF Save
    <3>6. QED
      BY <3>1, <3>2, <3>3, <3>4, <3>5
  <2>2. OneWorkerInv'
    BY <1>8 DEF Save, OneWorkerInv, Busy
  <2>3. ManifestInv'
    BY <1>8 DEF Save, ManifestInv, OneWorkerInv, Listing, Busy
  <2>4. RecordsInv'
    BY <1>8 DEF Save, RecordsInv
  <2>5. ProgressInv'
    BY <1>8 DEF Save, ProgressInv
  <2>6. QED
    BY <2>1, <2>2, <2>3, <2>4, <2>5
<1>9. ASSUME NEW w \in Workers, FillCheckpoint(w) PROVE Kept
  BY <1>9 DEF FillCheckpoint, OneWorkerInv, ManifestInv, RecordsInv, ProgressInv, Busy, Listing
<1>10. ASSUME NEW w \in Workers, Finish(w) PROVE Kept
  <2>1. Typed'
    BY <1>10 DEF Finish
  <2>2. OneWorkerInv'
    BY <1>10 DEF Finish, OneWorkerInv, Busy
  <2>3. ManifestInv'
    BY <1>10 DEF Finish, ManifestInv, OneWorkerInv, Listing, Busy
  <2>4. RecordsInv'
    BY <1>10 DEF Finish, RecordsInv
  <2>5. ProgressInv'
    BY <1>10 DEF Finish, ProgressInv
  <2>6. QED
    BY <2>1, <2>2, <2>3, <2>4, <2>5
<1>11. ASSUME NEW w \in Workers, FillDone(w) PROVE Kept
  BY <1>11 DEF FillDone, OneWorkerInv, ManifestInv, RecordsInv, ProgressInv, Busy, Listing
<1>12. ASSUME NEW w \in Workers, RunFnRaises(w) \/ Preempt(w) PROVE Kept
  <2>1. Typed'
    <3>1. pc' \in [Workers -> Phases] /\ outcome' \in [Workers -> {"none", "skipped", "finished", "failed", "preempted"}]
      BY <1>12 DEF RunFnRaises, Preempt, storeVars
    <3>2. torn' \subseteq Files /\ events' \subseteq 1 .. LastStep
      BY <1>12 DEF RunFnRaises, Preempt, storeVars
    <3>3. at' \in [Workers -> 0 .. LastStep]
      BY <1>12 DEF RunFnRaises, Preempt, storeVars
    <3>4. lines' \in 0 .. 1 /\ ckpt' \in 0 .. LastStep /\ kills' \in 0 .. MaxKills
      BY <1>12 DEF RunFnRaises, Preempt, storeVars
    <3>5. config' \in BOOLEAN /\ done' \in BOOLEAN /\ store' \in {"file", "object"} \cap Stores
      BY <1>12 DEF RunFnRaises, Preempt, storeVars
    <3>6. QED
      BY <3>1, <3>2, <3>3, <3>4, <3>5
  <2>2. OneWorkerInv'
    BY <1>12 DEF RunFnRaises, Preempt, storeVars, OneWorkerInv, Busy
  <2>3. ManifestInv'
    BY <1>12 DEF RunFnRaises, Preempt, storeVars, ManifestInv, OneWorkerInv, Listing, Busy
  <2>4. RecordsInv'
    BY <1>12 DEF RunFnRaises, Preempt, storeVars, RecordsInv
  <2>5. ProgressInv'
    BY <1>12 DEF RunFnRaises, Preempt, storeVars, ProgressInv
  <2>6. QED
    BY <2>1, <2>2, <2>3, <2>4, <2>5
<1>13. CASE UNCHANGED vars
  BY <1>13 DEF vars, workerVars, storeVars, OneWorkerInv, ManifestInv, RecordsInv, ProgressInv, Busy, Listing
<1>14. QED
  BY <1>1, <1>2, <1>3, <1>4, <1>5, <1>6, <1>7, <1>8, <1>9, <1>10, <1>11, <1>12, <1>13
     DEF Next, WorkerStep

-----------------------------------------------------------------------------
(* The theorems                                                            *)

\* Every reachable state of a run satisfies the invariant.
THEOREM CampaignInvariant == Spec => []CInv
<1>1. CInv /\ [Next]_vars => CInv'
  BY StepKeepsCInv
<1>2. QED
  BY InitEstablishesCInv, <1>1, PTL DEF Spec

\* The state of a run stays well-typed: no step past the last one, no record of
\* a step there is not.
THEOREM CampaignTypeCorrect == Spec => []CampaignTypeOK
<1>1. Cardinality(Workers) \in Nat /\ Cardinality(Workers) # 0
  BY CampaignAssumption, FS_CardinalityType, FS_EmptySet
<1>2. CInv => CampaignTypeOK
  BY <1>1 DEF CInv, Typed, CampaignTypeOK
<1>3. QED
  BY <1>2, CampaignInvariant, PTL

\* DONE is never written over a missing record, however often the run was
\* killed between a record and its checkpoint, or between two workers.
THEOREM FinishedIsRecorded == Spec => []DoneIsFullyRecorded
<1>1. CInv => DoneIsFullyRecorded
  BY DEF CInv, Typed, RecordsInv, DoneIsFullyRecorded
<1>2. QED
  BY <1>1, CampaignInvariant, PTL

\* Nobody skips a run that is not done.
THEOREM SkippedIsDone == Spec => []SkipMeansDone
<1>1. CInv => SkipMeansDone
  BY DEF CInv, RecordsInv, SkipMeansDone
<1>2. QED
  BY <1>1, CampaignInvariant, PTL

\* A run is in the manifest once at most, for any number of relaunches.
THEOREM ListedOnce == Spec => []OneManifestLine
<1>1. CInv => OneManifestLine
  BY DEF CInv, Typed, OneManifestLine
<1>2. QED
  BY <1>1, CampaignInvariant, PTL

\* On a file base no checkpoint is ever replaced by an earlier one.
THEOREM NoProgressLost == Spec => ProgressIsKept
<1>1. CInv /\ [Next]_vars => [store = "file" => ckpt' >= ckpt]_vars
  <2>1. SUFFICES ASSUME CInv, [Next]_vars, store = "file" PROVE ckpt' >= ckpt
    OBVIOUS
  <2> USE DEF CInv, Typed
  <2>2. ASSUME NEW w \in Workers, FillCheckpoint(w) PROVE ckpt' >= ckpt
    BY <2>1, <2>2 DEF FillCheckpoint, ProgressInv
  <2>3. ASSUME NEW w \in Workers, Save(w) PROVE ckpt' = ckpt
    BY <2>1, <2>3 DEF Save
  <2>4. ASSUME NEW w \in Workers, Begin(w) \/ Register(w) \/ FillConfig(w) \/ List(w)
                                  \/ CheckComplete(w) \/ Load(w)
        PROVE  ckpt' = ckpt
    BY <2>4 DEF Begin, Register, FillConfig, List, CheckComplete, Load, storeVars
  <2>5. ASSUME NEW w \in Workers, Emit(w) \/ Finish(w) \/ FillDone(w) \/ RunFnRaises(w) \/ Preempt(w)
        PROVE  ckpt' = ckpt
    BY <2>5 DEF Emit, Finish, FillDone, RunFnRaises, Preempt, storeVars
  <2>6. CASE UNCHANGED vars
    BY <2>1, <2>6 DEF vars, storeVars
  <2>7. QED
    BY <2>1, <2>2, <2>3, <2>4, <2>5, <2>6 DEF Next, WorkerStep
<1>2. QED
  BY <1>1, CampaignInvariant, PTL DEF Spec, ProgressIsKept

=============================================================================
