------------------------------- MODULE Campaign -------------------------------
(***************************************************************************)
(* One run of a campaign: execute_config, on the workers that pick it up   *)
(* one after another or at once, over FileRunRegistry + JsonlEventSink or  *)
(* their object-store counterparts.  A worker can be preempted (killed)    *)
(* between any two writes, and half way through a file.                    *)
(*                                                                         *)
(* The physics is a loop over steps: emit the step's record, checkpoint.   *)
(* A put to the object store is atomic; write_text and np.savez truncate   *)
(* the file in place and then fill it.                                     *)
(***************************************************************************)
EXTENDS Naturals, FiniteSets

CONSTANTS
  Workers,   \* the processes that execute the config
  LastStep,  \* steps of the run
  Stores,    \* subset of {"file", "object"}
  MaxKills   \* bound on the number of preemptions

ASSUME CampaignAssumption ==
  /\ IsFiniteSet(Workers) /\ Workers # {}
  /\ LastStep \in Nat \ {0} /\ MaxKills \in Nat
  /\ Stores \subseteq {"file", "object"}

VARIABLES
  store,    \* the backend of this campaign
  pc,       \* where each worker is in execute_config
  at,       \* the step it has reached
  outcome,  \* how its last execute_config ended
  config,   \* config.json exists
  lines,    \* manifest lines (or blobs) of the run
  ckpt,     \* step of the checkpoint, 0 without one
  events,   \* steps whose record is in the sink
  done,     \* DONE.json exists
  torn,     \* files that exist and are incomplete
  kills     \* preemptions so far

workerVars == <<pc, at, outcome>>
storeVars  == <<config, lines, ckpt, events, done, torn>>
vars       == <<store, workerVars, storeVars, kills>>

Files == {"config", "checkpoint", "DONE"}
Phases == {"idle", "registering", "writing_config", "listing", "checking", "loading", "emitting",
           "saving", "writing_checkpoint", "finishing", "writing_DONE"}

CampaignTypeOK ==
  /\ store \in Stores
  /\ pc \in [Workers -> Phases]
  /\ at \in [Workers -> 0 .. LastStep]
  /\ outcome \in [Workers -> {"none", "skipped", "finished", "failed", "preempted"}]
  /\ config \in BOOLEAN /\ done \in BOOLEAN
  /\ lines \in 0 .. Cardinality(Workers)
  /\ ckpt \in 0 .. LastStep
  /\ events \subseteq 1 .. LastStep
  /\ torn \subseteq Files
  /\ kills \in 0 .. MaxKills

-----------------------------------------------------------------------------
Go(w, phase) == pc' = [pc EXCEPT ![w] = phase]
Return(w, how) == Go(w, "idle") /\ outcome' = [outcome EXCEPT ![w] = how]

\* Writing a file in place takes two steps, a put takes one.
Open(w, file, phase) == torn' = torn \cup {file} /\ Go(w, phase)
Filled(file) == torn' = torn \ {file}

\* Mutant: a second worker gets the run while the first may still be at it.
Begin_NoLook(w) ==
  /\ pc[w] = "idle" /\ outcome[w] \in {"none", "preempted", "failed"}
  /\ Go(w, "registering")
  /\ at' = [at EXCEPT ![w] = 0]
  /\ outcome' = [outcome EXCEPT ![w] = "none"]
  /\ UNCHANGED <<store, storeVars, kills>>

\* An executor hands the config to a worker.  On a file base only one worker has
\* it at a time: ProviderExecutor makes sure of it before it reattaches.
Begin(w) ==
  /\ pc[w] = "idle" /\ outcome[w] \in {"none", "preempted", "failed"}
  /\ store = "file" => \A v \in Workers : pc[v] = "idle"
  /\ Go(w, "registering")
  /\ at' = [at EXCEPT ![w] = 0]
  /\ outcome' = [outcome EXCEPT ![w] = "none"]
  /\ UNCHANGED <<store, storeVars, kills>>

\* Mutant: a relaunch registers the run again.
Register_Always(w) ==
  /\ pc[w] = "registering"
  /\ \/ store = "file" /\ config' = TRUE /\ Open(w, "config", "writing_config")
     \/ store = "object" /\ config' = TRUE /\ Go(w, "listing") /\ UNCHANGED torn
  /\ UNCHANGED <<store, at, outcome, lines, ckpt, events, done, kills>>

\* register: config.json unless it exists, and with it the manifest line.
Register(w) ==
  /\ pc[w] = "registering"
  /\ \/ config /\ Go(w, "checking") /\ UNCHANGED <<config, torn>>
     \/ ~config /\ store = "file" /\ config' = TRUE /\ Open(w, "config", "writing_config")
     \/ ~config /\ store = "object" /\ config' = TRUE /\ Go(w, "listing") /\ UNCHANGED torn
  /\ UNCHANGED <<store, at, outcome, lines, ckpt, events, done, kills>>

FillConfig(w) ==
  /\ pc[w] = "writing_config"
  /\ Filled("config") /\ Go(w, "listing")
  /\ UNCHANGED <<store, at, outcome, config, lines, ckpt, events, done, kills>>

\* MANIFEST.jsonl is appended to; the object store has one blob per run.
List(w) ==
  /\ pc[w] = "listing"
  /\ lines' = IF store = "object" THEN 1 ELSE lines + 1
  /\ Go(w, "checking")
  /\ UNCHANGED <<store, at, outcome, config, ckpt, events, done, torn, kills>>

\* Mutant: a run with a checkpoint counts as complete.
CheckComplete_AnyCheckpoint(w) ==
  /\ pc[w] = "checking"
  /\ IF done \/ ckpt = LastStep THEN Return(w, "skipped") ELSE Go(w, "loading") /\ UNCHANGED outcome
  /\ UNCHANGED <<store, at, storeVars, kills>>

\* is_complete: DONE exists, whatever it holds.
CheckComplete(w) ==
  /\ pc[w] = "checking"
  /\ IF done THEN Return(w, "skipped") ELSE Go(w, "loading") /\ UNCHANGED outcome
  /\ UNCHANGED <<store, at, storeVars, kills>>

\* Mutant: the run resumes one step too far.
Load_SkipsStep(w) ==
  /\ pc[w] = "loading"
  /\ IF "checkpoint" \in torn
       THEN Return(w, "failed") /\ UNCHANGED at
       ELSE /\ at' = [at EXCEPT ![w] = IF ckpt \in 1 .. LastStep - 1 THEN ckpt + 1 ELSE ckpt]
            /\ Go(w, "emitting") /\ UNCHANGED outcome
  /\ UNCHANGED <<store, storeVars, kills>>

\* load: a torn checkpoint raises out of execute_config.
Load(w) ==
  /\ pc[w] = "loading"
  /\ IF "checkpoint" \in torn
       THEN Return(w, "failed") /\ UNCHANGED at
       ELSE /\ at' = [at EXCEPT ![w] = ckpt]
            /\ Go(w, "emitting") /\ UNCHANGED outcome
  /\ UNCHANGED <<store, storeVars, kills>>

\* Mutant: one step past the last.
Emit_OneMore(w) ==
  /\ pc[w] = "emitting"
  /\ IF at[w] > LastStep
       THEN Go(w, "finishing") /\ UNCHANGED <<at, events>>
       ELSE /\ at' = [at EXCEPT ![w] = @ + 1]
            /\ events' = events \cup {at[w] + 1}
            /\ Go(w, "saving")
  /\ UNCHANGED <<store, outcome, config, lines, ckpt, done, torn, kills>>

\* The physics: one more step and its record, or the end.
Emit(w) ==
  /\ pc[w] = "emitting"
  /\ IF at[w] = LastStep
       THEN Go(w, "finishing") /\ UNCHANGED <<at, events>>
       ELSE /\ at' = [at EXCEPT ![w] = @ + 1]
            /\ events' = events \cup {at[w] + 1}
            /\ Go(w, "saving")
  /\ UNCHANGED <<store, outcome, config, lines, ckpt, done, torn, kills>>

\* Mutant: a put fills the blob in place.
Save_InPlace(w) ==
  /\ pc[w] = "saving"
  /\ Open(w, "checkpoint", "writing_checkpoint") /\ UNCHANGED ckpt
  /\ UNCHANGED <<store, at, outcome, config, lines, events, done, kills>>

\* ctx.checkpoint: the file is overwritten in place.
Save(w) ==
  /\ pc[w] = "saving"
  /\ \/ store = "object" /\ ckpt' = at[w] /\ Go(w, "emitting") /\ UNCHANGED torn
     \/ store = "file" /\ Open(w, "checkpoint", "writing_checkpoint") /\ UNCHANGED ckpt
  /\ UNCHANGED <<store, at, outcome, config, lines, events, done, kills>>

FillCheckpoint(w) ==
  /\ pc[w] = "writing_checkpoint"
  /\ ckpt' = at[w] /\ Filled("checkpoint") /\ Go(w, "emitting")
  /\ UNCHANGED <<store, at, outcome, config, lines, events, done, kills>>

\* registry.finish, and then the sink is closed.
Finish(w) ==
  /\ pc[w] = "finishing"
  /\ done' = TRUE
  /\ \/ store = "object" /\ Return(w, "finished") /\ UNCHANGED torn
     \/ store = "file" /\ Open(w, "DONE", "writing_DONE") /\ UNCHANGED outcome
  /\ UNCHANGED <<store, at, config, lines, ckpt, events, kills>>

FillDone(w) ==
  /\ pc[w] = "writing_DONE"
  /\ Filled("DONE") /\ Return(w, "finished")
  /\ UNCHANGED <<store, at, config, lines, ckpt, events, done, kills>>

\* The physics raises: no DONE, the sink is flushed.
RunFnRaises(w) ==
  /\ pc[w] \in {"emitting", "saving"}
  /\ kills < MaxKills /\ kills' = kills + 1
  /\ Return(w, "failed")
  /\ UNCHANGED <<store, at, storeVars>>

\* Preemption: whatever was open stays torn.
Preempt(w) ==
  /\ pc[w] # "idle"
  /\ kills < MaxKills /\ kills' = kills + 1
  /\ Return(w, "preempted")
  /\ UNCHANGED <<store, at, storeVars>>

-----------------------------------------------------------------------------
Init ==
  /\ store \in Stores
  /\ pc = [w \in Workers |-> "idle"]
  /\ at = [w \in Workers |-> 0]
  /\ outcome = [w \in Workers |-> "none"]
  /\ config = FALSE /\ lines = 0 /\ ckpt = 0 /\ events = {} /\ done = FALSE
  /\ torn = {} /\ kills = 0

WorkerStep(w) ==
  \/ Begin(w) \/ Register(w) \/ FillConfig(w) \/ List(w) \/ CheckComplete(w) \/ Load(w)
  \/ Emit(w) \/ Save(w) \/ FillCheckpoint(w) \/ Finish(w) \/ FillDone(w)

Next == \E w \in Workers : WorkerStep(w) \/ RunFnRaises(w) \/ Preempt(w)

Spec == Init /\ [][Next]_vars

\* The executor hands the config out again after a preemption, and a worker that
\* is not killed keeps going.
FairSpec == Spec /\ \A w \in Workers : WF_vars(WorkerStep(w))

-----------------------------------------------------------------------------
(* Properties                                                              *)

\* A finished run has the record of every one of its steps, however often it was
\* killed and whichever worker's checkpoint it resumed from (driver, mechanism C).
DoneIsFullyRecorded == done => events = 1 .. LastStep

\* A worker that skips the run skips one that is done (RunRegistry.is_complete).
SkipMeansDone == \A w \in Workers : outcome[w] = "skipped" => done

\* However often the run is relaunched, it is in the manifest once.
OneManifestLine == lines <= 1

\* With one worker at a time no checkpoint is replaced by an earlier one.
ProgressIsKept == [][store = "file" => ckpt' >= ckpt]_vars

\* On the object store a preempted run is finished in the end.
ObjectRunFinishes == store = "object" => <>done

\* A preempted run resumes and is finished in the end, on any backend (the
\* driver's docstring, the registry protocol).
PreemptedRunFinishes == <>done

=============================================================================
