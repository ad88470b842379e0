--------------------------------- MODULE Farm ---------------------------------
(***************************************************************************)
(* FarmCampaign: the policy over one campaign (plan, launch gate, execute, *)
(* verify, ingest) and the cut-flow it keeps, in which every leg that is   *)
(* lost on the way is to leave a reason.  A process runs one call at a     *)
(* time; execute_fleet takes the records of its dispatch one by one.       *)
(*                                                                         *)
(* A leg stands for its config.  A shipment is malformed, tampered with    *)
(* (verify_shipment objects), not hashable as a whole, or one of Contents. *)
(* Only what JSON can hold is ever in a DONE.json: Recoverable.            *)
(***************************************************************************)
EXTENDS Naturals, FiniteSets

CONSTANTS
  Rids,       \* the legs' ids
  Contents,   \* the contents a verified shipment can have
  Defects,    \* the ways in which a shipment may be no good
  None,       \* nothing there
  MaxFailures, \* bound on restarts of the process and calls that raise
  MaxCalls     \* bound on the calls of one process

ASSUME FarmAssumption ==
  /\ None \notin Contents
  /\ Contents \cap {"malformed", "tampered", "unhashable", "torn"} = {}
  /\ Defects \subseteq {"malformed", "tampered", "unhashable"}
  /\ MaxFailures \in Nat /\ MaxCalls \in Nat

VARIABLES
  cf,       \* the cut-flow: [rows |-> ..., reasons |-> ...]
  configs,  \* the legs that passed preflight in the current plan
  gated,    \* did gate_launch pass?
  cleared,  \* (history) the legs it passed for
  ingested, \* rid -> the content ingested by this process
  done,     \* DONE.json of each leg in the registry; it survives the process
  call,     \* "none", or "fleet" inside execute_fleet
  out,      \* what the current or last call returns for each leg
  failures, \* restarts and exceptions so far
  calls     \* calls made by this process

farmVars == <<cf, configs, gated, cleared, ingested, done, call, out, failures, calls>>

Shipments == Contents \cup Defects
Recoverable == Shipments \ {"unhashable"}
Statuses  == {"none", "LOST", "REJECTED", "REGISTERED", "SKIP_OK", "CONFLICT"}

\* Rows of the cut-flow: a leg's own, and those made up for a rejected second
\* content, a duplicate record and a record nobody planned.
Rows == Rids \X {"leg", "conflict", "dup", "unplanned"}
Leg(r) == <<r, "leg">>

planned == 1
launchGate == 2
completed == 3
shipped == 4
verified == 5
registered == 6
Stages == planned .. registered
Unknown == [i \in Stages |-> "none"]

ASSUME RowAssumption == None \notin [Stages -> {"none", "ok", "no"}]

FarmTypeOK ==
  /\ cf.rows \in [Rows -> [Stages -> {"none", "ok", "no"}] \cup {None}]
  /\ \A x \in cf.reasons :
       x \in Rows \X Stages /\ cf.rows[x[1]] # None /\ cf.rows[x[1]][x[2]] = "no"
  /\ configs \subseteq Rids /\ cleared \subseteq Rids /\ gated \in BOOLEAN
  /\ ingested \in [Rids -> Contents \cup {None}]
  /\ done \in [Rids -> Recoverable \cup {None, "torn"}]
  /\ call \in {"none", "fleet"}
  /\ out \in [Rids -> Statuses]
  /\ failures \in 0 .. MaxFailures /\ calls \in 0 .. MaxCalls

-----------------------------------------------------------------------------
(* CutFlow                                                                 *)

\* Mutant: a leg entered again keeps its old reasons.
Enter_KeepsReasons(c, row) ==
  [rows |-> [c.rows EXCEPT ![row] = Unknown], reasons |-> c.reasons]

Enter(c, row) ==
  [rows    |-> [c.rows EXCEPT ![row] = Unknown],
   reasons |-> {x \in c.reasons : x[1] # row}]

Entered(c, row) == IF c.rows[row] = None THEN Enter(c, row) ELSE c

\* A drop forces every later stage.
Drop(c, row, stage) ==
  LET e == Entered(c, row)
  IN  [rows    |-> [e.rows EXCEPT ![row] =
                      [i \in Stages |-> IF i < stage THEN e.rows[row][i] ELSE "no"]],
       reasons |-> e.reasons \cup {<<row, stage>>}]

\* Mutant: the drop's reason goes, the stages it forced stay.
Pass_KeepsForced(c, row, stage) ==
  LET e == Entered(c, row)
  IN  [rows |-> [e.rows EXCEPT ![row][stage] = "ok"], reasons |-> e.reasons \ {<<row, stage>>}]

\* A stage passed after all gives back what its drop had forced, up to the next
\* stage with a drop of its own.
Pass(c, row, stage) ==
  LET e == Entered(c, row)
      why == e.reasons \ {<<row, stage>>}
      Forced(i) == /\ e.rows[row][i] = "no"
                   /\ \A k \in stage + 1 .. i : <<row, k>> \notin why
  IN  [rows    |-> [e.rows EXCEPT ![row] =
                      [i \in Stages |-> IF i = stage THEN "ok"
                                        ELSE IF i > stage /\ Forced(i) THEN "none"
                                        ELSE e.rows[row][i]]],
       reasons |-> why]

\* The stages from..to passed one after the other.
PassUpTo(c, row, from, to) ==
  LET At(d, i) == IF from <= i /\ i <= to THEN Pass(d, row, i) ELSE d
  IN  At(At(At(At(At(At(c, planned), launchGate), completed), shipped), verified), registered)

-----------------------------------------------------------------------------
(* plan and gate_launch                                                    *)

Nobody == [r \in Rids |-> "none"]

NextCall == calls < MaxCalls /\ calls' = calls + 1

\* Mutant: the gate passed by an earlier plan still counts.
Regate_Kept == gated

\* A new plan must be gated again.
Regate == FALSE

\* Every leg of a plan enters, and the ones that fail preflight are dropped; the
\* one at which plan raises may be left without a mark.
Planned(legs, invalid, unmarked) ==
  LET own == {Leg(r) : r \in legs}
  IN  [rows |-> [row \in Rows |->
          IF row \notin own THEN cf.rows[row]
          ELSE IF row[1] \in unmarked THEN Unknown
          ELSE IF row[1] \in invalid THEN [i \in Stages |-> "no"]
          ELSE [Unknown EXCEPT ![planned] = "ok"]],
       reasons |-> {x \in cf.reasons : x[1] \notin own}
                     \cup {<<Leg(r), planned>> : r \in (legs \cap invalid) \ unmarked}]

Plan ==
  /\ call = "none" /\ NextCall
  /\ \E legs \in SUBSET Rids \ {{}} : \E invalid \in SUBSET legs :
       /\ configs' = legs \ invalid
       /\ cf' = Planned(legs, invalid, {})
  /\ gated' = Regate
  /\ out' = Nobody
  /\ UNCHANGED <<cleared, ingested, done, call, failures>>

\* Duplicate rids raise before a leg enters, preflight and config_factory at
\* some leg; the gate is closed all the same, the configs are the old ones.
PlanRaises ==
  /\ call = "none" /\ NextCall
  /\ failures < MaxFailures /\ failures' = failures + 1
  /\ \E legs \in SUBSET Rids : \E invalid \in SUBSET legs :
       \E unmarked \in {{}} \cup {{r} : r \in legs} :
         cf' = Planned(legs, invalid, unmarked)
  /\ gated' = Regate /\ out' = Nobody
  /\ UNCHANGED <<configs, cleared, ingested, done, call>>

\* launch_gate compares the two sets of config hashes.
LaunchGate(launched) == launched = configs

\* gate_launch: what is about to be launched is what was planned, or nothing is.
GateLaunch(launched) ==
  /\ call = "none" /\ NextCall
  /\ LET ok == LaunchGate(launched)
         after == [r \in configs |-> IF ok THEN Pass(cf, Leg(r), launchGate)
                                     ELSE Drop(cf, Leg(r), launchGate)]
     IN  /\ cf' = [rows |-> [row \in Rows |-> IF row \in {Leg(r) : r \in configs}
                               THEN after[row[1]].rows[row] ELSE cf.rows[row]],
                   reasons |-> IF ok THEN cf.reasons \ {<<Leg(r), launchGate>> : r \in configs}
                               ELSE cf.reasons \cup {<<Leg(r), launchGate>> : r \in configs}]
         /\ gated' = ok
         /\ cleared' = IF ok THEN configs ELSE cleared
  /\ out' = Nobody
  /\ UNCHANGED <<configs, ingested, done, call, failures>>

-----------------------------------------------------------------------------
(* _govern, _ingest and _on_skip: one leg's result, over the cut-flow c     *)

\* A call for one leg reports on it alone.
Report(r, status) == out' = [IF call = "fleet" THEN out ELSE Nobody EXCEPT ![r] = status]

Lost(r) ==
  /\ cf' = Drop(cf, Leg(r), completed)
  /\ Report(r, "LOST")
  /\ UNCHANGED <<ingested, call, failures>>

Rejected(r, shipment) ==
  /\ shipment \notin Contents
  /\ LET stage == CASE shipment = "malformed" -> shipped
                    [] shipment = "tampered" -> verified
                    [] shipment = "unhashable" -> registered
     IN  cf' = Drop(PassUpTo(cf, Leg(r), completed, stage - 1), Leg(r), stage)
  /\ Report(r, "REJECTED")
  /\ UNCHANGED <<ingested, call, failures>>

\* Mutant: the second content replaces the first.
Reattempt_Overwrites(r, content) ==
  /\ ingested[r] \in Contents
  /\ cf' = PassUpTo(cf, Leg(r), completed, registered)
  /\ Report(r, "REGISTERED")
  /\ ingested' = [ingested EXCEPT ![r] = content]
  /\ UNCHANGED <<call, failures>>

\* Already in the corpus: the same content is no news, another one a conflict
\* with a row of its own.
Reattempt(r, content) ==
  /\ ingested[r] \in Contents
  /\ LET affirmed == PassUpTo(cf, Leg(r), completed, registered)
         row == <<r, "conflict">>
     IN  IF ingested[r] = content
           THEN cf' = affirmed /\ Report(r, "SKIP_OK")
           ELSE /\ cf' = Drop(PassUpTo(Enter(affirmed, row), row, planned, verified), row, registered)
                /\ Report(r, "CONFLICT")
  /\ UNCHANGED <<ingested, call, failures>>

Ingest(r, content) ==
  /\ ingested[r] = None
  /\ cf' = PassUpTo(cf, Leg(r), completed, registered)
  /\ ingested' = [ingested EXCEPT ![r] = content]
  /\ Report(r, "REGISTERED")
  /\ UNCHANGED <<call, failures>>

\* The caller's ingest raises out of whatever call this is.
IngestRaises(r) ==
  /\ ingested[r] = None
  /\ failures < MaxFailures /\ failures' = failures + 1
  /\ cf' = PassUpTo(cf, Leg(r), completed, verified)
  /\ call' = "none"
  /\ out' = Nobody
  /\ UNCHANGED ingested

Govern(r, shipment) ==
  \/ Rejected(r, shipment)
  \/ shipment \in Contents /\ (Reattempt(r, shipment) \/ Ingest(r, shipment) \/ IngestRaises(r))

\* A torn DONE.json raises out of the call, too.
TornRaises ==
  /\ failures < MaxFailures /\ failures' = failures + 1
  /\ call' = "none"
  /\ out' = Nobody
  /\ UNCHANGED <<cf, ingested>>

\* _on_skip: a leg this process ingested is affirmed; otherwise the result is
\* recovered from DONE.json and governed like any other.
OnSkip(r) ==
  \/ /\ ingested[r] # None
     /\ cf' = PassUpTo(cf, Leg(r), completed, registered)
     /\ Report(r, "SKIP_OK")
     /\ UNCHANGED <<ingested, call, failures>>
  \/ ingested[r] = None /\ done[r] \in Recoverable /\ Govern(r, done[r])
  \/ ingested[r] = None /\ done[r] = "torn" /\ TornRaises
  \/ ingested[r] = None /\ done[r] = None /\ Lost(r)

-----------------------------------------------------------------------------
(* execute_leg                                                             *)

\* The leg runs in process, planned or not and gated or not: it raises (or what
\* it returns cannot be written), or its result goes to DONE.json and is
\* governed; a leg with a DONE.json is skipped.
ExecuteLeg(r) ==
  /\ call = "none" /\ NextCall
  /\ \/ done[r] = None /\ Lost(r) /\ UNCHANGED done
     \/ /\ done[r] = None
        /\ \E shipment \in Recoverable :
             done' = [done EXCEPT ![r] = shipment] /\ Govern(r, shipment)
     \/ done[r] # None /\ OnSkip(r) /\ UNCHANGED done
  /\ UNCHANGED <<configs, gated, cleared>>

\* The leg runs elsewhere, through the caller's thunk, which answers as it likes.
ExecuteElsewhere(r) ==
  /\ call = "none" /\ NextCall
  /\ \/ Lost(r)
     \/ OnSkip(r)
     \/ \E shipment \in Shipments : Govern(r, shipment)
  /\ UNCHANGED <<configs, gated, cleared, done>>

-----------------------------------------------------------------------------
(* execute_fleet                                                           *)

StartFleet ==
  /\ call = "none" /\ gated /\ NextCall
  /\ call' = "fleet"
  /\ out' = Nobody
  /\ UNCHANGED <<cf, configs, gated, cleared, ingested, done, failures>>

\* The first record for a leg: skipped, without a result, or with one.
FleetRecord(r) ==
  /\ call = "fleet" /\ r \in configs /\ out[r] = "none"
  /\ OnSkip(r) \/ Lost(r) \/ \E shipment \in Shipments : Govern(r, shipment)
  /\ UNCHANGED <<configs, gated, cleared, done, calls>>

\* A second record for a leg is typed in a row of its own.
FleetDuplicate(r) ==
  /\ call = "fleet" /\ r \in configs /\ out[r] # "none"
  /\ cf' = Drop(Enter(cf, <<r, "dup">>), <<r, "dup">>, completed)
  /\ UNCHANGED <<configs, gated, cleared, ingested, done, call, out, failures, calls>>

\* Mutant: the row of an unplanned record may be that of a planned leg.
UnplannedRow_Collides(r) == Leg(r)

\* A record nobody planned, whose run name may even be a planned leg's id or
\* that of another such record.
UnplannedRow(r) == IF r \in configs \/ out[r] # "none" THEN <<r, "unplanned">> ELSE Leg(r)

FleetUnplanned(r) ==
  /\ call = "fleet"
  /\ LET row == UnplannedRow(r) IN cf' = Drop(Enter(cf, row), row, completed)
  /\ out' = IF r \in configs THEN out ELSE [out EXCEPT ![r] = "REJECTED"]
  /\ UNCHANGED <<configs, gated, cleared, ingested, done, call, failures, calls>>

Unanswered == {r \in configs : out[r] = "none"}

\* Mutant: nobody looks for the legs the dispatch left out.
FleetReturns_NoReconcile ==
  /\ call = "fleet"
  /\ call' = "none"
  /\ UNCHANGED <<cf, configs, gated, cleared, ingested, done, out, failures, calls>>

\* The dispatch is through: a planned leg it never reported is lost.
FleetReturns ==
  /\ call = "fleet"
  /\ cf' = [rows |-> [row \in Rows |-> IF row \in {Leg(r) : r \in Unanswered}
                        THEN Drop(cf, row, completed).rows[row] ELSE cf.rows[row]],
            reasons |-> cf.reasons \cup {<<Leg(r), completed>> : r \in Unanswered}]
  /\ out' = [r \in Rids |-> IF r \in Unanswered THEN "LOST" ELSE out[r]]
  /\ call' = "none"
  /\ UNCHANGED <<configs, gated, cleared, ingested, done, failures, calls>>

DispatchRaises ==
  /\ call = "fleet"
  /\ failures < MaxFailures /\ failures' = failures + 1
  /\ call' = "none"
  /\ out' = Nobody
  /\ UNCHANGED <<cf, configs, gated, cleared, ingested, done, calls>>

-----------------------------------------------------------------------------
Fresh == [rows |-> [row \in Rows |-> None], reasons |-> {}]

\* The process dies and is started again: only the registry is left, in which a
\* result may have been written that nobody governed, or half of one.
Restart ==
  /\ failures < MaxFailures /\ failures' = failures + 1
  /\ cf' = Fresh /\ configs' = {} /\ gated' = FALSE /\ cleared' = {}
  /\ ingested' = [r \in Rids |-> None] /\ call' = "none" /\ out' = Nobody /\ calls' = 0
  /\ \/ UNCHANGED done
     \/ \E r \in Rids, d \in Recoverable \cup {"torn"} :
          done[r] = None /\ done' = [done EXCEPT ![r] = d]

Init ==
  /\ cf = Fresh /\ configs = {} /\ gated = FALSE /\ cleared = {}
  /\ ingested = [r \in Rids |-> None] /\ done = [r \in Rids |-> None]
  /\ call = "none" /\ out = Nobody /\ failures = 0 /\ calls = 0

Next ==
  \/ Plan \/ PlanRaises \/ \E launched \in SUBSET Rids : GateLaunch(launched)
  \/ \E r \in Rids : ExecuteLeg(r) \/ ExecuteElsewhere(r)
  \/ StartFleet \/ FleetReturns \/ DispatchRaises
  \/ \E r \in Rids : FleetRecord(r) \/ FleetDuplicate(r) \/ FleetUnplanned(r)
  \/ Restart

Spec == Init /\ [][Next]_farmVars

-----------------------------------------------------------------------------
(* Properties                                                              *)

\* Silent attrition is impossible: a stage a leg did not survive, however often
\* it was lost, recovered and run again, has a reason recorded at it or before
\* it (the docstring of CutFlow).
EveryDropHasReason ==
  \A row \in Rows : cf.rows[row] # None =>
    \A i \in Stages : cf.rows[row][i] = "no" => \E k \in 1 .. i : <<row, k>> \in cf.reasons

\* What a call says of a leg is what the cut-flow and the corpus say, to the end
\* of the call: no duplicate, no unplanned record and no sibling disturbs it.
ReportMatchesCutFlow ==
  \A r \in Rids :
    /\ out[r] \in {"REGISTERED", "SKIP_OK", "CONFLICT"} =>
         cf.rows[Leg(r)][registered] = "ok" /\ ingested[r] # None
    /\ out[r] \in {"LOST", "REJECTED"} =>
         cf.rows[Leg(r)][registered] = "no"

\* execute_fleet answers for every leg it dispatched.
FleetAnswersForAll ==
  [][call = "fleet" /\ call' = "none" /\ failures' = failures
       => \A r \in configs : out'[r] # "none"]_farmVars

\* Nothing is dispatched but exactly the legs that passed the gate, whatever was
\* planned, gated and planned again before (execute_fleet's docstring).
OnlyClearedLegsAreDispatched == call = "fleet" => configs = cleared

\* As long as the process lives, the content first ingested for a leg stays.
FirstContentStays ==
  [][\A r \in Rids : ingested[r] # None => ingested'[r] = ingested[r] \/ cf' = Fresh]_farmVars

=============================================================================
