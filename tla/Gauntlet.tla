------------------------------- MODULE Gauntlet -------------------------------
(***************************************************************************)
(* The launch gauntlet: the checks that cost nothing, run before anything  *)
(* is rented.  What is wrong with a launch is a set of facts; a check      *)
(* looks for its facts in stages and reports the first stage it finds any  *)
(* of, so what a later stage would find stays hidden until the next pass.  *)
(*                                                                         *)
(* The operator assembles a list of checks, runs it, mends what blocks and *)
(* runs it again.  Meanwhile the world moves: a fact may come true after   *)
(* its check has passed.                                                   *)
(***************************************************************************)
EXTENDS Naturals, Sequences, FiniteSets

CONSTANTS
  World,      \* the facts that may come true
  MaxFacts,   \* bound on how much is wrong at one time
  MaxBypass   \* bound on the checks an operator leaves out or skips at first

-----------------------------------------------------------------------------
(* The checks and what they look for                                       *)

StandardChecks ==
  << "ssh_key_present", "out_dir_writable", "provider_capable", "payload_closed",
     "resume_markers_intended", "ssh_key_registered", "offers_available",
     "remote_env_pinned", "cap_clears_worst_case" >>

RegistryChecks ==
  << "out_dir_writable", "runfn_importable", "registry_markers_intended" >>

Elements(s) == {s[i] : i \in DOMAIN s}

Checks == Elements(StandardChecks) \cup Elements(RegistryChecks)

SshKeyPresent    == << {"key_absent"}, {"key_exposed"}, {"pub_absent"} >>
OutDirWritable   == << {"dir_unwritable"} >>
RemoteEnvPinned  == << {"env_missing"} >>
CapClearsWorstCase    == << {"cap_low"} >>
ResumeMarkersIntended == << {"marker_present", "marker_unset"} >>
RunFnImportable  == << {"runfn_stale"} >>
SshKeyRegistered == << {"pub_absent"}, {"no_lister"}, {"api_down"}, {"unregistered"} >>
OffersAvailable  == << {"api_down"}, {"no_capacity"} >>
ProviderCapable  == << {"method_missing"}, {"no_dead_reason"} >>

\* validate_flat stages nothing when a file is amiss; a probe or a startup that
\* hangs raises, and what the others found is lost with it.
PayloadClosed ==
  << {"missing_file", "name_collision"}, {"hangs"}, {"import", "startup", "mismatch"} >>

RegistryMarkers ==
  << {"limit_zero"}, {"other_base"}, {"registry_raises"},
     {"run_complete", "done_past_limit"} >>

\* What a check looks for, in the order in which it returns.
Stages == [k \in Checks |->
  CASE k = "ssh_key_present"           -> SshKeyPresent
    [] k = "out_dir_writable"          -> OutDirWritable
    [] k = "provider_capable"          -> ProviderCapable
    [] k = "payload_closed"            -> PayloadClosed
    [] k = "resume_markers_intended"   -> ResumeMarkersIntended
    [] k = "ssh_key_registered"        -> SshKeyRegistered
    [] k = "offers_available"          -> OffersAvailable
    [] k = "remote_env_pinned"         -> RemoteEnvPinned
    [] k = "cap_clears_worst_case"     -> CapClearsWorstCase
    [] k = "runfn_importable"          -> RunFnImportable
    [] k = "registry_markers_intended" -> RegistryMarkers]

LooksFor == [k \in Checks |-> UNION Elements(Stages[k])]

Facts == UNION {LooksFor[k] : k \in Checks}

\* Reported, without failing the check.
Notes == {"no_dead_reason", "done_past_limit"}

\* Failures a human may accept (fatal=False).
Warnings == {"marker_present", "marker_unset", "cap_low", "run_complete"}

ASSUME GauntletAssumption == World \subseteq Facts /\ MaxFacts \in Nat /\ MaxBypass \in Nat

Fatal == Facts \ (Notes \cup Warnings)

\* A key that is absent has no mode; a startup that fails prints no result.
Possible(D) ==
  /\ Cardinality(D) <= MaxFacts
  /\ ~ {"key_absent", "key_exposed"} \subseteq D
  /\ ~ {"startup", "mismatch"} \subseteq D

VARIABLES
  phase,   \* where the operator is
  list,    \* the checks of the path launched
  dropped, \* those standard_gauntlet or registry_gauntlet is told to leave out
  skip,    \* those require_gauntlet is told to skip
  at,      \* how many checks of the list this pass is through with
  report,  \* the results so far
  wrong,   \* the facts that hold
  late     \* those of them no check of this pass could still see

gauntletVars == <<phase, list, dropped, skip, at, report, wrong, late>>

Results == [check : Checks, names : SUBSET Facts, skipped : BOOLEAN]

GauntletTypeOK ==
  /\ phase \in {"planning", "checking", "blocked", "green", "launched"}
  /\ list \in {StandardChecks, RegistryChecks}
  /\ dropped \subseteq Checks /\ skip \subseteq Checks
  /\ at \in 0 .. Len(list)
  /\ report \subseteq Results
  /\ wrong \subseteq Facts
  /\ late \subseteq wrong

\* Mutant: a check that cannot look says that all is well.
Named_Lenient(k, D) ==
  LET s == Stages[k]
      First == {i \in DOMAIN s : s[i] \cap D # {} /\ \A j \in 1 .. i - 1 : s[j] \cap D = {}}
  IN (UNION {s[i] \cap D : i \in First}) \ {"no_lister", "pub_absent"}

\* What a check names of the facts D.
Named(k, D) ==
  LET s == Stages[k]
      First == {i \in DOMAIN s : s[i] \cap D # {} /\ \A j \in 1 .. i - 1 : s[j] \cap D = {}}
  IN UNION {s[i] \cap D : i \in First}

Blockers == Fatal \cap UNION {r.names : r \in report}

-----------------------------------------------------------------------------
(* Actions                                                                 *)

\* standard_gauntlet and registry_gauntlet leave out what skip= names, without a
\* trace in the report; require_gauntlet(skip=) leaves a result.
Assemble(checks, out, skipped) ==
  /\ Cardinality(out) + Cardinality(skipped) <= MaxBypass
  /\ list' = checks /\ dropped' = out /\ skip' = skipped
  /\ phase' = "checking"
  /\ UNCHANGED <<at, report, wrong, late>>

Next1 == list[at + 1]

Result(k) ==
  IF k \in skip THEN [check |-> k, names |-> {}, skipped |-> TRUE]
                ELSE [check |-> k, names |-> Named(k, wrong), skipped |-> FALSE]

Advance == phase = "checking" /\ at < Len(list) /\ at' = at + 1

\* Mutant: a check that raises is passed over.
RunCheck_Swallow ==
  /\ Advance
  /\ report' = report \cup
       IF Next1 \in dropped THEN {}
       ELSE IF {"api_down", "hangs"} \cap Result(Next1).names # {}
       THEN {[Result(Next1) EXCEPT !.names = {}]} ELSE {Result(Next1)}
  /\ UNCHANGED <<phase, list, dropped, skip, wrong, late>>

\* Mutant: a check that raises stops the pass without naming what it met.
RunCheck_Mute ==
  /\ Advance
  /\ Next1 \in dropped \/ {"api_down", "hangs"} \cap Result(Next1).names = {}
  /\ report' = report \cup IF Next1 \in dropped THEN {} ELSE {Result(Next1)}
  /\ UNCHANGED <<phase, list, dropped, skip, wrong, late>>

\* The next check; one that raises is a failure like any other.
RunCheck ==
  /\ Advance
  /\ report' = report \cup IF Next1 \in dropped THEN {} ELSE {Result(Next1)}
  /\ UNCHANGED <<phase, list, dropped, skip, wrong, late>>

\* require_gauntlet raises when a result is blocking.
Judge ==
  /\ phase = "checking" /\ at = Len(list)
  /\ phase' = IF Blockers = {} THEN "green" ELSE "blocked"
  /\ UNCHANGED <<list, dropped, skip, at, report, wrong, late>>

\* Mutant: what came late in the last pass stays late in the next.
Mend_StillLate(S) ==
  /\ phase = "blocked" /\ S \subseteq Blockers /\ S # {}
  /\ wrong' = wrong \ (S \ {"no_lister"})
  /\ skip' = IF "no_lister" \in S THEN skip \cup {"ssh_key_registered"} ELSE skip
  /\ report' = {} /\ at' = 0 /\ UNCHANGED late
  /\ phase' = "checking"
  /\ UNCHANGED <<list, dropped>>

\* The operator mends some of what blocks and starts over.  A provider that lists
\* no keys cannot be mended: the key is confirmed elsewhere and the check skipped.
Mend(S) ==
  /\ phase = "blocked" /\ S \subseteq Blockers /\ S # {}
  /\ wrong' = wrong \ (S \ {"no_lister"})
  /\ skip' = IF "no_lister" \in S THEN skip \cup {"ssh_key_registered"} ELSE skip
  /\ report' = {} /\ at' = 0 /\ late' = {}
  /\ phase' = "checking"
  /\ UNCHANGED <<list, dropped>>

\* Checks of the list that are yet to run in this pass.
Ahead == {list[i] : i \in at + 1 .. Len(list)}

Seen(d) == {k \in Elements(list) \ (dropped \cup skip) : d \in LooksFor[k]}

\* Something comes true, before the operator starts or while he is at it.
Drift(d) ==
  /\ phase # "launched"
  /\ d \in World \ wrong /\ Possible(wrong \cup {d})
  /\ wrong' = wrong \cup {d}
  /\ late' = IF phase # "planning" /\ Seen(d) \cap Ahead = {} THEN late \cup {d} ELSE late
  /\ UNCHANGED <<phase, list, dropped, skip, at, report>>

GauntletInit ==
  /\ phase = "planning" /\ list = StandardChecks /\ dropped = {} /\ skip = {}
  /\ at = 0 /\ report = {} /\ wrong = {} /\ late = {}

AssembleAny ==
  /\ phase = "planning"
  /\ \E checks \in {StandardChecks, RegistryChecks} :
       \E out, skipped \in SUBSET Elements(checks) : Assemble(checks, out, skipped)

MendAny == \E S \in SUBSET Blockers : Mend(S)

DriftAny == \E d \in World : Drift(d)

GauntletStep == AssembleAny \/ RunCheck \/ Judge \/ MendAny

-----------------------------------------------------------------------------
(* Properties                                                              *)

\* Whatever is wrong with a launch that has the green light is in the report the
\* operator read, or its checks were left out or skipped by the operator, or it
\* came true after the last of them had run: no early return of a check, no check
\* that raised, and no fact that another one hid is lost (run_gauntlet).
NothingUnreported ==
  phase = "green" =>
    \A d \in wrong :
      \/ d \in late
      \/ \E r \in report : d \in r.names
      \/ Seen(d) = {}

\* Once nothing comes true any more, the operator who mends what the report names
\* gets the green light: nothing blocks without saying what to mend (GauntletError).
MendingLeadsToGreen ==
  <>[][wrong' \subseteq wrong]_wrong => (phase = "checking" ~> phase \in {"green", "launched"})

=============================================================================
