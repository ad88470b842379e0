-------------------------------- MODULE Fleet --------------------------------
(***************************************************************************)
(* FleetExecutor.run: the legs of a run, each in a thread of the pool and  *)
(* on a box of its own, the offer pool they share, the budget gate in      *)
(* front of rent(), the main thread that collects their results, the       *)
(* signal guard, and the relaunches that skip the legs already complete.   *)
(*                                                                         *)
(* rent() is what module Rental shows it to be: it may fail before a box   *)
(* exists, or place one that never comes up; its teardown leaves the box   *)
(* gone, raises LeakRisk, or could not look.  Every leg has a marker.      *)
(***************************************************************************)
EXTENDS Naturals, FiniteSets

CONSTANTS
  Legs,         \* the labels of the run's legs
  MaxParallel,  \* max_workers of the thread pool
  MaxRefills,   \* max_refills of the offer pool
  MaxOffers,    \* bound on the offers one query returns
  MaxSignals,   \* bound on the signals sent to one run
  Wrappings     \* is the provider wrapped in a CappedProvider? subset of BOOLEAN

ASSUME FleetAssumption ==
  /\ IsFiniteSet(Legs)
  /\ MaxParallel \in Nat \ {0}
  /\ {MaxRefills, MaxOffers, MaxSignals} \subseteq Nat
  /\ Wrappings \subseteq BOOLEAN

VARIABLES
  pc,        \* where each leg is; see Phases
  box,       \* the instance its present rent() placed
  exit,      \* how its with-block ended
  status,    \* the status of its LegResult
  art,       \* what its local directory holds: no marker, or a marker and what quality
  alarmed,   \* (history) legs one of whose rents raised LeakRisk in this run
  live,      \* FleetExecutor._live: the legs whose box is tracked
  offers,    \* offers left in the pool
  refills,   \* queries spent on refilling it
  broke,     \* spend has reached the cap; it never shrinks
  capped,    \* the provider is a CappedProvider: it has a budget gate in front of
             \* rent(), and neither destroy nor dead_reason
  main,      \* where the main thread is
  raising,   \* the exception run() is unwinding with
  collected, \* the futures as_completed has yielded
  aim,       \* boxes the signal handler still has to destroy
  signals    \* signals received by this run

legVars  == <<pc, box, exit, status, art, alarmed>>
poolVars == <<offers, refills, broke, capped>>
mainVars == <<main, raising, collected, aim, signals>>
vars     == <<legVars, live, poolVars, mainVars>>

Settled == {"skipped", "out", "finished", "refused", "failed"}
InBlock == {"yielded", "readying", "running", "fetching", "untracking"}
Phases  == Settled \cup InBlock \cup {"queued", "offer", "gate", "creating", "booting", "teardown"}
Active  == Phases \ (Settled \cup {"queued"})
Statuses == {"none", "OK", "SKIP", "NO_RESULT", "RUN_FAIL", "BAD_ARTIFACTS",
             "NO_OFFERS", "LEAK", "ERROR"}

Handling == {"handling_collect", "handling_drain"}
Ended == {"idle", "returned", "raised", "killed"}
Guarded == {"collecting", "halting", "draining"}

FleetTypeOK ==
  /\ pc \in [Legs -> Phases]
  /\ box \in [Legs -> {"none", "booting", "up", "dead", "gone"}]
  /\ exit \in [Legs -> {"none", "failover", "OK", "NO_RESULT", "RUN_FAIL", "BAD_ARTIFACTS", "ERROR"}]
  /\ status \in [Legs -> Statuses]
  /\ art \in [Legs -> {"none", "damaged", "wrong", "good"}]
  /\ alarmed \subseteq Legs /\ live \subseteq Legs /\ collected \subseteq Legs /\ aim \subseteq Legs
  /\ offers \in 0 .. MaxOffers
  /\ refills \in 0 .. MaxRefills
  /\ broke \in BOOLEAN /\ capped \in Wrappings
  /\ main \in Ended \cup Guarded \cup Handling \cup {"reconciling"}
  /\ raising \in {"none", "budget", "offers", "signal"}
  /\ signals \in 0 .. MaxSignals
  /\ Cardinality({l \in Legs : pc[l] \in Active}) <= MaxParallel

Billing(l) == box[l] \in {"booting", "up", "dead"}

-----------------------------------------------------------------------------
(* A leg: _run_leg                                                         *)

Go(l, phase) == pc' = [pc EXCEPT ![l] = phase]

Finish(l, s) ==
  /\ Go(l, "finished")
  /\ status' = [status EXCEPT ![l] = s]

\* A thread of the pool takes a queued leg.
StartLeg(l) ==
  /\ pc[l] = "queued"
  /\ Cardinality({k \in Legs : pc[k] \in Active}) < MaxParallel
  /\ Go(l, "offer")
  /\ UNCHANGED <<box, exit, status, art, alarmed, live, poolVars, mainVars>>

\* Mutant: the refills are not counted.
GetOffer_NoCap(l) ==
  /\ pc[l] = "offer"
  /\ \/ offers > 0 /\ offers' = offers - 1 /\ Go(l, "gate") /\ UNCHANGED status
     \/ /\ offers = 0 /\ \E n \in 1 .. MaxOffers : offers' = n - 1
        /\ Go(l, "gate") /\ UNCHANGED status
     \/ offers = 0 /\ Finish(l, "NO_OFFERS") /\ UNCHANGED offers
  /\ UNCHANGED <<refills, broke, capped, box, exit, art, alarmed, live, mainVars>>

\* Mutant: the cap on refills is off by one.
GetOffer_OneMore(l) ==
  /\ pc[l] = "offer"
  /\ \/ offers > 0 /\ offers' = offers - 1 /\ Go(l, "gate") /\ UNCHANGED <<refills, status>>
     \/ /\ offers = 0 /\ refills <= MaxRefills /\ refills' = refills + 1
        /\ \E n \in 1 .. MaxOffers : offers' = n - 1
        /\ Go(l, "gate") /\ UNCHANGED status
     \/ offers = 0 /\ Finish(l, "NO_OFFERS") /\ UNCHANGED <<offers, refills>>
  /\ UNCHANGED <<broke, capped, box, exit, art, alarmed, live, mainVars>>

\* _OfferPool.get, under its lock: the next offer, after one query if drained;
\* the query may raise, which nothing in _run_leg catches.
GetOffer(l) ==
  /\ pc[l] = "offer"
  /\ \/ /\ offers > 0
        /\ offers' = offers - 1
        /\ Go(l, "gate")
        /\ UNCHANGED <<refills, status>>
     \/ /\ offers = 0 /\ refills < MaxRefills
        /\ refills' = refills + 1
        /\ \/ \E n \in 1 .. MaxOffers : offers' = n - 1 /\ Go(l, "gate") /\ UNCHANGED status
           \/ UNCHANGED offers /\ Finish(l, "NO_OFFERS")
           \/ UNCHANGED <<offers, status>> /\ Go(l, "failed")
     \/ /\ offers = 0 /\ refills = MaxRefills
        /\ Finish(l, "NO_OFFERS")
        /\ UNCHANGED <<offers, refills>>
  /\ UNCHANGED <<broke, capped, box, exit, art, alarmed, live, mainVars>>

\* CappedProvider.rent: over the cap BudgetExceeded leaves _run_leg; nobody
\* holds a lock between this look at the ledger and the create it admits.
BudgetGate(l) ==
  /\ pc[l] = "gate"
  /\ Go(l, IF broke THEN "refused" ELSE "creating")
  /\ UNCHANGED <<box, exit, status, art, alarmed, live, poolVars, mainVars>>

\* create: a box, or none and the next offer, or none and a terminal error.
Create(l) ==
  /\ pc[l] = "creating"
  /\ \/ Go(l, "booting") /\ box' = [box EXCEPT ![l] = "booting"] /\ UNCHANGED status
     \/ Go(l, "offer") /\ box' = [box EXCEPT ![l] = "none"] /\ UNCHANGED status
     \/ Finish(l, "ERROR") /\ box' = [box EXCEPT ![l] = "none"]
  /\ UNCHANGED <<exit, art, alarmed, live, poolVars, mainVars>>

\* wait_running: the host is yielded, or the wait fails inside rent's own try.
BootEnds(l) ==
  /\ pc[l] = "booting"
  /\ \/ /\ box[l] = "booting"
        /\ box' = [box EXCEPT ![l] = "up"]
        /\ Go(l, "yielded") /\ UNCHANGED exit
     \/ /\ exit' = [exit EXCEPT ![l] = "failover"]
        /\ Go(l, "teardown") /\ UNCHANGED box
     \/ /\ exit' = [exit EXCEPT ![l] = "ERROR"]
        /\ Go(l, "teardown") /\ UNCHANGED box
  /\ UNCHANGED <<status, art, alarmed, live, poolVars, mainVars>>

\* Only now does the executor know of the box.
Track(l) ==
  /\ pc[l] = "yielded"
  /\ live' = live \cup {l}
  /\ Go(l, "readying")
  /\ UNCHANGED <<box, exit, status, art, alarmed, poolVars, mainVars>>

LeaveBlock(l, why) ==
  /\ exit' = [exit EXCEPT ![l] = why]
  /\ Go(l, "untracking")

\* _wait_ready and _ship: anything that shows the host is bad, the deadline
\* included, is a failover.
Ready(l) ==
  /\ pc[l] = "readying"
  /\ \/ box[l] = "up" /\ Go(l, "running") /\ UNCHANGED exit
     \/ LeaveBlock(l, "failover")
     \/ LeaveBlock(l, "ERROR")
  /\ UNCHANGED <<box, status, art, alarmed, live, poolVars, mainVars>>

\* The command ends.  A non-zero exit is a failover when the provider confirms
\* the host dead (a vanished one it cannot confirm, a CappedProvider none), else the
\* work failed.
CommandEnds(l) ==
  /\ pc[l] = "running"
  /\ \/ box[l] = "up" /\ Go(l, "fetching") /\ UNCHANGED exit
     \/ box[l] = "dead" /\ ~capped /\ LeaveBlock(l, "failover")
     \/ LeaveBlock(l, "RUN_FAIL")
     \/ LeaveBlock(l, "ERROR")
  /\ UNCHANGED <<box, status, art, alarmed, live, poolVars, mainVars>>

\* The order of the checks after the fetch: marker, bytes, payload verdict.
Verdict(a) ==
  CASE a = "none"    -> "NO_RESULT"
    [] a = "damaged" -> "BAD_ARTIFACTS"
    [] a = "wrong"   -> "RUN_FAIL"
    [] a = "good"    -> "OK"

\* The final fetch (its scp's exit code is ignored) and the checks on it.
Fetch(l) ==
  /\ pc[l] = "fetching"
  /\ \/ \E a \in {"none", "damaged", "wrong", "good"} :
          /\ box[l] # "up" => a \in {"none", "damaged"}
          /\ art' = [art EXCEPT ![l] = a]
          /\ LeaveBlock(l, Verdict(a))
     \/ LeaveBlock(l, "ERROR") /\ UNCHANGED art
  /\ UNCHANGED <<box, status, alarmed, live, poolVars, mainVars>>

Untrack(l) ==
  /\ pc[l] = "untracking"
  /\ live' = live \ {l}
  /\ Go(l, "teardown")
  /\ UNCHANGED <<box, exit, status, art, alarmed, poolVars, mainVars>>

\* Mutant: an unconfirmed teardown is one more bad host.
AfterTeardown_LeakFailsOver(l, confirmed) ==
  IF exit[l] = "failover" THEN Go(l, "offer") /\ UNCHANGED status
  ELSE Finish(l, IF confirmed THEN exit[l] ELSE "LEAK")

\* LeakRisk replaces whatever the block did; a failover takes the next offer.
AfterTeardown(l, confirmed) ==
  CASE ~confirmed -> Finish(l, "LEAK")
    [] confirmed /\ exit[l] = "failover" -> Go(l, "offer") /\ UNCHANGED status
    [] OTHER -> Finish(l, exit[l])

\* The finally of rent(): destroyed and gone, or LeakRisk (the box may be gone
\* all the same), or a DELETE believed because the listing could not be read.
\* An id the signal handler still has on its list means nothing any more.
Teardown(l) ==
  /\ pc[l] = "teardown"
  /\ \E gone, confirmed \in BOOLEAN :
       /\ box[l] = "gone" => gone
       /\ alarmed' = IF confirmed THEN alarmed ELSE alarmed \cup {l}
       /\ box' = IF gone THEN [box EXCEPT ![l] = "gone"] ELSE box
       /\ AfterTeardown(l, confirmed)
  /\ exit' = [exit EXCEPT ![l] = "none"]
  /\ aim' = aim \ {l}
  /\ UNCHANGED <<art, live, poolVars, main, raising, collected, signals>>

LegStep(l) ==
  \/ StartLeg(l) \/ GetOffer(l) \/ BudgetGate(l) \/ Create(l) \/ BootEnds(l) \/ Track(l)
  \/ Ready(l) \/ CommandEnds(l) \/ Fetch(l) \/ Untrack(l) \/ Teardown(l)

\* A host fails visibly and still bills, or its provider takes it away.
HostDies(l) ==
  /\ box[l] \in {"booting", "up"} /\ pc[l] \in Active
  /\ box' = [box EXCEPT ![l] = "dead"]
  /\ UNCHANGED <<pc, exit, status, art, alarmed, live, poolVars, mainVars>>

HostVanishes(l) ==
  /\ Billing(l) /\ pc[l] \in Active
  /\ box' = [box EXCEPT ![l] = "gone"]
  /\ UNCHANGED <<pc, exit, status, art, alarmed, live, poolVars, mainVars>>

SpendReachesCap ==
  /\ capped /\ ~broke
  /\ broke' = TRUE
  /\ UNCHANGED <<legVars, live, offers, refills, capped, mainVars>>

-----------------------------------------------------------------------------
(* The main thread: run                                                    *)

\* _complete: the marker exists, whatever it marks.
Complete(l) == art[l] # "none"

\* A driver starts in a new process: complete legs are skipped, the first offers
\* query may itself raise, and then every other leg is submitted.
Launch ==
  /\ main \in Ended /\ \A l \in Legs : pc[l] \in Settled
  /\ box' = [l \in Legs |-> "none"]
  /\ exit' = [l \in Legs |-> "none"]
  /\ status' = [l \in Legs |-> IF Complete(l) THEN "SKIP" ELSE "none"]
  /\ alarmed' = {} /\ live' = {} /\ collected' = {} /\ aim' = {} /\ signals' = 0 /\ refills' = 0
  /\ \/ /\ \A l \in Legs : Complete(l)
        /\ main' = "returned" /\ raising' = "none" /\ offers' = 0
        /\ pc' = [l \in Legs |-> "skipped"]
     \/ /\ \E l \in Legs : ~Complete(l)
        /\ main' = "collecting" /\ raising' = "none" /\ offers' \in 0 .. MaxOffers
        /\ pc' = [l \in Legs |-> IF Complete(l) THEN "skipped" ELSE "queued"]
     \/ /\ \E l \in Legs : ~Complete(l)
        /\ main' = "raised" /\ raising' = "offers" /\ offers' = 0
        /\ pc' = [l \in Legs |-> IF Complete(l) THEN "skipped" ELSE "out"]
  /\ UNCHANGED <<art, broke, capped>>

\* Mutant: a future that raised BudgetExceeded is passed over.
Collect_RefusalPassedOver(l) ==
  /\ main = "collecting"
  /\ pc[l] \in {"finished", "refused", "failed"} /\ l \notin collected
  /\ collected' = collected \cup {l}
  /\ IF pc[l] = "failed" THEN main' = "draining" /\ raising' = "offers" ELSE UNCHANGED <<main, raising>>
  /\ UNCHANGED <<legVars, live, poolVars, aim, signals>>

\* as_completed yields a future: a refusal halts, a failed offers query unwinds.
Collect(l) ==
  /\ main = "collecting"
  /\ pc[l] \in {"finished", "refused", "failed"} /\ l \notin collected
  /\ collected' = collected \cup {l}
  /\ CASE pc[l] = "finished" -> UNCHANGED <<main, raising>>
       [] pc[l] = "refused" -> main' = "halting" /\ raising' = "budget"
       [] pc[l] = "failed" -> main' = "draining" /\ raising' = "offers"
  /\ UNCHANGED <<legVars, live, poolVars, aim, signals>>

AllCollected ==
  /\ main = "collecting"
  /\ \A l \in Legs : pc[l] = "skipped" \/ l \in collected
  /\ main' = "draining"
  /\ UNCHANGED <<legVars, live, poolVars, raising, collected, aim, signals>>

\* Mutant: the refusal propagates and the queue is left to drain.
Halt_NoCancel ==
  /\ main = "halting"
  /\ main' = "draining"
  /\ UNCHANGED <<legVars, live, poolVars, raising, collected, aim, signals>>

\* The budget halt cancels what has not started and leaves the rest alone.
Halt ==
  /\ main = "halting"
  /\ pc' = [l \in Legs |-> IF pc[l] = "queued" THEN "out" ELSE pc[l]]
  /\ main' = "draining"
  /\ UNCHANGED <<box, exit, status, art, alarmed, live, poolVars,
                 raising, collected, aim, signals>>

\* Mutant: the pool is shut down without waiting for its threads.
Drained_NoJoin ==
  /\ main = "draining"
  /\ main' = "reconciling"
  /\ UNCHANGED <<legVars, live, poolVars, raising, collected, aim, signals>>

\* The executor's __exit__ waits for every submitted leg, queued ones included.
Drained ==
  /\ main = "draining"
  /\ \A l \in Legs : pc[l] \in Settled
  /\ main' = "reconciling"
  /\ UNCHANGED <<legVars, live, poolVars, raising, collected, aim, signals>>

\* _reconcile_stranded: destroy what is still tracked; each DELETE may fail.
Reconcile ==
  /\ main = "reconciling"
  /\ \E lost \in SUBSET {l \in live : Billing(l) /\ ~capped} :
       box' = [l \in Legs |-> IF l \in lost THEN "gone" ELSE box[l]]
  /\ main' = IF raising = "none" THEN "returned" ELSE "raised"
  /\ UNCHANGED <<pc, exit, status, art, alarmed, live, poolVars,
                 raising, collected, aim, signals>>

-----------------------------------------------------------------------------
(* Signals                                                                 *)

\* SIGTERM, SIGINT or SIGHUP while the guard is up: the handler runs in the main
\* thread, over a snapshot of what is tracked; a provider without destroy ends it.
SignalArrives ==
  /\ main \in Guarded \cup Handling
  /\ signals < MaxSignals
  /\ signals' = signals + 1
  /\ aim' = IF capped THEN {} ELSE live
  /\ main' = IF main \in {"draining", "handling_drain"} THEN "handling_drain" ELSE "handling_collect"
  /\ UNCHANGED <<legVars, live, poolVars, raising, collected>>

\* _destroy_live: one box of the snapshot; the DELETE may fail.
DestroyLive(l) ==
  /\ main \in Handling /\ l \in aim
  /\ aim' = aim \ {l}
  /\ box' \in {box, [box EXCEPT ![l] = "gone"]}
  /\ UNCHANGED <<pc, exit, status, art, alarmed, live, poolVars,
                 main, raising, collected, signals>>

\* KeyboardInterrupt: from the collecting loop into the executor's __exit__, and
\* from the wait in __exit__ out of it, past the legs still running.
SignalUnwinds ==
  /\ main \in Handling /\ aim = {}
  /\ raising' = "signal"
  /\ main' = IF main = "handling_collect" THEN "draining" ELSE "reconciling"
  /\ UNCHANGED <<legVars, live, poolVars, collected, aim, signals>>

\* SIGKILL: nothing runs, the boxes in flight are left to reap.
Kill ==
  /\ main \notin {"idle", "killed"}
  /\ main \in Ended => \E l \in Legs : pc[l] \notin Settled
  /\ main' = "killed"
  /\ pc' = [l \in Legs |-> "out"]
  /\ box' = [l \in Legs |-> "none"]
  /\ exit' = [l \in Legs |-> "none"]
  /\ live' = {} /\ aim' = {}
  /\ UNCHANGED <<status, art, alarmed, poolVars, raising, collected, signals>>

-----------------------------------------------------------------------------
Init ==
  /\ pc = [l \in Legs |-> "out"]
  /\ box = [l \in Legs |-> "none"]
  /\ exit = [l \in Legs |-> "none"]
  /\ status = [l \in Legs |-> "none"]
  /\ art = [l \in Legs |-> "none"]
  /\ alarmed = {} /\ live = {} /\ collected = {} /\ aim = {}
  /\ offers = 0 /\ refills = 0 /\ broke = FALSE /\ capped \in Wrappings
  /\ main = "idle" /\ raising = "none"
  /\ signals = 0

MainStep ==
  \/ \E l \in Legs : Collect(l) \/ DestroyLive(l)
  \/ AllCollected \/ Halt \/ Drained \/ Reconcile \/ SignalUnwinds

Next ==
  \/ \E l \in Legs : LegStep(l) \/ HostDies(l) \/ HostVanishes(l)
  \/ MainStep
  \/ Launch \/ SpendReachesCap \/ SignalArrives \/ Kill

Spec == Init /\ [][Next]_vars

\* A live process schedules its threads, and every call has a timeout.
FairSpec == Spec /\ WF_vars(MainStep) /\ \A l \in Legs : WF_vars(LegStep(l))

-----------------------------------------------------------------------------
(* Properties                                                              *)

\* run() returns a list only when every leg has a result of its own: a leg that
\* was refused by the budget, or could not query offers, makes run() raise
\* whatever its siblings did meanwhile (protocols.BudgetExceeded).
ReturnReportsEveryLeg ==
  main = "returned" => \A l \in Legs : pc[l] \in {"skipped", "finished"} /\ status[l] # "none"

\* Unless a signal cuts it short, run() is over only when no leg is running and
\* none is tracked, so the final reconciliation never destroys a box in use.
NoStragglers ==
  main \in {"reconciling", "returned", "raised"} /\ raising # "signal"
    => /\ \A l \in Legs : pc[l] \in Settled
       /\ live = {}

\* LeakRisk is never lost on the way to the caller: a leg one of whose rents
\* raised it is reported LEAK, whatever its work and its earlier hosts did.
LeakIsReported ==
  main = "returned" => \A l \in alarmed : status[l] = "LEAK"

\* After the budget halt no leg that had not started is started any more.
HaltStopsTheQueue ==
  [][main = "draining" /\ raising = "budget"
       => \A l \in Legs : pc[l] = "queued" => pc'[l] # "offer"]_vars

\* Every run comes to an end, however many hosts fail: refills are capped.
EveryRunEnds == main = "collecting" ~> main \in Ended

\* A leg whose artifacts arrived damaged is not ok (LegResult.BAD_ARTIFACTS).
DamagedIsNotOk ==
  \A l \in Legs : art[l] = "damaged" => status[l] \notin {"OK", "SKIP"}

\* A signal in the middle of a run is passed on to every tracked rental that
\* bills (the module docstring, #24).
SignalReachesTracked ==
  [][signals' > signals => \A l \in live : Billing(l) => l \in aim']_vars

=============================================================================
