---------------------------- MODULE FleetProofs -----------------------------
(***************************************************************************)
(* What holds of module Fleet for any number of legs, threads, offers and  *)
(* refills.  The invariant ties where the main thread is to where the legs *)
(* are: what it has collected, what it unwinds with, and what is tracked.  *)
(***************************************************************************)
EXTENDS Fleet, FiniteSetTheorems, TLAPS

\* FleetTypeOK without the bound on the pool.
FleetTypes ==
  /\ pc \in [Legs -> Phases]
  /\ box \in [Legs -> {"none", "booting", "up", "dead", "gone"}]
  /\ exit \in [Legs -> {"none", "failover", "OK", "NO_RESULT", "RUN_FAIL", "BAD_ARTIFACTS", "ERROR"}]
  /\ status \in [Legs -> Statuses]
  /\ art \in [Legs -> {"none", "damaged", "wrong", "good"}]
  /\ alarmed \subseteq Legs /\ live \subseteq Legs /\ collected \subseteq Legs /\ aim \subseteq Legs
  /\ offers \in 0 .. MaxOffers
  /\ refills \in 0 .. MaxRefills
  /\ broke \in BOOLEAN /\ capped \in Wrappings
  /\ main \in Ended \cup Guarded \cup Handling \cup {"reconciling"}
  /\ raising \in {"none", "budget", "offers", "signal"}
  /\ signals \in 0 .. MaxSignals

Running == {l \in Legs : pc[l] \in Active}

\* Every leg has a result of its own.
AllReported == \A l \in Legs : pc[l] \in {"skipped", "finished"}

\* A box is tracked from Track to Untrack and at no other time.
LiveInv == \A l \in live : pc[l] \in InBlock

\* An alarm has become the leg's status, or its process was killed.
AlarmInv == \A l \in alarmed : pc[l] = "out" \/ (pc[l] = "finished" /\ status[l] = "LEAK")

StatusInv ==
  \A l \in Legs : /\ pc[l] \in {"finished", "skipped"} => status[l] # "none"
                  /\ pc[l] \in {"untracking", "teardown"} => exit[l] # "none"

\* The main thread goes on collecting as long as every future it saw had a
\* result; it leaves with nothing to raise over a full report only, and without
\* a signal over settled legs only; a budget halt leaves no leg to start.
MainInv ==
  /\ main = "collecting" => raising = "none" /\ \A l \in collected : pc[l] = "finished"
  /\ main = "halting" => raising = "budget"
  /\ main \in {"draining", "reconciling"} /\ raising = "none" => AllReported
  /\ main = "returned" => AllReported
  /\ main \in {"reconciling", "returned", "raised"} /\ raising # "signal" =>
       \A l \in Legs : pc[l] \in Settled
  /\ main = "draining" /\ raising = "budget" => \A l \in Legs : pc[l] # "queued"

FleetInv == LiveInv /\ AlarmInv /\ StatusInv /\ MainInv

-----------------------------------------------------------------------------
LEMMA InitHolds == Init => FleetTypes /\ FleetInv
<1> USE DEF Init
<1>1. 0 \in 0 .. MaxOffers /\ 0 \in 0 .. MaxRefills /\ 0 \in 0 .. MaxSignals
  BY FleetAssumption
<1>2. Init => FleetTypes
  BY <1>1 DEF FleetTypes, Phases, Settled, InBlock, Statuses, Ended, Guarded, Handling
<1>3. Init => FleetInv
  BY DEF FleetInv, LiveInv, AlarmInv, StatusInv, MainInv
<1>4. QED
  BY <1>2, <1>3

LEMMA LegStepTypes ==
  ASSUME FleetTypes, NEW l \in Legs, LegStep(l)
  PROVE  FleetTypes'
<1> USE FleetAssumption DEF FleetTypes, Phases, Settled, InBlock, Statuses, Ended, Guarded, Handling, Go, Finish, LeaveBlock,
        poolVars, mainVars
<1>1. CASE StartLeg(l)
  BY <1>1 DEF StartLeg
<1>2. CASE GetOffer(l)
  BY <1>2 DEF GetOffer
<1>3. CASE BudgetGate(l)
  BY <1>3 DEF BudgetGate
<1>4. CASE Create(l)
  BY <1>4 DEF Create
<1>5. CASE BootEnds(l)
  BY <1>5 DEF BootEnds
<1>6. CASE Track(l)
  BY <1>6 DEF Track
<1>7. CASE Ready(l)
  BY <1>7 DEF Ready
<1>8. CASE CommandEnds(l)
  BY <1>8 DEF CommandEnds
<1>9. CASE Fetch(l)
  BY <1>9 DEF Fetch, Verdict
<1>10. CASE Untrack(l)
  BY <1>10 DEF Untrack
<1>11. CASE Teardown(l)
  BY <1>11 DEF Teardown, AfterTeardown
<1>12. QED
  BY <1>1, <1>2, <1>3, <1>4, <1>5, <1>6, <1>7, <1>8, <1>9, <1>10, <1>11 DEF LegStep

LEMMA OtherStepTypes ==
  ASSUME FleetTypes, [Next]_vars, \A l \in Legs : ~ LegStep(l)
  PROVE  FleetTypes'
<1> USE FleetAssumption DEF FleetTypes, Phases, Settled, InBlock, Statuses, Ended, Guarded, Handling,
        poolVars, mainVars, legVars
<1>1. ASSUME NEW l \in Legs, HostDies(l) \/ HostVanishes(l) PROVE FleetTypes'
  BY <1>1 DEF HostDies, HostVanishes
<1>2. ASSUME NEW l \in Legs, Collect(l) PROVE FleetTypes'
  BY <1>2 DEF Collect
<1>3. ASSUME NEW l \in Legs, DestroyLive(l) PROVE FleetTypes'
  BY <1>3 DEF DestroyLive
<1>4. CASE AllCollected \/ Halt \/ Drained \/ SignalUnwinds
  BY <1>4 DEF AllCollected, Halt, Drained, SignalUnwinds
<1>5. CASE Reconcile
  BY <1>5 DEF Reconcile
<1>6. CASE Launch
  <2>1. pc' \in [Legs -> Phases] /\ box' \in [Legs -> {"none", "booting", "up", "dead", "gone"}]
    BY <1>6 DEF Launch
  <2>2. exit' \in [Legs -> {"none", "failover", "OK", "NO_RESULT", "RUN_FAIL", "BAD_ARTIFACTS", "ERROR"}]
    BY <1>6 DEF Launch
  <2>3. status' \in [Legs -> Statuses]
    BY <1>6 DEF Launch
  <2>4. offers' \in 0 .. MaxOffers /\ refills' \in 0 .. MaxRefills /\ signals' \in 0 .. MaxSignals
    BY <1>6 DEF Launch
  <2>5. QED
    BY <1>6, <2>1, <2>2, <2>3, <2>4 DEF Launch
<1>7. CASE SpendReachesCap
  BY <1>7 DEF SpendReachesCap
<1>8. CASE SignalArrives
  BY <1>8 DEF SignalArrives
<1>9. CASE Kill
  BY <1>9 DEF Kill
<1>10. CASE UNCHANGED vars
  BY <1>10 DEF vars
<1>11. QED
  BY <1>1, <1>2, <1>3, <1>4, <1>5, <1>6, <1>7, <1>8, <1>9, <1>10 DEF Next, MainStep

-----------------------------------------------------------------------------
(* The invariant                                                           *)

\* A leg's step takes a leg that is not settled, and leaves the main thread be.
LEMMA LegStepMoves ==
  ASSUME FleetTypes, NEW l \in Legs, LegStep(l)
  PROVE  /\ pc[l] \notin Settled
         /\ pc' = [pc EXCEPT ![l] = pc'[l]]
         /\ pc'[l] # "queued"
         /\ UNCHANGED <<main, raising, collected>>
<1> USE DEF FleetTypes, Settled, Go, Finish, LeaveBlock, mainVars
<1>1. CASE StartLeg(l)
  BY <1>1 DEF StartLeg
<1>2. CASE GetOffer(l)
  BY <1>2 DEF GetOffer
<1>3. CASE BudgetGate(l)
  BY <1>3 DEF BudgetGate
<1>4. CASE Create(l)
  BY <1>4 DEF Create
<1>5. CASE BootEnds(l)
  BY <1>5 DEF BootEnds
<1>6. CASE Track(l)
  BY <1>6 DEF Track
<1>7. CASE Ready(l)
  BY <1>7 DEF Ready
<1>8. CASE CommandEnds(l)
  BY <1>8 DEF CommandEnds
<1>9. CASE Fetch(l)
  BY <1>9 DEF Fetch
<1>10. CASE Untrack(l)
  BY <1>10 DEF Untrack
<1>11. CASE Teardown(l)
  BY <1>11 DEF Teardown, AfterTeardown
<1>12. QED
  BY <1>1, <1>2, <1>3, <1>4, <1>5, <1>6, <1>7, <1>8, <1>9, <1>10, <1>11 DEF LegStep

\* Whatever a leg does, the main thread's account of the legs stays true.
LEMMA LegStepMain ==
  ASSUME FleetTypes, MainInv, NEW l \in Legs, LegStep(l)
  PROVE  MainInv'
  BY LegStepMoves DEF FleetTypes, MainInv, AllReported, Settled

LEMMA LegStepLegs ==
  ASSUME FleetTypes, LiveInv, AlarmInv, StatusInv, NEW l \in Legs, LegStep(l)
  PROVE  LiveInv' /\ AlarmInv' /\ StatusInv'
<1> USE DEF FleetTypes, LiveInv, AlarmInv, StatusInv, InBlock, Go, Finish, LeaveBlock
<1>1. CASE StartLeg(l)
  BY <1>1 DEF StartLeg
<1>2. CASE GetOffer(l)
  BY <1>2 DEF GetOffer
<1>3. CASE BudgetGate(l)
  BY <1>3 DEF BudgetGate
<1>4. CASE Create(l)
  BY <1>4 DEF Create
<1>5. CASE BootEnds(l)
  BY <1>5 DEF BootEnds
<1>6. CASE Track(l)
  BY <1>6 DEF Track
<1>7. CASE Ready(l)
  BY <1>7 DEF Ready
<1>8. CASE CommandEnds(l)
  BY <1>8 DEF CommandEnds
<1>9. CASE Fetch(l)
  BY <1>9 DEF Fetch, Verdict
<1>10. CASE Untrack(l)
  BY <1>10 DEF Untrack
<1>11. CASE Teardown(l)
  BY <1>11 DEF Teardown, AfterTeardown
<1>12. QED
  BY <1>1, <1>2, <1>3, <1>4, <1>5, <1>6, <1>7, <1>8, <1>9, <1>10, <1>11 DEF LegStep

LEMMA OtherStepInv ==
  ASSUME FleetTypes, FleetInv, [Next]_vars, \A l \in Legs : ~ LegStep(l)
  PROVE  FleetInv'
<1> USE DEF FleetTypes, FleetInv, LiveInv, AlarmInv, StatusInv, MainInv, AllReported, Settled, InBlock,
        poolVars, mainVars, legVars
<1>1. ASSUME NEW l \in Legs, HostDies(l) \/ HostVanishes(l) PROVE FleetInv'
  BY <1>1 DEF HostDies, HostVanishes
<1>2. ASSUME NEW l \in Legs, Collect(l) PROVE FleetInv'
  BY <1>2 DEF Collect
<1>3. ASSUME NEW l \in Legs, DestroyLive(l) PROVE FleetInv'
  BY <1>3 DEF DestroyLive, Handling
<1>4. CASE AllCollected
  BY <1>4 DEF AllCollected
<1>5. CASE Halt
  BY <1>5 DEF Halt
<1>6. CASE Drained
  BY <1>6 DEF Drained
<1>7. CASE SignalUnwinds
  BY <1>7 DEF SignalUnwinds, Handling
<1>8. CASE Reconcile
  BY <1>8 DEF Reconcile
<1>9. CASE Launch
  BY <1>9 DEF Launch
<1>10. CASE SpendReachesCap
  BY <1>10 DEF SpendReachesCap
<1>11. CASE SignalArrives
  BY <1>11 DEF SignalArrives, Guarded, Handling
<1>12. CASE Kill
  BY <1>12 DEF Kill
<1>13. CASE UNCHANGED vars
  BY <1>13 DEF vars
<1>14. QED
  BY <1>1, <1>2, <1>3, <1>4, <1>5, <1>6, <1>7, <1>8, <1>9, <1>10, <1>11, <1>12, <1>13 DEF Next, MainStep

-----------------------------------------------------------------------------
(* The pool's bound                                                        *)

\* Only a thread taking a queued leg adds to the running ones.
LEMMA RunningGrows ==
  ASSUME FleetTypes, [Next]_vars
  PROVE  Running' \subseteq Running
         \/ \E l \in Legs : l \notin Running /\ Running' = Running \cup {l} /\ Cardinality(Running) < MaxParallel
<1> USE DEF Running, Active, Phases, Settled, InBlock, Ended, poolVars, mainVars, legVars
<1>1. ASSUME NEW l \in Legs, StartLeg(l)
      PROVE  l \notin Running /\ Running' = Running \cup {l} /\ Cardinality(Running) < MaxParallel
  BY <1>1 DEF FleetTypes, StartLeg, Go
<1>2. ASSUME NEW l \in Legs, LegStep(l), ~ StartLeg(l) PROVE Running' \subseteq Running
  <2>1. pc[l] \in Active
    BY <1>2 DEF LegStep, GetOffer, BudgetGate, Create, BootEnds, Track, Ready, CommandEnds, Fetch, Untrack, Teardown
  <2>2. pc' = [pc EXCEPT ![l] = pc'[l]]
    BY <1>2, LegStepMoves
  <2>3. QED
    BY <2>1, <2>2 DEF FleetTypes
<1>3. ASSUME NEW l \in Legs, HostDies(l) \/ HostVanishes(l) \/ Collect(l) \/ DestroyLive(l)
      PROVE  Running' \subseteq Running
  BY <1>3 DEF HostDies, HostVanishes, Collect, DestroyLive
<1>4. CASE AllCollected \/ Halt \/ Drained \/ SignalUnwinds \/ Reconcile
  BY <1>4 DEF AllCollected, Halt, Drained, SignalUnwinds, Reconcile
<1>5. CASE Launch \/ SpendReachesCap \/ SignalArrives \/ Kill
  BY <1>5 DEF Launch, SpendReachesCap, SignalArrives, Kill
<1>6. CASE UNCHANGED vars
  BY <1>6 DEF vars
<1>7. QED
  BY <1>1, <1>2, <1>3, <1>4, <1>5, <1>6 DEF Next, MainStep

PoolBound == Cardinality(Running) <= MaxParallel

LEMMA PoolStep ==
  ASSUME FleetTypes, PoolBound, [Next]_vars
  PROVE  PoolBound'
<1> USE FleetAssumption DEF PoolBound
<1>1. IsFiniteSet(Running) /\ Cardinality(Running) \in Nat
  BY FS_Subset, FS_CardinalityType DEF Running
<1>2. CASE Running' \subseteq Running
  <2>1. Cardinality(Running') <= Cardinality(Running) /\ Cardinality(Running') \in Nat
    BY <1>1, <1>2, FS_Subset, FS_CardinalityType
  <2>2. QED
    BY <1>1, <2>1
<1>3. ASSUME NEW l \in Legs, l \notin Running, Running' = Running \cup {l}, Cardinality(Running) < MaxParallel
      PROVE  PoolBound'
  <2>1. Cardinality(Running') = Cardinality(Running) + 1
    BY <1>1, <1>3, FS_AddElement
  <2>2. QED
    BY <1>1, <1>3, <2>1
<1>4. QED
  BY <1>2, <1>3, RunningGrows

-----------------------------------------------------------------------------
(* The theorems                                                            *)

\* Every reachable state of a fleet is well-typed and within the invariant, for
\* any number of legs and threads, with signals, kills and relaunches.
THEOREM FleetInvariant == Spec => [](FleetTypes /\ FleetInv /\ PoolBound)
<1>1. Init => PoolBound
  <2>1. Init => Running = {}
    BY DEF Init, Running, Active, Settled
  <2>2. QED
    BY <2>1, FS_EmptySet, FleetAssumption DEF PoolBound
<1>2. FleetTypes /\ [Next]_vars => FleetTypes'
  BY LegStepTypes, OtherStepTypes
<1>3. FleetTypes /\ FleetInv /\ [Next]_vars => FleetInv'
  BY LegStepMain, LegStepLegs, OtherStepInv DEF FleetInv
<1>4. QED
  BY <1>1, <1>2, <1>3, InitHolds, PoolStep, PTL DEF Spec

\* No more legs run than the pool has threads, and every other variable stays in
\* its type (ThreadPoolExecutor(max_parallel) of run).
THEOREM FleetTypeCorrect == Spec => []FleetTypeOK
<1>1. FleetTypes /\ PoolBound => FleetTypeOK
  BY DEF FleetTypes, PoolBound, Running, FleetTypeOK
<1>2. QED
  BY <1>1, FleetInvariant, PTL

\* A list is returned over a full report only: one refusal or one failed query
\* among any number of legs makes run() raise.
THEOREM EveryLegIsReported == Spec => []ReturnReportsEveryLeg
<1>1. FleetInv => ReturnReportsEveryLeg
  BY DEF FleetInv, MainInv, StatusInv, AllReported, ReturnReportsEveryLeg
<1>2. QED
  BY <1>1, FleetInvariant, PTL

\* Without a signal nothing is running and nothing tracked once run() is over.
THEOREM NobodyStraggles == Spec => []NoStragglers
<1>1. FleetTypes /\ FleetInv => NoStragglers
  BY DEF FleetTypes, FleetInv, MainInv, LiveInv, InBlock, Settled, NoStragglers
<1>2. QED
  BY <1>1, FleetInvariant, PTL

\* No alarm is lost between a teardown and the list run() returns.
THEOREM AlarmsAreReported == Spec => []LeakIsReported
<1>1. FleetTypes /\ FleetInv => LeakIsReported
  BY DEF FleetTypes, FleetInv, MainInv, AllReported, AlarmInv, LeakIsReported
<1>2. QED
  BY <1>1, FleetInvariant, PTL

\* After a budget halt the queue is dead, whatever the running legs do.
THEOREM HaltIsFinal == Spec => HaltStopsTheQueue
<1>1. FleetInv => (main = "draining" /\ raising = "budget"
                     => \A l \in Legs : pc[l] = "queued" => pc'[l] # "offer")
  BY DEF FleetInv, MainInv
<1>2. QED
  BY <1>1, FleetInvariant, PTL DEF HaltStopsTheQueue

-----------------------------------------------------------------------------
(* How long a run can take                                                 *)
(*                                                                         *)
(* EveryRunEnds is checked by a run.  What it rests on beside fairness is  *)
(* proved: between two launches the threads and the main thread have a     *)
(* bounded number of steps to take.  A leg goes round through offer and    *)
(* teardown again and again, but every round uses up an offer, and the     *)
(* pool can only be refilled MaxRefills times.                             *)

\* The steps from a phase to the next offer or the end.
PhaseRank(l) ==
  LET left == [offer |-> 1, queued |-> 2, teardown |-> 2, untracking |-> 3, fetching |-> 4,
               running |-> 5, readying |-> 6, yielded |-> 7, booting |-> 8, creating |-> 9,
               gate |-> 10]
  IN  IF pc[l] \in Settled THEN 0 ELSE left[pc[l]]

\* What is to be done, piece by piece, so that a sum over the legs is the size of a
\* set: pieces 1 to 10 are a leg's own steps, the 11th is to collect its future,
\* the 12th to destroy its box on a signal.
Todo == {t \in Legs \X (1 .. 12) :
           \/ t[2] <= PhaseRank(t[1])
           \/ t[2] = 11 /\ t[1] \notin collected
           \/ t[2] = 12 /\ t[1] \in aim}

\* The offers that can still be handed out.
Pool == offers + (MaxRefills - refills) * MaxOffers

MainRank ==
  IF main = "collecting" THEN 5
  ELSE IF main = "handling_collect" THEN 4
  ELSE IF main = "halting" THEN 3
  ELSE IF main \in {"draining", "handling_drain"} THEN 2
  ELSE IF main = "reconciling" THEN 1
  ELSE 0

\* What a signal can add: a DELETE for every leg, and the handler.
SignalCost == Cardinality(Legs) + 2

RunRank == 10 * Pool + Cardinality(Todo) + MainRank + (MaxSignals - signals) * SignalCost

RunBound == 10 * (MaxOffers + MaxRefills * MaxOffers) + Cardinality(Legs) * 12 + 5
            + MaxSignals * SignalCost

\* The rank is a number within its bound.
RunRankInv == RunRank \in 0 .. RunBound

\* A step of a leg's thread or of the main thread uses up a step of the run, and
\* only the next launch starts afresh: no host, no spend and no signal adds to it.
RunGetsOn ==
  /\ (\E l \in Legs : LegStep(l)) \/ MainStep => RunRank' < RunRank
  /\ ~ Launch => RunRank' <= RunRank

LEMMA Refilled ==
  ASSUME NEW n \in Nat, NEW k \in Nat
  PROVE  n * k \in Nat /\ (n + 1) * k = n * k + k
OBVIOUS

LEMMA MoreIsMore ==
  ASSUME NEW m \in Nat, NEW n \in Nat, NEW k \in Nat, m <= n
  PROVE  m * k <= n * k
OBVIOUS

LEMMA Interval ==
  ASSUME NEW a \in Nat, NEW b \in Nat, a <= b
  PROVE  IsFiniteSet(a .. b) /\ Cardinality(a .. b) = b - a + 1
<1>1. a \in Int /\ b \in Int /\ ~ (a > b)
  OBVIOUS
<1>2. QED
  BY <1>1, FS_Interval

LEMMA PiecesAreFinite ==
  ASSUME NEW S \in SUBSET (Legs \X (1 .. 12))
  PROVE  /\ IsFiniteSet(S) /\ Cardinality(S) \in Nat
         /\ Cardinality(S) <= Cardinality(Legs) * 12
<1>1. IsFiniteSet(1 .. 12) /\ Cardinality(1 .. 12) = 12
  <2>1. 1 \in Nat /\ 12 \in Nat /\ 1 <= 12 /\ 12 - 1 + 1 = 12
    OBVIOUS
  <2>2. IsFiniteSet(1 .. 12) /\ Cardinality(1 .. 12) = 12 - 1 + 1
    BY <2>1, Interval, Zenon
  <2>3. QED
    BY <2>1, <2>2, Zenon
<1>2. IsFiniteSet(Legs) /\ Cardinality(Legs) \in Nat
  BY FleetAssumption, FS_CardinalityType
<1>3. IsFiniteSet(Legs \X (1 .. 12))
      /\ Cardinality(Legs \X (1 .. 12)) = Cardinality(Legs) * 12
  BY <1>1, <1>2, FS_Product
<1>4. QED
  BY <1>3, FS_Subset, FS_CardinalityType

LEMMA TodoIsSome == Todo \in SUBSET (Legs \X (1 .. 12))
BY DEF Todo

LEMMA TodoIsSomeNext == Todo' \in SUBSET (Legs \X (1 .. 12))
BY DEF Todo

\* One piece fewer.
LEMMA PieceDone ==
  ASSUME NEW S \in SUBSET (Legs \X (1 .. 12)), NEW T \in SUBSET S, NEW x \in S, x \notin T
  PROVE  Cardinality(T) < Cardinality(S)
<1>1. IsFiniteSet(S) /\ Cardinality(S) \in Nat /\ Cardinality(T) \in Nat
  BY PiecesAreFinite
<1>2. Cardinality(T) <= Cardinality(S) /\ (Cardinality(S) = Cardinality(T) => S = T)
  BY <1>1, FS_Subset
<1>3. QED
  BY <1>1, <1>2

\* Pieces added for one leg or for one kind.
LEMMA PiecesAdded ==
  ASSUME NEW S \in SUBSET (Legs \X (1 .. 12)), NEW T \in SUBSET (Legs \X (1 .. 12)),
         NEW L, IsFiniteSet(L), NEW K, IsFiniteSet(K), T \subseteq S \cup (L \X K)
  PROVE  Cardinality(T) <= Cardinality(S) + Cardinality(L) * Cardinality(K)
<1>1. IsFiniteSet(S) /\ Cardinality(S) \in Nat /\ Cardinality(T) \in Nat
  BY PiecesAreFinite
<1>2. IsFiniteSet(L \X K) /\ Cardinality(L \X K) = Cardinality(L) * Cardinality(K)
      /\ Cardinality(L \X K) \in Nat
  BY FS_Product, FS_CardinalityType
<1>3. /\ IsFiniteSet(S \cup (L \X K))
      /\ Cardinality(S \cup (L \X K))
           = Cardinality(S) + Cardinality(L \X K) - Cardinality(S \cap (L \X K))
  BY <1>1, <1>2, FS_Union
<1>4. Cardinality(S \cap (L \X K)) \in Nat
  BY <1>1, FS_Subset, FS_CardinalityType
<1>5. Cardinality(T) <= Cardinality(S \cup (L \X K))
  BY <1>3, FS_Subset
<1>6. QED
  BY <1>1, <1>2, <1>3, <1>4, <1>5

LEMMA PhaseRankIs ==
  ASSUME FleetTypes, NEW l \in Legs
  PROVE  PhaseRank(l) \in 0 .. 10 /\ (PhaseRank(l) = 0 <=> pc[l] \in Settled)
BY DEF FleetTypes, PhaseRank, Phases, Settled, InBlock

\* The parts of the rank are numbers.
LEMMA RankNumbers ==
  ASSUME FleetTypes
  PROVE  /\ Pool \in Nat /\ Pool <= MaxOffers + MaxRefills * MaxOffers
         /\ Cardinality(Todo) \in Nat /\ Cardinality(Todo) <= Cardinality(Legs) * 12
         /\ MainRank \in 0 .. 5
         /\ SignalCost \in Nat /\ Cardinality(Legs) \in Nat
         /\ (MaxSignals - signals) * SignalCost \in Nat
         /\ (MaxSignals - signals) * SignalCost <= MaxSignals * SignalCost
         /\ MaxOffers + MaxRefills * MaxOffers \in Nat
         /\ MaxSignals * SignalCost \in Nat
<1>1. MaxRefills \in Nat /\ MaxOffers \in Nat /\ MaxSignals \in Nat /\ IsFiniteSet(Legs)
  BY FleetAssumption
<1>2. offers \in 0 .. MaxOffers /\ refills \in 0 .. MaxRefills /\ signals \in 0 .. MaxSignals
  BY DEF FleetTypes
<1>3. SignalCost \in Nat /\ Cardinality(Legs) \in Nat
  BY <1>1, FS_CardinalityType DEF SignalCost
<1>4. PICK r \in Nat : MaxRefills - refills = r /\ r <= MaxRefills
  BY <1>1, <1>2
<1>5. PICK s \in Nat : MaxSignals - signals = s /\ s <= MaxSignals
  BY <1>1, <1>2
<1>6. r * MaxOffers \in Nat /\ r * MaxOffers <= MaxRefills * MaxOffers
      /\ MaxRefills * MaxOffers \in Nat
  BY <1>1, <1>4, Refilled, MoreIsMore
<1>7. s * SignalCost \in Nat /\ s * SignalCost <= MaxSignals * SignalCost
      /\ MaxSignals * SignalCost \in Nat
  BY <1>1, <1>3, <1>5, Refilled, MoreIsMore
<1>8. Pool \in Nat /\ Pool <= MaxOffers + MaxRefills * MaxOffers
  BY <1>1, <1>2, <1>4, <1>6 DEF Pool
<1>9. Cardinality(Todo) \in Nat /\ Cardinality(Todo) <= Cardinality(Legs) * 12
  BY TodoIsSome, PiecesAreFinite
<1>10. MainRank \in 0 .. 5
  BY DEF MainRank
<1>11. QED
  BY <1>1, <1>3, <1>5, <1>6, <1>7, <1>8, <1>9, <1>10

LEMMA RunRankBounded == FleetTypes => RunRankInv
<1> SUFFICES ASSUME FleetTypes PROVE RunRankInv
  OBVIOUS
<1>1. PICK s \in Nat : s = (MaxSignals - signals) * SignalCost /\ s <= MaxSignals * SignalCost
  BY RankNumbers
<1>2. PICK b \in Nat : b = MaxSignals * SignalCost
  BY RankNumbers
<1>3. PICK q \in Nat : q = MaxOffers + MaxRefills * MaxOffers
  BY RankNumbers
<1>4. RunBound = 10 * q + Cardinality(Legs) * 12 + 5 + b
  BY <1>2, <1>3 DEF RunBound
<1>5. RunRank = 10 * Pool + Cardinality(Todo) + MainRank + s
  BY <1>1 DEF RunRank
<1>6. QED
  BY <1>1, <1>2, <1>3, <1>4, <1>5, RankNumbers DEF RunRankInv

\* How the parts move makes the rank move.
LEMMA PartsMove ==
  ASSUME FleetTypes, signals' = signals, NEW p \in Nat, Pool' = p,
         NEW d \in Int, 10 * p + Cardinality(Todo') + MainRank'
                          <= 10 * Pool + Cardinality(Todo) + MainRank - d
  PROVE  RunRank' <= RunRank - d
<1>1. PICK s \in Nat : s = (MaxSignals - signals) * SignalCost
  BY RankNumbers
<1>2. RunRank = 10 * Pool + Cardinality(Todo) + MainRank + s
  BY <1>1 DEF RunRank
<1>3. RunRank' = 10 * p + Cardinality(Todo') + MainRank' + s
  BY <1>1 DEF RunRank, SignalCost
<1>4. Cardinality(Todo') \in Nat /\ MainRank' \in 0 .. 5
  BY TodoIsSomeNext, PiecesAreFinite DEF MainRank
<1>5. QED
  BY <1>1, <1>2, <1>3, <1>4, RankNumbers

\* A leg's step other than GetOffer brings it nearer to its next offer.
LEMMA LegAdvances ==
  ASSUME FleetTypes, NEW l \in Legs, LegStep(l), ~ GetOffer(l)
  PROVE  /\ PhaseRank(l)' < PhaseRank(l)
         /\ aim' \subseteq aim /\ UNCHANGED <<offers, refills, signals>>
<1> USE DEF FleetTypes, Settled, PhaseRank, Go, Finish, LeaveBlock, poolVars, mainVars
<1>1. CASE StartLeg(l)
  BY <1>1 DEF StartLeg
<1>2. CASE BudgetGate(l)
  BY <1>2 DEF BudgetGate
<1>3. CASE Create(l)
  BY <1>3 DEF Create
<1>4. CASE BootEnds(l)
  BY <1>4 DEF BootEnds
<1>5. CASE Track(l)
  BY <1>5 DEF Track
<1>6. CASE Ready(l)
  BY <1>6 DEF Ready
<1>7. CASE CommandEnds(l)
  BY <1>7 DEF CommandEnds
<1>8. CASE Fetch(l)
  BY <1>8 DEF Fetch
<1>9. CASE Untrack(l)
  BY <1>9 DEF Untrack
<1>10. CASE Teardown(l)
  BY <1>10 DEF Teardown, AfterTeardown
<1>11. QED
  BY <1>1, <1>2, <1>3, <1>4, <1>5, <1>6, <1>7, <1>8, <1>9, <1>10 DEF LegStep

\* Each offer handed out is one fewer that ever can be.
LEMMA OfferTaken ==
  ASSUME FleetTypes, NEW l \in Legs, GetOffer(l)
  PROVE  /\ pc[l] = "offer" /\ UNCHANGED mainVars
         /\ \/ pc' = [pc EXCEPT ![l] = "gate"] /\ \E p \in Nat : Pool' = p /\ p < Pool
            \/ pc'[l] \in Settled /\ \E p \in Nat : Pool' = p /\ p <= Pool
<1>1. MaxRefills \in Nat /\ MaxOffers \in Nat /\ pc \in [Legs -> Phases]
      /\ offers \in 0 .. MaxOffers /\ refills \in 0 .. MaxRefills
  BY FleetAssumption DEF FleetTypes
<1>2. PICK r \in Nat : MaxRefills - refills = r
  BY <1>1
<1>3. r * MaxOffers \in Nat /\ Pool = offers + r * MaxOffers
  BY <1>1, <1>2, Refilled DEF Pool
<1>4. CASE offers > 0
  <2>1. offers' = offers - 1 /\ refills' = refills /\ pc' = [pc EXCEPT ![l] = "gate"]
    BY <1>4, <1>1 DEF GetOffer, Go
  <2>2. Pool' = (offers - 1) + r * MaxOffers
    BY <1>2, <2>1 DEF Pool
  <2>3. QED
    BY <1>1, <1>3, <1>4, <2>1, <2>2 DEF GetOffer
<1>5. CASE offers = 0 /\ refills < MaxRefills
  <2>1. PICK k \in Nat : r = k + 1
    BY <1>1, <1>2, <1>5
  <2>2. k * MaxOffers \in Nat /\ r * MaxOffers = k * MaxOffers + MaxOffers
    BY <1>1, <2>1, Refilled
  <2>3. refills' = refills + 1
    BY <1>1, <1>5 DEF GetOffer
  <2>4. MaxRefills - refills' = k
    BY <1>1, <1>2, <2>1, <2>3
  <2>5. Pool' = offers' + k * MaxOffers
    BY <2>4 DEF Pool
  <2>6. ASSUME NEW n \in 1 .. MaxOffers, offers' = n - 1
        PROVE  \E p \in Nat : Pool' = p /\ p < Pool
    BY <1>1, <1>3, <1>5, <2>2, <2>5, <2>6
  <2>7. ASSUME offers' = offers
        PROVE  \E p \in Nat : Pool' = p /\ p <= Pool
    BY <1>1, <1>3, <1>5, <2>2, <2>5, <2>7
  <2>8. QED
    BY <1>1, <1>5, <2>6, <2>7 DEF GetOffer, Go, Finish, Settled
<1>6. CASE offers = 0 /\ ~ (refills < MaxRefills)
  <2>1. offers' = offers /\ refills' = refills /\ pc'[l] = "finished"
    BY <1>1, <1>6 DEF GetOffer, Go, Finish
  <2>2. Pool' = Pool
    BY <2>1 DEF Pool
  <2>3. QED
    BY <1>3, <1>1, <1>6, <2>1, <2>2 DEF GetOffer, Settled
<1>7. QED
  BY <1>1, <1>4, <1>5, <1>6

LEMMA LegGetsOn ==
  ASSUME FleetTypes, FleetTypes', NEW l \in Legs, LegStep(l)
  PROVE  RunRank' <= RunRank - 1
<1>1. /\ \A k \in Legs \ {l} : pc'[k] = pc[k]
      /\ UNCHANGED <<main, collected>>
  BY LegStepMoves DEF FleetTypes
<1>2. \A k \in Legs \ {l} : PhaseRank(k)' = PhaseRank(k)
  BY <1>1 DEF PhaseRank
<1>3. \A k \in Legs : PhaseRank(k) \in 0 .. 10
  BY PhaseRankIs
<1>4. MainRank' = MainRank
  BY <1>1 DEF MainRank
<1>5. Todo \in SUBSET (Legs \X (1 .. 12)) /\ Todo' \in SUBSET (Legs \X (1 .. 12))
      /\ Cardinality(Todo) \in Nat /\ Cardinality(Todo') \in Nat
  BY TodoIsSome, TodoIsSomeNext, PiecesAreFinite
<1>6. ASSUME PhaseRank(l)' < PhaseRank(l), PhaseRank(l)' \in Nat, aim' \subseteq aim
      PROVE  Cardinality(Todo') < Cardinality(Todo)
  <2>1. Todo' \subseteq Todo
    BY <1>1, <1>2, <1>3, <1>6 DEF Todo
  <2>2. <<l, PhaseRank(l)>> \in Todo /\ <<l, PhaseRank(l)>> \notin Todo'
    BY <1>3, <1>6 DEF Todo
  <2>3. QED
    BY <1>5, <2>1, <2>2, PieceDone
<1>7. CASE ~ GetOffer(l)
  <2>1. PhaseRank(l)' < PhaseRank(l) /\ aim' \subseteq aim /\ UNCHANGED <<offers, refills, signals>>
    BY <1>7, LegAdvances
  <2>2. PhaseRank(l)' \in Nat
    BY DEF FleetTypes, PhaseRank, Phases, Settled, InBlock
  <2>3. Cardinality(Todo') < Cardinality(Todo)
    BY <1>6, <2>1, <2>2
  <2>4. Pool' = Pool
    BY <2>1 DEF Pool
  <2>5. QED
    BY <1>4, <1>5, <2>1, <2>3, <2>4, RankNumbers, PartsMove
<1>8. CASE GetOffer(l) /\ pc'[l] \in Settled
  <2>1. pc[l] = "offer" /\ UNCHANGED mainVars
    BY <1>8, OfferTaken
  <2>2. PICK p \in Nat : Pool' = p /\ p <= Pool
    BY <1>8, OfferTaken, RankNumbers
  <2>3. PhaseRank(l) = 1 /\ PhaseRank(l)' = 0
    BY <1>8, <2>1 DEF PhaseRank, Settled
  <2>4. Cardinality(Todo') < Cardinality(Todo)
    BY <1>6, <2>1, <2>3 DEF mainVars
  <2>5. QED
    BY <1>4, <1>5, <2>1, <2>2, <2>4, RankNumbers, PartsMove DEF mainVars
<1>9. CASE GetOffer(l) /\ pc'[l] \notin Settled
  <2>1. pc[l] = "offer" /\ UNCHANGED mainVars
    BY <1>9, OfferTaken
  <2>2. pc' = [pc EXCEPT ![l] = "gate"]
    BY <1>9, OfferTaken
  <2>3. PICK p \in Nat : Pool' = p /\ p < Pool
    BY <1>9, OfferTaken
  <2>4. PhaseRank(l) = 1 /\ PhaseRank(l)' = 10
    BY <2>1, <2>2 DEF PhaseRank, Settled, FleetTypes
  <2>5. Todo' \subseteq Todo \cup ({l} \X (2 .. 10))
    BY <1>1, <1>2, <2>1, <2>4 DEF Todo, mainVars
  <2>6. IsFiniteSet({l}) /\ Cardinality({l}) = 1 /\ IsFiniteSet(2 .. 10) /\ Cardinality(2 .. 10) = 9
    <3>1. 2 \in Nat /\ 10 \in Nat /\ 2 <= 10 /\ 10 - 2 + 1 = 9
      OBVIOUS
    <3>2. IsFiniteSet(2 .. 10) /\ Cardinality(2 .. 10) = 10 - 2 + 1
      BY <3>1, Interval, Zenon
    <3>3. QED
      BY <3>1, <3>2, FS_Singleton, Zenon
  <2>7. Cardinality(Todo') <= Cardinality(Todo) + 9
    BY <1>5, <2>5, <2>6, PiecesAdded
  <2>8. QED
    BY <1>4, <1>5, <2>1, <2>3, <2>7, RankNumbers, PartsMove DEF mainVars
<1>10. QED
  BY <1>7, <1>8, <1>9

\* The main thread collects, destroys, halts, waits and reconciles once each.
LEMMA MainGetsOn ==
  ASSUME FleetTypes, MainStep
  PROVE  RunRank' <= RunRank - 1
<1>1. Todo \in SUBSET (Legs \X (1 .. 12)) /\ Todo' \in SUBSET (Legs \X (1 .. 12))
      /\ Cardinality(Todo) \in Nat /\ Cardinality(Todo') \in Nat
  BY TodoIsSome, TodoIsSomeNext, PiecesAreFinite
<1>2. MainRank \in 0 .. 5 /\ MainRank' \in 0 .. 5
  BY DEF MainRank
<1>3. UNCHANGED <<offers, refills, signals>>
  BY DEF MainStep, Collect, DestroyLive, AllCollected, Halt, Drained, Reconcile, SignalUnwinds,
         poolVars
<1>4. Pool' = Pool
  BY <1>3 DEF Pool
<1>5. ASSUME Todo' \subseteq Todo
      PROVE  Cardinality(Todo') <= Cardinality(Todo)
  BY <1>1, <1>5, PiecesAreFinite, FS_Subset
<1>6. ASSUME NEW l \in Legs, Collect(l) PROVE RunRank' <= RunRank - 1
  <2>1. l \notin collected /\ collected' = collected \cup {l} /\ pc' = pc /\ aim' = aim
    BY <1>6 DEF Collect, legVars
  <2>2. Todo' \subseteq Todo /\ <<l, 11>> \in Todo /\ <<l, 11>> \notin Todo'
    <3>1. PhaseRank(l) \in 0 .. 10 /\ \A k : PhaseRank(k)' = PhaseRank(k)
      BY <2>1, PhaseRankIs DEF PhaseRank
    <3>2. QED
      BY <2>1, <3>1 DEF Todo
  <2>3. Cardinality(Todo') < Cardinality(Todo)
    BY <1>1, <2>2, PieceDone
  <2>4. MainRank' <= MainRank
    <3>1. main = "collecting" /\ main' \in {"collecting", "halting", "draining"}
      BY <1>6 DEF Collect
    <3>2. QED
      BY <3>1 DEF MainRank
  <2>5. QED
    BY <1>1, <1>2, <1>3, <1>4, <2>3, <2>4, RankNumbers, PartsMove
<1>7. ASSUME NEW l \in Legs, DestroyLive(l) PROVE RunRank' <= RunRank - 1
  <2>1. l \in aim /\ aim' = aim \ {l} /\ pc' = pc /\ collected' = collected /\ main' = main
    BY <1>7 DEF DestroyLive
  <2>2. Todo' \subseteq Todo /\ <<l, 12>> \in Todo /\ <<l, 12>> \notin Todo'
    <3>1. PhaseRank(l) \in 0 .. 10 /\ \A k : PhaseRank(k)' = PhaseRank(k)
      BY <2>1, PhaseRankIs DEF PhaseRank
    <3>2. QED
      BY <2>1, <3>1 DEF Todo
  <2>3. Cardinality(Todo') < Cardinality(Todo)
    BY <1>1, <2>2, PieceDone
  <2>4. MainRank' = MainRank
    BY <2>1 DEF MainRank
  <2>5. QED
    BY <1>1, <1>2, <1>3, <1>4, <2>3, <2>4, RankNumbers, PartsMove
<1>8. ASSUME AllCollected \/ Halt \/ Drained \/ Reconcile \/ SignalUnwinds
      PROVE  RunRank' <= RunRank - 1
  <2>1. collected' = collected /\ aim' = aim
    BY <1>8 DEF AllCollected, Halt, Drained, Reconcile, SignalUnwinds
  <2>2. \A k \in Legs : pc'[k] = pc[k] \/ pc'[k] = "out"
    BY <1>8 DEF AllCollected, Halt, Drained, Reconcile, SignalUnwinds, legVars
  <2>3. Todo' \subseteq Todo
    <3>1. \A k \in Legs : PhaseRank(k)' \in {0, PhaseRank(k)}
      BY <2>2 DEF PhaseRank, Settled
    <3>2. \A k \in Legs : PhaseRank(k) \in 0 .. 10
      BY PhaseRankIs
    <3>3. QED
      BY <2>1, <3>1, <3>2 DEF Todo
  <2>4. MainRank' < MainRank
    BY <1>8 DEF AllCollected, Halt, Drained, Reconcile, SignalUnwinds, Handling, MainRank
  <2>5. QED
    BY <1>1, <1>2, <1>3, <1>4, <1>5, <2>3, <2>4, RankNumbers, PartsMove
<1>9. QED
  BY <1>6, <1>7, <1>8 DEF MainStep

\* A signal is paid for: it gives the main thread a handler and the boxes to destroy.
LEMMA SignalPaidFor ==
  ASSUME FleetTypes, SignalArrives
  PROVE  RunRank' <= RunRank
<1>1. Todo \in SUBSET (Legs \X (1 .. 12)) /\ Todo' \in SUBSET (Legs \X (1 .. 12))
      /\ Cardinality(Todo) \in Nat /\ Cardinality(Todo') \in Nat
  BY TodoIsSome, TodoIsSomeNext, PiecesAreFinite
<1>2. pc' = pc /\ collected' = collected /\ offers' = offers /\ refills' = refills
      /\ signals' = signals + 1 /\ signals < MaxSignals
  BY DEF SignalArrives, legVars, poolVars
<1>3. Todo' \subseteq Todo \cup (Legs \X {12})
  <2>1. \A k : PhaseRank(k)' = PhaseRank(k)
    BY <1>2 DEF PhaseRank
  <2>2. QED
    BY <1>2, <2>1 DEF Todo
<1>4. Cardinality(Todo') <= Cardinality(Todo) + Cardinality(Legs)
  <2>1. IsFiniteSet({12}) /\ Cardinality({12}) = 1 /\ IsFiniteSet(Legs) /\ Cardinality(Legs) \in Nat
    BY FS_Singleton, FleetAssumption, FS_CardinalityType
  <2>2. Cardinality(Todo') <= Cardinality(Todo) + Cardinality(Legs) * Cardinality({12})
    BY <1>1, <1>3, <2>1, PiecesAdded
  <2>3. QED
    BY <1>1, <2>1, <2>2
<1>5. MainRank' <= MainRank + 1 /\ MainRank' \in 0 .. 5
  BY DEF SignalArrives, Guarded, Handling, MainRank
<1>6. PICK s \in Nat : MaxSignals - signals = s + 1
  BY <1>2, FleetAssumption DEF FleetTypes
<1>7. MaxSignals - signals' = s
  BY <1>2, <1>6, FleetAssumption DEF FleetTypes
<1>8. s * SignalCost \in Nat /\ (s + 1) * SignalCost = s * SignalCost + SignalCost
  BY Refilled, RankNumbers
<1>9. RunRank = 10 * Pool + Cardinality(Todo) + MainRank + (s + 1) * SignalCost
  BY <1>6 DEF RunRank
<1>10. RunRank' = 10 * Pool + Cardinality(Todo') + MainRank' + s * SignalCost
  BY <1>2, <1>7 DEF RunRank, Pool, SignalCost
<1>11. SignalCost = Cardinality(Legs) + 2
  BY DEF SignalCost
<1>12. QED
  BY <1>1, <1>4, <1>5, <1>8, <1>9, <1>10, <1>11, RankNumbers

\* Nothing else that happens to a run gives it more to do, a kill included.
LEMMA OthersAddNothing ==
  ASSUME FleetTypes,
         \/ \E l \in Legs : HostDies(l) \/ HostVanishes(l)
         \/ SpendReachesCap \/ Kill \/ UNCHANGED vars
  PROVE  RunRank' <= RunRank
<1>1. Todo \in SUBSET (Legs \X (1 .. 12)) /\ Todo' \in SUBSET (Legs \X (1 .. 12))
      /\ Cardinality(Todo) \in Nat /\ Cardinality(Todo') \in Nat
  BY TodoIsSome, TodoIsSomeNext, PiecesAreFinite
<1>2. UNCHANGED <<offers, refills, signals, collected>> /\ aim' \subseteq aim
      /\ main' \in {main, "killed"}
  BY DEF HostDies, HostVanishes, SpendReachesCap, Kill, vars, poolVars, mainVars
<1>3. \A k \in Legs : pc'[k] = pc[k] \/ pc'[k] = "out"
  BY DEF HostDies, HostVanishes, SpendReachesCap, Kill, vars, legVars
<1>4. Todo' \subseteq Todo
  <2>1. \A k \in Legs : PhaseRank(k)' \in {0, PhaseRank(k)} /\ PhaseRank(k) \in 0 .. 10
    BY <1>3, PhaseRankIs DEF PhaseRank, Settled
  <2>2. QED
    BY <1>2, <2>1 DEF Todo
<1>5. Cardinality(Todo') <= Cardinality(Todo)
  BY <1>1, <1>4, PiecesAreFinite, FS_Subset
<1>6. MainRank' <= MainRank /\ MainRank' \in 0 .. 5
  BY <1>2 DEF MainRank
<1>7. Pool' = Pool
  BY <1>2 DEF Pool
<1>8. RunRank' <= RunRank - 0
  BY <1>1, <1>2, <1>5, <1>6, <1>7, RankNumbers, PartsMove
<1>9. RunRank \in Int
  BY RunRankBounded, RankNumbers DEF RunRankInv
<1>10. QED
  BY <1>8, <1>9

\* However many hosts die and whatever is refused, signalled or killed, the threads
\* and the main thread of one run take at most RunBound steps between them: every
\* step uses one up, and only the next launch starts afresh.  That a drained pool can
\* be refilled MaxRefills times only is what keeps the number finite (_OfferPool.get).
\* EveryRunEnds adds that the threads are scheduled.
THEOREM RunIsBounded == Spec => []RunRankInv /\ [][RunGetsOn]_vars
<1>1. FleetTypes => RunRankInv
  BY RunRankBounded
<1>2. FleetTypes /\ FleetTypes' /\ RunRankInv /\ RunRankInv' /\ [Next]_vars => [RunGetsOn]_vars
  <2> SUFFICES ASSUME FleetTypes, FleetTypes', RunRankInv, RunRankInv', [Next]_vars
               PROVE  RunGetsOn
    OBVIOUS
  <2>1. RunRank \in Int /\ RunRank' \in Int
    BY DEF RunRankInv
  <2>2. ASSUME (\E l \in Legs : LegStep(l)) \/ MainStep PROVE RunRank' < RunRank
    BY <2>1, <2>2, LegGetsOn, MainGetsOn
  <2>3. ASSUME ~ Launch PROVE RunRank' <= RunRank
    <3>1. CASE (\E l \in Legs : LegStep(l)) \/ MainStep
      BY <2>1, <2>2, <3>1
    <3>2. CASE SignalArrives
      BY <3>2, SignalPaidFor
    <3>3. CASE \/ \E l \in Legs : HostDies(l) \/ HostVanishes(l)
               \/ SpendReachesCap \/ Kill \/ UNCHANGED vars
      BY <3>3, OthersAddNothing
    <3>4. QED
      BY <2>3, <3>1, <3>2, <3>3 DEF Next
  <2>4. QED
    BY <2>2, <2>3 DEF RunGetsOn
<1>3. QED
  BY <1>1, <1>2, FleetInvariant, PTL DEF Spec

=============================================================================
