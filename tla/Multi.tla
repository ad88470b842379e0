-------------------------------- MODULE Multi --------------------------------
(***************************************************************************)
(* run_multi: one campaign over several executors, each in a thread of a   *)
(* pool, their slices merged as they land.  An executor in Renters is a    *)
(* ProviderExecutor behind the cap of module Budget; the others            *)
(* (InProcessExecutor, ModalExecutor) answer for a slice or raise.         *)
(***************************************************************************)
EXTENDS Budget, Sequences

CONSTANTS
  NExecutors,   \* executors, numbered in the order given
  NConfigs,     \* configs of the campaign
  Weightings,   \* weights split_configs may be given, one function each
  MaxWorkers,   \* max_workers
  MaxAttempts   \* max_attempts of a ProviderExecutor

Executors == 1 .. NExecutors
Configs   == 1 .. NConfigs

ASSUME MultiAssumption ==
  /\ NExecutors \in Nat \ {0} /\ NConfigs \in Nat /\ MaxWorkers \in Nat \ {0}
  /\ MaxAttempts \in Nat \ {0} /\ Renters \subseteq Executors
  /\ \A w \in Weightings : w \in [Executors -> Nat] /\ \E e \in Executors : w[e] > 0

-----------------------------------------------------------------------------
(* split_configs                                                           *)

RoundRobin == [e \in Executors |-> {c \in Configs : (c - 1) % NExecutors = e - 1}]

Total(w) == MapThenSumSet(LAMBDA e : w[e], Executors)

\* Mutant: the places the whole shares leave over are not given out.
Counts_Truncated(w) == [e \in Executors |-> (w[e] * NConfigs) \div Total(w)]

\* Largest remainder: whole shares first, one more for those who lost most, the
\* first of equals before the others.
Counts(w) ==
  LET Share == [e \in Executors |-> (w[e] * NConfigs) \div Total(w)]
      Rest  == [e \in Executors |-> (w[e] * NConfigs) % Total(w)]
      Over  == NConfigs - MapThenSumSet(LAMBDA e : Share[e], Executors)
      Ahead(e) == {f \in Executors : Rest[f] > Rest[e] \/ (Rest[f] = Rest[e] /\ f < e)}
  IN [e \in Executors |-> Share[e] + IF Cardinality(Ahead(e)) < Over THEN 1 ELSE 0]

\* The places of the executors up to e.
Upto(w, e) == MapThenSumSet(LAMBDA f : Counts(w)[f], 1 .. e)

Apportioned(w) ==
  [e \in Executors |-> {c \in Configs : Upto(w, e - 1) < c /\ c <= Upto(w, e)}]

\* A caller may pass assignments of his own, which overlap.
Overlapping == [e \in Executors |-> Configs]

-----------------------------------------------------------------------------
VARIABLES
  main,       \* run_multi
  slice,      \* the configs assigned to each executor
  thread,     \* where each executor's thread is
  tries,      \* offers left to a renter
  error,      \* the executors that raised
  reports,    \* the executors whose ProviderRun was taken, in that order
  results,    \* who produced the record kept for a config, 0 for nobody
  duplicates  \* the providers listed for a config that came more than once

threadVars == <<thread, tries, error>>
mainVars   == <<main, slice, reports, results, duplicates>>
multiVars  == <<threadVars, mainVars, budgetVars>>

Renting == {"gating", "summed", "creating", "using", "closing"}

MultiTypeOK ==
  /\ BudgetTypeOK
  /\ main \in {"draining", "unwinding", "returned", "raised"}
  /\ slice \in [Executors -> SUBSET Configs]
  /\ thread \in [Executors -> Renting \cup {"none", "queued", "working", "done"}]
  /\ tries \in [Renters -> 0 .. MaxAttempts]
  /\ error \subseteq Executors
  /\ reports \in Seq(Executors)
  /\ results \in [Configs -> 0 .. NExecutors]
  /\ duplicates \in [Configs -> Seq(Executors)]

Go(e, st) == thread' = [thread EXCEPT ![e] = st]

-----------------------------------------------------------------------------
(* A thread                                                                *)

\* Mutant: a thread that has ended keeps its worker.
Busy_Kept == {e \in Executors : thread[e] \notin {"none", "queued"}}

Busy == {e \in Executors : thread[e] \notin {"none", "queued", "done"}}

\* The pool takes the slices in the order they were submitted.
Start(e) ==
  /\ thread[e] = "queued" /\ \A f \in 1 .. e - 1 : thread[f] # "queued"
  /\ Cardinality(Busy) < MaxWorkers
  /\ Go(e, IF e \in Renters THEN "gating" ELSE "working")
  /\ UNCHANGED <<tries, error, mainVars, budgetVars>>

Ends(e, raised) ==
  /\ Go(e, "done")
  /\ error' = IF raised THEN error \cup {e} ELSE error

\* run_one over the slice, or Function.map: all records or an exception.
PlainEnds(e) ==
  /\ thread[e] = "working"
  /\ \E raised \in BOOLEAN : Ends(e, raised)
  /\ UNCHANGED <<tries, mainVars, budgetVars>>

\* The next offer, if one is left.
Failover(e) ==
  IF tries[e] > 1
  THEN Go(e, "gating") /\ tries' = [tries EXCEPT ![e] = @ - 1] /\ UNCHANGED error
  ELSE Ends(e, TRUE) /\ tries' = [tries EXCEPT ![e] = 0]

Sum(e) ==
  /\ thread[e] = "gating"
  /\ ReadBooked(e)
  /\ Go(e, "summed")
  /\ UNCHANGED <<tries, error, mainVars>>

\* summary() raises, and no executor catches a TypeError.
SumRaises(e) ==
  /\ thread[e] = "gating" /\ SummaryRaises
  /\ Ends(e, TRUE)
  /\ UNCHANGED <<tries, mainVars, budgetVars>>

\* BudgetExceeded is no failover signal.
Gate(e) ==
  /\ thread[e] = "summed"
  /\ IF Passes(e) THEN Go(e, "creating") /\ UNCHANGED error ELSE Ends(e, TRUE)
  /\ ForgetReading(e)
  /\ UNCHANGED <<tries, mainVars>>

\* The cloud places the box; the gap before its rented row is module Rental's.
CreateBox(e) ==
  /\ thread[e] = "creating"
  /\ RentedRow(e)
  /\ Go(e, "using")
  /\ UNCHANGED <<tries, error, mainVars>>

\* The offer is taken: the next one; an authorization error is not caught.
CreateFails(e) ==
  /\ thread[e] = "creating"
  /\ Failover(e) \/ (Ends(e, TRUE) /\ UNCHANGED tries)
  /\ UNCHANGED <<mainVars, budgetVars>>

\* The host has failed, or its work is over.
UseEnds(e) ==
  /\ thread[e] = "using"
  /\ MakeBill(e)
  /\ Go(e, "closing")
  /\ UNCHANGED <<tries, error, mainVars>>

\* The destroyed row; the host has done its work, or it failed and the next offer is
\* tried, or the teardown cannot be verified and LeakRisk ends the slice.
CloseBox(e) ==
  /\ thread[e] = "closing"
  /\ DestroyedRow(e)
  /\ \/ \E raised \in BOOLEAN : Ends(e, raised) /\ UNCHANGED tries
     \/ Failover(e)
  /\ UNCHANGED mainVars

ThreadStep(e) ==
  \/ Start(e) \/ PlainEnds(e)
  \/ e \in Renters /\ \/ Sum(e) \/ SumRaises(e) \/ Gate(e) \/ CreateBox(e) \/ CreateFails(e)
                      \/ UseEnds(e) \/ CloseBox(e)

-----------------------------------------------------------------------------
(* run_multi                                                               *)

Landed == {e \in Executors : thread[e] = "done"} \ {reports[i] : i \in DOMAIN reports}

Records(e) == IF e \in error THEN {} ELSE slice[e]

\* One ProviderRun is taken: as_completed yields them in any order.
Land(e) ==
  /\ main = "draining" /\ e \in Landed
  /\ reports' = Append(reports, e)
  /\ duplicates' = [c \in Configs |->
       IF c \notin Records(e) \/ results[c] = 0 THEN duplicates[c]
       ELSE IF duplicates[c] = <<>> THEN <<results[c], e>>
       ELSE Append(duplicates[c], e)]
  /\ results' = [c \in Configs |-> IF c \in Records(e) THEN e ELSE results[c]]
  /\ UNCHANGED <<main, slice, threadVars, budgetVars>>

\* on_result raises on the slice that has landed.
OnResultRaises(e) ==
  /\ main = "draining" /\ e \in Landed
  /\ main' = "unwinding"
  /\ UNCHANGED <<slice, reports, results, duplicates, threadVars, budgetVars>>

AllDone == \A e \in Executors : thread[e] \in {"none", "done"}

Return ==
  /\ main = "draining" /\ AllDone /\ Landed = {}
  /\ main' = "returned"
  /\ UNCHANGED <<slice, reports, results, duplicates, threadVars, budgetVars>>

\* Mutant: the pool is not waited for.
Unwind_Now ==
  /\ main = "unwinding"
  /\ main' = "raised"
  /\ UNCHANGED <<slice, reports, results, duplicates, threadVars, budgetVars>>

\* Leaving the pool waits for every thread, the queued ones too.
Unwind ==
  /\ main = "unwinding" /\ AllDone
  /\ main' = "raised"
  /\ UNCHANGED <<slice, reports, results, duplicates, threadVars, budgetVars>>

-----------------------------------------------------------------------------
\* stream_multi leaves an executor without configs out.
MultiInit ==
  /\ BudgetInit
  /\ main = "draining"
  /\ slice \in {RoundRobin, Overlapping} \cup {Apportioned(w) : w \in Weightings}
  /\ thread = [e \in Executors |-> IF slice[e] = {} THEN "none" ELSE "queued"]
  /\ tries = [e \in Renters |-> MaxAttempts]
  /\ error = {} /\ reports = <<>>
  /\ results = [c \in Configs |-> 0]
  /\ duplicates = [c \in Configs |-> <<>>]

MainStep == (\E e \in Executors : Land(e) \/ OnResultRaises(e)) \/ Return \/ Unwind

Elsewhere == (Tick \/ CloseLeftover) /\ UNCHANGED <<threadVars, mainVars>>

MultiNext == (\E e \in Executors : ThreadStep(e)) \/ MainStep \/ Elsewhere

\* Threads and the main thread run on; time and the reaper owe nothing.
MultiSpec ==
  /\ MultiInit /\ [][MultiNext]_multiVars
  /\ \A e \in Executors : WF_multiVars(ThreadStep(e))
  /\ WF_multiVars(MainStep)

-----------------------------------------------------------------------------
(* Properties                                                              *)

\* The landings that brought a record of a config.
Came(c) == {i \in DOMAIN reports : c \in Records(reports[i])}

LastIsKept(c) ==
  IF Came(c) = {} THEN results[c] = 0
  ELSE \E i \in Came(c) : results[c] = reports[i] /\ \A j \in Came(c) : j <= i

\* The k-th provider listed is the k-th to land.
AllAreNamed(c) ==
  IF Cardinality(Came(c)) < 2 THEN duplicates[c] = <<>>
  ELSE /\ Len(duplicates[c]) = Cardinality(Came(c))
       /\ \A i \in Came(c) :
            duplicates[c][Cardinality({j \in Came(c) : j <= i})] = reports[i]

\* The harvest is the merge of every slice whose executor did not raise: each has
\* one ProviderRun, each of its configs a record from the last to land, and a config
\* that came twice names its providers in the order they landed.  Where the slices
\* are split_configs' own, nothing is lost and nothing comes twice (run_multi).
HarvestIsWhole ==
  main = "returned" =>
    /\ \A c \in Configs : LastIsKept(c) /\ AllAreNamed(c)
    /\ \A e \in Executors : slice[e] # {} =>
         Cardinality({i \in DOMAIN reports : reports[i] = e}) = 1
    /\ slice # Overlapping \/ NExecutors = 1 =>
         /\ \A c \in Configs : duplicates[c] = <<>>
         /\ error = {} => \A c \in Configs : results[c] # 0

\* When run_multi is over, by its report or by an observer's exception, no thread
\* rents on behind the caller's back: no slice is running or about to start and no
\* box has an open row (the pool of stream_multi).
NothingRunsOn ==
  main \in {"returned", "raised"} =>
    AllDone /\ open = {}

\* An executor at the gate is told whether the cap is reached, whatever reap has
\* closed in the ledger (_close_ledger_rows, CappedProvider.spent_usd).
GateAnswers == \A e \in Renters : thread[e] = "gating" => ~ SummaryRaises

\* Every campaign comes to its report or its exception, however few the workers.
EveryCampaignEnds == main = "draining" ~> main \in {"returned", "raised"}

=============================================================================
