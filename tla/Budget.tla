------------------------------- MODULE Budget --------------------------------
(***************************************************************************)
(* The dollar cap: CappedProvider in front of rent(), one ledger shared by *)
(* all the executors of a campaign, and the reaper that closes the rows of *)
(* an earlier one.                                                         *)
(*                                                                         *)
(* Money is time: every box costs one unit per tick.  A box that came up   *)
(* is torn down within MaxRun ticks of its row, for all that rent() and    *)
(* its user wait for is under a timeout.                                   *)
(***************************************************************************)
EXTENDS Naturals, FiniteSets, FiniteSetsExt

CONSTANTS
  Renters,   \* the executors that rent, each one box at a time
  Cap,       \* cap_usd, in ticks
  MaxRun,    \* bound on the life of a rental, in ticks
  Leftovers  \* what an earlier campaign's row may say at first: "none", "open"

ASSUME BudgetAssumption ==
  /\ IsFiniteSet(Renters) /\ Cap \in Nat \ {0} /\ MaxRun \in Nat \ {0}
  /\ Leftovers \subseteq {"none", "open"}

VARIABLES
  open,      \* the renters with an open row of their own
  flight,    \* ticks since that row was written
  booked,    \* what the rows these renters closed say, added up
  leftover,  \* the last word on the earlier campaign's row
  phantom,   \* what it counts for
  reading,   \* what a renter's gate has read of the booked costs
  bill       \* the cost rent() will book for a renter's box

ledgerVars == <<open, flight, booked, leftover, phantom>>
gateVars   == <<reading, bill>>
budgetVars == <<ledgerVars, gateVars>>

BudgetTypeOK ==
  /\ open \subseteq Renters
  /\ flight \in [Renters -> 0 .. MaxRun]
  /\ booked \in Nat
  /\ leftover \in {"none", "open", "closed", "vanished"}
  /\ phantom \in 0 .. Cap
  /\ reading \in [Renters -> Nat]
  /\ bill \in [Renters -> 0 .. MaxRun]

\* RentalLedger.summary()["total_est_cost_usd"], and _in_flight_usd.
Booked   == booked + IF leftover = "closed" THEN phantom ELSE 0
Burning  == MapThenSumSet(LAMBDA e : flight[e], open)
InFlight == Burning + IF leftover = "open" THEN phantom ELSE 0

\* summary() adds up billed_s, which is null in the row of a vanished instance.
SummaryRaises == leftover = "vanished"

-----------------------------------------------------------------------------
(* The gate, in two readings of the ledger                                 *)

ReadBooked(e) ==
  /\ ~ SummaryRaises
  /\ reading' = [reading EXCEPT ![e] = Booked]
  /\ UNCHANGED <<ledgerVars, bill>>

\* Mutant: the cap itself may still be spent.
Passes_AtCap(e) == reading[e] + InFlight <= Cap

\* A row that another thread closes between the readings is in neither.
Passes(e) == reading[e] + InFlight < Cap

ForgetReading(e) ==
  /\ reading' = [reading EXCEPT ![e] = 0]
  /\ UNCHANGED <<ledgerVars, bill>>

-----------------------------------------------------------------------------
(* A renter's box; it costs nothing here before its row                    *)

RentedRow(e) ==
  /\ open' = open \cup {e}
  /\ UNCHANGED <<flight, booked, leftover, phantom, reading, bill>>

\* rent()'s finally: the bill is made out before the destroy loop.
MakeBill(e) ==
  /\ bill' = [bill EXCEPT ![e] = flight[e]]
  /\ UNCHANGED <<ledgerVars, reading>>

\* The destroyed row, whatever the verification said.
DestroyedRow(e) ==
  /\ open' = open \ {e}
  /\ flight' = [flight EXCEPT ![e] = 0]
  /\ booked' = booked + bill[e]
  /\ bill' = [bill EXCEPT ![e] = 0]
  /\ UNCHANGED <<leftover, phantom, reading>>

\* Mutant: a rental without a timeout.
Tick_Endless ==
  /\ open # {} \/ (leftover = "open" /\ phantom < Cap)
  /\ flight' = [e \in Renters |-> IF e \in open THEN flight[e] + 1 ELSE flight[e]]
  /\ phantom' = IF leftover = "open" /\ phantom < Cap THEN phantom + 1 ELSE phantom
  /\ UNCHANGED <<open, booked, leftover, gateVars>>

\* A tick for every open row.  A phantom at the cap refuses every rent already.
Tick ==
  /\ open # {} \/ (leftover = "open" /\ phantom < Cap)
  /\ \A e \in open : flight[e] < MaxRun
  /\ flight' = [e \in Renters |-> IF e \in open THEN flight[e] + 1 ELSE flight[e]]
  /\ phantom' = IF leftover = "open" /\ phantom < Cap THEN phantom + 1 ELSE phantom
  /\ UNCHANGED <<open, booked, leftover, gateVars>>

\* reap closes the row left over: its box was alive and is destroyed, at its price,
\* or is absent from the listing, at none.
CloseLeftover ==
  /\ leftover = "open"
  /\ \/ leftover' = "closed" /\ UNCHANGED phantom
     \/ leftover' = "vanished" /\ phantom' = 0
  /\ UNCHANGED <<open, flight, booked, gateVars>>

BudgetInit ==
  /\ open = {} /\ booked = 0 /\ phantom = 0
  /\ leftover \in Leftovers
  /\ flight  = [e \in Renters |-> 0]
  /\ reading = [e \in Renters |-> 0]
  /\ bill    = [e \in Renters |-> 0]

-----------------------------------------------------------------------------
(* Properties                                                              *)

\* What the campaign's own boxes cost by the ledger stays below the cap and one
\* rental's length for every renter, whatever the gates read and in whatever order
\* they pass: the overshoot of CappedProvider is one box per renter, no more.
OvershootIsBounded == booked + Burning < Cap + Cardinality(Renters) * MaxRun

=============================================================================
