---------------------------- MODULE RentalProofs ----------------------------
(***************************************************************************)
(* What holds of module Rental for any number of callers, instances and    *)
(* attempts.  The inductive invariant says, phase by phase, what a caller  *)
(* already knows about its instance; the properties of the runs follow     *)
(* from it.  What they say of teardown they say where the listing is       *)
(* prompt: "lie" and "lost_reply" are allowed, "lag" is not.  The last     *)
(* part shows that Rental implements RentContract.                         *)
(***************************************************************************)
EXTENDS Rental, FiniteSetTheorems, TLAPS

\* Past create's return, a caller inside rent() holds a placed instance.
Holding(r) == pc[r] \in {"created", "waiting", "using", "destroying",
                         "verifying", "recording"}

\* Past its `rented` row.
OnRecord(r) == Holding(r) /\ pc[r] # "created"

BoxInv == \A r \in Renters : Holding(r) => box[r] \in Ids

HoldersInv ==
  \A r \in Renters :
    /\ Holding(r) => cloud[box[r]] # "none"
    /\ OnRecord(r) => box[r] \in Seen(ledger)
    /\ pc[r] \in {"idle", "creating"} => box[r] = None

\* A verdict and a row that say "gone" are true.
VerdictInv ==
  \A r \in Renters :
    pc[r] = "recording" =>
      /\ verify[r] # "unset"
      /\ verify[r] = "gone" => cloud[box[r]] = "gone"

RowsInv ==
  /\ \A i \in ConfirmedGone(ledger) : cloud[i] = "gone"
  /\ \A i \in Seen(ledger) : cloud[i] # "none"
  /\ \A i \in Ids : Alive(i) => i \in listed
  /\ \A i \in Ids : Alive(i) =>
       i \in Seen(ledger) \/ i \in blind \/ \E r \in Renters : pc[r] = "created" /\ box[r] = i
  /\ \A i \in blind : cloud[i] # "none"

\* What a finished rent() leaves behind.
FinishedInv ==
  \A r \in Renters :
    pc[r] = "done" =>
      /\ result[r] = "leak_risk" => box[r] \in Seen(ledger)
      /\ box[r] # None => \/ box[r] \in blind
                          \/ /\ box[r] \in Ids
                             /\ cloud[box[r]] # "none"
                             /\ \/ result[r] = "leak_risk"
                                \/ verify[r] = "unverified"
                                \/ cloud[box[r]] = "gone"

\* A rent() still asking has been given nothing: at most one instance in all.
PlacedInv ==
  \A r \in Renters :
    /\ pc[r] = "creating" => made[r] = {}
    /\ made[r] = {} \/ \E i \in Ids : made[r] = {i}

IInv == HoldersInv /\ VerdictInv /\ RowsInv /\ FinishedInv /\ PlacedInv

-----------------------------------------------------------------------------
(* Type correctness                                                        *)

\* The state of Rental stays well-typed: attempts counted within their bound
\* and every row about an instance the cloud handed out.
TypeAndBox == RentalTypeOK /\ BoxInv

\* Every step keeps the types.
LEMMA TypesKept ==
  ASSUME TypeAndBox, [RentalNext]_rentalVars
  PROVE  TypeAndBox'
<1> USE RentalAssumption
<1> USE DEF TypeAndBox, BoxInv, Holding, RentalTypeOK, Phases, Outcomes, Results, callerVars, worldVars, envVars
<1>1. ASSUME NEW r \in Renters, BeginRent(r) PROVE TypeAndBox'
  BY <1>1 DEF BeginRent, ForgetCaller, Inside, Verdicts
<1>2. ASSUME NEW r \in Renters, CreateSucceeds(r) PROVE TypeAndBox'
  BY <1>2 DEF CreateSucceeds, Place
<1>3. ASSUME NEW r \in Renters, CreateFails(r) PROVE TypeAndBox'
  BY <1>3 DEF CreateFails, AfterFailedCreate, CreateFailure
<1>4. ASSUME NEW r \in Renters, CreateReplyLost(r) PROVE TypeAndBox'
  BY <1>4 DEF CreateReplyLost, AfterFailedCreate, CreateFailure, Place
<1>5. ASSUME NEW r \in Renters, RecordRented(r) PROVE TypeAndBox'
  BY <1>5 DEF RecordRented, Record, Row, Verdicts
<1>6. ASSUME NEW r \in Renters, FailBeforeTry(r) PROVE TypeAndBox'
  BY <1>6 DEF FailBeforeTry
<1>7. ASSUME NEW r \in Renters, HostComesUp(r) PROVE TypeAndBox'
  BY <1>7 DEF HostComesUp
<1>8. ASSUME NEW r \in Renters, WaitFails(r) PROVE TypeAndBox'
  BY <1>8 DEF WaitFails, EnterFinally
<1>9. ASSUME NEW r \in Renters, UseEnds(r) PROVE TypeAndBox'
  BY <1>9 DEF UseEnds, EnterFinally
<1>10. ASSUME NEW r \in Renters, DestroyAttempt(r) PROVE TypeAndBox'
  BY <1>10 DEF DestroyAttempt, DeleteCall
<1>11. ASSUME NEW r \in Renters, VerifyTeardown(r) PROVE TypeAndBox'
  BY <1>11 DEF VerifyTeardown, Verdicts
<1>12. ASSUME NEW r \in Renters, RecordDestroyed(r) PROVE TypeAndBox'
  BY <1>12 DEF RecordDestroyed, Record, Row, RentResult, Verdicts
<1>13. ASSUME NEW r \in Renters, Kill(r) PROVE TypeAndBox'
  BY <1>13 DEF Kill, ForgetCaller, Inside, Verdicts
<1>14. ASSUME NEW r \in Renters, KillInFlight(r) PROVE TypeAndBox'
  BY <1>14 DEF KillInFlight, ForgetCaller, Place, Verdicts
<1>15. ASSUME NEW i \in Ids, CloudStep(i) PROVE TypeAndBox'
  BY <1>15 DEF CloudStep, Evict, Surface
<1>16. CASE UNCHANGED rentalVars
  BY <1>16 DEF rentalVars
<1>17. QED
  BY <1>1, <1>2, <1>3, <1>4, <1>5, <1>6, <1>7, <1>8, <1>9, <1>10, <1>11, <1>12, <1>13, <1>14, <1>15, <1>16 DEF RentalNext, RenterStep

\* Type correctness of every reachable state.
THEOREM RentalTypeCorrect == RentalSpec => [](RentalTypeOK /\ BoxInv)
<1> USE RentalAssumption
<1>1. RentalInit => TypeAndBox
  BY DEF RentalInit, TypeAndBox, BoxInv, Holding, RentalTypeOK, Phases, Verdicts, Outcomes, Results
<1>2. TypeAndBox /\ [RentalNext]_rentalVars => TypeAndBox'
  BY TypesKept
<1>3. TypeAndBox => RentalTypeOK /\ BoxInv
  BY DEF TypeAndBox
<1>4. QED
  BY <1>1, <1>2, <1>3, PTL DEF RentalSpec

-----------------------------------------------------------------------------
(* The ledger's facts                                                      *)

\* Appending a `rented` row puts its instance on record and clears nothing.
LEMMA RentedRow ==
  ASSUME NEW i \in Ids, Record("rented", i, "unset")
  PROVE  /\ Seen(ledger') = Seen(ledger) \cup {i}
         /\ ConfirmedGone(ledger') = ConfirmedGone(ledger)
<1> DEFINE new == [event |-> "rented", id |-> i, verify |-> "unset", by |-> "driver"]
<1>1. ledger' = ledger \cup {new}
  BY DEF Record
<1>2. new.id = i /\ new.event = "rented"
  OBVIOUS
<1> HIDE DEF new
<1>3. Seen(ledger') = Seen(ledger) \cup {i}
  BY <1>1, <1>2 DEF Seen
<1>4. ConfirmedGone(ledger') = ConfirmedGone(ledger)
  BY <1>1, <1>2 DEF ConfirmedGone
<1>5. QED
  BY <1>3, <1>4

\* Appending a `destroyed` row clears its instance exactly when it says "gone".
LEMMA DestroyedRow ==
  ASSUME NEW i \in Ids, NEW v, Record("destroyed", i, v)
  PROVE  /\ Seen(ledger') = Seen(ledger)
         /\ ConfirmedGone(ledger') =
              IF v = "gone" THEN ConfirmedGone(ledger) \cup {i} ELSE ConfirmedGone(ledger)
<1> DEFINE new == [event |-> "destroyed", id |-> i, verify |-> v, by |-> "driver"]
<1>1. ledger' = ledger \cup {new}
  BY DEF Record
<1>2. new.id = i /\ new.event = "destroyed" /\ new.verify = v
  OBVIOUS
<1> HIDE DEF new
<1>3. Seen(ledger') = Seen(ledger)
  BY <1>1, <1>2 DEF Seen
<1>4. CASE v = "gone"
  BY <1>1, <1>2, <1>3, <1>4 DEF ConfirmedGone
<1>5. CASE v # "gone"
  BY <1>1, <1>2, <1>3, <1>5 DEF ConfirmedGone
<1>6. QED
  BY <1>4, <1>5

-----------------------------------------------------------------------------
(* The inductive invariant                                                 *)

LEMMA InitEstablishesIInv == RentalInit => IInv
  BY DEF RentalInit, IInv, HoldersInv, VerdictInv, RowsInv, FinishedInv, PlacedInv,
         Holding, OnRecord, Seen, ConfirmedGone, Alive

LEMMA BeginRentKeepsIInv ==
  ASSUME TypeAndBox, TypeAndBox', IInv, PromptListing, NEW r \in Renters, BeginRent(r)
  PROVE  IInv'
<1> USE RentalAssumption DEF BeginRent, ForgetCaller, Inside, TypeAndBox, BoxInv, RentalTypeOK,
        Holding, OnRecord, Alive, PromptListing, callerVars, worldVars, envVars
<1>1. ledger' = ledger
  OBVIOUS
<1>2. Seen(ledger') = Seen(ledger) /\ ConfirmedGone(ledger') = ConfirmedGone(ledger)
  BY <1>1
<1>3. HoldersInv'
  BY <1>1, <1>2 DEF IInv, HoldersInv, VerdictInv, RowsInv, FinishedInv, PlacedInv
<1>4. VerdictInv'
  BY <1>1, <1>2 DEF IInv, HoldersInv, VerdictInv, RowsInv, FinishedInv, PlacedInv
<1>5. RowsInv'
  BY <1>1, <1>2 DEF IInv, HoldersInv, VerdictInv, RowsInv, FinishedInv, PlacedInv
<1>6. FinishedInv'
  BY <1>1, <1>2 DEF IInv, HoldersInv, VerdictInv, RowsInv, FinishedInv, PlacedInv
<1>7. PlacedInv'
  BY <1>1, <1>2 DEF IInv, HoldersInv, VerdictInv, RowsInv, FinishedInv, PlacedInv
<1>8. QED
  BY <1>3, <1>4, <1>5, <1>6, <1>7 DEF IInv

LEMMA CreateSucceedsKeepsIInv ==
  ASSUME TypeAndBox, TypeAndBox', IInv, PromptListing, NEW r \in Renters, CreateSucceeds(r)
  PROVE  IInv'
<1> USE RentalAssumption DEF CreateSucceeds, Place, TypeAndBox, BoxInv, RentalTypeOK,
        Holding, OnRecord, Alive, PromptListing, callerVars, worldVars, envVars
<1>1. ledger' = ledger
  OBVIOUS
<1>2. Seen(ledger') = Seen(ledger) /\ ConfirmedGone(ledger') = ConfirmedGone(ledger)
  BY <1>1
<1>3. HoldersInv'
  BY <1>1, <1>2 DEF IInv, HoldersInv, VerdictInv, RowsInv, FinishedInv, PlacedInv
<1>4. VerdictInv'
  BY <1>1, <1>2 DEF IInv, HoldersInv, VerdictInv, RowsInv, FinishedInv, PlacedInv
<1>5. RowsInv'
  BY <1>1, <1>2 DEF IInv, HoldersInv, VerdictInv, RowsInv, FinishedInv, PlacedInv
<1>6. FinishedInv'
  BY <1>1, <1>2 DEF IInv, HoldersInv, VerdictInv, RowsInv, FinishedInv, PlacedInv
<1>7. PlacedInv'
  BY <1>1, <1>2 DEF IInv, HoldersInv, VerdictInv, RowsInv, FinishedInv, PlacedInv
<1>8. QED
  BY <1>3, <1>4, <1>5, <1>6, <1>7 DEF IInv

LEMMA CreateFailsKeepsIInv ==
  ASSUME TypeAndBox, TypeAndBox', IInv, PromptListing, NEW r \in Renters, CreateFails(r)
  PROVE  IInv'
<1> USE RentalAssumption DEF CreateFails, AfterFailedCreate, CreateFailure, TypeAndBox, BoxInv, RentalTypeOK,
        Holding, OnRecord, Alive, PromptListing, callerVars, worldVars, envVars
<1>1. ledger' = ledger
  OBVIOUS
<1>2. Seen(ledger') = Seen(ledger) /\ ConfirmedGone(ledger') = ConfirmedGone(ledger)
  BY <1>1
<1>3. HoldersInv'
  BY <1>1, <1>2 DEF IInv, HoldersInv, VerdictInv, RowsInv, FinishedInv, PlacedInv
<1>4. VerdictInv'
  BY <1>1, <1>2 DEF IInv, HoldersInv, VerdictInv, RowsInv, FinishedInv, PlacedInv
<1>5. RowsInv'
  BY <1>1, <1>2 DEF IInv, HoldersInv, VerdictInv, RowsInv, FinishedInv, PlacedInv
<1>6. FinishedInv'
  BY <1>1, <1>2 DEF IInv, HoldersInv, VerdictInv, RowsInv, FinishedInv, PlacedInv
<1>7. PlacedInv'
  BY <1>1, <1>2 DEF IInv, HoldersInv, VerdictInv, RowsInv, FinishedInv, PlacedInv
<1>8. QED
  BY <1>3, <1>4, <1>5, <1>6, <1>7 DEF IInv

LEMMA CreateReplyLostKeepsIInv ==
  ASSUME TypeAndBox, TypeAndBox', IInv, PromptListing, NEW r \in Renters, CreateReplyLost(r)
  PROVE  IInv'
<1> USE RentalAssumption DEF CreateReplyLost, AfterFailedCreate, CreateFailure, Place, Resent, TypeAndBox, BoxInv, RentalTypeOK,
        Holding, OnRecord, Alive, PromptListing, callerVars, worldVars, envVars
<1>1. ledger' = ledger
  OBVIOUS
<1>2. Seen(ledger') = Seen(ledger) /\ ConfirmedGone(ledger') = ConfirmedGone(ledger)
  BY <1>1
<1>3. HoldersInv'
  BY <1>1, <1>2 DEF IInv, HoldersInv, VerdictInv, RowsInv, FinishedInv, PlacedInv
<1>4. VerdictInv'
  BY <1>1, <1>2 DEF IInv, HoldersInv, VerdictInv, RowsInv, FinishedInv, PlacedInv
<1>5. RowsInv'
  BY <1>1, <1>2 DEF IInv, HoldersInv, VerdictInv, RowsInv, FinishedInv, PlacedInv
<1>6. FinishedInv'
  BY <1>1, <1>2 DEF IInv, HoldersInv, VerdictInv, RowsInv, FinishedInv, PlacedInv
<1>7. PlacedInv'
  BY <1>1, <1>2 DEF IInv, HoldersInv, VerdictInv, RowsInv, FinishedInv, PlacedInv
<1>8. QED
  BY <1>3, <1>4, <1>5, <1>6, <1>7 DEF IInv

LEMMA RecordRentedKeepsIInv ==
  ASSUME TypeAndBox, TypeAndBox', IInv, PromptListing, NEW r \in Renters, RecordRented(r)
  PROVE  IInv'
<1> USE RentalAssumption DEF RecordRented, TypeAndBox, BoxInv, RentalTypeOK,
        Holding, OnRecord, Alive, PromptListing, callerVars, worldVars, envVars
<1>1. box[r] \in Ids
  OBVIOUS
<1>2. Seen(ledger') = Seen(ledger) \cup {box[r]} /\ ConfirmedGone(ledger') = ConfirmedGone(ledger)
  BY <1>1, RentedRow
<1>3. HoldersInv'
  BY <1>1, <1>2 DEF IInv, HoldersInv, VerdictInv, RowsInv, FinishedInv, PlacedInv
<1>4. VerdictInv'
  BY <1>1, <1>2 DEF IInv, HoldersInv, VerdictInv, RowsInv, FinishedInv, PlacedInv
<1>5. RowsInv'
  BY <1>1, <1>2 DEF IInv, HoldersInv, VerdictInv, RowsInv, FinishedInv, PlacedInv
<1>6. FinishedInv'
  BY <1>1, <1>2 DEF IInv, HoldersInv, VerdictInv, RowsInv, FinishedInv, PlacedInv
<1>7. PlacedInv'
  BY <1>1, <1>2 DEF IInv, HoldersInv, VerdictInv, RowsInv, FinishedInv, PlacedInv
<1>8. QED
  BY <1>3, <1>4, <1>5, <1>6, <1>7 DEF IInv

LEMMA FailBeforeTryKeepsIInv ==
  ASSUME TypeAndBox, TypeAndBox', IInv, PromptListing, NEW r \in Renters, FailBeforeTry(r)
  PROVE  IInv'
<1> USE RentalAssumption DEF FailBeforeTry, TypeAndBox, BoxInv, RentalTypeOK,
        Holding, OnRecord, Alive, PromptListing, callerVars, worldVars, envVars
<1>1. ledger' = ledger
  OBVIOUS
<1>2. Seen(ledger') = Seen(ledger) /\ ConfirmedGone(ledger') = ConfirmedGone(ledger)
  BY <1>1
<1>3. HoldersInv'
  BY <1>1, <1>2 DEF IInv, HoldersInv, VerdictInv, RowsInv, FinishedInv, PlacedInv
<1>4. VerdictInv'
  BY <1>1, <1>2 DEF IInv, HoldersInv, VerdictInv, RowsInv, FinishedInv, PlacedInv
<1>5. RowsInv'
  BY <1>1, <1>2 DEF IInv, HoldersInv, VerdictInv, RowsInv, FinishedInv, PlacedInv
<1>6. FinishedInv'
  BY <1>1, <1>2 DEF IInv, HoldersInv, VerdictInv, RowsInv, FinishedInv, PlacedInv
<1>7. PlacedInv'
  BY <1>1, <1>2 DEF IInv, HoldersInv, VerdictInv, RowsInv, FinishedInv, PlacedInv
<1>8. QED
  BY <1>3, <1>4, <1>5, <1>6, <1>7 DEF IInv

LEMMA HostComesUpKeepsIInv ==
  ASSUME TypeAndBox, TypeAndBox', IInv, PromptListing, NEW r \in Renters, HostComesUp(r)
  PROVE  IInv'
<1> USE RentalAssumption DEF HostComesUp, TypeAndBox, BoxInv, RentalTypeOK,
        Holding, OnRecord, Alive, PromptListing, callerVars, worldVars, envVars
<1>1. ledger' = ledger
  OBVIOUS
<1>2. Seen(ledger') = Seen(ledger) /\ ConfirmedGone(ledger') = ConfirmedGone(ledger)
  BY <1>1
<1>3. HoldersInv'
  BY <1>1, <1>2 DEF IInv, HoldersInv, VerdictInv, RowsInv, FinishedInv, PlacedInv
<1>4. VerdictInv'
  BY <1>1, <1>2 DEF IInv, HoldersInv, VerdictInv, RowsInv, FinishedInv, PlacedInv
<1>5. RowsInv'
  BY <1>1, <1>2 DEF IInv, HoldersInv, VerdictInv, RowsInv, FinishedInv, PlacedInv
<1>6. FinishedInv'
  BY <1>1, <1>2 DEF IInv, HoldersInv, VerdictInv, RowsInv, FinishedInv, PlacedInv
<1>7. PlacedInv'
  BY <1>1, <1>2 DEF IInv, HoldersInv, VerdictInv, RowsInv, FinishedInv, PlacedInv
<1>8. QED
  BY <1>3, <1>4, <1>5, <1>6, <1>7 DEF IInv

LEMMA WaitFailsKeepsIInv ==
  ASSUME TypeAndBox, TypeAndBox', IInv, PromptListing, NEW r \in Renters, WaitFails(r)
  PROVE  IInv'
<1> USE RentalAssumption DEF WaitFails, EnterFinally, TypeAndBox, BoxInv, RentalTypeOK,
        Holding, OnRecord, Alive, PromptListing, callerVars, worldVars, envVars
<1>1. ledger' = ledger
  OBVIOUS
<1>2. Seen(ledger') = Seen(ledger) /\ ConfirmedGone(ledger') = ConfirmedGone(ledger)
  BY <1>1
<1>3. HoldersInv'
  BY <1>1, <1>2 DEF IInv, HoldersInv, VerdictInv, RowsInv, FinishedInv, PlacedInv
<1>4. VerdictInv'
  BY <1>1, <1>2 DEF IInv, HoldersInv, VerdictInv, RowsInv, FinishedInv, PlacedInv
<1>5. RowsInv'
  BY <1>1, <1>2 DEF IInv, HoldersInv, VerdictInv, RowsInv, FinishedInv, PlacedInv
<1>6. FinishedInv'
  BY <1>1, <1>2 DEF IInv, HoldersInv, VerdictInv, RowsInv, FinishedInv, PlacedInv
<1>7. PlacedInv'
  BY <1>1, <1>2 DEF IInv, HoldersInv, VerdictInv, RowsInv, FinishedInv, PlacedInv
<1>8. QED
  BY <1>3, <1>4, <1>5, <1>6, <1>7 DEF IInv

LEMMA UseEndsKeepsIInv ==
  ASSUME TypeAndBox, TypeAndBox', IInv, PromptListing, NEW r \in Renters, UseEnds(r)
  PROVE  IInv'
<1> USE RentalAssumption DEF UseEnds, EnterFinally, TypeAndBox, BoxInv, RentalTypeOK,
        Holding, OnRecord, Alive, PromptListing, callerVars, worldVars, envVars
<1>1. ledger' = ledger
  OBVIOUS
<1>2. Seen(ledger') = Seen(ledger) /\ ConfirmedGone(ledger') = ConfirmedGone(ledger)
  BY <1>1
<1>3. HoldersInv'
  BY <1>1, <1>2 DEF IInv, HoldersInv, VerdictInv, RowsInv, FinishedInv, PlacedInv
<1>4. VerdictInv'
  BY <1>1, <1>2 DEF IInv, HoldersInv, VerdictInv, RowsInv, FinishedInv, PlacedInv
<1>5. RowsInv'
  BY <1>1, <1>2 DEF IInv, HoldersInv, VerdictInv, RowsInv, FinishedInv, PlacedInv
<1>6. FinishedInv'
  BY <1>1, <1>2 DEF IInv, HoldersInv, VerdictInv, RowsInv, FinishedInv, PlacedInv
<1>7. PlacedInv'
  BY <1>1, <1>2 DEF IInv, HoldersInv, VerdictInv, RowsInv, FinishedInv, PlacedInv
<1>8. QED
  BY <1>3, <1>4, <1>5, <1>6, <1>7 DEF IInv

LEMMA DestroyAttemptKeepsIInv ==
  ASSUME TypeAndBox, TypeAndBox', IInv, PromptListing, NEW r \in Renters, DestroyAttempt(r)
  PROVE  IInv'
<1> USE RentalAssumption DEF DestroyAttempt, DeleteCall, TypeAndBox, BoxInv, RentalTypeOK,
        Holding, OnRecord, Alive, PromptListing, callerVars, worldVars, envVars
<1>1. ledger' = ledger
  OBVIOUS
<1>2. Seen(ledger') = Seen(ledger) /\ ConfirmedGone(ledger') = ConfirmedGone(ledger)
  BY <1>1
<1>3. HoldersInv'
  BY <1>1, <1>2 DEF IInv, HoldersInv, VerdictInv, RowsInv, FinishedInv, PlacedInv
<1>4. VerdictInv'
  BY <1>1, <1>2 DEF IInv, HoldersInv, VerdictInv, RowsInv, FinishedInv, PlacedInv
<1>5. RowsInv'
  <2>1. \A j \in ConfirmedGone(ledger') : cloud'[j] = "gone"
    BY <1>1, <1>2 DEF IInv, HoldersInv, VerdictInv, RowsInv, ConfirmedGone
  <2>2. \A j \in Seen(ledger') : cloud'[j] # "none"
    BY <1>1, <1>2 DEF IInv, HoldersInv, RowsInv, Seen
  <2>3. \A j \in Ids : Alive(j)' => j \in listed'
    BY <1>1, <1>2 DEF IInv, RowsInv
  <2>4. \A j \in Ids : Alive(j)' =>
          j \in Seen(ledger') \/ j \in blind' \/ \E q \in Renters : pc'[q] = "created" /\ box'[q] = j
    BY <1>1, <1>2 DEF IInv, RowsInv, HoldersInv
  <2>5. \A j \in blind' : cloud'[j] # "none"
    BY <1>1, <1>2 DEF IInv, RowsInv
  <2>6. QED
    BY <2>1, <2>2, <2>3, <2>4, <2>5 DEF RowsInv
<1>6. FinishedInv'
  BY <1>1, <1>2 DEF IInv, HoldersInv, VerdictInv, RowsInv, FinishedInv, PlacedInv
<1>7. PlacedInv'
  BY <1>1, <1>2 DEF IInv, HoldersInv, VerdictInv, RowsInv, FinishedInv, PlacedInv
<1>8. QED
  BY <1>3, <1>4, <1>5, <1>6, <1>7 DEF IInv

LEMMA VerifyTeardownKeepsIInv ==
  ASSUME TypeAndBox, TypeAndBox', IInv, PromptListing, NEW r \in Renters, VerifyTeardown(r)
  PROVE  IInv'
<1> USE RentalAssumption DEF VerifyTeardown, Listing, TypeAndBox, BoxInv, RentalTypeOK,
        Holding, OnRecord, Alive, PromptListing, callerVars, worldVars, envVars
<1>1. ledger' = ledger
  OBVIOUS
<1>2. Seen(ledger') = Seen(ledger) /\ ConfirmedGone(ledger') = ConfirmedGone(ledger)
  BY <1>1
<1>3. HoldersInv'
  BY <1>1, <1>2 DEF IInv, HoldersInv, VerdictInv, RowsInv, FinishedInv, PlacedInv
<1>4. VerdictInv'
  BY <1>1, <1>2 DEF IInv, HoldersInv, VerdictInv, RowsInv, FinishedInv, PlacedInv
<1>5. RowsInv'
  BY <1>1, <1>2 DEF IInv, HoldersInv, VerdictInv, RowsInv, FinishedInv, PlacedInv
<1>6. FinishedInv'
  BY <1>1, <1>2 DEF IInv, HoldersInv, VerdictInv, RowsInv, FinishedInv, PlacedInv
<1>7. PlacedInv'
  BY <1>1, <1>2 DEF IInv, HoldersInv, VerdictInv, RowsInv, FinishedInv, PlacedInv
<1>8. QED
  BY <1>3, <1>4, <1>5, <1>6, <1>7 DEF IInv

LEMMA RecordDestroyedKeepsIInv ==
  ASSUME TypeAndBox, TypeAndBox', IInv, PromptListing, NEW r \in Renters, RecordDestroyed(r)
  PROVE  IInv'
<1> USE RentalAssumption DEF RecordDestroyed, RentResult, TypeAndBox, BoxInv, RentalTypeOK,
        Holding, OnRecord, Alive, PromptListing, callerVars, worldVars, envVars
<1>1. box[r] \in Ids
  OBVIOUS
<1>2. /\ Seen(ledger') = Seen(ledger)
      /\ ConfirmedGone(ledger') =
           IF verify[r] = "gone" THEN ConfirmedGone(ledger) \cup {box[r]} ELSE ConfirmedGone(ledger)
  BY <1>1, DestroyedRow
<1>3. HoldersInv'
  BY <1>1, <1>2 DEF IInv, HoldersInv, VerdictInv, RowsInv, FinishedInv, PlacedInv
<1>4. VerdictInv'
  BY <1>1, <1>2 DEF IInv, HoldersInv, VerdictInv, RowsInv, FinishedInv, PlacedInv
<1>5. RowsInv'
  <2>1. \A j \in ConfirmedGone(ledger') : cloud'[j] = "gone"
    BY <1>1, <1>2 DEF IInv, HoldersInv, VerdictInv, RowsInv, ConfirmedGone
  <2>2. \A j \in Seen(ledger') : cloud'[j] # "none"
    BY <1>1, <1>2 DEF IInv, HoldersInv, RowsInv, Seen
  <2>3. \A j \in Ids : Alive(j)' => j \in listed'
    BY <1>1, <1>2 DEF IInv, RowsInv
  <2>4. \A j \in Ids : Alive(j)' =>
          j \in Seen(ledger') \/ j \in blind' \/ \E q \in Renters : pc'[q] = "created" /\ box'[q] = j
    BY <1>1, <1>2 DEF IInv, RowsInv, HoldersInv
  <2>5. \A j \in blind' : cloud'[j] # "none"
    BY <1>1, <1>2 DEF IInv, RowsInv
  <2>6. QED
    BY <2>1, <2>2, <2>3, <2>4, <2>5 DEF RowsInv
<1>6. FinishedInv'
  <2>1. verify[r] \in {"gone", "present", "unverified"} /\ cloud[box[r]] # "none"
    BY DEF IInv, VerdictInv, HoldersInv, Verdicts
  <2>2. result'[r] = "leak_risk" \/ verify[r] = "unverified" \/ cloud[box[r]] = "gone"
    BY <2>1 DEF IInv, VerdictInv
  <2>3. QED
    <3>1. ASSUME NEW q \in Renters, q # r, pc'[q] = "done"
          PROVE  /\ pc[q] = "done" /\ result'[q] = result[q] /\ box'[q] = box[q]
                 /\ verify'[q] = verify[q]
      BY <3>1
    <3>2. box'[r] = box[r] /\ verify'[r] = verify[r] /\ box[r] \in Seen(ledger')
      BY <1>2 DEF IInv, HoldersInv
    <3>3. cloud' = cloud /\ blind' = blind
      OBVIOUS
    <3> HIDE DEF RecordDestroyed, RentResult, TypeAndBox, BoxInv, RentalTypeOK, Alive
    <3>4. ASSUME NEW q \in Renters, q # r, pc'[q] = "done"
          PROVE  /\ result'[q] = "leak_risk" => box'[q] \in Seen(ledger')
                 /\ box'[q] # None => \/ box'[q] \in blind'
                                       \/ /\ box'[q] \in Ids
                                          /\ cloud'[box'[q]] # "none"
                                          /\ \/ result'[q] = "leak_risk"
                                             \/ verify'[q] = "unverified"
                                             \/ cloud'[box'[q]] = "gone"
      BY <1>2, <3>1, <3>3, <3>4 DEF IInv, FinishedInv
    <3>5. QED
      BY <1>1, <2>1, <2>2, <3>2, <3>3, <3>4 DEF FinishedInv
<1>7. PlacedInv'
  BY <1>1, <1>2 DEF IInv, HoldersInv, VerdictInv, RowsInv, FinishedInv, PlacedInv
<1>8. QED
  BY <1>3, <1>4, <1>5, <1>6, <1>7 DEF IInv

LEMMA KillKeepsIInv ==
  ASSUME TypeAndBox, TypeAndBox', IInv, PromptListing, NEW r \in Renters, Kill(r)
  PROVE  IInv'
<1> USE RentalAssumption DEF Kill, ForgetCaller, Inside, TypeAndBox, BoxInv, RentalTypeOK,
        Holding, OnRecord, Alive, PromptListing, callerVars, worldVars, envVars
<1>1. ledger' = ledger
  OBVIOUS
<1>2. Seen(ledger') = Seen(ledger) /\ ConfirmedGone(ledger') = ConfirmedGone(ledger)
  BY <1>1
<1>3. HoldersInv'
  BY <1>1, <1>2 DEF IInv, HoldersInv, VerdictInv, RowsInv, FinishedInv, PlacedInv
<1>4. VerdictInv'
  BY <1>1, <1>2 DEF IInv, HoldersInv, VerdictInv, RowsInv, FinishedInv, PlacedInv
<1>5. RowsInv'
  BY <1>1, <1>2 DEF IInv, HoldersInv, VerdictInv, RowsInv, FinishedInv, PlacedInv
<1>6. FinishedInv'
  BY <1>1, <1>2 DEF IInv, HoldersInv, VerdictInv, RowsInv, FinishedInv, PlacedInv
<1>7. PlacedInv'
  BY <1>1, <1>2 DEF IInv, HoldersInv, VerdictInv, RowsInv, FinishedInv, PlacedInv
<1>8. QED
  BY <1>3, <1>4, <1>5, <1>6, <1>7 DEF IInv

LEMMA KillInFlightKeepsIInv ==
  ASSUME TypeAndBox, TypeAndBox', IInv, PromptListing, NEW r \in Renters, KillInFlight(r)
  PROVE  IInv'
<1> USE RentalAssumption DEF KillInFlight, ForgetCaller, Place, TypeAndBox, BoxInv, RentalTypeOK,
        Holding, OnRecord, Alive, PromptListing, callerVars, worldVars, envVars
<1>1. ledger' = ledger
  OBVIOUS
<1>2. Seen(ledger') = Seen(ledger) /\ ConfirmedGone(ledger') = ConfirmedGone(ledger)
  BY <1>1
<1>3. HoldersInv'
  BY <1>1, <1>2 DEF IInv, HoldersInv, VerdictInv, RowsInv, FinishedInv, PlacedInv
<1>4. VerdictInv'
  BY <1>1, <1>2 DEF IInv, HoldersInv, VerdictInv, RowsInv, FinishedInv, PlacedInv
<1>5. RowsInv'
  BY <1>1, <1>2 DEF IInv, HoldersInv, VerdictInv, RowsInv, FinishedInv, PlacedInv
<1>6. FinishedInv'
  BY <1>1, <1>2 DEF IInv, HoldersInv, VerdictInv, RowsInv, FinishedInv, PlacedInv
<1>7. PlacedInv'
  BY <1>1, <1>2 DEF IInv, HoldersInv, VerdictInv, RowsInv, FinishedInv, PlacedInv
<1>8. QED
  BY <1>3, <1>4, <1>5, <1>6, <1>7 DEF IInv

LEMMA CloudStepKeepsIInv ==
  ASSUME TypeAndBox, TypeAndBox', IInv, NEW i \in Ids, CloudStep(i)
  PROVE  IInv'
<1> USE DEF CloudStep, Evict, Surface, TypeAndBox, BoxInv, RentalTypeOK, Holding, OnRecord,
        Alive, callerVars, worldVars, envVars
<1>1. ledger' = ledger
  OBVIOUS
<1>2. Seen(ledger') = Seen(ledger) /\ ConfirmedGone(ledger') = ConfirmedGone(ledger)
  BY <1>1
<1>3. HoldersInv'
  BY <1>1, <1>2 DEF IInv, HoldersInv, VerdictInv, RowsInv, FinishedInv, PlacedInv
<1>4. VerdictInv'
  BY <1>1, <1>2 DEF IInv, HoldersInv, VerdictInv, RowsInv, FinishedInv, PlacedInv
<1>5. RowsInv'
  <2>1. \A j \in ConfirmedGone(ledger') : cloud'[j] = "gone"
    BY <1>1, <1>2 DEF IInv, HoldersInv, VerdictInv, RowsInv, ConfirmedGone
  <2>2. \A j \in Seen(ledger') : cloud'[j] # "none"
    BY <1>1, <1>2 DEF IInv, HoldersInv, RowsInv, Seen
  <2>3. \A j \in Ids : Alive(j)' => j \in listed'
    BY <1>1, <1>2 DEF IInv, RowsInv
  <2>4. \A j \in Ids : Alive(j)' =>
          j \in Seen(ledger') \/ j \in blind' \/ \E q \in Renters : pc'[q] = "created" /\ box'[q] = j
    BY <1>1, <1>2 DEF IInv, RowsInv, HoldersInv
  <2>5. \A j \in blind' : cloud'[j] # "none"
    BY <1>1, <1>2 DEF IInv, RowsInv
  <2>6. QED
    BY <2>1, <2>2, <2>3, <2>4, <2>5 DEF RowsInv
<1>6. FinishedInv'
  BY <1>1, <1>2 DEF IInv, HoldersInv, VerdictInv, RowsInv, FinishedInv, PlacedInv
<1>7. PlacedInv'
  BY <1>1, <1>2 DEF IInv, HoldersInv, VerdictInv, RowsInv, FinishedInv, PlacedInv
<1>8. QED
  BY <1>3, <1>4, <1>5, <1>6, <1>7 DEF IInv

-----------------------------------------------------------------------------
(* The theorems                                                            *)

\* No step changes what the cloud's API may do.
LEMMA FaultsStay == [RentalNext]_rentalVars => (PromptListing' <=> PromptListing)
  BY DEF RentalNext, BeginRent, ForgetCaller, RenterStep, CreateSucceeds, CreateFails, CreateReplyLost,
         RecordRented, FailBeforeTry, HostComesUp, WaitFails, UseEnds, EnterFinally, DestroyAttempt,
         VerifyTeardown, RecordDestroyed, Kill, KillInFlight, CloudStep, Evict, Surface,
         PromptListing, rentalVars, envVars

\* With a prompt listing every reachable state satisfies the invariant.
THEOREM RentalInvariant == RentalSpec => [](TypeAndBox /\ (PromptListing => IInv))
<1>1. RentalInit => IInv
  BY InitEstablishesIInv
<1>2. ASSUME PromptListing, TypeAndBox, TypeAndBox', IInv, [RentalNext]_rentalVars
      PROVE  IInv'
  <2>1. CASE UNCHANGED rentalVars
    BY <1>2, <2>1 DEF rentalVars, callerVars, worldVars, envVars, IInv, HoldersInv, VerdictInv, RowsInv,
                FinishedInv, PlacedInv, Holding, OnRecord, Seen, ConfirmedGone, Alive
  <2>2. ASSUME NEW r \in Renters, RenterStep(r) PROVE IInv'
    BY <1>2, <2>2, CreateSucceedsKeepsIInv, CreateFailsKeepsIInv, CreateReplyLostKeepsIInv,
       RecordRentedKeepsIInv, FailBeforeTryKeepsIInv, HostComesUpKeepsIInv, WaitFailsKeepsIInv,
       UseEndsKeepsIInv, DestroyAttemptKeepsIInv, VerifyTeardownKeepsIInv,
       RecordDestroyedKeepsIInv
       DEF RenterStep
  <2>3. ASSUME NEW r \in Renters, BeginRent(r) \/ Kill(r) \/ KillInFlight(r) PROVE IInv'
    BY <1>2, <2>3, BeginRentKeepsIInv, KillKeepsIInv, KillInFlightKeepsIInv
  <2>4. ASSUME NEW i \in Ids, CloudStep(i) PROVE IInv'
    BY <1>2, <2>4, CloudStepKeepsIInv
  <2>5. QED
    BY <1>2, <2>1, <2>2, <2>3, <2>4 DEF RentalNext
<1>3. TypeAndBox <=> RentalTypeOK /\ BoxInv
  BY DEF TypeAndBox
<1>4. QED
  BY <1>1, <1>2, <1>3, FaultsStay, RentalTypeCorrect, PTL DEF RentalSpec

\* Whatever still bills is where reap looks for it, or lost its caller before
\* the row was written: for any number of callers, kills, lost replies and lies.
THEOREM LedgerCovers == RentalSpec => []LedgerCoversBilling
<1>1. TypeAndBox /\ (PromptListing => IInv) => LedgerCoversBilling
  BY DEF TypeAndBox, IInv, RowsInv, LedgerCoversBilling, LeakedIds, Alive
<1>2. QED
  BY <1>1, RentalInvariant, PTL

\* A rent() over a box that still bills raised LeakRisk or could not look.
THEOREM NoLeakIsSilent == RentalSpec => []NoSilentLeak
<1>1. TypeAndBox /\ (PromptListing => IInv) => NoSilentLeak
  BY DEF IInv, FinishedInv, NoSilentLeak, Alive
<1>2. QED
  BY <1>1, RentalInvariant, PTL

\* LeakRisk over a billing box leaves the box on reap's list.
THEOREM LeakRiskReapable == RentalSpec => []LeakRiskStaysReapable
<1>1. TypeAndBox /\ (PromptListing => IInv) => LeakRiskStaysReapable
  BY DEF IInv, RowsInv, FinishedInv, LeakRiskStaysReapable, LeakedIds, Alive
<1>2. QED
  BY <1>1, RentalInvariant, PTL

\* A caller still asking has been given nothing, and nobody is given two: this
\* part of the invariant needs no prompt listing.
THEOREM PlacedOnce == RentalSpec => [](TypeAndBox /\ PlacedInv)
<1>1. RentalInit => PlacedInv
  BY DEF RentalInit, PlacedInv
<1>2. ASSUME TypeAndBox, PlacedInv, [RentalNext]_rentalVars
      PROVE  PlacedInv'
  <2> USE DEF PlacedInv, TypeAndBox, RentalTypeOK, callerVars, worldVars, envVars
  <2>1. ASSUME NEW r \in Renters, BeginRent(r) \/ Kill(r) \/ KillInFlight(r) PROVE PlacedInv'
    BY <1>2, <2>1 DEF BeginRent, Kill, KillInFlight, ForgetCaller, Inside
  <2>2. ASSUME NEW r \in Renters, CreateSucceeds(r) PROVE PlacedInv'
    BY <1>2, <2>2 DEF CreateSucceeds
  <2>3. ASSUME NEW r \in Renters, CreateFails(r) PROVE PlacedInv'
    BY <1>2, <2>3 DEF CreateFails, AfterFailedCreate
  <2>4. ASSUME NEW r \in Renters, CreateReplyLost(r) PROVE PlacedInv'
    <3>1. ~Resent("lost")
      BY DEF Resent
    <3>2. pc' = [pc EXCEPT ![r] = "done"]
      BY <2>4, <3>1 DEF CreateReplyLost, AfterFailedCreate
    <3>3. QED
      BY <1>2, <2>4, <3>2 DEF CreateReplyLost
  <2>5. ASSUME NEW r \in Renters, RecordRented(r) \/ FailBeforeTry(r) \/ HostComesUp(r) \/ WaitFails(r) \/ UseEnds(r)
        PROVE  PlacedInv'
    BY <1>2, <2>5 DEF RecordRented, FailBeforeTry, HostComesUp, WaitFails, UseEnds, EnterFinally
  <2>6. ASSUME NEW r \in Renters, DestroyAttempt(r) \/ VerifyTeardown(r) \/ RecordDestroyed(r)
        PROVE  PlacedInv'
    BY <1>2, <2>6 DEF DestroyAttempt, VerifyTeardown, RecordDestroyed
  <2>7. ASSUME NEW i \in Ids, CloudStep(i) PROVE PlacedInv'
    BY <1>2, <2>7 DEF CloudStep, Evict, Surface
  <2>8. CASE UNCHANGED rentalVars
    BY <1>2, <2>8 DEF rentalVars
  <2>9. QED
    BY <1>2, <2>1, <2>2, <2>3, <2>4, <2>5, <2>6, <2>7, <2>8 DEF RentalNext, RenterStep
<1>3. TypeAndBox <=> RentalTypeOK /\ BoxInv
  BY DEF TypeAndBox
<1>4. QED
  BY <1>1, <1>2, <1>3, RentalTypeCorrect, PTL DEF RentalSpec

\* However often create is resent, and whatever the listing shows, one rent()
\* places one instance at most.
THEOREM AtMostOneBox == RentalSpec => []OneBoxPerRent
<1>1. ASSUME PlacedInv, NEW r \in Renters PROVE Cardinality(made[r]) <= 1
  <2>1. CASE made[r] = {}
    BY <2>1, FS_EmptySet
  <2>2. ASSUME NEW i \in Ids, made[r] = {i} PROVE Cardinality(made[r]) <= 1
    <3>1. Cardinality(made[r]) = 1
      BY <2>2, FS_Singleton, Zenon
    <3>2. QED
      BY <3>1
  <2>3. QED
    BY <1>1, <2>1, <2>2 DEF PlacedInv
<1>2. PlacedInv => OneBoxPerRent
  BY <1>1 DEF OneBoxPerRent
<1>3. QED
  BY <1>2, PlacedOnce, PTL

-----------------------------------------------------------------------------
(* rent() implements its contract: every step of Rental is a step of       *)
(* RentContract, or none, under the mapping Rental states.  Besides the    *)
(* invariants above this needs to know whose an instance is: no two calls  *)
(* share one, and no row of the ledger speaks of an instance that has just *)
(* been placed.                                                            *)

\* What a call made the cloud place is placed, its own, and the box it holds.
OwnersInv ==
  /\ \A r \in Renters : \A i \in made[r] : cloud[i] # "none"
  /\ \A r, q \in Renters : r # q => made[r] \cap made[q] = {}
  /\ \A r \in Renters : Holding(r) => made[r] = {box[r]}

\* Rows are about placed instances, and none is yet about a box just created.
RowOwnersInv ==
  /\ \A row \in ledger : cloud[row.id] # "none"
  /\ \A r \in Renters : pc[r] = "created" => \A row \in ledger : row.id # box[r]

LinkInv == OwnersInv /\ RowOwnersInv

\* One row more, and its instance.
LEMMA NewRow ==
  ASSUME NEW e, NEW i, NEW v, Record(e, i, v)
  PROVE  \A row \in ledger' : row \in ledger \/ row.id = i
  BY DEF Record

\* The instances of different calls stay apart, and the rows stay about
\* instances somebody was given.
THEOREM OwnersAreDistinct == RentalSpec => []LinkInv
<1> USE DEF LinkInv, OwnersInv, RowOwnersInv, Holding
<1>1. RentalInit => LinkInv
  BY DEF RentalInit
<1>2. ASSUME TypeAndBox, TypeAndBox', PlacedInv, LinkInv, [RentalNext]_rentalVars
      PROVE  LinkInv'
  <2> USE <1>2 DEF PlacedInv, TypeAndBox, BoxInv, RentalTypeOK, callerVars, worldVars, envVars
  <2> DEFINE row_ok == \A row \in ledger : row.id \in Ids
  <2>0. row_ok
    BY DEF Row
  <2> USE <2>0
  <2>1. ASSUME NEW r \in Renters, BeginRent(r) PROVE LinkInv'
    BY <2>1 DEF BeginRent, ForgetCaller
  <2>2. ASSUME NEW r \in Renters, CreateSucceeds(r) PROVE LinkInv'
    BY <2>2 DEF CreateSucceeds, Place
  <2>3. ASSUME NEW r \in Renters, CreateFails(r) PROVE LinkInv'
    BY <2>3 DEF CreateFails, AfterFailedCreate
  <2>4. ASSUME NEW r \in Renters, CreateReplyLost(r) PROVE LinkInv'
    BY <2>4 DEF CreateReplyLost, AfterFailedCreate, Place
  <2>5. ASSUME NEW r \in Renters, RecordRented(r) PROVE LinkInv'
    BY <2>5, NewRow DEF RecordRented
  <2>6. ASSUME NEW r \in Renters, FailBeforeTry(r) \/ HostComesUp(r) \/ WaitFails(r) \/ UseEnds(r) PROVE LinkInv'
    BY <2>6 DEF FailBeforeTry, HostComesUp, WaitFails, UseEnds, EnterFinally
  <2>7. ASSUME NEW r \in Renters, DestroyAttempt(r) PROVE LinkInv'
    BY <2>7 DEF DestroyAttempt, DeleteCall, Alive
  <2>8. ASSUME NEW r \in Renters, VerifyTeardown(r) PROVE LinkInv'
    BY <2>8 DEF VerifyTeardown
  <2>9. ASSUME NEW r \in Renters, RecordDestroyed(r) PROVE LinkInv'
    BY <2>9, NewRow DEF RecordDestroyed
  <2>10. ASSUME NEW r \in Renters, Kill(r) PROVE LinkInv'
    BY <2>10 DEF Kill, ForgetCaller
  <2>11. ASSUME NEW r \in Renters, KillInFlight(r) PROVE LinkInv'
    BY <2>11 DEF KillInFlight, ForgetCaller, Place
  <2>12. ASSUME NEW i \in Ids, CloudStep(i) PROVE LinkInv'
    BY <2>12 DEF CloudStep, Evict, Surface, Alive
  <2>13. CASE UNCHANGED rentalVars
    BY <2>13 DEF rentalVars
  <2>14. QED
    BY <2>1, <2>2, <2>3, <2>4, <2>5, <2>6, <2>7, <2>8, <2>9, <2>10, <2>11, <2>12, <2>13 DEF RentalNext, RenterStep
<1>3. TypeAndBox <=> RentalTypeOK /\ BoxInv
  BY DEF TypeAndBox
<1>4. QED
  BY <1>1, <1>2, <1>3, PlacedOnce, PTL DEF RentalSpec

-----------------------------------------------------------------------------

\* Fate, case by case, now and after a step.
LEMMA FateCases ==
  ASSUME NEW r \in Renters
  PROVE  /\ pc[r] # "done" => Fate(r) = "none"
         /\ pc[r] = "done" /\ result[r] = "leak_risk" => Fate(r) = "alarm"
         /\ pc[r] = "done" /\ result[r] # "leak_risk" /\ made[r] \cap blind # {} => Fate(r) = "unrecorded"
         /\ pc[r] = "done" /\ result[r] # "leak_risk" /\ made[r] \cap blind = {} =>
              Fate(r) = IF verify[r] = "unverified" THEN "unverified" ELSE "clean"
  BY DEF Fate

LEMMA FateCasesNext ==
  ASSUME NEW r \in Renters
  PROVE  /\ pc'[r] # "done" => Fate(r)' = "none"
         /\ pc'[r] = "done" /\ result'[r] = "leak_risk" => Fate(r)' = "alarm"
         /\ pc'[r] = "done" /\ result'[r] # "leak_risk" /\ made'[r] \cap blind' # {} => Fate(r)' = "unrecorded"
         /\ pc'[r] = "done" /\ result'[r] # "leak_risk" /\ made'[r] \cap blind' = {} =>
              Fate(r)' = IF verify'[r] = "unverified" THEN "unverified" ELSE "clean"
  BY DEF Fate

LEMMA FateSame ==
  ASSUME NEW r \in Renters, pc'[r] = pc[r], result'[r] = result[r], verify'[r] = verify[r],
         made'[r] \cap blind' = made[r] \cap blind
  PROVE  Fate(r)' = Fate(r)
  BY DEF Fate

LEMMA InitMaps == RentalInit => Contract!ContractInit
  BY FateCases DEF RentalInit, Contract!ContractInit, Inside, Alive, PromptListing, LeakedIds, Seen, ConfirmedGone

-----------------------------------------------------------------------------
(* The mapped variables                                                    *)

insideM == {q \in Renters : Inside(q)}
fateM   == [q \in Renters |-> Fate(q)]
freshM  == {i \in Ids : cloud[i] = "none"}
aliveM  == {i \in Ids : Alive(i)}

\* One call's fate is settled, the others' stand.
LEMMA FateSettles ==
  ASSUME NEW r \in Renters, NEW f, Fate(r)' = f,
         \A q \in Renters : q # r => Fate(q)' = Fate(q)
  PROVE  fateM' = [fateM EXCEPT ![r] = f]
  BY DEF fateM

LEMMA FatesStand ==
  ASSUME \A q \in Renters : Fate(q)' = Fate(q)
  PROVE  fateM' = fateM
  BY DEF fateM

\* An instance just placed was nobody's, so nobody else's fate turns on it.
LEMMA OthersFate ==
  ASSUME TypeAndBox, LinkInv, NEW r \in Renters, NEW q \in Renters, q # r,
         pc'[q] = pc[q], result'[q] = result[q], verify'[q] = verify[q], made'[q] = made[q],
         \/ blind' = blind
         \/ \E i \in Ids : cloud[i] = "none" /\ blind' = blind \cup {i}
         \/ \E i \in made[r] : blind' = blind \cup {i}
  PROVE  Fate(q)' = Fate(q)
<1>1. made'[q] \cap blind' = made[q] \cap blind
  BY DEF LinkInv, OwnersInv
<1>2. QED
  BY <1>1, FateSame

\* Birth in the cloud is birth in the contract.
LEMMA PlaceIsBorn ==
  ASSUME TypeAndBox, NEW i \in Ids, Place(i)
  PROVE  i \in freshM /\ freshM' = freshM \ {i} /\ aliveM' = aliveM \cup {i}
  BY DEF TypeAndBox, RentalTypeOK, Place, freshM, aliveM, Alive

\* A step that leaves the world alone.
LEMMA WorldStands ==
  ASSUME cloud' = cloud
  PROVE  freshM' = freshM /\ aliveM' = aliveM
  BY DEF freshM, aliveM, Alive

LEMMA ListStands ==
  ASSUME ledger' = ledger
  PROVE  LeakedIds(ledger)' = LeakedIds(ledger)
  OBVIOUS

-----------------------------------------------------------------------------
(* Step by step                                                            *)

LEMMA BeginRentMaps ==
  ASSUME TypeAndBox, LinkInv, NEW r \in Renters, BeginRent(r)
  PROVE  Contract!Enter(r)
<1> USE DEF BeginRent, ForgetCaller, Inside, TypeAndBox, RentalTypeOK, worldVars, envVars, PromptListing
<1>1. insideM' = insideM \cup {r} /\ r \notin insideM
  BY DEF insideM
<1>2. fateM' = [fateM EXCEPT ![r] = "none"]
  <2>1. Fate(r)' = "none"
    BY FateCasesNext
  <2>2. ASSUME NEW q \in Renters, q # r PROVE Fate(q)' = Fate(q)
    BY <2>2, FateSame
  <2>3. QED
    BY <2>1, <2>2, FateSettles
<1>3. UNCHANGED <<freshM, aliveM, LeakedIds(ledger), PromptListing>>
  BY WorldStands, ListStands
<1>4. made' = [made EXCEPT ![r] = {}]
  OBVIOUS
<1> HIDE DEF BeginRent, ForgetCaller, Inside
<1>5. QED
  BY <1>1, <1>2, <1>3, <1>4 DEF Contract!Enter, insideM, fateM, freshM, aliveM

LEMMA CreateSucceedsMaps ==
  ASSUME TypeAndBox, PlacedInv, LinkInv, NEW r \in Renters, CreateSucceeds(r)
  PROVE  Contract!Acquire(r)
<1> USE DEF CreateSucceeds, Inside, TypeAndBox, RentalTypeOK, envVars, PromptListing
<1>1. insideM' = insideM /\ r \in insideM /\ made[r] = {}
  BY DEF insideM, PlacedInv
<1>2. PICK i \in Ids : Place(i) /\ made' = [made EXCEPT ![r] = {i}]
  <2>1. \A i \in Ids : [made EXCEPT ![r] = @ \cup {i}] = [made EXCEPT ![r] = {i}]
    BY <1>1
  <2>2. QED
    BY <2>1, Zenon
<1>3. fateM' = fateM
  <2>1. Fate(r)' = Fate(r)
    BY FateCases, FateCasesNext
  <2>2. ASSUME NEW q \in Renters, q # r PROVE Fate(q)' = Fate(q)
    BY <2>2, FateSame
  <2>3. QED
    BY <2>1, <2>2, FatesStand
<1>4. UNCHANGED <<LeakedIds(ledger), PromptListing>>
  BY ListStands
<1>5. i \in freshM /\ freshM' = freshM \ {i} /\ aliveM' = aliveM \cup {i}
  BY <1>2, PlaceIsBorn
<1> HIDE DEF CreateSucceeds, Inside
<1>6. QED
  BY <1>1, <1>2, <1>3, <1>4, <1>5 DEF Contract!Acquire, Contract!Born, insideM, fateM, freshM, aliveM

\* A failed create is sent again, or is the end of a call that got nothing.
LEMMA CreateFailsMaps ==
  ASSUME TypeAndBox, PlacedInv, LinkInv, NEW r \in Renters, CreateFails(r)
  PROVE  \/ UNCHANGED Contract!contractVars
         \/ \E f \in Contract!Fates \ {"none"} : Contract!Leave(r, f)
<1> USE DEF CreateFails, Inside, TypeAndBox, RentalTypeOK, worldVars, envVars, PromptListing
<1>1. UNCHANGED <<freshM, aliveM, LeakedIds(ledger), PromptListing, made>>
  BY WorldStands, ListStands
<1>2. PICK reply \in Errors : AfterFailedCreate(r, reply)
  OBVIOUS
<1>3. ASSUME NEW q \in Renters, q # r PROVE Fate(q)' = Fate(q)
  BY <1>2, <1>3, FateSame DEF AfterFailedCreate
<1>4. made[r] = {} /\ r \in insideM
  BY DEF PlacedInv, insideM
<1>5. CASE UNCHANGED <<pc, result>>
  <2>1. insideM' = insideM /\ Fate(r)' = Fate(r)
    BY <1>5, FateSame DEF insideM
  <2>2. fateM' = fateM
    BY <1>3, <2>1, FatesStand
  <2> HIDE DEF CreateFails, Inside
  <2>3. QED
    BY <1>1, <2>1, <2>2 DEF Contract!contractVars, insideM, fateM, freshM, aliveM
<1>6. CASE pc' = [pc EXCEPT ![r] = "done"] /\ result' = [result EXCEPT ![r] = CreateFailure(reply)]
  <2>1. insideM' = insideM \ {r}
    BY <1>6 DEF insideM
  <2>2. Fate(r)' \in {"clean", "unverified"}
    BY <1>4, <1>6, FateCasesNext DEF CreateFailure
  <2>3. PICK f \in {"clean", "unverified"} : Fate(r)' = f
    BY <2>2
  <2>4. fateM' = [fateM EXCEPT ![r] = f]
    BY <1>3, <2>3, FateSettles
  <2> HIDE DEF CreateFails, Inside
  <2>5. Contract!Leave(r, f)
    BY <1>1, <1>4, <2>1, <2>3, <2>4 DEF Contract!Leave, insideM, fateM, freshM, aliveM
  <2>6. QED
    BY <2>3, <2>5 DEF Contract!Fates
<1>7. QED
  BY <1>2, <1>5, <1>6 DEF AfterFailedCreate

LEMMA CreateReplyLostMaps ==
  ASSUME TypeAndBox, PlacedInv, LinkInv, NEW r \in Renters, CreateReplyLost(r)
  PROVE  Contract!AcquireUnseen(r)
<1> USE DEF Inside, TypeAndBox, RentalTypeOK, envVars, PromptListing
<1>1. ~Resent("lost")
  BY DEF Resent
<1>2. /\ pc[r] = "creating"
      /\ pc' = [pc EXCEPT ![r] = "done"]
      /\ result' = [result EXCEPT ![r] = CreateFailure("lost")]
      /\ UNCHANGED <<verify, LeakedIds(ledger), PromptListing>>
  BY <1>1, ListStands DEF CreateReplyLost, AfterFailedCreate
<1>3. made[r] = {}
  BY <1>2 DEF PlacedInv
<1>4. PICK i \in Ids : Place(i) /\ made' = [made EXCEPT ![r] = {i}] /\ blind' = blind \cup {i}
  BY <1>3 DEF CreateReplyLost
<1>5. i \in freshM /\ freshM' = freshM \ {i} /\ aliveM' = aliveM \cup {i}
  BY <1>4, PlaceIsBorn
<1>6. insideM' = insideM \ {r} /\ r \in insideM
  BY <1>2 DEF insideM
<1>7. fateM' = [fateM EXCEPT ![r] = "unrecorded"]
  <2>1. Fate(r)' = "unrecorded"
    BY <1>2, <1>4, FateCasesNext DEF CreateFailure
  <2>2. ASSUME NEW q \in Renters, q # r PROVE Fate(q)' = Fate(q)
    BY <1>2, <1>4, <2>2, OthersFate DEF Place
  <2>3. QED
    BY <2>1, <2>2, FateSettles
<1> HIDE DEF Inside
<1>8. QED
  BY <1>2, <1>3, <1>4, <1>5, <1>6, <1>7 DEF Contract!AcquireUnseen, Contract!Born, insideM, fateM, freshM, aliveM

\* The row makes the box reapable: none before it spoke of this box.
LEMMA RecordRentedMaps ==
  ASSUME TypeAndBox, LinkInv, NEW r \in Renters, RecordRented(r)
  PROVE  Contract!WriteDown(r)
<1> USE DEF TypeAndBox, RentalTypeOK, envVars, PromptListing
<1>1. /\ pc[r] = "created" /\ pc' = [pc EXCEPT ![r] = "waiting"]
      /\ Record("rented", box[r], "unset")
      /\ UNCHANGED <<result, verify, made, blind, cloud, PromptListing>>
  BY DEF RecordRented
<1>2. box[r] \in Ids /\ made[r] = {box[r]}
  BY <1>1 DEF BoxInv, Holding, LinkInv, OwnersInv
<1>3. Seen(ledger') = Seen(ledger) \cup {box[r]} /\ ConfirmedGone(ledger') = ConfirmedGone(ledger)
  BY <1>1, <1>2, RentedRow
<1>4. box[r] \notin ConfirmedGone(ledger)
  BY <1>1 DEF LinkInv, RowOwnersInv, ConfirmedGone
<1>5. LeakedIds(ledger)' = LeakedIds(ledger) \cup made[r]
  BY <1>2, <1>3, <1>4 DEF LeakedIds
<1>6. insideM' = insideM /\ r \in insideM
  BY <1>1 DEF insideM, Inside
<1>7. fateM' = fateM
  <2>1. Fate(r)' = Fate(r)
    BY <1>1, FateCases, FateCasesNext
  <2>2. ASSUME NEW q \in Renters, q # r PROVE Fate(q)' = Fate(q)
    BY <1>1, <2>2, FateSame
  <2>3. QED
    BY <2>1, <2>2, FatesStand
<1>8. freshM' = freshM /\ aliveM' = aliveM
  BY <1>1, WorldStands
<1>9. QED
  BY <1>1, <1>5, <1>6, <1>7, <1>8 DEF Contract!WriteDown, insideM, fateM, freshM, aliveM

LEMMA FailBeforeTryMaps ==
  ASSUME TypeAndBox, LinkInv, NEW r \in Renters, FailBeforeTry(r)
  PROVE  Contract!Leave(r, "unrecorded")
<1> USE DEF TypeAndBox, RentalTypeOK, envVars, PromptListing
<1>1. /\ pc[r] = "created" /\ pc' = [pc EXCEPT ![r] = "done"]
      /\ result' = [result EXCEPT ![r] = "terminal"]
      /\ blind' = blind \cup {box[r]}
      /\ UNCHANGED <<verify, made, cloud, LeakedIds(ledger), PromptListing>>
  BY ListStands DEF FailBeforeTry
<1>2. made[r] = {box[r]}
  BY <1>1 DEF Holding, LinkInv, OwnersInv
<1>3. insideM' = insideM \ {r} /\ r \in insideM
  BY <1>1 DEF insideM, Inside
<1>4. fateM' = [fateM EXCEPT ![r] = "unrecorded"]
  <2>1. Fate(r)' = "unrecorded"
    BY <1>1, <1>2, FateCasesNext
  <2>2. ASSUME NEW q \in Renters, q # r PROVE Fate(q)' = Fate(q)
    BY <1>1, <1>2, <2>2, OthersFate
  <2>3. QED
    BY <2>1, <2>2, FateSettles
<1>5. freshM' = freshM /\ aliveM' = aliveM
  BY <1>1, WorldStands
<1>6. QED
  BY <1>1, <1>3, <1>4, <1>5 DEF Contract!Leave, insideM, fateM, freshM, aliveM

\* Boot, the with-block and the verify listing are nobody's business outside.
LEMMA QuietStepMaps ==
  ASSUME TypeAndBox, NEW r \in Renters,
         HostComesUp(r) \/ WaitFails(r) \/ UseEnds(r) \/ VerifyTeardown(r)
  PROVE  UNCHANGED Contract!contractVars
<1> USE DEF TypeAndBox, RentalTypeOK, worldVars, envVars, PromptListing
<1>1. /\ pc[r] \notin {"idle", "done"} /\ pc'[r] \notin {"idle", "done"}
      /\ \A q \in Renters : q # r => pc'[q] = pc[q] /\ verify'[q] = verify[q]
      /\ UNCHANGED <<result, made, blind, cloud, LeakedIds(ledger), PromptListing>>
  BY ListStands DEF HostComesUp, WaitFails, UseEnds, EnterFinally, VerifyTeardown
<1>2. insideM' = insideM
  BY <1>1 DEF insideM, Inside
<1>3. fateM' = fateM
  <2>1. Fate(r)' = Fate(r)
    BY <1>1, FateCases, FateCasesNext
  <2>2. ASSUME NEW q \in Renters, q # r PROVE Fate(q)' = Fate(q)
    BY <1>1, <2>2, FateSame
  <2>3. QED
    BY <2>1, <2>2, FatesStand
<1>4. freshM' = freshM /\ aliveM' = aliveM
  BY <1>1, WorldStands
<1>5. QED
  BY <1>1, <1>2, <1>3, <1>4 DEF Contract!contractVars, insideM, fateM, freshM, aliveM

\* An instance that billed is gone, and nothing else has changed.
LEMMA GoneIsStopped ==
  ASSUME TypeAndBox, NEW i \in Ids, Alive(i), cloud' = [cloud EXCEPT ![i] = "gone"]
  PROVE  freshM' = freshM /\ i \in aliveM /\ aliveM' = aliveM \ {i}
  BY DEF TypeAndBox, RentalTypeOK, freshM, aliveM, Alive

LEMMA DestroyAttemptMaps ==
  ASSUME TypeAndBox, NEW r \in Renters, DestroyAttempt(r)
  PROVE  UNCHANGED Contract!contractVars \/ Contract!Stop(box[r])
<1> USE DEF TypeAndBox, RentalTypeOK, envVars, PromptListing
<1>1. /\ pc[r] = "destroying" /\ pc'[r] \notin {"idle", "done"}
      /\ \A q \in Renters : q # r => pc'[q] = pc[q]
      /\ UNCHANGED <<verify, result, made, blind, LeakedIds(ledger), PromptListing>>
  BY ListStands DEF DestroyAttempt
<1>2. box[r] \in Ids
  BY <1>1 DEF BoxInv, Holding
<1>3. insideM' = insideM
  BY <1>1 DEF insideM, Inside
<1>4. fateM' = fateM
  <2>1. Fate(r)' = Fate(r)
    BY <1>1, FateCases, FateCasesNext
  <2>2. ASSUME NEW q \in Renters, q # r PROVE Fate(q)' = Fate(q)
    BY <1>1, <2>2, FateSame
  <2>3. QED
    BY <2>1, <2>2, FatesStand
<1>5. cloud' = cloud \/ (Alive(box[r]) /\ cloud' = [cloud EXCEPT ![box[r]] = "gone"])
  BY DEF DestroyAttempt, DeleteCall
<1>6. CASE cloud' = cloud
  BY <1>1, <1>3, <1>4, <1>6, WorldStands DEF Contract!contractVars, insideM, fateM, freshM, aliveM
<1>7. CASE Alive(box[r]) /\ cloud' = [cloud EXCEPT ![box[r]] = "gone"]
  <2>1. freshM' = freshM /\ box[r] \in aliveM /\ aliveM' = aliveM \ {box[r]}
    BY <1>2, <1>7, GoneIsStopped
  <2>2. QED
    BY <1>1, <1>3, <1>4, <2>1 DEF Contract!Stop, insideM, fateM, freshM, aliveM
<1>8. QED
  BY <1>5, <1>6, <1>7

\* The end of a call: what it says of its instance is so, and only a box that
\* is gone is struck off the list.
LEMMA RecordDestroyedMaps ==
  ASSUME TypeAndBox, TypeAndBox', LinkInv, PromptListing => IInv, NEW r \in Renters, RecordDestroyed(r)
  PROVE  \E f \in Contract!Fates \ {"none"} : Contract!Leave(r, f)
<1> USE DEF TypeAndBox, RentalTypeOK, envVars
<1>1. /\ pc[r] = "recording" /\ pc' = [pc EXCEPT ![r] = "done"]
      /\ Record("destroyed", box[r], verify[r])
      /\ result' = [result EXCEPT ![r] = RentResult(r)]
      /\ UNCHANGED <<box, verify, made, blind, cloud>>
      /\ PromptListing' = PromptListing
  BY DEF RecordDestroyed, PromptListing
<1>2. box[r] \in Ids /\ made[r] = {box[r]}
  BY <1>1 DEF BoxInv, Holding, LinkInv, OwnersInv
<1>3. /\ Seen(ledger') = Seen(ledger)
      /\ ConfirmedGone(ledger') =
           IF verify[r] = "gone" THEN ConfirmedGone(ledger) \cup {box[r]} ELSE ConfirmedGone(ledger)
  BY <1>1, <1>2, DestroyedRow
<1>4. insideM' = insideM \ {r} /\ r \in insideM
  BY <1>1 DEF insideM, Inside
<1>5. freshM' = freshM /\ aliveM' = aliveM
  BY <1>1, WorldStands
<1>6. LeakedIds(ledger)' \in {LeakedIds(ledger), LeakedIds(ledger) \ made[r]}
  BY <1>2, <1>3 DEF LeakedIds
<1>7. PICK f \in Contract!Fates \ {"none"} : Fate(r)' = f
  BY <1>1, FateCasesNext DEF Contract!Fates
<1>8. fateM' = [fateM EXCEPT ![r] = f]
  <2>1. ASSUME NEW q \in Renters, q # r PROVE Fate(q)' = Fate(q)
    BY <1>1, <2>1, FateSame
  <2>2. QED
    BY <1>7, <2>1, FateSettles
<1>9. ASSUME PromptListing
      PROVE  /\ f = "clean" => made[r] \cap aliveM = {}
             /\ f \in {"unverified", "alarm"} => made[r] \cap aliveM \subseteq LeakedIds(ledger)'
             /\ aliveM \cap LeakedIds(ledger) \subseteq LeakedIds(ledger)'
  <2> USE <1>9
  <2>1. verify[r] = "gone" => cloud[box[r]] = "gone"
    BY <1>1 DEF IInv, VerdictInv
  <2>2. box[r] \in Seen(ledger) /\ \A i \in ConfirmedGone(ledger) : cloud[i] = "gone"
    BY <1>1 DEF IInv, HoldersInv, RowsInv, OnRecord, Holding
  <2>3. \A i \in aliveM : i \in LeakedIds(ledger) => i \in LeakedIds(ledger)'
    BY <1>3, <2>1 DEF LeakedIds, aliveM, Alive
  <2>4. made[r] \cap aliveM \subseteq LeakedIds(ledger)'
    BY <1>2, <2>2, <2>3 DEF LeakedIds, aliveM, Alive
  <2>5. ASSUME f = "clean" PROVE box[r] \notin aliveM
    <3>1. verify[r] # "unverified" /\ result'[r] # "leak_risk"
      BY <1>1, <1>7, <2>5, FateCasesNext
    <3>2. verify[r] \notin {"present", "unset"}
      BY <1>1, <3>1 DEF RentResult, IInv, VerdictInv
    <3>3. verify[r] = "gone"
      BY <3>1, <3>2 DEF Verdicts
    <3>4. QED
      BY <2>1, <3>3 DEF aliveM, Alive
  <2>6. QED
    BY <1>2, <2>3, <2>4, <2>5
<1>10. Contract!Leave(r, f)
  BY <1>1, <1>4, <1>5, <1>6, <1>8, <1>9 DEF Contract!Leave, insideM, fateM, freshM, aliveM
<1>11. QED
  BY <1>7, <1>10

LEMMA KillMaps ==
  ASSUME TypeAndBox, PlacedInv, LinkInv, NEW r \in Renters, Kill(r) \/ KillInFlight(r)
  PROVE  Contract!Die(r)
<1> USE DEF TypeAndBox, RentalTypeOK, envVars, PromptListing
<1>1. /\ pc[r] \notin {"idle", "done"} /\ pc' = [pc EXCEPT ![r] = "idle"]
      /\ made' = [made EXCEPT ![r] = {}]
      /\ \A q \in Renters : q # r => verify'[q] = verify[q] /\ result'[q] = result[q]
      /\ UNCHANGED <<LeakedIds(ledger), PromptListing>>
  BY ListStands DEF Kill, KillInFlight, ForgetCaller, Inside
<1>2. insideM' = insideM \ {r} /\ r \in insideM
  BY <1>1 DEF insideM, Inside
<1>3. Fate(r)' = Fate(r)
  BY <1>1, FateCases, FateCasesNext
<1>4. CASE Kill(r)
  <2>1. cloud' = cloud /\ (blind' = blind \/ (pc[r] = "created" /\ blind' = blind \cup {box[r]}))
    BY <1>4 DEF Kill
  <2>2. blind' = blind \/ \E i \in made[r] : blind' = blind \cup {i}
    BY <2>1 DEF Holding, LinkInv, OwnersInv
  <2>3. ASSUME NEW q \in Renters, q # r PROVE Fate(q)' = Fate(q)
    BY <1>1, <2>2, <2>3, OthersFate
  <2>4. fateM' = fateM
    BY <1>3, <2>3, FatesStand
  <2>5. freshM' = freshM /\ aliveM' = aliveM
    BY <2>1, WorldStands
  <2>6. QED
    BY <1>1, <1>2, <2>4, <2>5 DEF Contract!Die, insideM, fateM, freshM, aliveM
<1>5. CASE KillInFlight(r)
  <2>1. PICK i \in Ids : Place(i) /\ blind' = blind \cup {i}
    BY <1>5 DEF KillInFlight
  <2>2. i \in freshM /\ freshM' = freshM \ {i} /\ aliveM' = aliveM \cup {i}
    BY <2>1, PlaceIsBorn
  <2>3. ASSUME NEW q \in Renters, q # r PROVE Fate(q)' = Fate(q)
    BY <1>1, <2>1, <2>3, OthersFate DEF Place
  <2>4. fateM' = fateM
    BY <1>3, <2>3, FatesStand
  <2>5. QED
    BY <1>1, <1>2, <2>2, <2>4 DEF Contract!Die, Contract!Born, insideM, fateM, freshM, aliveM
<1>6. QED
  BY <1>4, <1>5

LEMMA CloudStepMaps ==
  ASSUME TypeAndBox, NEW i \in Ids, CloudStep(i)
  PROVE  UNCHANGED Contract!contractVars \/ Contract!Stop(i)
<1> USE DEF TypeAndBox, RentalTypeOK, callerVars, envVars, PromptListing
<1>1. UNCHANGED <<pc, made, blind, result, verify, LeakedIds(ledger), PromptListing>>
  BY ListStands DEF CloudStep, Evict, Surface
<1>2. insideM' = insideM
  BY <1>1 DEF insideM, Inside
<1>3. fateM' = fateM
  BY <1>1, FateSame, FatesStand
<1>4. CASE Surface(i)
  <2>1. freshM' = freshM /\ aliveM' = aliveM
    BY <1>4, WorldStands DEF Surface
  <2>2. QED
    BY <1>1, <1>2, <1>3, <2>1 DEF Contract!contractVars, insideM, fateM, freshM, aliveM
<1>5. CASE Evict(i)
  <2>1. freshM' = freshM /\ i \in aliveM /\ aliveM' = aliveM \ {i}
    BY <1>5, GoneIsStopped DEF Evict
  <2>2. QED
    BY <1>1, <1>2, <1>3, <2>1 DEF Contract!Stop, insideM, fateM, freshM, aliveM
<1>6. QED
  BY <1>4, <1>5 DEF CloudStep

-----------------------------------------------------------------------------
\* Whatever a rent() goes through, for any number of callers, instances and
\* attempts and whatever the cloud's API does, its caller sees the contract of
\* protocols.Provider: at most one instance to a call, and a call that ends
\* without an alarm, and could look, left none billing.
THEOREM RentKeepsItsContract == RentalSpec => KeepsContract
<1>1. RentalInit => Contract!ContractInit
  BY InitMaps
<1>2. ASSUME TypeAndBox, TypeAndBox', PlacedInv, LinkInv, PromptListing => IInv, [RentalNext]_rentalVars
      PROVE  [Contract!ContractNext]_(Contract!contractVars)
  <2>1. ASSUME NEW r \in Renters, RenterStep(r)
        PROVE  [Contract!ContractNext]_(Contract!contractVars)
    <3>1. CASE CreateSucceeds(r)
      BY <1>2, <3>1, CreateSucceedsMaps DEF Contract!ContractNext
    <3>2. CASE CreateFails(r)
      BY <1>2, <3>2, CreateFailsMaps DEF Contract!ContractNext
    <3>3. CASE CreateReplyLost(r)
      BY <1>2, <3>3, CreateReplyLostMaps DEF Contract!ContractNext
    <3>4. CASE RecordRented(r)
      BY <1>2, <3>4, RecordRentedMaps DEF Contract!ContractNext
    <3>5. CASE FailBeforeTry(r)
      <4>1. "unrecorded" \in Contract!Fates \ {"none"}
        BY DEF Contract!Fates
      <4>2. QED
        BY <1>2, <3>5, <4>1, FailBeforeTryMaps DEF Contract!ContractNext
    <3>6. CASE HostComesUp(r) \/ WaitFails(r) \/ UseEnds(r) \/ VerifyTeardown(r)
      BY <1>2, <3>6, QuietStepMaps
    <3>7. CASE DestroyAttempt(r)
      <4>1. box[r] \in Ids
        BY <1>2, <3>7 DEF TypeAndBox, BoxInv, Holding, DestroyAttempt
      <4>2. QED
        BY <1>2, <3>7, <4>1, DestroyAttemptMaps DEF Contract!ContractNext
    <3>8. CASE RecordDestroyed(r)
      BY <1>2, <3>8, RecordDestroyedMaps DEF Contract!ContractNext
    <3>9. QED
      BY <2>1, <3>1, <3>2, <3>3, <3>4, <3>5, <3>6, <3>7, <3>8 DEF RenterStep
  <2>2. ASSUME NEW r \in Renters, BeginRent(r)
        PROVE  [Contract!ContractNext]_(Contract!contractVars)
    BY <1>2, <2>2, BeginRentMaps DEF Contract!ContractNext
  <2>3. ASSUME NEW r \in Renters, Kill(r) \/ KillInFlight(r)
        PROVE  [Contract!ContractNext]_(Contract!contractVars)
    BY <1>2, <2>3, KillMaps DEF Contract!ContractNext
  <2>4. ASSUME NEW i \in Ids, CloudStep(i)
        PROVE  [Contract!ContractNext]_(Contract!contractVars)
    BY <1>2, <2>4, CloudStepMaps DEF Contract!ContractNext
  <2>5. CASE UNCHANGED rentalVars
    <3>1. UNCHANGED <<pc, made, blind, result, verify, cloud, LeakedIds(ledger), PromptListing>>
      BY <2>5, ListStands DEF rentalVars, callerVars, worldVars, envVars, PromptListing
    <3>2. insideM' = insideM
      BY <3>1 DEF insideM, Inside
    <3>3. fateM' = fateM
      BY <3>1, FateSame, FatesStand
    <3>4. freshM' = freshM /\ aliveM' = aliveM
      BY <3>1, WorldStands
    <3>5. QED
      BY <3>1, <3>2, <3>3, <3>4 DEF Contract!contractVars, insideM, fateM, freshM, aliveM
  <2>6. QED
    BY <1>2, <2>1, <2>2, <2>3, <2>4, <2>5 DEF RentalNext
<1>3. QED
  BY <1>1, <1>2, RentalInvariant, PlacedOnce, OwnersAreDistinct, PTL
     DEF RentalSpec, KeepsContract, Contract!ContractSpec

-----------------------------------------------------------------------------
(* How long a call can take                                                *)
(*                                                                         *)
(* That every rent() ends is a liveness property, which the runs check.    *)
(* What can be proved of it is the part that does not depend on fairness:  *)
(* a call has a bounded number of steps to take, whatever the cloud says.  *)

\* The steps a call still has before it, at most: the retries left of the
\* loops it is in or may come to, and the phases between them.
CallRank(r) ==
  LET phase == [idle |-> 0, done |-> 0, recording |-> 1, verifying |-> 2, destroying |-> 2,
                using |-> 3, waiting |-> 4, created |-> 5, creating |-> 5]
      creates == IF pc[r] = "creating" THEN MaxCreateTries - tries[r] ELSE 0
      deletes == IF pc[r] \in {"creating", "created", "waiting", "using"} THEN MaxDestroyTries
                 ELSE IF pc[r] = "destroying" THEN MaxDestroyTries - tries[r] ELSE 0
  IN  phase[pc[r]] + creates + deletes

CallBound == MaxCreateTries + MaxDestroyTries + 5

\* A call's own step brings it nearer to its end, and no step of anybody else
\* (the cloud, a kill, another caller) takes it further from it.
CallsGetOn ==
  \A r \in Renters : /\ RenterStep(r) => CallRank(r)' < CallRank(r)
                     /\ Inside(r) => CallRank(r)' <= CallRank(r)

\* A call has steps left exactly while it is inside rent(), and no more than the bound.
RankInv == \A r \in Renters : /\ CallRank(r) \in 0 .. CallBound
                              /\ CallRank(r) = 0 <=> ~Inside(r)

\* The rank of a well-typed call is a number within its bound.
LEMMA RankBounded == TypeAndBox => RankInv
<1> SUFFICES ASSUME RentalTypeOK, NEW r \in Renters
             PROVE  /\ CallRank(r) \in 0 .. CallBound
                    /\ CallRank(r) = 0 <=> ~Inside(r)
  BY DEF TypeAndBox, RankInv
<1>1. MaxCreateTries \in Nat \ {0} /\ MaxDestroyTries \in Nat \ {0}
  BY RentalAssumption
<1>2. pc[r] \in Phases /\ tries[r] \in Nat
      /\ tries[r] < (IF pc[r] = "creating" THEN MaxCreateTries ELSE MaxDestroyTries)
  BY DEF RentalTypeOK
<1>3. QED
  BY <1>1, <1>2 DEF CallRank, CallBound, Inside, Phases

\* One step of one caller, everybody else left as they are.
LEMMA OwnStepGetsOn ==
  ASSUME RentalTypeOK, NEW r \in Renters, RenterStep(r)
  PROVE  /\ CallRank(r)' < CallRank(r)
         /\ \A s \in Renters \ {r} : pc'[s] = pc[s] /\ tries'[s] = tries[s]
<1>1. MaxCreateTries \in Nat \ {0} /\ MaxDestroyTries \in Nat \ {0}
  BY RentalAssumption
<1>2. /\ pc \in [Renters -> Phases] /\ tries \in [Renters -> Nat]
      /\ tries[r] < (IF pc[r] = "creating" THEN MaxCreateTries ELSE MaxDestroyTries)
  BY DEF RentalTypeOK
<1>3. CASE CreateSucceeds(r)
  BY <1>1, <1>2, <1>3 DEF CreateSucceeds, CallRank
<1>4. CASE CreateFails(r)
  BY <1>1, <1>2, <1>4 DEF CreateFails, AfterFailedCreate, CallRank
<1>5. CASE CreateReplyLost(r)
  BY <1>1, <1>2, <1>5 DEF CreateReplyLost, AfterFailedCreate, CallRank
<1>6. CASE RecordRented(r)
  BY <1>1, <1>2, <1>6 DEF RecordRented, CallRank
<1>7. CASE FailBeforeTry(r)
  BY <1>1, <1>2, <1>7 DEF FailBeforeTry, CallRank
<1>8. CASE HostComesUp(r)
  BY <1>1, <1>2, <1>8 DEF HostComesUp, CallRank
<1>9. CASE WaitFails(r)
  BY <1>1, <1>2, <1>9 DEF WaitFails, EnterFinally, CallRank
<1>10. CASE UseEnds(r)
  BY <1>1, <1>2, <1>10 DEF UseEnds, EnterFinally, CallRank
<1>11. CASE DestroyAttempt(r)
  BY <1>1, <1>2, <1>11 DEF DestroyAttempt, CallRank
<1>12. CASE VerifyTeardown(r)
  BY <1>1, <1>2, <1>12 DEF VerifyTeardown, CallRank
<1>13. CASE RecordDestroyed(r)
  BY <1>1, <1>2, <1>13 DEF RecordDestroyed, CallRank
<1>14. QED
  BY <1>3, <1>4, <1>5, <1>6, <1>7, <1>8, <1>9, <1>10, <1>11, <1>12, <1>13 DEF RenterStep

\* Every step of the system, seen from every call.
LEMMA StepsGetOn ==
  ASSUME TypeAndBox, RankInv, RankInv', [RentalNext]_rentalVars
  PROVE  CallsGetOn
<1>1. RentalTypeOK /\ pc \in [Renters -> Phases] /\ tries \in [Renters -> Nat]
  BY DEF TypeAndBox, RentalTypeOK
<1>2. RankInv /\ RankInv'
  OBVIOUS
<1>3. \A s \in Renters : CallRank(s) \in Nat /\ CallRank(s)' \in Nat
  BY <1>2, RentalAssumption DEF RankInv, CallBound
<1>4. SUFFICES ASSUME NEW s \in Renters, Inside(s)
               PROVE  CallRank(s)' <= CallRank(s)
  BY <1>1, OwnStepGetsOn DEF CallsGetOn
<1>5. ASSUME pc'[s] = pc[s], tries'[s] = tries[s]
      PROVE  CallRank(s)' <= CallRank(s)
  <2>1. CallRank(s)' = CallRank(s)
    BY <1>5 DEF CallRank
  <2>2. QED
    BY <1>3, <2>1
<1>6. ASSUME pc'[s] \in {"idle", "done"}
      PROVE  CallRank(s)' <= CallRank(s)
  <2>1. CallRank(s)' = 0
    BY <1>2, <1>6 DEF RankInv, Inside
  <2>2. QED
    BY <1>3, <2>1
<1>7. ASSUME NEW r \in Renters, BeginRent(r) PROVE CallRank(s)' <= CallRank(s)
  BY <1>1, <1>4, <1>5, <1>7 DEF BeginRent, ForgetCaller
<1>8. ASSUME NEW r \in Renters, RenterStep(r) PROVE CallRank(s)' <= CallRank(s)
  BY <1>1, <1>3, <1>5, <1>8, OwnStepGetsOn
<1>9. ASSUME NEW r \in Renters, Kill(r) \/ KillInFlight(r) PROVE CallRank(s)' <= CallRank(s)
  BY <1>1, <1>5, <1>6, <1>9 DEF Kill, KillInFlight, ForgetCaller
<1>10. ASSUME NEW i \in Ids, CloudStep(i) PROVE CallRank(s)' <= CallRank(s)
  BY <1>5, <1>10 DEF CloudStep, Evict, Surface, callerVars
<1>11. CASE UNCHANGED rentalVars
  BY <1>5, <1>11 DEF rentalVars, callerVars
<1>12. QED
  BY <1>7, <1>8, <1>9, <1>10, <1>11 DEF RentalNext

\* A call of rent() is over after at most CallBound steps of its own: it is
\* inside exactly while it has steps left, each of its steps uses one up, and
\* nobody gives it more.  With the fairness of FairRentalSpec, which the runs
\* have, this is why every rent() ends.
THEOREM RentIsBounded == RentalSpec => [](RankInv) /\ [][CallsGetOn]_rentalVars
<1>1. TypeAndBox => RankInv
  BY RankBounded
<1>2. TypeAndBox /\ RankInv /\ RankInv' /\ [RentalNext]_rentalVars => [CallsGetOn]_rentalVars
  BY StepsGetOn
<1>3. RentalSpec => []TypeAndBox
  BY RentalTypeCorrect, PTL DEF TypeAndBox
<1>4. QED
  BY <1>1, <1>2, <1>3, PTL DEF RentalSpec
=============================================================================
