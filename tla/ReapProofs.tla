----------------------------- MODULE ReapProofs -----------------------------
(***************************************************************************)
(* What holds of module Reap for any callers, instances, command lines and *)
(* kills.  The drivers' steps are module Rental's, beside which strangers  *)
(* rent and the reaper deletes; what they change of the cloud and of the   *)
(* ledger is said once (DriverStep), and every invariant of the reaper is  *)
(* kept because of it: an instance is never placed twice, rows are only    *)
(* ever added, and the ids of strangers never get a row.                   *)
(*                                                                         *)
(* The last part goes the other way: leave out what is not the drivers',   *)
(* and their behaviour is one of module Rental, so that what is proved of  *)
(* a rental by itself holds of one beside a reaper.                        *)
(***************************************************************************)
EXTENDS Reap, RentalProofs

-----------------------------------------------------------------------------
(* What holds of the account                                               *)

\* An instance on record, or held by a caller, was placed, and is ours.
AccountInv ==
  /\ \A r \in Renters : Holding(r) => cloud[box[r]] # "none" /\ box[r] \notin Foreign
  /\ \A i \in Seen(ledger) : cloud[i] # "none" /\ i \notin Foreign
  /\ \A i \in theirs : cloud[i] # "none" /\ i \in Foreign
  /\ old \subseteq Ids /\ \A i \in old : cloud[i] # "none" /\ (Alive(i) => i \in listed)

\* The cloud places an instance once, the listing does not forget one while it
\* bills, and the ledger only grows, in a driver's step by a driver's rows.
DriverStep ==
  /\ \A i \in Ids : /\ cloud[i] = "gone" => cloud'[i] = "gone"
                    /\ cloud[i] # "none" => cloud'[i] # "none"
                    /\ i \in Foreign /\ cloud[i] = "none" => cloud'[i] = "none"
  /\ listed \subseteq listed'
  /\ ledger \subseteq ledger'
  /\ \A row \in ledger' : row.by = "reap" => row \in ledger
  /\ faults' = faults

LEMMA MeanwhileStep ==
  ASSUME TypeAndBox, AccountInv, Meanwhile(RentalNext)
  PROVE  TypeAndBox' /\ DriverStep /\ AccountInv'
<1> USE DEF TypeAndBox, BoxInv, Holding, RentalTypeOK, callerVars, worldVars, envVars
<1> DEFINE Kept == /\ \A i \in Ids : /\ cloud[i] = "gone" => cloud'[i] = "gone"
                                     /\ cloud[i] # "none" => cloud'[i] # "none"
                   /\ listed \subseteq listed' /\ faults' = faults
           Held == \A r \in Renters : Holding(r)' =>
                      \/ Holding(r) /\ box'[r] = box[r]
                      \/ box'[r] \in Ids /\ cloud[box'[r]] = "none" /\ cloud'[box'[r]] # "none"
           Rows == \/ ledger' = ledger
                   \/ \E r \in Renters, e \in {"rented", "destroyed"}, v \in Verdicts :
                        Holding(r) /\ Record(e, box[r], v)
<1>1. TypeAndBox'
  BY TypesKept DEF Meanwhile
<1>2. Kept /\ Held /\ Rows
  <2>1. ASSUME NEW r \in Renters, BeginRent(r) PROVE Kept /\ Held /\ Rows
    BY <2>1 DEF BeginRent, ForgetCaller, Inside
  <2>2. ASSUME NEW r \in Renters, CreateSucceeds(r) PROVE Kept /\ Held /\ Rows
    BY <2>2 DEF CreateSucceeds, Place
  <2>3. ASSUME NEW r \in Renters, CreateFails(r) PROVE Kept /\ Held /\ Rows
    BY <2>3 DEF CreateFails, AfterFailedCreate
  <2>4. ASSUME NEW r \in Renters, CreateReplyLost(r) PROVE Kept /\ Held /\ Rows
    BY <2>4 DEF CreateReplyLost, AfterFailedCreate, Place
  <2>5. ASSUME NEW r \in Renters, RecordRented(r) PROVE Kept /\ Held /\ Rows
    BY <2>5 DEF RecordRented, Verdicts
  <2>6. ASSUME NEW r \in Renters, FailBeforeTry(r) \/ HostComesUp(r) \/ WaitFails(r) \/ UseEnds(r)
        PROVE  Kept /\ Held /\ Rows
    BY <2>6 DEF FailBeforeTry, HostComesUp, WaitFails, UseEnds, EnterFinally
  <2>7. ASSUME NEW r \in Renters, DestroyAttempt(r) PROVE Kept /\ Held /\ Rows
    BY <2>7 DEF DestroyAttempt, DeleteCall, Alive
  <2>8. ASSUME NEW r \in Renters, VerifyTeardown(r) PROVE Kept /\ Held /\ Rows
    BY <2>8 DEF VerifyTeardown
  <2>9. ASSUME NEW r \in Renters, RecordDestroyed(r) PROVE Kept /\ Held /\ Rows
    BY <2>9 DEF RecordDestroyed
  <2>10. ASSUME NEW r \in Renters, Kill(r) PROVE Kept /\ Held /\ Rows
    BY <2>10 DEF Kill, ForgetCaller
  <2>11. ASSUME NEW r \in Renters, KillInFlight(r) PROVE Kept /\ Held /\ Rows
    BY <2>11 DEF KillInFlight, ForgetCaller, Place
  <2>12. ASSUME NEW i \in Ids, CloudStep(i) PROVE Kept /\ Held /\ Rows
    BY <2>12 DEF CloudStep, Evict, Surface, Alive
  <2>13. QED
    BY <2>1, <2>2, <2>3, <2>4, <2>5, <2>6, <2>7, <2>8, <2>9, <2>10, <2>11, <2>12
       DEF Meanwhile, RentalNext, RenterStep
<1>3. /\ \A i \in Foreign : cloud[i] = "none" => cloud'[i] = "none"
      /\ UNCHANGED <<old, theirs>>
  BY DEF Meanwhile, accountVars
<1>4. \A row \in ledger' : row \in ledger \/ (row.by = "driver" /\ \E r \in Renters : Holding(r) /\ row.id = box[r])
  BY <1>2 DEF Record
<1>5. ledger \subseteq ledger'
  BY <1>2 DEF Record
<1>6. DriverStep
  BY <1>2, <1>3, <1>4, <1>5 DEF DriverStep
<1>7. AccountInv'
  <2>1. \A r \in Renters : Holding(r)' => cloud'[box'[r]] # "none" /\ box'[r] \notin Foreign
    BY <1>2, <1>3 DEF AccountInv
  <2>2. \A i \in Seen(ledger') : cloud'[i] # "none" /\ i \notin Foreign
    BY <1>2, <1>4 DEF AccountInv, Seen
  <2>3. \A i \in theirs' : cloud'[i] # "none" /\ i \in Foreign
    BY <1>2, <1>3, ReapAssumption DEF AccountInv
  <2>4. old' \subseteq Ids /\ \A i \in old' : cloud'[i] # "none" /\ (Alive(i)' => i \in listed')
    <3>1. ASSUME NEW i \in old, cloud'[i] = "billing" PROVE cloud[i] = "billing"
      BY <1>2, <3>1 DEF AccountInv
    <3>2. QED
      BY <1>2, <1>3, <3>1 DEF AccountInv, Alive
  <2>5. QED
    BY <2>1, <2>2, <2>3, <2>4 DEF AccountInv
<1>8. QED
  BY <1>1, <1>6, <1>7

\* A step of the account or of the reaper: callers stay where they are.
LEMMA OtherStep ==
  ASSUME TypeAndBox, AccountInv, UNCHANGED <<callerVars, blind, envVars>>,
         cloud' \in [Ids -> {"none", "billing", "gone"}], listed' \subseteq Ids, ledger' \subseteq Row,
         \A i \in Ids : cloud[i] # "none" => cloud'[i] # "none"
  PROVE  /\ TypeAndBox'
         /\ \A r \in Renters : Holding(r)' => cloud'[box'[r]] # "none" /\ box'[r] \notin Foreign
<1>1. UNCHANGED <<pc, box, tries, torn, verify, outcome, result, made, blind, vendor, faults>>
  BY DEF callerVars, envVars
<1>2. TypeAndBox'
  BY <1>1 DEF TypeAndBox, RentalTypeOK, BoxInv, Holding
<1>3. ASSUME NEW r \in Renters, Holding(r)' PROVE cloud'[box'[r]] # "none" /\ box'[r] \notin Foreign
  BY <1>1, <1>3 DEF AccountInv, Holding, TypeAndBox, BoxInv
<1>4. QED
  BY <1>2, <1>3

-----------------------------------------------------------------------------
(* What the reaper knows                                                   *)

\* It works from placed instances, under a command line main let through; a
\* stranger's box is a target only of --all.
ReaperInv ==
  /\ rpc \in {"off", "scoping", "killing", "reading", "closing"}
  /\ flags \in FlagSets \cup {NoFlags}
  /\ live \subseteq Ids /\ killed \subseteq Ids /\ vanished \subseteq Ids /\ phantoms \subseteq Ids
  /\ \A i \in live : cloud[i] # "none"
  /\ targets \subseteq live
  /\ rtries \in 0 .. ReapRetries - 1
  /\ reapKills \in 0 .. MaxReapKills
  /\ rpc # "off" => flags \in FlagSets /\ ~Refused(flags)
  /\ rpc \in {"off", "scoping"} => targets = {} /\ killed = {} /\ vanished = {}
  /\ rpc \in {"reading", "closing"} => flags.ledger
  /\ targets \cap theirs # {} => flags.all

\* The old rows of instances that were gone when it listed the account: it will
\* close them, unless somebody else has.
PhantomInv ==
  rpc # "off" =>
    /\ phantoms \subseteq old /\ phantoms \subseteq Seen(ledger)
    /\ flags.ledger => phantoms \cap live = {}
    /\ rpc = "closing" => phantoms \subseteq killed \cup vanished \cup ConfirmedGone(ledger)

\* Where DELETE tells the truth and the reaper is not slow, what it killed, what
\* it found vanished and what it ever closed is gone for good.
GoneInv ==
  (~SlowReap /\ "lie" \notin faults) =>
    /\ \A row \in ledger : row.by = "reap" => cloud[row.id] = "gone"
    /\ \A i \in killed \cup vanished : cloud[i] = "gone"
    /\ rpc # "off" => \A i \in old : Alive(i) => i \in live

ReapInv == TypeAndBox /\ AccountInv /\ ReaperInv /\ PhantomInv /\ GoneInv

\* A ledger that only grows keeps what is on record and what is cleared.
LEMMA LedgerGrows ==
  ASSUME ledger \subseteq ledger'
  PROVE  Seen(ledger) \subseteq Seen(ledger') /\ ConfirmedGone(ledger) \subseteq ConfirmedGone(ledger')
  BY DEF Seen, ConfirmedGone

LEMMA MeanwhileKeeps ==
  ASSUME ReapInv, Meanwhile(RentalNext)
  PROVE  ReapInv'
<1>1. TypeAndBox' /\ DriverStep /\ AccountInv'
  BY MeanwhileStep DEF ReapInv
<1>2. UNCHANGED <<rpc, flags, live, targets, rtries, killed, vanished, phantoms, old, theirs, reapKills>>
  BY DEF Meanwhile, reaperVars, accountVars
<1>3. ReaperInv'
  BY <1>1, <1>2 DEF ReapInv, ReaperInv, DriverStep, Refused
<1>4. PhantomInv'
  BY <1>1, <1>2, LedgerGrows DEF ReapInv, PhantomInv, DriverStep
<1>5. GoneInv'
  <2> SUFFICES ASSUME ~SlowReap, "lie" \notin faults'
               PROVE  /\ \A row \in ledger' : row.by = "reap" => cloud'[row.id] = "gone"
                      /\ \A i \in killed' \cup vanished' : cloud'[i] = "gone"
                      /\ rpc' # "off" => \A i \in old' : Alive(i)' => i \in live'
    BY DEF GoneInv
  <2>1. faults' = faults
    BY <1>1 DEF DriverStep
  <2>2. \A row \in ledger' : row.by = "reap" => cloud'[row.id] = "gone"
    BY <1>1, <2>1 DEF DriverStep, ReapInv, GoneInv, TypeAndBox, RentalTypeOK, Row
  <2>3. \A i \in killed' \cup vanished' : cloud'[i] = "gone"
    BY <1>1, <1>2, <2>1 DEF DriverStep, ReapInv, GoneInv, ReaperInv
  <2>4. \A i \in old : Alive(i)' => Alive(i)
    BY <1>1 DEF DriverStep, ReapInv, AccountInv, TypeAndBox, RentalTypeOK, Alive
  <2>5. QED
    BY <1>2, <2>1, <2>2, <2>3, <2>4 DEF ReapInv, GoneInv
<1>6. QED
  BY <1>1, <1>3, <1>4, <1>5 DEF ReapInv

\* The cloud's part of a step of the reaper or of the account.
CloudOnly == UNCHANGED <<callerVars, ledger, blind, envVars>>

LEMMA StrangerKeeps ==
  ASSUME ReapInv, NEW i \in Ids, StrangerRents(i)
  PROVE  ReapInv'
<1>1. /\ i \in Foreign /\ cloud[i] = "none" /\ cloud' = [cloud EXCEPT ![i] = "billing"]
      /\ listed' = (IF PromptListing THEN listed \cup {i} ELSE listed)
      /\ theirs' = theirs \cup {i}
      /\ UNCHANGED <<ledger, faults, old, reapKills, rpc, flags, live, targets, rtries, killed, vanished, phantoms>>
      /\ UNCHANGED <<callerVars, blind, envVars>>
  BY DEF StrangerRents, Place, reaperVars, envVars
<1>2. cloud \in [Ids -> {"none", "billing", "gone"}] /\ listed \subseteq Ids /\ ledger \subseteq Row
  BY DEF ReapInv, TypeAndBox, RentalTypeOK
<1>3. /\ cloud' \in [Ids -> {"none", "billing", "gone"}] /\ listed' \subseteq Ids
      /\ \A j \in Ids : cloud[j] # "none" => cloud'[j] = cloud[j]
      /\ listed \subseteq listed'
  BY <1>1, <1>2
<1>4. TypeAndBox' /\ \A r \in Renters : Holding(r)' => cloud'[box'[r]] # "none" /\ box'[r] \notin Foreign
  BY <1>1, <1>2, <1>3, OtherStep DEF ReapInv
<1>5. AccountInv'
  <2>1. \A j \in Seen(ledger') : cloud'[j] # "none" /\ j \notin Foreign
    BY <1>1, <1>3 DEF ReapInv, AccountInv, Seen
  <2>2. \A j \in theirs' : cloud'[j] # "none" /\ j \in Foreign
    BY <1>1, <1>2, <1>3, ReapAssumption DEF ReapInv, AccountInv
  <2>3. old' \subseteq Ids /\ \A j \in old' : cloud'[j] # "none" /\ (Alive(j)' => j \in listed')
    BY <1>1, <1>3 DEF ReapInv, AccountInv, Alive
  <2>4. QED
    BY <1>4, <2>1, <2>2, <2>3 DEF AccountInv
<1>6. ReaperInv'
  <2>1. i \notin targets
    BY <1>1 DEF ReapInv, ReaperInv
  <2>2. \A j \in live : cloud'[j] # "none"
    BY <1>3 DEF ReapInv, ReaperInv
  <2>3. QED
    BY <1>1, <2>1, <2>2 DEF ReapInv, ReaperInv, Refused
<1>7. PhantomInv'
  BY <1>1 DEF ReapInv, PhantomInv
<1>8. GoneInv'
  BY <1>1, <1>2, <1>3 DEF ReapInv, GoneInv, ReaperInv, AccountInv, Alive, Row
<1>9. QED
  BY <1>4, <1>5, <1>6, <1>7, <1>8 DEF ReapInv

LEMMA AgeKeeps ==
  ASSUME ReapInv, NEW i \in Ids, Age(i)
  PROVE  ReapInv'
<1>1. /\ i \in Seen(ledger) \/ Alive(i)
      /\ Alive(i) => i \in listed
      /\ ~SlowReap /\ rpc # "off" /\ Alive(i) => i \in live
      /\ old' = old \cup {i}
      /\ UNCHANGED <<cloud, listed, ledger, faults, theirs, reapKills, rpc, flags, live, targets, rtries,
                     killed, vanished, phantoms>>
      /\ UNCHANGED <<callerVars, blind, envVars>>
  BY DEF Age, rentalVars, reaperVars, worldVars, envVars
<1>2. cloud \in [Ids -> {"none", "billing", "gone"}] /\ listed \subseteq Ids /\ ledger \subseteq Row
  BY DEF ReapInv, TypeAndBox, RentalTypeOK
<1>3. TypeAndBox' /\ \A r \in Renters : Holding(r)' => cloud'[box'[r]] # "none" /\ box'[r] \notin Foreign
  BY <1>1, <1>2, OtherStep DEF ReapInv
<1>4. AccountInv'
  BY <1>1, <1>3 DEF ReapInv, AccountInv, Alive
<1>5. ReaperInv'
  BY <1>1 DEF ReapInv, ReaperInv, Refused
<1>6. PhantomInv'
  BY <1>1 DEF ReapInv, PhantomInv
<1>7. GoneInv'
  BY <1>1 DEF ReapInv, GoneInv, Alive
<1>8. QED
  BY <1>3, <1>4, <1>5, <1>6, <1>7 DEF ReapInv

\* A step of the reaper's own: the account and the rentals stay as they are.
LEMMA OwnStep ==
  ASSUME ReapInv, UNCHANGED <<rentalVars, old, theirs>>
  PROVE  /\ TypeAndBox' /\ AccountInv'
         /\ UNCHANGED <<cloud, listed, ledger, faults>>
<1>1. UNCHANGED <<cloud, listed, ledger, faults>> /\ UNCHANGED <<callerVars, blind, envVars>>
  BY DEF rentalVars, worldVars, envVars
<1>2. cloud \in [Ids -> {"none", "billing", "gone"}] /\ listed \subseteq Ids /\ ledger \subseteq Row
  BY DEF ReapInv, TypeAndBox, RentalTypeOK
<1>3. TypeAndBox' /\ \A r \in Renters : Holding(r)' => cloud'[box'[r]] # "none" /\ box'[r] \notin Foreign
  BY <1>1, <1>2, OtherStep DEF ReapInv
<1>4. AccountInv'
  BY <1>1, <1>3 DEF ReapInv, AccountInv, Alive
<1>5. QED
  BY <1>1, <1>3, <1>4

\* Back to "off", whatever has been closed: nothing is known any more.
LEMMA GoneReaper ==
  ASSUME ReapInv, ReaperGone, reapKills' \in 0 .. MaxReapKills
  PROVE  ReaperInv' /\ PhantomInv'
<1>1. ReaperInv'
  BY ReapAssumption DEF ReapInv, ReaperInv, ReaperGone
<1>2. PhantomInv'
  BY DEF PhantomInv, ReaperGone
<1>3. QED
  BY <1>1, <1>2

LEMMA StartReapKeeps ==
  ASSUME ReapInv, NEW f \in FlagSets, StartReap(f)
  PROVE  ReapInv'
<1>1. /\ rpc = "off" /\ ~Refused(f) /\ rpc' = "scoping" /\ flags' = f /\ live' = Listing
      /\ phantoms' = {i \in LeakedIds(ledger) \cap old : ~Alive(i)}
      /\ UNCHANGED <<targets, rtries, killed, vanished, old, theirs, reapKills>>
      /\ UNCHANGED <<rentalVars, old, theirs>>
  BY DEF StartReap, accountVars
<1>2. TypeAndBox' /\ AccountInv' /\ UNCHANGED <<cloud, listed, ledger, faults>>
  BY <1>1, OwnStep
<1>3. targets = {} /\ killed = {} /\ vanished = {}
  BY <1>1 DEF ReapInv, ReaperInv
<1>4. live' \subseteq Ids /\ \A i \in live' : cloud'[i] # "none"
  BY <1>1, <1>2 DEF Listing, Alive, ReapInv, TypeAndBox, RentalTypeOK
<1>5. phantoms' \subseteq old /\ phantoms' \subseteq Seen(ledger) /\ phantoms' \cap live' = {} /\ phantoms' \subseteq Ids
  BY <1>1 DEF LeakedIds, Listing, Seen
<1>6. ReaperInv'
  BY <1>1, <1>3, <1>4, <1>5 DEF ReapInv, ReaperInv
<1>7. PhantomInv'
  BY <1>1, <1>2, <1>5 DEF PhantomInv
<1>8. GoneInv'
  BY <1>1, <1>2, <1>3 DEF ReapInv, GoneInv, AccountInv, Listing, Alive
<1>9. QED
  BY <1>2, <1>6, <1>7, <1>8 DEF ReapInv

\* Past the gates, what is in scope and a stranger's is there for --all only.
LEMMA ScopeSpares ==
  ASSUME AccountInv, NEW f \in FlagSets, ~Refused(f), f.yes, NEW shown
  PROVE  InScope(f, shown) \subseteq shown /\ (InScope(f, shown) \cap theirs # {} => f.all)
<1>1. InScope(f, shown) = {i \in shown : /\ f.ledger => i \in LeakedIds(ledger)
                                         /\ f.label  => i \notin theirs
                                         /\ f.older  => i \in old}
  BY DEF InScope
<1>2. \A i \in theirs : i \notin LeakedIds(ledger)
  BY DEF AccountInv, LeakedIds
<1>3. f.ledger \/ f.label \/ f.all
  BY DEF Refused
<1>4. QED
  BY <1>1, <1>2, <1>3

LEMMA ScopeKeeps ==
  ASSUME ReapInv, Scope
  PROVE  ReapInv'
<1>1. rpc = "scoping" /\ UNCHANGED <<rentalVars, old, theirs>> /\ UNCHANGED <<old, theirs, reapKills>>
  BY DEF Scope, accountVars
<1>2. TypeAndBox' /\ AccountInv' /\ UNCHANGED <<cloud, listed, ledger, faults>>
  BY <1>1, OwnStep
<1>3. flags \in FlagSets /\ ~Refused(flags)
  BY <1>1 DEF ReapInv, ReaperInv
<1>4. CASE flags.yes
  <2>1. /\ rpc' = "killing" /\ targets' = InScope(flags, live')
        /\ live' = live \/ (live' = Listing /\ ~flags.ledger)
        /\ UNCHANGED <<flags, rtries, killed, vanished, phantoms>>
    BY <1>4 DEF Scope
  <2>2. InScope(flags, live') \subseteq live' /\ (InScope(flags, live') \cap theirs # {} => flags.all)
    BY <1>3, <1>4, ScopeSpares DEF ReapInv
  <2>3. live' \subseteq Ids /\ \A i \in live' : cloud'[i] # "none"
    BY <1>2, <2>1 DEF Listing, Alive, ReapInv, ReaperInv, TypeAndBox, RentalTypeOK
  <2>4. ReaperInv'
    BY <1>1, <1>3, <2>1, <2>2, <2>3 DEF ReapInv, ReaperInv
  <2>5. PhantomInv'
    BY <1>1, <1>2, <2>1 DEF ReapInv, PhantomInv
  <2>6. GoneInv'
    <3>1. live' = Listing => \A i \in old : Alive(i) => i \in live'
      BY DEF ReapInv, AccountInv, Listing
    <3>2. QED
      BY <1>1, <1>2, <2>1, <3>1 DEF ReapInv, GoneInv, Alive
  <2>7. QED
    BY <1>2, <2>4, <2>5, <2>6 DEF ReapInv
<1>5. CASE ~flags.yes
  <2>1. ReaperGone
    BY <1>5 DEF Scope
  <2>2. ReaperInv' /\ PhantomInv'
    BY <1>1, <2>1, GoneReaper DEF ReapInv, ReaperInv
  <2>3. GoneInv'
    BY <1>2, <2>1 DEF ReapInv, GoneInv, ReaperGone
  <2>4. QED
    BY <1>2, <2>2, <2>3 DEF ReapInv
<1>6. QED
  BY <1>4, <1>5

LEMMA AimIsTarget == targets # {} => Aim \in targets
  BY DEF Aim

LEMMA DestroyTargetKeeps ==
  ASSUME ReapInv, NEW reply \in {"ok", "absent", "error"}, NEW terminal \in BOOLEAN, DestroyTarget(reply, terminal)
  PROVE  ReapInv'
<1> DEFINE aim == Aim
<1>1. /\ rpc = "killing" /\ targets # {} /\ DeleteCall(aim, reply)
      /\ UNCHANGED <<listed, ledger, rpc, flags, live, vanished, phantoms, old, theirs, reapKills>>
      /\ UNCHANGED <<callerVars, blind, envVars>>
      /\ \/ rtries' = rtries + 1 /\ rtries + 1 < ReapRetries /\ UNCHANGED <<targets, killed>>
         \/ /\ rtries' = 0 /\ targets' = targets \ {aim}
            /\ killed' = IF reply = "error" THEN killed ELSE killed \cup {aim}
  BY DEF DestroyTarget, accountVars
<1>2. aim \in targets /\ aim \in live /\ aim \in Ids /\ cloud[aim] # "none"
  BY <1>1, AimIsTarget DEF ReapInv, ReaperInv
<1> HIDE DEF aim
<1>3. cloud \in [Ids -> {"none", "billing", "gone"}] /\ listed \subseteq Ids /\ ledger \subseteq Row
  BY DEF ReapInv, TypeAndBox, RentalTypeOK
<1>4. \/ cloud' = cloud
      \/ Alive(aim) /\ cloud' = [cloud EXCEPT ![aim] = "gone"]
  BY <1>1 DEF DeleteCall
<1>5. /\ cloud' \in [Ids -> {"none", "billing", "gone"}]
      /\ \A i \in Ids : /\ cloud[i] # "none" <=> cloud'[i] # "none"
                        /\ cloud[i] = "gone" => cloud'[i] = "gone"
  BY <1>2, <1>3, <1>4
<1>6. TypeAndBox' /\ \A r \in Renters : Holding(r)' => cloud'[box'[r]] # "none" /\ box'[r] \notin Foreign
  BY <1>1, <1>3, <1>5, OtherStep DEF ReapInv
<1>7. \A i \in Ids : Alive(i)' => Alive(i)
  BY <1>3, <1>5 DEF Alive
<1>8. AccountInv'
  <2>1. \A i \in Seen(ledger') : cloud'[i] # "none" /\ i \notin Foreign
    BY <1>1, <1>5 DEF ReapInv, AccountInv, Seen
  <2>2. \A i \in theirs' : cloud'[i] # "none" /\ i \in Foreign
    BY <1>1, <1>5, ReapAssumption DEF ReapInv, AccountInv
  <2>3. old' \subseteq Ids /\ \A i \in old' : cloud'[i] # "none" /\ (Alive(i)' => i \in listed')
    BY <1>1, <1>5, <1>7 DEF ReapInv, AccountInv
  <2>4. QED
    BY <1>6, <2>1, <2>2, <2>3 DEF AccountInv
<1>9. ReaperInv'
  <2>1. rtries' \in 0 .. ReapRetries - 1
    BY <1>1, ReapAssumption DEF ReapInv, ReaperInv
  <2>2. targets' \subseteq targets /\ killed' \subseteq Ids
    BY <1>1, <1>2 DEF ReapInv, ReaperInv
  <2>3. \A i \in live : cloud'[i] # "none"
    BY <1>5 DEF ReapInv, ReaperInv
  <2>4. QED
    BY <1>1, <2>1, <2>2, <2>3 DEF ReapInv, ReaperInv
<1>10. PhantomInv'
  BY <1>1 DEF ReapInv, PhantomInv
<1>11. GoneInv'
  <2> SUFFICES ASSUME ~SlowReap, "lie" \notin faults'
               PROVE  /\ \A row \in ledger' : row.by = "reap" => cloud'[row.id] = "gone"
                      /\ \A i \in killed' \cup vanished' : cloud'[i] = "gone"
                      /\ rpc' # "off" => \A i \in old' : Alive(i)' => i \in live'
    BY DEF GoneInv
  <2>1. "lie" \notin faults
    BY <1>1 DEF envVars
  <2>2. \A row \in ledger' : row.by = "reap" => cloud'[row.id] = "gone"
    BY <1>1, <1>3, <1>5, <2>1 DEF ReapInv, GoneInv, Row
  <2>3. reply # "error" => cloud'[aim] = "gone"
    BY <1>1, <1>2, <1>3, <2>1 DEF DeleteCall, Alive
  <2>4. \A i \in killed \cup vanished : cloud'[i] = "gone"
    BY <1>5, <2>1 DEF ReapInv, GoneInv, ReaperInv
  <2>5. rpc' # "off" => \A i \in old' : Alive(i)' => i \in live'
    BY <1>1, <1>7, <2>1 DEF ReapInv, GoneInv, AccountInv
  <2>6. QED
    BY <1>1, <2>2, <2>3, <2>4, <2>5
<1>12. QED
  BY <1>6, <1>8, <1>9, <1>10, <1>11 DEF ReapInv

\* A run that ends without closing rows, or is killed.
LEMMA EndKeeps ==
  ASSUME ReapInv, ReaperGone, UNCHANGED <<rentalVars, old, theirs>>, reapKills' \in 0 .. MaxReapKills
  PROVE  ReapInv'
<1>1. TypeAndBox' /\ AccountInv' /\ UNCHANGED <<cloud, listed, ledger, faults>>
  BY OwnStep
<1>2. ReaperInv' /\ PhantomInv'
  BY GoneReaper
<1>3. GoneInv'
  BY <1>1 DEF ReapInv, GoneInv, ReaperGone
<1>4. QED
  BY <1>1, <1>2, <1>3 DEF ReapInv

LEMMA TargetsDoneKeeps ==
  ASSUME ReapInv, TargetsDone
  PROVE  ReapInv'
<1>1. rpc = "killing" /\ targets = {} /\ UNCHANGED <<rentalVars, old, theirs>> /\ UNCHANGED <<old, theirs, reapKills>>
  BY DEF TargetsDone, accountVars
<1>2. CASE flags.ledger
  <2>1. rpc' = "reading" /\ UNCHANGED <<flags, live, targets, rtries, killed, vanished, phantoms>>
    BY <1>2 DEF TargetsDone
  <2>2. TypeAndBox' /\ AccountInv' /\ UNCHANGED <<cloud, listed, ledger, faults>>
    BY <1>1, OwnStep
  <2>3. ReaperInv'
    BY <1>1, <1>2, <2>1, <2>2 DEF ReapInv, ReaperInv, Refused
  <2>4. PhantomInv'
    BY <1>1, <2>1, <2>2 DEF ReapInv, PhantomInv
  <2>5. GoneInv'
    BY <1>1, <2>1, <2>2 DEF ReapInv, GoneInv, Alive
  <2>6. QED
    BY <2>2, <2>3, <2>4, <2>5 DEF ReapInv
<1>3. CASE ~flags.ledger
  <2>1. ReaperGone
    BY <1>3 DEF TargetsDone
  <2>2. QED
    BY <1>1, <2>1, EndKeeps DEF ReapInv, ReaperInv
<1>4. QED
  BY <1>2, <1>3

LEMMA ReadOpenRowsKeeps ==
  ASSUME ReapInv, ReadOpenRows
  PROVE  ReapInv'
<1>1. /\ rpc = "reading" /\ rpc' = "closing" /\ vanished' = ((LeakedIds(ledger) \ live) \ killed) \cap old
      /\ UNCHANGED <<flags, live, targets, rtries, killed, phantoms, old, theirs, reapKills>>
      /\ UNCHANGED <<rentalVars, old, theirs>>
  BY DEF ReadOpenRows, Vanished, accountVars
<1>2. TypeAndBox' /\ AccountInv' /\ UNCHANGED <<cloud, listed, ledger, faults>>
  BY <1>1, OwnStep
<1>3. flags.ledger
  BY <1>1 DEF ReapInv, ReaperInv
<1>4. vanished' \subseteq Ids
  BY <1>1 DEF LeakedIds, Seen
<1>5. ReaperInv'
  BY <1>1, <1>2, <1>3, <1>4 DEF ReapInv, ReaperInv, Refused
<1>6. PhantomInv'
  BY <1>1, <1>2, <1>3 DEF ReapInv, PhantomInv, LeakedIds
<1>7. GoneInv'
  <2>1. ~SlowReap /\ "lie" \notin faults => \A i \in vanished' : cloud[i] = "gone"
    <3> SUFFICES ASSUME ~SlowReap, "lie" \notin faults, NEW i \in vanished' PROVE cloud[i] = "gone"
      OBVIOUS
    <3>1. i \in Ids /\ i \in old /\ i \notin live
      BY <1>1, <1>4
    <3>2. cloud[i] # "none" /\ ~Alive(i)
      BY <1>1, <3>1 DEF ReapInv, GoneInv, AccountInv
    <3>3. QED
      BY <3>1, <3>2 DEF Alive, ReapInv, TypeAndBox, RentalTypeOK
  <2>2. QED
    BY <1>1, <1>2, <2>1 DEF ReapInv, GoneInv, Alive
<1>8. QED
  BY <1>2, <1>5, <1>6, <1>7 DEF ReapInv

\* The rows it closes.
ClosedRow(i) == [event |-> "destroyed", id |-> i, verify |-> "gone", by |-> "reap"]

LEMMA ClosingRows ==
  ASSUME CloseRows, killed \subseteq Ids, vanished \subseteq Ids
  PROVE  /\ ledger' = ledger \cup {ClosedRow(i) : i \in killed \cup vanished}
         /\ ledger \subseteq Row => ledger' \subseteq Row
         /\ Seen(ledger') = Seen(ledger)
         /\ ConfirmedGone(ledger') = ConfirmedGone(ledger) \cup killed \cup vanished
<1>1. ledger' = ledger \cup {ClosedRow(i) : i \in killed \cup vanished}
  BY DEF CloseRows, ClosedRow
<1>2. \A i \in Ids : /\ ClosedRow(i) \in Row /\ ClosedRow(i).event = "destroyed"
                     /\ ClosedRow(i).id = i /\ ClosedRow(i).verify = "gone"
  BY DEF ClosedRow, Row, Verdicts
<1> HIDE DEF ClosedRow
<1>3. ledger \subseteq Row => ledger' \subseteq Row
  BY <1>1, <1>2
<1>4. Seen(ledger') = Seen(ledger)
  BY <1>1, <1>2 DEF Seen
<1>5. ConfirmedGone(ledger') = ConfirmedGone(ledger) \cup killed \cup vanished
  BY <1>1, <1>2 DEF ConfirmedGone
<1>6. QED
  BY <1>1, <1>3, <1>4, <1>5

LEMMA CloseRowsKeeps ==
  ASSUME ReapInv, CloseRows
  PROVE  ReapInv'
<1>1. /\ ReaperGone /\ UNCHANGED <<cloud, listed, faults, old, theirs, reapKills>>
      /\ UNCHANGED <<callerVars, blind, envVars>>
  BY DEF CloseRows, envVars, accountVars
<1>2. killed \subseteq Ids /\ vanished \subseteq Ids
  BY DEF ReapInv, ReaperInv
<1>3. cloud \in [Ids -> {"none", "billing", "gone"}] /\ listed \subseteq Ids /\ ledger \subseteq Row
  BY DEF ReapInv, TypeAndBox, RentalTypeOK
<1>4. ledger' \subseteq Row /\ Seen(ledger') = Seen(ledger)
  BY <1>2, <1>3, ClosingRows
<1>5. TypeAndBox' /\ \A r \in Renters : Holding(r)' => cloud'[box'[r]] # "none" /\ box'[r] \notin Foreign
  BY <1>1, <1>3, <1>4, OtherStep DEF ReapInv
<1>6. AccountInv'
  BY <1>1, <1>4, <1>5 DEF ReapInv, AccountInv, Alive
<1>7. ReaperInv' /\ PhantomInv'
  BY <1>1, GoneReaper DEF ReapInv, ReaperInv
<1>8. GoneInv'
  <2>1. ledger' = ledger \cup {ClosedRow(i) : i \in killed \cup vanished}
    BY <1>2, ClosingRows
  <2>2. \A i \in Ids : ClosedRow(i).id = i
    BY DEF ClosedRow
  <2>3. ~SlowReap /\ "lie" \notin faults => \A row \in ledger' : row.by = "reap" => cloud[row.id] = "gone"
    BY <1>2, <2>1, <2>2 DEF ReapInv, GoneInv
  <2>4. QED
    BY <1>1, <2>3 DEF GoneInv, ReaperGone
<1>9. QED
  BY <1>5, <1>6, <1>7, <1>8 DEF ReapInv

LEMMA ReapStart ==
  ASSUME ReapInit
  PROVE  ReapInv
<1>1. TypeAndBox
  BY RentalAssumption DEF ReapInit, RentalInit, TypeAndBox, BoxInv, Holding, RentalTypeOK, Phases, Verdicts, Outcomes, Results
<1>2. AccountInv
  BY DEF ReapInit, RentalInit, AccountInv, Holding, Seen
<1>3. ReaperInv
  BY ReapAssumption DEF ReapInit, ReaperInv
<1>4. PhantomInv /\ GoneInv
  BY DEF ReapInit, RentalInit, PhantomInv, GoneInv
<1>5. QED
  BY <1>1, <1>2, <1>3, <1>4 DEF ReapInv

LEMMA ReapStep ==
  ASSUME ReapInv, [ReapNext]_reapVars
  PROVE  ReapInv'
<1>1. CASE Meanwhile(RentalNext)
  BY <1>1, MeanwhileKeeps
<1>2. ASSUME NEW i \in Ids, StrangerRents(i) \/ Age(i) PROVE ReapInv'
  BY <1>2, StrangerKeeps, AgeKeeps
<1>3. ASSUME NEW f \in FlagSets, StartReap(f) PROVE ReapInv'
  BY <1>3, StartReapKeeps
<1>4. CASE Scope
  BY <1>4, ScopeKeeps
<1>5. ASSUME NEW reply \in {"ok", "absent", "error"}, NEW terminal \in BOOLEAN, DestroyTarget(reply, terminal)
      PROVE  ReapInv'
  BY <1>5, DestroyTargetKeeps
<1>6. CASE TargetsDone
  BY <1>6, TargetsDoneKeeps
<1>7. CASE ReadOpenRows
  BY <1>7, ReadOpenRowsKeeps
<1>8. CASE CloseRows
  BY <1>8, CloseRowsKeeps
<1>9. CASE KillReap
  <2>1. ReaperGone /\ UNCHANGED <<rentalVars, old, theirs>> /\ reapKills < MaxReapKills /\ reapKills' = reapKills + 1
    BY <1>9 DEF KillReap
  <2>2. reapKills' \in 0 .. MaxReapKills
    BY <2>1, ReapAssumption DEF ReapInv, ReaperInv
  <2>3. QED
    BY <2>1, <2>2, EndKeeps
<1>10. CASE UNCHANGED reapVars
  <2>1. UNCHANGED <<rpc, flags, live, targets, rtries, killed, vanished, phantoms, old, theirs, reapKills>>
        /\ UNCHANGED <<rentalVars, old, theirs>>
    BY <1>10 DEF reapVars, reaperVars, accountVars
  <2>2. TypeAndBox' /\ AccountInv' /\ UNCHANGED <<cloud, listed, ledger, faults>>
    BY <2>1, OwnStep
  <2>3. ReaperInv' /\ PhantomInv' /\ GoneInv'
    BY <2>1, <2>2 DEF ReapInv, ReaperInv, PhantomInv, GoneInv, Refused, Alive
  <2>4. QED
    BY <2>2, <2>3 DEF ReapInv
<1>11. QED
  BY <1>1, <1>2, <1>3, <1>4, <1>5, <1>6, <1>7, <1>8, <1>9, <1>10 DEF ReapNext, ReaperStep

-----------------------------------------------------------------------------
(* The theorems                                                            *)

\* Drivers, strangers and a reaper on one account keep the invariant.
THEOREM ReapInvariant == ReapSpec => []ReapInv
<1>1. ReapInit => ReapInv
  BY ReapStart
<1>2. ReapInv /\ [ReapNext]_reapVars => ReapInv'
  BY ReapStep
<1>3. QED
  BY <1>1, <1>2, PTL DEF ReapSpec

\* Every variable of the reaper and of the rentals beside it keeps its type.
THEOREM ReapTypeCorrect == ReapSpec => []ReapTypeOK
<1>1. ReapInv => ReapTypeOK
  BY ReapAssumption DEF ReapInv, TypeAndBox, AccountInv, ReaperInv, ReapTypeOK
<1>2. QED
  BY <1>1, ReapInvariant, PTL

\* Where DELETE tells the truth and a reap is quicker than its grace period, a
\* row it closes is that of an instance that is gone.
THEOREM ClosedIsGone == ReapSpec => []((~SlowReap /\ "lie" \notin faults) => ClosedByReapIsGone)
<1>1. ReapInv => ((~SlowReap /\ "lie" \notin faults) => ClosedByReapIsGone)
  BY DEF ReapInv, GoneInv, ClosedByReapIsGone, Alive
<1>2. QED
  BY <1>1, ReapInvariant, PTL

\* A ledger-scoped reap that runs to its end leaves no old row of an instance
\* that was gone when it began.
THEOREM PhantomsGo == ReapSpec => NoPhantomSurvives
<1>1. ASSUME ReapInv, [ReapNext]_reapVars, rpc # "off", rpc' = "off", reapKills' = reapKills, flags.ledger, flags.yes
      PROVE  phantoms \cap LeakedIds(ledger') = {}
  <2>1. rpc = "closing" /\ CloseRows
    <3>1. ~KillReap
      BY <1>1 DEF KillReap, ReapInv, ReaperInv
    <3>2. QED
      BY <1>1, <3>1 DEF ReapNext, ReaperStep, Meanwhile, StrangerRents, Age, StartReap, Scope, DestroyTarget,
                        TargetsDone, ReadOpenRows, CloseRows, reaperVars, reapVars
  <2>2. ConfirmedGone(ledger') = ConfirmedGone(ledger) \cup killed \cup vanished
    BY <1>1, <2>1, ClosingRows DEF ReapInv, ReaperInv
  <2>3. QED
    BY <1>1, <2>1, <2>2 DEF ReapInv, PhantomInv, LeakedIds
<1>2. QED
  BY <1>1, ReapInvariant, PTL DEF ReapSpec, NoPhantomSurvives

\* A box of another session falls to the reaper under --all and never else.
THEOREM StrangersSpared == ReapSpec => StrangersNeedAll
<1>1. ASSUME ReapInv, [ReapNext]_reapVars, NEW i \in theirs, rpc = "killing", targets' # targets, Destroys(i)
      PROVE  flags.all
  <2>1. PICK reply \in {"ok", "absent", "error"}, terminal \in BOOLEAN : DestroyTarget(reply, terminal)
    BY <1>1 DEF ReapNext, ReaperStep, Meanwhile, StrangerRents, Age, StartReap, Scope, TargetsDone, ReadOpenRows,
                CloseRows, KillReap, Destroys, Alive, rentalVars, worldVars, reaperVars, reapVars
  <2>2. targets # {} /\ DeleteCall(Aim, reply) /\ Aim \in targets
    BY <2>1, AimIsTarget DEF DestroyTarget
  <2>3. Aim = i
    BY <1>1, <2>2, ReapAssumption DEF DeleteCall, Destroys, Alive, ReapInv, TypeAndBox, RentalTypeOK, AccountInv
  <2>4. QED
    BY <1>1, <2>2, <2>3 DEF ReapInv, ReaperInv
<1>2. ReapInv /\ [ReapNext]_reapVars =>
        \A i \in theirs : rpc = "killing" /\ targets' # targets /\ Destroys(i) => flags.all
  BY <1>1
<1>3. QED
  BY <1>2, ReapInvariant, PTL DEF ReapSpec, StrangersNeedAll

-----------------------------------------------------------------------------
(* The drivers' view (Drivers in Reap): this campaign's instances, and the    *)
(* rows drivers wrote.  To the drivers, reap and the other sessions are the   *)
(* cloud: a step of theirs is an eviction in the view or nothing at all.      *)

\* The view of the cloud, of the listing and of the ledger.
cloudV  == [i \in Ids |-> IF i \in Foreign THEN "none" ELSE cloud[i]]
listedV == listed \ Foreign
ledgerV == {row \in ledger : row.by = "driver"}

\* A driver's own instance looks the same in its view, and what is done to it is
\* done in the view.
LEMMA OwnLooksTheSame ==
  ASSUME TypeAndBox, NEW i \in Ids \ Foreign
  PROVE  /\ Drivers!Alive(i) <=> Alive(i)
         /\ i \in Drivers!Listing <=> i \in Listing
  BY DEF Drivers!Alive, Drivers!Listing, Alive, Listing

LEMMA PlacedInView ==
  ASSUME TypeAndBox, NEW i \in Ids, Place(i), \A j \in Foreign : cloud[j] = "none" => cloud'[j] = "none"
  PROVE  Drivers!Place(i)
<1>1. cloud \in [Ids -> {"none", "billing", "gone"}]
  BY DEF TypeAndBox, RentalTypeOK
<1>2. cloud[i] = "none" /\ cloud' = [cloud EXCEPT ![i] = "billing"] /\ i \notin Foreign
  BY <1>1 DEF Place
<1>3. cloudV[i] = "none" /\ cloudV' = [cloudV EXCEPT ![i] = "billing"]
  BY <1>1, <1>2 DEF cloudV
<1>4. listedV' = IF PromptListing THEN listedV \cup {i} ELSE listedV
  BY <1>2 DEF Place, listedV
<1>5. QED
  BY <1>3, <1>4 DEF Drivers!Place, Drivers!PromptListing, PromptListing, cloudV, listedV

LEMMA GoneInView ==
  ASSUME TypeAndBox, NEW i \in Ids, cloud' = [cloud EXCEPT ![i] = "gone"]
  PROVE  cloudV' = IF i \in Foreign THEN cloudV ELSE [cloudV EXCEPT ![i] = "gone"]
  BY DEF TypeAndBox, RentalTypeOK, cloudV

LEMMA DeletedInView ==
  ASSUME TypeAndBox, NEW i \in Ids \ Foreign, NEW reply, DeleteCall(i, reply)
  PROVE  Drivers!DeleteCall(i, reply)
<1>1. Drivers!Alive(i) <=> Alive(i)
  BY OwnLooksTheSame
<1>2. cloud' = [cloud EXCEPT ![i] = "gone"] => cloudV' = [cloudV EXCEPT ![i] = "gone"]
  BY GoneInView
<1>3. cloud' = cloud => cloudV' = cloudV
  BY DEF cloudV
<1>4. QED
  BY <1>1, <1>2, <1>3 DEF DeleteCall, Drivers!DeleteCall, cloudV

LEMMA RecordedInView ==
  ASSUME NEW row, row.by = "driver", ledger' = ledger \cup {row}
  PROVE  ledgerV' = ledgerV \cup {row}
  BY DEF ledgerV

\* A driver's step is the same step in its view.
LEMMA DriverStepInView ==
  ASSUME TypeAndBox, AccountInv, NEW r \in Renters, RenterStep(r),
         \A i \in Foreign : cloud[i] = "none" => cloud'[i] = "none"
  PROVE  Drivers!RenterStep(r)
<1> USE DEF callerVars, envVars, worldVars, Drivers!callerVars, Drivers!envVars, Drivers!worldVars
<1>1. Holding(r) => box[r] \in Ids \ Foreign
  BY DEF TypeAndBox, BoxInv, AccountInv
<1>2. CASE CreateSucceeds(r)
  BY <1>2, PlacedInView DEF CreateSucceeds, Drivers!CreateSucceeds, Drivers!RenterStep
<1>3. CASE CreateFails(r)
  BY <1>3 DEF CreateFails, Drivers!CreateFails, AfterFailedCreate, Drivers!AfterFailedCreate,
              Resent, Drivers!Resent,
              CreateFailure, Drivers!CreateFailure, Errors, Drivers!Errors, Drivers!RenterStep
<1>4. CASE CreateReplyLost(r)
  <2>1. Drivers!AfterFailedCreate(r, "lost")
    BY <1>4 DEF CreateReplyLost, AfterFailedCreate, Drivers!AfterFailedCreate, Resent,
                Drivers!Resent,
              CreateFailure, Drivers!CreateFailure
  <2>2. QED
    BY <1>4, <2>1, PlacedInView DEF CreateReplyLost, Drivers!CreateReplyLost, Drivers!RenterStep
<1>5. CASE RecordRented(r)
  <2> DEFINE row == [event |-> "rented", id |-> box[r], verify |-> "unset", by |-> "driver"]
  <2>1. ledger' = ledger \cup {row} /\ row.by = "driver"
    BY <1>5 DEF RecordRented, Record
  <2>2. ledgerV' = ledgerV \cup {row}
    BY <2>1, RecordedInView
  <2>3. Drivers!Record("rented", box[r], "unset")
    BY <2>2, Zenon DEF Drivers!Record, ledgerV
  <2>4. QED
    BY <1>5, <2>3 DEF RecordRented, Drivers!RecordRented, Drivers!RenterStep
<1>6. CASE FailBeforeTry(r)
  BY <1>6 DEF FailBeforeTry, Drivers!FailBeforeTry, Drivers!RenterStep
<1>7. CASE HostComesUp(r)
  BY <1>1, <1>7, OwnLooksTheSame DEF HostComesUp, Drivers!HostComesUp, Holding, Drivers!RenterStep
<1>8. CASE WaitFails(r)
  BY <1>1, <1>8, OwnLooksTheSame DEF WaitFails, Drivers!WaitFails, EnterFinally,
                                     Drivers!EnterFinally, Holding,
             Drivers!RenterStep
<1>9. CASE UseEnds(r)
  BY <1>9 DEF UseEnds, Drivers!UseEnds, EnterFinally, Drivers!EnterFinally, Outcomes,
              Drivers!Outcomes,
              Drivers!RenterStep
<1>10. CASE DestroyAttempt(r)
  BY <1>1, <1>10, DeletedInView DEF DestroyAttempt, Drivers!DestroyAttempt, Holding,
                                    Drivers!RenterStep
<1>11. CASE VerifyTeardown(r)
  BY <1>1, <1>11, OwnLooksTheSame DEF VerifyTeardown, Drivers!VerifyTeardown, Holding,
                                      Drivers!RenterStep
<1>12. CASE RecordDestroyed(r)
  <2>1. Drivers!RentResult(r) = RentResult(r)
    BY Zenon DEF RentResult, Drivers!RentResult
  <2>2. Drivers!Record("destroyed", box[r], verify[r])
    <3> DEFINE row == [event |-> "destroyed", id |-> box[r], verify |-> verify[r], by |-> "driver"]
    <3>1. ledger' = ledger \cup {row} /\ row.by = "driver"
      BY <1>12 DEF RecordDestroyed, Record
    <3>2. ledgerV' = ledgerV \cup {row}
      BY <3>1, RecordedInView
    <3>3. QED
      BY <3>2, Zenon DEF Drivers!Record, ledgerV
  <2>3. result' = [result EXCEPT ![r] = Drivers!RentResult(r)]
    BY <1>12, <2>1, Zenon DEF RecordDestroyed
  <2>4. Drivers!RecordDestroyed(r)
    BY <1>12, <2>2, <2>3 DEF RecordDestroyed, Drivers!RecordDestroyed
  <2>5. QED
    BY <2>4 DEF Drivers!RenterStep
<1>13. QED
  BY <1>2, <1>3, <1>4, <1>5, <1>6, <1>7, <1>8, <1>9, <1>10, <1>11, <1>12 DEF RenterStep

\* An instance that stops billing, whoever stopped it, was evicted if it is the
\* drivers' and is nothing to them otherwise.
LEMMA StoppedInView ==
  ASSUME TypeAndBox, NEW i \in Ids, Alive(i), cloud' = [cloud EXCEPT ![i] = "gone"],
         UNCHANGED <<callerVars, listed, ledger, blind, envVars>>
  PROVE  Drivers!Evict(i) \/ UNCHANGED Drivers!rentalVars
<1> USE DEF callerVars, envVars, worldVars, Drivers!callerVars, Drivers!envVars, Drivers!worldVars, Drivers!rentalVars
<1>1. CASE i \in Foreign
  BY <1>1, GoneInView DEF cloudV
<1>2. CASE i \notin Foreign
  BY <1>2, GoneInView, OwnLooksTheSame DEF Drivers!Evict, cloudV
<1>3. QED
  BY <1>1, <1>2

LEMMA SurfacedInView ==
  ASSUME TypeAndBox, NEW i \in Ids, Surface(i)
  PROVE  Drivers!Surface(i) \/ UNCHANGED Drivers!rentalVars
<1> USE DEF callerVars, envVars, worldVars, Drivers!callerVars, Drivers!envVars, Drivers!worldVars, Drivers!rentalVars
<1>1. CASE i \in Foreign
  BY <1>1 DEF Surface
<1>2. CASE i \notin Foreign
  BY <1>2, OwnLooksTheSame DEF Drivers!Surface, Surface
<1>3. QED
  BY <1>1, <1>2

LEMMA QuietInView ==
  ASSUME UNCHANGED rentalVars
  PROVE  UNCHANGED Drivers!rentalVars
  BY DEF rentalVars, callerVars, worldVars, envVars, Drivers!rentalVars, Drivers!callerVars,
         Drivers!worldVars,
         Drivers!envVars

LEMMA MeanwhileInView ==
  ASSUME TypeAndBox, AccountInv, Meanwhile(RentalNext)
  PROVE  [Drivers!RentalNext]_Drivers!rentalVars
<1> USE DEF callerVars, envVars, worldVars, Drivers!callerVars, Drivers!envVars, Drivers!worldVars
<1>1. RentalNext /\ \A i \in Foreign : cloud[i] = "none" => cloud'[i] = "none"
  BY DEF Meanwhile
<1>2. ASSUME NEW r \in Renters, RenterStep(r) PROVE Drivers!RentalNext
  BY <1>1, <1>2, DriverStepInView DEF Drivers!RentalNext
<1>3. ASSUME NEW r \in Renters, BeginRent(r) PROVE Drivers!RentalNext
  <2>1. Drivers!BeginRent(r)
    BY <1>3 DEF BeginRent, Drivers!BeginRent, ForgetCaller, Drivers!ForgetCaller, Inside,
                Drivers!Inside
  <2>2. QED
    BY <2>1 DEF Drivers!RentalNext
<1>4. ASSUME NEW r \in Renters, Kill(r) PROVE Drivers!RentalNext
  <2>1. Drivers!Kill(r)
    BY <1>4 DEF Kill, Drivers!Kill, ForgetCaller, Drivers!ForgetCaller, Inside, Drivers!Inside
  <2>2. QED
    BY <2>1 DEF Drivers!RentalNext
<1>5. ASSUME NEW r \in Renters, KillInFlight(r) PROVE Drivers!RentalNext
  <2>1. Drivers!KillInFlight(r)
    BY <1>1, <1>5, PlacedInView DEF KillInFlight, Drivers!KillInFlight, ForgetCaller,
                                    Drivers!ForgetCaller
  <2>2. QED
    BY <2>1 DEF Drivers!RentalNext
<1>6. ASSUME NEW i \in Ids, CloudStep(i) PROVE [Drivers!RentalNext]_Drivers!rentalVars
  BY <1>6, StoppedInView, SurfacedInView DEF CloudStep, Evict, Drivers!CloudStep, Drivers!RentalNext
<1>7. QED
  BY <1>1, <1>2, <1>3, <1>4, <1>5, <1>6 DEF RentalNext

\* A row the reaper writes is none of theirs.
LEMMA CloseRowsInView ==
  ASSUME ReapInv, CloseRows
  PROVE  UNCHANGED Drivers!rentalVars
<1>1. killed \subseteq Ids /\ vanished \subseteq Ids
  BY DEF ReapInv, ReaperInv
<1>2. ledger' = ledger \cup {ClosedRow(i) : i \in killed \cup vanished}
  BY <1>1, ClosingRows
<1>3. \A i \in Ids : ClosedRow(i).by = "reap"
  BY DEF ClosedRow
<1>4. ledgerV' = ledgerV
  BY <1>1, <1>2, <1>3 DEF ledgerV
<1>5. QED
  BY <1>4 DEF CloseRows, ledgerV, Drivers!rentalVars, Drivers!callerVars, Drivers!worldVars,
              Drivers!envVars,
              callerVars, envVars

\* Whatever reap and other sessions do, the drivers go through a behaviour of
\* module Rental.
THEOREM ReapIsTheCloud == ReapSpec => DriversUnaware
<1>1. ReapInit => Drivers!RentalInit
  BY DEF ReapInit, RentalInit, Drivers!RentalInit
<1>2. ASSUME ReapInv, [ReapNext]_reapVars
      PROVE  [Drivers!RentalNext]_Drivers!rentalVars
  <2> USE DEF ReapInv
  <2>1. CASE Meanwhile(RentalNext)
    BY <1>2, <2>1, MeanwhileInView
  <2>2. ASSUME NEW i \in Ids, StrangerRents(i) PROVE UNCHANGED Drivers!rentalVars
    BY <1>2, <2>2 DEF StrangerRents, Place, Drivers!rentalVars, Drivers!callerVars,
                      Drivers!worldVars,
                      Drivers!envVars, callerVars, envVars, TypeAndBox, RentalTypeOK
  <2>3. ASSUME NEW reply \in {"ok", "absent", "error"}, NEW terminal \in BOOLEAN, DestroyTarget(reply, terminal)
        PROVE  [Drivers!RentalNext]_Drivers!rentalVars
    <3>1. DeleteCall(Aim, reply) /\ UNCHANGED <<callerVars, listed, ledger, blind, envVars>> /\ Aim \in Ids
      BY <1>2, <2>3, AimIsTarget DEF DestroyTarget, ReaperInv
    <3>2. cloud' = cloud \/ (Alive(Aim) /\ cloud' = [cloud EXCEPT ![Aim] = "gone"])
      BY <3>1 DEF DeleteCall
    <3>3. CASE cloud' = cloud
      BY <3>1, <3>3, QuietInView DEF rentalVars, worldVars
    <3>4. QED
      BY <1>2, <3>1, <3>2, <3>3, StoppedInView DEF Drivers!RentalNext, Drivers!CloudStep
  <2>4. CASE CloseRows
    BY <1>2, <2>4, CloseRowsInView
  <2>5. CASE UNCHANGED rentalVars
    BY <2>5, QuietInView
  <2>6. QED
    BY <1>2, <2>1, <2>2, <2>3, <2>4, <2>5
       DEF ReapNext, ReaperStep, Age, StartReap, Scope, TargetsDone, ReadOpenRows, KillReap,
           reapVars
<1>3. QED
  BY <1>1, <1>2, ReapInvariant, PTL DEF ReapSpec, DriversUnaware, Drivers!RentalSpec

-----------------------------------------------------------------------------
(* What is proved of Rental holds of the drivers beside a reaper           *)

InView == INSTANCE RentalProofs WITH
  cloud  <- [i \in Ids |-> IF i \in Foreign THEN "none" ELSE cloud[i]],
  listed <- listed \ Foreign,
  ledger <- {row \in ledger : row.by = "driver"}

LEMMA SameView == InView!RentalSpec <=> Drivers!RentalSpec
<1>1. InView!RentalInit <=> Drivers!RentalInit
  BY DEF InView!RentalInit, Drivers!RentalInit
<1>2. [InView!RentalNext]_InView!rentalVars <=> [Drivers!RentalNext]_Drivers!rentalVars
  BY DEF InView!RentalNext, InView!BeginRent, InView!ForgetCaller, InView!RenterStep,
         InView!CreateSucceeds, InView!CreateFails, InView!CreateReplyLost, InView!RecordRented,
         InView!FailBeforeTry, InView!HostComesUp, InView!WaitFails, InView!UseEnds,
         InView!EnterFinally, InView!DestroyAttempt, InView!VerifyTeardown, InView!RecordDestroyed,
         InView!Kill, InView!KillInFlight, InView!CloudStep, InView!Evict, InView!Surface,
         InView!rentalVars, InView!callerVars, InView!worldVars, InView!envVars, InView!Record,
         InView!Place, InView!DeleteCall, InView!Alive, InView!Listing, InView!PromptListing,
         InView!Inside, InView!Errors, InView!Resent, InView!AfterFailedCreate,
         InView!CreateFailure, InView!RentResult, InView!Outcomes,
         Drivers!RentalNext, Drivers!BeginRent, Drivers!ForgetCaller, Drivers!RenterStep,
         Drivers!CreateSucceeds, Drivers!CreateFails, Drivers!CreateReplyLost, Drivers!RecordRented,
         Drivers!FailBeforeTry, Drivers!HostComesUp, Drivers!WaitFails, Drivers!UseEnds,
         Drivers!EnterFinally, Drivers!DestroyAttempt, Drivers!VerifyTeardown,
         Drivers!RecordDestroyed, Drivers!Kill, Drivers!KillInFlight, Drivers!CloudStep,
         Drivers!Evict, Drivers!Surface, Drivers!rentalVars, Drivers!callerVars, Drivers!worldVars,
         Drivers!envVars, Drivers!Record, Drivers!Place, Drivers!DeleteCall, Drivers!Alive,
         Drivers!Listing, Drivers!PromptListing, Drivers!Inside, Drivers!Errors, Drivers!Resent,
         Drivers!AfterFailedCreate, Drivers!CreateFailure, Drivers!RentResult, Drivers!Outcomes
<1>3. QED
  BY <1>1, <1>2, PTL DEF InView!RentalSpec, Drivers!RentalSpec

LEMMA ViewInvariant == ReapSpec => [](InView!TypeAndBox /\ (InView!PromptListing => InView!IInv))
<1>1. InView!RentalSpec => [](InView!TypeAndBox /\ (InView!PromptListing => InView!IInv))
  BY InView!RentalInvariant, RentalAssumption, PTL DEF InView!RentalInvariant
<1>2. QED
  BY <1>1, SameView, ReapIsTheCloud, PTL DEF DriversUnaware

\* Beside a reaper that destroys whatever it is told to, a rent() that ended without
\* an alarm and could look still left nothing billing.
THEOREM NoLeakIsSilentBesideReap == ReapSpec => []NoSilentLeak
<1>1. InView!TypeAndBox /\ (InView!PromptListing => InView!IInv) => NoSilentLeak
  BY DEF InView!IInv, InView!FinishedInv, InView!PromptListing, PromptListing, NoSilentLeak, Alive
<1>2. QED
  BY <1>1, ViewInvariant, PTL

\* What bills is on the list reap works from, lost its driver before its row, is
\* about to get its row, or is another session's.
CoversBesideReap ==
  \A i \in Ids \ Foreign : Alive(i) =>
    \/ i \in LeakedIds(ledger)
    \/ i \in blind
    \/ \E r \in Renters : pc[r] = "created" /\ box[r] = i

\* The rows the reaper closes take nothing that bills off its list, where a listing
\* is prompt, a DELETE does not lie and a reap is quicker than the grace period.
THEOREM LedgerCoversBesideReap ==
  ReapSpec => []((PromptListing /\ "lie" \notin faults /\ ~SlowReap) => CoversBesideReap)
<1>1. ASSUME ReapInv, InView!TypeAndBox /\ (InView!PromptListing => InView!IInv),
             PromptListing, "lie" \notin faults, ~SlowReap
      PROVE  CoversBesideReap
  <2>1. InView!RowsInv
    BY <1>1 DEF InView!IInv, InView!PromptListing, PromptListing
  <2>2. \A i \in Ids : InView!Alive(i) <=> Alive(i) /\ i \notin Foreign
    BY DEF InView!Alive, Alive
  <2>3. InView!Seen(ledgerV) \subseteq Seen(ledger)
    BY DEF InView!Seen, Seen, ledgerV
  <2>4. \A i \in ConfirmedGone(ledger) : i \in InView!ConfirmedGone(ledgerV) \/ ~Alive(i)
    BY <1>1 DEF InView!ConfirmedGone, ConfirmedGone, ledgerV, ReapInv, GoneInv, TypeAndBox,
                RentalTypeOK, Row, Alive
  <2>5. \A i \in InView!ConfirmedGone(ledgerV) : ~InView!Alive(i)
    BY <2>1 DEF InView!RowsInv, InView!Alive, ledgerV
  <2>6. \A i \in Ids : InView!Alive(i) =>
          i \in InView!Seen(ledgerV) \/ i \in blind \/ \E r \in Renters : pc[r] = "created" /\ box[r] = i
    BY <2>1 DEF InView!RowsInv, ledgerV
  <2>7. QED
    BY <2>2, <2>3, <2>4, <2>5, <2>6 DEF CoversBesideReap, LeakedIds
<1>2. ReapInv /\ InView!TypeAndBox /\ (InView!PromptListing => InView!IInv) =>
        ((PromptListing /\ "lie" \notin faults /\ ~SlowReap) => CoversBesideReap)
  BY <1>1
<1>3. QED
  BY <1>2, ViewInvariant, ReapInvariant, PTL

\* rent() keeps its promise to its caller beside a reaper.
THEOREM ContractBesideReap == ReapSpec => Drivers!KeepsContract
<1>1. InView!RentalSpec => InView!KeepsContract
  BY InView!RentKeepsItsContract, RentalAssumption, PTL DEF InView!RentKeepsItsContract
<1>2. InView!KeepsContract => Drivers!KeepsContract
  BY PTL DEF InView!KeepsContract, InView!Contract!ContractSpec, InView!Contract!ContractInit,
             InView!Contract!ContractNext, InView!Contract!contractVars, InView!Contract!Enter,
             InView!Contract!Acquire, InView!Contract!AcquireUnseen, InView!Contract!Born,
             InView!Contract!WriteDown, InView!Contract!Leave, InView!Contract!Die,
             InView!Contract!Stop, InView!Contract!Fates, InView!Inside, InView!Fate, InView!Alive,
             InView!LeakedIds, InView!Seen, InView!ConfirmedGone, InView!PromptListing,
             Drivers!KeepsContract, Drivers!Contract!ContractSpec, Drivers!Contract!ContractInit,
             Drivers!Contract!ContractNext, Drivers!Contract!contractVars, Drivers!Contract!Enter,
             Drivers!Contract!Acquire, Drivers!Contract!AcquireUnseen, Drivers!Contract!Born,
             Drivers!Contract!WriteDown, Drivers!Contract!Leave, Drivers!Contract!Die,
             Drivers!Contract!Stop, Drivers!Contract!Fates, Drivers!Inside, Drivers!Fate,
             Drivers!Alive, Drivers!LeakedIds, Drivers!Seen, Drivers!ConfirmedGone,
             Drivers!PromptListing
<1>3. QED
  BY <1>1, <1>2, SameView, ReapIsTheCloud, PTL DEF DriversUnaware

=============================================================================
