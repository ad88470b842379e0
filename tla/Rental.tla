------------------------------- MODULE Rental -------------------------------
(***************************************************************************)
(* One rental after another, by several concurrent callers: what           *)
(* VastProvider.rent and RunPodProvider.rent do between asking a cloud for *)
(* an instance and recording its teardown, the two clouds they talk to,    *)
(* and the ledger (RentalLedger) that survives the process.                *)
(*                                                                         *)
(* The two adapters share everything but the create call; `vendor` selects *)
(* whose create runs.  Strings, prices, ssh coordinates and wall-clock     *)
(* times are abstracted; the order of the calls, every error path and the  *)
(* points at which a SIGKILL can fall between two of them are kept.        *)
(***************************************************************************)
EXTENDS Naturals, FiniteSets

CONSTANTS
  Renters,          \* the concurrent callers of rent(): a thread or a process each
  Ids,              \* instance ids a cloud can hand out; an id is never reused
  None,             \* "no instance yet"
  Vendors,          \* which adapters are considered: subset of {"vast", "runpod"}
  FaultModes,       \* which misbehaviours of the cloud's API may be in force together
  MaxCreateTries,   \* vast.py _MAX_TRIES (of _req) / runpod.py create's attempts
  MaxDestroyTries   \* the teardown loop's range(5)

ASSUME RentalAssumption ==
  /\ None \notin Ids
  /\ Vendors \subseteq {"vast", "runpod"}
  /\ FaultModes \subseteq SUBSET {"lie", "lag", "lost_reply"}
  /\ MaxCreateTries \in Nat \ {0}
  /\ MaxDestroyTries \in Nat \ {0}

VARIABLES
  pc,       \* where each caller is inside rent()
  box,      \* instance_id, once create has returned it
  tries,    \* attempts made by the loop the caller is in; 0 outside one
  torn,     \* the local `destroyed` flag
  verify,   \* the local `verify`
  outcome,  \* the local `outcome`: why the with-block ended
  result,   \* how the last rent() ended, as its caller sees it
  made,     \* (history) the instances the current rent() made the cloud place
  cloud,    \* what the cloud knows of each instance
  listed,   \* instances that have surfaced in the cloud's listing
  ledger,   \* the rows of the ledger file
  blind,    \* (history) placed instances whose `rented` row can never be written
  vendor,   \* the adapter in use
  faults    \* the API misbehaviours in force

callerVars == <<pc, box, tries, torn, verify, outcome, result, made>>
worldVars  == <<cloud, listed, ledger, blind>>
envVars    == <<vendor, faults>>
rentalVars == <<callerVars, worldVars, envVars>>

-----------------------------------------------------------------------------
(* Types                                                                   *)

Phases   == {"idle", "creating", "created", "waiting", "using", "destroying",
             "verifying", "recording", "done"}
Verdicts == {"unset", "gone", "present", "unverified"}
Outcomes == {"ok", "host_failed", "timeout", "error"}
Results  == {"none", "ok", "failover", "unavailable", "terminal", "leak_risk"}
\* The fields some reader of the ledger looks at.  No reader looks at the
\* `destroyed` flag, and a `running` row says nothing its `rented` row has not.
Row      == [event : {"rented", "destroyed"}, id : Ids,
             verify : Verdicts, by : {"driver", "reap"}]

RentalTypeOK ==
  /\ pc \in [Renters -> Phases]
  /\ box \in [Renters -> Ids \cup {None}]
  /\ tries \in [Renters -> Nat]
  /\ \A r \in Renters : tries[r] < (IF pc[r] = "creating" THEN MaxCreateTries ELSE MaxDestroyTries)
  /\ torn \in [Renters -> BOOLEAN]
  /\ verify \in [Renters -> Verdicts]
  /\ outcome \in [Renters -> Outcomes]
  /\ result \in [Renters -> Results]
  /\ made \in [Renters -> SUBSET Ids]
  /\ cloud \in [Ids -> {"none", "billing", "gone"}]
  /\ listed \subseteq Ids
  /\ ledger \subseteq Row
  /\ blind \subseteq Ids
  /\ vendor \in Vendors
  /\ faults \in FaultModes

-----------------------------------------------------------------------------
(* The ledger                                                              *)

\* RentalLedger.record: append one row.
Record(e, i, v) ==
  ledger' = ledger \cup {[event |-> e, id |-> i, verify |-> v, by |-> "driver"]}

Seen(rows) == {i \in Ids : \E row \in rows :
                 row.id = i /\ row.event = "rented"}

\* Mutant: any `destroyed` row clears an id, a failed teardown's included.
ConfirmedGone_AnyRow(rows) == {i \in Ids : \E row \in rows :
                 row.id = i /\ row.event = "destroyed"}

ConfirmedGone(rows) == {i \in Ids : \E row \in rows :
                 row.id = i /\ row.event = "destroyed" /\ row.verify = "gone"}

\* reap.leaked_ids: rented or seen running, never CONFIRMED destroyed.
LeakedIds(rows) == Seen(rows) \ ConfirmedGone(rows)

-----------------------------------------------------------------------------
(* The cloud's API                                                         *)

\* An instance bills until it is gone, whatever its status says; the status a
\* poll reads while it bills is the cloud's choice.
Alive(i) == cloud[i] = "billing"

\* Does a listing show an instance from the moment it exists?
PromptListing == "lag" \notin faults

\* list_instances(): what a listing taken now would show.
Listing == {i \in listed : Alive(i)}

\* The cloud places an instance.  Under "lag" it surfaces in the listing later.
Place(i) ==
  /\ cloud[i] = "none"
  /\ cloud' = [cloud EXCEPT ![i] = "billing"]
  /\ listed' = IF PromptListing THEN listed \cup {i} ELSE listed

\* One DELETE and its reply.  "lie": accepted, and nothing is deleted.
\* "error" covers a lost reply too: the instance may be gone all the same.
DeleteCall(i, reply) ==
  \/ /\ reply = "ok" /\ Alive(i)
     /\ cloud' = [cloud EXCEPT ![i] = "gone"]
  \/ /\ reply = "ok" /\ Alive(i) /\ "lie" \in faults
     /\ UNCHANGED cloud
  \/ /\ reply = "absent" /\ ~Alive(i)
     /\ UNCHANGED cloud
  \/ /\ reply = "error"
     /\ UNCHANGED cloud
  \/ /\ reply = "error" /\ Alive(i)
     /\ cloud' = [cloud EXCEPT ![i] = "gone"]

\* The provider evicts the instance, or an operator destroys it by hand.
Evict(i) ==
  /\ Alive(i)
  /\ cloud' = [cloud EXCEPT ![i] = "gone"]
  /\ UNCHANGED <<callerVars, listed, ledger, blind, envVars>>

Surface(i) ==
  /\ Alive(i) /\ i \notin listed
  /\ listed' = listed \cup {i}
  /\ UNCHANGED <<callerVars, cloud, ledger, blind, envVars>>

-----------------------------------------------------------------------------
(* create                                                                  *)

Inside(r) == pc[r] \notin {"idle", "done"}

\* The replies that leave nothing placed.  "dns" is EAI_AGAIN, before the
\* request is sent; "lost" is a reset, a read timeout or a 5xx after it.
Errors == {"dns", "refused", "auth", "lost"}
            \cup (IF vendor = "runpod" THEN {"capacity", "no_id"} ELSE {"no_id"})

\* Mutant: create is resent like an idempotent call.
Resent_Idempotent(reply) == reply \in {"dns", "lost"}

\* Which failed create is sent again: Vast only what cannot have reached the
\* server, RunPod a refusal for want of a machine and a reply without an id.
Resent(reply) ==
  reply \in (IF vendor = "vast" THEN {"dns"} ELSE {"capacity", "no_id"})

\* What a failed create becomes: Vast turns all but an authorization failure
\* into RentUnavailable; RunPod's errors are no failover signal.
CreateFailure(reply) ==
  IF vendor = "vast" /\ reply # "auth" THEN "unavailable" ELSE "terminal"

\* Mutant: off by one in the number of attempts.
AfterFailedCreate_OneMore(r, reply) ==
  IF Resent(reply) /\ tries[r] < MaxCreateTries
    THEN /\ tries' = [tries EXCEPT ![r] = @ + 1]
         /\ UNCHANGED <<pc, result>>
    ELSE /\ pc' = [pc EXCEPT ![r] = "done"]
         /\ result' = [result EXCEPT ![r] = CreateFailure(reply)]
         /\ tries' = [tries EXCEPT ![r] = 0]

AfterFailedCreate(r, reply) ==
  IF Resent(reply) /\ tries[r] + 1 < MaxCreateTries
    THEN /\ tries' = [tries EXCEPT ![r] = @ + 1]
         /\ UNCHANGED <<pc, result>>
    ELSE /\ pc' = [pc EXCEPT ![r] = "done"]
         /\ result' = [result EXCEPT ![r] = CreateFailure(reply)]
         /\ tries' = [tries EXCEPT ![r] = 0]

\* A fresh call's local variables; a killed process loses them.
ForgetCaller(r, phase) ==
  /\ pc' = [pc EXCEPT ![r] = phase]
  /\ box' = [box EXCEPT ![r] = None]
  /\ tries' = [tries EXCEPT ![r] = 0]
  /\ torn' = [torn EXCEPT ![r] = FALSE]
  /\ verify' = [verify EXCEPT ![r] = "unset"]
  /\ outcome' = [outcome EXCEPT ![r] = "ok"]
  /\ result' = [result EXCEPT ![r] = "none"]
  /\ made' = [made EXCEPT ![r] = {}]

\* A caller (a fresh leg, the next offer, a relaunched driver) enters rent().
BeginRent(r) ==
  /\ ~Inside(r)
  /\ ForgetCaller(r, "creating")
  /\ UNCHANGED <<worldVars, envVars>>

CreateSucceeds(r) ==
  /\ pc[r] = "creating"
  /\ \E i \in Ids :
       /\ Place(i)
       /\ box' = [box EXCEPT ![r] = i]
       /\ made' = [made EXCEPT ![r] = @ \cup {i}]
  /\ pc' = [pc EXCEPT ![r] = "created"]
  /\ tries' = [tries EXCEPT ![r] = 0]
  /\ UNCHANGED <<torn, verify, outcome, result, ledger, blind, envVars>>

CreateFails(r) ==
  /\ pc[r] = "creating"
  /\ \E reply \in Errors : AfterFailedCreate(r, reply)
  /\ UNCHANGED <<box, torn, verify, outcome, made, worldVars, envVars>>

\* The server placed the instance and the reply never arrived.
CreateReplyLost(r) ==
  /\ "lost_reply" \in faults
  /\ pc[r] = "creating"
  /\ \E i \in Ids :
       /\ Place(i)
       /\ made' = [made EXCEPT ![r] = @ \cup {i}]
       /\ blind' = blind \cup {i}
  /\ AfterFailedCreate(r, "lost")
  /\ UNCHANGED <<box, torn, verify, outcome, ledger, envVars>>

\* The `rented` row is written before the try: from here on the finally runs.
RecordRented(r) ==
  /\ pc[r] = "created"
  /\ Record("rented", box[r], "unset")
  /\ pc' = [pc EXCEPT ![r] = "waiting"]
  /\ UNCHANGED <<box, tries, torn, verify, outcome, result, made,
                 cloud, listed, blind, envVars>>

\* An exception between create's return and the try (the ledger cannot be
\* appended to, Ctrl-C): no row, and no finally to tear the instance down.
FailBeforeTry(r) ==
  /\ pc[r] = "created"
  /\ blind' = blind \cup {box[r]}
  /\ pc' = [pc EXCEPT ![r] = "done"]
  /\ result' = [result EXCEPT ![r] = "terminal"]
  /\ UNCHANGED <<box, tries, torn, verify, outcome, made,
                 cloud, listed, ledger, envVars>>

-----------------------------------------------------------------------------
(* The with-block                                                          *)

\* wait_running sees "running" with ssh coordinates: yield the host.
HostComesUp(r) ==
  /\ pc[r] = "waiting"
  /\ Alive(box[r])
  /\ pc' = [pc EXCEPT ![r] = "using"]
  /\ UNCHANGED <<box, tries, torn, verify, outcome, result, made, worldVars, envVars>>

\* The finally block is entered with the outcome the except clauses chose.
EnterFinally(r, why) ==
  /\ pc' = [pc EXCEPT ![r] = "destroying"]
  /\ tries' = [tries EXCEPT ![r] = 0]
  /\ outcome' = [outcome EXCEPT ![r] = why]
  /\ UNCHANGED <<box, torn, verify, result, made, worldVars, envVars>>

\* wait_running gives up: a visibly dead host or one with no coordinates, the
\* deadline, or an API error or interrupt.
WaitFails(r) ==
  /\ pc[r] = "waiting"
  /\ \E why \in {"host_failed", "timeout", "error"} :
       /\ why = "host_failed" => Alive(box[r])
       /\ EnterFinally(r, why)

\* The caller's block ends, normally or by any exception.
UseEnds(r) ==
  /\ pc[r] = "using"
  /\ \E why \in Outcomes : EnterFinally(r, why)

-----------------------------------------------------------------------------
(* Teardown                                                                *)

\* Mutant: after the last failed attempt the loop starts over.
DestroyAttempt_Forever(r) ==
  /\ pc[r] = "destroying"
  /\ \E reply \in {"ok", "absent", "error"} :
       /\ DeleteCall(box[r], reply)
       /\ torn' = [torn EXCEPT ![r] = reply # "error"]
       /\ IF reply = "error"
            THEN tries' = [tries EXCEPT ![r] = (@ + 1) % MaxDestroyTries] /\ UNCHANGED pc
            ELSE /\ tries' = [tries EXCEPT ![r] = 0]
                 /\ pc' = [pc EXCEPT ![r] = "verifying"]
  /\ UNCHANGED <<box, verify, outcome, result, made, listed, ledger, blind, envVars>>

\* One turn of the destroy loop: success and already-gone leave it, any other
\* error counts a try, and after the last one the flag is still False.
DestroyAttempt(r) ==
  /\ pc[r] = "destroying"
  /\ \E reply \in {"ok", "absent", "error"} :
       /\ DeleteCall(box[r], reply)
       /\ torn' = [torn EXCEPT ![r] = reply # "error"]
       /\ IF reply = "error" /\ tries[r] + 1 < MaxDestroyTries
            THEN tries' = [tries EXCEPT ![r] = @ + 1] /\ UNCHANGED pc
            ELSE /\ tries' = [tries EXCEPT ![r] = 0]
                 /\ pc' = [pc EXCEPT ![r] = "verifying"]
  /\ UNCHANGED <<box, verify, outcome, result, made, listed, ledger, blind, envVars>>

\* The independent check against the listing, which may itself fail.
VerifyTeardown(r) ==
  /\ pc[r] = "verifying"
  /\ verify' \in { [verify EXCEPT ![r] = v] :
                     v \in {"unverified", IF box[r] \in Listing THEN "present" ELSE "gone"} }
  /\ pc' = [pc EXCEPT ![r] = "recording"]
  /\ UNCHANGED <<box, tries, torn, outcome, result, made, worldVars, envVars>>

\* Mutant: only a failed destroy raises LeakRisk, whatever the listing shows.
RentResult_TrustDestroy(r) ==
  IF ~torn[r] THEN "leak_risk"
  ELSE CASE outcome[r] = "ok" -> "ok"
         [] outcome[r] \in {"host_failed", "timeout"} -> "failover"
         [] outcome[r] = "error" -> "terminal"

\* What leaves rent(): LeakRisk over the block's own exception, else the latter.
RentResult(r) ==
  IF ~torn[r] \/ verify[r] = "present" THEN "leak_risk"
  ELSE CASE outcome[r] = "ok" -> "ok"
         [] outcome[r] \in {"host_failed", "timeout"} -> "failover"
         [] outcome[r] = "error" -> "terminal"

RecordDestroyed(r) ==
  /\ pc[r] = "recording"
  /\ Record("destroyed", box[r], verify[r])
  /\ result' = [result EXCEPT ![r] = RentResult(r)]
  /\ torn' = [torn EXCEPT ![r] = FALSE]
  /\ outcome' = [outcome EXCEPT ![r] = "ok"]
  /\ pc' = [pc EXCEPT ![r] = "done"]
  /\ UNCHANGED <<box, tries, verify, made, cloud, listed, blind, envVars>>

-----------------------------------------------------------------------------
(* SIGKILL, power loss: no handler runs, and what the caller held in memory  *)
(* is lost.  Between create's return and its row, and while the request is   *)
(* in flight, the instance goes unrecorded.                                  *)

Kill(r) ==
  /\ Inside(r)
  /\ ForgetCaller(r, "idle")
  /\ blind' = IF pc[r] = "created" THEN blind \cup {box[r]} ELSE blind
  /\ UNCHANGED <<cloud, listed, ledger, envVars>>

KillInFlight(r) ==
  /\ pc[r] = "creating"
  /\ ForgetCaller(r, "idle")
  /\ \E i \in Ids : Place(i) /\ blind' = blind \cup {i}
  /\ UNCHANGED <<ledger, envVars>>

-----------------------------------------------------------------------------
RentalInit ==
  /\ pc = [r \in Renters |-> "idle"]
  /\ box = [r \in Renters |-> None]
  /\ tries = [r \in Renters |-> 0]
  /\ torn = [r \in Renters |-> FALSE]
  /\ verify = [r \in Renters |-> "unset"]
  /\ outcome = [r \in Renters |-> "ok"]
  /\ result = [r \in Renters |-> "none"]
  /\ made = [r \in Renters |-> {}]
  /\ cloud = [i \in Ids |-> "none"]
  /\ listed = {}
  /\ ledger = {}
  /\ blind = {}
  /\ vendor \in Vendors
  /\ faults \in FaultModes

\* The steps a live process takes by itself once it is inside rent().
RenterStep(r) ==
  \/ CreateSucceeds(r) \/ CreateFails(r) \/ CreateReplyLost(r)
  \/ RecordRented(r) \/ FailBeforeTry(r)
  \/ HostComesUp(r) \/ WaitFails(r) \/ UseEnds(r)
  \/ DestroyAttempt(r) \/ VerifyTeardown(r) \/ RecordDestroyed(r)

CloudStep(i) == Evict(i) \/ Surface(i)

RentalNext ==
  \/ \E r \in Renters : BeginRent(r) \/ RenterStep(r) \/ Kill(r) \/ KillInFlight(r)
  \/ \E i \in Ids : CloudStep(i)

RentalSpec == RentalInit /\ [][RentalNext]_rentalVars

\* A live process keeps running: every call it makes has a timeout, so each
\* step inside rent() is eventually taken.  Nobody must start a rental, and
\* neither the cloud nor a kill owes anything.
FairRentalSpec == RentalSpec /\ \A r \in Renters : WF_rentalVars(RenterStep(r))

-----------------------------------------------------------------------------
(* The abstract view: what a caller of rent() can rely on                  *)

\* How a call that is over ended, as far as its instance is concerned.
Fate(r) ==
  IF pc[r] # "done" THEN "none"
  ELSE IF result[r] = "leak_risk" THEN "alarm"
  ELSE IF made[r] \cap blind # {} THEN "unrecorded"
  ELSE IF verify[r] = "unverified" THEN "unverified"
  ELSE "clean"

Contract == INSTANCE RentContract WITH
  Callers  <- Renters,
  inside   <- {r \in Renters : Inside(r)},
  acquired <- made,
  fate     <- [r \in Renters |-> Fate(r)],
  fresh    <- {i \in Ids : cloud[i] = "none"},
  alive    <- {i \in Ids : Alive(i)},
  reapable <- LeakedIds(ledger),
  prompt   <- PromptListing

-----------------------------------------------------------------------------
(* Properties                                                              *)

\* rent() keeps the contract of protocols.Provider: at most one instance to a
\* call, and a call that ends without an alarm, and could look, left none.
KeepsContract == Contract!ContractSpec

\* Every instance that still bills is on the list reap works from (rented and
\* never confirmed destroyed), except while its caller has not yet reached the
\* `rented` row, and except the ones that lost their caller before it: reap is
\* a complete backstop for whatever was recorded (reap.leaked_ids), wherever the
\* listing rent() verifies its teardown against is prompt.
LedgerCoversBilling ==
  PromptListing => \A i \in Ids : Alive(i) =>
    \/ i \in LeakedIds(ledger)
    \/ i \in blind
    \/ \E r \in Renters : pc[r] = "created" /\ box[r] = i

\* A rent() that ended without raising LeakRisk, and whose verify listing could
\* be read, left nothing billing: not even when the DELETE was accepted and not
\* carried out, or its reply was lost (the finally block of rent).
NoSilentLeak ==
  PromptListing => \A r \in Renters :
    pc[r] = "done" /\ box[r] # None /\ box[r] \notin blind /\ Alive(box[r])
      => result[r] = "leak_risk" \/ verify[r] = "unverified"

\* One rent() places at most one instance, however often create is resent: only
\* a request that cannot have been acted on is sent again (_transient).
OneBoxPerRent == \A r \in Renters : Cardinality(made[r]) <= 1

\* A rent() that raised LeakRisk over a box that still bills left that box where
\* reap finds it (reap.leaked_ids: a teardown that failed does not clear it).
LeakRiskStaysReapable ==
  PromptListing => \A r \in Renters :
    pc[r] = "done" /\ result[r] = "leak_risk" /\ Alive(box[r])
      => box[r] \in LeakedIds(ledger)

\* RentUnavailable means that no instance exists (protocols.RentUnavailable).
UnavailableMeansNothingPlaced ==
  \A r \in Renters :
    pc[r] = "done" /\ result[r] = "unavailable" => made[r] = {}

\* Every call of rent() comes back, unless its process is killed.
EveryRentEnds == \A r \in Renters : Inside(r) ~> ~Inside(r)

=============================================================================
