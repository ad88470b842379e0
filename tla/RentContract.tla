---------------------------- MODULE RentContract ----------------------------
(***************************************************************************)
(* What rent() promises whoever calls it (protocols.Provider), with none   *)
(* of its steps: a call acquires at most one instance, and how the call    *)
(* ends says whether that instance may still bill.                         *)
(*                                                                         *)
(*   clean       nothing the call acquired bills any more                  *)
(*   unverified  the listing could not be read; what bills is reapable     *)
(*   alarm       LeakRisk; what bills is reapable                          *)
(*   unrecorded  the caller never learned of the instance, or could not    *)
(*               write it down: no promise                                 *)
(*                                                                         *)
(* The promises about what bills hold where the listing is prompt.         *)
(***************************************************************************)
EXTENDS Naturals, FiniteSets

CONSTANTS
  Callers,  \* the concurrent callers of rent()
  Ids       \* instance ids, never reused

VARIABLES
  inside,    \* callers in the middle of a call
  acquired,  \* what the present or last call of each acquired
  fate,      \* how the last call of each ended, "none" during a call
  fresh,     \* ids the cloud has not handed out
  alive,     \* instances that bill
  reapable,  \* instances on the list reap works from
  prompt     \* does the cloud's listing show an instance at once?

contractVars == <<inside, acquired, fate, fresh, alive, reapable, prompt>>

Fates == {"none", "clean", "unverified", "alarm", "unrecorded"}

Enter(r) ==
  /\ r \notin inside
  /\ inside' = inside \cup {r}
  /\ acquired' = [acquired EXCEPT ![r] = {}]
  /\ fate' = [fate EXCEPT ![r] = "none"]
  /\ UNCHANGED <<fresh, alive, reapable, prompt>>

Born(i) == i \in fresh /\ fresh' = fresh \ {i} /\ alive' = alive \cup {i}

Acquire(r) ==
  /\ r \in inside /\ acquired[r] = {}
  /\ \E i \in Ids : Born(i) /\ acquired' = [acquired EXCEPT ![r] = {i}]
  /\ UNCHANGED <<inside, fate, reapable, prompt>>

\* The instance is there and the caller is told that it is not.
AcquireUnseen(r) ==
  /\ r \in inside /\ acquired[r] = {}
  /\ \E i \in Ids : Born(i) /\ acquired' = [acquired EXCEPT ![r] = {i}]
  /\ inside' = inside \ {r}
  /\ fate' = [fate EXCEPT ![r] = "unrecorded"]
  /\ UNCHANGED <<reapable, prompt>>

WriteDown(r) ==
  /\ r \in inside
  /\ reapable' = reapable \cup acquired[r]
  /\ UNCHANGED <<inside, acquired, fate, fresh, alive, prompt>>

\* What the call did not leave alive it may strike off the list.
Leave(r, f) ==
  /\ r \in inside
  /\ reapable' \in {reapable, reapable \ acquired[r]}
  /\ prompt => /\ f = "clean" => acquired[r] \cap alive = {}
               /\ f \in {"unverified", "alarm"} =>
                    acquired[r] \cap alive \subseteq reapable'
               /\ alive \cap reapable \subseteq reapable'
  /\ inside' = inside \ {r}
  /\ fate' = [fate EXCEPT ![r] = f]
  /\ UNCHANGED <<acquired, fresh, alive, prompt>>

\* The process is killed; one it had asked for may be born all the same.
Die(r) ==
  /\ r \in inside
  /\ inside' = inside \ {r}
  /\ acquired' = [acquired EXCEPT ![r] = {}]
  /\ UNCHANGED <<fresh, alive>> \/ \E i \in Ids : Born(i)
  /\ UNCHANGED <<fate, reapable, prompt>>

\* An instance stops billing, by the caller's doing or by anybody else's.
Stop(i) ==
  /\ i \in alive
  /\ alive' = alive \ {i}
  /\ UNCHANGED <<inside, acquired, fate, fresh, reapable, prompt>>

ContractInit ==
  /\ inside = {} /\ alive = {} /\ reapable = {} /\ fresh = Ids
  /\ acquired = [r \in Callers |-> {}]
  /\ fate = [r \in Callers |-> "none"]
  /\ prompt \in BOOLEAN

ContractNext ==
  \/ \E r \in Callers :
       \/ Enter(r) \/ Acquire(r) \/ AcquireUnseen(r) \/ WriteDown(r) \/ Die(r)
       \/ \E f \in Fates \ {"none"} : Leave(r, f)
  \/ \E i \in Ids : Stop(i)

ContractSpec == ContractInit /\ [][ContractNext]_contractVars

=============================================================================
