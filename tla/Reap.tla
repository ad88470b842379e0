-------------------------------- MODULE Reap --------------------------------
(***************************************************************************)
(* run_farm.reap, the external backstop, running beside the drivers of     *)
(* module Rental on the same account and the same ledger file: what main   *)
(* lets through, which instances reap() targets, how it destroys them, and *)
(* which ledger rows it closes.                                            *)
(*                                                                         *)
(* Time is two facts: an instance has surfaced in the listing or not, and  *)
(* its `rented` row is older than _CLOSE_GRACE_S or not.                   *)
(***************************************************************************)
EXTENDS Rental

CONSTANTS
  FlagSets,      \* the command lines an operator uses
  ReapRetries,   \* --retries
  MaxReapKills,  \* bound on how often the reaper itself is killed
  Foreign,       \* the ids the cloud hands to other sessions, the rest being ours
  SlowReap       \* may a reap outlast the grace period of a row?

ASSUME ReapAssumption ==
  /\ FlagSets \subseteq [ledger : BOOLEAN, label : BOOLEAN, older : BOOLEAN,
                         all : BOOLEAN, inUse : BOOLEAN, yes : BOOLEAN]
  /\ ReapRetries \in Nat \ {0}
  /\ MaxReapKills \in Nat
  /\ Foreign \subseteq Ids
  /\ SlowReap \in BOOLEAN

VARIABLES
  rpc,       \* where the reaper is
  flags,     \* its command line
  live,      \* the listing it works from
  targets,   \* still to destroy
  rtries,    \* attempts at the present target
  killed,    \* report["destroyed"] + report["gone"]
  vanished,  \* the rows it found open for instances absent from `live`
  old,       \* instances past _CLOSE_GRACE_S (their rows too) and --older-than
  reapKills, \* how often the reaper was killed
  theirs,    \* instances of another session on the account: no row, other label
  phantoms   \* (history) old open rows of gone instances when `live` was fetched

reaperVars == <<rpc, flags, live, targets, rtries, killed, vanished, phantoms>>
accountVars == <<old, theirs, reapKills>>
reapVars   == <<rentalVars, reaperVars, accountVars>>

NoFlags == [ledger |-> FALSE, label |-> FALSE, older |-> FALSE,
            all |-> FALSE, inUse |-> FALSE, yes |-> FALSE]

ReapTypeOK ==
  /\ RentalTypeOK
  /\ rpc \in {"off", "scoping", "killing", "reading", "closing"}
  /\ flags \in FlagSets \cup {NoFlags}
  /\ live \subseteq Ids /\ targets \subseteq Ids /\ killed \subseteq Ids
  /\ vanished \subseteq Ids /\ old \subseteq Ids /\ theirs \subseteq Ids
  /\ phantoms \subseteq Ids
  /\ rtries \in 0 .. ReapRetries - 1
  /\ reapKills \in 0 .. MaxReapKills

-----------------------------------------------------------------------------
(* The account around the reaper                                           *)

\* Another session rents on the same account: not our label, not our ledger.
StrangerRents(i) ==
  /\ i \in Foreign
  /\ Place(i)
  /\ theirs' = theirs \cup {i}
  /\ UNCHANGED <<callerVars, ledger, blind, envVars, reaperVars, old, reapKills>>

\* An instance and its row grow older than the grace period, or than the age the
\* operator asked for.  An instance surfaces in the listing before that.  Unless
\* SlowReap, the reaper is quick as well: an instance its listing missed is not
\* old by the time it closes rows.
Age(i) ==
  /\ i \notin old /\ (i \in Seen(ledger) \/ Alive(i))
  /\ Alive(i) => i \in listed
  /\ ~SlowReap /\ rpc # "off" /\ Alive(i) => i \in live
  /\ old' = old \cup {i}
  /\ UNCHANGED <<rentalVars, reaperVars, theirs, reapKills>>

-----------------------------------------------------------------------------
(* main: the gates                                                         *)

\* Nothing live is the end of it, except for a ledger with rows left to close.
SomethingToDo(f, shown) ==
  shown # {} \/ (f.yes /\ f.ledger /\ LeakedIds(ledger) # {})

\* An unscoped destroy needs --all; a --label destroy with no orphan filter
\* needs --include-in-use.
Refused(f) ==
  \/ f.yes /\ ~f.ledger /\ ~f.label /\ ~f.all
  \/ f.yes /\ f.label /\ ~f.ledger /\ ~f.older /\ ~f.inUse

StartReap(f) ==
  /\ rpc = "off"
  /\ SomethingToDo(f, Listing)
  /\ ~Refused(f)
  /\ rpc' = "scoping"
  /\ flags' = f
  /\ live' = Listing
  /\ phantoms' = {i \in LeakedIds(ledger) \cap old : ~Alive(i)}
  /\ UNCHANGED <<targets, rtries, killed, vanished, rentalVars, accountVars>>

-----------------------------------------------------------------------------
(* reap()                                                                  *)

\* The reaper's locals are gone when it returns or is killed.
ReaperGone ==
  /\ rpc' = "off" /\ flags' = NoFlags /\ live' = {} /\ targets' = {}
  /\ rtries' = 0 /\ killed' = {} /\ vanished' = {} /\ phantoms' = {}

\* Mutant: --label does not narrow the listing.
InScope_NoLabel(f, shown) ==
  {i \in shown : /\ f.ledger => i \in LeakedIds(ledger)
                 /\ f.older  => i \in old}

\* The filters only narrow.  --label keeps our label, so never a stranger's box.
InScope(f, shown) ==
  {i \in shown : /\ f.ledger => i \in LeakedIds(ledger)
                 /\ f.label  => i \notin theirs
                 /\ f.older  => i \in old}

\* A label or age scope without a ledger fetches a fresh listing first.
Scope ==
  /\ rpc = "scoping"
  /\ LET relist == flags.yes /\ ~flags.ledger /\ (flags.label \/ flags.older)
         shown  == IF relist THEN Listing ELSE live
     IN  IF flags.yes
           THEN /\ live' = shown
                /\ targets' = InScope(flags, shown)
                /\ rpc' = "killing"
                /\ UNCHANGED <<flags, rtries, killed, vanished, phantoms>>
           ELSE ReaperGone
  /\ UNCHANGED <<rentalVars, accountVars>>

Aim == CHOOSE i \in targets : TRUE

\* One attempt of _destroy_with_retry at the target in hand.  An error is
\* retried; an authorization error, a bug and the last attempt end in "failed".
DestroyTarget(reply, terminal) ==
  /\ rpc = "killing" /\ targets # {}
  /\ DeleteCall(Aim, reply)
  /\ IF reply = "error" /\ ~terminal /\ rtries + 1 < ReapRetries
       THEN /\ rtries' = rtries + 1
            /\ UNCHANGED <<targets, killed>>
       ELSE /\ rtries' = 0
            /\ targets' = targets \ {Aim}
            /\ killed' = IF reply = "error" THEN killed ELSE killed \cup {Aim}
  /\ UNCHANGED <<callerVars, listed, ledger, blind, envVars,
                 rpc, flags, live, vanished, phantoms, accountVars>>

\* Mutant: a run that destroyed nothing returns without closing rows.
TargetsDone_EarlyReturn ==
  /\ rpc = "killing" /\ targets = {}
  /\ IF flags.ledger /\ killed # {}
       THEN /\ rpc' = "reading"
            /\ UNCHANGED <<flags, live, targets, rtries, killed, vanished, phantoms>>
       ELSE ReaperGone
  /\ UNCHANGED <<rentalVars, accountVars>>

\* All targets handled; with a ledger the open rows are read again.
TargetsDone ==
  /\ rpc = "killing" /\ targets = {}
  /\ IF flags.ledger
       THEN /\ rpc' = "reading"
            /\ UNCHANGED <<flags, live, targets, rtries, killed, vanished, phantoms>>
       ELSE ReaperGone
  /\ UNCHANGED <<rentalVars, accountVars>>

\* Mutant: no grace period.
Vanished_NoGrace == (LeakedIds(ledger) \ live) \ killed

\* Mutant: instances this reap did not kill are never closed.
Vanished_Never == {}

\* Open rows whose instance `live` does not show, this reap did not kill, and
\* that are older than the grace period.
Vanished == ((LeakedIds(ledger) \ live) \ killed) \cap old

ReadOpenRows ==
  /\ rpc = "reading"
  /\ vanished' = Vanished
  /\ rpc' = "closing"
  /\ UNCHANGED <<flags, live, targets, rtries, killed, phantoms,
                 rentalVars, accountVars>>

\* Mutant: closed rows are taken out of the file instead of answered by new ones.
CloseRows_Rewritten ==
  /\ rpc = "closing"
  /\ ledger' = {row \in ledger : row.id \notin killed \cup vanished}
  /\ ReaperGone
  /\ UNCHANGED <<callerVars, cloud, listed, blind, envVars, accountVars>>

\* _close_ledger_rows: a confirmed `destroyed` row for each.
CloseRows ==
  /\ rpc = "closing"
  /\ ledger' = ledger \cup
       {[event |-> "destroyed", id |-> i, verify |-> "gone", by |-> "reap"] : i \in killed \cup vanished}
  /\ ReaperGone
  /\ UNCHANGED <<callerVars, cloud, listed, blind, envVars, accountVars>>

KillReap ==
  /\ rpc # "off" /\ reapKills < MaxReapKills
  /\ reapKills' = reapKills + 1
  /\ ReaperGone
  /\ UNCHANGED <<rentalVars, old, theirs>>

-----------------------------------------------------------------------------
ReapInit ==
  /\ RentalInit
  /\ rpc = "off" /\ flags = NoFlags /\ live = {} /\ targets = {} /\ rtries = 0
  /\ killed = {} /\ vanished = {} /\ old = {} /\ theirs = {} /\ phantoms = {}
  /\ reapKills = 0

ReaperStep ==
  \/ Scope \/ TargetsDone \/ ReadOpenRows \/ CloseRows
  \/ \E reply \in {"ok", "absent", "error"}, terminal \in BOOLEAN :
       DestroyTarget(reply, terminal)

\* A step of a driver or of the cloud.  An id is never reused, so which ids go
\* to strangers may as well be fixed from the start.
Meanwhile(A) ==
  /\ A
  /\ \A i \in Foreign : cloud[i] = "none" => cloud'[i] = "none"
  /\ UNCHANGED <<reaperVars, accountVars>>

ReapNext ==
  \/ Meanwhile(RentalNext)
  \/ \E i \in Ids : StrangerRents(i) \/ Age(i)
  \/ \E f \in FlagSets : StartReap(f)
  \/ ReaperStep
  \/ KillReap

ReapSpec == ReapInit /\ [][ReapNext]_reapVars

\* The reaper's process and the drivers keep running, the operator comes back
\* with a ledger-scoped reap, a DELETE sent over and over is carried out in the
\* end, the listing catches up and time passes.
FairReapSpec ==
  /\ ReapSpec
  /\ WF_reapVars(ReaperStep)
  /\ \A f \in FlagSets : f.ledger /\ f.yes => SF_reapVars(StartReap(f))
  /\ SF_reapVars(DestroyTarget("ok", FALSE))
  /\ \A i \in Ids : WF_reapVars(Age(i)) /\ WF_reapVars(Meanwhile(Surface(i)))
  /\ \A r \in Renters : WF_reapVars(Meanwhile(RenterStep(r)))

-----------------------------------------------------------------------------
(* The drivers' view: this campaign's instances and the rows drivers wrote.  *)

Drivers == INSTANCE Rental WITH
  cloud  <- [i \in Ids |-> IF i \in Foreign THEN "none" ELSE cloud[i]],
  listed <- listed \ Foreign,
  ledger <- {row \in ledger : row.by = "driver"}

-----------------------------------------------------------------------------
(* Properties                                                              *)

\* To a driver the reaper is the cloud: whatever reap destroys, and whichever rows
\* it closes meanwhile, the drivers' own instances and rows go through a behaviour
\* they could go through without it, an eviction here and there (Provider.rent's
\* finally meets an instance that is gone; the ledger is appended to, never
\* rewritten).
DriversUnaware == Drivers!RentalSpec

\* A row that reap closes belongs to an instance that is gone: one it killed,
\* or one absent from a listing for longer than a listing can lag.  A closed
\* row is never looked at again, so closing a live one is a permanent leak.
ClosedByReapIsGone ==
  \A row \in ledger : row.by = "reap" => ~Alive(row.id)

\* Whatever happens meanwhile, a ledger-scoped reap that runs to its end closes
\* every old row whose instance was already gone when it listed the account, a
\* run with nothing to destroy included: otherwise it counts as in-flight spend
\* for ever (budget._in_flight_usd).
NoPhantomSurvives ==
  [][rpc # "off" /\ rpc' = "off" /\ reapKills' = reapKills /\ flags.ledger /\ flags.yes
       => phantoms \cap LeakedIds(ledger') = {}]_reapVars

Destroys(i) == Alive(i) /\ cloud'[i] = "gone"

\* Another session's instance falls to the reaper only under --all.
StrangersNeedAll ==
  [][\A i \in theirs : rpc = "killing" /\ targets' # targets /\ Destroys(i) => flags.all]_reapVars

\* A box somebody is working on falls only to the scopes that admit it: --all,
\* --include-in-use, or an age proxy; --ledger means leaks only.
InUseIsSpared ==
  [][\A r \in Renters :
       pc[r] = "using" /\ rpc = "killing" /\ targets' # targets /\ Destroys(box[r])
         => flags.all \/ flags.inUse \/ flags.older]_reapVars

\* A recorded instance whose driver is gone does not stay on the list: it is
\* destroyed and its row closed, however often reap is killed half way.
EveryOpenRowCloses ==
  \A i \in Ids :
    (i \in LeakedIds(ledger) /\ \A r \in Renters : box[r] = i => ~Inside(r))
      ~> i \notin LeakedIds(ledger)

=============================================================================
