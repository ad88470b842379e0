------------------------------- MODULE Launch --------------------------------
(***************************************************************************)
(* A campaign on a rented host: the gauntlet first, ProviderExecutor.run   *)
(* after it.  What the gauntlet is about is what the executor meets: a key *)
(* the hosts refuse, a provider that cannot say whether a host is dead.    *)
(***************************************************************************)
EXTENDS Gauntlet, ProviderExec

launchVars == <<gauntletVars, execVars>>

LaunchTypeOK == GauntletTypeOK /\ ProviderExecTypeOK

\* Every host refuses the connection, however good it is.
KeyTrouble == wrong \cap {"key_absent", "key_exposed", "unregistered"}

KeyChecks == {k \in Checks : LooksFor[k] \cap KeyTrouble # {}}

\* The green light is given.  Of the pass only what the hosts can still meet is
\* kept: the key's trouble, and the checks that look for it.
Go ==
  /\ phase = "green"
  /\ phase' = "launched"
  /\ wrong' = KeyTrouble
  /\ late' = late \cap KeyTrouble
  /\ dropped' = dropped \cap KeyChecks /\ skip' = skip \cap KeyChecks
  /\ report' = {} /\ UNCHANGED <<list, at>>
  /\ sees' = ("no_dead_reason" \notin wrong)
  /\ UNCHANGED <<runVars, boxVars>>

\* run_campaign calls the executor.
Call ==
  /\ phase = "launched"
  /\ \E n \in 0 .. MaxOffers : ListOffers(n)
  /\ UNCHANGED gauntletVars

Operate == GauntletStep /\ UNCHANGED execVars
Run     == ExecStep(KeyTrouble = {}) /\ UNCHANGED gauntletVars

LaunchInit == GauntletInit /\ ExecInit /\ sees

LaunchNext ==
  \/ Operate \/ Go \/ Call \/ Run
  \/ DriftAny /\ UNCHANGED execVars
  \/ HostStep /\ UNCHANGED gauntletVars

LaunchSpec == LaunchInit /\ [][LaunchNext]_launchVars

\* The operator goes on with the gauntlet and run() takes its steps; a launch, a
\* host that dies and a stray worker's end are nobody's duty.
FairLaunchSpec == LaunchSpec /\ WF_launchVars(Operate) /\ WF_launchVars(Run)

-----------------------------------------------------------------------------
(* Properties                                                              *)

\* A host that refuses the key is rented only where no check stood: the operator
\* left it out or skipped it, or the trouble came after it had passed
\* (SshKeyPresent, SshKeyRegistered; seven hosts were once rented without them).
RefusalIsNoSurprise ==
  pe = "booting" => \A d \in KeyTrouble : d \in late \/ Seen(d) = {}

=============================================================================
