---------------------------- MODULE LaunchProofs ----------------------------
(***************************************************************************)
(* Proofs about module Launch, for every number of configs, offers and     *)
(* attempts, every timeout and every set of facts that may come true: the  *)
(* slice's workers, time and records first, then the gauntlet's report and *)
(* what it means for the hosts rented after it.                            *)
(***************************************************************************)
EXTENDS Launch, TLAPS

-----------------------------------------------------------------------------
(* ProviderExecutor.run                                                    *)

\* The records so far are one for each config behind the present one.
RecordsInStep ==
  /\ pe \in InWorker => Len(recs) = cfg - 1 /\ attempt < Attempts
  /\ pe \in {"probing", "napping"} => attempt + 1 < Attempts
  /\ pe = "judging" => Len(recs) = cfg
  /\ pe \in {"syncing", "closing", "returned"} => Len(recs) = NConfigs

\* What a probe may still take is part of what is left of the deadline.
DeadlineShared ==
  /\ elapsed <= RunTimeout
  /\ pe = "probing" => elapsed + patience <= RunTimeout

RecordsAreTrue ==
  pe \in InWorker \cup {"judging", "syncing", "closing", "returned"} =>
    \A c \in DOMAIN recs : recs[c] # "error" => c \in finished

OneStray ==
  \A c \in Configs :
    /\ strays[c] <= 1
    /\ strays[c] > 0 => \/ c \in DOMAIN recs /\ recs[c] = "error"
                        \/ c = cfg /\ pe = "probing"

NoStrayBetweenHosts ==
  pe \in {"idle", "renting", "booting", "returned", "raised"} =>
    \A c \in Configs : strays[c] = 0

ExecInv ==
  /\ ProviderExecTypeOK
  /\ RecordsInStep /\ DeadlineShared /\ RecordsAreTrue /\ OneStray /\ NoStrayBetweenHosts

LEMMA ExecInitially == ExecInit => ExecInv
<1> SUFFICES ASSUME ExecInit PROVE ExecInv
  OBVIOUS
<1>1. 1 \in Configs /\ Attempts \in Nat /\ 0 \in 0 .. Attempts /\ 3 * Backoff \in Nat
  BY ProviderExecAssumption DEF Configs, Attempts
<1>2. recs = <<>> /\ recs \in Seq(Kinds) /\ Len(recs) = 0
  BY DEF ExecInit
<1>3. ProviderExecTypeOK
  <2>1. sees \in BOOLEAN /\ boxUp \in BOOLEAN
    BY Zenon DEF ExecInit
  <2>2. /\ pe \in Working \cup {"idle", "returned", "raised"}
        /\ plan \in 0 .. MaxAttempts /\ cfg \in Configs /\ attempt \in 0 .. Attempts
        /\ elapsed \in Nat /\ patience \in 0 .. 3 * Backoff
        /\ whyRaised \in {"none", "no_offers", "exhausted", "alarm", "terminal"}
        /\ finished \subseteq Configs
    BY <1>1, ProviderExecAssumption DEF ExecInit
  <2>3. strays \in [Configs -> 0 .. Attempts]
    BY <1>1 DEF ExecInit
  <2>4. Len(recs) <= NConfigs
    BY <1>2, ProviderExecAssumption
  <2> QED
    BY <1>2, <2>1, <2>2, <2>3, <2>4 DEF ProviderExecTypeOK
<1>4. RecordsInStep /\ DeadlineShared /\ RecordsAreTrue /\ OneStray /\ NoStrayBetweenHosts
  BY <1>2, ProviderExecAssumption
     DEF ExecInit, RecordsInStep, DeadlineShared, RecordsAreTrue, OneStray,
         NoStrayBetweenHosts, InWorker
<1> QED
  BY <1>3, <1>4 DEF ExecInv


\* Giving a host up, with the next offer to come or with run() at its end.
LEMMA HostGone ==
  ASSUME ExecInv,
         boxUp' = FALSE, strays' = [c \in Configs |-> 0],
         UNCHANGED <<cfg, attempt, elapsed, patience, recs, finished, sees>>,
         plan' \in 0 .. MaxAttempts,
         whyRaised' \in {"none", "no_offers", "exhausted", "alarm", "terminal"},
         \/ pe' \in {"renting", "raised"}
         \/ pe = "closing" /\ pe' = "returned"
  PROVE  ExecInv'
<1>1. ProviderExecTypeOK'
  <2>1. sees' \in BOOLEAN /\ boxUp' \in BOOLEAN
    BY Zenon DEF ExecInv, ProviderExecTypeOK
  <2>2. strays' \in [Configs -> 0 .. Attempts]
    BY ProviderExecAssumption DEF Attempts
  <2> QED
    BY <2>1, <2>2 DEF ExecInv, ProviderExecTypeOK, Working, InWorker
<1>2. \A c \in Configs : strays'[c] = 0
  OBVIOUS
<1>3. RecordsInStep' /\ DeadlineShared' /\ RecordsAreTrue' /\ OneStray' /\ NoStrayBetweenHosts'
  BY <1>2, ProviderExecAssumption
     DEF ExecInv, RecordsInStep, DeadlineShared, RecordsAreTrue, OneStray,
         NoStrayBetweenHosts, InWorker
<1> QED
  BY <1>1, <1>3 DEF ExecInv

LEMMA AbandonKeeps ==
  ASSUME ExecInv, Abandon
  PROVE  ExecInv'
<1>1. plan \in 0 .. MaxAttempts /\ whyRaised \in {"none", "no_offers", "exhausted", "alarm", "terminal"}
  BY DEF ExecInv, ProviderExecTypeOK
<1>2. /\ pe' \in {"renting", "raised"}
      /\ plan' \in 0 .. MaxAttempts
      /\ whyRaised' \in {"none", "no_offers", "exhausted", "alarm", "terminal"}
  BY <1>1, ProviderExecAssumption DEF Abandon, NextOffer, Raise
<1> QED
  BY <1>2, HostGone, Zenon DEF Abandon

\* A record that is true of the host, and what may go on running beside it.
LEMMA ReportKeeps ==
  ASSUME ExecInv, NEW kind \in Kinds, NEW now \in Nat,
         pe \in {"invoking", "attached"}, Report(kind),
         elapsed' = now, now <= RunTimeout,
         UNCHANGED <<plan, cfg, attempt, patience, whyRaised, boxUp, sees>>,
         finished \subseteq finished', finished' \subseteq Configs,
         kind # "error" => cfg \in finished',
         \/ strays' = strays
         \/ kind = "error" /\ strays' = [strays EXCEPT ![cfg] = @ + 1]
  PROVE  ExecInv'
<1> USE ProviderExecAssumption
<1>1. /\ cfg \in 1 .. NConfigs /\ recs \in Seq(Kinds) /\ Len(recs) = cfg - 1
      /\ recs' = Append(recs, kind) /\ pe' = "judging"
  BY DEF ExecInv, ProviderExecTypeOK, RecordsInStep, InWorker, Configs, Report
<1>2. /\ recs' \in Seq(Kinds) /\ Len(recs') = cfg
      /\ DOMAIN recs' = DOMAIN recs \cup {cfg}
      /\ recs'[cfg] = kind
      /\ \A c \in DOMAIN recs : recs'[c] = recs[c]
  BY <1>1 DEF Kinds
<1>3. strays[cfg] = 0 /\ strays \in [Configs -> 0 .. Attempts]
  BY <1>1 DEF ExecInv, ProviderExecTypeOK, OneStray, Configs, Attempts
<1>4. strays' \in [Configs -> 0 .. Attempts]
  <2>1. Attempts \in Nat /\ 1 <= Attempts /\ cfg \in Configs
    BY <1>1 DEF Configs, Attempts
  <2>2. strays' = strays \/ strays' = [strays EXCEPT ![cfg] = 1]
    BY <1>3
  <2> QED
    BY <1>3, <2>1, <2>2
<1>5. ProviderExecTypeOK'
  BY <1>1, <1>2, <1>4 DEF ExecInv, ProviderExecTypeOK, Working
<1>6. OneStray'
  BY <1>1, <1>2, <1>3 DEF ExecInv, OneStray, Configs
<1>7. RecordsAreTrue'
  BY <1>1, <1>2 DEF ExecInv, RecordsAreTrue, InWorker
<1>8. RecordsInStep' /\ DeadlineShared' /\ NoStrayBetweenHosts'
  BY <1>1, <1>2 DEF RecordsInStep, DeadlineShared, NoStrayBetweenHosts, InWorker
<1> QED
  BY <1>5, <1>6, <1>7, <1>8 DEF ExecInv

LEMMA LeastBound ==
  ASSUME NEW a \in Nat, NEW b \in Nat
  PROVE  Least(a, b) \in 0 .. a /\ Least(a, b) <= b
BY DEF Least

\* A call that was given no more than what is left of the deadline.
LEMMA CallKeepsDeadline ==
  ASSUME ExecInv, pe \in InWorker, Takes(CallLimit)
  PROVE  \E now \in Nat : elapsed' = now /\ now <= RunTimeout
<1>1. elapsed \in Nat /\ elapsed <= RunTimeout /\ RunTimeout \in Nat
  BY ProviderExecAssumption DEF ExecInv, ProviderExecTypeOK, DeadlineShared
<1>2. Left = RunTimeout - elapsed
  BY <1>1 DEF Left
<1>3. PICK now \in elapsed .. elapsed + Left : elapsed' = now
  BY DEF Takes, CallLimit
<1> QED
  BY <1>1, <1>2, <1>3

LEMMA OrphanedKeeps ==
  ASSUME ExecInv, Orphaned
  PROVE  /\ finished \subseteq finished' /\ finished' \subseteq Configs
         /\ strays' = strays \/ strays' = [strays EXCEPT ![cfg] = @ + 1]
BY DEF ExecInv, ProviderExecTypeOK, Orphaned

\* A channel that is gone: the last word, or a probe for who is left.
LEMMA AfterTransportKeeps ==
  ASSUME ExecInv, pe \in {"invoking", "attached"}, AfterTransport,
         NEW now \in Nat, elapsed' = now, now <= RunTimeout,
         UNCHANGED <<plan, cfg, whyRaised, boxUp, sees>>,
         finished \subseteq finished', finished' \subseteq Configs,
         strays' = strays \/ strays' = [strays EXCEPT ![cfg] = @ + 1]
  PROVE  ExecInv'
<1> USE ProviderExecAssumption
<1>1. CASE Report("error") /\ UNCHANGED <<attempt, patience>>
  BY <1>1, ReportKeeps DEF Kinds
<1>2. CASE /\ attempt + 1 < Attempts /\ pe' = "probing"
           /\ patience' = Least(3 * Backoff, Left') /\ UNCHANGED <<attempt, recs>>
  <2>1. cfg \in 1 .. NConfigs /\ recs \in Seq(Kinds) /\ Len(recs) = cfg - 1
    BY DEF ExecInv, ProviderExecTypeOK, RecordsInStep, InWorker, Configs
  <2>a. patience' \in 0 .. 3 * Backoff /\ elapsed' + patience' <= RunTimeout
    <3>1. 3 * Backoff \in Nat /\ RunTimeout - now \in Nat
      OBVIOUS
    <3>2. Left' = RunTimeout - now
      BY DEF Left
    <3>3. patience' = Least(3 * Backoff, RunTimeout - now)
      BY <1>2, <3>2
    <3>4. PICK p \in 0 .. 3 * Backoff : patience' = p /\ p <= RunTimeout - now
      BY <3>1, <3>3, LeastBound
    <3> QED
      BY <3>4
  <2>2. strays[cfg] = 0 /\ strays \in [Configs -> 0 .. Attempts]
    BY <2>1 DEF ExecInv, ProviderExecTypeOK, OneStray, Configs, Attempts
  <2>3. strays' \in [Configs -> 0 .. Attempts]
    BY <2>1, <2>2 DEF Configs, Attempts
  <2>4. ProviderExecTypeOK'
    BY <1>2, <2>1, <2>a, <2>3 DEF ExecInv, ProviderExecTypeOK, Working, InWorker
  <2>5. OneStray'
    BY <1>2, <2>1, <2>2 DEF ExecInv, OneStray, Configs
  <2>6. RecordsAreTrue' /\ RecordsInStep' /\ DeadlineShared' /\ NoStrayBetweenHosts'
    BY <1>2, <2>1, <2>a
       DEF ExecInv, RecordsAreTrue, RecordsInStep, DeadlineShared, NoStrayBetweenHosts, InWorker
  <2> QED
    BY <2>4, <2>5, <2>6 DEF ExecInv
<1> QED
  BY <1>1, <1>2 DEF AfterTransport

\* Each step of run() keeps the invariant.
LEMMA ExecStepKeeps ==
  ASSUME ExecInv, NEW reachable, ExecStep(reachable)
  PROVE  ExecInv'
<1> USE ProviderExecAssumption
<1> USE DEF ExecInv, ProviderExecTypeOK, RecordsInStep, DeadlineShared, RecordsAreTrue,
       OneStray, NoStrayBetweenHosts, InWorker, Working, Kinds, Configs, Attempts,
       boxVars
<1>1. CASE RentFails
  BY <1>1 DEF NextOffer, Raise, RentFails
<1>2. CASE RentYields
  BY <1>2 DEF RentYields
<1>3. CASE EngineReady(reachable)
  BY <1>3 DEF Enter, EngineReady
<1>4. CASE NeverReady
  BY <1>4, AbandonKeeps DEF NeverReady
<1>5. CASE StartWorker
  BY <1>5 DEF Left, StartWorker
<1>6. CASE DeadlineSpent
  BY <1>6 DEF Report, Left, DeadlineSpent
<1>7. CASE WorkerReturns
  <2>1. pe \in InWorker /\ Takes(CallLimit) /\ cfg \in Configs
    BY <1>7 DEF WorkerReturns
  <2>2. PICK kind \in Kinds :
          /\ Report(kind) /\ finished' \in {finished, finished \cup {cfg}}
          /\ kind # "error" => finished' = finished \cup {cfg}
    BY <1>7 DEF WorkerReturns
  <2>3. PICK now \in Nat : elapsed' = now /\ now <= RunTimeout
    BY <2>1, CallKeepsDeadline
  <2> QED
    BY <1>7, <2>1, <2>2, <2>3, ReportKeeps DEF WorkerReturns
<1>8. CASE CallTimesOut
  <2>1. PICK now \in Nat : elapsed' = now /\ now <= RunTimeout
    BY <1>8 DEF CallTimesOut, CallLimit, Left
  <2> QED
    BY <1>8, <2>1, OrphanedKeeps, ReportKeeps DEF CallTimesOut
<1>9. CASE ChannelDies
  <2>1. pe \in InWorker /\ Takes(CallLimit) /\ AfterTransport
    BY <1>9 DEF ChannelDies
  <2>2. PICK now \in Nat : elapsed' = now /\ now <= RunTimeout
    BY <2>1, CallKeepsDeadline
  <2> QED
    BY <1>9, <2>1, <2>2, OrphanedKeeps, AfterTransportKeeps DEF ChannelDies
<1>10. CASE ConnectFails
  <2>1. pe \in InWorker /\ Takes(CallLimit) /\ AfterTransport
    BY <1>10 DEF ConnectFails
  <2>2. finished' = finished /\ strays' = strays
    BY <1>10 DEF ConnectFails
  <2>3. PICK now \in Nat : elapsed' = now /\ now <= RunTimeout
    BY <2>1, CallKeepsDeadline
  <2> QED
    BY <1>10, <2>1, <2>2, <2>3, AfterTransportKeeps DEF ConnectFails
<1>11. CASE ProbeGone
  BY <1>11 DEF Takes, NoWorker, ProbeGone
<1>12. CASE ProbeAgain
  BY <1>12 DEF ProbeAgain
<1>13. CASE Decline
  BY <1>13 DEF Report, Decline
<1>14. CASE Nap
  BY <1>14 DEF Least, Left, Nap
<1>15. CASE Keep
  BY <1>15 DEF Enter, Keep
<1>16. CASE HostDied
  BY <1>16, AbandonKeeps DEF HostDied
<1>17. CASE SyncBack
  BY <1>17 DEF SyncBack
<1>18. CASE SyncRaises
  <2>1. /\ plan' \in 0 .. MaxAttempts
        /\ whyRaised' \in {"none", "no_offers", "exhausted", "alarm", "terminal"}
        /\ pe' = "raised" \/ (pe = "closing" /\ pe' = "returned")
    BY <1>18 DEF Raise, SyncRaises
  <2> QED
    BY <1>18, <2>1, HostGone DEF SyncRaises
<1>19. CASE GiveBack
  <2>1. /\ plan' \in 0 .. MaxAttempts
        /\ whyRaised' \in {"none", "no_offers", "exhausted", "alarm", "terminal"}
        /\ pe' = "raised" \/ (pe = "closing" /\ pe' = "returned")
    BY <1>19 DEF Raise, GiveBack
  <2> QED
    BY <1>19, <2>1, HostGone DEF GiveBack
<1> QED
  BY <1>1, <1>2, <1>3, <1>4, <1>5, <1>6, <1>7, <1>8, <1>9, <1>10, <1>11, <1>12, <1>13, <1>14, <1>15, <1>16, <1>17, <1>18, <1>19 DEF ExecStep

\* ListOffers is the call itself; the host and the gauntlet leave run() alone.
LEMMA CallKeeps ==
  ASSUME ExecInv, NEW n \in 0 .. MaxOffers, ListOffers(n)
  PROVE  ExecInv'
BY ProviderExecAssumption
   DEF ListOffers, Raise, Least, ExecInv, ProviderExecTypeOK, RecordsInStep, DeadlineShared,
       RecordsAreTrue, OneStray, NoStrayBetweenHosts, InWorker, Working, boxVars

LEMMA HostStepKeeps ==
  ASSUME ExecInv, HostStep
  PROVE  ExecInv'
<1> USE ProviderExecAssumption
<1>1. CASE BoxDies
  <2>1. boxUp' \in BOOLEAN /\ sees' \in BOOLEAN
    BY <1>1, Zenon DEF BoxDies, ExecInv, ProviderExecTypeOK
  <2>2. strays' \in [Configs -> 0 .. Attempts] /\ \A c \in Configs : strays'[c] = 0
    BY <1>1 DEF BoxDies, Attempts
  <2>3. ProviderExecTypeOK'
    BY <1>1, <2>1, <2>2 DEF BoxDies, ExecInv, ProviderExecTypeOK, runVars
  <2>4. RecordsInStep' /\ DeadlineShared' /\ RecordsAreTrue' /\ OneStray' /\ NoStrayBetweenHosts'
    BY <1>1, <2>2
       DEF BoxDies, ExecInv, RecordsInStep, DeadlineShared, RecordsAreTrue, OneStray,
           NoStrayBetweenHosts, runVars
  <2> QED
    BY <2>3, <2>4 DEF ExecInv
<1>2. ASSUME NEW c \in Configs, StrayEnds(c)
      PROVE  ExecInv'
  BY <1>2
     DEF StrayEnds, ExecInv, ProviderExecTypeOK, RecordsInStep, DeadlineShared,
         RecordsAreTrue, OneStray, NoStrayBetweenHosts, InWorker, Configs, Attempts, runVars
<1> QED
  BY <1>1, <1>2 DEF HostStep

LEMMA RunUntouchedKeeps ==
  ASSUME ExecInv, UNCHANGED <<runVars, boxVars>>, sees' \in BOOLEAN
  PROVE  ExecInv'
BY DEF ExecInv, ProviderExecTypeOK, RecordsInStep, DeadlineShared, RecordsAreTrue,
       OneStray, NoStrayBetweenHosts, runVars, boxVars

\* The invariant of ProviderExecutor.run in every launch.
THEOREM SliceInvariant == LaunchSpec => []ExecInv
<1>1. LaunchInit => ExecInv
  BY ExecInitially DEF LaunchInit
<1>2. ExecInv /\ [LaunchNext]_launchVars => ExecInv'
  <2> SUFFICES ASSUME ExecInv, [LaunchNext]_launchVars
               PROVE  ExecInv'
    OBVIOUS
  <2>1. sees \in BOOLEAN
    BY DEF ExecInv, ProviderExecTypeOK
  <2>2. CASE Operate \/ (DriftAny /\ UNCHANGED execVars) \/ UNCHANGED launchVars
    BY <2>1, <2>2, RunUntouchedKeeps, Zenon DEF Operate, execVars, launchVars
  <2>3. CASE Go
    <3>1. sees' \in BOOLEAN
      BY <2>3, Zenon DEF Go
    <3> QED
      BY <2>3, <3>1, RunUntouchedKeeps, Zenon DEF Go
  <2>4. CASE Call
    BY <2>4, CallKeeps DEF Call
  <2>5. CASE Run
    BY <2>5, ExecStepKeeps, Zenon DEF Run
  <2>6. CASE HostStep
    BY <2>6, HostStepKeeps
  <2> QED
    BY <2>2, <2>3, <2>4, <2>5, <2>6 DEF LaunchNext
<1> QED
  BY <1>1, <1>2, PTL DEF LaunchSpec

\* However many attempts, probes and pauses a config takes, it holds its host no
\* longer than run_timeout (_run_worker).
THEOREM DeadlineHolds == LaunchSpec => []WithinRunTimeout
<1>1. ExecInv => WithinRunTimeout
  BY DEF ExecInv, DeadlineShared, WithinRunTimeout
<1> QED
  BY <1>1, SliceInvariant, PTL

\* No config ever has two workers, and what still runs unattended is reported as an
\* error (_worker_gone).
THEOREM StraysAreAccounted == LaunchSpec => []WorkersAreAccounted
<1>1. ExecInv => WorkersAreAccounted
  BY ProviderExecAssumption
     DEF ExecInv, ProviderExecTypeOK, RecordsInStep, OneStray, InWorker, Configs, Attempts,
         WorkersAreAccounted
<1> QED
  BY <1>1, SliceInvariant, PTL

\* What run() returns are the records of one host that has the runs to show for them.
THEOREM HarvestOfOneHost == LaunchSpec => []RecordsAreThisHosts
<1>1. ExecInv => RecordsAreThisHosts
  BY DEF ExecInv, RecordsInStep, RecordsAreTrue, RecordsAreThisHosts
<1> QED
  BY <1>1, SliceInvariant, PTL

\* The checks by name.
LEMMA ChecksAre ==
  Checks = { "ssh_key_present", "out_dir_writable", "provider_capable", "payload_closed",
             "resume_markers_intended", "ssh_key_registered", "offers_available",
             "remote_env_pinned", "cap_clears_worst_case", "runfn_importable",
             "registry_markers_intended" }
BY DEF Checks, Elements, StandardChecks, RegistryChecks

\* Only the last of at most four stages names what does not block.
Blocks(stage) == stage \cap (Notes \cup Warnings) = {}

WellStaged(s) ==
  \/ DOMAIN s = {1}
  \/ DOMAIN s = {1, 2} /\ Blocks(s[1])
  \/ DOMAIN s = {1, 2, 3} /\ Blocks(s[1]) /\ Blocks(s[2])
  \/ DOMAIN s = {1, 2, 3, 4} /\ Blocks(s[1]) /\ Blocks(s[2]) /\ Blocks(s[3])

LEMMA AllWellStaged == \A k \in Checks : WellStaged(Stages[k])
<1>1. WellStaged(SshKeyPresent) /\ WellStaged(SshKeyRegistered)
  BY DEF WellStaged, Blocks, Notes, Warnings, SshKeyPresent, SshKeyRegistered
<1>2. WellStaged(OutDirWritable) /\ WellStaged(RemoteEnvPinned) /\ WellStaged(RunFnImportable)
  BY DEF WellStaged, OutDirWritable, RemoteEnvPinned, RunFnImportable
<1>3. WellStaged(CapClearsWorstCase) /\ WellStaged(ResumeMarkersIntended)
  BY DEF WellStaged, CapClearsWorstCase, ResumeMarkersIntended
<1>4. WellStaged(OffersAvailable) /\ WellStaged(ProviderCapable)
  BY DEF WellStaged, Blocks, Notes, Warnings, OffersAvailable, ProviderCapable
<1>5. WellStaged(PayloadClosed)
  BY DEF WellStaged, Blocks, Notes, Warnings, PayloadClosed
<1>6. WellStaged(RegistryMarkers)
  BY DEF WellStaged, Blocks, Notes, Warnings, RegistryMarkers
<1>7. \A k \in Checks :
        Stages[k] \in { SshKeyPresent, OutDirWritable, ProviderCapable, PayloadClosed,
                        ResumeMarkersIntended, SshKeyRegistered, OffersAvailable,
                        RemoteEnvPinned, CapClearsWorstCase, RunFnImportable, RegistryMarkers }
  BY ChecksAre DEF Stages
<1> QED
  BY <1>1, <1>2, <1>3, <1>4, <1>5, <1>6, <1>7

\* What a check does not name, it hides behind something that blocks.
LEMMA HiddenByABlocker ==
  ASSUME NEW k \in Checks, NEW D, D \subseteq Facts, NEW d \in D, d \in LooksFor[k]
  PROVE  d \in Named(k, D) \/ Named(k, D) \cap Fatal # {}
<1> DEFINE s == Stages[k]
           First == {i \in DOMAIN s : s[i] \cap D # {} /\ \A j \in 1 .. i - 1 : s[j] \cap D = {}}
<1>1. Named(k, D) = UNION {s[i] \cap D : i \in First}
  BY DEF Named
<1>2. PICK i \in DOMAIN s : d \in s[i]
  BY DEF LooksFor, Elements
<1>3. WellStaged(s)
  BY AllWellStaged
<1>4. ASSUME NEW j \in First, NEW e \in s[j] \cap D, Blocks(s[j])
      PROVE  Named(k, D) \cap Fatal # {}
  BY <1>1, <1>4 DEF Blocks, Fatal
<1>5. CASE i \in First
  BY <1>1, <1>2, <1>5
<1>6. CASE i \notin First
  <2>1. PICK j \in First : Blocks(s[j])
    BY <1>2, <1>3, <1>6 DEF WellStaged
  <2>2. PICK e \in s[j] \cap D : TRUE
    BY <2>1
  <2> QED
    BY <1>4, <2>1, <2>2
<1> QED
  BY <1>5, <1>6

-----------------------------------------------------------------------------
(* The gauntlet                                                            *)

\* What is wrong came late, will still be looked for, was bypassed, or is in the
\* report or behind a blocker that is.
AccountedFor(d) ==
  \/ d \in late
  \/ Seen(d) = {}
  \/ Seen(d) \cap Ahead # {}
  \/ \E r \in report : d \in r.names \/ r.names \cap Fatal # {}

GauntletInv ==
  /\ GauntletTypeOK
  /\ phase = "planning" => at = 0 /\ report = {} /\ late = {}
  /\ phase \in {"checking", "green"} => \A d \in wrong : AccountedFor(d)
  /\ phase = "green" => at = Len(list) /\ Blockers = {}

LEMMA ListsOfChecks ==
  ASSUME list \in {StandardChecks, RegistryChecks}
  PROVE  /\ Len(list) \in Nat /\ \A i \in 1 .. Len(list) : list[i] \in Checks
         /\ Elements(list) = {list[i] : i \in 1 .. Len(list)}
         /\ Elements(list) \subseteq Checks
<1>1. Elements(list) \subseteq Checks
  BY DEF Checks
<1>2. Len(list) \in Nat /\ DOMAIN list = 1 .. Len(list)
  BY DEF StandardChecks, RegistryChecks
<1> QED
  BY <1>1, <1>2 DEF Elements

LEMMA NamedIsWrong ==
  ASSUME NEW k \in Checks, NEW D \in SUBSET Facts
  PROVE  Named(k, D) \subseteq D
BY DEF Named

LEMMA ResultIsTyped ==
  ASSUME NEW k \in Checks, wrong \subseteq Facts
  PROVE  Result(k) \in Results
<1>1. Named(k, wrong) \in SUBSET Facts
  BY NamedIsWrong
<1> QED
  BY <1>1 DEF Result, Results

\* The report grows by what the check behind which d might hide has to say.
LEMMA RunCheckKeeps ==
  ASSUME GauntletInv, RunCheck
  PROVE  GauntletInv'
<1>1. /\ list' = list /\ dropped' = dropped /\ skip' = skip /\ wrong' = wrong /\ late' = late
      /\ phase = "checking" /\ phase' = "checking"
      /\ at \in Nat /\ at < Len(list) /\ at' = at + 1
      /\ list \in {StandardChecks, RegistryChecks} /\ wrong \subseteq Facts
  BY DEF RunCheck, Advance, GauntletInv, GauntletTypeOK
<1>2. at + 1 \in 1 .. Len(list) /\ Next1 \in Checks
  BY <1>1, ListsOfChecks DEF Next1
<1>3. report \subseteq report' /\ report' \subseteq report \cup {Result(Next1)}
  BY DEF RunCheck
<1>4. GauntletTypeOK'
  <2>1. report' \subseteq Results
    BY <1>1, <1>2, <1>3, ResultIsTyped DEF GauntletInv, GauntletTypeOK
  <2>2. at' \in 0 .. Len(list')
    BY <1>1, ListsOfChecks
  <2> QED
    BY <1>1, <2>1, <2>2 DEF GauntletInv, GauntletTypeOK
<1>5. ASSUME NEW d \in wrong PROVE AccountedFor(d)'
  <2>1. Seen(d)' = Seen(d)
    BY <1>1 DEF Seen
  <2>2. Ahead = Ahead' \cup {Next1}
    BY <1>1, <1>2, ListsOfChecks DEF Ahead, Next1
  <2>3. AccountedFor(d)
    BY <1>1 DEF GauntletInv
  <2>4. CASE Next1 \in Seen(d)
    <3>1. Result(Next1) \in report' /\ Result(Next1).names = Named(Next1, wrong) /\ d \in LooksFor[Next1]
      BY <2>4 DEF RunCheck, Seen, Result
    <3>2. d \in Named(Next1, wrong) \/ Named(Next1, wrong) \cap Fatal # {}
      BY <1>1, <1>2, <3>1, HiddenByABlocker
    <3> QED
      BY <3>1, <3>2 DEF AccountedFor
  <2>5. CASE Next1 \notin Seen(d)
    <3>1. Seen(d) \cap Ahead # {} => Seen(d)' \cap Ahead' # {}
      BY <2>1, <2>2, <2>5
    <3> QED
      BY <1>1, <1>3, <2>1, <2>3, <3>1 DEF AccountedFor
  <2> QED
    BY <2>4, <2>5
<1> QED
  BY <1>1, <1>4, <1>5 DEF GauntletInv

LEMMA GauntletStepKeeps ==
  ASSUME GauntletInv, GauntletStep \/ DriftAny
  PROVE  GauntletInv'
<1>1. CASE AssembleAny
  <2>1. PICK checks \in {StandardChecks, RegistryChecks} :
          \E out, skipped \in SUBSET Elements(checks) : phase = "planning" /\ Assemble(checks, out, skipped)
    BY <1>1 DEF AssembleAny
  <2>2. PICK out \in SUBSET Elements(checks), skipped \in SUBSET Elements(checks) :
          phase = "planning" /\ Assemble(checks, out, skipped)
    BY <2>1
  <2>3. GauntletTypeOK'
    <3>1. out \subseteq Checks /\ skipped \subseteq Checks
      BY DEF Checks
    <3>2. at \in 0 .. Len(checks)
      BY <2>2, Len(checks) \in Nat DEF GauntletInv, StandardChecks, RegistryChecks
    <3> QED
      BY <2>2, <3>1, <3>2 DEF Assemble, GauntletInv, GauntletTypeOK
  <2>4. \A d \in wrong' : AccountedFor(d)'
    <3>1. at' = 0 /\ list' \in {StandardChecks, RegistryChecks}
      BY <2>2 DEF Assemble, GauntletInv
    <3>2. Ahead' = Elements(list')
      BY <3>1, ListsOfChecks DEF Ahead, StandardChecks, RegistryChecks, Elements
    <3> QED
      BY <3>2 DEF AccountedFor, Seen
  <2> QED
    BY <2>2, <2>3, <2>4 DEF Assemble, GauntletInv
<1>2. CASE RunCheck
  BY <1>2, RunCheckKeeps
<1>3. CASE Judge
  BY <1>3 DEF Judge, GauntletInv, GauntletTypeOK, AccountedFor, Seen, Ahead, Blockers
<1>4. CASE MendAny
  <2>1. PICK S \in SUBSET Blockers : Mend(S)
    BY <1>4 DEF MendAny
  <2>2. GauntletTypeOK'
    BY <2>1 DEF Mend, GauntletInv, GauntletTypeOK, Checks, StandardChecks, RegistryChecks, Elements
  <2>3. \A d \in wrong' : AccountedFor(d)'
    <3>1. at' = 0 /\ list' \in {StandardChecks, RegistryChecks}
      BY <2>1 DEF Mend, GauntletInv, GauntletTypeOK
    <3>2. Ahead' = Elements(list')
      BY <3>1, ListsOfChecks DEF Ahead, StandardChecks, RegistryChecks, Elements
    <3> QED
      BY <3>2 DEF AccountedFor, Seen
  <2> QED
    BY <2>1, <2>2, <2>3 DEF Mend, GauntletInv
<1>5. CASE DriftAny
  <2>1. PICK d \in World : Drift(d)
    BY <1>5 DEF DriftAny
  <2>2. GauntletTypeOK'
    BY <2>1, GauntletAssumption DEF Drift, GauntletInv, GauntletTypeOK
  <2>3. /\ wrong' = wrong \cup {d} /\ late \subseteq late'
        /\ UNCHANGED <<phase, list, dropped, skip, at, report>>
        /\ phase # "planning" => d \in late' \/ Seen(d) \cap Ahead # {}
        /\ phase = "planning" => late' = late
    BY <2>1 DEF Drift
  <2>4. \A e \in Facts : AccountedFor(e) => AccountedFor(e)'
    BY <2>3 DEF AccountedFor, Seen, Ahead
  <2>5. phase # "planning" => AccountedFor(d)'
    BY <2>3 DEF AccountedFor, Seen, Ahead
  <2> QED
    BY <2>2, <2>3, <2>4, <2>5 DEF GauntletInv, GauntletTypeOK, Blockers
<1> QED
  BY <1>1, <1>2, <1>3, <1>4, <1>5 DEF GauntletStep


-----------------------------------------------------------------------------
(* The launch                                                              *)

\* After the green light: every trouble with the key came late or was bypassed.
KeyInv ==
  /\ phase = "launched" => \A d \in KeyTrouble : d \in late \/ Seen(d) = {}
  /\ pe # "idle" => phase = "launched"

LaunchInv == ExecInv /\ GauntletInv /\ KeyInv

GreenIsAccounted ==
  phase = "green" => \A d \in wrong :
    d \in late \/ Seen(d) = {} \/ \E r \in report : d \in r.names

LEMMA BlockersAreNamed ==
  ASSUME NEW r \in report
  PROVE  r.names \cap Fatal \subseteq Blockers
<1> DEFINE Names == {q.names : q \in report}
<1>1. r.names \in Names
  OBVIOUS
<1>2. Blockers = Fatal \cap UNION Names
  BY DEF Blockers
<1> HIDE DEF Names
<1> QED
  BY <1>1, <1>2

LEMMA GreenMeansReported == GauntletInv => GreenIsAccounted
<1> SUFFICES ASSUME GauntletInv, phase = "green", NEW d \in wrong
             PROVE  d \in late \/ Seen(d) = {} \/ \E r \in report : d \in r.names
  BY DEF GreenIsAccounted
<1>1. AccountedFor(d) /\ at = Len(list) /\ Blockers = {}
  BY DEF GauntletInv
<1>2. Len(list) \in Nat
  BY ListsOfChecks DEF GauntletInv, GauntletTypeOK
<1>3. Ahead = {}
  BY <1>1, <1>2 DEF Ahead
<1>4. \A r \in report : r.names \cap Fatal = {}
  BY <1>1, BlockersAreNamed
<1> QED
  BY <1>1, <1>3, <1>4 DEF AccountedFor

LEMMA GoKeeps ==
  ASSUME LaunchInv, Go
  PROVE  GauntletInv' /\ KeyInv'
<1>1. wrong \subseteq Facts /\ late \subseteq wrong /\ KeyTrouble \subseteq wrong
  BY DEF LaunchInv, GauntletInv, GauntletTypeOK, KeyTrouble
<1>2. /\ phase' = "launched" /\ wrong' = KeyTrouble /\ late' = late \cap KeyTrouble
      /\ dropped' = dropped \cap KeyChecks /\ skip' = skip \cap KeyChecks
      /\ report' = {} /\ list' = list /\ at' = at
  BY DEF Go
<1>3. GauntletTypeOK'
  BY <1>1, <1>2 DEF LaunchInv, GauntletInv, GauntletTypeOK
<1>4. ASSUME NEW d \in KeyTrouble'
      PROVE  d \in late' \/ Seen(d)' = {}
  <2>1. d \in KeyTrouble /\ d \in wrong
    BY <1>1, <1>2 DEF KeyTrouble
  <2>2. d \in Fatal
    BY <1>1, <2>1 DEF KeyTrouble, Fatal, Notes, Warnings
  <2>3. \A r \in report : d \notin r.names
    BY <2>2, BlockersAreNamed DEF LaunchInv, GauntletInv, Go
  <2>4. d \in late \/ Seen(d) = {}
    BY <2>1, <2>3, GreenMeansReported DEF LaunchInv, GreenIsAccounted, Go
  <2>5. Seen(d)' \subseteq Seen(d)
    <3>1. Elements(list) \subseteq Checks
      BY ListsOfChecks DEF LaunchInv, GauntletInv, GauntletTypeOK
    <3>2. \A k \in Checks : d \in LooksFor[k] => k \in KeyChecks
      BY <2>1 DEF KeyChecks
    <3> QED
      BY <1>2, <3>1, <3>2 DEF Seen
  <2> QED
    BY <1>2, <2>1, <2>4, <2>5
<1> QED
  BY <1>2, <1>3, <1>4 DEF GauntletInv, KeyInv

LEMMA RunIsLaunched ==
  ASSUME KeyInv, Run \/ HostStep
  PROVE  pe' # "idle" => phase = "launched"
BY DEF KeyInv, Run, HostStep, BoxDies, StrayEnds, runVars, ExecStep, RentFails, RentYields,
       EngineReady, NeverReady, Abandon, StartWorker, DeadlineSpent, WorkerReturns, CallTimesOut,
       ChannelDies, ConnectFails, ProbeGone, ProbeAgain, Decline, Nap, Keep, HostDied, SyncBack,
       SyncRaises, GiveBack

\* What the gauntlet knows of the world, and what the launch makes of it.
THEOREM LaunchInvariant == LaunchSpec => []LaunchInv
<1>1. LaunchInit => GauntletInv /\ KeyInv
  <2> SUFFICES ASSUME LaunchInit PROVE GauntletInv /\ KeyInv
    OBVIOUS
  <2>1. Len(list) \in Nat /\ list \in {StandardChecks, RegistryChecks}
    BY DEF LaunchInit, GauntletInit, StandardChecks
  <2> QED
    BY <2>1 DEF LaunchInit, GauntletInit, ExecInit, GauntletInv, GauntletTypeOK, KeyInv
<1>2. LaunchInv /\ ExecInv' /\ [LaunchNext]_launchVars => LaunchInv'
  <2> SUFFICES ASSUME LaunchInv, ExecInv', [LaunchNext]_launchVars
               PROVE  GauntletInv' /\ KeyInv'
    BY DEF LaunchInv
  <2>1. CASE Operate \/ (DriftAny /\ UNCHANGED execVars)
    <3>1. GauntletInv'
      BY <2>1, GauntletStepKeeps DEF LaunchInv, Operate
    <3>2. pe' = pe /\ phase # "launched" /\ phase' # "launched"
      BY <2>1 DEF Operate, execVars, runVars, GauntletStep, AssembleAny, Assemble, RunCheck,
                  Advance, Judge, MendAny, Mend, DriftAny, Drift
    <3> QED
      BY <3>1, <3>2 DEF LaunchInv, KeyInv
  <2>2. CASE Go
    BY <2>2, GoKeeps
  <2>3. CASE (Call \/ Run \/ HostStep) /\ UNCHANGED gauntletVars
    <3>1. pe' # "idle" => phase = "launched"
      BY <2>3, RunIsLaunched DEF LaunchInv, Call
    <3> QED
      BY <2>3, <3>1
         DEF LaunchInv, gauntletVars, GauntletInv, GauntletTypeOK, KeyInv, KeyTrouble,
             AccountedFor, Seen, Ahead, Blockers
  <2>4. CASE UNCHANGED launchVars
    BY <2>4
       DEF launchVars, gauntletVars, execVars, runVars, LaunchInv, GauntletInv, GauntletTypeOK,
           KeyInv, KeyTrouble, AccountedFor, Seen, Ahead, Blockers
  <2> QED
    BY <2>1, <2>2, <2>3, <2>4 DEF LaunchNext, Call, Run
<1> QED
  BY <1>1, <1>2, SliceInvariant, PTL DEF LaunchSpec, LaunchInv

\* Every state of a launch has the declared types.
THEOREM LaunchTypeCorrect == LaunchSpec => []LaunchTypeOK
<1>1. LaunchInv => LaunchTypeOK
  BY DEF LaunchInv, ExecInv, GauntletInv, LaunchTypeOK
<1> QED
  BY <1>1, LaunchInvariant, PTL

\* Nothing is wrong with a launch that has the green light but what the operator has
\* read, has bypassed, or what came too late to be seen (run_gauntlet).
THEOREM GreenLightIsInformed == LaunchSpec => []NothingUnreported
<1>1. LaunchInv => NothingUnreported
  BY GreenMeansReported DEF LaunchInv, GreenIsAccounted, NothingUnreported
<1> QED
  BY <1>1, LaunchInvariant, PTL

\* A host that refuses the key is rented only where no check stood (SshKeyPresent,
\* SshKeyRegistered).
THEOREM RefusalWasBypassed == LaunchSpec => []RefusalIsNoSurprise
<1>1. LaunchInv => RefusalIsNoSurprise
  BY DEF LaunchInv, KeyInv, RefusalIsNoSurprise
<1> QED
  BY <1>1, LaunchInvariant, PTL

-----------------------------------------------------------------------------
(* How long a slice can take                                               *)
(*                                                                         *)
(* EverySliceEnds is checked by a run.  Proved is what it rests on beside  *)
(* fairness: run() has a bounded number of steps to take, in which the     *)
(* offers, the configs, the attempts and the ticks of a probe are counted  *)
(* one inside the other.                                                   *)

\* One attempt: the call, a probe of at most 3 * Backoff ticks, a pause.
AttemptSteps == 3 * Backoff + 5

\* The attempts of one config, and its judgement.
ConfigSteps == Attempts * AttemptSteps + 1

\* All configs on one host, with its boot and the way home.
HostSteps == NConfigs * ConfigSteps + 4

\* What is left of _run_worker, at most.
WorkerRank ==
  IF pe = "invoking" THEN (Attempts - attempt) * AttemptSteps
  ELSE IF pe = "attached" THEN (Attempts - attempt) * AttemptSteps - 1
  ELSE IF pe = "probing" THEN (Attempts - attempt - 1) * AttemptSteps + patience + 2
  ELSE (Attempts - attempt - 1) * AttemptSteps + 1

\* What is left on the host in hand.
HostRank ==
  IF pe = "renting" THEN HostSteps
  ELSE IF pe = "booting" THEN HostSteps - 1
  ELSE IF pe \in InWorker THEN (NConfigs - cfg) * ConfigSteps + 3 + WorkerRank
  ELSE IF pe = "judging" THEN (NConfigs - cfg) * ConfigSteps + 3
  ELSE IF pe = "syncing" THEN 2
  ELSE 1

\* What is left of run(): this host and the offers after it.
SliceRank == IF pe \in Working THEN (plan - 1) * HostSteps + HostRank ELSE 0

SliceBound == MaxAttempts * HostSteps

\* As long as run() goes on it has the offer in hand.
OfferInHand == pe \in Working => plan # 0

\* run() has steps left exactly while it is under way, and no more than the bound.
SliceRankInv ==
  /\ SliceRank \in 0 .. SliceBound
  /\ SliceRank = 0 <=> pe \notin Working

\* A step of run() brings it nearer to its end, and nothing that happens to the
\* hosts, their workers or the operator takes it further from it.
SliceGetsOn ==
  /\ Run => SliceRank' < SliceRank
  /\ pe \in Working => SliceRank' <= SliceRank

LEMMA OneMore == ASSUME NEW n \in Nat, NEW k \in Nat
                 PROVE  n * k \in Nat /\ (n + 1) * k = n * k + k
OBVIOUS

LEMMA MoreIsMore == ASSUME NEW m \in Nat, NEW n \in Nat, NEW k \in Nat, m <= n
                    PROVE  m * k <= n * k
OBVIOUS

\* The numbers the ranks are made of.
LEMMA StepNumbers ==
  /\ Attempts \in Nat \ {0} /\ NConfigs \in Nat \ {0} /\ MaxAttempts \in Nat \ {0}
  /\ AttemptSteps \in Nat /\ AttemptSteps >= 3 * Backoff + 5 /\ 3 * Backoff \in Nat
  /\ ConfigSteps \in Nat /\ ConfigSteps = Attempts * AttemptSteps + 1
  /\ HostSteps \in Nat /\ HostSteps = NConfigs * ConfigSteps + 4
<1>1. Attempts \in Nat \ {0} /\ NConfigs \in Nat \ {0} /\ MaxAttempts \in Nat \ {0}
      /\ 3 * Backoff \in Nat /\ AttemptSteps \in Nat /\ AttemptSteps >= 3 * Backoff + 5
  BY ProviderExecAssumption DEF Attempts, AttemptSteps
<1>2. ConfigSteps \in Nat /\ ConfigSteps = Attempts * AttemptSteps + 1
  BY <1>1, OneMore DEF ConfigSteps
<1>3. HostSteps \in Nat /\ HostSteps = NConfigs * ConfigSteps + 4
  BY <1>1, <1>2, OneMore DEF HostSteps
<1>4. QED
  BY <1>1, <1>2, <1>3

\* The steps left to a config whose attempt this is: a multiple of AttemptSteps.
LEMMA WorkerRankIs ==
  ASSUME ExecInv, pe \in InWorker
  PROVE  \E n \in Nat :
           /\ Attempts - attempt = n + 1 /\ attempt \in Nat
           /\ n * AttemptSteps \in Nat
           /\ (n + 1) * AttemptSteps = n * AttemptSteps + AttemptSteps
           /\ (n + 1) * AttemptSteps <= Attempts * AttemptSteps
           /\ pe = "invoking" => WorkerRank = (n + 1) * AttemptSteps
           /\ pe = "attached" => WorkerRank = (n + 1) * AttemptSteps - 1
           /\ pe = "probing"  => WorkerRank = n * AttemptSteps + patience + 2
           /\ pe = "napping"  => WorkerRank = n * AttemptSteps + 1
<1>1. attempt \in Nat /\ attempt < Attempts
  BY StepNumbers DEF ExecInv, ProviderExecTypeOK, RecordsInStep
<1>2. PICK n \in Nat : Attempts - attempt = n + 1
  BY <1>1, StepNumbers
<1>3. Attempts - attempt - 1 = n
  BY <1>1, <1>2, StepNumbers
<1>4. n * AttemptSteps \in Nat /\ (n + 1) * AttemptSteps = n * AttemptSteps + AttemptSteps
  BY OneMore, StepNumbers
<1>5. (n + 1) * AttemptSteps <= Attempts * AttemptSteps
  BY <1>1, <1>2, MoreIsMore, StepNumbers
<1>6. QED
  BY <1>1, <1>2, <1>3, <1>4, <1>5 DEF WorkerRank

LEMMA WorkerRankBounded ==
  ASSUME ExecInv, pe \in InWorker
  PROVE  WorkerRank \in Nat \ {0} /\ WorkerRank < ConfigSteps
<1>1. PICK n \in Nat :
        /\ n * AttemptSteps \in Nat
        /\ (n + 1) * AttemptSteps = n * AttemptSteps + AttemptSteps
        /\ (n + 1) * AttemptSteps <= Attempts * AttemptSteps
        /\ pe = "invoking" => WorkerRank = (n + 1) * AttemptSteps
        /\ pe = "attached" => WorkerRank = (n + 1) * AttemptSteps - 1
        /\ pe = "probing"  => WorkerRank = n * AttemptSteps + patience + 2
        /\ pe = "napping"  => WorkerRank = n * AttemptSteps + 1
  BY WorkerRankIs
<1>2. patience \in 0 .. 3 * Backoff
  BY DEF ExecInv, ProviderExecTypeOK
<1>3. PICK most \in Nat : most = Attempts * AttemptSteps
  BY StepNumbers, OneMore
<1>4. QED
  BY <1>1, <1>2, <1>3, StepNumbers DEF InWorker

\* The steps left on a host with m configs behind the present one.
LEMMA HostRankIs ==
  ASSUME ExecInv, pe \in InWorker \cup {"judging"}
  PROVE  \E m \in Nat :
           /\ NConfigs - cfg = m /\ cfg \in Nat
           /\ m * ConfigSteps \in Nat
           /\ (m + 1) * ConfigSteps = m * ConfigSteps + ConfigSteps
           /\ (m + 1) * ConfigSteps <= NConfigs * ConfigSteps
           /\ HostRank = m * ConfigSteps + 3 + (IF pe \in InWorker THEN WorkerRank ELSE 0)
<1>1. cfg \in Nat /\ cfg >= 1 /\ cfg <= NConfigs
  BY StepNumbers DEF ExecInv, ProviderExecTypeOK, Configs
<1>2. PICK m \in Nat : NConfigs - cfg = m
  BY <1>1, StepNumbers
<1>3. m * ConfigSteps \in Nat /\ (m + 1) * ConfigSteps = m * ConfigSteps + ConfigSteps
  BY OneMore, StepNumbers
<1>4. (m + 1) * ConfigSteps <= NConfigs * ConfigSteps
  BY <1>1, <1>2, MoreIsMore, StepNumbers
<1>5. HostRank = m * ConfigSteps + 3 + (IF pe \in InWorker THEN WorkerRank ELSE 0)
  BY <1>2, <1>3 DEF HostRank, InWorker
<1>6. QED
  BY <1>1, <1>2, <1>3, <1>4, <1>5

LEMMA HostRankBounded ==
  ASSUME ExecInv, pe \in Working
  PROVE  HostRank \in 1 .. HostSteps
<1>1. PICK all \in Nat : all = NConfigs * ConfigSteps
  BY StepNumbers, OneMore
<1>2. HostSteps = all + 4
  BY <1>1, StepNumbers
<1>3. CASE pe \in InWorker \cup {"judging"}
  <2>1. PICK m \in Nat :
          /\ m * ConfigSteps \in Nat
          /\ (m + 1) * ConfigSteps = m * ConfigSteps + ConfigSteps
          /\ (m + 1) * ConfigSteps <= NConfigs * ConfigSteps
          /\ HostRank = m * ConfigSteps + 3 + (IF pe \in InWorker THEN WorkerRank ELSE 0)
    BY <1>3, HostRankIs
  <2>2. CASE pe \in InWorker
    BY <1>1, <1>2, <2>1, <2>2, WorkerRankBounded, StepNumbers
  <2>3. CASE pe \notin InWorker
    BY <1>1, <1>2, <2>1, <2>3, StepNumbers
  <2>4. QED
    BY <2>2, <2>3
<1>4. CASE pe \notin InWorker \cup {"judging"}
  BY <1>1, <1>2, <1>4 DEF HostRank, Working
<1>5. QED
  BY <1>3, <1>4

\* The steps left with n more offers after the one in hand.
LEMMA SliceRankIs ==
  ASSUME ExecInv, OfferInHand, pe \in Working
  PROVE  \E n \in Nat :
           /\ plan = n + 1 /\ n * HostSteps \in Nat
           /\ (n + 1) * HostSteps = n * HostSteps + HostSteps
           /\ (n + 1) * HostSteps <= SliceBound
           /\ SliceRank = n * HostSteps + HostRank
<1>1. plan \in Nat \ {0} /\ plan <= MaxAttempts
  BY StepNumbers DEF ExecInv, ProviderExecTypeOK, OfferInHand
<1>2. PICK n \in Nat : plan = n + 1
  BY <1>1
<1>3. n * HostSteps \in Nat /\ (n + 1) * HostSteps = n * HostSteps + HostSteps
  BY OneMore, StepNumbers
<1>4. (n + 1) * HostSteps <= SliceBound
  BY <1>1, <1>2, MoreIsMore, StepNumbers DEF SliceBound
<1>5. SliceRank = n * HostSteps + HostRank
  BY <1>2 DEF SliceRank
<1>6. QED
  BY <1>2, <1>3, <1>4, <1>5

LEMMA SliceRankBounded == ExecInv /\ OfferInHand => SliceRankInv
<1> SUFFICES ASSUME ExecInv, OfferInHand PROVE SliceRankInv
  OBVIOUS
<1>1. SliceBound \in Nat
  BY OneMore, StepNumbers DEF SliceBound
<1>2. CASE pe \in Working
  BY <1>1, <1>2, SliceRankIs, HostRankBounded, StepNumbers DEF SliceRankInv
<1>3. CASE pe \notin Working
  BY <1>1, <1>3 DEF SliceRankInv, SliceRank
<1>4. QED
  BY <1>2, <1>3

\* A step on the host in hand, to the next offer, or to the end.
LEMMA OnTheSameHost ==
  ASSUME ExecInv, OfferInHand, pe \in Working, pe' \in Working, plan' = plan,
         NEW h \in Nat, HostRank' = h, h < HostRank
  PROVE  SliceRank' < SliceRank
<1>1. PICK n \in Nat : plan = n + 1 /\ n * HostSteps \in Nat /\ SliceRank = n * HostSteps + HostRank
  BY SliceRankIs
<1>2. SliceRank' = n * HostSteps + h
  BY <1>1 DEF SliceRank
<1>3. HostRank \in Nat
  BY HostRankBounded, StepNumbers
<1>4. QED
  BY <1>1, <1>2, <1>3

LEMMA ToTheNextOffer ==
  ASSUME ExecInv, OfferInHand, pe \in Working, NextOffer \/ (\E why : Raise(why))
  PROVE  SliceRank' < SliceRank
<1>1. PICK n \in Nat :
        /\ plan = n + 1 /\ n * HostSteps \in Nat
        /\ SliceRank = n * HostSteps + HostRank
  BY SliceRankIs
<1>2. HostRank \in Nat \ {0}
  BY HostRankBounded, StepNumbers
<1>3. CASE pe' = "raised"
  BY <1>1, <1>2, <1>3 DEF SliceRank, Working, InWorker
<1>4. CASE pe' = "renting" /\ plan' = plan - 1 /\ plan > 1
  <2>1. PICK k \in Nat : n = k + 1
    BY <1>1, <1>4
  <2>2. k * HostSteps \in Nat /\ n * HostSteps = k * HostSteps + HostSteps
    BY <2>1, OneMore, StepNumbers
  <2>3. plan' - 1 = k
    BY <1>1, <1>4, <2>1
  <2>4. SliceRank' = k * HostSteps + HostSteps
    BY <1>4, <2>3 DEF SliceRank, HostRank, Working
  <2>5. QED
    BY <1>1, <1>2, <2>2, <2>4
<1>5. QED
  BY <1>1, <1>3, <1>4 DEF NextOffer, Raise

LEMMA ToTheEnd ==
  ASSUME ExecInv, OfferInHand, pe \in Working, pe' \in {"returned", "raised"}
  PROVE  SliceRank' < SliceRank
<1>1. SliceRank' = 0
  BY DEF SliceRank, Working, InWorker
<1>2. SliceRank \in Nat \ {0}
  BY SliceRankBounded, StepNumbers, OneMore DEF SliceRankInv, SliceBound
<1>3. QED
  BY <1>1, <1>2

\* A step within _run_worker, and its last one.
LEMMA WorkerGetsOn ==
  ASSUME ExecInv, OfferInHand, pe \in InWorker, cfg' = cfg, plan' = plan,
         \/ pe' = "judging"
         \/ pe' \in InWorker /\ \E w \in Nat : WorkerRank' = w /\ w < WorkerRank
  PROVE  SliceRank' < SliceRank
<1>1. PICK m \in Nat :
        /\ NConfigs - cfg = m /\ m * ConfigSteps \in Nat
        /\ HostRank = m * ConfigSteps + 3 + WorkerRank
  BY HostRankIs
<1>2. WorkerRank \in Nat \ {0}
  BY WorkerRankBounded
<1>3. pe \in Working /\ pe' \in Working
  BY DEF Working, InWorker
<1>4. CASE pe' = "judging"
  <2>1. HostRank' = m * ConfigSteps + 3
    BY <1>1, <1>4 DEF HostRank, InWorker
  <2>2. QED
    BY <1>1, <1>2, <1>3, <2>1, OnTheSameHost
<1>5. ASSUME pe' \in InWorker, NEW w \in Nat, WorkerRank' = w, w < WorkerRank
      PROVE  SliceRank' < SliceRank
  <2>1. HostRank' = m * ConfigSteps + 3 + w
    BY <1>1, <1>5 DEF HostRank, InWorker
  <2>2. QED
    BY <1>1, <1>2, <1>3, <1>5, <2>1, OnTheSameHost
<1>6. QED
  BY <1>4, <1>5

\* _run_worker is entered: one config fewer is left behind it.
LEMMA EnterGetsOn ==
  ASSUME ExecInv, OfferInHand, NEW c \in Configs, Enter(c), plan' = plan,
         (pe = "booting" /\ c = 1) \/ (pe = "judging" /\ cfg < NConfigs /\ c = cfg + 1)
  PROVE  SliceRank' < SliceRank
<1>1. pe \in Working /\ pe' = "invoking" /\ pe' \in Working /\ cfg' = c /\ attempt' = 0
  BY DEF Enter, Working, InWorker
<1>2. PICK most \in Nat : most = Attempts * AttemptSteps
  BY StepNumbers, OneMore
<1>3. WorkerRank' = most
  <2>1. WorkerRank' = (Attempts - 0) * AttemptSteps
    BY <1>1 DEF WorkerRank
  <2>2. Attempts - 0 = Attempts
    BY StepNumbers
  <2>3. QED
    BY <1>2, <2>1, <2>2
<1>4. PICK m \in Nat : NConfigs - c = m
  BY StepNumbers DEF Configs
<1>5. m * ConfigSteps \in Nat /\ (m + 1) * ConfigSteps = m * ConfigSteps + ConfigSteps
  BY OneMore, StepNumbers
<1>6. HostRank' = m * ConfigSteps + 3 + most
  BY <1>1, <1>3, <1>4 DEF HostRank, InWorker
<1>7. HostRank >= (m + 1) * ConfigSteps + 3
  <2>1. CASE pe = "booting"
    <3>1. m + 1 = NConfigs
      BY <1>4, <2>1, StepNumbers
    <3>2. QED
      BY <1>5, <2>1, <3>1, StepNumbers DEF HostRank
  <2>2. CASE pe = "judging"
    <3>1. cfg \in Nat /\ c = cfg + 1
      BY <2>2, StepNumbers DEF ExecInv, ProviderExecTypeOK, Configs
    <3>2. NConfigs - cfg = m + 1
      BY <1>4, <3>1, StepNumbers
    <3>3. HostRank = (m + 1) * ConfigSteps + 3
      BY <2>2, <3>2 DEF HostRank, InWorker
    <3>4. QED
      BY <1>5, <3>3, StepNumbers
  <2>3. QED
    BY <2>1, <2>2
<1>8. HostRank \in Nat /\ HostRank > m * ConfigSteps + 3 + most
  BY <1>1, <1>2, <1>5, <1>7, HostRankBounded, StepNumbers
<1>9. QED
  BY <1>1, <1>2, <1>5, <1>6, <1>8, OnTheSameHost

\* After a transport error: the record, or a probe no longer than 3 * Backoff.
LEMMA TransportGetsOn ==
  ASSUME ExecInv, ExecInv', OfferInHand, pe \in {"invoking", "attached"}, AfterTransport,
         cfg' = cfg, plan' = plan
  PROVE  SliceRank' < SliceRank
<1>1. pe \in InWorker
  BY DEF InWorker
<1>2. PICK n \in Nat :
        /\ Attempts - attempt = n + 1 /\ attempt \in Nat /\ n * AttemptSteps \in Nat
        /\ (n + 1) * AttemptSteps = n * AttemptSteps + AttemptSteps
        /\ pe = "invoking" => WorkerRank = (n + 1) * AttemptSteps
        /\ pe = "attached" => WorkerRank = (n + 1) * AttemptSteps - 1
  BY <1>1, WorkerRankIs
<1>3. CASE pe' = "judging"
  BY <1>1, <1>3, WorkerGetsOn
<1>4. CASE pe' = "probing" /\ attempt' = attempt
  <2>1. PICK t \in 0 .. 3 * Backoff : patience' = t
    BY DEF ExecInv, ProviderExecTypeOK
  <2>2. Attempts - attempt - 1 = n
    BY <1>2, StepNumbers
  <2>3. WorkerRank' = n * AttemptSteps + t + 2
    BY <1>4, <2>1, <2>2 DEF WorkerRank
  <2>4. n * AttemptSteps + t + 2 \in Nat /\ n * AttemptSteps + t + 2 < WorkerRank
    BY <1>2, <2>1, StepNumbers
  <2>5. pe' \in InWorker
    BY <1>4 DEF InWorker
  <2>6. QED
    BY <1>1, <2>3, <2>4, <2>5, WorkerGetsOn
<1>5. QED
  BY <1>3, <1>4 DEF AfterTransport, Report

\* Each step of run() uses up a step, and keeps an offer in hand.
LEMMA RunGetsOn ==
  ASSUME ExecInv, ExecInv', OfferInHand, NEW reachable, ExecStep(reachable)
  PROVE  SliceRank' < SliceRank
<1>1. ASSUME pe \in InWorker
      PROVE  \E n \in Nat :
           /\ Attempts - attempt = n + 1 /\ Attempts - attempt - 1 = n /\ attempt \in Nat
           /\ n * AttemptSteps \in Nat
           /\ (n + 1) * AttemptSteps = n * AttemptSteps + AttemptSteps
           /\ pe = "invoking" => WorkerRank = (n + 1) * AttemptSteps
           /\ pe = "attached" => WorkerRank = (n + 1) * AttemptSteps - 1
           /\ pe = "probing"  => WorkerRank = n * AttemptSteps + patience + 2
           /\ pe = "napping"  => WorkerRank = n * AttemptSteps + 1
  BY <1>1, WorkerRankIs, StepNumbers
<1>2. patience \in 0 .. 3 * Backoff /\ cfg \in Configs /\ 3 * Backoff \in Nat
  BY StepNumbers DEF ExecInv, ProviderExecTypeOK
<1>3. ASSUME pe \in InWorker, pe' = "judging", cfg' = cfg, plan' = plan
      PROVE  SliceRank' < SliceRank
  BY <1>3, WorkerGetsOn
<1>4. CASE RentFails
  BY <1>4, ToTheNextOffer DEF RentFails, Working
<1>5. CASE NeverReady \/ HostDied
  BY <1>5, ToTheNextOffer DEF NeverReady, HostDied, Abandon, Working
<1>6. CASE RentYields
  <2>1. HostRank = HostSteps /\ HostRank' = HostSteps - 1 /\ pe \in Working /\ pe' \in Working
    BY <1>6 DEF RentYields, HostRank, Working
  <2>2. HostSteps - 1 \in Nat /\ HostSteps - 1 < HostSteps
    BY HostRankBounded, <2>1, StepNumbers
  <2>3. QED
    BY <1>6, <2>1, <2>2, OnTheSameHost DEF RentYields
<1>7. CASE EngineReady(reachable)
  <2>1. 1 \in Configs
    BY StepNumbers DEF Configs
  <2>2. QED
    BY <1>7, <2>1, EnterGetsOn DEF EngineReady
<1>8. CASE StartWorker
  <2>1. pe = "invoking" /\ pe \in InWorker /\ pe' = "attached" /\ pe' \in InWorker
        /\ attempt' = attempt /\ cfg' = cfg /\ plan' = plan
    BY <1>8 DEF StartWorker, InWorker
  <2>2. PICK n \in Nat :
           /\ Attempts - attempt = n + 1 /\ n * AttemptSteps \in Nat
           /\ (n + 1) * AttemptSteps = n * AttemptSteps + AttemptSteps
           /\ WorkerRank = (n + 1) * AttemptSteps
    BY <1>1, <2>1
  <2>3. WorkerRank' = (n + 1) * AttemptSteps - 1
    BY <2>1, <2>2 DEF WorkerRank
  <2>4. (n + 1) * AttemptSteps - 1 \in Nat /\ (n + 1) * AttemptSteps - 1 < WorkerRank
    BY <1>2, <2>2, StepNumbers
  <2>5. QED
    BY <2>1, <2>3, <2>4, WorkerGetsOn
<1>9. CASE DeadlineSpent \/ WorkerReturns \/ CallTimesOut \/ Decline
  BY <1>3, <1>9 DEF DeadlineSpent, WorkerReturns, CallTimesOut, Decline, Report, InWorker
<1>10. CASE ChannelDies
  BY <1>10, TransportGetsOn DEF ChannelDies
<1>11. CASE ConnectFails
  BY <1>11, TransportGetsOn DEF ConnectFails
<1>12. CASE ProbeGone
  <2>1. pe = "probing" /\ pe \in InWorker /\ pe' = "napping" /\ pe' \in InWorker
        /\ attempt' = attempt /\ cfg' = cfg /\ plan' = plan
    BY <1>12 DEF ProbeGone, InWorker
  <2>2. PICK n \in Nat : /\ Attempts - attempt - 1 = n /\ n * AttemptSteps \in Nat
                         /\ WorkerRank = n * AttemptSteps + patience + 2
    BY <1>1, <2>1
  <2>3. WorkerRank' = n * AttemptSteps + 1
    BY <2>1, <2>2 DEF WorkerRank
  <2>4. QED
    BY <1>2, <2>1, <2>2, <2>3, WorkerGetsOn
<1>13. CASE ProbeAgain
  <2>1. pe = "probing" /\ pe \in InWorker /\ pe' = pe
        /\ attempt' = attempt /\ cfg' = cfg /\ plan' = plan
    BY <1>13 DEF ProbeAgain, InWorker
  <2>2. PICK n \in Nat : /\ Attempts - attempt - 1 = n /\ n * AttemptSteps \in Nat
                         /\ WorkerRank = n * AttemptSteps + patience + 2
    BY <1>1, <2>1
  <2>3. PICK t \in 1 .. patience : patience' = patience - t
    BY <1>13 DEF ProbeAgain
  <2>4. WorkerRank' = n * AttemptSteps + (patience - t) + 2
    BY <2>1, <2>2, <2>3 DEF WorkerRank
  <2>5. n * AttemptSteps + (patience - t) + 2 \in Nat
        /\ n * AttemptSteps + (patience - t) + 2 < WorkerRank
    BY <1>2, <2>2, <2>3
  <2>6. QED
    BY <2>1, <2>4, <2>5, WorkerGetsOn
<1>14. CASE Nap
  <2>1. pe = "napping" /\ pe \in InWorker /\ pe' = "invoking" /\ pe' \in InWorker
        /\ attempt' = attempt + 1 /\ cfg' = cfg /\ plan' = plan
    BY <1>14 DEF Nap, InWorker
  <2>2. PICK n \in Nat : /\ Attempts - attempt - 1 = n /\ n * AttemptSteps \in Nat
                         /\ attempt \in Nat
                         /\ WorkerRank = n * AttemptSteps + 1
    BY <1>1, <2>1
  <2>3. Attempts - (attempt + 1) = n
    BY <2>2, StepNumbers
  <2>4. WorkerRank' = n * AttemptSteps
    BY <2>1, <2>3 DEF WorkerRank
  <2>5. QED
    BY <2>1, <2>2, <2>4, WorkerGetsOn
<1>15. CASE Keep
  <2>1. CASE cfg < NConfigs
    <3>1. cfg + 1 \in Configs
      BY <1>2, <2>1, StepNumbers DEF Configs
    <3>2. QED
      BY <1>15, <2>1, <3>1, EnterGetsOn DEF Keep
  <2>2. CASE ~ (cfg < NConfigs)
    <3>1. pe = "judging" /\ pe' = "syncing" /\ plan' = plan
      BY <1>15, <2>2 DEF Keep
    <3>2. PICK m \in Nat : m * ConfigSteps \in Nat /\ HostRank = m * ConfigSteps + 3
      BY <3>1, HostRankIs DEF InWorker
    <3>3. HostRank' = 2 /\ pe \in Working /\ pe' \in Working
      BY <3>1 DEF HostRank, InWorker, Working
    <3>4. QED
      BY <3>1, <3>2, <3>3, OnTheSameHost
  <2>3. QED
    BY <2>1, <2>2
<1>16. CASE SyncBack
  <2>1. HostRank = 2 /\ HostRank' = 1 /\ pe \in Working /\ pe' \in Working /\ plan' = plan
    BY <1>16 DEF SyncBack, HostRank, InWorker, Working
  <2>2. QED
    BY <2>1, OnTheSameHost
<1>17. CASE SyncRaises \/ GiveBack
  BY <1>17, ToTheEnd DEF SyncRaises, GiveBack, Raise, Working
<1>18. QED
  BY <1>4, <1>5, <1>6, <1>7, <1>8, <1>9, <1>10, <1>11, <1>12, <1>13, <1>14, <1>15, <1>16, <1>17
     DEF ExecStep

\* run() keeps an offer in hand.
LEMMA OfferKept ==
  ASSUME ExecInv, OfferInHand, [LaunchNext]_launchVars
  PROVE  OfferInHand'
<1>1. plan \in Nat
  BY StepNumbers DEF ExecInv, ProviderExecTypeOK
<1>2. ASSUME NEW n \in 0 .. MaxOffers, ListOffers(n) PROVE OfferInHand'
  BY <1>2, ProviderExecAssumption DEF ListOffers, Least, Raise, OfferInHand, Working, InWorker
<1>3. ASSUME Run PROVE OfferInHand'
  BY <1>1, <1>3
     DEF Run, ExecStep, OfferInHand, Working, InWorker, RentFails, RentYields, EngineReady, Enter,
         NeverReady, Abandon, NextOffer, Raise, StartWorker, DeadlineSpent, WorkerReturns,
         CallTimesOut, ChannelDies, ConnectFails, AfterTransport, Report, ProbeGone, ProbeAgain,
         Decline, Nap, Keep, HostDied, SyncBack, SyncRaises, GiveBack
<1>4. ASSUME pe' = pe, plan' = plan PROVE OfferInHand'
  BY <1>4 DEF OfferInHand
<1>5. QED
  BY <1>2, <1>3, <1>4
     DEF LaunchNext, Operate, Go, Call, DriftAny, HostStep, BoxDies, StrayEnds, execVars, runVars,
         launchVars

\* Beside run() itself only its caller moves it, once, before it has begun.
LEMMA SliceStepsGetOn ==
  ASSUME ExecInv, ExecInv', OfferInHand, SliceRankInv, SliceRankInv', [LaunchNext]_launchVars
  PROVE  SliceGetsOn
<1>1. ASSUME Run PROVE SliceRank' < SliceRank
  BY <1>1, RunGetsOn DEF Run
<1>2. SliceRank \in Nat /\ SliceRank' \in Nat
  <2>1. SliceBound \in Nat
    BY OneMore, StepNumbers DEF SliceBound
  <2>2. QED
    BY <2>1 DEF SliceRankInv
<1>3. ASSUME UNCHANGED runVars PROVE SliceRank' <= SliceRank
  <2>1. SliceRank' = SliceRank
    BY <1>3 DEF runVars, SliceRank, HostRank, WorkerRank
  <2>2. QED
    BY <1>2, <2>1
<1>4. SUFFICES ASSUME pe \in Working PROVE SliceRank' <= SliceRank
  BY <1>1 DEF SliceGetsOn
<1>5. CASE Run
  BY <1>1, <1>2, <1>5
<1>6. CASE Call
  BY <1>4, <1>6 DEF Call, ListOffers, Working, InWorker
<1>7. CASE ~ Run /\ ~ Call
  BY <1>3, <1>7
     DEF LaunchNext, Operate, Go, DriftAny, HostStep, BoxDies, StrayEnds, execVars, runVars,
         launchVars
<1>8. QED
  BY <1>5, <1>6, <1>7

\* ProviderExecutor.run is over after at most SliceBound steps of its own, however
\* its hosts die, its channels drop and its probes are answered: it is under way
\* exactly while steps are left, each of its steps uses one up, and nothing that
\* happens around it gives it more.  EverySliceEnds adds that it is scheduled.
THEOREM SliceIsBounded == LaunchSpec => []SliceRankInv /\ [][SliceGetsOn]_launchVars
<1>1. LaunchInit => OfferInHand
  BY DEF LaunchInit, ExecInit, OfferInHand, Working, InWorker
<1>2. ExecInv /\ OfferInHand /\ [LaunchNext]_launchVars => OfferInHand'
  BY OfferKept
<1>3. ExecInv /\ OfferInHand => SliceRankInv
  BY SliceRankBounded
<1>4. ExecInv /\ ExecInv' /\ OfferInHand /\ SliceRankInv /\ SliceRankInv'
      /\ [LaunchNext]_launchVars => [SliceGetsOn]_launchVars
  BY SliceStepsGetOn
<1>5. QED
  BY <1>1, <1>2, <1>3, <1>4, SliceInvariant, PTL DEF LaunchSpec

=============================================================================
