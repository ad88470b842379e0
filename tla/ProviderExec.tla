---------------------------- MODULE ProviderExec ----------------------------
(***************************************************************************)
(* ProviderExecutor.run: one slice of a campaign on one rented host, with  *)
(* failover to the next offer, and the workers it starts over ssh.         *)
(*                                                                         *)
(* rent() is what module Rental makes of it: an outcome before the host is *)
(* handed over and another when it is given back.  A config is its place   *)
(* in the slice.  Durations are counted in ticks, and only inside          *)
(* _run_worker, where one deadline is shared by all attempts.              *)
(***************************************************************************)
EXTENDS Integers, Sequences

CONSTANTS
  NConfigs,     \* configs in the slice
  MaxOffers,    \* bound on how many offers a listing shows
  MaxAttempts,  \* max_attempts: offers tried at most
  Reattach,     \* reattach_attempts
  RunTimeout,   \* run_timeout, in ticks
  Backoff       \* reattach_backoff_s, in ticks

ASSUME ProviderExecAssumption ==
  /\ NConfigs \in Nat \ {0} /\ MaxOffers \in Nat /\ MaxAttempts \in Nat \ {0}
  /\ Reattach \in Nat /\ RunTimeout \in Nat \ {0} /\ Backoff \in Nat \ {0}

Configs  == 1 .. NConfigs
Attempts == 1 + Reattach

VARIABLES
  pe,        \* where run() is
  plan,      \* offers left to try, counted: attempts[...] of the source
  cfg,       \* the config being run
  attempt,   \* the i of _run_worker
  elapsed,   \* ticks since _run_worker was entered
  patience,  \* ticks _worker_gone still waits
  recs,      \* `results`: the records of the host in hand
  whyRaised, \* what run() raised
  boxUp,     \* is the host in hand up?
  strays,    \* workers running on it that no ssh channel is attached to
  finished,  \* configs complete in the registry on its disk
  sees       \* does the provider have a dead_reason to ask?

runVars  == <<pe, plan, cfg, attempt, elapsed, patience, recs, whyRaised>>
boxVars  == <<boxUp, strays, finished>>
execVars == <<runVars, boxVars, sees>>

InWorker == {"invoking", "attached", "probing", "napping"}
Working  == InWorker \cup {"renting", "booting", "judging", "syncing", "closing"}
Kinds    == {"ok", "skipped", "error"}

ProviderExecTypeOK ==
  /\ pe \in Working \cup {"idle", "returned", "raised"}
  /\ plan \in 0 .. MaxAttempts
  /\ cfg \in Configs
  /\ attempt \in 0 .. Attempts
  /\ elapsed \in Nat
  /\ patience \in 0 .. 3 * Backoff
  /\ recs \in Seq(Kinds) /\ Len(recs) <= NConfigs
  /\ whyRaised \in {"none", "no_offers", "exhausted", "alarm", "terminal"}
  /\ boxUp \in BOOLEAN
  /\ strays \in [Configs -> 0 .. Attempts]
  /\ finished \subseteq Configs
  /\ sees \in BOOLEAN

Least(a, b) == IF a < b THEN a ELSE b

\* What is left of the shared deadline.
Left == IF elapsed < RunTimeout THEN RunTimeout - elapsed ELSE 0

-----------------------------------------------------------------------------
(* Offers and hosts                                                        *)

Raise(why) == pe' = "raised" /\ whyRaised' = why

\* A listing without offers is an error; a longer one is cut at max_attempts.
ListOffers(n) ==
  /\ pe = "idle"
  /\ plan' = Least(n, MaxAttempts)
  /\ IF n = 0 THEN Raise("no_offers")
              ELSE pe' = "renting" /\ UNCHANGED whyRaised
  /\ UNCHANGED <<cfg, attempt, elapsed, patience, recs, boxVars, sees>>

\* Mutant: the offer that failed is tried again.
NextOffer_Same ==
  IF plan <= 1 THEN Raise("exhausted") /\ plan' = 0
               ELSE pe' = "renting" /\ UNCHANGED <<plan, whyRaised>>

\* A failover signal: the next offer, or the error that names the last one.
NextOffer ==
  IF plan <= 1 THEN Raise("exhausted") /\ plan' = 0
               ELSE pe' = "renting" /\ plan' = plan - 1 /\ UNCHANGED whyRaised

\* rent() fails before it yields: a host that never comes up, an offer that is
\* taken and a timeout are failover signals; BudgetExceeded, an authorization
\* error and LeakRisk are not.
RentFails ==
  /\ pe = "renting"
  /\ NextOffer \/ (\E why \in {"alarm", "terminal"} : Raise(why) /\ UNCHANGED plan)
  /\ UNCHANGED <<cfg, attempt, elapsed, patience, recs, boxVars, sees>>

\* A fresh host: nothing runs on it and its disk has no copy of any run.
RentYields ==
  /\ pe = "renting"
  /\ pe' = "booting"
  /\ boxUp' = TRUE
  /\ strays' = [c \in Configs |-> 0]
  /\ finished' = {}
  /\ UNCHANGED <<plan, cfg, attempt, elapsed, patience, recs, whyRaised, sees>>

\* _run_worker is entered for config c.
Enter(c) ==
  /\ pe' = "invoking" /\ cfg' = c /\ attempt' = 0 /\ elapsed' = 0 /\ patience' = 0

\* Mutant: the records of the host that died are kept.
EngineReady_KeepRecords(reachable) ==
  /\ pe = "booting" /\ boxUp /\ reachable
  /\ Enter(1)
  /\ UNCHANGED <<recs, plan, whyRaised, boxVars, sees>>

\* The engine imports on the box (_wait_engine_ready): results starts empty.
EngineReady(reachable) ==
  /\ pe = "booting" /\ boxUp /\ reachable
  /\ Enter(1)
  /\ recs' = <<>>
  /\ UNCHANGED <<plan, whyRaised, boxVars, sees>>

\* The end of the with-block by a failover signal: rent() tears the host down
\* and lets the signal pass, or raises LeakRisk over it.
Abandon ==
  /\ NextOffer \/ (Raise("alarm") /\ UNCHANGED plan)
  /\ boxUp' = FALSE /\ strays' = [c \in Configs |-> 0]
  /\ UNCHANGED <<cfg, attempt, elapsed, patience, recs, finished, sees>>

\* ready_timeout runs out.
NeverReady == pe = "booting" /\ Abandon

-----------------------------------------------------------------------------
(* One config: _run_worker                                                 *)

\* A call that blocks for at most t ticks has returned.
Takes(t) == elapsed' \in elapsed .. elapsed + t

\* The config's record is in: run() looks at it next.
Report(kind) == pe' = "judging" /\ recs' = Append(recs, kind)

\* Mutant: every attempt has the whole run_timeout.
CallLimit_PerAttempt == RunTimeout

\* The timeout one worker call is given.
CallLimit == Left

\* ssh starts the worker.
StartWorker ==
  /\ pe = "invoking" /\ Left > 0 /\ boxUp
  /\ pe' = "attached"
  /\ UNCHANGED <<plan, cfg, attempt, elapsed, patience, recs, whyRaised, boxVars, sees>>

\* The deadline was used up by earlier attempts: rc 124.
DeadlineSpent ==
  /\ pe = "invoking" /\ Left = 0
  /\ Report("error")
  /\ UNCHANGED <<plan, cfg, attempt, elapsed, patience, whyRaised, boxVars, sees>>

\* The worker ends and its result line arrives.  A worker that finds its config
\* complete skips it; one whose line is cut leaves a complete run and an error.
WorkerReturns ==
  /\ pe = "attached" /\ boxUp
  /\ Takes(CallLimit)
  /\ \/ Report(IF cfg \in finished THEN "skipped" ELSE "ok") /\ finished' = finished \cup {cfg}
     \/ Report("error") /\ finished' \in {finished, finished \cup {cfg}}
  /\ UNCHANGED <<plan, cfg, attempt, patience, whyRaised, boxUp, strays, sees>>

\* What a worker that loses its channel does: it goes on, unless it was at its
\* end or dies with the channel.
Orphaned ==
  \/ boxUp /\ strays' = [strays EXCEPT ![cfg] = @ + 1] /\ UNCHANGED finished
  \/ UNCHANGED strays /\ finished' \in {finished, finished \cup {cfg}}

\* run_timeout strikes: the local ssh is killed, the worker is not.
CallTimesOut ==
  /\ pe = "attached"
  /\ elapsed' = elapsed + CallLimit
  /\ Orphaned
  /\ Report("error")
  /\ UNCHANGED <<plan, cfg, attempt, patience, whyRaised, boxUp, sees>>

\* Exit code 255: ssh could not connect, or lost the connection.  The last
\* attempt and a host the provider calls dead end in an error; a host whose
\* status cannot be read is none, nor is a dead one that still reads as running.
AfterTransport ==
  \/ /\ attempt + 1 = Attempts \/ sees
     /\ Report("error")
     /\ UNCHANGED <<attempt, patience>>
  \/ /\ attempt + 1 < Attempts
     /\ pe' = "probing"
     /\ patience' = Least(3 * Backoff, Left')
     /\ UNCHANGED <<attempt, recs>>

ChannelDies ==
  /\ pe = "attached"
  /\ Takes(CallLimit)
  /\ Orphaned
  /\ AfterTransport
  /\ UNCHANGED <<plan, cfg, whyRaised, boxUp, sees>>

ConnectFails ==
  /\ pe = "invoking" /\ Left > 0
  /\ Takes(CallLimit)
  /\ AfterTransport
  /\ UNCHANGED <<plan, cfg, whyRaised, boxVars, sees>>

NoWorker == \A c \in Configs : strays[c] = 0

\* Mutant: a probe that fails counts as gone.
ProbeGone_Guess ==
  /\ pe = "probing" /\ patience > 0
  /\ pe' = "napping"
  /\ Takes(patience)
  /\ UNCHANGED <<plan, cfg, attempt, patience, recs, whyRaised, boxVars, sees>>

\* _worker_gone: the probe answers GONE, whichever config's worker it looked for.
ProbeGone ==
  /\ pe = "probing" /\ patience > 0 /\ boxUp /\ NoWorker
  /\ pe' = "napping"
  /\ Takes(patience)
  /\ UNCHANGED <<plan, cfg, attempt, patience, recs, whyRaised, boxVars, sees>>

\* A worker is there, or the probe fails: sleep, within what is left.
ProbeAgain ==
  /\ pe = "probing" /\ patience > 0
  /\ \E t \in 1 .. patience :
       patience' = patience - t /\ elapsed' = elapsed + t
  /\ UNCHANGED <<pe, plan, cfg, attempt, recs, whyRaised, boxVars, sees>>

\* A worker may still run: decline to start a second one.
Decline ==
  /\ pe = "probing" /\ patience = 0
  /\ Report("error")
  /\ UNCHANGED <<plan, cfg, attempt, elapsed, patience, whyRaised, boxVars, sees>>

\* The pause before the next attempt.
Nap ==
  /\ pe = "napping"
  /\ elapsed' = elapsed + Least(Backoff, Left)
  /\ pe' = "invoking" /\ attempt' = attempt + 1
  /\ UNCHANGED <<plan, cfg, patience, recs, whyRaised, boxVars, sees>>

-----------------------------------------------------------------------------
(* run(): what becomes of a record                                         *)

LastRecord == recs[Len(recs)]

\* The record stays, and the next config or the way home follows.
Keep ==
  /\ pe = "judging"
  /\ IF cfg < NConfigs THEN Enter(cfg + 1)
                       ELSE pe' = "syncing" /\ UNCHANGED <<cfg, attempt, elapsed, patience>>
  /\ UNCHANGED <<plan, recs, whyRaised, boxVars, sees>>

\* An error on a host the provider calls dead is the host's: fail over.
HostDied ==
  /\ pe = "judging" /\ LastRecord = "error" /\ sees
  /\ Abandon

\* _sync_back is best effort: scp's outcome is not looked at.
SyncBack ==
  /\ pe = "syncing"
  /\ pe' = "closing"
  /\ UNCHANGED <<plan, cfg, attempt, elapsed, patience, recs, whyRaised, boxVars, sees>>

\* The local directory cannot be made: the host goes, and every record with it.
SyncRaises ==
  /\ pe = "syncing"
  /\ \E why \in {"alarm", "terminal"} : Raise(why)
  /\ boxUp' = FALSE /\ strays' = [c \in Configs |-> 0]
  /\ UNCHANGED <<plan, cfg, attempt, elapsed, patience, recs, finished, sees>>

\* The records go to the caller if rent() can tear the host down, and are lost to
\* LeakRisk if it cannot.
GiveBack ==
  /\ pe = "closing"
  /\ (pe' = "returned" /\ UNCHANGED whyRaised) \/ Raise("alarm")
  /\ boxUp' = FALSE /\ strays' = [c \in Configs |-> 0]
  /\ UNCHANGED <<plan, cfg, attempt, elapsed, patience, recs, finished, sees>>

-----------------------------------------------------------------------------
(* The host                                                                *)

\* The host dies with all that runs on it; the provider may notice or not.
BoxDies ==
  /\ boxUp
  /\ boxUp' = FALSE /\ strays' = [c \in Configs |-> 0]
  /\ UNCHANGED <<runVars, finished, sees>>

\* A worker without a channel ends, its run complete or not.
StrayEnds(c) ==
  /\ strays[c] > 0
  /\ strays' = [strays EXCEPT ![c] = @ - 1]
  /\ finished' \in {finished, finished \cup {c}}
  /\ UNCHANGED <<runVars, boxUp, sees>>

-----------------------------------------------------------------------------
ExecInit ==
  /\ pe = "idle" /\ plan = 0 /\ cfg = 1 /\ attempt = 0 /\ elapsed = 0 /\ patience = 0
  /\ recs = <<>> /\ whyRaised = "none"
  /\ boxUp = FALSE /\ strays = [c \in Configs |-> 0] /\ finished = {}
  /\ sees \in BOOLEAN

\* What run() does by itself once it has been called.
ExecStep(reachable) ==
  \/ RentFails \/ RentYields \/ EngineReady(reachable) \/ NeverReady
  \/ StartWorker \/ DeadlineSpent \/ WorkerReturns \/ CallTimesOut
  \/ ChannelDies \/ ConnectFails \/ ProbeGone \/ ProbeAgain \/ Decline \/ Nap
  \/ Keep \/ HostDied \/ SyncBack \/ SyncRaises \/ GiveBack

HostStep == BoxDies \/ \E c \in Configs : StrayEnds(c)

-----------------------------------------------------------------------------
(* Properties                                                              *)

\* Two workers never run one config on one host, and whatever still runs there
\* unattended is a config already reported as an error, or the very one whose
\* end _worker_gone waits for: a dropped channel costs a leg, never a registry
\* two workers write to (_worker_gone).
WorkersAreAccounted ==
  \A c \in Configs :
    /\ strays[c] + (IF pe = "attached" /\ cfg = c THEN 1 ELSE 0) <= 1
    /\ strays[c] > 0 =>
         \/ c \in DOMAIN recs /\ recs[c] = "error"
         \/ c = cfg /\ pe = "probing"

\* A config never holds the host longer than run_timeout, whatever number of
\* attempts, probes and pauses that takes (_run_worker, one shared deadline).
WithinRunTimeout == elapsed <= RunTimeout

\* The records run() returns are one for each config, in order, all from the last
\* host: where a record is no error, that host's registry has the finished run.
RecordsAreThisHosts ==
  pe \in {"judging", "syncing", "closing", "returned"} =>
    /\ Len(recs) = IF pe = "judging" THEN cfg ELSE NConfigs
    /\ \A c \in DOMAIN recs : recs[c] # "error" => c \in finished

\* Every run comes to an end: offers, attempts and waits are all bounded.
EverySliceEnds == pe \in Working ~> pe \in {"returned", "raised"}

=============================================================================
