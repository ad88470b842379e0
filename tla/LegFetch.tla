------------------------------- MODULE LegFetch -------------------------------
(***************************************************************************)
(* The files of one leg: the payload writing them on its box, the mid-run  *)
(* fetcher thread and the final fetch copying them into staging            *)
(* directories, publish moving them into the leg's local directory one by  *)
(* one with the marker last, the restore of a banked partial on a          *)
(* replacement box, and the relaunch that skips a leg with a marker.       *)
(*                                                                         *)
(* A path is the sequence of its components, each a number: the rank of    *)
(* the name in the sorted order publish uses.  A file is absent, part (its *)
(* writer or its copy stopped half way) or full.                           *)
(***************************************************************************)
EXTENDS Naturals, Sequences, FiniteSets

CONSTANTS
  Layouts,       \* the trees considered: [files |-> set of paths, marker |-> path]
  AtomicWriters, \* does the payload write atomically? subset of BOOLEAN
  CutTransfers,  \* may an scp stop half way? subset of BOOLEAN
  JoinTimesOut   \* may the fetcher outlive fetcher.join(timeout=30)?

\* Two paths are equal up to their k-th components, which differ.
PartAt(f, g, k) ==
  /\ k <= Len(f) /\ k <= Len(g) /\ f[k] # g[k]
  /\ \A j \in 1 .. k - 1 : f[j] = g[j]

\* A tree is finite, and no file in it is a directory of another.
ASSUME LegFetchAssumption ==
  /\ \A lay \in Layouts :
       /\ lay.files \subseteq Seq(Nat) /\ IsFiniteSet(lay.files)
       /\ lay.marker \in lay.files /\ \A f \in lay.files : f # <<>>
       /\ \A f, g \in lay.files : f # g => \E k \in 1 .. Len(f) : PartAt(f, g, k)
  /\ AtomicWriters \subseteq BOOLEAN /\ CutTransfers \subseteq BOOLEAN
  /\ JoinTimesOut \in BOOLEAN

VARIABLES
  layout,   \* the leg's fetch tree and its done_when marker
  atomic,   \* how its payload writes
  cuts,     \* whether transfers may be cut
  leg,      \* where the leg's thread is
  rc,       \* how the command ended
  status,   \* its LegResult
  remote,   \* the files on its present box
  writing,  \* the file the payload has open, if any
  up,       \* is the box reachable
  local,    \* the files in the leg's directory
  fpc,      \* where each fetch is
  listing,  \* what its scp still has to copy
  stage     \* its staging directory

vars == <<layout, atomic, cuts, leg, rc, status, remote, writing, up, local, fpc, listing, stage>>
setting == <<layout, atomic, cuts>>
boxVars == <<remote, writing, up>>
fetchVars == <<fpc, listing, stage>>

Fetches == {"midrun", "final"}
Nothing == <<>>      \* no file open
Contents == {"absent", "part", "full"}

Empty   == [f \in layout.files |-> "absent"]
Payload == layout.files \ {layout.marker}
Present(d) == {f \in layout.files : d[f] # "absent"}
\* _complete: a presence test.
Complete == local[layout.marker] # "absent"

LegFetchTypeOK ==
  /\ layout \in Layouts /\ atomic \in AtomicWriters /\ cuts \in CutTransfers
  /\ leg \in {"idle", "working", "joining", "fetching", "checking", "done"}
  /\ rc \in {"none", "ok", "failed", "died"}
  /\ status \in {"none", "SKIP", "OK", "NO_RESULT", "BAD_ARTIFACTS", "RUN_FAIL"}
  /\ {remote, local} \cup {stage[a] : a \in Fetches} \subseteq [layout.files -> Contents]
  /\ writing \in layout.files \cup {Nothing}
  /\ up \in BOOLEAN
  /\ fpc \in [Fetches -> {"off", "copying", "publishing"}]
  /\ listing \in [Fetches -> SUBSET layout.files]

-----------------------------------------------------------------------------
(* The order of publish                                                    *)

\* At the top level the entry named like the marker's first component goes last,
\* below it the one named like the marker itself; otherwise names are sorted.
LastAt(k) == IF k = 1 THEN layout.marker[1] ELSE layout.marker[Len(layout.marker)]

\* Mutant: plain sorted order.
Before_Sorted(f, g) == \E k \in 1 .. Len(f) : PartAt(f, g, k) /\ f[k] < g[k]

Before(f, g) ==
  \E k \in 1 .. Len(f) :
    /\ PartAt(f, g, k)
    /\ \/ g[k] = LastAt(k)
       \/ f[k] # LastAt(k) /\ f[k] < g[k]

First(S) == CHOOSE f \in S : \A g \in S \ {f} : Before(f, g)

-----------------------------------------------------------------------------
(* The box                                                                 *)

\* The payload: skip-if-exists for every file, and the marker after the rest.
MayWrite(f) ==
  /\ leg = "working" /\ up /\ writing = Nothing /\ remote[f] = "absent"
  /\ f = layout.marker => \A g \in Payload : remote[g] # "absent"

Write(f) ==
  /\ MayWrite(f)
  /\ IF atomic \/ f = layout.marker
       THEN remote' = [remote EXCEPT ![f] = "full"] /\ UNCHANGED writing
       ELSE remote' = [remote EXCEPT ![f] = "part"] /\ writing' = f
  /\ UNCHANGED <<setting, leg, rc, status, up, local, fetchVars>>

FinishWrite ==
  /\ writing # Nothing /\ up /\ leg = "working"
  /\ remote' = [remote EXCEPT ![writing] = "full"]
  /\ writing' = Nothing
  /\ UNCHANGED <<setting, leg, rc, status, up, local, fetchVars>>

\* The host dies.  A transfer in progress is cut with it.
HostDies ==
  /\ up /\ leg \in {"working", "joining", "fetching"}
  /\ cuts \/ \A a \in Fetches : fpc[a] # "copying"
  /\ up' = FALSE
  /\ UNCHANGED <<setting, leg, rc, status, remote, writing, local, fetchVars>>

-----------------------------------------------------------------------------
(* One fetch: _scp_down into the fetch's own staging directory, publish     *)

Fetching(a) ==
  IF a = "final" THEN leg = "fetching" ELSE leg = "working"

\* scp lists the tree; a pull that fails outright stages nothing.
StartFetch(a) ==
  /\ Fetching(a) /\ fpc[a] = "off"
  /\ \E seen \in {{}} \cup (IF up THEN {Present(remote)} ELSE {}) :
       listing' = [listing EXCEPT ![a] = seen]
  /\ fpc' = [fpc EXCEPT ![a] = "copying"]
  /\ stage' = [stage EXCEPT ![a] = Empty]
  /\ UNCHANGED <<setting, leg, rc, status, boxVars, local>>

\* Files are copied in no particular order, each as it is when it is read.
CopyFile(a, f) ==
  /\ fpc[a] = "copying" /\ f \in listing[a] /\ up
  /\ stage' = [stage EXCEPT ![a][f] = remote[f]]
  /\ listing' = [listing EXCEPT ![a] = @ \ {f}]
  /\ UNCHANGED <<setting, leg, rc, status, boxVars, local, fpc>>

\* A dropped connection, a timeout or a full disk: the file in transit is torn,
\* the rest never comes, and nobody reads scp's exit code.
CopyCut(a, f) ==
  /\ fpc[a] = "copying" /\ cuts /\ f \in listing[a]
  /\ stage' = [stage EXCEPT ![a][f] = "part"]
  /\ listing' = [listing EXCEPT ![a] = {}]
  /\ UNCHANGED <<setting, leg, rc, status, boxVars, local, fpc>>

CopyEnds(a) ==
  /\ fpc[a] = "copying" /\ (listing[a] = {} \/ (cuts /\ ~up))
  /\ fpc' = [fpc EXCEPT ![a] = "publishing"]
  /\ listing' = [listing EXCEPT ![a] = {}]
  /\ UNCHANGED <<setting, leg, rc, status, boxVars, local, stage>>

\* Mutant: the staging directory takes the place of the local one.
PublishFile_Swap(a) ==
  /\ fpc[a] = "publishing" /\ Present(stage[a]) # {}
  /\ local' = stage[a] /\ stage' = [stage EXCEPT ![a] = Empty]
  /\ UNCHANGED <<setting, leg, rc, status, boxVars, fpc, listing>>

\* publish: os.replace of the next file of the staging directory.
PublishFile(a) ==
  /\ fpc[a] = "publishing" /\ Present(stage[a]) # {}
  /\ LET f == First(Present(stage[a]))
     IN  /\ local' = [local EXCEPT ![f] = stage[a][f]]
         /\ stage' = [stage EXCEPT ![a][f] = "absent"]
  /\ UNCHANGED <<setting, leg, rc, status, boxVars, fpc, listing>>

PublishEnds(a) ==
  /\ fpc[a] = "publishing" /\ Present(stage[a]) = {}
  /\ fpc' = [fpc EXCEPT ![a] = "off"]
  /\ leg' = IF a = "final" THEN "checking" ELSE leg
  /\ UNCHANGED <<setting, rc, status, boxVars, local, listing, stage>>

-----------------------------------------------------------------------------
(* The leg's thread                                                        *)

\* Mutant: the marker is left out of what goes up.
Restored_NoMarker == {Empty, [f \in Payload |-> local[f]]}

\* _restore: the banked partial goes up, unless the upload fails, unnoticed.
Restored == {Empty, local}

\* A box for the leg: of a relaunched driver, which skips a complete leg, or the
\* replacement of one that died.
BeginLeg ==
  /\ leg = "idle" /\ fpc["midrun"] = "off"
  /\ IF Complete /\ rc # "died"
       THEN /\ leg' = "done" /\ status' = "SKIP"
            /\ UNCHANGED <<rc, boxVars>>
       ELSE /\ leg' = "working" /\ status' = "none" /\ rc' = "none"
            /\ up' = TRUE /\ writing' = Nothing
            /\ remote' \in Restored
  /\ UNCHANGED <<setting, local, fetchVars>>

\* The command returns: zero once the payload is through its files (the marker
\* may be missing all the same), non-zero over a dead host or a live one.
CommandEnds ==
  /\ leg = "working"
  /\ \/ up /\ writing = Nothing /\ (\A f \in Payload : remote[f] # "absent") /\ rc' = "ok"
     \/ rc' = "failed"
     \/ ~up /\ rc' = "died"
  /\ leg' = "joining"
  /\ UNCHANGED <<setting, status, boxVars, local, fetchVars>>

\* Mutant: the fetcher is told to stop and not waited for.
Join_NoWait ==
  /\ leg = "joining"
  /\ leg' = CASE rc = "ok" -> "fetching" [] rc = "failed" -> "done" [] rc = "died" -> "idle"
  /\ status' = IF rc = "failed" THEN "RUN_FAIL" ELSE status
  /\ UNCHANGED <<setting, rc, boxVars, local, fetchVars>>

\* fetch_stop.set and join; then the final fetch, RUN_FAIL, or the next host.
Join ==
  /\ leg = "joining"
  /\ fpc["midrun"] = "off" \/ JoinTimesOut
  /\ leg' = CASE rc = "ok" -> "fetching" [] rc = "failed" -> "done" [] rc = "died" -> "idle"
  /\ status' = IF rc = "failed" THEN "RUN_FAIL" ELSE status
  /\ UNCHANGED <<setting, rc, boxVars, local, fetchVars>>

\* Mutant: the marker alone decides.
Check_MarkerOnly ==
  /\ leg = "checking"
  /\ leg' = "done"
  /\ status' = IF ~Complete THEN "NO_RESULT" ELSE "OK"
  /\ UNCHANGED <<setting, rc, boxVars, local, fetchVars>>

\* The marker, then every file that is there; none is required to be.
Check ==
  /\ leg = "checking"
  /\ leg' = "done"
  /\ status' = IF ~Complete THEN "NO_RESULT"
               ELSE IF \E f \in layout.files : local[f] = "part" THEN "BAD_ARTIFACTS"
               ELSE "OK"
  /\ UNCHANGED <<setting, rc, boxVars, local, fetchVars>>

\* The driver's process ends, by itself or by SIGKILL at any instant, and is
\* launched again.  Its staging directories are never looked at again.
DriverRestarts ==
  /\ leg # "idle" \/ rc = "died"
  /\ leg' = "idle" /\ rc' = "none"
  /\ fpc' = [a \in Fetches |-> "off"]
  /\ listing' = [a \in Fetches |-> {}]
  /\ stage' = [a \in Fetches |-> Empty]
  /\ UNCHANGED <<setting, status, boxVars, local>>

-----------------------------------------------------------------------------
Init ==
  /\ layout \in Layouts /\ atomic \in AtomicWriters /\ cuts \in CutTransfers
  /\ leg = "idle" /\ rc = "none" /\ status = "none"
  /\ remote = Empty /\ writing = Nothing /\ up = FALSE
  /\ local = Empty
  /\ fpc = [a \in Fetches |-> "off"]
  /\ listing = [a \in Fetches |-> {}]
  /\ stage = [a \in Fetches |-> Empty]

FetchStep(a) ==
  \/ StartFetch(a) \/ CopyEnds(a) \/ PublishFile(a) \/ PublishEnds(a)
  \/ \E f \in layout.files : CopyFile(a, f) \/ CopyCut(a, f)

Next ==
  \/ \E f \in layout.files : Write(f)
  \/ FinishWrite \/ HostDies
  \/ \E a \in Fetches : FetchStep(a)
  \/ BeginLeg \/ CommandEnds \/ Join \/ Check \/ DriverRestarts

Spec == Init /\ [][Next]_vars

-----------------------------------------------------------------------------
(* Properties                                                              *)

\* At no instant does the leg's directory hold the marker without the files the
\* marker vouches for (the contract arrival.publish states).
MarkerMeansPayload == Complete => \A f \in Payload : local[f] # "absent"

\* It does not as long as a transfer is complete or brings nothing: whatever the
\* order scp copies in, two fetches overlap, or a kill falls between two renames.
MarkerLast == ~cuts => MarkerMeansPayload

\* What an atomic writer finished and one pull banked is never lost again, to a
\* later pull, a replacement box, or a relaunch (FleetLeg.resumable).
BankedSurvives ==
  [][atomic /\ ~cuts => \A f \in layout.files : local[f] = "full" => local'[f] = "full"]_vars

\* Once a leg is reported, nothing writes to its directory behind the caller's
\* back: the mid-run fetcher is over by then.
ReportedIsStill ==
  [][leg = "done" /\ leg' = "done" => local' = local]_vars

\* A relaunch that skips the leg has all of an atomic writer's files, intact,
\* when no transfer was cut.
SkipIsWhole ==
  status = "SKIP" /\ atomic /\ ~cuts => \A f \in layout.files : local[f] = "full"

\* A leg reported OK has no torn file, whatever its writer and its transfers did,
\* for as long as its caller can look.
OkIsNotTorn ==
  leg = "done" /\ status = "OK" => \A f \in layout.files : local[f] # "part"

=============================================================================
