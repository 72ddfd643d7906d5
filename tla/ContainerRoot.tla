--------------------------- MODULE ContainerRoot ---------------------------
(***************************************************************************)
(* The data root that containers of one application share over time        *)
(* (scripts/container/entrypoint.py): its marker with the dataset it       *)
(* remembers, its lock file, and the lease directory that stands for the   *)
(* lock where containers do not share a kernel.  A container is one run of *)
(* the entrypoint; it can be killed between any two steps.                 *)
(***************************************************************************)
EXTENDS Naturals, FiniteSets

CONSTANTS Containers,
          SharedKernel,   \* flock excludes the other containers
          NoOne,          \* nobody's lease
          MaxKills

ASSUME ContainerAssumption == NoOne \notin Containers /\ MaxKills \in Nat

VARIABLES entry,   \* container -> how far its entrypoint is, and what it read
          root     \* the files of the data root, and what happened to it

containerVars == <<entry, root>>

NoDataset == 0
Stages == {"off", "checked", "locked", "leased", "owned", "opened", "starting",
           "started", "serving", "ending", "over"}
Inside == {"owned", "opened", "starting", "started", "serving", "ending"}

ContainerInit ==
  /\ entry = [c \in Containers |-> [at |-> "off", fresh |-> FALSE, dataset |-> NoDataset,
                                session |-> NoDataset]]
  /\ root = [lockFile |-> FALSE, marker |-> FALSE, dataset |-> NoDataset,
             lease |-> FALSE, owner |-> NoOne, flock |-> {},
             created |-> {}, kills |-> 0,
             lost |-> FALSE]   \* history: a dataset was created and nobody was told its name

MovesTo(c, stage) == entry' = [entry EXCEPT ![c].at = stage]
Moves(c, from, to) == entry[c].at = from /\ MovesTo(c, to)

\* A root without a marker must be empty; one with a marker has its lock file.
CheckRoot(c) ==
  /\ entry[c].at = "off"
  /\ LET fresh == ~root.marker
         empty == ~root.lockFile /\ ~root.lease /\ root.created = {}
     IN entry' = [entry EXCEPT ![c].fresh = fresh,
                               ![c].at = IF fresh /\ ~empty THEN "over" ELSE "checked"]
  /\ UNCHANGED root

OpenLock(c) ==
  /\ entry[c].at = "checked"
  /\ IF entry[c].fresh = root.lockFile \/ (SharedKernel /\ root.flock # {})
     THEN MovesTo(c, "over") /\ UNCHANGED root
     ELSE /\ MovesTo(c, "locked")
          /\ root' = [root EXCEPT !.lockFile = TRUE, !.flock = @ \cup {c}]

\* DataRoot.close: only a lease that holds this run's token is removed.
Unlocked(c) ==
  [root EXCEPT !.lease = @ /\ root.owner # c,
               !.owner = IF @ = c THEN NoOne ELSE @,
               !.flock = @ \ {c}]

MakeLeaseExistOk(c) ==
  /\ Moves(c, "locked", "leased")
  /\ root' = [root EXCEPT !.lease = TRUE]

\* mkdir is atomic: one container makes the lease directory, the others are busy.
MakeLease(c) ==
  \/ /\ ~root.lease
     /\ Moves(c, "locked", "leased")
     /\ root' = [root EXCEPT !.lease = TRUE]
  \/ /\ root.lease
     /\ Moves(c, "locked", "over")
     /\ root' = Unlocked(c)

\* The token is written, or the lease directory is removed again.
WriteOwner(c) ==
  \/ /\ Moves(c, "leased", "owned")
     /\ root' = [root EXCEPT !.owner = c]
  \/ /\ Moves(c, "leased", "over")
     /\ root' = [Unlocked(c) EXCEPT !.lease = FALSE]

\* A first run writes the marker; a later one reads it, and is refused when it
\* belongs to another application.
ReadMarker(c) ==
  \/ /\ entry[c].at = "owned"
     /\ entry' = [entry EXCEPT ![c].at = "opened",
                               ![c].dataset = IF entry[c].fresh THEN NoDataset ELSE root.dataset]
     /\ root' = [root EXCEPT !.marker = TRUE]
  \/ /\ ~entry[c].fresh
     /\ Moves(c, "owned", "over")
     /\ root' = Unlocked(c)

Chosen(c) ==
  IF entry[c].dataset = NoDataset THEN Cardinality(root.created) + 1 ELSE entry[c].dataset

\* Only a root that remembers none, and only a dataset whose marker was written.
Remember(c, d) ==
  [root EXCEPT !.dataset = IF entry[c].dataset = NoDataset THEN d ELSE @,
               !.marker = TRUE]

\* options() and session.start: the remembered dataset is reopened, or a new one
\* is created below the root; the start may be refused before that.
StartDataset(c) ==
  \/ Moves(c, "opened", "ending") /\ UNCHANGED root
  \/ /\ entry[c].at = "opened"
     /\ entry' = [entry EXCEPT ![c].at = "starting", ![c].session = Chosen(c)]
     /\ root' = [root EXCEPT !.created = @ \cup {Chosen(c)}]

\* A start that raises names its session, unless the cleanup of its server did
\* not end in 30 seconds.
StartEnds(c) ==
  /\ entry[c].at = "starting"
  /\ \/ /\ \E to \in {"started", "ending"} : MovesTo(c, to)
        /\ root' = Remember(c, entry[c].session)
     \/ /\ MovesTo(c, "ending")
        /\ root' = [root EXCEPT !.lost = @ \/ entry[c].dataset = NoDataset]

\* .emu-container-current.json and the ready line are written.
Publish(c) == Moves(c, "started", "serving") /\ UNCHANGED root

\* A stop signal, stopped.json, or the loss of the server.
LeaveLoop(c) == Moves(c, "serving", "ending") /\ UNCHANGED root

CloseRoot(c) == Moves(c, "ending", "over") /\ root' = Unlocked(c)

\* The kernel drops the lock; the lease directory stays.
Kill(c) ==
  /\ entry[c].at \notin {"off", "over"} /\ root.kills < MaxKills
  /\ MovesTo(c, "over")
  /\ root' = [root EXCEPT !.kills = @ + 1, !.flock = @ \ {c},
                          !.lost = @ \/ (entry[c].at = "starting"
                                           /\ entry[c].dataset = NoDataset)]

\* An operator removes a stale lease when no container uses the root.
Recover ==
  /\ root.lease /\ \A c \in Containers : entry[c].at \in {"off", "over"}
  /\ root' = [root EXCEPT !.lease = FALSE, !.owner = NoOne]
  /\ UNCHANGED entry

ContainerNext ==
  \/ Recover
  \/ \E c \in Containers :
       \/ CheckRoot(c) \/ OpenLock(c) \/ MakeLease(c) \/ WriteOwner(c) \/ ReadMarker(c)
       \/ StartDataset(c) \/ StartEnds(c) \/ Publish(c) \/ LeaveLoop(c) \/ CloseRoot(c) \/ Kill(c)

ContainerSpec == ContainerInit /\ [][ContainerNext]_containerVars

-----------------------------------------------------------------------------
(* Properties. *)

(* Stages and files keep their types.                                       *)
ContainerTypeOK ==
  /\ entry \in [Containers -> [at : Stages, fresh : BOOLEAN,
                               dataset : Nat, session : Nat]]
  /\ root.dataset \in root.created \cup {NoDataset}
  /\ root.owner \in Containers \cup {NoOne} /\ root.flock \subseteq Containers

(* One container at a time is between its token and the end of close(),     *)
(* also where flock does not exclude the others and after a container was   *)
(* killed: the dead one's lease is never taken over (docs/DOCKER.md:118).   *)
OneOwner ==
  \A c, d \in Containers : entry[c].at \in Inside /\ entry[d].at \in Inside => c = d

(* The launcher records its dataset under /data and reopens it on restart   *)
(* (docs/DOCKER.md:115): the root never has two datasets, whichever starts  *)
(* failed, were stopped or killed, unless a container was killed between    *)
(* the creation and the record or a failed start could not name its session.*)
DatasetIsReopened == ~root.lost => Cardinality(root.created) <= 1

(* What a container may count on, whichever others were started or killed:  *)
(* it is alone, and on the one dataset of the root.                         *)
DataRootIsKept == ContainerTypeOK /\ OneOwner /\ DatasetIsReopened

=============================================================================
