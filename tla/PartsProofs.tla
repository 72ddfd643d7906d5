----------------------------- MODULE PartsProofs -----------------------------
(***************************************************************************)
(* Proofs about the parts around a session's input, for any number of      *)
(* containers, captures, samples, pages and blocks: each part has its own  *)
(* inductive invariant.  The steps of a part are first put into a flat     *)
(* form, which says field by field what they change; the invariant is      *)
(* proved of that form.                                                    *)
(***************************************************************************)
EXTENDS Parts, FiniteSetTheorems, SequenceTheorems, TLAPS

-----------------------------------------------------------------------------
(* The data root.  The lock file is never removed, and the lease directory *)
(* of a container that was killed only by hand: what a container found in  *)
(* CheckRoot is still so when it needs it, or it is refused before that.   *)

Holding == {"leased"} \cup Inside
Past    == {"locked"} \cup Holding

Entries == [at : Stages, fresh : BOOLEAN, dataset : Nat, session : Nat]
Roots == [lockFile : BOOLEAN, marker : BOOLEAN, dataset : Nat, lease : BOOLEAN,
          owner : Containers \cup {NoOne}, flock : SUBSET Containers,
          created : SUBSET Nat, kills : Nat, lost : BOOLEAN]

RootTypes == entry \in [Containers -> Entries] /\ root \in Roots
             /\ IsFiniteSet(root.created)

(* Who has made the lease directory, and whose token is in it.              *)
Leases ==
  /\ \A c, d \in Containers : entry[c].at \in Holding /\ entry[d].at \in Holding => c = d
  /\ \A c \in Containers :
       /\ entry[c].at \in Holding => root.lease
       /\ entry[c].at = "leased" => root.owner = NoOne
       /\ entry[c].at \in Inside => root.owner = c
       /\ root.owner = c => entry[c].at \in Inside \cup {"over"}
  /\ ~root.lease => root.owner = NoOne

(* A container that took the root for a new one is the first to lock it.   *)
Firsts ==
  /\ root.marker => root.lockFile
  /\ \A c \in Containers :
       /\ entry[c].at = "off" => ~entry[c].fresh
       /\ entry[c].at \in Past => root.lockFile
       /\ ~root.marker /\ entry[c].at \in Past \cup {"checked"} => entry[c].fresh
       /\ entry[c].at \in Inside \ {"owned"} => root.marker
       /\ entry[c].fresh /\ entry[c].at \in {"locked", "leased", "owned"} => ~root.marker
  /\ \A c, d \in Containers :
       entry[c].fresh /\ entry[c].at \in Past /\ entry[d].fresh /\ entry[d].at \in Past => c = d

(* The dataset that was created is remembered, or about to be, or lost.    *)
Datasets ==
  /\ ~root.marker => root.created = {} /\ root.dataset = NoDataset
  /\ \A c \in Containers :
       /\ entry[c].at \in {"opened", "starting"} => entry[c].dataset = root.dataset
       /\ entry[c].at \in {"starting", "started"} => entry[c].session \in root.created
  /\ root.dataset \in root.created \cup {NoDataset}
  /\ NoDataset \notin root.created
  /\ ~root.lost =>
       \/ root.created = {}
       \/ root.created = {root.dataset}
       \/ \E c \in Containers : entry[c].at = "starting" /\ root.created = {entry[c].session}

RootInv == RootTypes /\ Leases /\ Firsts /\ Datasets

(* The name of a new dataset: one more than there are.                      *)
LEMMA ChosenType ==
  ASSUME RootTypes, NEW c \in Containers
  PROVE  Chosen(c) \in Nat \ {NoDataset}
<1>1. entry[c] \in Entries BY DEF RootTypes
<1>2. Cardinality(root.created) \in Nat BY FS_CardinalityType DEF RootTypes
<1>3. QED BY <1>1, <1>2 DEF Chosen, Entries, NoDataset

(* A step of one container changes its own entry only.                      *)
EntryIs(c, at, fresh, data, session) ==
  \A d \in Containers :
    /\ entry'[d].at = IF d = c THEN at ELSE entry[d].at
    /\ entry'[d].fresh <=> IF d = c THEN fresh ELSE entry[d].fresh
    /\ entry'[d].dataset = IF d = c THEN data ELSE entry[d].dataset
    /\ entry'[d].session = IF d = c THEN session ELSE entry[d].session

Moved(c, at) == EntryIs(c, at, entry[c].fresh, entry[c].dataset, entry[c].session)

LEMMA EntryChanged ==
  ASSUME RootTypes, NEW c \in Containers, NEW e \in Entries,
         entry' = [entry EXCEPT ![c] = e]
  PROVE  /\ entry' \in [Containers -> Entries]
         /\ EntryIs(c, e.at, e.fresh, e.dataset, e.session)
<1>1. entry' \in [Containers -> Entries] BY DEF RootTypes
<1>2. \A d \in Containers : entry'[d] = IF d = c THEN e ELSE entry[d]
  BY DEF RootTypes
<1>3. EntryIs(c, e.at, e.fresh, e.dataset, e.session) BY <1>2 DEF EntryIs
<1>4. QED BY <1>1, <1>3

LEMMA EntryMoves ==
  ASSUME RootTypes, NEW c \in Containers, NEW stage \in Stages, MovesTo(c, stage)
  PROVE  entry' \in [Containers -> Entries] /\ Moved(c, stage)
<1> DEFINE e == [entry[c] EXCEPT !.at = stage]
<1>1. entry[c] \in Entries BY DEF RootTypes
<1>2. /\ e \in Entries
      /\ e.at = stage /\ e.fresh = entry[c].fresh
      /\ e.dataset = entry[c].dataset /\ e.session = entry[c].session
  BY <1>1 DEF Entries
<1>3. entry' = [entry EXCEPT ![c] = e] BY DEF MovesTo
<1> HIDE DEF e
<1>4. entry' \in [Containers -> Entries] /\ EntryIs(c, e.at, e.fresh, e.dataset, e.session)
  BY <1>2, <1>3, EntryChanged
<1>5. QED BY <1>2, <1>4 DEF Moved


(* What a step leaves of the root, the locks of the kernel apart.           *)
RootIs(lockFile, marker, data, lease, owner, created, lost) ==
  /\ root'.lockFile <=> lockFile
  /\ root'.marker <=> marker
  /\ root'.lease <=> lease
  /\ root'.lost <=> lost
  /\ root'.dataset = data /\ root'.owner = owner /\ root'.created = created

SameRoot == RootIs(root.lockFile, root.marker, root.dataset, root.lease, root.owner,
                   root.created, root.lost)

RootUnlocked(c) ==
  RootIs(root.lockFile, root.marker, root.dataset, root.lease /\ root.owner # c,
         IF root.owner = c THEN NoOne ELSE root.owner, root.created, root.lost)

LEMMA RootKept ==
  ASSUME RootTypes, UNCHANGED root
  PROVE  root' \in Roots /\ IsFiniteSet(root'.created) /\ SameRoot
BY DEF RootTypes, SameRoot, RootIs

LEMMA RootReleased ==
  ASSUME RootTypes, NEW c \in Containers, root' = Unlocked(c)
  PROVE  root' \in Roots /\ IsFiniteSet(root'.created) /\ RootUnlocked(c)
<1>1. root \in Roots /\ IsFiniteSet(root.created) BY DEF RootTypes
<1>2. root' \in Roots BY <1>1 DEF Unlocked, Roots
<1>3. RootUnlocked(c) BY <1>1 DEF Unlocked, Roots, RootUnlocked, RootIs
<1>4. QED BY <1>1, <1>2, <1>3 DEF RootUnlocked, RootIs

CheckRootStep(c) ==
  /\ entry[c].at = "off" /\ SameRoot
  /\ \/ EntryIs(c, "over", ~root.marker, entry[c].dataset, entry[c].session)
     \/ /\ ~root.marker => ~root.lockFile
        /\ EntryIs(c, "checked", ~root.marker, entry[c].dataset, entry[c].session)

LEMMA CheckRootFlat ==
  ASSUME RootTypes, NEW c \in Containers, CheckRoot(c)
  PROVE  RootTypes' /\ CheckRootStep(c)
<1>0. root' \in Roots /\ IsFiniteSet(root'.created) /\ SameRoot
  BY RootKept DEF CheckRoot
<1>1. entry[c] \in Entries /\ root \in Roots BY DEF RootTypes
<1> DEFINE fresh == ~root.marker
           to == IF fresh /\ ~(~root.lockFile /\ ~root.lease /\ root.created = {})
                 THEN "over" ELSE "checked"
           e == [entry[c] EXCEPT !.fresh = fresh, !.at = to]
<1>2. /\ e \in Entries
      /\ e.at = to /\ e.fresh = fresh
      /\ e.dataset = entry[c].dataset /\ e.session = entry[c].session
  BY <1>1 DEF Entries, Stages
<1>3. entry[c].at = "off" /\ entry' = [entry EXCEPT ![c] = e] BY DEF CheckRoot
<1>4. to = "over" \/ (to = "checked" /\ (~root.marker => ~root.lockFile)) OBVIOUS
<1> HIDE DEF e, to
<1>5. entry' \in [Containers -> Entries] /\ EntryIs(c, e.at, e.fresh, e.dataset, e.session)
  BY <1>2, <1>3, EntryChanged
<1>6. EntryIs(c, to, ~root.marker, entry[c].dataset, entry[c].session) BY <1>2, <1>5
<1>7. CheckRootStep(c) BY <1>0, <1>3, <1>4, <1>6 DEF CheckRootStep
<1>8. QED BY <1>0, <1>5, <1>7 DEF RootTypes

OpenLockStep(c) ==
  /\ entry[c].at = "checked"
  /\ \/ Moved(c, "over") /\ SameRoot
     \/ /\ ~(entry[c].fresh <=> root.lockFile)
        /\ Moved(c, "locked")
        /\ RootIs(TRUE, root.marker, root.dataset, root.lease, root.owner,
                  root.created, root.lost)

LEMMA OpenLockFlat ==
  ASSUME RootTypes, NEW c \in Containers, OpenLock(c)
  PROVE  RootTypes' /\ OpenLockStep(c)
<1>1. root \in Roots /\ IsFiniteSet(root.created) BY DEF RootTypes
<1>0. entry[c].fresh \in BOOLEAN /\ root.lockFile \in BOOLEAN BY DEF RootTypes, Entries, Roots
<1>2. CASE MovesTo(c, "over") /\ UNCHANGED root
  BY <1>2, EntryMoves, RootKept DEF OpenLock, OpenLockStep, RootTypes, Stages
<1>3. CASE /\ ~(entry[c].fresh = root.lockFile)
           /\ MovesTo(c, "locked")
           /\ root' = [root EXCEPT !.lockFile = TRUE, !.flock = @ \cup {c}]
  <2>1. root' \in Roots BY <1>1, <1>3 DEF Roots
  <2>2. RootIs(TRUE, root.marker, root.dataset, root.lease, root.owner, root.created, root.lost)
    BY <1>1, <1>3 DEF Roots, RootIs
  <2>3. IsFiniteSet(root'.created) BY <1>1, <2>2 DEF RootIs
  <2>4. QED BY <1>0, <1>3, <2>1, <2>2, <2>3, EntryMoves DEF OpenLock, OpenLockStep, RootTypes,
       Stages
<1>4. QED BY <1>2, <1>3 DEF OpenLock


MakeLeaseStep(c) ==
  /\ entry[c].at = "locked"
  /\ \/ /\ ~root.lease /\ Moved(c, "leased")
        /\ RootIs(root.lockFile, root.marker, root.dataset, TRUE, root.owner,
                  root.created, root.lost)
     \/ Moved(c, "over") /\ RootUnlocked(c)

LEMMA MakeLeaseFlat ==
  ASSUME RootTypes, NEW c \in Containers, MakeLease(c)
  PROVE  RootTypes' /\ MakeLeaseStep(c)
<1>1. root \in Roots /\ IsFiniteSet(root.created) BY DEF RootTypes
<1>2. CASE /\ ~root.lease /\ Moves(c, "locked", "leased")
           /\ root' = [root EXCEPT !.lease = TRUE]
  <2>1. root' \in Roots BY <1>1, <1>2 DEF Roots
  <2>2. RootIs(root.lockFile, root.marker, root.dataset, TRUE, root.owner,
               root.created, root.lost)
    BY <1>1, <1>2 DEF Roots, RootIs
  <2>3. IsFiniteSet(root'.created) BY <1>1, <2>2 DEF RootIs
  <2>4. QED BY <1>2, <2>1, <2>2, <2>3, EntryMoves DEF Moves, MakeLeaseStep, RootTypes, Stages
<1>3. CASE Moves(c, "locked", "over") /\ root' = Unlocked(c)
  BY <1>3, EntryMoves, RootReleased DEF Moves, MakeLeaseStep, RootTypes, Stages
<1>4. QED BY <1>2, <1>3 DEF MakeLease

WriteOwnerStep(c) ==
  /\ entry[c].at = "leased"
  /\ \/ /\ Moved(c, "owned")
        /\ RootIs(root.lockFile, root.marker, root.dataset, root.lease, c,
                  root.created, root.lost)
     \/ /\ Moved(c, "over")
        /\ RootIs(root.lockFile, root.marker, root.dataset, FALSE,
                  IF root.owner = c THEN NoOne ELSE root.owner, root.created, root.lost)

LEMMA WriteOwnerFlat ==
  ASSUME RootTypes, NEW c \in Containers, WriteOwner(c)
  PROVE  RootTypes' /\ WriteOwnerStep(c)
<1>1. root \in Roots /\ IsFiniteSet(root.created) BY DEF RootTypes
<1>2. CASE Moves(c, "leased", "owned") /\ root' = [root EXCEPT !.owner = c]
  <2>1. root' \in Roots BY <1>1, <1>2 DEF Roots
  <2>2. RootIs(root.lockFile, root.marker, root.dataset, root.lease, c,
               root.created, root.lost)
    BY <1>1, <1>2 DEF Roots, RootIs
  <2>3. IsFiniteSet(root'.created) BY <1>1, <2>2 DEF RootIs
  <2>4. QED BY <1>2, <2>1, <2>2, <2>3, EntryMoves DEF Moves, WriteOwnerStep, RootTypes, Stages
<1>3. CASE Moves(c, "leased", "over") /\ root' = [Unlocked(c) EXCEPT !.lease = FALSE]
  <2>1. root' \in Roots BY <1>1, <1>3 DEF Roots, Unlocked
  <2>2. RootIs(root.lockFile, root.marker, root.dataset, FALSE,
               IF root.owner = c THEN NoOne ELSE root.owner, root.created, root.lost)
    BY <1>1, <1>3 DEF Roots, RootIs, Unlocked
  <2>3. IsFiniteSet(root'.created) BY <1>1, <2>2 DEF RootIs
  <2>4. QED BY <1>3, <2>1, <2>2, <2>3, EntryMoves DEF Moves, WriteOwnerStep, RootTypes, Stages
<1>4. QED BY <1>2, <1>3 DEF WriteOwner

ReadMarkerStep(c) ==
  /\ entry[c].at = "owned"
  /\ \/ /\ EntryIs(c, "opened", entry[c].fresh,
                   IF entry[c].fresh THEN NoDataset ELSE root.dataset, entry[c].session)
        /\ RootIs(root.lockFile, TRUE, root.dataset, root.lease, root.owner,
                  root.created, root.lost)
     \/ Moved(c, "over") /\ RootUnlocked(c)

LEMMA ReadMarkerFlat ==
  ASSUME RootTypes, NEW c \in Containers, ReadMarker(c)
  PROVE  RootTypes' /\ ReadMarkerStep(c)
<1>1. entry[c] \in Entries /\ root \in Roots /\ IsFiniteSet(root.created) BY DEF RootTypes
<1> DEFINE data == IF entry[c].fresh THEN NoDataset ELSE root.dataset
           e == [entry[c] EXCEPT !.at = "opened", !.dataset = data]
<1>2. CASE /\ entry[c].at = "owned"
           /\ entry' = [entry EXCEPT ![c].at = "opened", ![c].dataset = data]
           /\ root' = [root EXCEPT !.marker = TRUE]
  <2>1. root' \in Roots BY <1>1, <1>2 DEF Roots
  <2>2. RootIs(root.lockFile, TRUE, root.dataset, root.lease, root.owner,
               root.created, root.lost)
    BY <1>1, <1>2 DEF Roots, RootIs
  <2>3. IsFiniteSet(root'.created) BY <1>1, <2>2 DEF RootIs
  <2>4. data \in Nat BY <1>1 DEF Roots, NoDataset
  <2>5. entry' = [entry EXCEPT ![c] = e] BY <1>2
  <2> HIDE DEF data
  <2>6. /\ e \in Entries
        /\ e.at = "opened" /\ e.fresh = entry[c].fresh
        /\ e.dataset = data /\ e.session = entry[c].session
    BY <1>1, <2>4 DEF Entries, Stages
  <2> HIDE DEF e
  <2>7. entry' \in [Containers -> Entries] /\ EntryIs(c, e.at, e.fresh, e.dataset, e.session)
    BY <2>5, <2>6, EntryChanged
  <2>8. EntryIs(c, "opened", entry[c].fresh, data, entry[c].session) BY <2>6, <2>7
  <2>9. QED BY <1>2, <2>1, <2>2, <2>3, <2>7, <2>8 DEF data, ReadMarkerStep, RootTypes
<1>3. CASE Moves(c, "owned", "over") /\ root' = Unlocked(c)
  BY <1>3, EntryMoves, RootReleased DEF Moves, ReadMarkerStep, RootTypes, Stages
<1>4. QED BY <1>2, <1>3 DEF ReadMarker

StartDatasetStep(c) ==
  /\ entry[c].at = "opened"
  /\ \/ Moved(c, "ending") /\ SameRoot
     \/ /\ EntryIs(c, "starting", entry[c].fresh, entry[c].dataset, Chosen(c))
        /\ RootIs(root.lockFile, root.marker, root.dataset, root.lease, root.owner,
                  root.created \cup {Chosen(c)}, root.lost)

LEMMA StartDatasetFlat ==
  ASSUME RootTypes, NEW c \in Containers, StartDataset(c)
  PROVE  RootTypes' /\ StartDatasetStep(c)
<1>1. entry[c] \in Entries /\ root \in Roots /\ IsFiniteSet(root.created) BY DEF RootTypes
<1>2. CASE Moves(c, "opened", "ending") /\ UNCHANGED root
  BY <1>2, EntryMoves, RootKept DEF Moves, StartDatasetStep, RootTypes, Stages
<1>3. CASE /\ entry[c].at = "opened"
           /\ entry' = [entry EXCEPT ![c].at = "starting", ![c].session = Chosen(c)]
           /\ root' = [root EXCEPT !.created = @ \cup {Chosen(c)}]
  <2>1. PICK d \in Nat : d = Chosen(c) BY ChosenType
  <2> DEFINE e == [entry[c] EXCEPT !.at = "starting", !.session = d]
  <2>2. root' \in Roots BY <1>1, <1>3, <2>1 DEF Roots
  <2>3. RootIs(root.lockFile, root.marker, root.dataset, root.lease, root.owner,
               root.created \cup {d}, root.lost)
    BY <1>1, <1>3, <2>1 DEF Roots, RootIs
  <2>4. IsFiniteSet(root'.created) BY <1>1, <2>3, FS_AddElement DEF RootIs
  <2>5. entry' = [entry EXCEPT ![c] = e] BY <1>3, <2>1
  <2>6. /\ e \in Entries
        /\ e.at = "starting" /\ e.fresh = entry[c].fresh
        /\ e.dataset = entry[c].dataset /\ e.session = d
    BY <1>1 DEF Entries, Stages
  <2> HIDE DEF e
  <2>7. entry' \in [Containers -> Entries] /\ EntryIs(c, e.at, e.fresh, e.dataset, e.session)
    BY <2>5, <2>6, EntryChanged
  <2>8. EntryIs(c, "starting", entry[c].fresh, entry[c].dataset, d) BY <2>6, <2>7
  <2>9. QED BY <1>3, <2>1, <2>2, <2>3, <2>4, <2>7, <2>8 DEF StartDatasetStep, RootTypes
<1>4. QED BY <1>2, <1>3 DEF StartDataset


StartEndsStep(c) ==
  /\ entry[c].at = "starting"
  /\ \/ /\ \E to \in {"started", "ending"} : Moved(c, to)
        /\ RootIs(root.lockFile, TRUE,
                  IF entry[c].dataset = NoDataset THEN entry[c].session ELSE root.dataset,
                  root.lease, root.owner, root.created, root.lost)
     \/ /\ Moved(c, "ending")
        /\ RootIs(root.lockFile, root.marker, root.dataset, root.lease, root.owner,
                  root.created, root.lost \/ entry[c].dataset = NoDataset)

LEMMA StartEndsFlat ==
  ASSUME RootTypes, NEW c \in Containers, StartEnds(c)
  PROVE  RootTypes' /\ StartEndsStep(c)
<1>1. entry[c] \in Entries /\ root \in Roots /\ IsFiniteSet(root.created) BY DEF RootTypes
<1>2. CASE /\ entry[c].at = "starting"
           /\ \E to \in {"started", "ending"} : MovesTo(c, to)
           /\ root' = Remember(c, entry[c].session)
  <2>1. PICK to \in {"started", "ending"} : MovesTo(c, to) BY <1>2
  <2>2. to \in Stages BY <2>1 DEF Stages
  <2>3. entry' \in [Containers -> Entries] /\ Moved(c, to) BY <2>1, <2>2, EntryMoves
  <2>4. entry[c].session \in Nat BY <1>1 DEF Entries
  <2>5. root' \in Roots BY <1>1, <1>2, <2>4 DEF Roots, Remember
  <2>6. RootIs(root.lockFile, TRUE,
               IF entry[c].dataset = NoDataset THEN entry[c].session ELSE root.dataset,
               root.lease, root.owner, root.created, root.lost)
    BY <1>1, <1>2 DEF Roots, RootIs, Remember
  <2>7. IsFiniteSet(root'.created) BY <1>1, <2>6 DEF RootIs
  <2>8. QED BY <1>2, <2>1, <2>3, <2>5, <2>6, <2>7 DEF StartEndsStep, RootTypes
<1>3. CASE /\ entry[c].at = "starting" /\ MovesTo(c, "ending")
           /\ root' = [root EXCEPT !.lost = @ \/ entry[c].dataset = NoDataset]
  <2>1. root' \in Roots BY <1>1, <1>3 DEF Roots
  <2>2. RootIs(root.lockFile, root.marker, root.dataset, root.lease, root.owner,
               root.created, root.lost \/ entry[c].dataset = NoDataset)
    BY <1>1, <1>3 DEF Roots, RootIs
  <2>3. IsFiniteSet(root'.created) BY <1>1, <2>2 DEF RootIs
  <2>4. QED BY <1>3, <2>1, <2>2, <2>3, EntryMoves DEF StartEndsStep, RootTypes, Stages
<1>4. QED BY <1>2, <1>3 DEF StartEnds

ServesStep(c) ==
  /\ SameRoot
  /\ \/ entry[c].at = "started" /\ Moved(c, "serving")
     \/ entry[c].at = "serving" /\ Moved(c, "ending")

LEMMA ServesFlat ==
  ASSUME RootTypes, NEW c \in Containers, Publish(c) \/ LeaveLoop(c)
  PROVE  RootTypes' /\ ServesStep(c)
BY EntryMoves, RootKept DEF Publish, LeaveLoop, Moves, ServesStep, RootTypes, Stages

CloseRootStep(c) == entry[c].at = "ending" /\ Moved(c, "over") /\ RootUnlocked(c)

LEMMA CloseRootFlat ==
  ASSUME RootTypes, NEW c \in Containers, CloseRoot(c)
  PROVE  RootTypes' /\ CloseRootStep(c)
BY EntryMoves, RootReleased DEF CloseRoot, Moves, CloseRootStep, RootTypes, Stages

KillStep(c) ==
  /\ Moved(c, "over")
  /\ RootIs(root.lockFile, root.marker, root.dataset, root.lease, root.owner, root.created,
            root.lost \/ (entry[c].at = "starting" /\ entry[c].dataset = NoDataset))

LEMMA KillFlat ==
  ASSUME RootTypes, NEW c \in Containers, Kill(c)
  PROVE  RootTypes' /\ KillStep(c)
<1>1. root \in Roots /\ IsFiniteSet(root.created) BY DEF RootTypes
<1>2. /\ MovesTo(c, "over")
      /\ root' = [root EXCEPT !.kills = @ + 1, !.flock = @ \ {c},
                   !.lost = @ \/ (entry[c].at = "starting" /\ entry[c].dataset = NoDataset)]
  BY DEF Kill
<1>3. root' \in Roots
  <2>1. PICK lost \in BOOLEAN :
          lost <=> root.lost \/ (entry[c].at = "starting" /\ entry[c].dataset = NoDataset)
    OBVIOUS
  <2>2. root.lost \in BOOLEAN BY <1>1 DEF Roots
  <2>3. lost = (root.lost \/ (entry[c].at = "starting" /\ entry[c].dataset = NoDataset))
    BY ONLY <2>1, <2>2, Zenon
  <2>4. PICK kills \in Nat : kills = root.kills + 1 BY <1>1 DEF Roots
  <2>5. PICK flock \in SUBSET Containers : flock = root.flock \ {c} BY <1>1 DEF Roots
  <2>6. root' = [root EXCEPT !.kills = kills, !.flock = flock, !.lost = lost]
    BY <1>2, <2>3, <2>4, <2>5
  <2>7. QED BY <1>1, <2>1, <2>6 DEF Roots
<1>4. RootIs(root.lockFile, root.marker, root.dataset, root.lease, root.owner, root.created,
             root.lost \/ (entry[c].at = "starting" /\ entry[c].dataset = NoDataset))
  BY <1>1, <1>2 DEF Roots, RootIs
<1>5. IsFiniteSet(root'.created) BY <1>1, <1>4 DEF RootIs
<1>6. QED BY <1>2, <1>3, <1>4, <1>5, EntryMoves DEF KillStep, RootTypes, Stages

RecoverStep ==
  /\ \A c \in Containers : entry[c].at \in {"off", "over"}
  /\ entry' = entry
  /\ RootIs(root.lockFile, root.marker, root.dataset, FALSE, NoOne, root.created, root.lost)

LEMMA RecoverFlat ==
  ASSUME RootTypes, Recover
  PROVE  RootTypes' /\ RecoverStep
<1>1. root \in Roots /\ IsFiniteSet(root.created) BY DEF RootTypes
<1>2. root' \in Roots BY <1>1 DEF Recover, Roots
<1>3. RootIs(root.lockFile, root.marker, root.dataset, FALSE, NoOne, root.created, root.lost)
  BY <1>1 DEF Recover, Roots, RootIs
<1>4. QED BY <1>1, <1>2, <1>3 DEF Recover, RecoverStep, RootTypes, RootIs

(* One step of a container on the root.                                     *)
ContainerStep(c) ==
  \/ CheckRootStep(c) \/ OpenLockStep(c) \/ MakeLeaseStep(c) \/ WriteOwnerStep(c)
  \/ ReadMarkerStep(c) \/ StartDatasetStep(c) \/ StartEndsStep(c) \/ ServesStep(c)
  \/ CloseRootStep(c) \/ KillStep(c)

LEMMA StepsAreFlat ==
  ASSUME RootTypes, ContainerNext
  PROVE  RootTypes' /\ (RecoverStep \/ \E c \in Containers : ContainerStep(c))
<1>1. CASE Recover BY <1>1, RecoverFlat
<1>2. ASSUME NEW c \in Containers,
             \/ CheckRoot(c) \/ OpenLock(c) \/ MakeLease(c) \/ WriteOwner(c) \/ ReadMarker(c)
             \/ StartDataset(c) \/ StartEnds(c) \/ Publish(c) \/ LeaveLoop(c) \/ CloseRoot(c)
             \/ Kill(c)
      PROVE  RootTypes' /\ ContainerStep(c)
  BY <1>2, CheckRootFlat, OpenLockFlat, MakeLeaseFlat, WriteOwnerFlat, ReadMarkerFlat,
     StartDatasetFlat, StartEndsFlat, ServesFlat, CloseRootFlat, KillFlat DEF ContainerStep
<1>3. QED BY <1>1, <1>2 DEF ContainerNext

(* The lease changes hands only through nobody.                             *)
LEMMA LeasesKept ==
  ASSUME RootInv, RootTypes', RecoverStep \/ \E c \in Containers : ContainerStep(c)
  PROVE  Leases'
<1> USE ContainerAssumption
<1> USE DEF RootInv, RootIs, Leases, Holding, Inside
<1>1. CASE RecoverStep BY <1>1 DEF RecoverStep
<1>2. ASSUME NEW c \in Containers, CheckRootStep(c) PROVE Leases'
  BY <1>2 DEF CheckRootStep, EntryIs, Moved, SameRoot
<1>3. ASSUME NEW c \in Containers, OpenLockStep(c) PROVE Leases'
  BY <1>3 DEF OpenLockStep, EntryIs, Moved, SameRoot
<1>4. ASSUME NEW c \in Containers, MakeLeaseStep(c) PROVE Leases'
  BY <1>4 DEF MakeLeaseStep, EntryIs, Moved, RootUnlocked
<1>5. ASSUME NEW c \in Containers, WriteOwnerStep(c) PROVE Leases'
  BY <1>5 DEF WriteOwnerStep, EntryIs, Moved
<1>6. ASSUME NEW c \in Containers, ReadMarkerStep(c) PROVE Leases'
  BY <1>6 DEF ReadMarkerStep, EntryIs, Moved, RootUnlocked
<1>7. ASSUME NEW c \in Containers, StartDatasetStep(c) PROVE Leases'
  BY <1>7 DEF StartDatasetStep, EntryIs, Moved, SameRoot
<1>8. ASSUME NEW c \in Containers, StartEndsStep(c) PROVE Leases'
  BY <1>8 DEF StartEndsStep, EntryIs, Moved
<1>9. ASSUME NEW c \in Containers, ServesStep(c) PROVE Leases'
  BY <1>9 DEF ServesStep, EntryIs, Moved, SameRoot
<1>10. ASSUME NEW c \in Containers, CloseRootStep(c) PROVE Leases'
  BY <1>10 DEF CloseRootStep, EntryIs, Moved, RootUnlocked
<1>11. ASSUME NEW c \in Containers, KillStep(c) PROVE Leases'
  BY <1>11 DEF KillStep, EntryIs, Moved
<1>12. QED BY <1>1, <1>2, <1>3, <1>4, <1>5, <1>6, <1>7, <1>8, <1>9, <1>10,
     <1>11 DEF ContainerStep

(* A container that took the root for a new one stays the first.            *)
LEMMA FirstsKept ==
  ASSUME RootInv, RootTypes', RecoverStep \/ \E c \in Containers : ContainerStep(c)
  PROVE  Firsts'
<1> USE ContainerAssumption
<1> USE DEF RootInv, RootIs, Leases, Firsts, Past, Holding, Inside
<1>1. CASE RecoverStep BY <1>1 DEF RecoverStep
<1>2. ASSUME NEW c \in Containers, CheckRootStep(c) PROVE Firsts'
  BY <1>2 DEF CheckRootStep, EntryIs, Moved, SameRoot
<1>3. ASSUME NEW c \in Containers, OpenLockStep(c) PROVE Firsts'
  BY <1>3 DEF OpenLockStep, EntryIs, Moved, SameRoot
<1>4. ASSUME NEW c \in Containers, MakeLeaseStep(c) PROVE Firsts'
  BY <1>4 DEF MakeLeaseStep, EntryIs, Moved, RootUnlocked
<1>5. ASSUME NEW c \in Containers, WriteOwnerStep(c) PROVE Firsts'
  BY <1>5 DEF WriteOwnerStep, EntryIs, Moved
<1>6. ASSUME NEW c \in Containers, ReadMarkerStep(c) PROVE Firsts'
  BY <1>6 DEF ReadMarkerStep, EntryIs, Moved, RootUnlocked
<1>7. ASSUME NEW c \in Containers, StartDatasetStep(c) PROVE Firsts'
  BY <1>7 DEF StartDatasetStep, EntryIs, Moved, SameRoot
<1>8. ASSUME NEW c \in Containers, StartEndsStep(c) PROVE Firsts'
  BY <1>8 DEF StartEndsStep, EntryIs, Moved
<1>9. ASSUME NEW c \in Containers, ServesStep(c) PROVE Firsts'
  BY <1>9 DEF ServesStep, EntryIs, Moved, SameRoot
<1>10. ASSUME NEW c \in Containers, CloseRootStep(c) PROVE Firsts'
  BY <1>10 DEF CloseRootStep, EntryIs, Moved, RootUnlocked
<1>11. ASSUME NEW c \in Containers, KillStep(c) PROVE Firsts'
  BY <1>11 DEF KillStep, EntryIs, Moved
<1>12. QED BY <1>1, <1>2, <1>3, <1>4, <1>5, <1>6, <1>7, <1>8, <1>9, <1>10,
     <1>11 DEF ContainerStep

(* A dataset that was created is remembered, about to be, or lost.          *)
LEMMA DatasetsKept ==
  ASSUME RootInv, RootTypes', RecoverStep \/ \E c \in Containers : ContainerStep(c)
  PROVE  Datasets'
<1> USE ContainerAssumption
<1> USE DEF RootInv, RootIs, Leases, Firsts, Datasets, Past, Holding, Inside, NoDataset
<1>1. CASE RecoverStep BY <1>1 DEF RecoverStep
<1>2. ASSUME NEW c \in Containers, CheckRootStep(c) PROVE Datasets'
  BY <1>2 DEF CheckRootStep, EntryIs, Moved, SameRoot
<1>3. ASSUME NEW c \in Containers, OpenLockStep(c) PROVE Datasets'
  BY <1>3 DEF OpenLockStep, EntryIs, Moved, SameRoot
<1>4. ASSUME NEW c \in Containers, MakeLeaseStep(c) PROVE Datasets'
  BY <1>4 DEF MakeLeaseStep, EntryIs, Moved, RootUnlocked
<1>5. ASSUME NEW c \in Containers, WriteOwnerStep(c) PROVE Datasets'
  BY <1>5 DEF WriteOwnerStep, EntryIs, Moved
<1>6. ASSUME NEW c \in Containers, ReadMarkerStep(c) PROVE Datasets'
  BY <1>6 DEF ReadMarkerStep, EntryIs, Moved, RootUnlocked
<1>7. ASSUME NEW c \in Containers, StartDatasetStep(c) PROVE Datasets'
  <2>1. CASE Moved(c, "ending") /\ SameRoot
    BY <1>7, <2>1 DEF StartDatasetStep, EntryIs, Moved, SameRoot
  <2>2. CASE /\ EntryIs(c, "starting", entry[c].fresh, entry[c].dataset, Chosen(c))
             /\ RootIs(root.lockFile, root.marker, root.dataset, root.lease, root.owner,
                       root.created \cup {Chosen(c)}, root.lost)
    <3>1. PICK d \in Nat \ {0} : d = Chosen(c) BY ChosenType DEF NoDataset
    <3>2. entry[c].at = "opened" /\ root.marker /\ entry[c].dataset = root.dataset
      BY <1>7 DEF StartDatasetStep
    <3>3. \A x \in Containers : entry[x].at # "starting" BY <3>2
    <3>4. root.dataset # 0 => d = root.dataset BY <3>1, <3>2 DEF Chosen
    <3>5. ~root.lost => root.created \cup {d} = {d} BY <3>3, <3>4
    <3>6. root'.created = root.created \cup {d} BY <2>2, <3>1
    <3>7. entry'[c].at = "starting" /\ entry'[c].session = d BY <2>2, <3>1 DEF EntryIs
    <3>8. QED BY <2>2, <3>1, <3>2, <3>3, <3>5, <3>6, <3>7 DEF EntryIs
  <2>3. QED BY <1>7, <2>1, <2>2 DEF StartDatasetStep
<1>8. ASSUME NEW c \in Containers, StartEndsStep(c) PROVE Datasets'
  BY <1>8 DEF StartEndsStep, EntryIs, Moved
<1>9. ASSUME NEW c \in Containers, ServesStep(c) PROVE Datasets'
  BY <1>9 DEF ServesStep, EntryIs, Moved, SameRoot
<1>10. ASSUME NEW c \in Containers, CloseRootStep(c) PROVE Datasets'
  BY <1>10 DEF CloseRootStep, EntryIs, Moved, RootUnlocked
<1>11. ASSUME NEW c \in Containers, KillStep(c) PROVE Datasets'
  BY <1>11 DEF KillStep, EntryIs, Moved
<1>12. QED BY <1>1, <1>2, <1>3, <1>4, <1>5, <1>6, <1>7, <1>8, <1>9, <1>10,
     <1>11 DEF ContainerStep


LEMMA RootInvInit == ContainerInit => RootInv
<1> SUFFICES ASSUME ContainerInit PROVE RootInv OBVIOUS
<1> USE ContainerAssumption
<1>1. RootTypes
  BY FS_EmptySet DEF ContainerInit, RootTypes, Entries, Roots, Stages, NoDataset
<1>2. \A c \in Containers : entry[c].at = "off" /\ ~entry[c].fresh BY DEF ContainerInit
<1>3. /\ ~root.lease /\ root.owner = NoOne /\ ~root.lockFile /\ ~root.marker
      /\ root.created = {} /\ root.dataset = NoDataset
  BY DEF ContainerInit
<1>4. Leases BY <1>2, <1>3 DEF Leases, Holding, Inside
<1>5. Firsts BY <1>2, <1>3 DEF Firsts, Past, Holding, Inside
<1>6. Datasets BY <1>2, <1>3 DEF Datasets, NoDataset
<1>7. QED BY <1>1, <1>4, <1>5, <1>6 DEF RootInv

LEMMA RootInvNext == RootInv /\ [ContainerNext]_containerVars => RootInv'
<1>1. ASSUME RootInv, ContainerNext PROVE RootInv'
  <2>1. RootTypes' /\ (RecoverStep \/ \E c \in Containers : ContainerStep(c))
    BY <1>1, StepsAreFlat DEF RootInv
  <2>2. QED BY <1>1, <2>1, LeasesKept, FirstsKept, DatasetsKept DEF RootInv
<1>2. ASSUME RootInv, UNCHANGED containerVars PROVE RootInv'
  BY <1>2 DEF containerVars, RootInv, RootTypes, Leases, Firsts, Datasets
<1>3. QED BY <1>1, <1>2

LEMMA RootInvKeeps == RootInv => DataRootIsKept
<1> SUFFICES ASSUME RootInv PROVE DataRootIsKept OBVIOUS
<1>1. ContainerTypeOK
  BY DEF RootInv, RootTypes, Entries, Roots, Datasets, ContainerTypeOK
<1>2. OneOwner BY DEF RootInv, Leases, Holding, OneOwner
<1>3. ASSUME ~root.lost PROVE Cardinality(root.created) <= 1
  <2>1. root.created = {} \/ \E d \in root.created : root.created = {d}
    BY <1>3 DEF RootInv, Datasets
  <2>2. QED BY <2>1, FS_EmptySet, FS_Singleton
<1>4. QED BY <1>1, <1>2, <1>3 DEF DataRootIsKept, DatasetIsReopened

(* The root of the containers' data is kept: one of them at a time, on the  *)
(* one dataset there is.                                                    *)
THEOREM DataRootKept == ContainerSpec => []DataRootIsKept
BY RootInvInit, RootInvNext, RootInvKeeps, PTL DEF ContainerSpec


-----------------------------------------------------------------------------
(* The audio captures.  A job's own fields say how far its thread is; the   *)
(* request and the close say which helper may still run.                    *)

JobRecords == [status : {"starting", "capturing"} \cup Terminal,
               helper : {"running", "finished", "failed", "dead"},
               thread : {"none", "waits", "finished", "failed", "writes", "ended"},
               registered : BOOLEAN, file : {"none"} \cup Terminal]

CaptureTypes ==
  /\ jobs \in Seq(JobRecords)
  /\ request \in [op : {"none", "start", "cancel", "join", "stop"}, job : Nat]
  /\ closing \in [by : {"nobody", "stop", "signal"}, left : SUBSET Nat,
                  step : {"none", "mark", "kill", "join"}]

(* The thread of a job is told one end, and writes that one.                *)
Settled(j) ==
  /\ j.thread = "none" =>
       /\ ~j.registered
       /\ \/ j.status = "starting" /\ j.file = "none"
          \/ j.status = "cancelled" /\ j.file = "cancelled" /\ j.helper = "dead"
  /\ j.thread \in {"waits", "finished", "failed"} =>
       j.status \in {"capturing", "cancelled"} /\ j.file = "none"
  /\ j.thread \in {"writes", "ended"} => j.status \in Terminal
  /\ j.thread = "writes" => j.file = "none"
  /\ j.thread = "ended" => j.file = j.status
  /\ j.thread \in {"finished", "failed", "writes", "ended"} => j.helper # "running"
  /\ ~j.registered /\ j.helper = "running" => j.status \in {"starting", "capturing"}

(* A helper that runs is that of a registered job, or of one that starts.   *)
Owned ==
  \A i \in Jobs : jobs[i].helper = "running" =>
    jobs[i].registered \/ (request.op = "start" /\ request.job = i)

(* While the session is open a helper runs for a job that captures, that    *)
(* starts or that a request cancels; so there is one at most.               *)
Alone ==
  ~Closed =>
    /\ \A i \in Jobs : jobs[i].helper = "running" /\ jobs[i].registered =>
         jobs[i].status = "capturing" \/ (request.op = "cancel" /\ request.job = i)
    /\ \A i, j \in Jobs : jobs[i].helper = "running" /\ jobs[j].helper = "running" => i = j

Requests ==
  /\ request.op \in {"start", "cancel", "join"} => request.job \in Jobs
  /\ request.op \in {"cancel", "join"} => jobs[request.job].registered
  /\ request.op = "start" =>
       /\ ~jobs[request.job].registered
       /\ jobs[request.job].status = "starting" \/ jobs[request.job].thread # "none"

(* What a close still has to run, and what it has run.                      *)
Closings ==
  /\ ~Closed => closing.left = {}
  /\ closing.left \subseteq Registered
  /\ \A i \in Jobs : NextCloser(i) /\ closing.step = "join" => jobs[i].helper # "running"
  /\ closing.by = "stop" =>
       /\ request.op = "stop"
       /\ \A i \in Jobs : jobs[i].helper = "running" => i \in closing.left

CaptureInv ==
  CaptureTypes /\ (\A i \in Jobs : Settled(jobs[i])) /\ Owned /\ Alone /\ Requests /\ Closings

LEMMA JobsDomain == CaptureTypes => Jobs = 1..Len(jobs) /\ Len(jobs) \in Nat
BY LenProperties DEF CaptureTypes, Jobs

LEMMA JobTyped ==
  ASSUME CaptureTypes, NEW i \in Jobs
  PROVE  jobs[i] \in JobRecords
BY JobsDomain, ElementOfSeq DEF CaptureTypes

(* A step on one job.                                                       *)
JobIs(i, status, helper, thread, registered, file) ==
  /\ Jobs' = Jobs
  /\ \A k \in Jobs :
       /\ jobs'[k].status = IF k = i THEN status ELSE jobs[k].status
       /\ jobs'[k].helper = IF k = i THEN helper ELSE jobs[k].helper
       /\ jobs'[k].thread = IF k = i THEN thread ELSE jobs[k].thread
       /\ jobs'[k].registered <=> IF k = i THEN registered ELSE jobs[k].registered
       /\ jobs'[k].file = IF k = i THEN file ELSE jobs[k].file

LEMMA JobBecomes ==
  ASSUME CaptureTypes, NEW i \in Jobs, NEW e \in JobRecords, Become(i, e)
  PROVE  /\ jobs' \in Seq(JobRecords)
         /\ JobIs(i, e.status, e.helper, e.thread, e.registered, e.file)
<1>1. jobs \in Seq(JobRecords) BY DEF CaptureTypes
<1>2. i \in 1..Len(jobs) BY JobsDomain
<1>3. jobs' = [jobs EXCEPT ![i] = e] BY DEF Become
<1>4. /\ jobs' \in Seq(JobRecords) /\ Len(jobs') = Len(jobs)
      /\ \A k \in 1..Len(jobs) : jobs'[k] = IF k = i THEN e ELSE jobs[k]
  BY ONLY <1>1, <1>2, <1>3, ExceptSeq
<1>5. Jobs' = Jobs BY <1>1, <1>4, LenProperties DEF Jobs
<1>6. \A k \in Jobs : jobs'[k] = IF k = i THEN e ELSE jobs[k] BY <1>4, JobsDomain
<1>7. JobIs(i, e.status, e.helper, e.thread, e.registered, e.file)
  BY ONLY <1>5, <1>6 DEF JobIs
<1>8. QED BY <1>4, <1>7

(* Nothing else changes with a job, or only the request, or the close.      *)
Elsewhere == request' = request /\ closing' = closing

StatusIs(i, status) ==
  JobIs(i, status, jobs[i].helper, jobs[i].thread, jobs[i].registered, jobs[i].file)
HelperIs(i, helper) ==
  JobIs(i, jobs[i].status, helper, jobs[i].thread, jobs[i].registered, jobs[i].file)

LEMMA StatusBecomes ==
  ASSUME CaptureTypes, NEW i \in Jobs, NEW status \in {"starting", "capturing"} \cup Terminal,
         Become(i, [jobs[i] EXCEPT !.status = status])
  PROVE  jobs' \in Seq(JobRecords) /\ StatusIs(i, status)
<1> DEFINE e == [jobs[i] EXCEPT !.status = status]
<1>1. jobs[i] \in JobRecords BY JobTyped
<1>2. /\ e \in JobRecords
      /\ e.status = status /\ e.helper = jobs[i].helper /\ e.thread = jobs[i].thread
      /\ e.registered = jobs[i].registered /\ e.file = jobs[i].file
  BY <1>1 DEF JobRecords
<1>3. Become(i, e) OBVIOUS
<1> HIDE DEF e
<1>4. QED BY <1>2, <1>3, JobBecomes DEF StatusIs

LEMMA HelperBecomes ==
  ASSUME CaptureTypes, NEW i \in Jobs, NEW helper \in {"running", "finished", "failed", "dead"},
         Become(i, [jobs[i] EXCEPT !.helper = helper])
  PROVE  jobs' \in Seq(JobRecords) /\ HelperIs(i, helper)
<1> DEFINE e == [jobs[i] EXCEPT !.helper = helper]
<1>1. jobs[i] \in JobRecords BY JobTyped
<1>2. /\ e \in JobRecords
      /\ e.status = jobs[i].status /\ e.helper = helper /\ e.thread = jobs[i].thread
      /\ e.registered = jobs[i].registered /\ e.file = jobs[i].file
  BY <1>1 DEF JobRecords
<1>3. Become(i, e) OBVIOUS
<1> HIDE DEF e
<1>4. QED BY <1>2, <1>3, JobBecomes DEF HelperIs

-----------------------------------------------------------------------------
(* The steps of a start. *)

LaunchStep ==
  /\ request.op = "none" /\ ~Closed /\ ~Busy
  /\ \E n \in Nat :
       /\ n \notin Jobs /\ Jobs' = Jobs \cup {n}
       /\ jobs'[n] = Fresh
       /\ \A k \in Jobs : jobs'[k] = jobs[k]
       /\ request' = [op |-> "start", job |-> n]
  /\ closing' = closing

LEMMA LaunchFlat ==
  ASSUME CaptureTypes, LaunchHelper
  PROVE  CaptureTypes' /\ LaunchStep
<1>1. jobs \in Seq(JobRecords) BY DEF CaptureTypes
<1>2. Fresh \in JobRecords BY DEF Fresh, JobRecords
<1>3. PICK f \in JobRecords : f = Fresh BY <1>2
<1>4. /\ jobs' \in Seq(JobRecords) /\ Len(jobs') = Len(jobs) + 1
      /\ \A k \in 1..Len(jobs) : jobs'[k] = jobs[k]
      /\ jobs'[Len(jobs) + 1] = Fresh
  BY <1>1, <1>3, AppendProperties DEF LaunchHelper
<1>5. Jobs = 1..Len(jobs) /\ Len(jobs) \in Nat BY JobsDomain
<1>6. Jobs' = 1..(Len(jobs) + 1) BY <1>4, LenProperties DEF Jobs
<1>7. PICK n \in Nat : n = Len(jobs) + 1 BY <1>5
<1>8. n \notin Jobs /\ Jobs' = Jobs \cup {n} BY <1>5, <1>6, <1>7
<1>9. request' = [op |-> "start", job |-> n] /\ closing' = closing
  BY <1>7 DEF LaunchHelper
<1>10. request.op = "none" /\ ~Closed /\ ~Busy BY DEF LaunchHelper, NoRequest
<1>11. CaptureTypes' BY <1>4, <1>7, <1>9 DEF CaptureTypes
<1>12. jobs'[n] = Fresh /\ \A k \in Jobs : jobs'[k] = jobs[k] BY <1>4, <1>5, <1>7
<1>13. QED BY <1>8, <1>9, <1>10, <1>11, <1>12 DEF LaunchStep

ReadyStep(i) ==
  /\ request.op = "start" /\ request.job = i /\ jobs[i].status = "starting"
  /\ JobIs(i, "capturing", jobs[i].helper, "waits", jobs[i].registered, jobs[i].file)
  /\ Elsewhere

LEMMA ReadyFlat ==
  ASSUME CaptureTypes, Requests, HelperReady
  PROVE  CaptureTypes' /\ \E i \in Jobs : ReadyStep(i)
<1>1. PICK i \in Jobs : i = request.job BY DEF Requests, HelperReady
<1> DEFINE e == [jobs[i] EXCEPT !.status = "capturing", !.thread = "waits"]
<1>2. jobs[i] \in JobRecords BY JobTyped
<1>3. /\ e \in JobRecords
      /\ e.status = "capturing" /\ e.helper = jobs[i].helper /\ e.thread = "waits"
      /\ e.registered = jobs[i].registered /\ e.file = jobs[i].file
  BY <1>2 DEF JobRecords
<1>4. Become(i, e) /\ Elsewhere /\ request.op = "start" /\ jobs[i].status = "starting"
  BY <1>1 DEF HelperReady, Elsewhere
<1> HIDE DEF e
<1>5. /\ jobs' \in Seq(JobRecords)
      /\ JobIs(i, "capturing", jobs[i].helper, "waits", jobs[i].registered, jobs[i].file)
  BY <1>3, <1>4, JobBecomes
<1>6. QED BY <1>1, <1>4, <1>5 DEF CaptureTypes, ReadyStep, Elsewhere

RegisterStep(i) ==
  /\ request.op = "start" /\ request.job = i /\ jobs[i].status # "starting"
  /\ JobIs(i, jobs[i].status, jobs[i].helper, jobs[i].thread, TRUE, jobs[i].file)
  /\ request' = NoRequest /\ closing' = closing

LEMMA RegisterFlat ==
  ASSUME CaptureTypes, Requests, RegisterJob
  PROVE  CaptureTypes' /\ \E i \in Jobs : RegisterStep(i)
<1>1. PICK i \in Jobs : i = request.job BY DEF Requests, RegisterJob
<1> DEFINE e == [jobs[i] EXCEPT !.registered = TRUE]
<1>2. jobs[i] \in JobRecords BY JobTyped
<1>3. /\ e \in JobRecords
      /\ e.status = jobs[i].status /\ e.helper = jobs[i].helper
      /\ e.thread = jobs[i].thread /\ e.registered = TRUE /\ e.file = jobs[i].file
  BY <1>2 DEF JobRecords
<1>4. /\ Become(i, e) /\ request' = NoRequest /\ closing' = closing
      /\ request.op = "start" /\ jobs[i].status # "starting"
  BY <1>1 DEF RegisterJob
<1> HIDE DEF e
<1>5. /\ jobs' \in Seq(JobRecords)
      /\ JobIs(i, jobs[i].status, jobs[i].helper, jobs[i].thread, TRUE, jobs[i].file)
  BY <1>3, <1>4, JobBecomes
<1>6. QED BY <1>1, <1>4, <1>5 DEF CaptureTypes, RegisterStep, NoRequest

FailStep(i) ==
  /\ request.op = "start" /\ request.job = i /\ jobs[i].status = "starting"
  /\ JobIs(i, "cancelled", "dead", jobs[i].thread, jobs[i].registered, "cancelled")
  /\ request' = NoRequest /\ closing' = closing

LEMMA FailFlat ==
  ASSUME CaptureTypes, Requests, StartFails
  PROVE  CaptureTypes' /\ \E i \in Jobs : FailStep(i)
<1>1. PICK i \in Jobs : i = request.job BY DEF Requests, StartFails
<1> DEFINE e == [jobs[i] EXCEPT !.status = "cancelled", !.helper = "dead",
                                !.file = "cancelled"]
<1>2. jobs[i] \in JobRecords BY JobTyped
<1>3. /\ e \in JobRecords
      /\ e.status = "cancelled" /\ e.helper = "dead" /\ e.thread = jobs[i].thread
      /\ e.registered = jobs[i].registered /\ e.file = "cancelled"
  BY <1>2 DEF JobRecords, Terminal
<1>4. /\ Become(i, e) /\ request' = NoRequest /\ closing' = closing
      /\ request.op = "start" /\ jobs[i].status = "starting"
  BY <1>1 DEF StartFails
<1> HIDE DEF e
<1>5. /\ jobs' \in Seq(JobRecords)
      /\ JobIs(i, "cancelled", "dead", jobs[i].thread, jobs[i].registered, "cancelled")
  BY <1>3, <1>4, JobBecomes
<1>6. QED BY <1>1, <1>4, <1>5 DEF CaptureTypes, FailStep, NoRequest


-----------------------------------------------------------------------------
(* The steps of a helper and of the thread that waits for it. *)

EndStep(i) ==
  /\ jobs[i].helper = "running" /\ Elsewhere
  /\ HelperIs(i, "finished") \/ HelperIs(i, "failed")

LEMMA EndFlat ==
  ASSUME CaptureTypes, NEW i \in Jobs, HelperEnds(i)
  PROVE  CaptureTypes' /\ EndStep(i)
<1>1. PICK end \in {"finished", "failed"} : Become(i, [jobs[i] EXCEPT !.helper = end])
  BY DEF HelperEnds
<1>2. jobs' \in Seq(JobRecords) /\ HelperIs(i, end) BY <1>1, HelperBecomes
<1>3. QED BY <1>1, <1>2 DEF HelperEnds, CaptureTypes, EndStep, Elsewhere

CollectStep(i) ==
  /\ jobs[i].thread = "waits" /\ Elsewhere
  /\ \E helper, thread \in {"finished", "failed", "dead"} :
       /\ thread # "dead"
       /\ JobIs(i, jobs[i].status, helper, thread, jobs[i].registered, jobs[i].file)

LEMMA CollectFlat ==
  ASSUME CaptureTypes, NEW i \in Jobs, Collect(i)
  PROVE  CaptureTypes' /\ CollectStep(i)
<1>1. jobs[i] \in JobRecords BY JobTyped
<1>2. jobs[i].thread = "waits" /\ Elsewhere BY DEF Collect, Elsewhere
<1>3. CASE jobs[i].helper = "finished" /\ Become(i, [jobs[i] EXCEPT !.thread = "finished"])
  <2> DEFINE e == [jobs[i] EXCEPT !.thread = "finished"]
  <2>1. /\ e \in JobRecords
        /\ e.status = jobs[i].status /\ e.helper = "finished" /\ e.thread = "finished"
        /\ e.registered = jobs[i].registered /\ e.file = jobs[i].file
    BY <1>1, <1>3 DEF JobRecords
  <2>2. Become(i, e) BY <1>3
  <2> HIDE DEF e
  <2>3. /\ jobs' \in Seq(JobRecords)
        /\ JobIs(i, jobs[i].status, "finished", "finished", jobs[i].registered, jobs[i].file)
    BY <2>1, <2>2, JobBecomes
  <2>4. QED BY <1>2, <2>3 DEF CaptureTypes, CollectStep, Elsewhere
<1>4. CASE Become(i, [jobs[i] EXCEPT !.thread = "failed",
                        !.helper = IF @ = "running" THEN "dead" ELSE @])
  <2>1. PICK h \in {"finished", "failed", "dead"} :
          h = IF jobs[i].helper = "running" THEN "dead" ELSE jobs[i].helper
    BY <1>1 DEF JobRecords
  <2> DEFINE e == [jobs[i] EXCEPT !.thread = "failed", !.helper = h]
  <2>2. /\ e \in JobRecords
        /\ e.status = jobs[i].status /\ e.helper = h /\ e.thread = "failed"
        /\ e.registered = jobs[i].registered /\ e.file = jobs[i].file
    BY <1>1 DEF JobRecords
  <2>3. Become(i, e) BY <1>4, <2>1
  <2> HIDE DEF e
  <2>4. /\ jobs' \in Seq(JobRecords)
        /\ JobIs(i, jobs[i].status, h, "failed", jobs[i].registered, jobs[i].file)
    BY <2>2, <2>3, JobBecomes
  <2>5. QED BY <1>2, <2>4 DEF CaptureTypes, CollectStep, Elsewhere
<1>5. QED BY <1>3, <1>4 DEF Collect

Concluded(j) ==
  IF j.thread = "failed" THEN MarkedFailed(j.status)
  ELSE IF j.status = "capturing" THEN "complete" ELSE j.status

ConcludeStep(i) ==
  /\ jobs[i].thread \in {"finished", "failed"} /\ Elsewhere
  /\ JobIs(i, Concluded(jobs[i]), jobs[i].helper, "writes", jobs[i].registered, jobs[i].file)

LEMMA ConcludeFlat ==
  ASSUME CaptureTypes, NEW i \in Jobs, Conclude(i)
  PROVE  CaptureTypes' /\ ConcludeStep(i)
<1>1. jobs[i] \in JobRecords BY JobTyped
<1>2. jobs[i].thread \in {"finished", "failed"} /\ Elsewhere BY DEF Conclude, Elsewhere
<1>3. PICK status \in {"starting", "capturing"} \cup Terminal : status = Concluded(jobs[i])
  BY <1>1 DEF Concluded, MarkedFailed, JobRecords, Terminal
<1> DEFINE e == [jobs[i] EXCEPT !.thread = "writes", !.status = status]
<1>4. /\ e \in JobRecords
      /\ e.status = status /\ e.helper = jobs[i].helper /\ e.thread = "writes"
      /\ e.registered = jobs[i].registered /\ e.file = jobs[i].file
  BY <1>1 DEF JobRecords
<1>5. Become(i, e) BY <1>3 DEF Conclude, Concluded
<1> HIDE DEF e
<1>6. /\ jobs' \in Seq(JobRecords)
      /\ JobIs(i, status, jobs[i].helper, "writes", jobs[i].registered, jobs[i].file)
  BY <1>4, <1>5, JobBecomes
<1>7. QED BY <1>2, <1>3, <1>6 DEF CaptureTypes, ConcludeStep, Elsewhere

WriteStep(i) ==
  /\ jobs[i].thread = "writes" /\ Elsewhere
  /\ JobIs(i, jobs[i].status, jobs[i].helper, "ended", jobs[i].registered, jobs[i].status)

LEMMA WriteFlat ==
  ASSUME CaptureTypes, NEW i \in Jobs, Settled(jobs[i]), WriteResult(i)
  PROVE  CaptureTypes' /\ WriteStep(i)
<1>1. jobs[i] \in JobRecords BY JobTyped
<1>2. jobs[i].thread = "writes" /\ Elsewhere BY DEF WriteResult, Elsewhere
<1>3. jobs[i].status \in Terminal BY <1>2 DEF Settled
<1> DEFINE e == [jobs[i] EXCEPT !.thread = "ended", !.file = jobs[i].status]
<1>4. /\ e \in JobRecords
      /\ e.status = jobs[i].status /\ e.helper = jobs[i].helper /\ e.thread = "ended"
      /\ e.registered = jobs[i].registered /\ e.file = jobs[i].status
  BY <1>1, <1>3 DEF JobRecords
<1>5. Become(i, e) BY DEF WriteResult
<1> HIDE DEF e
<1>6. /\ jobs' \in Seq(JobRecords)
      /\ JobIs(i, jobs[i].status, jobs[i].helper, "ended", jobs[i].registered, jobs[i].status)
  BY <1>4, <1>5, JobBecomes
<1>7. QED BY <1>2, <1>6 DEF CaptureTypes, WriteStep, Elsewhere

-----------------------------------------------------------------------------
(* The steps of a cancellation and of the close. *)

MarkStep(i) ==
  /\ request.op = "none" /\ ~Closed /\ jobs[i].registered
  /\ StatusIs(i, Marked(jobs[i].status))
  /\ request' = [op |-> "cancel", job |-> i] /\ closing' = closing

LEMMA MarkedTyped ==
  ASSUME CaptureTypes, NEW i \in Jobs
  PROVE  /\ Marked(jobs[i].status) \in {"starting", "capturing"} \cup Terminal
         /\ Killed(jobs[i].helper) \in {"running", "finished", "failed", "dead"}
BY JobTyped DEF JobRecords, Terminal, Marked, Killed

LEMMA MarkFlat ==
  ASSUME CaptureTypes, NEW i \in Jobs, RequestCancel(i)
  PROVE  CaptureTypes' /\ MarkStep(i)
<1>1. PICK status \in {"starting", "capturing"} \cup Terminal : status = Marked(jobs[i].status)
  BY MarkedTyped
<1>2. Become(i, [jobs[i] EXCEPT !.status = status]) BY <1>1 DEF RequestCancel
<1>3. jobs' \in Seq(JobRecords) /\ StatusIs(i, status) BY <1>2, StatusBecomes
<1>4. i \in Nat BY JobsDomain
<1>5. QED BY <1>1, <1>3, <1>4 DEF RequestCancel, CaptureTypes, MarkStep, NoRequest, Registered

EndHelperStep(i) ==
  /\ request.op = "cancel" /\ request.job = i
  /\ HelperIs(i, Killed(jobs[i].helper))
  /\ request' = [op |-> "join", job |-> i] /\ closing' = closing

LEMMA EndHelperFlat ==
  ASSUME CaptureTypes, Requests, KillForRequest
  PROVE  CaptureTypes' /\ \E i \in Jobs : EndHelperStep(i)
<1>1. PICK i \in Jobs : i = request.job BY DEF Requests, KillForRequest
<1>2. PICK helper \in {"running", "finished", "failed",
     "dead"} : helper = Killed(jobs[i].helper)
  BY MarkedTyped
<1>3. Become(i, [jobs[i] EXCEPT !.helper = helper]) BY <1>1, <1>2 DEF KillForRequest
<1>4. jobs' \in Seq(JobRecords) /\ HelperIs(i, helper) BY <1>3, HelperBecomes
<1>5. request' = [op |-> "join", job |-> i]
  BY <1>1 DEF KillForRequest, CaptureTypes
<1>6. i \in Nat BY JobsDomain
<1>7. QED BY <1>1, <1>2, <1>4, <1>5, <1>6 DEF KillForRequest, CaptureTypes, EndHelperStep

JobsKept == jobs' = jobs /\ Jobs' = Jobs

JoinStep == request.op = "join" /\ JobsKept /\ request' = NoRequest /\ closing' = closing

LEMMA JoinFlat ==
  ASSUME CaptureTypes, JoinForRequest
  PROVE  CaptureTypes' /\ JoinStep
BY DEF JoinForRequest, JoinStep, CaptureTypes, NoRequest, JobsKept, Jobs

CloseStep ==
  /\ ~Closed /\ JobsKept
  /\ closing'.left = Registered /\ closing'.step = "mark"
  /\ \/ /\ closing'.by = "stop" /\ request.op = "none"
        /\ request' = [op |-> "stop", job |-> 0]
     \/ closing'.by = "signal" /\ request' = request

LEMMA CloseFlat ==
  ASSUME CaptureTypes, NEW by \in {"stop", "signal"}, Close(by)
  PROVE  CaptureTypes' /\ CloseStep
<1>1. Registered \in SUBSET Nat BY JobsDomain DEF Registered
<1>2. closing' = [by |-> by, left |-> Registered, step |-> "mark"] BY DEF Close
<1>3. request' \in [op : {"none", "start", "cancel", "join", "stop"}, job : Nat]
  BY DEF Close, CaptureTypes
<1>4. CaptureTypes' BY <1>1, <1>2, <1>3 DEF Close, CaptureTypes
<1>5. CloseStep BY <1>2 DEF Close, CloseStep, NoRequest, JobsKept, Jobs
<1>6. QED BY <1>4, <1>5

CloserStep(i) ==
  /\ NextCloser(i) /\ request' = request /\ closing'.by = closing.by
  /\ \/ /\ closing'.left = closing.left /\ closing'.step = "kill"
        /\ StatusIs(i, Marked(jobs[i].status))
     \/ /\ closing'.left = closing.left /\ closing'.step = "join"
        /\ HelperIs(i, Killed(jobs[i].helper))
     \/ /\ closing'.left = closing.left \ {i} /\ closing.step = "join"
        /\ closing'.step = "mark" /\ JobsKept

LEMMA CloserFlat ==
  ASSUME CaptureTypes, NEW i \in Jobs, CloseNext(i)
  PROVE  CaptureTypes' /\ CloserStep(i)
<1>0. /\ NextCloser(i) /\ request' = request
      /\ closing \in [by : {"nobody", "stop", "signal"}, left : SUBSET Nat,
                     step : {"none", "mark", "kill", "join"}]
  BY DEF CloseNext, CaptureTypes
<1>1. CASE /\ Become(i, [jobs[i] EXCEPT !.status = Marked(@)])
           /\ closing' = [closing EXCEPT !.step = "kill"]
  <2>1. PICK status \in {"starting", "capturing"} \cup Terminal :
          status = Marked(jobs[i].status)
    BY MarkedTyped
  <2>2. Become(i, [jobs[i] EXCEPT !.status = status]) BY <1>1, <2>1
  <2>3. jobs' \in Seq(JobRecords) /\ StatusIs(i, status) BY <2>2, StatusBecomes
  <2>4. QED BY <1>0, <1>1, <2>1, <2>3 DEF CaptureTypes, CloserStep
<1>2. CASE /\ Become(i, [jobs[i] EXCEPT !.helper = Killed(@)])
           /\ closing' = [closing EXCEPT !.step = "join"]
  <2>1. PICK helper \in {"running", "finished", "failed", "dead"} :
          helper = Killed(jobs[i].helper)
    BY MarkedTyped
  <2>2. Become(i, [jobs[i] EXCEPT !.helper = helper]) BY <1>2, <2>1
  <2>3. jobs' \in Seq(JobRecords) /\ HelperIs(i, helper) BY <2>2, HelperBecomes
  <2>4. QED BY <1>0, <1>2, <2>1, <2>3 DEF CaptureTypes, CloserStep
<1>3. CASE /\ closing.step = "join" /\ jobs' = jobs
           /\ closing' = [closing EXCEPT !.step = "mark", !.left = @ \ {i}]
  BY <1>0, <1>3 DEF CaptureTypes, CloserStep, JobsKept, Jobs
<1>4. QED BY <1>1, <1>2, <1>3 DEF CloseNext


CaptureStep ==
  \/ LaunchStep \/ JoinStep \/ CloseStep
  \/ \E i \in Jobs :
       \/ ReadyStep(i) \/ RegisterStep(i) \/ FailStep(i) \/ EndStep(i) \/ CollectStep(i)
       \/ ConcludeStep(i) \/ WriteStep(i) \/ MarkStep(i) \/ EndHelperStep(i) \/ CloserStep(i)

LEMMA CapturesAreFlat ==
  ASSUME CaptureInv, CapturesNext
  PROVE  CaptureTypes' /\ CaptureStep
<1> USE DEF CaptureInv
<1>1. CASE LaunchHelper BY <1>1, LaunchFlat DEF CaptureStep
<1>2. CASE HelperReady BY <1>2, ReadyFlat DEF CaptureStep
<1>3. CASE RegisterJob BY <1>3, RegisterFlat DEF CaptureStep
<1>4. CASE StartFails BY <1>4, FailFlat DEF CaptureStep
<1>5. ASSUME NEW i \in Jobs, HelperEnds(i) PROVE CaptureTypes' /\ CaptureStep
  BY <1>5, EndFlat DEF CaptureStep
<1>6. ASSUME NEW i \in Jobs, Collect(i) PROVE CaptureTypes' /\ CaptureStep
  BY <1>6, CollectFlat DEF CaptureStep
<1>7. ASSUME NEW i \in Jobs, Conclude(i) PROVE CaptureTypes' /\ CaptureStep
  BY <1>7, ConcludeFlat DEF CaptureStep
<1>8. ASSUME NEW i \in Jobs, WriteResult(i) PROVE CaptureTypes' /\ CaptureStep
  BY <1>8, WriteFlat DEF CaptureStep
<1>9. ASSUME NEW i \in Jobs, RequestCancel(i) PROVE CaptureTypes' /\ CaptureStep
  BY <1>9, MarkFlat DEF CaptureStep
<1>10. ASSUME NEW i \in Jobs, CloseNext(i) PROVE CaptureTypes' /\ CaptureStep
  BY <1>10, CloserFlat DEF CaptureStep
<1>11. CASE KillForRequest BY <1>11, EndHelperFlat DEF CaptureStep
<1>12. CASE JoinForRequest BY <1>12, JoinFlat DEF CaptureStep
<1>13. ASSUME NEW by \in {"stop", "signal"}, Close(by) PROVE CaptureTypes' /\ CaptureStep
  BY <1>13, CloseFlat DEF CaptureStep
<1>14. QED BY <1>1, <1>2, <1>3, <1>4, <1>5, <1>6, <1>7, <1>8, <1>9, <1>10, <1>11, <1>12, <1>13
           DEF CapturesNext

(* A step leaves each job with one end, and its thread told of it.          *)
LEMMA SettledKept ==
  ASSUME CaptureInv, CaptureTypes', CaptureStep
  PROVE  (\A j \in Jobs : Settled(jobs[j]))'
<1> USE DEF CaptureInv, Elsewhere, NoRequest, JobsKept, Settled, Closings, Registered,
     NextCloser, Terminal
<1>1. CASE LaunchStep BY <1>1 DEF LaunchStep, Fresh, Busy
<1>2. CASE JoinStep BY <1>2 DEF JoinStep
<1>3. CASE CloseStep BY <1>3 DEF CloseStep
<1>4. ASSUME NEW i \in Jobs, ReadyStep(i) PROVE (\A j \in Jobs : Settled(jobs[j]))'
  <2>1. jobs[i] \in JobRecords BY JobTyped
  <2>2. jobs[i].thread = "none" /\ jobs[i].file = "none"
    BY <1>4, <2>1 DEF ReadyStep, JobRecords
  <2>3. QED BY <1>4, <2>2 DEF ReadyStep, JobIs
<1>5. ASSUME NEW i \in Jobs, RegisterStep(i) PROVE (\A j \in Jobs : Settled(jobs[j]))'
  <2>1. jobs[i].thread # "none" BY <1>5 DEF RegisterStep, Requests
  <2>2. QED BY <1>5, <2>1 DEF RegisterStep, JobIs
<1>6. ASSUME NEW i \in Jobs, FailStep(i) PROVE (\A j \in Jobs : Settled(jobs[j]))'
  BY <1>6 DEF FailStep, JobIs
<1>7. ASSUME NEW i \in Jobs, EndStep(i) PROVE (\A j \in Jobs : Settled(jobs[j]))'
  BY <1>7 DEF EndStep, HelperIs, JobIs
<1>8. ASSUME NEW i \in Jobs, CollectStep(i) PROVE (\A j \in Jobs : Settled(jobs[j]))'
  BY <1>8 DEF CollectStep, JobIs
<1>9. ASSUME NEW i \in Jobs, ConcludeStep(i) PROVE (\A j \in Jobs : Settled(jobs[j]))'
  BY <1>9 DEF ConcludeStep, Concluded, MarkedFailed, JobIs
<1>10. ASSUME NEW i \in Jobs, WriteStep(i) PROVE (\A j \in Jobs : Settled(jobs[j]))'
  BY <1>10 DEF WriteStep, JobIs
<1>11. ASSUME NEW i \in Jobs, MarkStep(i) PROVE (\A j \in Jobs : Settled(jobs[j]))'
  BY <1>11 DEF MarkStep, StatusIs, JobIs, Marked
<1>12. ASSUME NEW i \in Jobs, EndHelperStep(i) PROVE (\A j \in Jobs : Settled(jobs[j]))'
  BY <1>12 DEF EndHelperStep, HelperIs, JobIs, Killed
<1>13. ASSUME NEW i \in Jobs, CloserStep(i) PROVE (\A j \in Jobs : Settled(jobs[j]))'
  BY <1>13 DEF CloserStep, StatusIs, HelperIs, JobIs, Marked, Killed
<1>14. QED BY <1>1, <1>2, <1>3, <1>4, <1>5, <1>6, <1>7, <1>8, <1>9, <1>10, <1>11, <1>12,
     <1>13 DEF CaptureStep

(* A helper that runs is still that of a registered job or of the start.    *)
LEMMA OwnedKept ==
  ASSUME CaptureInv, CaptureTypes', CaptureStep
  PROVE  Owned'
<1> USE DEF CaptureInv, Elsewhere, NoRequest, JobsKept, Settled, Owned, Requests
<1>1. CASE LaunchStep
  <2>1. PICK n \in Nat : /\ n \notin Jobs /\ Jobs' = Jobs \cup {n}
                         /\ jobs'[n] = Fresh /\ \A k \in Jobs : jobs'[k] = jobs[k]
                         /\ request' = [op |-> "start", job |-> n]
    BY ONLY <1>1 DEF LaunchStep
  <2>2. request.op = "none" BY <1>1 DEF LaunchStep
  <2>3. \A k \in Jobs : jobs[k].helper = "running" => jobs[k].registered BY <2>2
  <2>4. request'.op = "start" /\ request'.job = n BY <2>1
  <2>5. QED BY ONLY <2>1, <2>3, <2>4 DEF Owned
<1>2. CASE JoinStep BY <1>2 DEF JoinStep
<1>3. CASE CloseStep BY <1>3 DEF CloseStep
<1>4. ASSUME NEW i \in Jobs, ReadyStep(i) PROVE Owned'
  BY <1>4 DEF ReadyStep, JobIs
<1>5. ASSUME NEW i \in Jobs, RegisterStep(i) PROVE Owned'
  BY <1>5 DEF RegisterStep, JobIs
<1>6. ASSUME NEW i \in Jobs, FailStep(i) PROVE Owned'
  BY <1>6 DEF FailStep, JobIs
<1>7. ASSUME NEW i \in Jobs, EndStep(i) PROVE Owned'
  BY <1>7 DEF EndStep, HelperIs, JobIs
<1>8. ASSUME NEW i \in Jobs, CollectStep(i) PROVE Owned'
  BY <1>8 DEF CollectStep, JobIs
<1>9. ASSUME NEW i \in Jobs, ConcludeStep(i) PROVE Owned'
  BY <1>9 DEF ConcludeStep, Concluded, MarkedFailed, JobIs
<1>10. ASSUME NEW i \in Jobs, WriteStep(i) PROVE Owned'
  BY <1>10 DEF WriteStep, JobIs
<1>11. ASSUME NEW i \in Jobs, MarkStep(i) PROVE Owned'
  BY <1>11 DEF MarkStep, StatusIs, JobIs, Marked
<1>12. ASSUME NEW i \in Jobs, EndHelperStep(i) PROVE Owned'
  BY <1>12 DEF EndHelperStep, HelperIs, JobIs, Killed
<1>13. ASSUME NEW i \in Jobs, CloserStep(i) PROVE Owned'
  BY <1>13 DEF CloserStep, StatusIs, HelperIs, JobIs, Marked, Killed
<1>14. QED BY <1>1, <1>2, <1>3, <1>4, <1>5, <1>6, <1>7, <1>8, <1>9, <1>10, <1>11, <1>12,
     <1>13 DEF CaptureStep

(* While the session is open one helper runs at most.                       *)
LEMMA AloneKept ==
  ASSUME CaptureInv, CaptureTypes', CaptureStep
  PROVE  Alone'
<1> USE DEF CaptureInv, Elsewhere, NoRequest, JobsKept, Settled, Owned, Alone, Requests,
     Closed, Closings, Registered
<1>1. CASE LaunchStep BY <1>1 DEF LaunchStep, Fresh, Busy
<1>2. CASE JoinStep BY <1>2 DEF JoinStep
<1>3. CASE CloseStep BY <1>3 DEF CloseStep
<1>4. ASSUME NEW i \in Jobs, ReadyStep(i) PROVE Alone'
  BY <1>4 DEF ReadyStep, JobIs
<1>5. ASSUME NEW i \in Jobs, RegisterStep(i) PROVE Alone'
  BY <1>5 DEF RegisterStep, JobIs
<1>6. ASSUME NEW i \in Jobs, FailStep(i) PROVE Alone'
  BY <1>6 DEF FailStep, JobIs
<1>7. ASSUME NEW i \in Jobs, EndStep(i) PROVE Alone'
  BY <1>7 DEF EndStep, HelperIs, JobIs
<1>8. ASSUME NEW i \in Jobs, CollectStep(i) PROVE Alone'
  BY <1>8 DEF CollectStep, JobIs
<1>9. ASSUME NEW i \in Jobs, ConcludeStep(i) PROVE Alone'
  BY <1>9 DEF ConcludeStep, Concluded, MarkedFailed, JobIs
<1>10. ASSUME NEW i \in Jobs, WriteStep(i) PROVE Alone'
  BY <1>10 DEF WriteStep, JobIs
<1>11. ASSUME NEW i \in Jobs, MarkStep(i) PROVE Alone'
  BY <1>11 DEF MarkStep, StatusIs, JobIs, Marked
<1>12. ASSUME NEW i \in Jobs, EndHelperStep(i) PROVE Alone'
  BY <1>12 DEF EndHelperStep, HelperIs, JobIs, Killed
<1>13. ASSUME NEW i \in Jobs, CloserStep(i) PROVE Alone'
  <2>1. Closed BY <1>13 DEF CloserStep, NextCloser
  <2>2. Closed' BY <1>13, <2>1 DEF CloserStep
  <2>3. QED BY <2>2
<1>14. QED BY <1>1, <1>2, <1>3, <1>4, <1>5, <1>6, <1>7, <1>8, <1>9, <1>10, <1>11, <1>12,
     <1>13 DEF CaptureStep

(* The request that is served is about a job of its kind.                   *)
LEMMA RequestsKept ==
  ASSUME CaptureInv, CaptureTypes', CaptureStep
  PROVE  Requests'
<1> USE DEF CaptureInv, Elsewhere, NoRequest, JobsKept, Settled, Requests
<1>1. CASE LaunchStep
  <2>1. PICK n \in Nat : /\ Jobs' = Jobs \cup {n} /\ jobs'[n] = Fresh
                         /\ request' = [op |-> "start", job |-> n]
    BY ONLY <1>1 DEF LaunchStep
  <2>2. request'.op = "start" /\ request'.job = n BY <2>1
  <2>3. jobs'[n].status = "starting" /\ ~jobs'[n].registered BY <2>1 DEF Fresh
  <2>4. QED BY ONLY <2>1, <2>2, <2>3 DEF Requests
<1>2. CASE JoinStep BY <1>2 DEF JoinStep
<1>3. CASE CloseStep BY <1>3 DEF CloseStep
<1>4. ASSUME NEW i \in Jobs, ReadyStep(i) PROVE Requests'
  BY <1>4 DEF ReadyStep, JobIs
<1>5. ASSUME NEW i \in Jobs, RegisterStep(i) PROVE Requests'
  BY <1>5 DEF RegisterStep, JobIs
<1>6. ASSUME NEW i \in Jobs, FailStep(i) PROVE Requests'
  BY <1>6 DEF FailStep, JobIs
<1>7. ASSUME NEW i \in Jobs, EndStep(i) PROVE Requests'
  BY <1>7 DEF EndStep, HelperIs, JobIs
<1>8. ASSUME NEW i \in Jobs, CollectStep(i) PROVE Requests'
  BY <1>8 DEF CollectStep, JobIs
<1>9. ASSUME NEW i \in Jobs, ConcludeStep(i) PROVE Requests'
  BY <1>9 DEF ConcludeStep, Concluded, MarkedFailed, JobIs
<1>10. ASSUME NEW i \in Jobs, WriteStep(i) PROVE Requests'
  BY <1>10 DEF WriteStep, JobIs
<1>11. ASSUME NEW i \in Jobs, MarkStep(i) PROVE Requests'
  BY <1>11 DEF MarkStep, StatusIs, JobIs, Marked
<1>12. ASSUME NEW i \in Jobs, EndHelperStep(i) PROVE Requests'
  BY <1>12 DEF EndHelperStep, HelperIs, JobIs, Killed
<1>13. ASSUME NEW i \in Jobs, CloserStep(i) PROVE Requests'
  <2>1. jobs[i].registered /\ jobs[i].thread # "none" /\ request' = request
    BY <1>13 DEF CloserStep, NextCloser, Closings, Registered
  <2>2. /\ Jobs' = Jobs
        /\ \A k \in Jobs : jobs'[k].registered <=> jobs[k].registered
        /\ \A k \in Jobs : jobs'[k].thread = jobs[k].thread
        /\ \A k \in Jobs \ {i} : jobs'[k].status = jobs[k].status
    BY <1>13 DEF CloserStep, StatusIs, HelperIs, JobIs
  <2>3. QED BY ONLY Requests, <2>1, <2>2 DEF Requests
<1>14. QED BY <1>1, <1>2, <1>3, <1>4, <1>5, <1>6, <1>7, <1>8, <1>9, <1>10, <1>11, <1>12,
     <1>13 DEF CaptureStep

(* The closers that are left cover the helpers that run.                    *)
LEMMA ClosingsKept ==
  ASSUME CaptureInv, CaptureTypes', CaptureStep
  PROVE  Closings'
<1> USE DEF CaptureInv, Elsewhere, NoRequest, JobsKept, Owned, Requests, Closings, Closed,
     Registered, NextCloser
<1>1. CASE LaunchStep BY <1>1 DEF LaunchStep, Fresh, Busy
<1>2. CASE JoinStep BY <1>2 DEF JoinStep
<1>3. CASE CloseStep BY <1>3 DEF CloseStep
<1>4. ASSUME NEW i \in Jobs, ReadyStep(i) PROVE Closings'
  BY <1>4 DEF ReadyStep, JobIs
<1>5. ASSUME NEW i \in Jobs, RegisterStep(i) PROVE Closings'
  BY <1>5 DEF RegisterStep, JobIs
<1>6. ASSUME NEW i \in Jobs, FailStep(i) PROVE Closings'
  BY <1>6 DEF FailStep, JobIs
<1>7. ASSUME NEW i \in Jobs, EndStep(i) PROVE Closings'
  BY <1>7 DEF EndStep, HelperIs, JobIs
<1>8. ASSUME NEW i \in Jobs, CollectStep(i) PROVE Closings'
  BY <1>8 DEF CollectStep, JobIs
<1>9. ASSUME NEW i \in Jobs, ConcludeStep(i) PROVE Closings'
  BY <1>9 DEF ConcludeStep, Concluded, MarkedFailed, JobIs
<1>10. ASSUME NEW i \in Jobs, WriteStep(i) PROVE Closings'
  BY <1>10 DEF WriteStep, JobIs
<1>11. ASSUME NEW i \in Jobs, MarkStep(i) PROVE Closings'
  BY <1>11 DEF MarkStep, StatusIs, JobIs, Marked
<1>12. ASSUME NEW i \in Jobs, EndHelperStep(i) PROVE Closings'
  BY <1>12 DEF EndHelperStep, HelperIs, JobIs, Killed
<1>13. ASSUME NEW i \in Jobs, CloserStep(i) PROVE Closings'
  <2>1. /\ NextCloser(i) /\ request' = request /\ closing'.by = closing.by
        /\ Jobs' = Jobs /\ Registered' = Registered
        /\ \A k \in Jobs : jobs'[k].helper = "running" => jobs[k].helper = "running"
    BY <1>13 DEF CloserStep, StatusIs, HelperIs, JobIs, Killed
  <2>2. Closed /\ Closed' BY <2>1
  <2>3. \A k \in Jobs : NextCloser(k) => k = i
    BY <2>1, JobsDomain
  <2>4. closing'.left \subseteq closing.left BY <1>13 DEF CloserStep
  <2>5. \A k \in Jobs : (closing'.step = "join" /\ NextCloser(k)') => jobs'[k].helper # "running"
    BY <1>13, <2>1, <2>3 DEF CloserStep, HelperIs, JobIs, Killed
  <2>6. closing.by = "stop" =>
          \A k \in Jobs : jobs'[k].helper = "running" => k \in closing'.left
    BY <1>13, <2>1 DEF CloserStep
  <2>7. QED BY <2>1, <2>2, <2>4, <2>5, <2>6
<1>14. QED BY <1>1, <1>2, <1>3, <1>4, <1>5, <1>6, <1>7, <1>8, <1>9, <1>10, <1>11, <1>12,
     <1>13 DEF CaptureStep


LEMMA CaptureInvInit == CapturesInit => CaptureInv
<1> SUFFICES ASSUME CapturesInit PROVE CaptureInv OBVIOUS
<1>1. CaptureTypes BY EmptySeq DEF CapturesInit, CaptureTypes, NoRequest
<1>2. Jobs = {} BY DEF CapturesInit, Jobs
<1>3. request.op = "none" /\ closing.by = "nobody" /\ closing.left = {}
  BY DEF CapturesInit, NoRequest
<1>4. QED BY <1>1, <1>2, <1>3
          DEF CaptureInv, Owned, Alone, Requests, Closings, Closed, Registered, NextCloser

LEMMA CaptureInvNext == CaptureInv /\ [CapturesNext]_captureVars => CaptureInv'
<1>1. ASSUME CaptureInv, CapturesNext PROVE CaptureInv'
  <2>1. CaptureTypes' /\ CaptureStep BY <1>1, CapturesAreFlat
  <2>2. QED BY <1>1, <2>1, SettledKept, OwnedKept, AloneKept, RequestsKept, ClosingsKept
            DEF CaptureInv
<1>2. ASSUME CaptureInv, UNCHANGED captureVars PROVE CaptureInv'
  BY <1>2 DEF captureVars, CaptureInv, CaptureTypes, Owned, Alone, Requests, Closings, Closed,
     Registered, NextCloser, Jobs
<1>3. QED BY <1>1, <1>2

LEMMA CaptureInvSettles == CaptureInv => CapturesAreSettled
<1> SUFFICES ASSUME CaptureInv PROVE CapturesAreSettled OBVIOUS
<1>1. ASSUME NEW i \in Jobs, jobs[i].file # "none"
      PROVE  jobs[i].file = jobs[i].status /\ jobs[i].status \in Terminal
  <2>1. Settled(jobs[i]) /\ jobs[i] \in JobRecords BY JobTyped DEF CaptureInv
  <2>2. QED BY <1>1, <2>1 DEF Settled, JobRecords, Terminal
<1>2. ResultIsFinal BY <1>1 DEF ResultIsFinal
<1>3. CapturesAreOwned BY DEF CaptureInv, Alone, Closings, CapturesAreOwned
<1>4. QED BY <1>2, <1>3 DEF CapturesAreSettled

(* A job has one end, the one in its result, whoever ended it; and no       *)
(* helper outlives the close of its session.                                *)
THEOREM CapturesStaySettled == CapturesSpec => []CapturesAreSettled
BY CaptureInvInit, CaptureInvNext, CaptureInvSettles, PTL DEF CapturesSpec


-----------------------------------------------------------------------------
(* The performance recorder.  Its samples are final when its thread has     *)
(* ended or its state is not "running", which it never becomes again; a     *)
(* caller that has marked it finds it so.                                   *)

RecorderStates == {"none", "running", "complete", "failed", "stopped"}
Samplings == {"none", "waits", "records", "samples", "ended"}
StopStages == {"open", "idle", "nothing", "marked", "joins", "returned", "raised"}

RecorderTypes ==
  /\ recorder \in [state : RecorderStates, samples : Seq(Nat), stopping : BOOLEAN]
  /\ sampling \in Samplings
  /\ stoppers \in [Callers -> [at : StopStages,
                              returned : [state : RecorderStates, count : Nat]]]

(* Nobody stops, samples or reads a recording that is not there.            *)
Beginnings ==
  ~Recorded =>
    /\ recorder.samples = <<>> /\ reader.cursor = 0
    /\ reader.state = "running" /\ reader.more
    /\ \A c \in Callers : stoppers[c].at \in {"open", "idle", "nothing"}

(* Whoever has marked it finds it ended, and it stays so.                   *)
Stops ==
  \A c \in Callers :
    /\ stoppers[c].at \in {"marked", "joins", "returned",
         "raised"} => recorder.state # "running"
    /\ stoppers[c].at = "returned" => sampling = "ended" /\ stoppers[c].returned = Status

(* The thread has room for the sample that it takes.                        *)
Bounded ==
  /\ Len(recorder.samples) <= MaximumSamples
  /\ sampling = "samples" => Len(recorder.samples) < MaximumSamples

(* The reader has a prefix, all of it when it was told so.                  *)
PagesRead ==
  /\ reader.cursor \in 0..Len(recorder.samples)
  /\ reader.rows = SubSeq(recorder.samples, 1, reader.cursor)
  /\ reader.state # "running" => recorder.state # "running"
  /\ ~reader.more /\ reader.state # "running" => reader.cursor = Len(recorder.samples)

RecorderInv == RecorderTypes /\ Beginnings /\ Stops /\ Bounded /\ PagesRead

(* A prefix of the samples is one of more samples.                          *)
LEMMA PrefixOfAppend ==
  ASSUME NEW s \in Seq(Nat), NEW x \in Nat, NEW n \in 0..Len(s)
  PROVE  SubSeq(Append(s, x), 1, n) = SubSeq(s, 1, n)
<1>1. Append(s, x) \in Seq(Nat) /\ Len(Append(s, x)) = Len(s) + 1
      /\ \A i \in 1..Len(s) : Append(s, x)[i] = s[i]
  BY AppendProperties
<1>2. n \in Nat /\ Len(s) \in Nat /\ n <= Len(s) BY LenProperties
<1>3. \A i \in 1..n : s[i] \in Nat BY <1>2, ElementOfSeq
<1>4. \A i \in 1..n : Append(s, x)[i] \in Nat BY <1>1, <1>2, <1>3
<1>5. /\ SubSeq(s, 1, n) \in Seq(Nat) /\ Len(SubSeq(s, 1, n)) = n
      /\ \A i \in 1..n : SubSeq(s, 1, n)[i] = s[i]
  BY <1>2, <1>3, SubSeqProperties
<1>6. /\ SubSeq(Append(s, x), 1, n) \in Seq(Nat) /\ Len(SubSeq(Append(s, x), 1, n)) = n
      /\ \A i \in 1..n : SubSeq(Append(s, x), 1, n)[i] = Append(s, x)[i]
  BY <1>2, <1>4, SubSeqProperties
<1>7. QED BY <1>1, <1>2, <1>5, <1>6, SeqEqual

(* A page of the samples and the prefix before it are a prefix.             *)
LEMMA PageExtends ==
  ASSUME NEW s \in Seq(Nat), NEW n \in 0..Len(s), NEW m \in n..Len(s)
  PROVE  /\ SubSeq(s, 1, n) \o SubSeq(s, n + 1, m) = SubSeq(s, 1, m)
         /\ n + Len(SubSeq(s, n + 1, m)) = m
<1>1. n \in Nat /\ m \in Nat /\ Len(s) \in Nat /\ n <= m /\ m <= Len(s) BY LenProperties
<1>2. SubSeq(s, 1, n) \o SubSeq(s, n + 1, m) = SubSeq(s, 1, m)
  BY <1>1, ConcatAdjacentSubSeq
<1>3. \A i \in (n + 1)..m : s[i] \in Nat BY <1>1, ElementOfSeq
<1>4. Len(SubSeq(s, n + 1, m)) = m - n BY <1>1, <1>3, SubSeqProperties
<1>5. QED BY <1>1, <1>2, <1>4

LEMMA StatusTyped == RecorderTypes => Status \in [state : RecorderStates, count : Nat]
BY LenProperties DEF RecorderTypes, Status

LEMMA RecorderInvInit == RecorderInit => RecorderInv
<1> SUFFICES ASSUME RecorderInit PROVE RecorderInv OBVIOUS
<1> USE RecorderAssumption
<1>1. recorder.state = "none" /\ recorder.samples = <<>> /\ Len(recorder.samples) = 0
  BY DEF RecorderInit
<1>2. Status \in [state : RecorderStates, count : Nat]
  BY <1>1 DEF Status, RecorderStates
<1>3. RecorderTypes
  <2>1. recorder \in [state : RecorderStates, samples : Seq(Nat), stopping : BOOLEAN]
    BY EmptySeq DEF RecorderInit, RecorderStates
  <2>2. stoppers \in [Callers -> [at : StopStages,
                                 returned : [state : RecorderStates, count : Nat]]]
    BY <1>2 DEF RecorderInit, StopStages, Callers
  <2>3. QED BY <2>1, <2>2 DEF RecorderInit, RecorderTypes, Samplings
<1>4. \A c \in Callers : stoppers[c].at \in {"open", "idle"} BY DEF RecorderInit, Callers
<1>5. reader.rows = <<>> /\ reader.cursor = 0 /\ reader.more /\ reader.state = "running"
      /\ sampling = "none"
  BY DEF RecorderInit
<1>6. Beginnings BY <1>1, <1>4, <1>5 DEF Beginnings
<1>7. Stops BY <1>4 DEF Stops
<1>8. Bounded BY <1>1, <1>5 DEF Bounded
<1>9. SubSeq(recorder.samples, 1, 0) = <<>> BY SubSeqEmpty
<1>10. PagesRead BY <1>1, <1>5, <1>9 DEF PagesRead
<1>11. QED BY <1>3, <1>6, <1>7, <1>8, <1>10 DEF RecorderInv

-----------------------------------------------------------------------------
LEMMA RecorderTypesKept ==
  ASSUME RecorderTypes, RecorderNext
  PROVE  RecorderTypes'
<1> USE DEF RecorderTypes, RecorderStates, Samplings
<1>1. CASE StartRecording
  <2>1. <<1>> \in Seq(Nat) OBVIOUS
  <2>2. QED BY <1>1, <2>1 DEF StartRecording
<1>2. CASE CloseLists BY <1>2 DEF CloseLists, StopStages, Callers
<1>3. CASE Tick BY <1>3 DEF Tick, Ends
<1>4. CASE RecordOnce BY <1>4 DEF RecordOnce
<1>5. CASE SampleTaken
  <2>1. recorder.samples \in Seq(Nat) OBVIOUS
  <2>2. Len(recorder.samples) + 1 \in Nat BY <2>1, LenProperties
  <2>3. PICK s \in Seq(Nat) : s = Append(recorder.samples, Len(recorder.samples) + 1)
    BY <2>1, <2>2, AppendProperties
  <2>4. QED BY <1>5, <2>3 DEF SampleTaken
<1>6. CASE SampleFails BY <1>6 DEF SampleFails
<1>7. ASSUME NEW c \in Callers, StopMarks(c) PROVE RecorderTypes'
  BY <1>7 DEF StopMarks, StopStages
<1>8. ASSUME NEW c \in Callers, StopSignals(c) PROVE RecorderTypes'
  BY <1>8 DEF StopSignals, StopStages
<1>9. ASSUME NEW c \in Callers, StopReturns(c) PROVE RecorderTypes'
  <2>1. PICK r \in [state : RecorderStates, count : Nat] : r = Status BY StatusTyped
  <2>2. QED BY <1>9, <2>1 DEF StopReturns, StopStages
<1>10. CASE Read BY <1>10 DEF Read
<1>11. QED BY <1>1, <1>2, <1>3, <1>4, <1>5, <1>6, <1>7, <1>8, <1>9, <1>10 DEF RecorderNext

(* Nothing is said of a recording before it is there.                       *)
LEMMA BeginningsKept ==
  ASSUME RecorderInv, RecorderTypes', RecorderNext
  PROVE  Beginnings'
<1> USE DEF RecorderInv, RecorderTypes, RecorderStates, Samplings, Recorded, Beginnings,
     StopStages, Callers
<1>1. CASE StartRecording BY <1>1 DEF StartRecording, Recorded, LockFree
<1>2. CASE CloseLists BY <1>2 DEF CloseLists
<1>3. CASE Tick BY <1>3 DEF Tick, Ends
<1>4. CASE RecordOnce BY <1>4 DEF RecordOnce, HasRoom
<1>5. CASE SampleTaken BY <1>5 DEF SampleTaken
<1>6. CASE SampleFails BY <1>6 DEF SampleFails
<1>7. ASSUME NEW c \in Callers, StopMarks(c) PROVE Beginnings'
  BY <1>7 DEF StopMarks
<1>8. ASSUME NEW c \in Callers, StopSignals(c) PROVE Beginnings'
  BY <1>8 DEF StopSignals
<1>9. ASSUME NEW c \in Callers, StopReturns(c) PROVE Beginnings'
  BY <1>9 DEF StopReturns
<1>10. CASE Read BY <1>10 DEF Read
<1>11. QED BY <1>1, <1>2, <1>3, <1>4, <1>5, <1>6, <1>7, <1>8, <1>9, <1>10 DEF RecorderNext

(* What a stop has said stays so.                                           *)
LEMMA StopsKept ==
  ASSUME RecorderInv, RecorderTypes', RecorderNext
  PROVE  Stops'
<1> USE DEF RecorderInv, RecorderTypes, RecorderStates, Samplings, Recorded, Beginnings,
     Stops, StopStages, Callers, Status
<1>1. CASE StartRecording BY <1>1 DEF StartRecording, Recorded, LockFree
<1>2. CASE CloseLists BY <1>2 DEF CloseLists
<1>3. CASE Tick BY <1>3 DEF Tick, Ends
<1>4. CASE RecordOnce BY <1>4 DEF RecordOnce, HasRoom
<1>5. CASE SampleTaken BY <1>5 DEF SampleTaken
<1>6. CASE SampleFails BY <1>6 DEF SampleFails
<1>7. ASSUME NEW c \in Callers, StopMarks(c) PROVE Stops'
  BY <1>7 DEF StopMarks
<1>8. ASSUME NEW c \in Callers, StopSignals(c) PROVE Stops'
  BY <1>8 DEF StopSignals
<1>9. ASSUME NEW c \in Callers, StopReturns(c) PROVE Stops'
  BY <1>9 DEF StopReturns
<1>10. CASE Read BY <1>10 DEF Read
<1>11. QED BY <1>1, <1>2, <1>3, <1>4, <1>5, <1>6, <1>7, <1>8, <1>9, <1>10 DEF RecorderNext

(* The thread samples only where there is room.                             *)
LEMMA BoundedKept ==
  ASSUME RecorderInv, RecorderTypes', RecorderNext
  PROVE  Bounded'
<1> USE RecorderAssumption, LenProperties, AppendProperties DEF RecorderInv, RecorderTypes,
     RecorderStates, Samplings, Recorded, Beginnings, Bounded
<1>1. CASE StartRecording BY <1>1 DEF StartRecording, Recorded, LockFree
<1>2. CASE CloseLists BY <1>2 DEF CloseLists
<1>3. CASE Tick BY <1>3 DEF Tick, Ends
<1>4. CASE RecordOnce
  <2>0. recorder \in [state : RecorderStates, samples : Seq(Nat), stopping : BOOLEAN]
    OBVIOUS
  <2>1. recorder'.samples = recorder.samples
    <3>1. CASE recorder' = recorder BY ONLY <3>1
    <3>2. CASE recorder' = [recorder EXCEPT !.state = "complete", !.stopping = TRUE]
      BY ONLY <2>0, <3>2
    <3>3. QED BY ONLY <1>4, <3>1, <3>2 DEF RecordOnce
  <2>2. sampling' = "samples" => HasRoom BY ONLY <1>4 DEF RecordOnce
  <2>3. QED BY <2>1, <2>2 DEF HasRoom
<1>5. CASE SampleTaken BY <1>5 DEF SampleTaken
<1>6. CASE SampleFails BY <1>6 DEF SampleFails
<1>7. ASSUME NEW c \in Callers, StopMarks(c) PROVE Bounded'
  BY <1>7 DEF StopMarks
<1>8. ASSUME NEW c \in Callers, StopSignals(c) PROVE Bounded'
  BY <1>8 DEF StopSignals
<1>9. ASSUME NEW c \in Callers, StopReturns(c) PROVE Bounded'
  BY <1>9 DEF StopReturns
<1>10. CASE Read BY <1>10 DEF Read
<1>11. QED BY <1>1, <1>2, <1>3, <1>4, <1>5, <1>6, <1>7, <1>8, <1>9, <1>10 DEF RecorderNext

(* The reader has a prefix of the samples, and all when it was told so.     *)
LEMMA PagesReadKept ==
  ASSUME RecorderInv, RecorderTypes', RecorderNext
  PROVE  PagesRead'
<1> USE RecorderAssumption, LenProperties DEF RecorderInv, RecorderTypes, RecorderStates,
     Samplings, Recorded, Beginnings, Bounded, PagesRead
<1>1. CASE StartRecording BY <1>1 DEF StartRecording, Recorded, LockFree
<1>2. CASE CloseLists BY <1>2 DEF CloseLists
<1>3. CASE Tick BY <1>3 DEF Tick, Ends
<1>4. CASE RecordOnce BY <1>4 DEF RecordOnce, HasRoom
<1>5. CASE SampleTaken BY <1>5 DEF SampleTaken
<1>6. CASE SampleFails BY <1>6 DEF SampleFails
<1>7. ASSUME NEW c \in Callers, StopMarks(c) PROVE PagesRead'
  BY <1>7 DEF StopMarks
<1>8. ASSUME NEW c \in Callers, StopSignals(c) PROVE PagesRead'
  BY <1>8 DEF StopSignals
<1>9. ASSUME NEW c \in Callers, StopReturns(c) PROVE PagesRead'
  BY <1>9 DEF StopReturns
<1>10. CASE Read
  <2> DEFINE n == reader.cursor
             m == Least(reader.cursor + PageLimit, Len(recorder.samples))
             next == SubSeq(recorder.samples, n + 1, m)
  <2>1. n \in 0..Len(recorder.samples) /\ recorder.samples \in Seq(Nat) OBVIOUS
  <2>2. m \in n..Len(recorder.samples)
    <3>1. PICK l \in Nat : l = Len(recorder.samples) BY <2>1, LenProperties
    <3>2. PICK k \in 0..l : k = n BY <2>1, <3>1
    <3>3. Least(k + PageLimit, l) \in k..l BY ONLY <3>1, <3>2, RecorderAssumption DEF Least
    <3>4. QED BY ONLY <3>1, <3>2, <3>3
  <2>3. reader.rows \o next = SubSeq(recorder.samples, 1, m) /\ n + Len(next) = m
    <3>1. PICK s \in Seq(Nat) : s = recorder.samples BY ONLY <2>1
    <3>2. PICK k \in 0..Len(s) : k = n BY ONLY <2>1, <3>1
    <3>3. PICK l \in k..Len(s) : l = m BY ONLY <2>2, <3>1, <3>2
    <3>4. SubSeq(s, 1, k) \o SubSeq(s, k + 1, l) = SubSeq(s, 1, l)
          /\ k + Len(SubSeq(s, k + 1, l)) = l
      BY ONLY PageExtends, <3>1, <3>2, <3>3
    <3>5. reader.rows = SubSeq(s, 1, k) BY <3>1, <3>2
    <3>6. QED BY ONLY <3>1, <3>2, <3>3, <3>4, <3>5
  <2>4. /\ reader' = [rows |-> reader.rows \o next, cursor |-> n + Len(next),
                    more |-> n + Len(next) < Len(recorder.samples), state |-> recorder.state]
        /\ recorder' = recorder
    BY ONLY <1>10 DEF Read, NextCursor
  <2> HIDE DEF n, m, next
  <2>5. /\ reader'.rows = SubSeq(recorder.samples, 1, m) /\ reader'.cursor = m
        /\ reader'.state = recorder.state
        /\ reader'.more <=> m < Len(recorder.samples)
    BY <2>3, <2>4
  <2>6. m \in 0..Len(recorder.samples)
    <3>1. Len(recorder.samples) \in Nat /\ n \in Nat BY <2>1, LenProperties
    <3>2. QED BY ONLY <2>1, <2>2, <3>1
  <2>7. m < Len(recorder.samples) \/ m = Len(recorder.samples)
    <3>1. Len(recorder.samples) \in Nat BY <2>1, LenProperties
    <3>2. QED BY ONLY <2>6, <3>1
  <2>8. QED BY ONLY <2>4, <2>5, <2>6, <2>7 DEF PagesRead
<1>11. QED BY <1>1, <1>2, <1>3, <1>4, <1>5, <1>6, <1>7, <1>8, <1>9, <1>10 DEF RecorderNext


(* What a stopped recorder reports is what its reader has paged through, in *)
(* the order of the samples, whoever stops it.                              *)
LEMMA RecorderInvNext == RecorderInv /\ [RecorderNext]_recorderVars => RecorderInv'
<1>1. ASSUME RecorderInv, RecorderNext PROVE RecorderInv'
  BY <1>1, RecorderTypesKept, BeginningsKept, StopsKept, BoundedKept,
       PagesReadKept DEF RecorderInv
<1>2. ASSUME RecorderInv, UNCHANGED recorderVars PROVE RecorderInv'
  BY <1>2 DEF recorderVars, RecorderInv, RecorderTypes, Beginnings, Recorded, Stops, Status,
     Bounded, PagesRead
<1>3. QED BY <1>1, <1>2

THEOREM RecordingStaysExact == RecorderSpec => []RecordingIsExact
<1>1. RecorderInv => RecordingIsExact
  BY DEF RecorderInv, Stops, Bounded, PagesRead, RecordingIsExact, StopIsFinal, PagesAreExact
<1>2. QED BY <1>1, RecorderInvInit, RecorderInvNext, PTL DEF RecorderSpec


-----------------------------------------------------------------------------
(* Listening.  The requests that a page still hears are those of its phase  *)
(* and of its stream; a stop of a stream that goes on was never sent.       *)

Phases == {"off", "starting", "cancelled", "on", "stopping"}
PageStates == [phase : Phases, stream : Nat, after : Int, gap : BOOLEAN]
AudioRequests == [page : Pages, op : {"start", "read", "stop"}, stream : Nat, after : Int,
                  heard : BOOLEAN, answer : {"none", "ok", "error"}, first : Int, last : Int]
Monitors == [owner : Pages \cup {NoPage}, stream : Nat, last : Int, failed : BOOLEAN]

MonitorTypes ==
  /\ monitor \in Monitors
  /\ page \in [Pages -> PageStates]
  /\ requests \subseteq AudioRequests
  /\ audioPast \in [streams : Nat, lost : Nat, released : SUBSET Pages, closed : BOOLEAN]

HasMonitor(p) ==
  \/ monitor.owner = p /\ monitor.stream = page[p].stream
  \/ p \in audioPast.released \/ audioPast.closed

(* A request on its way: of an interval that has begun, and a stop only of  *)
(* one that its page has ended.                                             *)
OnItsWay(r) ==
  /\ r.stream <= audioPast.streams
  /\ r.op = "stop" /\ page[r.page].phase \in {"starting", "cancelled", "on"} =>
       r.stream # page[r.page].stream

(* A request that its page waits for.                                       *)
Awaited(r) ==
  r.heard =>
    /\ page[r.page].phase # "off"
    /\ page[r.page].phase \in {"starting", "cancelled"} =>
         r.op = "start" /\ r.stream = page[r.page].stream
    /\ page[r.page].phase = "starting" /\ r.answer = "ok" => HasMonitor(r.page)
    /\ page[r.page].phase = "on" =>
         /\ r.op = "read" /\ r.stream = page[r.page].stream /\ r.after = page[r.page].after
         /\ r.answer = "ok" /\ r.after >= 0 => r.first = r.after + 1

Listening(p) ==
  /\ page[p].stream <= audioPast.streams
  /\ page[p].phase = "starting" => page[p].after = -1
  /\ page[p].phase = "on" => HasMonitor(p)
  /\ ~page[p].gap

MonitorInv ==
  /\ MonitorTypes
  /\ \A r \in requests : OnItsWay(r) /\ Awaited(r)
  /\ \A p \in Pages : Listening(p)

(* A step of a page changes its own state only, and leaves of its requests  *)
(* those that it does not hear any more, beside the one that it sends.      *)
PageIs(p, phase, stream, after, gap) ==
  \A q \in Pages :
    /\ page'[q].phase = IF q = p THEN phase ELSE page[q].phase
    /\ page'[q].stream = IF q = p THEN stream ELSE page[q].stream
    /\ page'[q].after = IF q = p THEN after ELSE page[q].after
    /\ page'[q].gap <=> IF q = p THEN gap ELSE page[q].gap

LEMMA PageBecomes ==
  ASSUME MonitorTypes, NEW p \in Pages, NEW e \in PageStates, page' = [page EXCEPT ![p] = e]
  PROVE  page' \in [Pages -> PageStates] /\ PageIs(p, e.phase, e.stream, e.after, e.gap)
<1>1. page' \in [Pages -> PageStates] BY DEF MonitorTypes
<1>2. \A q \in Pages : page'[q] = IF q = p THEN e ELSE page[q] BY DEF MonitorTypes
<1>3. PageIs(p, e.phase, e.stream, e.after, e.gap) BY <1>2 DEF PageIs
<1>4. QED BY <1>1, <1>3

SentBefore(p, q) ==
  \/ q \in requests /\ q.page # p
  \/ /\ q.page = p /\ ~q.heard
     /\ \E o \in requests : o.page = p /\ o.op = q.op /\ o.stream = q.stream

Hushes(p) == \A q \in requests' : SentBefore(p, q)

IsSent(q, p, op, stream, after) ==
  /\ q.page = p /\ q.op = op /\ q.stream = stream /\ q.after = after
  /\ q.heard /\ q.answer = "none"

SendsRequest(p, op, stream, after) ==
  \A q \in requests' : IsSent(q, p, op, stream, after) \/ SentBefore(p, q)

LEMMA UnheardIsEarlier ==
  ASSUME MonitorTypes, NEW p \in Pages
  PROVE  \A q \in Others(p) \cup Unheard(p) : q \in AudioRequests /\ SentBefore(p, q)
<1>1. \A q \in Others(p) : q \in AudioRequests /\ SentBefore(p, q)
  BY DEF Others, MonitorTypes, SentBefore
<1>2. ASSUME NEW q \in Unheard(p) PROVE q \in AudioRequests /\ SentBefore(p, q)
  <2>1. PICK o \in requests : o.page = p /\ q = [o EXCEPT !.heard = FALSE]
    BY <1>2 DEF Unheard
  <2>2. o \in AudioRequests BY DEF MonitorTypes
  <2>3. q \in AudioRequests /\ q.page = o.page /\ ~q.heard /\ q.op = o.op /\ q.stream = o.stream
    BY <2>1, <2>2 DEF AudioRequests
  <2>4. QED BY <2>1, <2>3 DEF SentBefore
<1>3. QED BY <1>1, <1>2

LEMMA SentFields ==
  ASSUME NEW p \in Pages, NEW op \in {"start", "read", "stop"}, NEW stream \in Nat,
         NEW after \in Int
  PROVE  /\ Sent(p, op, stream, after) \in AudioRequests
         /\ IsSent(Sent(p, op, stream, after), p, op, stream, after)
BY DEF Sent, AudioRequests, IsSent

LEMMA SentLeaves ==
  ASSUME MonitorTypes, NEW p \in Pages, NEW op \in {"start", "read", "stop"},
         NEW stream \in Nat, NEW after \in Int,
         requests' = Others(p) \cup Unheard(p) \cup {Sent(p, op, stream, after)}
  PROVE  requests' \subseteq AudioRequests /\ SendsRequest(p, op, stream, after)
<1>1. PICK new \in AudioRequests :
        new = Sent(p, op, stream, after) /\ IsSent(new, p, op, stream, after)
  BY SentFields
<1>2. QED BY <1>1, UnheardIsEarlier DEF SendsRequest

LEMMA HushLeaves ==
  ASSUME MonitorTypes, NEW p \in Pages, requests' = Others(p) \cup Unheard(p)
  PROVE  requests' \subseteq AudioRequests /\ Hushes(p)
BY UnheardIsEarlier DEF Hushes

StopsPage(p) ==
  /\ PageIs(p, "stopping", page[p].stream, page[p].after, page[p].gap)
  /\ SendsRequest(p, "stop", page[p].stream, -1)

PageTypes == page' \in [Pages -> PageStates] /\ requests' \subseteq AudioRequests

LEMMA SendStopFlat ==
  ASSUME MonitorTypes, NEW p \in Pages, SendStop(p, page[p])
  PROVE  PageTypes /\ StopsPage(p)
<1>1. page[p] \in PageStates BY DEF MonitorTypes
<1> DEFINE e == [page[p] EXCEPT !.phase = "stopping"]
<1>2. /\ e \in PageStates /\ e.phase = "stopping" /\ e.stream = page[p].stream
      /\ e.after = page[p].after /\ e.gap = page[p].gap
  BY <1>1 DEF PageStates, Phases
<1>3. page[p].stream \in Nat BY <1>1 DEF PageStates
<1>4. /\ page' = [page EXCEPT ![p] = e]
      /\ requests' = Others(p) \cup Unheard(p) \cup {Sent(p, "stop", page[p].stream, -1)}
  BY DEF SendStop
<1> HIDE DEF e
<1>5. page' \in [Pages -> PageStates] /\ PageIs(p, e.phase, e.stream, e.after, e.gap)
  BY <1>2, <1>4, PageBecomes
<1>6. requests' \subseteq AudioRequests /\ SendsRequest(p, "stop", page[p].stream, -1)
  BY <1>3, <1>4, SentLeaves
<1>7. QED BY <1>2, <1>5, <1>6 DEF PageTypes, StopsPage


(* What a page does with an answer, or without one.                         *)
StartHeard(p, r) ==
  /\ page[p].phase = "starting"
  /\ PageIs(p, "on", page[p].stream, page[p].after, page[p].gap)
  /\ SendsRequest(p, "read", r.stream, -1)

ReadHeard(p, r) ==
  /\ page[p].phase = "on"
  /\ \E after \in Int : \E gap \in BOOLEAN :
       /\ gap => page[p].gap \/ (page[p].after >= 0 /\ r.first # page[p].after + 1)
       /\ PageIs(p, "on", page[p].stream, after, gap)
       /\ SendsRequest(p, "read", r.stream, after)

StopHeard(p) == PageIs(p, "off", 0, -1, FALSE) /\ Hushes(p)

LEMMA StartHeardFlat ==
  ASSUME MonitorTypes, NEW r \in requests, NEW p \in Pages, page[p].phase = "starting",
         page' = [page EXCEPT ![p].phase = "on"],
         requests' = Others(p) \cup Unheard(p) \cup {Sent(p, "read", r.stream, -1)}
  PROVE  PageTypes /\ StartHeard(p, r)
<1>1. page[p] \in PageStates /\ r \in AudioRequests BY DEF MonitorTypes
<1> DEFINE e == [page[p] EXCEPT !.phase = "on"]
<1>2. /\ e \in PageStates /\ e.phase = "on" /\ e.stream = page[p].stream
      /\ e.after = page[p].after /\ e.gap = page[p].gap
  BY <1>1 DEF PageStates, Phases
<1>3. page' = [page EXCEPT ![p] = e] OBVIOUS
<1>4. r.stream \in Nat BY <1>1 DEF AudioRequests
<1> HIDE DEF e
<1>5. page' \in [Pages -> PageStates] /\ PageIs(p, e.phase, e.stream, e.after, e.gap)
  BY <1>2, <1>3, PageBecomes
<1>6. QED BY <1>2, <1>4, <1>5, SentLeaves DEF PageTypes, StartHeard

LEMMA ReadHeardFlat ==
  ASSUME MonitorTypes, NEW r \in requests, NEW p \in Pages, page[p].phase = "on",
         NEW after \in Int, NEW gap \in BOOLEAN,
         gap => page[p].after >= 0 /\ r.first # page[p].after + 1,
         page' = [page EXCEPT ![p].after = after, ![p].gap = @ \/ gap],
         requests' = Others(p) \cup Unheard(p) \cup {Sent(p, "read", r.stream, after)}
  PROVE  PageTypes /\ ReadHeard(p, r)
<1>1. page[p] \in PageStates /\ r \in AudioRequests BY DEF MonitorTypes
<1>2. PICK holes \in BOOLEAN : holes = (page[p].gap \/ gap) OBVIOUS
<1> DEFINE e == [page[p] EXCEPT !.after = after, !.gap = holes]
<1>3. /\ e \in PageStates /\ e.phase = "on" /\ e.stream = page[p].stream
      /\ e.after = after /\ e.gap = holes
  BY <1>1 DEF PageStates, Phases
<1>4. page' = [page EXCEPT ![p] = e] BY <1>2
<1>5. r.stream \in Nat BY <1>1 DEF AudioRequests
<1> HIDE DEF e
<1>6. page' \in [Pages -> PageStates] /\ PageIs(p, e.phase, e.stream, e.after, e.gap)
  BY <1>3, <1>4, PageBecomes
<1>7. PageIs(p, "on", page[p].stream, after, holes) BY <1>3, <1>6
<1>8. holes => page[p].gap \/ (page[p].after >= 0 /\ r.first # page[p].after + 1) BY <1>2
<1>9. requests' \subseteq AudioRequests /\ SendsRequest(p, "read", r.stream, after)
  BY <1>5, SentLeaves
<1>10. QED BY <1>6, <1>7, <1>8, <1>9 DEF PageTypes, ReadHeard

LEMMA HearFlat ==
  ASSUME MonitorTypes, NEW r \in requests, NEW p \in Pages, NEW ok \in BOOLEAN, Hear(p, r, ok)
  PROVE  /\ PageTypes
         /\ \/ ok /\ (StartHeard(p, r) \/ ReadHeard(p, r))
            \/ StopHeard(p) \/ StopsPage(p)
<1>1. r \in AudioRequests /\ page[p] \in PageStates BY DEF MonitorTypes
<1>2. CASE page[p].phase = "starting" /\ ok
  BY <1>2, StartHeardFlat DEF Hear
<1>3. CASE page[p].phase = "on" /\ ok
  <2> DEFINE gap == r.first <= r.last /\ page[p].after >= 0 /\ r.first # page[p].after + 1
             after == IF r.first <= r.last THEN r.last ELSE page[p].after
  <2>1. after \in Int BY <1>1 DEF AudioRequests, PageStates
  <2>2. gap \in BOOLEAN /\ (gap => page[p].after >= 0 /\ r.first # page[p].after + 1)
    OBVIOUS
  <2>3. /\ page' = [page EXCEPT ![p].after = after, ![p].gap = @ \/ gap]
        /\ requests' = Others(p) \cup Unheard(p) \cup {Sent(p, "read", r.stream, after)}
    BY <1>3 DEF Hear
  <2> HIDE DEF gap, after
  <2>4. QED BY <1>3, <2>1, <2>2, <2>3, ReadHeardFlat
<1>4. CASE page[p].phase = "stopping"
  <2>1. page' = [page EXCEPT ![p] = Off] /\ requests' = Others(p) \cup Unheard(p)
    BY <1>4 DEF Hear
  <2>2. /\ Off \in PageStates /\ Off.phase = "off" /\ Off.stream = 0 /\ Off.after = -1
        /\ Off.gap = FALSE
    BY DEF Off, PageStates, Phases
  <2>3. page' \in [Pages -> PageStates] /\ PageIs(p, Off.phase, Off.stream, Off.after, Off.gap)
    BY <2>1, <2>2, PageBecomes
  <2>4. PageIs(p, "off", 0, -1, FALSE) BY <2>2, <2>3
  <2>5. QED BY <2>1, <2>3, <2>4, HushLeaves DEF PageTypes, StopHeard
<1>5. CASE /\ ~(page[p].phase = "starting" /\ ok) /\ ~(page[p].phase = "on" /\ ok)
           /\ page[p].phase # "stopping"
  <2>1. SendStop(p, page[p]) BY <1>5 DEF Hear
  <2>2. QED BY <2>1, SendStopFlat
<1>6. QED BY <1>2, <1>3, <1>4, <1>5


PastIs(streams, released, closed) ==
  /\ audioPast'.streams = streams /\ audioPast'.released = released
  /\ audioPast'.closed <=> closed

PastKept == PastIs(audioPast.streams, audioPast.released, audioPast.closed)

ListenStep(p) ==
  /\ page[p].phase = "off" /\ monitor' = monitor
  /\ PageIs(p, "starting", audioPast.streams + 1, -1, FALSE)
  /\ \A q \in requests' :
       IsSent(q, p, "start", audioPast.streams + 1, -1) \/ q \in requests
  /\ PastIs(audioPast.streams + 1, audioPast.released \ {p}, audioPast.closed)

LEMMA ListenFlat ==
  ASSUME MonitorTypes, NEW p \in Pages, Listen(p)
  PROVE  MonitorTypes' /\ ListenStep(p)
<1>1. PICK stream \in Nat : stream = audioPast.streams + 1 BY DEF MonitorTypes
<1> DEFINE e == [Off EXCEPT !.phase = "starting", !.stream = stream]
<1>2. /\ e \in PageStates /\ e.phase = "starting" /\ e.stream = stream /\ e.after = -1
      /\ e.gap = FALSE
  <2>0. Off \in PageStates /\ Off.after = -1 /\ Off.gap = FALSE
    BY DEF Off, PageStates, Phases
  <2>1. PICK off \in PageStates : off = Off /\ off.after = -1 /\ off.gap = FALSE BY <2>0
  <2>2. e = [off EXCEPT !.phase = "starting", !.stream = stream] BY <2>1
  <2> HIDE DEF e
  <2>3. QED BY ONLY <2>1, <2>2 DEF PageStates, Phases
<1>3. /\ page[p].phase = "off" /\ monitor' = monitor /\ page' = [page EXCEPT ![p] = e]
      /\ requests' = requests \cup {Sent(p, "start", stream, -1)}
      /\ audioPast' = [audioPast EXCEPT !.streams = stream, !.released = @ \ {p}]
  BY <1>1 DEF Listen
<1> HIDE DEF e
<1>4. page' \in [Pages -> PageStates] /\ PageIs(p, e.phase, e.stream, e.after, e.gap)
  BY <1>2, <1>3, PageBecomes
<1>5. PICK new \in AudioRequests :
        new = Sent(p, "start", stream, -1) /\ IsSent(new, p, "start", stream, -1)
  BY SentFields
<1>6. /\ audioPast' \in [streams : Nat, lost : Nat, released : SUBSET Pages, closed : BOOLEAN]
      /\ PastIs(stream, audioPast.released \ {p}, audioPast.closed)
  <2>1. PICK released \in SUBSET Pages : released = audioPast.released \ {p}
    BY DEF MonitorTypes
  <2>2. audioPast' = [audioPast EXCEPT !.streams = stream, !.released = released]
    BY <1>3, <2>1
  <2>3. QED BY <2>1, <2>2 DEF MonitorTypes, PastIs
<1>7. QED BY <1>1, <1>2, <1>3, <1>4, <1>5, <1>6 DEF MonitorTypes, ListenStep

StopListeningStep(p) ==
  /\ monitor' = monitor /\ PastKept
  /\ \/ StopsPage(p)
     \/ /\ PageIs(p, "cancelled", page[p].stream, page[p].after, page[p].gap)
        /\ page[p].phase = "starting" /\ requests' = requests

LEMMA StopListeningFlat ==
  ASSUME MonitorTypes, NEW p \in Pages, StopListening(p)
  PROVE  MonitorTypes' /\ StopListeningStep(p)
<1>1. monitor' = monitor /\ audioPast' = audioPast BY DEF StopListening
<1>2. CASE SendStop(p, page[p])
  BY <1>1, <1>2, SendStopFlat DEF PageTypes, MonitorTypes, StopListeningStep, PastKept, PastIs
<1>3. CASE /\ page[p].phase = "starting" /\ page' = [page EXCEPT ![p].phase = "cancelled"]
           /\ requests' = requests
  <2> DEFINE e == [page[p] EXCEPT !.phase = "cancelled"]
  <2>1. page[p] \in PageStates BY DEF MonitorTypes
  <2>2. /\ e \in PageStates /\ e.phase = "cancelled" /\ e.stream = page[p].stream
        /\ e.after = page[p].after /\ e.gap = page[p].gap
    BY <2>1 DEF PageStates, Phases
  <2>3. page' = [page EXCEPT ![p] = e] BY <1>3
  <2> HIDE DEF e
  <2>4. page' \in [Pages -> PageStates] /\ PageIs(p, e.phase, e.stream, e.after, e.gap)
    BY <2>2, <2>3, PageBecomes
  <2>5. QED BY <1>1, <1>3, <2>2, <2>4 DEF MonitorTypes, StopListeningStep, PastKept, PastIs
<1>4. QED BY <1>2, <1>3 DEF StopListening

HearStep(r) ==
  /\ monitor' = monitor /\ PastKept /\ r.heard
  /\ \/ r.answer = "ok" /\ (StartHeard(r.page, r) \/ ReadHeard(r.page, r))
     \/ StopHeard(r.page) \/ StopsPage(r.page)

LEMMA HeardFlat ==
  ASSUME MonitorTypes, NEW r \in requests, Answered(r) \/ AnswerLost(r)
  PROVE  MonitorTypes' /\ HearStep(r)
<1>1. r.page \in Pages BY DEF MonitorTypes, AudioRequests
<1>2. CASE Answered(r)
  <2>1. PICK ok \in BOOLEAN : ok <=> r.answer = "ok" OBVIOUS
  <2>2. ok = (r.answer = "ok") BY <2>1
  <2>3. Hear(r.page, r, ok) BY <1>2, <2>2 DEF Answered
  <2>4. /\ PageTypes
        /\ \/ ok /\ (StartHeard(r.page, r) \/ ReadHeard(r.page, r))
           \/ StopHeard(r.page) \/ StopsPage(r.page)
    BY <1>1, <2>3, HearFlat
  <2>5. QED BY <1>2, <2>1, <2>4
            DEF Answered, PageTypes, MonitorTypes, HearStep, PastKept, PastIs
<1>3. CASE AnswerLost(r)
  <2>1. PageTypes /\ (StopHeard(r.page) \/ StopsPage(r.page))
    BY <1>1, <1>3, HearFlat DEF AnswerLost
  <2>2. audioPast' = [audioPast EXCEPT !.lost = @ + 1] /\ monitor' = monitor /\ r.heard
    BY <1>3 DEF AnswerLost
  <2>3. PastKept /\ audioPast' \in [streams : Nat, lost : Nat, released : SUBSET Pages,
                                    closed : BOOLEAN]
    BY <2>2 DEF MonitorTypes, PastKept, PastIs
  <2>4. QED BY <2>1, <2>2, <2>3 DEF PageTypes, MonitorTypes, HearStep
<1>4. QED BY <1>2, <1>3

ReleaseStep(p) ==
  /\ page' = page /\ requests' = requests /\ monitor.owner = p /\ monitor' = NoMonitor
  /\ PastIs(audioPast.streams, audioPast.released \cup {p}, audioPast.closed)

LEMMA ReleaseFlat ==
  ASSUME MonitorTypes, NEW p \in Pages, Release(p)
  PROVE  MonitorTypes' /\ ReleaseStep(p)
<1>1. NoMonitor \in Monitors BY DEF NoMonitor, Monitors
<1>2. audioPast' = [audioPast EXCEPT !.released = @ \cup {p}] BY DEF Release
<1>3. PICK released \in SUBSET Pages : released = audioPast.released \cup {p}
  BY DEF MonitorTypes
<1>4. audioPast' = [audioPast EXCEPT !.released = released] BY <1>2, <1>3
<1>5. /\ audioPast' \in [streams : Nat, lost : Nat, released : SUBSET Pages, closed : BOOLEAN]
      /\ PastIs(audioPast.streams, released, audioPast.closed)
  BY <1>4 DEF MonitorTypes, PastIs
<1>6. QED BY <1>1, <1>3, <1>5 DEF Release, MonitorTypes, ReleaseStep

ReceiveStep ==
  /\ page' = page /\ requests' = requests /\ PastKept
  /\ monitor'.owner = monitor.owner /\ monitor'.stream = monitor.stream

LEMMA ReceiveFlat ==
  ASSUME MonitorTypes, Receive
  PROVE  MonitorTypes' /\ ReceiveStep
<1>1. monitor \in Monitors BY DEF MonitorTypes
<1>2. /\ monitor' \in Monitors
      /\ monitor'.owner = monitor.owner /\ monitor'.stream = monitor.stream
  <2>1. CASE monitor' = [monitor EXCEPT !.last = @ + 1]
    BY ONLY <1>1, <2>1 DEF Monitors
  <2>2. CASE monitor' = [monitor EXCEPT !.failed = TRUE]
    BY ONLY <1>1, <2>2 DEF Monitors
  <2>3. QED BY <2>1, <2>2 DEF Receive
<1>3. QED BY <1>2 DEF Receive, MonitorTypes, ReceiveStep, PastKept, PastIs

CloseSessionStep ==
  /\ page' = page /\ requests' = requests /\ monitor' = NoMonitor
  /\ PastIs(audioPast.streams, audioPast.released, TRUE)

LEMMA CloseSessionFlat ==
  ASSUME MonitorTypes, CloseSession
  PROVE  MonitorTypes' /\ CloseSessionStep
<1>1. NoMonitor \in Monitors BY DEF NoMonitor, Monitors
<1>2. /\ audioPast' \in [streams : Nat, lost : Nat, released : SUBSET Pages, closed : BOOLEAN]
      /\ PastIs(audioPast.streams, audioPast.released, TRUE)
  BY DEF CloseSession, MonitorTypes, PastIs
<1>3. QED BY <1>1, <1>2 DEF CloseSession, MonitorTypes, CloseSessionStep

-----------------------------------------------------------------------------
(* The server answers one request: the page hears the same request with its *)
(* answer, or nothing.                                                      *)

AnswerOf(q, r) ==
  /\ r.heard /\ q.heard
  /\ q.page = r.page /\ q.op = r.op /\ q.stream = r.stream /\ q.after = r.after

ServeStep(r) ==
  /\ page' = page /\ PastKept
  /\ \A q \in requests' :
       q \in requests \/ (AnswerOf(q, r) /\
         (q.answer = "ok" =>
            /\ q.op = "start" => ~audioPast.closed /\ monitor'.owner = r.page
                                 /\ monitor'.stream = r.stream
            /\ q.op = "read" /\ q.after >= 0 => q.first = q.after + 1))
  /\ \/ monitor' = monitor
     \/ monitor.owner = NoPage
     \/ r.op = "stop" /\ monitor.owner = r.page /\ monitor.stream = r.stream

LEMMA AnswerFlat ==
  ASSUME MonitorTypes, NEW r \in requests, NEW answer \in {"ok", "error"}, Answer(r, answer)
  PROVE  /\ requests' \subseteq AudioRequests
         /\ \A q \in requests' : q \in requests \/ (AnswerOf(q, r) /\ q.answer = answer)
<1>1. r \in AudioRequests BY DEF MonitorTypes
<1> DEFINE e == [r EXCEPT !.answer = answer]
<1>2. e \in AudioRequests /\ (r.heard => AnswerOf(e, r)) /\ e.answer = answer
  BY <1>1 DEF AudioRequests, AnswerOf
<1>3. \A q \in requests' : q \in requests \/ (r.heard /\ q = e)
  BY DEF Answer
<1> HIDE DEF e
<1>4. QED BY <1>2, <1>3 DEF MonitorTypes


LEMMA ServeFlat ==
  ASSUME MonitorTypes, MonitorAssumption, NEW r \in requests, Serve(r)
  PROVE  MonitorTypes' /\ ServeStep(r)
<1>1. r \in AudioRequests /\ monitor \in Monitors BY DEF MonitorTypes
<1>2. page' = page /\ audioPast' = audioPast /\ PastKept BY DEF Serve, PastKept, PastIs
<1>3. CASE ServeStart(r)
  <2>1. ~Refused(r) /\ r.op = "start" BY <1>3 DEF ServeStart
  <2>2. ~audioPast.closed BY <2>1 DEF Refused
  <2>3. CASE monitor.owner # NoPage
    <3>1. PICK answer \in {"ok", "error"} : Answer(r, answer)
      BY <1>3, <2>3 DEF ServeStart
    <3>2. monitor' = monitor /\ monitor.owner = r.page /\ monitor.stream = r.stream
      BY <1>3, <2>1, <2>3 DEF ServeStart, Refused
    <3>3. /\ requests' \subseteq AudioRequests
          /\ \A q \in requests' : q \in requests \/ (AnswerOf(q, r) /\ q.answer = answer)
      BY <3>1, AnswerFlat
    <3>4. QED BY <1>2, <2>1, <2>2, <3>2, <3>3 DEF MonitorTypes, ServeStep, AnswerOf
  <2>4. CASE /\ monitor.owner = NoPage /\ Answer(r, "ok")
             /\ monitor' = [NoMonitor EXCEPT !.owner = r.page, !.stream = r.stream, !.last = 0]
    <3>1. /\ monitor' \in Monitors /\ monitor'.owner = r.page /\ monitor'.stream = r.stream
      <4>1. NoMonitor \in Monitors BY DEF NoMonitor, Monitors
      <4>2. PICK none \in Monitors : none = NoMonitor BY <4>1
      <4>3. r.page \in Pages /\ r.stream \in Nat BY <1>1 DEF AudioRequests
      <4> DEFINE m == [none EXCEPT !.owner = r.page]
                 n == [m EXCEPT !.stream = r.stream]
                 l == [n EXCEPT !.last = 0]
      <4>4. monitor' = l BY <2>4, <4>2
      <4>5. m \in Monitors /\ m.owner = r.page BY ONLY <4>2, <4>3 DEF Monitors
      <4> HIDE DEF m
      <4>6. n \in Monitors /\ n.owner = m.owner /\ n.stream = r.stream
        BY ONLY <4>3, <4>5 DEF Monitors
      <4> HIDE DEF n
      <4>7. l \in Monitors /\ l.owner = n.owner /\ l.stream = n.stream
        BY ONLY <4>6 DEF Monitors
      <4> HIDE DEF l
      <4>8. QED BY ONLY <4>4, <4>5, <4>6, <4>7
    <3>2. /\ requests' \subseteq AudioRequests
          /\ \A q \in requests' : q \in requests \/ (AnswerOf(q, r) /\ q.answer = "ok")
      BY <2>4, AnswerFlat
    <3>3. QED BY <1>2, <2>1, <2>2, <2>4, <3>1, <3>2 DEF MonitorTypes, ServeStep, AnswerOf
  <2>5. CASE Answer(r, "error") /\ monitor' = monitor
    <3>1. /\ requests' \subseteq AudioRequests
          /\ \A q \in requests' : q \in requests \/ (AnswerOf(q, r) /\ q.answer = "error")
      BY <2>5, AnswerFlat
    <3>2. QED BY <1>2, <2>5, <3>1 DEF MonitorTypes, ServeStep
  <2>6. QED BY <1>3, <2>3, <2>4, <2>5 DEF ServeStart
<1>4. CASE ServeStop(r)
  <2>1. ~Refused(r) /\ r.op = "stop" /\ Answer(r, "ok") /\ monitor' = NoMonitor
    BY <1>4 DEF ServeStop
  <2>2. NoMonitor \in Monitors BY DEF NoMonitor, Monitors
  <2>3. /\ requests' \subseteq AudioRequests
        /\ \A q \in requests' : q \in requests \/ (AnswerOf(q, r) /\ q.answer = "ok")
    BY <2>1, AnswerFlat
  <2>4. monitor.owner = NoPage \/ (monitor.owner = r.page /\ monitor.stream = r.stream)
    BY <2>1 DEF Refused
  <2>5. QED BY <1>2, <2>1, <2>2, <2>3, <2>4 DEF MonitorTypes, ServeStep, AnswerOf
<1>5. CASE ServeRead(r)
  <2>1. r.op = "read" /\ monitor' = monitor BY <1>5 DEF ServeRead
  <2>2. CASE Answer(r, "error")
    <3>1. /\ requests' \subseteq AudioRequests
          /\ \A q \in requests' : q \in requests \/ (AnswerOf(q, r) /\ q.answer = "error")
      BY <2>2, AnswerFlat
    <3>2. QED BY <1>2, <2>1, <3>1 DEF MonitorTypes, ServeStep
  <2>3. CASE Running(r) /\ ~Gap(r)
    <3>1. PICK oldest \in Int : oldest = Oldest
      BY <1>1 DEF Oldest, MonitorAssumption, Monitors
    <3>2. PICK first \in Int : first = IF r.after + 1 > oldest THEN r.after + 1 ELSE oldest
      BY <1>1, <3>1 DEF AudioRequests
    <3>3. r.after >= 0 => first = r.after + 1
      <4>1. ~(r.after >= 0 /\ r.after < oldest - 1) BY <2>3, <3>1 DEF Gap
      <4>2. PICK a \in Int : a = r.after BY <1>1 DEF AudioRequests
      <4>3. QED BY ONLY <3>1, <3>2, <4>1, <4>2
    <3>4. PICK last \in Int : last = monitor.last BY <1>1 DEF Monitors
    <3> DEFINE e == [r EXCEPT !.answer = "ok", !.last = last, !.first = first]
    <3>5. \A q \in requests' : q \in requests \/ (r.heard /\ q = e)
      BY <1>5, <2>3, <3>1, <3>2, <3>4 DEF ServeRead
    <3>6. /\ e \in AudioRequests /\ e.heard = r.heard /\ e.page = r.page /\ e.op = r.op
          /\ e.stream = r.stream /\ e.after = r.after /\ e.first = first
      BY <1>1 DEF AudioRequests
    <3> HIDE DEF e
    <3>7. r.heard => AnswerOf(e, r) BY <3>6 DEF AnswerOf
    <3>8. requests' \subseteq AudioRequests BY <3>5, <3>6 DEF MonitorTypes
    <3>9. \A q \in requests' : q \in requests \/
            (AnswerOf(q, r) /\ q.op = "read" /\ (q.after >= 0 => q.first = q.after + 1))
      BY <2>1, <3>3, <3>5, <3>6, <3>7
    <3>10. QED BY <1>2, <2>1, <3>8, <3>9 DEF MonitorTypes, ServeStep
  <2>4. QED BY <1>5, <2>2, <2>3 DEF ServeRead
<1>6. CASE Refuse(r)
  <2>1. /\ requests' \subseteq AudioRequests
        /\ \A q \in requests' : q \in requests \/ (AnswerOf(q, r) /\ q.answer = "error")
    BY <1>6, AnswerFlat DEF Refuse
  <2>2. QED BY <1>2, <1>6, <2>1 DEF Refuse, MonitorTypes, ServeStep
<1>7. QED BY <1>3, <1>4, <1>5, <1>6 DEF Serve


MonitorStep ==
  \/ \E p \in Pages : ListenStep(p) \/ StopListeningStep(p) \/ ReleaseStep(p)
  \/ \E r \in requests : HearStep(r) \/ ServeStep(r)
  \/ ReceiveStep \/ CloseSessionStep

LEMMA MonitorIsFlat ==
  ASSUME MonitorTypes, MonitorNext
  PROVE  MonitorTypes' /\ MonitorStep
<1>1. ASSUME NEW p \in Pages, Listen(p) \/ StopListening(p) \/ Release(p)
      PROVE  MonitorTypes' /\ MonitorStep
  BY <1>1, ListenFlat, StopListeningFlat, ReleaseFlat DEF MonitorStep
<1>2. ASSUME NEW r \in requests, Answered(r) \/ AnswerLost(r) \/ Serve(r)
      PROVE  MonitorTypes' /\ MonitorStep
  BY <1>2, HeardFlat, ServeFlat, MonitorAssumption DEF MonitorStep
<1>3. CASE Receive BY <1>3, ReceiveFlat DEF MonitorStep
<1>4. CASE CloseSession BY <1>4, CloseSessionFlat DEF MonitorStep
<1>5. QED BY <1>1, <1>2, <1>3, <1>4 DEF MonitorNext


(* The kinds of the fields that the invariant is about.                     *)
RequestFields(r) ==
  /\ r.page \in Pages /\ r.stream \in Nat /\ r.after \in Int /\ r.heard \in BOOLEAN
  /\ r.op \in {"start", "read", "stop"}
PageFields(p) ==
  /\ page[p].phase \in Phases /\ page[p].stream \in Nat /\ page[p].after \in Int
  /\ page[p].gap \in BOOLEAN

LEMMA FieldsTyped ==
  ASSUME MonitorTypes
  PROVE  /\ \A r \in requests : RequestFields(r)
         /\ \A p \in Pages : PageFields(p)
         /\ audioPast.streams \in Nat /\ NoMonitor.owner = NoPage
BY DEF MonitorTypes, AudioRequests, PageStates, RequestFields, PageFields, NoMonitor

(* What is on its way was so before, for its stream and its page.           *)
SameWay(q, o) == o.page = q.page /\ o.op = q.op /\ o.stream = q.stream

LEMMA EarlierWay ==
  ASSUME NEW p, NEW q, SentBefore(p, q)
  PROVE  \E o \in requests : SameWay(q, o)
BY DEF SentBefore, SameWay

(* A page goes on in its stream, or ends it.                                *)
LEMMA WayKept ==
  ASSUME NEW p \in Pages, NEW phase \in Phases, NEW stream \in Nat, NEW after, NEW gap,
         MonitorTypes, PageIs(p, phase, stream, after, gap), NEW o \in requests, OnItsWay(o),
              NEW q,
         SameWay(q, o), PastKept,
         \/ phase \in {"off", "stopping"}
         \/ page[p].phase \in {"starting", "cancelled", "on"} /\ stream = page[p].stream
  PROVE  OnItsWay(q)'
BY FieldsTyped DEF PageIs, SameWay, PastKept, PastIs, OnItsWay, RequestFields, PageFields

LEMMA SendsWay ==
  ASSUME MonitorInv, NEW p \in Pages, NEW phase \in Phases, NEW stream \in Nat, NEW after,
       NEW gap,
         PageIs(p, phase, stream, after, gap), PastKept,
         NEW op \in {"read", "stop"}, NEW s \in Nat, NEW a, SendsRequest(p, op, s, a),
         s <= audioPast.streams, op = "stop" => phase = "stopping",
         \/ phase \in {"off", "stopping"}
         \/ page[p].phase \in {"starting", "cancelled", "on"} /\ stream = page[p].stream
  PROVE  \A q \in requests' : OnItsWay(q)'
<1> SUFFICES ASSUME NEW q \in requests' PROVE OnItsWay(q)' OBVIOUS
<1>1. CASE IsSent(q, p, op, s, a)
  BY <1>1 DEF IsSent, OnItsWay, PastKept, PastIs, PageIs
<1>2. CASE SentBefore(p, q)
  <2>1. PICK o \in requests : SameWay(q, o) BY <1>2, EarlierWay
  <2>2. QED BY <2>1, WayKept DEF MonitorInv
<1>3. QED BY <1>1, <1>2 DEF SendsRequest

LEMMA HushesWay ==
  ASSUME MonitorInv, NEW p \in Pages, NEW phase \in {"off"}, NEW after, NEW gap,
         PageIs(p, phase, 0, after, gap), PastKept, Hushes(p)
  PROVE  \A q \in requests' : OnItsWay(q)'
<1> SUFFICES ASSUME NEW q \in requests' PROVE OnItsWay(q)' OBVIOUS
<1>1. PICK o \in requests : SameWay(q, o) BY EarlierWay DEF Hushes
<1>2. QED BY <1>1, WayKept DEF MonitorInv, Phases

LEMMA StopsWay ==
  ASSUME MonitorInv, NEW p \in Pages, StopsPage(p), PastKept
  PROVE  \A q \in requests' : OnItsWay(q)'
<1>1. page[p].stream \in Nat /\ page[p].stream <= audioPast.streams
  BY FieldsTyped DEF MonitorInv, PageFields, Listening
<1>2. QED BY <1>1, SendsWay DEF StopsPage, Phases

LEMMA OnItsWayKept ==
  ASSUME MonitorInv, MonitorTypes', MonitorStep
  PROVE  (\A q \in requests : OnItsWay(q))'
<1> USE MonitorAssumption, FieldsTyped
<1> USE DEF MonitorInv, RequestFields, PageFields, Phases, OnItsWay, Awaited
<1>1. ASSUME NEW p \in Pages, ListenStep(p) PROVE (\A q \in requests : OnItsWay(q))'
  BY <1>1 DEF ListenStep, PageIs, PastIs, IsSent
<1>2. ASSUME NEW p \in Pages, StopListeningStep(p) PROVE (\A q \in requests : OnItsWay(q))'
  <2>1. CASE StopsPage(p) BY <1>2, <2>1, StopsWay DEF StopListeningStep
  <2>2. CASE /\ PageIs(p, "cancelled", page[p].stream, page[p].after, page[p].gap)
             /\ page[p].phase = "starting" /\ requests' = requests
    BY <1>2, <2>2 DEF StopListeningStep, PageIs, PastKept, PastIs
  <2>3. QED BY <1>2, <2>1, <2>2 DEF StopListeningStep
<1>3. ASSUME NEW p \in Pages, ReleaseStep(p) PROVE (\A q \in requests : OnItsWay(q))'
  BY <1>3 DEF ReleaseStep, PastIs
<1>4. ASSUME NEW r \in requests, HearStep(r) PROVE (\A q \in requests : OnItsWay(q))'
  <2>1. r.page \in Pages /\ PastKept BY <1>4 DEF HearStep
  <2>2. /\ page[r.page].stream \in Nat /\ page[r.page].stream <= audioPast.streams
        /\ r.stream \in Nat /\ r.stream <= audioPast.streams
    BY <2>1 DEF Listening
  <2>3. CASE StartHeard(r.page, r)
    BY ONLY <2>1, <2>2, <2>3, SendsWay, MonitorInv DEF StartHeard, Phases
  <2>4. CASE ReadHeard(r.page, r)
    BY ONLY <2>1, <2>2, <2>4, SendsWay, MonitorInv DEF ReadHeard, Phases
  <2>5. CASE StopHeard(r.page)
    BY ONLY <2>1, <2>5, HushesWay, MonitorInv DEF StopHeard
  <2>6. CASE StopsPage(r.page) BY ONLY <2>1, <2>6, StopsWay, MonitorInv
  <2>7. QED BY ONLY <1>4, <2>3, <2>4, <2>5, <2>6 DEF HearStep
<1>5. ASSUME NEW r \in requests, ServeStep(r) PROVE (\A q \in requests : OnItsWay(q))'
  BY <1>5 DEF ServeStep, AnswerOf, PastKept, PastIs
<1>6. CASE ReceiveStep BY <1>6 DEF ReceiveStep, PastKept, PastIs
<1>7. CASE CloseSessionStep BY <1>7 DEF CloseSessionStep, PastIs
<1>8. QED BY <1>1, <1>2, <1>3, <1>4, <1>5, <1>6, <1>7 DEF MonitorStep

LEMMA AwaitedKept ==
  ASSUME MonitorInv, MonitorTypes', MonitorStep
  PROVE  (\A q \in requests : Awaited(q))'
<1> USE MonitorAssumption, FieldsTyped
<1> USE DEF MonitorInv, RequestFields, PageFields, Phases, OnItsWay, Awaited, Listening,
     HasMonitor
<1>1. ASSUME NEW p \in Pages, ListenStep(p) PROVE (\A q \in requests : Awaited(q))'
  BY <1>1 DEF ListenStep, PageIs, PastIs, IsSent
<1>2. ASSUME NEW p \in Pages, StopListeningStep(p) PROVE (\A q \in requests : Awaited(q))'
  BY <1>2 DEF StopListeningStep, StopsPage, PageIs, SendsRequest, SentBefore, IsSent, PastKept, PastIs
<1>3. ASSUME NEW p \in Pages, ReleaseStep(p) PROVE (\A q \in requests : Awaited(q))'
  BY <1>3 DEF ReleaseStep, PastIs
<1>4. ASSUME NEW r \in requests, HearStep(r) PROVE (\A q \in requests : Awaited(q))'
  BY <1>4 DEF HearStep, StartHeard, ReadHeard, StopHeard, StopsPage, PageIs, SendsRequest, Hushes,
       SentBefore, IsSent, PastKept, PastIs
<1>5. ASSUME NEW r \in requests, ServeStep(r) PROVE (\A q \in requests : Awaited(q))'
  BY <1>5 DEF ServeStep, AnswerOf, PastKept, PastIs
<1>6. CASE ReceiveStep BY <1>6 DEF ReceiveStep, PastKept, PastIs
<1>7. CASE CloseSessionStep BY <1>7 DEF CloseSessionStep, PastIs
<1>8. QED BY <1>1, <1>2, <1>3, <1>4, <1>5, <1>6, <1>7 DEF MonitorStep

LEMMA ListeningKept ==
  ASSUME MonitorInv, MonitorTypes', MonitorStep
  PROVE  (\A q \in Pages : Listening(q))'
<1> USE MonitorAssumption, FieldsTyped
<1> USE DEF MonitorInv, RequestFields, PageFields, Phases, OnItsWay, Awaited, Listening,
     HasMonitor
<1>1. ASSUME NEW p \in Pages, ListenStep(p) PROVE (\A q \in Pages : Listening(q))'
  BY <1>1 DEF ListenStep, PageIs, PastIs, IsSent
<1>2. ASSUME NEW p \in Pages, StopListeningStep(p) PROVE (\A q \in Pages : Listening(q))'
  BY <1>2 DEF StopListeningStep, StopsPage, PageIs, SendsRequest, SentBefore, IsSent, PastKept, PastIs
<1>3. ASSUME NEW p \in Pages, ReleaseStep(p) PROVE (\A q \in Pages : Listening(q))'
  BY <1>3 DEF ReleaseStep, PastIs
<1>4. ASSUME NEW r \in requests, HearStep(r) PROVE (\A q \in Pages : Listening(q))'
  BY <1>4 DEF HearStep, StartHeard, ReadHeard, StopHeard, StopsPage, PageIs, SendsRequest, Hushes,
       SentBefore, IsSent, PastKept, PastIs
<1>5. ASSUME NEW r \in requests, ServeStep(r) PROVE (\A q \in Pages : Listening(q))'
  BY <1>5 DEF ServeStep, AnswerOf, PastKept, PastIs
<1>6. CASE ReceiveStep BY <1>6 DEF ReceiveStep, PastKept, PastIs
<1>7. CASE CloseSessionStep BY <1>7 DEF CloseSessionStep, PastIs
<1>8. QED BY <1>1, <1>2, <1>3, <1>4, <1>5, <1>6, <1>7 DEF MonitorStep


LEMMA MonitorInvInit == MonitorInit => MonitorInv
<1> SUFFICES ASSUME MonitorInit PROVE MonitorInv OBVIOUS
<1>1. NoMonitor \in Monitors BY DEF NoMonitor, Monitors
<1>2. Off \in PageStates /\ Off.phase = "off" /\ Off.stream = 0 /\ Off.gap = FALSE
  BY DEF Off, PageStates, Phases
<1>3. MonitorTypes BY <1>1, <1>2 DEF MonitorInit, MonitorTypes
<1>4. /\ requests = {} /\ audioPast.streams = 0 /\ \A p \in Pages : page[p] = Off
  BY DEF MonitorInit
<1>5. \A p \in Pages : Listening(p) BY <1>2, <1>4 DEF Listening
<1>6. QED BY <1>3, <1>4, <1>5 DEF MonitorInv

LEMMA MonitorInvNext == MonitorInv /\ [MonitorNext]_monitorVars => MonitorInv'
<1>1. ASSUME MonitorInv, MonitorNext PROVE MonitorInv'
  <2>1. MonitorTypes' /\ MonitorStep BY <1>1, MonitorIsFlat DEF MonitorInv
  <2>2. QED BY <1>1, <2>1, OnItsWayKept, AwaitedKept, ListeningKept DEF MonitorInv
<1>2. ASSUME MonitorInv, UNCHANGED monitorVars PROVE MonitorInv'
  BY <1>2 DEF monitorVars, MonitorInv, MonitorTypes, OnItsWay, Awaited, Listening, HasMonitor
<1>3. QED BY <1>1, <1>2

(* A page that listens has the monitor that it started, and every block of  *)
(* it since it heard the first, whatever answers were lost or late.         *)
THEOREM ListeningStaysExact == MonitorSpec => []ListeningIsExact
<1>1. MonitorInv => ListeningIsExact
  BY DEF MonitorInv, Listening, HasMonitor, ListeningIsExact, ListeningIsNotStolen,
     GapsAreErrors
<1>2. QED BY <1>1, MonitorInvInit, MonitorInvNext, PTL DEF MonitorSpec

-----------------------------------------------------------------------------
(* The ii trace.                                                            *)

(* Where the client is: it has the first records of the trace, each once.   *)
TraceInv ==
  /\ bytes \in Nat
  /\ traceReader \in [cursor : Nat, got : Seq(Nat), more : BOOLEAN, reads : Nat]
  /\ TracePagesAreExact

(* A cursor is between records when it is after a number of them.           *)
LEMMA Multiples ==
  ASSUME NEW r \in Nat \ {0, 1}, NEW n \in Nat
  PROVE  /\ (n * r) % r = 0 /\ (n * r) \div r = n
         /\ (n * r + 1) % r # 0
<1>1. n * r \in Nat OBVIOUS
<1>2. (n * r) % r = 0 OBVIOUS
<1>3. \A q \in Int : q * r = n * r => q = n OBVIOUS
<1>4. (n * r) \div r \in Int /\ ((n * r) \div r) * r = n * r BY <1>2
<1>5. (n * r) \div r = n BY <1>3, <1>4
<1>6. ASSUME (n * r + 1) % r = 0
      PROVE  FALSE
  <2>1. PICK q \in Int : q = (n * r + 1) \div r BY <1>1
  <2>2. q * r = n * r + 1 BY <1>6, <2>1
  <2>3. (q - n) * r = 1 BY <2>2
  <2>4. \A d \in Int : d * r # 1
    <3>1. SUFFICES ASSUME NEW d \in Int PROVE d * r # 1 OBVIOUS
    <3>2. CASE d <= 0
      <4>1. d * r <= 0 BY <3>2
      <4>2. QED BY <4>1
    <3>3. CASE d >= 1
      <4>1. d * r >= r BY <3>3
      <4>2. QED BY <4>1
    <3>4. QED BY <3>2, <3>3
  <2>5. QED BY <2>3, <2>4
<1>7. QED BY <1>2, <1>5, <1>6

LEMMA WholeRecords ==
  ASSUME NEW r \in Nat \ {0, 1}, NEW b \in Nat, NEW n \in Nat, n * r <= b
  PROVE  b \div r \in Nat /\ n <= b \div r /\ (b \div r) * r <= b
OBVIOUS

(* A page continues the counting of the records that the client has.       *)
LEMMA PageContinues ==
  ASSUME bytes \in Nat, NEW n \in Nat, n * RecordSize <= bytes,
         NEW got \in Seq(Nat), Len(got) = n, got = [k \in 1..n |-> k]
  PROVE  \E batch \in Seq(Nat), m \in Nat :
           /\ batch = Page(n * RecordSize) /\ m = Len(batch)
           /\ (n + m) * RecordSize <= bytes
           /\ got \o batch = [k \in 1..(n + m) |-> k]
           /\ got \o batch \in Seq(Nat) /\ Len(got \o batch) = n + m
<1> DEFINE r == RecordSize
           c == bytes \div r
           m == (IF c < n + PageSize THEN c ELSE n + PageSize) - n
           batch == [k \in 1..m |-> n + k]
<1>1. r \in Nat \ {0, 1} /\ PageSize \in Nat \ {0} BY TraceAssumption DEF TraceAssumption
<1>2. c \in Nat /\ n <= c /\ c * r <= bytes BY <1>1, WholeRecords
<1>3. m \in Nat /\ n + m <= c BY <1>1, <1>2
<1>4. Page(n * r) = batch
  <2>1. (n * r) \div r = n BY <1>1, Multiples
  <2>2. QED BY <2>1 DEF Page
<1>5. (n + m) * r <= bytes
  <2>1. PICK e \in Nat : c = n + m + e
    <3>1. c - (n + m) \in Nat BY <1>2, <1>3
    <3>2. QED BY <3>1, <1>2, <1>3
  <2>2. e * r \in Nat BY <1>1
  <2>3. c * r = (n + m) * r + e * r BY <1>1, <1>3, <2>1
  <2>4. (n + m) * r \in Nat BY <1>1, <1>3
  <2>5. QED BY <1>2, <2>2, <2>3, <2>4
<1> HIDE DEF m, c, r
<1>6. batch \in Seq(Nat) /\ Len(batch) = m /\ \A k \in 1..m : batch[k] = n + k BY <1>3
<1> HIDE DEF batch
<1>7. /\ got \o batch \in Seq(Nat) /\ Len(got \o batch) = n + m
      /\ \A i \in 1..(n + m) : (got \o batch)[i] = IF i <= n THEN got[i] ELSE batch[i - n]
  BY <1>6, ConcatProperties
<1>8. \A i \in 1..(n + m) : (got \o batch)[i] = i BY <1>3, <1>6, <1>7
<1>9. got \o batch = [k \in 1..(n + m) |-> k] BY <1>3, <1>7, <1>8
<1>10. (n + m) * RecordSize <= bytes /\ batch = Page(n * RecordSize)
  BY <1>4, <1>5 DEF r
<1>11. QED BY <1>3, <1>6, <1>7, <1>9, <1>10

LEMMA TraceInvInit == TraceInit => TraceInv
<1> SUFFICES ASSUME TraceInit PROVE TraceInv OBVIOUS
<1>1. bytes = 0 /\ traceReader = [cursor |-> 0, got |-> <<>>, more |-> FALSE, reads |-> 0]
  BY DEF TraceInit
<1>2. Len(<<>>) = 0 /\ <<>> \in Seq(Nat) /\ <<>> = [k \in 1..0 |-> k] OBVIOUS
<1>3. 0 * RecordSize = 0 BY TraceAssumption DEF TraceAssumption
<1>4. TracePagesAreExact BY <1>1, <1>2, <1>3 DEF TracePagesAreExact
<1>5. QED BY <1>1, <1>2, <1>4 DEF TraceInv

LEMMA TraceInvNext == TraceInv /\ [TraceNext]_traceVars => TraceInv'
<1> SUFFICES ASSUME TraceInv, [TraceNext]_traceVars PROVE TraceInv'
  OBVIOUS
<1>1. CASE LeadTx BY <1>1 DEF LeadTx, TraceInv, TracePagesAreExact
<1>2. ASSUME NEW cursor \in 0..(MaxBytes + 1), ReadTrace(cursor)
      PROVE  TraceInv'
  <2>1. PICK got \in Seq(Nat), n \in Nat :
          /\ got = traceReader.got /\ n = Len(got) /\ got = [k \in 1..n |-> k]
          /\ traceReader.cursor = n * RecordSize
    BY LenProperties DEF TraceInv, TracePagesAreExact
  <2>2. cursor = n * RecordSize
    <3>1. RecordSize \in Nat \ {0, 1} BY TraceAssumption DEF TraceAssumption
    <3>2. cursor \in {n * RecordSize, n * RecordSize + 1} BY <1>2, <2>1 DEF ReadTrace
    <3>3. cursor % RecordSize = 0 BY <1>2 DEF ReadTrace, Refuses, RecordEnds
    <3>4. QED BY <3>1, <3>2, <3>3, Multiples
  <2>3. PICK batch \in Seq(Nat), m \in Nat :
          /\ batch = Page(cursor) /\ m = Len(batch)
          /\ (n + m) * RecordSize <= bytes
          /\ got \o batch = [k \in 1..(n + m) |-> k]
          /\ got \o batch \in Seq(Nat) /\ Len(got \o batch) = n + m
    <3>1. bytes \in Nat /\ n * RecordSize <= bytes BY <2>1 DEF TraceInv, TracePagesAreExact
    <3>2. Len(got) = n BY <2>1
    <3>3. got = [k \in 1..n |-> k] BY <2>1
    <3>4. \E batch \in Seq(Nat), m \in Nat :
            /\ batch = Page(n * RecordSize) /\ m = Len(batch)
            /\ (n + m) * RecordSize <= bytes
            /\ got \o batch = [k \in 1..(n + m) |-> k]
            /\ got \o batch \in Seq(Nat) /\ Len(got \o batch) = n + m
      BY ONLY <3>1, <3>2, <3>3, got \in Seq(Nat), n \in Nat, PageContinues
    <3>5. QED BY <2>2, <3>4
  <2>4. cursor + m * RecordSize = (n + m) * RecordSize
        /\ (n + m) * RecordSize \in Nat
    BY <2>2, TraceAssumption DEF TraceAssumption
  <2> DEFINE more == (n + m) * RecordSize < bytes
  <2>5. /\ traceReader' = [cursor |-> (n + m) * RecordSize, got |-> got \o batch,
                           more |-> more, reads |-> traceReader.reads + 1]
        /\ bytes' = bytes
    BY <1>2, <2>1, <2>3, <2>4 DEF ReadTrace
  <2>6. traceReader.reads + 1 \in Nat /\ bytes \in Nat BY DEF TraceInv
  <2>7. more \in BOOLEAN /\ (more => (n + m) * RecordSize < bytes) OBVIOUS
  <2> HIDE DEF more
  <2>8. /\ traceReader'.cursor = (n + m) * RecordSize /\ traceReader'.got = got \o batch
        /\ traceReader'.more = more
        /\ traceReader' \in [cursor : Nat, got : Seq(Nat), more : BOOLEAN, reads : Nat]
    BY <2>3, <2>4, <2>5, <2>6, <2>7
  <2>9. TracePagesAreExact' BY <2>3, <2>5, <2>7, <2>8 DEF TracePagesAreExact
  <2>10. QED BY <2>3, <2>5, <2>6, <2>8, <2>9 DEF TraceInv
<1>3. CASE UNCHANGED traceVars BY <1>3 DEF traceVars, TraceInv, TracePagesAreExact
<1>4. QED BY <1>1, <1>2, <1>3 DEF TraceNext

(* A client that pages through the trace while the host appends to it has  *)
(* every record once, whole and in order, whatever the sizes of a record   *)
(* and of a page are.                                                       *)
THEOREM TracePagesStayExact == TraceSpec => []TracePagesAreExact
<1>1. TraceInv => TracePagesAreExact BY DEF TraceInv
<1>2. QED BY <1>1, TraceInvInit, TraceInvNext, PTL DEF TraceSpec

-----------------------------------------------------------------------------
(* The options of a session.  Its configuration was accepted, and the        *)
(* restarts keep the dataset of the first session.                          *)

Outcome == {"started", "refused"}

OptionsInv ==
  /\ restarts \in Seq(Outcome)
  /\ config \subseteq Flags /\ ~RefusesOptions(config)
  /\ dataset[2] = 0
  /\ RestartsKeepTheSession

Restarted == {"native", "reopen"} \cup (config \cap Fields)

(* What a restart asks for is never a combination that start refuses: the   *)
(* session of an editor is native, in real time and without a given port.   *)
LEMMA RestartsAreAccepted ==
  ASSUME config \subseteq Flags, ~RefusesOptions(config), "maiden" \in config
  PROVE  /\ ~RefusesOptions(Restarted) /\ Restarted \subseteq Flags
         /\ {"maiden", "reopen", "native"} \subseteq Restarted
         /\ Restarted \cap {"data", "data_seeds", "port"} = {}
<1>1. /\ "controlled" \notin config /\ "port" \notin config
      /\ "profile" \in config \/ "lua_profile" \in config => "install" \in config
  BY DEF RefusesOptions, RealTimeOnly, Requires
<1>2. \A o : o \in Restarted <=>
        \/ o = "native" \/ o = "reopen"
        \/ o \in config /\ o \notin {"native", "data", "data_seeds", "reopen"}
  BY DEF Restarted, Fields
<1>3. {"native", "reopen"} \subseteq Flags BY OptionsAssumption DEF OptionsAssumption, Native
<1> HIDE DEF Restarted
<1>4. ~RefusesOptions(Restarted)
  BY <1>1, <1>2 DEF RefusesOptions, RealTimeOnly, Requires
<1>5. QED BY <1>1, <1>2, <1>3, <1>4

LEMMA OptionsInvInit == OptionsInit => OptionsInv
BY DEF OptionsInit, OptionsInv, DataPath, RestartsKeepTheSession

LEMMA OptionsInvNext == OptionsInv /\ [Restart]_optionVars => OptionsInv'
<1> SUFFICES ASSUME OptionsInv, [Restart]_optionVars PROVE OptionsInv' OBVIOUS
<1>1. CASE Restart
  <2>1. /\ ~RefusesOptions(Restarted) /\ Restarted \subseteq Flags
        /\ {"maiden", "reopen", "native"} \subseteq Restarted
        /\ Restarted \cap {"data", "data_seeds", "port"} = {}
    BY <1>1, RestartsAreAccepted DEF Restart, OptionsInv
  <2>2. /\ restarts' = Append(restarts, "started") /\ config' = Restarted
        /\ dataset' = DataPath(Restarted, Len(restarts) + 1, dataset)
    BY <1>1, <2>1 DEF Restart, Restarted
  <2>3. dataset' = dataset BY <2>1, <2>2 DEF DataPath
  <2>4. /\ restarts' \in Seq(Outcome)
        /\ \A k \in DOMAIN restarts' : restarts'[k] = "started"
    <3>1. \A k \in 1..Len(restarts) : restarts[k] = "started"
      BY LenProperties DEF OptionsInv, RestartsKeepTheSession
    <3>2. "started" \in Outcome /\ restarts \in Seq(Outcome) BY DEF Outcome, OptionsInv
    <3>3. QED BY <2>2, <3>1, <3>2, AppendProperties, LenProperties
  <2>5. RestartsKeepTheSession'
    BY <2>1, <2>2, <2>3, <2>4 DEF RestartsKeepTheSession, OptionsInv
  <2>6. QED BY <2>1, <2>2, <2>3, <2>4, <2>5 DEF OptionsInv
<1>2. CASE UNCHANGED optionVars
  BY <1>2 DEF optionVars, OptionsInv, RestartsKeepTheSession, RefusesOptions, Requires
<1>3. QED BY <1>1, <1>2

(* Every restart of an editor is started, on the dataset of the first       *)
(* session, whatever options it was given.                                  *)
THEOREM SessionIsKept == OptionsSpec => []RestartsKeepTheSession
<1>1. OptionsInv => RestartsKeepTheSession BY DEF OptionsInv
<1>2. QED BY <1>1, OptionsInvInit, OptionsInvNext, PTL DEF OptionsSpec

-----------------------------------------------------------------------------
(* The lane.                                                                *)

(* The limits of a host bound the processor time, the processors and the    *)
(* memory of the lane exactly when envelope_violations finds none.          *)
THEOREM LaneStaysBounded == EnvelopeInit => LaneIsBounded
<1> SUFFICES ASSUME EnvelopeInit PROVE LaneIsBounded OBVIOUS
<1> DEFINE l == machine.limits
<1>1. l \in Limits /\ machine.counters \in BOOLEAN
  BY EnvelopeAssumption DEF EnvelopeAssumption, EnvelopeInit
<1>2. MemoryLimit \in Nat BY EnvelopeAssumption DEF EnvelopeAssumption
<1>3. Mechanism(machine) = "enforced_envelope" <=> Enforced(machine) BY DEF Mechanism
<1>4. Violations(l) = {} <=> /\ ~CpuViolation(l) /\ ~MemoryViolation(l)
                             /\ ~SwapViolation(l) /\ ~CpusetViolation(l)
  BY DEF Violations
<1>5. QED
  BY <1>1, <1>2, <1>3, <1>4
  DEF LaneIsBounded, Enforced, Limits, CpuViolation, MemoryViolation, SwapViolation,
      CpusetViolation, Unlimited

-----------------------------------------------------------------------------
(* The relay.  The pieces of a command that is being written are the last   *)
(* of the stream, since its connection holds the lock; those of any other   *)
(* command follow one another, all of them unless its connection gave up.   *)

Stream == interpreter.read \o interpreter.pipe
Pieces(c) == {k \in 1..Len(Stream) : Stream[k] = c}

RelayTypes ==
  /\ relay \in [holders : SUBSET Editors, sent : Nat, open : SUBSET Editors,
                left : [Editors -> 0..CommandSize], command : [Editors -> Nat]]
  /\ interpreter \in [read : Seq(Nat), pipe : Seq(Nat), running : BOOLEAN]

(* A command is of one connection, and one connection writes at a time.     *)
Locked ==
  /\ \A e, f \in relay.holders : e = f
  /\ \A e, f \in Editors : relay.command[e] = relay.command[f] /\ e # f => relay.command[e] = 0
  /\ \A e \in Editors :
       /\ relay.command[e] <= relay.sent
       /\ e \in relay.holders => e \in relay.open /\ relay.left[e] > 0
       /\ e \notin relay.holders => relay.left[e] \in {0, CommandSize}
       /\ e \notin relay.open => relay.left[e] = 0
       /\ relay.left[e] > 0 => relay.command[e] > 0

(* What a connection has written of its command are the last pieces.        *)
Writing ==
  \A e \in Editors, c \in Nat : relay.left[e] > 0 /\ relay.command[e] = c =>
    Pieces(c) = (Len(Stream) - (CommandSize - relay.left[e]) + 1)..Len(Stream)

Current(c) == \E e \in relay.open : relay.left[e] > 0 /\ relay.command[e] = c
GivenUp(c) == \E e \in Editors \ relay.open : relay.command[e] = c

Consecutive(c) ==
  \E i \in Nat, n \in 0..CommandSize :
    Pieces(c) = (i + 1)..(i + n) /\ (n = CommandSize \/ GivenUp(c))

SentWhole ==
  /\ \A k \in 1..Len(Stream) : Stream[k] \in 1..relay.sent
  /\ \A c \in 1..relay.sent : Current(c) \/ Consecutive(c)

RelayInv == RelayTypes /\ Locked /\ Writing /\ SentWhole

LEMMA SizeTyped == CommandSize \in Nat \ {0} BY RelayAssumption DEF RelayAssumption

LEMMA StreamTyped ==
  ASSUME RelayTypes PROVE Stream \in Seq(Nat) /\ Len(Stream) \in Nat
BY ConcatProperties, LenProperties DEF RelayTypes, Stream

(* The pieces of one command are written, the last ones of the stream.      *)
Grows(c, n) ==
  /\ Len(Stream') = Len(Stream) + n
  /\ \A k \in 1..Len(Stream) : Stream'[k] = Stream[k]
  /\ \A k \in (Len(Stream) + 1)..(Len(Stream) + n) : Stream'[k] = c

LEMMA PiecesGrow ==
  ASSUME RelayTypes, NEW c, NEW n \in Nat, Grows(c, n), NEW d
  PROVE  Pieces(d)' = Pieces(d) \cup
                      (IF d = c THEN (Len(Stream) + 1)..(Len(Stream) + n) ELSE {})
<1>1. Len(Stream) \in Nat BY StreamTyped
<1>2. \A k : k \in Pieces(d)' <=>
        \/ k \in 1..Len(Stream) /\ Stream[k] = d
        \/ k \in (Len(Stream) + 1)..(Len(Stream) + n) /\ c = d
  BY <1>1 DEF Pieces, Grows
<1>3. QED BY <1>2 DEF Pieces

(* What the steps do to the stream.                                         *)
LEMMA WriteGrows ==
  ASSUME RelayTypes, NEW e \in Editors, NEW n \in 1..CommandSize, Write(e, n)
  PROVE  Grows(relay.command[e], n)
<1> DEFINE w == [k \in 1..n |-> relay.command[e]]
           r == interpreter.read
           p == interpreter.pipe
<1>1. r \in Seq(Nat) /\ p \in Seq(Nat) /\ relay.command[e] \in Nat BY DEF RelayTypes
<1>2. w \in Seq(Nat) /\ Len(w) = n /\ \A k \in 1..n : w[k] = relay.command[e]
  BY <1>1, SizeTyped
<1>3. interpreter'.read = r /\ interpreter'.pipe = p \o w BY DEF Write, RelayTypes
<1> HIDE DEF w, r, p
<1>4. (r \o p) \o w = r \o (p \o w) BY <1>1, <1>2, ConcatAssociative
<1>5. Stream' = Stream \o w BY <1>3, <1>4 DEF Stream, r, p
<1>6. Stream \in Seq(Nat) /\ Len(Stream) \in Nat BY StreamTyped
<1>7. PICK s \in Seq(Nat), m \in Nat, x \in Seq(Nat) : s = Stream /\ m = Len(s) /\ x = w
  BY <1>2, <1>6
<1>8. PICK y : y = s \o x OBVIOUS
<1>9. /\ Len(y) = Len(s) + Len(x)
      /\ \A k \in 1..(Len(s) + Len(x)) :
           y[k] = IF k <= Len(s) THEN s[k] ELSE x[k - Len(s)]
  BY <1>7, <1>8, ConcatProperties
<1>10. Len(s) = m /\ Len(x) = n /\ n \in Nat BY <1>2, <1>7, SizeTyped
<1>11. /\ Len(y) = m + n /\ \A k \in 1..m : y[k] = s[k]
       /\ \A k \in (m + 1)..(m + n) : y[k] = relay.command[e]
  BY <1>2, <1>7, <1>9, <1>10
<1>12. QED BY <1>5, <1>7, <1>8, <1>11 DEF Grows

LEMMA InterpretsKeeps ==
  ASSUME RelayTypes, Interprets
  PROVE  Stream' = Stream
<1> DEFINE r == interpreter.read
           p == interpreter.pipe
<1>1. r \in Seq(Nat) /\ p \in Seq(Nat) /\ p # <<>> BY DEF RelayTypes, Interprets
<1>2. interpreter'.read = Append(r, Head(p)) /\ interpreter'.pipe = Tail(p)
  BY DEF Interprets, RelayTypes
<1> HIDE DEF r, p
<1>3. /\ Head(p) \in Nat /\ Head(p) = p[1] /\ Tail(p) \in Seq(Nat)
      /\ Len(p) \in Nat /\ 1 <= Len(p)
  BY <1>1, HeadTailProperties, EmptySeq, LenProperties
<1>4. <<Head(p)>> \o Tail(p) = p
  <2>1. SubSeq(p, 1, Len(p)) = <<p[1]>> \o SubSeq(p, 2, Len(p))
    BY <1>1, <1>3, SubSeqRecursiveFirst
  <2>2. SubSeq(p, 1, Len(p)) = p BY <1>1, SubSeqFull
  <2>3. Tail(p) = SubSeq(p, 2, Len(p)) BY <1>1, TailIsSubSeq
  <2>4. QED BY <1>3, <2>1, <2>2, <2>3
<1>5. Append(r, Head(p)) = r \o <<Head(p)>> BY <1>1, <1>3, AppendIsConcat
<1>6. (r \o <<Head(p)>>) \o Tail(p) = r \o (<<Head(p)>> \o Tail(p))
  <2>1. <<Head(p)>> \in Seq(Nat) BY <1>3
  <2>2. QED BY <1>1, <1>3, <2>1, ConcatAssociative
<1>7. QED BY <1>2, <1>4, <1>5, <1>6 DEF Stream, r, p

(* What is left alone when the stream is.                                   *)
LEMMA StreamStays ==
  ASSUME Stream' = Stream
  PROVE  Len(Stream') = Len(Stream) /\ \A d : Pieces(d)' = Pieces(d)
BY DEF Pieces

(* There is room in the stream for what a connection has written.           *)
LEMMA WrittenFits ==
  ASSUME RelayInv, NEW e \in Editors, relay.left[e] > 0
  PROVE  /\ relay.left[e] \in 1..CommandSize /\ relay.command[e] \in 1..relay.sent
         /\ CommandSize - relay.left[e] <= Len(Stream)
         /\ Pieces(relay.command[e])
              = (Len(Stream) - (CommandSize - relay.left[e]) + 1)..Len(Stream)
<1>1. Len(Stream) \in Nat BY StreamTyped DEF RelayInv
<1>2. relay.left[e] \in 1..CommandSize /\ relay.command[e] \in 1..relay.sent
  BY SizeTyped DEF RelayInv, RelayTypes, Locked
<1>3. PICK c \in Nat, l \in Nat : c = relay.command[e] /\ l = relay.left[e]
  BY <1>2, SizeTyped DEF RelayInv, RelayTypes
<1>4. Pieces(c) = (Len(Stream) - (CommandSize - l) + 1)..Len(Stream)
  BY <1>3 DEF RelayInv, Writing
<1>5. CommandSize - l <= Len(Stream)
  <2>1. SUFFICES ASSUME CommandSize - l > Len(Stream) PROVE FALSE
    BY <1>1, <1>2, <1>3, SizeTyped
  <2>2. Len(Stream) - (CommandSize - l) + 1
          \in (Len(Stream) - (CommandSize - l) + 1)..Len(Stream) \/ Len(Stream) = 0
    BY <1>1, <1>2, <1>3, <2>1, SizeTyped
  <2>3. QED BY <1>1, <1>2, <1>3, <1>4, <2>1, <2>2, SizeTyped DEF Pieces
<1>6. QED BY <1>2, <1>3, <1>4, <1>5

LEMMA RelayInvInit == RelayInit => RelayInv
<1> SUFFICES ASSUME RelayInit PROVE RelayInv OBVIOUS
<1>1. RelayTypes BY SizeTyped DEF RelayInit, RelayTypes
<1>2. /\ relay.holders = {} /\ relay.sent = 0 /\ relay.open = Editors
      /\ \A e \in Editors : relay.left[e] = 0 /\ relay.command[e] = 0
      /\ interpreter.read = <<>> /\ interpreter.pipe = <<>>
  BY DEF RelayInit
<1>3. Len(Stream) = 0 BY <1>2 DEF Stream
<1>4. Locked BY <1>2 DEF Locked
<1>5. Writing BY <1>2 DEF Writing
<1>6. SentWhole BY <1>2, <1>3 DEF SentWhole
<1>7. QED BY <1>1, <1>4, <1>5, <1>6 DEF RelayInv

(* The fields of the relay.                                                 *)
LEMMA RelayFields ==
  ASSUME NEW holders \in SUBSET Editors, NEW sent \in Nat, NEW open \in SUBSET Editors,
         NEW left \in [Editors -> 0..CommandSize], NEW command \in [Editors -> Nat],
         relay' = [holders |-> holders, sent |-> sent, open |-> open,
                   left |-> left, command |-> command],
         interpreter' \in [read : Seq(Nat), pipe : Seq(Nat), running : BOOLEAN]
  PROVE  RelayTypes'
BY DEF RelayTypes

(* A step of the record by its fields.                                      *)
LEMMA RelayIsFields ==
  ASSUME RelayTypes
  PROVE  relay = [holders |-> relay.holders, sent |-> relay.sent, open |-> relay.open,
                  left |-> relay.left, command |-> relay.command]
BY DEF RelayTypes

LEMMA SendKeeps ==
  ASSUME RelayInv, NEW e \in Editors, SendCommand(e)
  PROVE  RelayInv'
<1>1. /\ relay'.holders = relay.holders /\ relay'.open = relay.open
      /\ relay'.sent = relay.sent + 1 /\ e \in relay.open /\ relay.left[e] = 0
      /\ \A f \in Editors :
           /\ relay'.left[f] = IF f = e THEN CommandSize ELSE relay.left[f]
           /\ relay'.command[f] = IF f = e THEN relay.sent + 1 ELSE relay.command[f]
      /\ interpreter' = interpreter
  BY DEF SendCommand, RelayInv, RelayTypes
<1>2. RelayTypes'
  <2> DEFINE left == [relay.left EXCEPT ![e] = CommandSize]
             command == [relay.command EXCEPT ![e] = relay.sent + 1]
  <2>1. /\ relay.holders \in SUBSET Editors /\ relay.sent + 1 \in Nat
        /\ relay.open \in SUBSET Editors /\ left \in [Editors -> 0..CommandSize]
        /\ command \in [Editors -> Nat]
        /\ interpreter' \in [read : Seq(Nat), pipe : Seq(Nat), running : BOOLEAN]
    BY <1>1, SizeTyped DEF RelayInv, RelayTypes
  <2>2. relay' = [holders |-> relay.holders, sent |-> relay.sent + 1, open |-> relay.open,
                  left |-> left, command |-> command]
    BY RelayIsFields DEF SendCommand, RelayInv
  <2> HIDE DEF left, command
  <2>3. QED BY <2>1, <2>2, RelayFields
<1>3. Stream' = Stream BY <1>1 DEF Stream
<1>4. Len(Stream') = Len(Stream) /\ \A d : Pieces(d)' = Pieces(d) BY <1>3, StreamStays
<1>5. relay.sent \in Nat /\ Len(Stream) \in Nat /\ CommandSize \in Nat \ {0}
      /\ \A f \in Editors : relay.command[f] \in Nat
  BY SizeTyped, StreamTyped DEF RelayInv, RelayTypes
<1>6. Locked' BY <1>1, <1>5 DEF RelayInv, Locked
<1>7. Pieces(relay.sent + 1) = {} BY <1>5 DEF RelayInv, SentWhole, Pieces
<1>8. Writing'
  <2>1. SUFFICES ASSUME NEW f \in Editors, NEW c \in Nat, relay'.left[f] > 0,
                        relay'.command[f] = c
                 PROVE  Pieces(c)' = (Len(Stream') - (CommandSize - relay'.left[f]) + 1)
                                        ..Len(Stream')
    BY DEF Writing
  <2>2. CASE f = e
    <3>1. c = relay.sent + 1 /\ relay'.left[f] = CommandSize BY <1>1, <2>1, <2>2
    <3>2. Pieces(c) = {} BY <1>7, <3>1
    <3>3. (Len(Stream) - (CommandSize - CommandSize) + 1)..Len(Stream) = {} BY <1>5
    <3>4. QED BY <1>4, <3>1, <3>2, <3>3
  <2>3. CASE f # e BY <1>1, <1>4, <2>1, <2>3 DEF RelayInv, Writing
  <2>4. QED BY <2>2, <2>3
<1>9. SentWhole'
  <2>1. \A k \in 1..Len(Stream') : Stream'[k] \in 1..relay'.sent
    BY <1>1, <1>3, <1>5 DEF RelayInv, SentWhole
  <2>2. ASSUME NEW c \in 1..relay.sent PROVE Current(c)' \/ Consecutive(c)'
    <3>1. CASE Current(c)
      <4>1. PICK f \in relay.open : relay.left[f] > 0 /\ relay.command[f] = c
        BY <3>1 DEF Current
      <4>2. f \in Editors /\ f # e BY <1>1, <4>1 DEF RelayInv, RelayTypes
      <4>3. QED BY <1>1, <4>1, <4>2 DEF Current
    <3>2. CASE Consecutive(c)
      <4>1. GivenUp(c) => GivenUp(c)' BY <1>1 DEF GivenUp
      <4>2. QED BY <1>4, <3>2, <4>1 DEF Consecutive
    <3>3. QED BY <3>1, <3>2 DEF RelayInv, SentWhole
  <2>3. ASSUME NEW c \in Nat, c = relay.sent + 1 PROVE Current(c)'
    <3>1. relay'.left[e] > 0 /\ relay'.command[e] = c /\ e \in relay'.open
      BY <1>1, <1>5, <2>3
    <3>2. QED BY <3>1 DEF Current
  <2>4. ASSUME NEW c \in 1..relay'.sent PROVE Current(c)' \/ Consecutive(c)'
    <3>1. c \in 1..relay.sent \/ (c \in Nat /\ c = relay.sent + 1) BY <1>1, <1>5, <2>4
    <3>2. QED BY <2>2, <2>3, <3>1
  <2>5. QED BY <2>1, <2>4 DEF SentWhole
<1>10. QED BY <1>2, <1>6, <1>8, <1>9 DEF RelayInv

LEMMA AcquireKeeps ==
  ASSUME RelayInv, NEW e \in Editors, Acquire(e)
  PROVE  RelayInv'
<1>1. /\ relay'.holders = {e} /\ relay.holders = {} /\ relay'.open = relay.open
      /\ relay'.sent = relay.sent /\ e \in relay.open /\ relay.left[e] = CommandSize
      /\ relay'.left = relay.left /\ relay'.command = relay.command
      /\ interpreter' = interpreter
  BY DEF Acquire, Free, RelayInv, RelayTypes
<1>2. RelayTypes' BY <1>1 DEF Acquire, RelayInv, RelayTypes
<1>3. Stream' = Stream BY <1>1 DEF Stream
<1>4. Len(Stream') = Len(Stream) /\ \A d : Pieces(d)' = Pieces(d) BY <1>3, StreamStays
<1>5. Locked' BY <1>1, SizeTyped DEF RelayInv, Locked
<1>6. Writing' BY <1>1, <1>4 DEF RelayInv, Writing
<1>7. SentWhole'
  <2>1. \A c : (Current(c) => Current(c)') /\ (Consecutive(c) => Consecutive(c)')
    BY <1>1, <1>4 DEF Current, Consecutive, GivenUp
  <2>2. QED BY <1>1, <1>3, <2>1 DEF RelayInv, SentWhole
<1>8. QED BY <1>2, <1>5, <1>6, <1>7 DEF RelayInv

LEMMA GivesUpKeeps ==
  ASSUME RelayInv, NEW e \in Editors, GivesUp(e)
  PROVE  RelayInv'
<1>1. /\ relay'.holders = relay.holders \ {e} /\ relay'.open = relay.open \ {e}
      /\ relay'.sent = relay.sent /\ e \in relay.holders
      /\ relay'.command = relay.command
      /\ \A f \in Editors : relay'.left[f] = IF f = e THEN 0 ELSE relay.left[f]
      /\ interpreter' = interpreter
  BY DEF GivesUp, Released, RelayInv, RelayTypes
<1>2. RelayTypes'
  <2> DEFINE left == [relay.left EXCEPT ![e] = 0]
  <2>1. /\ relay.holders \ {e} \in SUBSET Editors /\ relay.sent \in Nat
        /\ relay.open \ {e} \in SUBSET Editors /\ left \in [Editors -> 0..CommandSize]
        /\ relay.command \in [Editors -> Nat]
        /\ interpreter' \in [read : Seq(Nat), pipe : Seq(Nat), running : BOOLEAN]
    BY <1>1, SizeTyped DEF RelayInv, RelayTypes
  <2>2. relay' = [holders |-> relay.holders \ {e}, sent |-> relay.sent,
                  open |-> relay.open \ {e}, left |-> left, command |-> relay.command]
    BY RelayIsFields DEF GivesUp, Released, RelayInv
  <2> HIDE DEF left
  <2>3. QED BY <2>1, <2>2, RelayFields
<1>3. Stream' = Stream BY <1>1 DEF Stream
<1>4. Len(Stream') = Len(Stream) /\ \A d : Pieces(d)' = Pieces(d) BY <1>3, StreamStays
<1>5. Locked' BY <1>1, SizeTyped DEF RelayInv, Locked
<1>6. Writing' BY <1>1, <1>4 DEF RelayInv, Writing
<1>7. SentWhole'
  <2>1. \A k \in 1..Len(Stream') : Stream'[k] \in 1..relay'.sent
    BY <1>1, <1>3 DEF RelayInv, SentWhole
  <2>2. ASSUME NEW c \in 1..relay.sent PROVE Current(c)' \/ Consecutive(c)'
    <3>1. CASE c = relay.command[e]
      <4>1. relay.left[e] > 0 BY <1>1 DEF RelayInv, Locked
      <4>2. /\ relay.left[e] \in 1..CommandSize /\ CommandSize - relay.left[e] <= Len(Stream)
            /\ Pieces(c) = (Len(Stream) - (CommandSize - relay.left[e]) + 1)..Len(Stream)
        BY <3>1, <4>1, WrittenFits
      <4>3. Len(Stream) \in Nat BY StreamTyped DEF RelayInv
      <4>4. PICK n \in 0..CommandSize, i \in Nat :
              n = CommandSize - relay.left[e] /\ i = Len(Stream) - n
        <5>1. PICK n \in 0..CommandSize : n = CommandSize - relay.left[e]
          BY <4>2, SizeTyped
        <5>2. Len(Stream) - n \in Nat BY <4>2, <4>3, <5>1, SizeTyped
        <5>3. QED BY <5>1, <5>2
      <4>5. Pieces(c)' = (i + 1)..(i + n)
        <5>1. n \in Nat /\ i = Len(Stream) - n BY <4>4, SizeTyped
        <5>2. Len(Stream) - n + 1 = i + 1 /\ Len(Stream) = i + n BY <4>3, <5>1
        <5>3. QED BY <1>4, <4>2, <4>4, <5>2
      <4>6. GivenUp(c)' BY <1>1, <3>1 DEF GivenUp
      <4>7. QED BY <4>4, <4>5, <4>6 DEF Consecutive
    <3>2. CASE c # relay.command[e] /\ Current(c)
      BY <1>1, <3>2 DEF Current, RelayInv, RelayTypes
    <3>3. CASE Consecutive(c)
      <4>1. GivenUp(c) => GivenUp(c)' BY <1>1 DEF GivenUp
      <4>2. QED BY <1>4, <3>3, <4>1 DEF Consecutive
    <3>4. QED BY <3>1, <3>2, <3>3 DEF RelayInv, SentWhole
  <2>3. QED BY <1>1, <2>1, <2>2 DEF SentWhole
<1>8. QED BY <1>2, <1>5, <1>6, <1>7 DEF RelayInv

(* What a connection has written, and what it writes now.                   *)
LEMMA JoinedPieces ==
  ASSUME NEW size \in Nat, NEW m \in Nat, NEW l \in 1..size, NEW n \in 1..l, size - l <= m
  PROVE  ((m - (size - l) + 1)..m) \cup ((m + 1)..(m + n))
           = (m + n - (size - (l - n)) + 1)..(m + n)
<1>1. l \in Nat /\ n \in Nat OBVIOUS
<1>2. PICK a \in Nat : a = m - (size - l) BY <1>1
<1>3. m + n - (size - (l - n)) = a BY <1>1, <1>2
<1>4. a <= m BY <1>1, <1>2
<1>5. ((a + 1)..m) \cup ((m + 1)..(m + n)) = (a + 1)..(m + n) BY <1>1, <1>2, <1>4
<1>6. QED BY <1>2, <1>3, <1>5

LEMMA WriteKeeps ==
  ASSUME RelayInv, NEW e \in Editors, NEW n \in 1..CommandSize, Write(e, n)
  PROVE  RelayInv'
<1>0. PICK own \in Nat : own = relay.command[e] BY DEF RelayInv, RelayTypes
<1> DEFINE left == relay.left[e] - n
<1>1. /\ relay'.holders = IF left = 0 THEN relay.holders \ {e} ELSE relay.holders
      /\ relay'.open = relay.open
      /\ relay'.sent = relay.sent /\ e \in relay.holders /\ relay.left[e] > 0
      /\ relay'.command = relay.command /\ n <= relay.left[e]
      /\ \A f \in Editors : relay'.left[f] = IF f = e THEN left ELSE relay.left[f]
  BY SizeTyped DEF Write, Released, RelayInv, RelayTypes, Locked
<1>2. /\ Len(Stream) \in Nat /\ CommandSize \in Nat \ {0} /\ relay.sent \in Nat
      /\ relay.left[e] \in 1..CommandSize /\ left \in 0..(CommandSize - 1) /\ n \in Nat
      /\ own \in 1..relay.sent /\ CommandSize - relay.left[e] <= Len(Stream)
      /\ Pieces(own) = (Len(Stream) - (CommandSize - relay.left[e]) + 1)..Len(Stream)
  <2>1. relay.sent \in Nat BY DEF RelayInv, RelayTypes
  <2>2. QED BY <1>0, <1>1, <2>1, WrittenFits, SizeTyped, StreamTyped DEF RelayInv
<1>3. RelayTypes'
  <2> DEFINE lefts == [relay.left EXCEPT ![e] = left]
             holders == IF left = 0 THEN relay.holders \ {e} ELSE relay.holders
  <2>1. /\ holders \in SUBSET Editors /\ relay.sent \in Nat
        /\ relay.open \in SUBSET Editors /\ lefts \in [Editors -> 0..CommandSize]
        /\ relay.command \in [Editors -> Nat]
    BY <1>2 DEF RelayInv, RelayTypes
  <2>2. interpreter' \in [read : Seq(Nat), pipe : Seq(Nat), running : BOOLEAN]
    <3>0. own \in Nat /\ n \in Nat BY <1>2
    <3>1. [k \in 1..n |-> own] \in Seq(Nat) BY <3>0
    <3>2. PICK w \in Seq(Nat) : w = [k \in 1..n |-> own] BY <3>1
    <3>3. interpreter.pipe \o w \in Seq(Nat) BY ConcatProperties DEF RelayInv, RelayTypes
    <3>4. QED BY <1>0, <3>2, <3>3 DEF Write, RelayInv, RelayTypes
  <2>3. relay' = [holders |-> holders, sent |-> relay.sent, open |-> relay.open,
                  left |-> lefts, command |-> relay.command]
    BY RelayIsFields DEF Write, Released, RelayInv
  <2> HIDE DEF lefts, holders
  <2>4. QED BY <2>1, <2>2, <2>3, RelayFields
<1>4. Grows(own, n) BY <1>0, WriteGrows DEF RelayInv
<1>5. \A d : Pieces(d)' = Pieces(d) \cup
               (IF d = own THEN (Len(Stream) + 1)..(Len(Stream) + n) ELSE {})
  BY <1>2, <1>4, PiecesGrow DEF RelayInv
<1>6. Len(Stream') = Len(Stream) + n BY <1>4 DEF Grows
<1>7. \A f \in Editors : f # e /\ relay.left[f] > 0 =>
        relay.command[f] # own /\ relay.left[f] = CommandSize
  BY <1>0, <1>1, <1>2 DEF RelayInv, Locked
<1>8. Locked'
  <2>1. \A f, g \in relay'.holders : f = g BY <1>1 DEF RelayInv, Locked
  <2>2. ASSUME NEW f \in Editors
        PROVE  /\ relay'.command[f] <= relay'.sent
               /\ f \in relay'.holders => f \in relay'.open /\ relay'.left[f] > 0
               /\ f \notin relay'.holders => relay'.left[f] \in {0, CommandSize}
               /\ f \notin relay'.open => relay'.left[f] = 0
               /\ relay'.left[f] > 0 => relay'.command[f] > 0
    <3>1. CASE f = e
      <4>1. e \in relay.open /\ relay.command[e] > 0 /\ relay.command[e] <= relay.sent
        BY <1>1 DEF RelayInv, Locked
      <4>2. relay'.left[f] = left /\ (e \in relay'.holders <=> left # 0) BY <1>1, <3>1
      <4>3. left = 0 \/ left > 0 BY <1>2
      <4>4. QED BY <1>1, <3>1, <4>1, <4>2, <4>3
    <3>2. CASE f # e
      <4>1. relay'.left[f] = relay.left[f] /\ (f \in relay'.holders <=> f \in relay.holders)
        BY <1>1, <3>2
      <4>2. QED BY <1>1, <4>1 DEF RelayInv, Locked
    <3>3. QED BY <3>1, <3>2
  <2>3. QED BY <1>1, <2>1, <2>2 DEF RelayInv, Locked
<1>9. Pieces(own)' = (Len(Stream) + n - (CommandSize - left) + 1)..(Len(Stream) + n)
  <2>1. PICK m \in Nat, l \in 1..CommandSize : m = Len(Stream) /\ l = relay.left[e]
    BY <1>2
  <2>2. Pieces(own)' = ((m - (CommandSize - l) + 1)..m) \cup ((m + 1)..(m + n))
    BY <1>2, <1>5, <2>1
  <2>3. ((m - (CommandSize - l) + 1)..m) \cup ((m + 1)..(m + n))
          = (m + n - (CommandSize - (l - n)) + 1)..(m + n)
    <3>1. n \in 1..l /\ CommandSize - l <= m BY <1>1, <1>2, <2>1
    <3>2. CommandSize \in Nat /\ m \in Nat /\ l \in 1..CommandSize BY <1>2, <2>1
    <3>3. QED BY ONLY <3>1, <3>2, JoinedPieces
  <2>4. QED BY <2>1, <2>2, <2>3
<1>10. Writing'
  <2>1. SUFFICES ASSUME NEW f \in Editors, NEW c \in Nat, relay'.left[f] > 0,
                        relay'.command[f] = c
                 PROVE  Pieces(c)' = (Len(Stream') - (CommandSize - relay'.left[f]) + 1)
                                        ..Len(Stream')
    BY DEF Writing
  <2>2. CASE f = e
    <3>1. c = own /\ relay'.left[f] = left BY <1>0, <1>1, <2>1, <2>2
    <3>2. Pieces(c)' = (Len(Stream) + n - (CommandSize - left) + 1)..(Len(Stream) + n)
      BY <1>9, <3>1
    <3>3. PICK m \in Nat, k \in Nat : m = Len(Stream) + n /\ k = left BY <1>2
    <3>4. Len(Stream') = m /\ relay'.left[f] = k BY <1>6, <3>1, <3>3
    <3>5. Pieces(c)' = (m - (CommandSize - k) + 1)..m BY <1>2, <3>2, <3>3
    <3>6. QED BY <3>4, <3>5
  <2>3. CASE f # e
    <3>1. c # own /\ relay.left[f] = CommandSize /\ relay'.left[f] = CommandSize
      BY <1>1, <1>7, <2>1, <2>3
    <3>2. Pieces(c)' = Pieces(c) BY <1>5, <3>1
    <3>3. Pieces(c) = (Len(Stream) - (CommandSize - CommandSize) + 1)..Len(Stream)
      BY <1>1, <1>2, <2>1, <3>1 DEF RelayInv, Writing
    <3>4. QED BY <1>2, <1>6, <3>1, <3>2, <3>3
  <2>4. QED BY <2>2, <2>3
<1>11. SentWhole'
  <2>1. ASSUME NEW k \in 1..Len(Stream') PROVE Stream'[k] \in 1..relay'.sent
    <3>1. k \in 1..Len(Stream) \/ k \in (Len(Stream) + 1)..(Len(Stream) + n)
      BY <1>2, <1>6, <2>1
    <3>2. Stream'[k] = own \/ (k \in 1..Len(Stream) /\ Stream'[k] = Stream[k])
      BY <1>4, <3>1 DEF Grows
    <3>3. QED BY <1>1, <1>2, <3>2 DEF RelayInv, SentWhole
  <2>2. ASSUME NEW c \in 1..relay.sent PROVE Current(c)' \/ Consecutive(c)'
    <3>1. CASE c = own /\ left > 0
      <4>1. e \in relay.open BY <1>1 DEF RelayInv, Locked
      <4>2. QED BY <1>0, <1>1, <3>1, <4>1 DEF Current
    <3>2. CASE c = own /\ left = 0
      <4>0. n = relay.left[e] BY <1>2, <3>2
      <4>1. PICK i \in Nat : i = Len(Stream) + n - CommandSize BY <1>2, <4>0
      <4>2. Pieces(c)' = (i + 1)..(i + CommandSize)
        <5>1. PICK m \in Nat : m = Len(Stream) BY <1>2
        <5>2. m + n - (CommandSize - 0) + 1 = i + 1 /\ m + n = i + CommandSize
          BY <1>2, <4>1, <5>1
        <5>3. Pieces(c)' = (m + n - (CommandSize - 0) + 1)..(m + n) BY <1>9, <3>2, <5>1
        <5>4. QED BY <5>2, <5>3
      <4>3. CommandSize \in 0..CommandSize BY <1>2
      <4>4. QED BY <4>1, <4>2, <4>3 DEF Consecutive
    <3>3. CASE c # own /\ Current(c)
      BY <1>0, <1>1, <3>3 DEF Current, RelayInv, RelayTypes
    <3>4. CASE c # own /\ Consecutive(c)
      <4>1. Pieces(c)' = Pieces(c) BY <1>5, <3>4
      <4>2. GivenUp(c) => GivenUp(c)' BY <1>1 DEF GivenUp
      <4>3. QED BY <3>4, <4>1, <4>2 DEF Consecutive
    <3>5. QED BY <1>2, <3>1, <3>2, <3>3, <3>4 DEF RelayInv, SentWhole
  <2>3. QED BY <1>1, <2>1, <2>2 DEF SentWhole
<1>12. QED BY <1>3, <1>8, <1>10, <1>11 DEF RelayInv

LEMMA InterpreterKeeps ==
  ASSUME RelayInv, Interprets \/ InterpreterExits \/ UNCHANGED relayVars
  PROVE  RelayInv'
<1>1. relay' = relay BY DEF Interprets, InterpreterExits, relayVars
<1>2. interpreter' \in [read : Seq(Nat), pipe : Seq(Nat), running : BOOLEAN] /\ Stream' = Stream
  <2>1. CASE Interprets
    <3>1. /\ interpreter.read \in Seq(Nat) /\ interpreter.pipe \in Seq(Nat)
          /\ interpreter.pipe # <<>>
      BY <2>1 DEF Interprets, RelayInv, RelayTypes
    <3>2. Head(interpreter.pipe) \in Nat /\ Tail(interpreter.pipe) \in Seq(Nat)
      BY <3>1, HeadTailProperties
    <3>3. Append(interpreter.read, Head(interpreter.pipe)) \in Seq(Nat)
      BY <3>1, <3>2, AppendProperties
    <3>4. QED BY <2>1, <3>2, <3>3, InterpretsKeeps DEF Interprets, RelayInv, RelayTypes
  <2>2. CASE InterpreterExits \/ UNCHANGED relayVars
    BY <2>2 DEF InterpreterExits, relayVars, Stream, RelayInv, RelayTypes
  <2>3. QED BY <2>1, <2>2
<1>3. Len(Stream') = Len(Stream) /\ \A d : Pieces(d)' = Pieces(d) BY <1>2, StreamStays
<1>4. RelayTypes' /\ Locked' BY <1>1, <1>2 DEF RelayInv, RelayTypes, Locked
<1>5. Writing' BY <1>1, <1>3 DEF RelayInv, Writing
<1>6. SentWhole'
  <2>1. \A c : (Current(c) => Current(c)') /\ (Consecutive(c) => Consecutive(c)')
    BY <1>1, <1>3 DEF Current, Consecutive, GivenUp
  <2>2. QED BY <1>1, <1>2, <2>1 DEF RelayInv, SentWhole
<1>7. QED BY <1>4, <1>5, <1>6 DEF RelayInv

LEMMA RelayInvNext == RelayInv /\ [RelayNext]_relayVars => RelayInv'
BY SendKeeps, AcquireKeeps, GivesUpKeeps, WriteKeeps, InterpreterKeeps DEF RelayNext

LEMMA RelayInvIsWhole == RelayInv => CommandsAreWhole
<1> SUFFICES ASSUME RelayInv PROVE CommandsAreWhole OBVIOUS
<1>1. Stream \in Seq(Nat) /\ Len(Stream) \in Nat /\ DOMAIN Stream = 1..Len(Stream)
  BY StreamTyped, LenProperties DEF RelayInv
<1>2. SUFFICES ASSUME NEW c \in ToSet(Stream)
               PROVE  /\ \A j, k \in Pieces(c) : \A i \in j..k : i \in Pieces(c)
                      /\ \/ Cardinality(Pieces(c)) = CommandSize
                         \/ c = Last(Stream)
                         \/ GivenUp(c)
  BY <1>1 DEF CommandsAreWhole, Stream, Pieces, GivenUp
<1>3. PICK p \in 1..Len(Stream) : Stream[p] = c BY <1>1 DEF ToSet
<1>4. p \in Pieces(c) /\ c \in 1..relay.sent BY <1>3 DEF Pieces, RelayInv, SentWhole
<1>5. CASE Current(c)
  <2>1. PICK e \in relay.open : relay.left[e] > 0 /\ relay.command[e] = c
    BY <1>5 DEF Current
  <2>2. e \in Editors BY DEF RelayInv, RelayTypes
  <2>3. /\ relay.left[e] \in 1..CommandSize
        /\ Pieces(c) = (Len(Stream) - (CommandSize - relay.left[e]) + 1)..Len(Stream)
    BY <2>1, <2>2, WrittenFits
  <2>4. Len(Stream) \in Pieces(c) BY <1>1, <1>3, <1>4, <2>3, SizeTyped
  <2>5. c = Last(Stream) BY <2>4 DEF Pieces, Last
  <2>6. PICK a \in Int : Pieces(c) = a..Len(Stream) BY <1>1, <2>3, SizeTyped
  <2>7. \A j, k \in Pieces(c) : \A i \in j..k : i \in Pieces(c) BY <1>1, <2>6
  <2>8. QED BY <2>5, <2>7
<1>6. CASE Consecutive(c)
  <2>1. PICK i \in Nat, n \in 0..CommandSize :
          Pieces(c) = (i + 1)..(i + n) /\ (n = CommandSize \/ GivenUp(c))
    BY <1>6 DEF Consecutive
  <2>2. n \in Nat BY SizeTyped
  <2>3. Cardinality((i + 1)..(i + n)) = n BY <2>2, FS_Interval
  <2>4. QED BY <2>1, <2>2, <2>3
<1>7. QED BY <1>4, <1>5, <1>6 DEF RelayInv, SentWhole

(* The commands of any number of editors reach an interpreter one after     *)
(* another, each whole but for that of a connection that gave up, however   *)
(* the pipe cuts them.                                                      *)
THEOREM CommandsStayWhole == RelaySpec => []CommandsAreWhole
BY RelayInvInit, RelayInvNext, RelayInvIsWhole, PTL DEF RelaySpec

-----------------------------------------------------------------------------
(* Crow captures.  A host reads the commands of a server that waits for     *)
(* each answer, until it stalls and a call gives up; it then reads one more *)
(* at most, which was sent when the server still knew its capture.          *)

Ops == {"none", "start", "status", "cancel", "inject"}
EndEvents == {"complete", "cancelled", "cancel_complete"}
Statuses == {"starting", "capturing", "complete", "cancelled"}
CrowCommands == [op : {"start", "cancel", "input"}, id : Nat]
CrowReplies == [event : {"started", "input"} \cup EndEvents, id : Nat]

HostFields ==
  [at : {"poll", "command"}, buffer : Nat, id : Nat, files : SUBSET Nat,
   stalled : BOOLEAN, ended : BOOLEAN, refused : BOOLEAN]

CrowTypes ==
  /\ job \in [status : Seq(Statuses), active : Nat, inputs : Nat]
  /\ call \in [op : Ops, job : Nat, replies : Nat]
  /\ commands \in Seq(CrowCommands) /\ replies \in Seq(CrowReplies)
  /\ host \in HostFields

JobCount == Len(job.status)
EndReported == \E k \in 1..Len(replies) : replies[k].event \in EndEvents

(* Once all replies are taken the server's active job is the host's.        *)
Settles ==
  /\ host.buffer # 0 => job.active = host.buffer /\ ~EndReported
  /\ host.buffer = 0 => job.active = 0 \/ EndReported

(* The host reads no command any more; there is one that it will not read.  *)
Deaf == host.ended \/ (host.stalled /\ host.at = "poll")
Unread == Deaf /\ Len(commands) > 0

(* What is known or reported of a job is true of the files of the host, and *)
(* stays it: the captures of the host are in the order of their ids.        *)
Filed ==
  /\ ~host.refused
  /\ host.id \in 0..JobCount /\ host.buffer \in {0, host.id} /\ job.active \in 0..JobCount
  /\ \A i \in host.files : i \in 1..host.id /\ i # host.buffer
  /\ \A i \in 1..JobCount :
       /\ job.status[i] = "complete" => i \in host.files
       /\ job.status[i] = "cancelled" => i <= host.id /\ i \notin host.files /\ i # host.buffer
  /\ \A k \in 1..Len(replies) :
       /\ replies[k].event # "input" => replies[k].id \in 1..host.id
       /\ replies[k].event \in {"complete", "cancel_complete"} => replies[k].id \in host.files
       /\ replies[k].event = "cancelled" =>
            replies[k].id \notin host.files /\ replies[k].id # host.buffer
  /\ \A k \in 1..Len(commands) : commands[k].op # "input" => commands[k].id \in 1..JobCount

(* The next command that the host reads is one that it takes.               *)
Takes ==
  Len(commands) > 0 /\ ~Deaf =>
    /\ commands[1].op = "start" => host.buffer = 0 /\ host.id < commands[1].id
    /\ commands[1].op = "cancel" =>
         /\ commands[1].id = host.id
         /\ host.buffer = commands[1].id \/ commands[1].id \in host.files

(* While it is the only one, its answer settles what the server knows.      *)
Only ==
  Len(commands) = 1 /\ ~Deaf =>
    /\ commands[1].op = "start" => job.active = commands[1].id /\ ~EndReported
    /\ commands[1].op = "cancel" =>
         job.active \in {0, commands[1].id} /\ (host.buffer # 0 => Settles)
    /\ commands[1].op = "input" => Settles

(* The capture that runs, begins or ends is the active one.                 *)
Followed ==
  ~Unread =>
    /\ \A i \in 1..JobCount : job.status[i] = "capturing" => job.active = i
    /\ \A k \in 1..Len(replies) :
         /\ replies[k].event = "started" => replies[k].id = job.active
         /\ replies[k].event \in EndEvents => job.active \in {0, replies[k].id}
    /\ \A j, k \in 1..Len(replies) :
         j < k /\ replies[j].event \in EndEvents => replies[k].event # "started"

Answering == Len(commands) = 0 => Settles

(* Only a host that has stalled or ended leaves a call without its answer.  *)
Abandoned ==
  /\ Len(commands) > 0 /\ call.replies = 0 => host.stalled \/ host.ended
  /\ Len(commands) > 1 => host.stalled \/ host.ended

(* Before the answer of a command there is the end of the capture at most.  *)
Waited ==
  ~host.stalled /\ ~host.ended /\ Len(commands) > 0 =>
    /\ call.replies > 0
    /\ \/ call.op = "start" /\ commands[1].op = "start"
       \/ call.op = "cancel" /\ commands[1].op = "cancel"
       \/ call.op = "inject" /\ commands[1].op = "input"
    /\ host.buffer # 0 => call.replies = 1 /\ Len(replies) = 0
    /\ Len(replies) > 0 =>
         /\ Len(replies) = 1 /\ replies[1].event = "complete"
         /\ call.replies = 1 /\ call.op # "start"

Called ==
  /\ call.op = "start" /\ call.replies = 0 => call.job = JobCount + 1
  /\ call.op \in {"cancel", "status"} => call.job \in 1..JobCount
  /\ call.op = "none" => call.replies = 0

CrowInv ==
  CrowTypes /\ Filed /\ Takes /\ Only /\ Followed /\ Answering /\ Abandoned /\ Waited /\ Called

LEMMA CrowLengths ==
  ASSUME CrowTypes
  PROVE  /\ JobCount \in Nat /\ Len(commands) \in Nat /\ Len(replies) \in Nat
         /\ DOMAIN job.status = 1..JobCount
         /\ (commands = <<>> <=> Len(commands) = 0) /\ (replies = <<>> <=> Len(replies) = 0)
         /\ \A k \in 1..Len(commands) : commands[k] \in CrowCommands
         /\ \A k \in 1..Len(replies) : replies[k] \in CrowReplies
         /\ \A i \in 1..JobCount : job.status[i] \in Statuses
<1>1. job.status \in Seq(Statuses) BY DEF CrowTypes
<1>2. commands \in Seq(CrowCommands) /\ replies \in Seq(CrowReplies) BY DEF CrowTypes
<1>3. QED BY <1>1, <1>2, LenProperties, EmptySeq, ElementOfSeq DEF JobCount

-----------------------------------------------------------------------------
(* The steps, field by field.                                               *)

JobStays ==
  /\ JobCount' = JobCount /\ job'.active = job.active
  /\ \A i \in 1..JobCount : job'.status[i] = job.status[i]
CallIs(op, i, n) == call'.op = op /\ call'.job = i /\ call'.replies = n
HostIs(at, buffer, id, files, stalled, ended) ==
  /\ host'.at = at /\ host'.buffer = buffer /\ host'.id = id /\ host'.files = files
  /\ (host'.stalled <=> stalled) /\ (host'.ended <=> ended) /\ ~host'.refused

Taken ==
  /\ Len(replies) > 0 /\ Len(replies') = Len(replies) - 1
  /\ \A k \in 1..(Len(replies) - 1) : replies'[k] = replies[k + 1]
  /\ JobCount' = JobCount
  /\ replies[1].event = "input" => JobStays
  /\ replies[1].event # "input" =>
       /\ \A i \in 1..JobCount :
            job'.status[i] = IF i = replies[1].id THEN Became(replies[1].event)
                             ELSE job.status[i]
       /\ job'.active = IF replies[1].event = "started" THEN job.active ELSE 0

SentCommand(op, id) ==
  /\ Len(commands') = Len(commands) + 1
  /\ \A k \in 1..Len(commands) : commands'[k] = commands[k]
  /\ commands'[Len(commands) + 1].op = op /\ commands'[Len(commands) + 1].id = id

Replied(event, id) ==
  /\ Len(replies') = Len(replies) + 1
  /\ \A k \in 1..Len(replies) : replies'[k] = replies[k]
  /\ replies'[Len(replies) + 1].event = event /\ replies'[Len(replies) + 1].id = id

LEMMA TakeIsTaken ==
  ASSUME CrowTypes, Filed, replies # <<>>, Take
  PROVE  Taken /\ job' \in [status : Seq(Statuses), active : Nat, inputs : Nat]
         /\ replies' \in Seq(CrowReplies)
<1>1. /\ replies \in Seq(CrowReplies) /\ Len(replies) > 0 /\ Len(replies) \in Nat
      /\ Head(replies) = replies[1] /\ replies[1] \in CrowReplies
  BY CrowLengths DEF CrowTypes
<1>2. /\ Tail(replies) \in Seq(CrowReplies) /\ Len(Tail(replies)) = Len(replies) - 1
      /\ \A k \in 1..(Len(replies) - 1) : Tail(replies)[k] = replies[k + 1]
  <2>1. \A k \in 1..Len(Tail(replies)) : Tail(replies)[k] = replies[k + 1]
    BY <1>1, HeadTailProperties
  <2>2. QED BY <1>1, <2>1, HeadTailProperties
<1>3. PICK r \in CrowReplies : r = replies[1] BY <1>1
<1>4. CASE r.event = "input"
  BY <1>1, <1>2, <1>3, <1>4 DEF Take, After, Taken, JobStays, JobCount, CrowTypes
<1>5. CASE r.event # "input"
  <2>1. r.id \in 1..JobCount /\ Became(r.event) \in Statuses
    <3>1. r.id \in 1..host.id BY <1>1, <1>3, <1>5 DEF Filed
    <3>2. host.id \in 0..JobCount /\ JobCount \in Nat BY CrowLengths DEF Filed
    <3>3. r.event \in {"started", "complete", "cancelled", "cancel_complete"}
      BY <1>3, <1>5 DEF CrowReplies, EndEvents
    <3>4. Became(r.event) \in Statuses BY <3>3 DEF Became, Statuses
    <3>5. QED BY <3>1, <3>2, <3>4
  <2> DEFINE status == [job.status EXCEPT ![r.id] = Became(r.event)]
             active == IF r.event = "started" THEN job.active ELSE 0
  <2>2. /\ status \in Seq(Statuses) /\ Len(status) = JobCount
        /\ \A i \in 1..JobCount :
             status[i] = IF i = r.id THEN Became(r.event) ELSE job.status[i]
    BY <2>1, ExceptSeq, LenProperties DEF CrowTypes, JobCount
  <2>3. active \in Nat BY DEF CrowTypes
  <2>4. job' = [status |-> status, active |-> active, inputs |-> job.inputs]
    BY <1>1, <1>3, <1>5 DEF Take, After, CrowTypes
  <2>5. job.inputs \in Nat BY DEF CrowTypes
  <2> HIDE DEF status
  <2>6. /\ job'.status = status /\ job'.active = active
        /\ job' \in [status : Seq(Statuses), active : Nat, inputs : Nat]
    BY <2>2, <2>3, <2>4, <2>5
  <2>7. QED BY <1>1, <1>2, <1>3, <1>5, <2>2, <2>6 DEF Take, Taken, JobCount
<1>6. QED BY <1>4, <1>5

(* What the server's jobs have to do with the host, when a reply is taken.  *)
LEMMA TakenKeeps ==
  ASSUME CrowTypes, Filed, Takes, Only, Followed, Answering,
         Taken, commands' = commands, host' = host
  PROVE  Filed' /\ Takes' /\ Only' /\ Followed' /\ Answering'
<1> DEFINE r == replies[1]
<1>1. /\ JobCount \in Nat /\ Len(replies) \in Nat /\ Len(replies) > 0
      /\ Len(commands) \in Nat /\ r \in CrowReplies
      /\ host.id \in 0..JobCount /\ job.active \in 0..JobCount
  BY CrowLengths DEF Taken, Filed
<1>2. /\ JobCount' = JobCount /\ Len(replies') = Len(replies) - 1
      /\ \A k \in 1..(Len(replies) - 1) : replies'[k] = replies[k + 1]
  BY DEF Taken
<1>3. /\ Deaf' <=> Deaf
      /\ Unread' <=> Unread
  BY DEF Deaf, Unread
<1>4. job'.active = IF r.event \in EndEvents THEN 0 ELSE job.active
  BY <1>1 DEF Taken, JobStays, CrowReplies, EndEvents
<1>5. \A i \in 1..JobCount :
        job'.status[i] = IF r.event # "input" /\ i = r.id THEN Became(r.event) ELSE job.status[i]
  BY DEF Taken, JobStays
<1>6. EndReported' => EndReported BY <1>1, <1>2 DEF EndReported
<1>7. EndReported => r.event \in EndEvents \/ EndReported'
  <2>1. SUFFICES ASSUME NEW k \in 1..Len(replies), replies[k].event \in EndEvents, k # 1
                 PROVE  EndReported'
    BY DEF EndReported
  <2>2. PICK j \in 1..(Len(replies) - 1) : k = j + 1 BY <1>1, <2>1
  <2>3. QED BY <1>1, <1>2, <2>1, <2>2 DEF EndReported
<1>8. r.event \in EndEvents => EndReported BY <1>1 DEF EndReported
<1>9. Settles => Settles' BY <1>4, <1>6, <1>7, <1>8 DEF Settles
<1>10. r.event # "input" =>
         /\ r.id \in 1..host.id
         /\ r.event \in {"complete", "cancel_complete"} => r.id \in host.files
         /\ r.event = "cancelled" => r.id \notin host.files /\ r.id # host.buffer
  BY <1>1 DEF Filed
<1>11. Filed'
  <2>1. ASSUME NEW i \in 1..JobCount
        PROVE  /\ job'.status[i] = "complete" => i \in host.files
               /\ job'.status[i] = "cancelled" =>
                    i <= host.id /\ i \notin host.files /\ i # host.buffer
    <3>1. CASE r.event # "input" /\ i = r.id
      <4>1. job'.status[i] = Became(r.event) BY <1>5, <3>1
      <4>2. r.event \in {"started", "complete", "cancelled", "cancel_complete"}
        BY <1>1, <3>1 DEF CrowReplies, EndEvents
      <4>3. QED BY <1>1, <1>10, <3>1, <4>1, <4>2 DEF Became
    <3>2. CASE ~(r.event # "input" /\ i = r.id) BY <1>5, <3>2 DEF Filed
    <3>3. QED BY <3>1, <3>2
  <2>2. ASSUME NEW k \in 1..Len(replies')
        PROVE  /\ replies'[k].event # "input" => replies'[k].id \in 1..host.id
               /\ replies'[k].event \in {"complete", "cancel_complete"} =>
                    replies'[k].id \in host.files
               /\ replies'[k].event = "cancelled" =>
                    replies'[k].id \notin host.files /\ replies'[k].id # host.buffer
    <3>1. k + 1 \in 1..Len(replies) /\ replies'[k] = replies[k + 1] BY <1>1, <1>2, <2>2
    <3>2. QED BY <3>1 DEF Filed
  <2>3. job'.active \in 0..JobCount BY <1>1, <1>4
  <2>4. QED BY <1>2, <2>1, <2>2, <2>3 DEF Filed
<1>12. Takes' BY <1>3 DEF Takes
<1>13. Only' BY <1>3, <1>4, <1>6, <1>7, <1>8, <1>9 DEF Only, Settles
<1>14. Followed'
  <2>1. SUFFICES ASSUME ~Unread PROVE Followed' BY <1>3 DEF Followed
  <2>2. ASSUME NEW i \in 1..JobCount, job'.status[i] = "capturing" PROVE job'.active = i
    <3>1. CASE r.event # "input" /\ i = r.id
      <4>1. job'.status[i] = Became(r.event) BY <1>5, <3>1
      <4>2. r.event \in {"started", "complete", "cancelled", "cancel_complete"}
        BY <1>1, <3>1 DEF CrowReplies, EndEvents
      <4>3. r.event = "started" BY <2>2, <4>1, <4>2 DEF Became
      <4>4. QED BY <1>1, <1>4, <2>1, <3>1, <4>3 DEF Followed, EndEvents
    <3>2. CASE ~(r.event # "input" /\ i = r.id)
      <4>1. job.active = i BY <1>5, <2>1, <2>2, <3>2 DEF Followed
      <4>2. r.event \in EndEvents => r.event # "input" /\ job.active \in {0, r.id}
        BY <1>1, <2>1 DEF Followed, EndEvents
      <4>3. QED BY <1>1, <1>4, <2>2, <3>2, <4>1, <4>2
    <3>3. QED BY <3>1, <3>2
  <2>3. ASSUME NEW k \in 1..Len(replies')
        PROVE  /\ replies'[k].event = "started" => replies'[k].id = job'.active
               /\ replies'[k].event \in EndEvents => job'.active \in {0, replies'[k].id}
    <3>1. k + 1 \in 1..Len(replies) /\ replies'[k] = replies[k + 1] /\ 1 < k + 1
      BY <1>1, <1>2, <2>3
    <3>2. QED BY <1>1, <1>4, <2>1, <3>1 DEF Followed
  <2>4. ASSUME NEW j \in 1..Len(replies'), NEW k \in 1..Len(replies'),
               j < k, replies'[j].event \in EndEvents
        PROVE  replies'[k].event # "started"
    <3>1. /\ j + 1 \in 1..Len(replies) /\ replies'[j] = replies[j + 1]
          /\ k + 1 \in 1..Len(replies) /\ replies'[k] = replies[k + 1] /\ j + 1 < k + 1
      BY <1>1, <1>2, <2>4
    <3>2. QED BY <2>1, <2>4, <3>1 DEF Followed
  <2>5. QED BY <1>2, <2>2, <2>3, <2>4 DEF Followed
<1>15. Answering' BY <1>9 DEF Answering
<1>16. QED BY <1>11, <1>12, <1>13, <1>14, <1>15

LEMMA DrainKeeps ==
  ASSUME CrowInv, Drain
  PROVE  CrowInv'
<1>1. /\ Taken /\ job' \in [status : Seq(Statuses), active : Nat, inputs : Nat]
      /\ replies' \in Seq(CrowReplies)
  BY TakeIsTaken DEF Drain, CrowInv
<1>2. commands' = commands /\ host' = host /\ call' = call BY DEF Drain
<1>3. Filed' /\ Takes' /\ Only' /\ Followed' /\ Answering'
  BY <1>1, <1>2, TakenKeeps DEF CrowInv
<1>4. CrowTypes' BY <1>1, <1>2 DEF CrowInv, CrowTypes
<1>5. Abandoned' BY <1>2 DEF CrowInv, Abandoned
<1>6. Waited' BY <1>2 DEF CrowInv, Waited, Drain
<1>7. Called' BY <1>1, <1>2 DEF CrowInv, Called, Taken
<1>8. QED BY <1>3, <1>4, <1>5, <1>6, <1>7 DEF CrowInv

LEMMA AwaitKeeps ==
  ASSUME CrowInv, Await
  PROVE  CrowInv'
<1>1. /\ Taken /\ job' \in [status : Seq(Statuses), active : Nat, inputs : Nat]
      /\ replies' \in Seq(CrowReplies)
  BY TakeIsTaken DEF Await, CrowInv
<1>2. /\ commands' = commands /\ host' = host /\ call.replies > 0 /\ Len(replies) > 0
      /\ Head(replies) = replies[1] /\ replies[1] \in CrowReplies /\ call.replies \in Nat
      /\ Len(replies') = Len(replies) - 1 /\ Len(replies) \in Nat
  BY <1>1, CrowLengths DEF Await, CrowInv, Taken, CrowTypes
<1>3. \/ ReadsOn(replies[1]) /\ CallIs(call.op, call.job, call.replies + 1)
      \/ ~ReadsOn(replies[1]) /\ CallIs("none", 0, 0)
  BY <1>2 DEF Await, Returns, Idle, CallIs, CrowInv, CrowTypes
<1>4. Filed' /\ Takes' /\ Only' /\ Followed' /\ Answering'
  BY <1>1, <1>2, TakenKeeps DEF CrowInv
<1>5. CrowTypes'
  <2>1. call \in [op : Ops, job : Nat, replies : Nat] BY DEF CrowInv, CrowTypes
  <2>2. Idle \in [op : Ops, job : Nat, replies : Nat] BY DEF Idle, Ops
  <2>3. call' \in [op : Ops, job : Nat, replies : Nat] BY <2>1, <2>2 DEF Await, Returns
  <2>4. QED BY <1>1, <1>2, <2>3 DEF CrowInv, CrowTypes
<1>6. ~host.stalled /\ ~host.ended /\ Len(commands) > 0 =>
        /\ ReadsOn(replies[1]) /\ Len(replies) = 1 /\ call.replies = 1
        /\ host.buffer = 0
  BY <1>2 DEF CrowInv, Waited, ReadsOn
<1>7. Abandoned' BY <1>2, <1>3, <1>6 DEF CrowInv, Abandoned, CallIs
<1>8. Waited' BY <1>2, <1>3, <1>6 DEF CrowInv, Waited, CallIs
<1>9. Called' BY <1>1, <1>2, <1>3 DEF CrowInv, Called, CallIs, ReadsOn, Taken
<1>10. QED BY <1>4, <1>5, <1>7, <1>8, <1>9 DEF CrowInv

(* What the host knows is left alone by a step of the server alone.         *)
LEMMA ServerAlone ==
  ASSUME CrowInv, job' = job, commands' = commands, replies' = replies, host' = host
  PROVE  Filed' /\ Takes' /\ Only' /\ Followed' /\ Answering'
<1>1. (Deaf' <=> Deaf) /\ (Unread' <=> Unread) BY DEF Deaf, Unread
<1>2. JobCount' = JobCount /\ (EndReported' <=> EndReported) /\ (Settles' <=> Settles)
  BY DEF JobCount, EndReported, Settles
<1>3. QED
  BY <1>1, <1>2 DEF CrowInv, Filed, Takes, Only, Followed, Answering

LEMMA CallsKeep ==
  ASSUME CrowInv, NEW op \in Ops, NEW i \in Nat, call' = [op |-> op, job |-> i, replies |-> 0],
         job' = job, commands' = commands, replies' = replies, host' = host,
         Len(commands) > 0 => host.stalled \/ host.ended,
         op = "start" => i = JobCount + 1, op \in {"cancel", "status"} => i \in 1..JobCount
  PROVE  CrowInv'
<1>1. Filed' /\ Takes' /\ Only' /\ Followed' /\ Answering' BY ServerAlone
<1>2. CrowTypes' BY DEF CrowInv, CrowTypes
<1>3. Abandoned' BY DEF CrowInv, Abandoned
<1>4. Waited' BY DEF CrowInv, Waited
<1>5. Called' BY DEF CrowInv, Called, JobCount
<1>6. QED BY <1>1, <1>2, <1>3, <1>4, <1>5 DEF CrowInv

LEMMA BeginKeeps ==
  ASSUME CrowInv, NEW op \in {"start", "status", "cancel", "inject"}, NEW i \in 0..MaxJobs,
         Begin(op, i)
  PROVE  CrowInv'
<1>1. i \in Nat BY CrowAssumption DEF CrowAssumption
<1>2. op \in Ops BY DEF Ops
<1>3. call.replies = 0 BY DEF Begin, Idle
<1>4. /\ Len(commands) > 0 => host.stalled \/ host.ended
      /\ DOMAIN job.status = 1..JobCount
  BY <1>3, CrowLengths DEF CrowInv, Abandoned
<1>5. op = "start" => i = JobCount + 1 BY DEF Begin, JobCount
<1>6. op \in {"cancel", "status"} => i \in 1..JobCount BY <1>4 DEF Begin
<1>7. QED BY <1>1, <1>2, <1>4, <1>5, <1>6, CallsKeep DEF Begin

LEMMA TimesOutKeeps ==
  ASSUME CrowInv, TimesOut
  PROVE  CrowInv'
<1>1. call' = [op |-> "none", job |-> 0, replies |-> 0] BY DEF TimesOut, Returns, Idle
<1>2. "none" \in Ops BY DEF Ops
<1>3. QED BY <1>1, <1>2, CallsKeep DEF TimesOut

(* A call that sends: what it knows is what the host will find.             *)
LEMMA SendsKeeps ==
  ASSUME CrowInv, NEW op \in {"start", "cancel", "input"}, NEW id \in Nat,
         call.op # "none", call.replies = 0, Len(replies) = 0,
         SentCommand(op, id), commands' \in Seq(CrowCommands),
         call' = [call EXCEPT !.replies = 1], replies' = replies, host' = host,
         job' \in [status : Seq(Statuses), active : Nat, inputs : Nat],
         \/ /\ call.op = "start" /\ op = "start" /\ id = JobCount + 1
            /\ job.active = 0 /\ JobCount' = JobCount + 1 /\ job'.active = id
            /\ \A i \in 1..JobCount : job'.status[i] = job.status[i]
            /\ job'.status[JobCount + 1] = "starting"
         \/ /\ call.op = "cancel" /\ op = "cancel" /\ id \in 1..JobCount
            /\ job.status[id] = "capturing" /\ JobStays
         \/ call.op = "inject" /\ op = "input" /\ JobStays
  PROVE  CrowInv'
<1>1. /\ JobCount \in Nat /\ Len(commands) \in Nat /\ host.id \in 0..JobCount
      /\ job.active \in 0..JobCount
  BY CrowLengths DEF CrowInv, Filed
<1>2. (Deaf' <=> Deaf) /\ ~EndReported /\ ~EndReported' /\ Len(replies') = 0
      /\ (Unread' <=> Deaf) /\ (~Deaf => ~Unread) /\ Len(commands') = Len(commands) + 1
  BY <1>1 DEF Deaf, EndReported, Unread, SentCommand
<1>19. PICK n \in Nat : n = Len(commands) BY <1>1
<1>20. Len(commands') = n + 1 BY <1>2, <1>19
<1>3. CrowTypes' BY DEF CrowInv, CrowTypes
<1>4. Filed'
  <2>1. ASSUME NEW k \in 1..Len(commands'), commands'[k].op # "input"
        PROVE  commands'[k].id \in 1..JobCount'
    <3>1. CASE k = Len(commands) + 1 BY <1>1, <2>1, <3>1 DEF SentCommand, JobStays
    <3>2. CASE k \in 1..Len(commands)
      <4>1. commands[k].id \in 1..JobCount BY <2>1, <3>2 DEF CrowInv, Filed, SentCommand
      <4>2. QED BY <1>1, <3>2, <4>1 DEF SentCommand, JobStays
    <3>3. QED BY <1>1, <1>2, <2>1, <3>1, <3>2
  <2>2. ASSUME NEW i \in 1..JobCount'
        PROVE  /\ job'.status[i] = "complete" => i \in host.files
               /\ job'.status[i] = "cancelled" =>
                    i <= host.id /\ i \notin host.files /\ i # host.buffer
    <3>1. \/ i \in 1..JobCount /\ job'.status[i] = job.status[i]
          \/ job'.status[i] = "starting"
      BY <1>1, <2>2 DEF JobStays
    <3>2. QED BY <3>1 DEF CrowInv, Filed
  <2>3. host.id \in 0..JobCount' /\ job'.active \in 0..JobCount' BY <1>1 DEF JobStays
  <2>4. QED BY <1>2, <2>1, <2>2, <2>3 DEF CrowInv, Filed
<1>5. ASSUME Len(commands) = 0, ~Deaf
      PROVE  /\ op = "start" => host.buffer = 0 /\ host.id < id
             /\ op = "cancel" => id = host.id /\ host.buffer = id /\ job.active = id
             /\ op # "start" => Settles'
  <2>1. Settles BY <1>5 DEF CrowInv, Answering
  <2>2. op # "start" => Settles' BY <1>2, <2>1 DEF Settles, JobStays
  <2>3. op = "start" => host.buffer = 0 /\ host.id < id BY <1>1, <2>1 DEF Settles
  <2>4. op = "cancel" => job.active = id BY <1>2, <1>5 DEF CrowInv, Followed
  <2>5. op = "cancel" => host.buffer = id /\ id = host.id
    BY <1>1, <1>2, <2>1, <2>4 DEF Settles, CrowInv, Filed
  <2>6. QED BY <2>2, <2>3, <2>4, <2>5
<1>6. Len(commands) > 0 => commands'[1] = commands[1]
  <2>1. n > 0 => 1 \in 1..n BY <1>19
  <2>2. QED BY <1>19, <2>1 DEF SentCommand
<1>7. Len(commands) = 0 => commands'[1].op = op /\ commands'[1].id = id
  BY DEF SentCommand
<1>8. Len(commands) = 0 \/ Len(commands) > 0 BY <1>1
<1>9. Takes' BY <1>2, <1>5, <1>6, <1>7, <1>8 DEF CrowInv, Takes
<1>10. Only'
  <2>1. n + 1 = 1 => n = 0 BY <1>19
  <2>3. Len(commands') = 1 => Len(commands) = 0 BY ONLY <1>19, <1>20, <2>1
  <2>2. QED BY <1>2, <1>5, <1>7, <2>3 DEF Only, JobStays
<1>11. Followed'
  <2>1. SUFFICES ASSUME ~Deaf PROVE Followed' BY <1>2 DEF Followed
  <2>2. ASSUME NEW i \in 1..JobCount', job'.status[i] = "capturing" PROVE job'.active = i
    <3>1. i \in 1..JobCount /\ job'.status[i] = job.status[i] BY <1>1, <2>2 DEF JobStays
    <3>2. job.active = i BY <1>2, <2>1, <2>2, <3>1 DEF CrowInv, Followed
    <3>3. QED BY <1>1, <3>1, <3>2 DEF JobStays
  <2>3. QED BY <1>2, <2>2 DEF Followed
<1>12. Answering'
  <2>1. Len(commands') # 0 BY <1>19, <1>20
  <2>2. QED BY <2>1 DEF Answering
<1>13. Len(commands) > 0 => host.stalled \/ host.ended BY DEF CrowInv, Abandoned
<1>14. Abandoned' BY <1>1, <1>2, <1>8, <1>13 DEF Abandoned
<1>15. call'.op = call.op /\ call'.job = call.job /\ call'.replies = 1
  BY DEF CrowInv, CrowTypes
<1>16. Waited' BY <1>2, <1>7, <1>8, <1>13, <1>15 DEF Waited
<1>17. Called'
  <2>1. call.op \in {"cancel", "status"} => call.job \in 1..JobCount'
    BY <1>1 DEF CrowInv, Called, JobStays
  <2>2. QED BY <1>15, <2>1 DEF Called
<1>18. QED
  BY <1>3, <1>4, <1>9, <1>10, <1>11, <1>12, <1>14, <1>16, <1>17 DEF CrowInv

LEMMA AppendedCommand ==
  ASSUME CrowTypes, NEW op \in {"start", "cancel", "input"}, NEW id \in Nat,
         commands' = Append(commands, [op |-> op, id |-> id])
  PROVE  SentCommand(op, id) /\ commands' \in Seq(CrowCommands)
<1>1. PICK c \in CrowCommands : c = [op |-> op, id |-> id] BY DEF CrowCommands
<1>2. c.op = op /\ c.id = id BY <1>1
<1>3. commands \in Seq(CrowCommands) /\ commands' = Append(commands, c)
  BY <1>1 DEF CrowTypes
<1>4. QED BY <1>2, <1>3, AppendProperties DEF SentCommand

LEMMA SendOrReturnKeeps ==
  ASSUME CrowInv, SendOrReturn
  PROVE  CrowInv'
<1>1. /\ call.op # "none" /\ call.replies = 0 /\ Len(replies) = 0
      /\ replies' = replies /\ host' = host
      /\ JobCount \in Nat /\ DOMAIN job.status = 1..JobCount
      /\ call.op = "start" => call.job = JobCount + 1
      /\ call.op \in {"cancel", "status"} => call.job \in 1..JobCount
      /\ call.op \in Ops /\ call.job \in Nat
  BY CrowLengths DEF SendOrReturn, CrowInv, Called, CrowTypes
<1>2. CASE call.op = "start" /\ job.active = 0
  <2> DEFINE status == Append(job.status, "starting")
  <2>1. /\ Sends([op |-> "start", id |-> call.job])
        /\ job' = [job EXCEPT !.status = status, !.active = call.job]
    BY <1>2 DEF SendOrReturn
  <2>2. /\ status \in Seq(Statuses) /\ Len(status) = JobCount + 1
        /\ \A i \in 1..JobCount : status[i] = job.status[i]
        /\ status[JobCount + 1] = "starting"
    BY AppendProperties DEF CrowInv, CrowTypes, Statuses, JobCount
  <2>3. job' = [status |-> status, active |-> call.job, inputs |-> job.inputs]
        /\ job.inputs \in Nat
    BY <2>1 DEF CrowInv, CrowTypes
  <2> HIDE DEF status
  <2>4. /\ job' \in [status : Seq(Statuses), active : Nat, inputs : Nat]
        /\ job'.status = status /\ job'.active = call.job
    BY <1>1, <2>2, <2>3
  <2>5. SentCommand("start", call.job) /\ commands' \in Seq(CrowCommands)
        /\ call' = [call EXCEPT !.replies = 1]
    BY <1>1, <2>1, AppendedCommand DEF Sends, CrowInv
  <2>6. JobCount' = JobCount + 1 BY <2>2, <2>4 DEF JobCount
  <2>7. QED BY <1>1, <1>2, <2>2, <2>4, <2>5, <2>6, SendsKeeps
<1>3. CASE call.op = "cancel" /\ job.status[call.job] = "capturing"
  <2>1. Sends([op |-> "cancel", id |-> call.job]) /\ job' = job BY <1>3 DEF SendOrReturn
  <2>2. SentCommand("cancel", call.job) /\ commands' \in Seq(CrowCommands)
        /\ call' = [call EXCEPT !.replies = 1]
    BY <1>1, <2>1, AppendedCommand DEF Sends, CrowInv
  <2>3. JobStays /\ job' \in [status : Seq(Statuses), active : Nat, inputs : Nat]
    BY <2>1 DEF JobStays, JobCount, CrowInv, CrowTypes
  <2>4. QED BY <1>1, <1>3, <2>2, <2>3, SendsKeeps
<1>4. CASE call.op = "inject"
  <2>1. Sends([op |-> "input", id |-> 0]) /\ job' = [job EXCEPT !.inputs = @ + 1]
    BY <1>4 DEF SendOrReturn
  <2>2. SentCommand("input", 0) /\ commands' \in Seq(CrowCommands)
        /\ call' = [call EXCEPT !.replies = 1]
    BY <2>1, AppendedCommand DEF Sends, CrowInv
  <2>3. /\ job.status \in Seq(Statuses) /\ job.active \in Nat /\ job.inputs \in Nat
        /\ job' = [status |-> job.status, active |-> job.active, inputs |-> job.inputs + 1]
    BY <2>1 DEF CrowInv, CrowTypes
  <2>4. job'.status = job.status /\ job'.active = job.active BY <2>3
  <2>5. job' \in [status : Seq(Statuses), active : Nat, inputs : Nat] BY <2>3
  <2>6. JobStays BY <2>4 DEF JobStays, JobCount
  <2>7. QED BY <1>1, <1>4, <2>2, <2>5, <2>6, SendsKeeps
<1>5. CASE Returns /\ job' = job /\ commands' = commands
  <2>1. call' = [op |-> "none", job |-> 0, replies |-> 0] BY <1>5 DEF Returns, Idle
  <2>2. Len(commands) > 0 => host.stalled \/ host.ended BY <1>1 DEF CrowInv, Abandoned
  <2>3. "none" \in Ops BY DEF Ops
  <2>4. QED BY <1>1, <1>5, <2>1, <2>2, <2>3, CallsKeep
<1>6. QED BY <1>1, <1>2, <1>3, <1>4, <1>5 DEF SendOrReturn

-----------------------------------------------------------------------------
(* The steps of the host.                                                   *)

LEMMA AppendedReply ==
  ASSUME CrowTypes, NEW event \in {"started", "input"} \cup EndEvents, NEW id \in Nat,
         Reply(event, id)
  PROVE  /\ Replied(event, id) /\ replies' \in Seq(CrowReplies)
         /\ EndReported' <=> EndReported \/ event \in EndEvents
<1>1. PICK r \in CrowReplies : r = [event |-> event, id |-> id] BY DEF CrowReplies
<1>2. r.event = event /\ r.id = id BY <1>1
<1>3. replies \in Seq(CrowReplies) /\ replies' = Append(replies, r) /\ Len(replies) \in Nat
  BY <1>1, CrowLengths DEF CrowTypes, Reply
<1>4. Replied(event, id) /\ replies' \in Seq(CrowReplies)
  BY <1>2, <1>3, AppendProperties DEF Replied
<1>5. PICK n \in Nat : n = Len(replies) BY <1>3
<1>6. \A k \in 1..Len(replies') : k \in 1..n \/ k = n + 1 BY <1>4, <1>5 DEF Replied
<1>7. \A k \in 1..n : k \in 1..Len(replies') BY <1>4, <1>5 DEF Replied
<1>8. n + 1 \in 1..Len(replies') BY <1>4, <1>5 DEF Replied
<1>9. (\A k \in 1..n : replies'[k] = replies[k]) /\ replies'[n + 1].event = event
  BY <1>4, <1>5 DEF Replied
<1>10. QED BY <1>4, <1>5, <1>6, <1>7, <1>8, <1>9 DEF EndReported

(* A step of the host that reads and answers nothing.                       *)
LEMMA HostAlone ==
  ASSUME CrowInv, job' = job, call' = call, commands' = commands, replies' = replies,
         NEW at \in {"poll", "command"}, NEW stalled \in BOOLEAN, NEW ended \in BOOLEAN,
         HostIs(at, host.buffer, host.id, host.files, stalled, ended),
         host' \in HostFields,
         host.stalled => stalled, host.ended => ended,
         Len(commands) > 0 /\ Deaf => Deaf'
  PROVE  CrowInv'
<1>1. JobCount' = JobCount /\ (EndReported' <=> EndReported) /\ (Settles' <=> Settles)
  BY DEF JobCount, EndReported, Settles, HostIs
<1>2. CrowTypes' BY DEF CrowInv, CrowTypes
<1>3. Filed' BY <1>1 DEF CrowInv, Filed, HostIs
<1>4. Takes' BY DEF CrowInv, Takes, HostIs
<1>5. Only' BY <1>1 DEF CrowInv, Only, HostIs
<1>6. Unread => Unread' BY DEF Unread
<1>7. Followed' BY <1>1, <1>6 DEF CrowInv, Followed
<1>8. Answering' BY <1>1 DEF CrowInv, Answering
<1>9. Abandoned' BY DEF CrowInv, Abandoned, HostIs
<1>10. Waited' BY DEF CrowInv, Waited, HostIs
<1>11. Called' BY <1>1 DEF CrowInv, Called
<1>12. QED
  BY <1>2, <1>3, <1>4, <1>5, <1>7, <1>8, <1>9, <1>10, <1>11 DEF CrowInv

LEMMA StallKeeps ==
  ASSUME CrowInv, Stall
  PROVE  CrowInv'
<1>1. host \in HostFields /\ host' = [host EXCEPT !.stalled = TRUE] /\ ~host.refused
  BY DEF Stall, CrowInv, CrowTypes, Filed, HostFields
<1>2. /\ HostIs(host.at, host.buffer, host.id, host.files, TRUE, host.ended)
      /\ host' \in HostFields
      /\ host.at \in {"poll", "command"} /\ host.ended \in BOOLEAN
  BY <1>1 DEF HostIs, HostFields
<1>3. Deaf => Deaf' BY <1>2 DEF Deaf, HostIs
<1>4. QED BY <1>2, <1>3, HostAlone DEF Stall, HostFields

(* The capture ends by itself: its file is written and the server told.     *)
LEMMA CompletionKeeps ==
  ASSUME CrowInv, job' = job, call' = call, commands' = commands,
         ~host.stalled, ~host.ended, host.buffer # 0,
         Reply("complete", host.buffer),
         HostIs("command", 0, host.id, host.files \cup {host.buffer}, FALSE, FALSE),
         host' \in HostFields
  PROVE  CrowInv'
<1>1. /\ CrowTypes /\ host.buffer \in Nat /\ host.id \in Nat /\ JobCount \in Nat
      /\ Len(commands) \in Nat /\ Len(replies) \in Nat
      /\ host.buffer = host.id /\ host.id \in 1..JobCount
      /\ JobCount' = JobCount
      /\ \A k \in 1..Len(replies) : replies[k] \in CrowReplies
  BY CrowLengths DEF CrowInv, CrowTypes, Filed, JobCount
<1>2. PICK b \in Nat : b = host.buffer BY <1>1
<1>3. "complete" \in EndEvents BY DEF EndEvents
<1>4. Replied("complete", b) /\ replies' \in Seq(CrowReplies) /\ EndReported'
  BY <1>1, <1>2, <1>3, AppendedReply
<1>5. PICK n \in Nat : n = Len(replies) BY <1>1
<1>6. /\ Len(replies') = n + 1 /\ \A k \in 1..n : replies'[k] = replies[k]
      /\ replies'[n + 1].event = "complete" /\ replies'[n + 1].id = b
  BY <1>4, <1>5 DEF Replied
<1>7. ~Deaf /\ ~Deaf' /\ ~Unread /\ host'.buffer = 0 /\ host'.id = host.id
      /\ host'.files = host.files \cup {b} /\ ~host'.stalled /\ ~host'.ended /\ ~host'.refused
  BY <1>2 DEF Deaf, Unread, HostIs
<1>8. CrowTypes' BY <1>4 DEF CrowInv, CrowTypes, HostFields
<1>10. Settles' BY <1>4, <1>7 DEF Settles
<1>11. Filed'
  <2>1. ASSUME NEW i \in 1..JobCount
        PROVE  /\ job.status[i] = "complete" => i \in host.files \cup {b}
               /\ job.status[i] = "cancelled" =>
                    i <= host.id /\ i \notin host.files \cup {b} /\ i # 0
    BY <1>1, <1>2 DEF CrowInv, Filed
  <2>2. ASSUME NEW k \in 1..(n + 1)
        PROVE  /\ replies'[k].event # "input" => replies'[k].id \in 1..host.id
               /\ replies'[k].event \in {"complete", "cancel_complete"} =>
                    replies'[k].id \in host.files \cup {b}
               /\ replies'[k].event = "cancelled" =>
                    replies'[k].id \notin host.files \cup {b} /\ replies'[k].id # 0
    <3>1. CASE k = n + 1 BY <1>1, <1>2, <1>6, <3>1
    <3>2. CASE k \in 1..n BY <1>1, <1>2, <1>5, <1>6, <3>2 DEF CrowInv, Filed
    <3>3. QED BY <3>1, <3>2
  <2>3. \A i \in host.files \cup {b} : i \in 1..host.id /\ i # 0
    BY <1>1, <1>2 DEF CrowInv, Filed
  <2>4. QED BY <1>1, <1>6, <1>7, <2>1, <2>2, <2>3 DEF CrowInv, Filed
<1>12. Len(commands) > 0 => commands[1].op # "start"
  BY <1>7 DEF CrowInv, Takes
<1>13. Takes' BY <1>2, <1>7, <1>12 DEF CrowInv, Takes
<1>14. Only' BY <1>7, <1>10, <1>12 DEF CrowInv, Only
<1>15. job.active \in {0, b}
  <2>1. Settles => job.active = b BY <1>2 DEF Settles
  <2>2. Len(commands) = 0 \/ Len(commands) = 1
    <3>1. PICK m \in Nat : m = Len(commands) BY <1>1
    <3>2. ~(m > 1) BY <1>7, <3>1 DEF CrowInv, Abandoned
    <3>3. QED BY <3>1, <3>2
  <2>3. CASE Len(commands) = 0 BY <2>1, <2>3 DEF CrowInv, Answering
  <2>4. CASE Len(commands) = 1
    <3>1. commands[1].op \in {"start", "cancel", "input"}
      BY <1>1, <2>4, CrowLengths DEF CrowCommands
    <3>2. Takes /\ Only BY DEF CrowInv
    <3>3. commands[1].op = "cancel" => Settles
      BY <1>7, <2>4, <3>2 DEF Only
    <3>4. commands[1].op = "input" => Settles
      BY <1>7, <2>4, <3>2 DEF Only
    <3>5. QED BY <1>1, <1>12, <2>1, <2>4, <3>1, <3>3, <3>4
  <2>5. QED BY <2>2, <2>3, <2>4
<1>16. Followed'
  <2>1. ASSUME NEW k \in 1..(n + 1)
        PROVE  /\ replies'[k].event = "started" => replies'[k].id = job.active
               /\ replies'[k].event \in EndEvents => job.active \in {0, replies'[k].id}
    <3>1. CASE k = n + 1 BY <1>6, <1>15, <3>1
    <3>2. CASE k \in 1..n BY <1>5, <1>6, <1>7, <3>2 DEF CrowInv, Followed
    <3>3. QED BY <3>1, <3>2
  <2>2. ASSUME NEW j \in 1..(n + 1), NEW k \in 1..(n + 1), j < k, replies'[j].event \in EndEvents
        PROVE  replies'[k].event # "started"
    <3>1. CASE k = n + 1 BY <1>6, <3>1
    <3>2. CASE k \in 1..n
      <4>1. j \in 1..n BY <2>2, <3>2
      <4>2. QED BY <1>5, <1>6, <1>7, <2>2, <3>2, <4>1 DEF CrowInv, Followed
    <3>3. QED BY <3>1, <3>2
  <2>3. QED BY <1>1, <1>6, <1>7, <2>1, <2>2 DEF CrowInv, Followed
<1>17. Answering' BY <1>10 DEF Answering
<1>18. Abandoned' BY <1>7 DEF CrowInv, Abandoned
<1>19. Waited'
  <2>1. SUFFICES ASSUME Len(commands) > 0 PROVE Waited' BY DEF Waited
  <2>2. call.replies = 1 /\ n = 0 /\ call.op # "start"
    BY <1>5, <1>12, <2>1 DEF CrowInv, Waited
  <2>3. Len(replies') = 1 /\ replies'[1].event = "complete" BY <1>6, <2>2
  <2>4. QED BY <1>7, <2>2, <2>3 DEF CrowInv, Waited
<1>20. Called' BY <1>1 DEF CrowInv, Called
<1>21. QED
  BY <1>8, <1>11, <1>13, <1>14, <1>16, <1>17, <1>18, <1>19, <1>20 DEF CrowInv

LEMMA RecordKeeps ==
  ASSUME CrowInv, Record
  PROVE  CrowInv'
<1>1. /\ host \in HostFields /\ ~host.refused /\ host.at = "poll" /\ ~host.ended
      /\ job' = job /\ call' = call /\ commands' = commands
  BY DEF Record, CrowInv, CrowTypes, Filed, HostFields
<1>2. CASE ~host.stalled /\ host' = [host EXCEPT !.at = "command"] /\ replies' = replies
  <2>1. /\ HostIs("command", host.buffer, host.id, host.files, host.stalled, host.ended)
        /\ host' \in HostFields
        /\ host.stalled \in BOOLEAN /\ host.ended \in BOOLEAN
    BY <1>1, <1>2 DEF HostIs, HostFields
  <2>2. ~Deaf BY <1>1, <1>2 DEF Deaf
  <2>3. QED BY <1>1, <1>2, <2>1, <2>2, HostAlone DEF HostFields
<1>3. CASE /\ ~host.stalled /\ host.buffer # 0 /\ Reply("complete", host.buffer)
           /\ host' = [host EXCEPT !.at = "command", !.buffer = 0,
                                   !.files = @ \cup {host.buffer}]
  <2>1. host' = [at |-> "command", buffer |-> 0, id |-> host.id,
                 files |-> host.files \cup {host.buffer}, stalled |-> host.stalled,
                 ended |-> host.ended, refused |-> host.refused]
    BY <1>1, <1>3 DEF HostFields
  <2>2. /\ HostIs("command", 0, host.id, host.files \cup {host.buffer}, FALSE, FALSE)
        /\ host' \in HostFields
    BY <1>1, <1>3, <2>1 DEF HostIs, HostFields
  <2>3. QED BY <1>1, <1>3, <2>2, CompletionKeeps
<1>4. CASE host.stalled /\ host' = [host EXCEPT !.ended = TRUE] /\ replies' = replies
  <2>1. /\ HostIs(host.at, host.buffer, host.id, host.files, host.stalled, TRUE)
        /\ host' \in HostFields
        /\ host.at \in {"poll", "command"} /\ host.stalled \in BOOLEAN
    BY <1>1, <1>4 DEF HostIs, HostFields
  <2>2. Deaf' BY <2>1 DEF Deaf, HostIs
  <2>3. QED BY <1>1, <1>4, <2>1, <2>2, HostAlone DEF HostFields
<1>5. QED BY <1>2, <1>3, <1>4 DEF Record

(* The host reads a command: whatever is left to read stays unread.         *)
LEMMA ReadKeeps ==
  ASSUME CrowInv, job' = job, call' = call, host.at = "command", ~host.ended,
         host'.at = "poll", host'.stalled = host.stalled, ~host'.ended,
         Len(commands) > 0, commands' = Tail(commands),
         CrowTypes', Filed',
         Len(commands) = 1 => Followed' /\ Settles'
  PROVE  CrowInv'
<1>1. commands \in Seq(CrowCommands) /\ Len(commands) \in Nat
  BY CrowLengths DEF CrowInv, CrowTypes
<1>2. PICK n \in Nat : n = Len(commands) BY <1>1
<1>3. n > 0 /\ Len(commands') = n - 1 BY <1>1, <1>2, HeadTailProperties
<1>18. PICK m \in Nat : m = Len(commands') BY ONLY <1>2, <1>3
<1>19. m = n - 1 BY <1>3, <1>18
<1>4. Len(commands') > 0 => n > 1 BY ONLY <1>2, <1>3
<1>5. Len(commands') > 0 => host.stalled BY <1>2, <1>4 DEF CrowInv, Abandoned
<1>6. Len(commands') > 0 => Deaf' /\ Unread' BY <1>5 DEF Deaf, Unread
<1>20. m = 0 => n = 1 BY ONLY n \in Nat, <1>19
<1>7. Len(commands') = 0 => n = 1 BY ONLY <1>18, <1>20
<1>8. Len(commands') \in Nat BY ONLY <1>2, <1>3
<1>9. Len(commands') = 0 \/ Len(commands') > 0 BY ONLY <1>8
<1>10. Takes' BY <1>6 DEF Takes
<1>11. Only' 
  <2>1. Len(commands') = 1 => Len(commands') > 0 BY ONLY <1>8
  <2>2. QED BY <1>6, <2>1 DEF Only
<1>12. Followed'
  <2>1. CASE Len(commands') = 0 BY <1>2, <1>7, <2>1
  <2>2. CASE Len(commands') > 0 BY <1>6, <2>2 DEF Followed
  <2>3. QED BY <1>9, <2>1, <2>2
<1>13. Answering' BY <1>2, <1>7 DEF Answering
<1>14. Abandoned'
  <2>1. Len(commands') > 1 => Len(commands') > 0 BY ONLY <1>8
  <2>2. QED BY <1>5, <2>1 DEF Abandoned
<1>15. Waited' BY <1>5 DEF Waited
<1>16. Called' BY DEF CrowInv, Called, JobCount
<1>17. QED BY <1>10, <1>11, <1>12, <1>13, <1>14, <1>15, <1>16 DEF CrowInv

(* An answer: what it reports is so, and of the capture that is the active. *)
LEMMA AnswerIsFiled ==
  ASSUME CrowInv, NEW e \in {"started", "input"} \cup EndEvents, NEW i \in Nat,
         job' = job, Replied(e, i),
         host'.files = host.files, ~host'.refused,
         host'.id \in 0..JobCount, host.id <= host'.id, host'.buffer \in {0, host'.id},
         host'.buffer # 0 => host'.buffer = host.buffer \/ host.id < host'.buffer,
         e # "input" => i \in 1..host'.id,
         e \in {"complete", "cancel_complete"} => i \in host.files,
         e = "cancelled" => i \notin host.files /\ i # host'.buffer,
         \A k \in 1..Len(commands') :
           commands'[k].op # "input" => commands'[k].id \in 1..JobCount
  PROVE  Filed'
<1>1. /\ JobCount \in Nat /\ Len(replies) \in Nat /\ host.id \in 0..JobCount
      /\ JobCount' = JobCount /\ job.active \in 0..JobCount
  BY CrowLengths DEF CrowInv, Filed, JobCount
<1>2. PICK n \in Nat : n = Len(replies) BY <1>1
<1>3. /\ Len(replies') = n + 1 /\ \A k \in 1..n : replies'[k] = replies[k]
      /\ replies'[n + 1].event = e /\ replies'[n + 1].id = i
  BY <1>2 DEF Replied
<1>4. PICK b \in Nat : b = host'.buffer BY <1>1
<1>5. PICK h \in Nat : h = host'.id BY <1>1
<1>6. \A x \in host.files : x \in 1..h /\ x # b
  BY <1>1, <1>4, <1>5 DEF CrowInv, Filed
<1>7. ASSUME NEW x \in 1..JobCount
      PROVE  /\ job.status[x] = "complete" => x \in host.files
             /\ job.status[x] = "cancelled" => x <= h /\ x \notin host.files /\ x # b
  BY <1>1, <1>4, <1>5 DEF CrowInv, Filed
<1>8. ASSUME NEW k \in 1..(n + 1)
      PROVE  /\ replies'[k].event # "input" => replies'[k].id \in 1..h
             /\ replies'[k].event \in {"complete", "cancel_complete"} =>
                  replies'[k].id \in host.files
             /\ replies'[k].event = "cancelled" =>
                  replies'[k].id \notin host.files /\ replies'[k].id # b
  <2>1. CASE k = n + 1 BY <1>3, <1>4, <1>5, <2>1
  <2>2. CASE k \in 1..n
    <3>1. replies'[k] = replies[k] /\ k \in 1..Len(replies) BY <1>2, <1>3, <2>2
    <3>2. /\ replies[k].event # "input" => replies[k].id \in 1..host.id
          /\ replies[k].event \in {"complete", "cancel_complete"} => replies[k].id \in host.files
          /\ replies[k].event = "cancelled" =>
               replies[k].id \notin host.files /\ replies[k].id # host.buffer
      BY <3>1 DEF CrowInv, Filed
    <3>3. replies[k].event = "cancelled" => replies[k].id # b
      BY <1>1, <1>4, <3>2
    <3>4. replies[k].event # "input" => replies[k].id \in 1..h
      BY <1>1, <1>5, <3>2
    <3>5. QED BY <3>1, <3>2, <3>3, <3>4
  <2>3. QED BY <2>1, <2>2
<1>9. QED BY <1>1, <1>3, <1>4, <1>5, <1>6, <1>7, <1>8 DEF Filed

LEMMA AnswerIsFollowed ==
  ASSUME CrowInv, ~Unread, NEW e \in {"started", "input"} \cup EndEvents, NEW i \in Nat,
         job' = job, Replied(e, i),
         e = "started" => i = job.active /\ ~EndReported,
         e \in EndEvents => job.active \in {0, i}
  PROVE  Followed'
<1>1. Len(replies) \in Nat /\ JobCount' = JobCount BY CrowLengths DEF CrowInv, JobCount
<1>2. PICK n \in Nat : n = Len(replies) BY <1>1
<1>3. /\ Len(replies') = n + 1 /\ \A k \in 1..n : replies'[k] = replies[k]
      /\ replies'[n + 1].event = e /\ replies'[n + 1].id = i
  BY <1>2 DEF Replied
<1>4. "started" \notin EndEvents BY DEF EndEvents
<1>5. ASSUME NEW k \in 1..(n + 1)
      PROVE  /\ replies'[k].event = "started" => replies'[k].id = job.active
             /\ replies'[k].event \in EndEvents => job.active \in {0, replies'[k].id}
  <2>1. CASE k = n + 1 BY <1>3, <2>1
  <2>2. CASE k \in 1..n BY <1>2, <1>3, <2>2 DEF CrowInv, Followed
  <2>3. QED BY <2>1, <2>2
<1>6. ASSUME NEW j \in 1..(n + 1), NEW k \in 1..(n + 1), j < k, replies'[j].event \in EndEvents
      PROVE  replies'[k].event # "started"
  <2>1. j \in 1..n BY <1>6
  <2>2. replies[j].event \in EndEvents BY <1>3, <1>6, <2>1
  <2>3. CASE k = n + 1
    <3>1. EndReported BY <1>2, <2>1, <2>2 DEF EndReported
    <3>2. QED BY <1>3, <2>3, <3>1
  <2>4. CASE k \in 1..n BY <1>2, <1>3, <1>6, <2>1, <2>2, <2>4 DEF CrowInv, Followed
  <2>5. QED BY <2>3, <2>4
<1>7. QED BY <1>1, <1>3, <1>5, <1>6 DEF CrowInv, Followed

LEMMA CommandKeeps ==
  ASSUME CrowInv, Command
  PROVE  CrowInv'
<1>1. /\ host \in HostFields /\ ~host.refused /\ host.at = "command" /\ ~host.ended
      /\ job' = job /\ call' = call
  BY DEF Command, CrowInv, CrowTypes, Filed, HostFields
<1>2. ~Deaf /\ ~Unread BY <1>1 DEF Deaf, Unread
<1>3. CASE commands = <<>>
  <2>1. host' = [host EXCEPT !.at = "poll"] /\ commands' = commands /\ replies' = replies
    BY <1>3 DEF Command
  <2>2. /\ HostIs("poll", host.buffer, host.id, host.files, host.stalled, host.ended)
        /\ host' \in HostFields
        /\ host.stalled \in BOOLEAN /\ host.ended \in BOOLEAN
    BY <1>1, <2>1 DEF HostIs, HostFields
  <2>3. QED BY <1>1, <1>2, <2>1, <2>2, HostAlone DEF HostFields
<1>4. CASE commands # <<>>
  <2>1. /\ CrowTypes /\ Len(commands) \in Nat /\ Len(commands) > 0 /\ JobCount \in Nat
        /\ JobCount' = JobCount /\ commands \in Seq(CrowCommands)
        /\ commands[1] \in CrowCommands /\ Len(replies) \in Nat
    <3>1. JobCount' = JobCount BY <1>1 DEF JobCount
    <3>2. Len(commands) > 0 BY <1>4, CrowLengths DEF CrowInv
    <3>3. QED BY <3>1, <3>2, CrowLengths DEF CrowInv, CrowTypes
  <2>2. PICK c \in CrowCommands : c = commands[1] BY <2>1
  <2>3. PICK t : t = Tail(commands) OBVIOUS
  <2>4. /\ Head(commands) = c /\ t \in Seq(CrowCommands) /\ Len(t) = Len(commands) - 1
        /\ \A k \in 1..Len(t) : t[k] = commands[k + 1]
    BY <2>1, <2>2, <2>3, HeadTailProperties
  <2>5. PICK n \in Nat : n = Len(commands) BY <2>1
  <2>6. /\ \A k \in 1..Len(t) : t[k].op # "input" => t[k].id \in 1..JobCount
        /\ c.op # "input" => c.id \in 1..JobCount
    <3>1. \A k \in 1..Len(t) : k + 1 \in 1..n BY <2>4, <2>5
    <3>2. 1 \in 1..n BY <2>1, <2>5
    <3>3. \A k \in 1..n : commands[k].op # "input" => commands[k].id \in 1..JobCount
      BY <2>5 DEF CrowInv, Filed
    <3>4. QED BY <2>2, <2>4, <3>1, <3>2, <3>3
  <2>7. /\ c.op = "start" => host.buffer = 0 /\ host.id < c.id
        /\ c.op = "cancel" => c.id = host.id /\ (host.buffer = c.id \/ c.id \in host.files)
    BY <1>2, <2>1, <2>2 DEF CrowInv, Takes
  <2>8. Len(commands) = 1 =>
          /\ c.op = "start" => job.active = c.id /\ ~EndReported
          /\ c.op = "cancel" => job.active \in {0, c.id}
          /\ c.op = "input" => Settles
    BY <1>2, <2>2 DEF CrowInv, Only
  <2>9. commands' = t /\ c.op \in {"start", "cancel", "input"} /\ c.id \in Nat
    BY <1>4, <2>3 DEF Command, CrowCommands
  <2> DEFINE rest == [host EXCEPT !.at = "poll"]
  <2>10. \/ c.op = "input" /\ host' = rest /\ Reply("input", 0)
         \/ /\ c.op = "start"
            /\ host' = [rest EXCEPT !.buffer = c.id, !.id = c.id] /\ Reply("started", c.id)
         \/ /\ c.op = "cancel" /\ host' = [rest EXCEPT !.buffer = 0]
            /\ Reply(IF host.buffer # 0 THEN "cancelled" ELSE "cancel_complete", c.id)
    BY <1>4, <2>4, <2>7, <2>9 DEF Command
  <2>11. /\ \A k \in 1..Len(commands') :
              commands'[k].op # "input" => commands'[k].id \in 1..JobCount
         /\ commands' \in Seq(CrowCommands)
    BY <2>4, <2>6, <2>9
  <2>12. /\ host.id \in 0..JobCount /\ host.buffer \in {0, host.id}
         /\ host.id \in Nat /\ host.buffer \in Nat
         /\ \A i \in host.files : i \in 1..host.id /\ i # host.buffer
    BY <1>1 DEF CrowInv, Filed, HostFields
  <2>13. CASE c.op = "input" /\ host' = rest /\ Reply("input", 0)
    <3>1. /\ HostIs("poll", host.buffer, host.id, host.files, host.stalled, host.ended)
          /\ host' \in HostFields
      BY <1>1, <2>13 DEF HostIs, HostFields
    <3>2. Replied("input", 0) /\ replies' \in Seq(CrowReplies) /\ (EndReported' <=> EndReported)
      BY <2>1, <2>13, AppendedReply DEF EndEvents
    <3>3. CrowTypes' BY <1>1, <2>11, <3>1, <3>2 DEF CrowInv, CrowTypes, HostFields
    <3>4. Filed'
      BY <1>1, <2>1, <2>11, <2>12, <3>1, <3>2, AnswerIsFiled DEF HostIs
    <3>5. Followed' BY <1>1, <1>2, <3>2, AnswerIsFollowed DEF EndEvents
    <3>6. Settles => Settles' BY <1>1, <3>1, <3>2 DEF Settles, HostIs
    <3>7. QED
      BY <1>1, <2>1, <2>3, <2>8, <2>9, <2>13, <3>1, <3>3, <3>4, <3>5, <3>6, ReadKeeps DEF HostIs
  <2>14. CASE /\ c.op = "start" /\ Reply("started", c.id)
              /\ host' = [rest EXCEPT !.buffer = c.id, !.id = c.id]
    <3>1. host' = [at |-> "poll", buffer |-> c.id, id |-> c.id, files |-> host.files,
                   stalled |-> host.stalled, ended |-> host.ended, refused |-> host.refused]
      BY <1>1, <2>14 DEF HostFields
    <3>2. /\ HostIs("poll", c.id, c.id, host.files, host.stalled, host.ended)
          /\ host' \in HostFields
      BY <1>1, <2>9, <3>1 DEF HostIs, HostFields
    <3>3. /\ Replied("started", c.id) /\ replies' \in Seq(CrowReplies)
          /\ (EndReported' <=> EndReported)
      BY <2>1, <2>9, <2>14, AppendedReply DEF EndEvents
    <3>4. CrowTypes' BY <1>1, <2>11, <3>2, <3>3 DEF CrowInv, CrowTypes, HostFields
    <3>5. c.id \in 1..JobCount /\ host.id < c.id BY <2>6, <2>7, <2>14
    <3>6. /\ host'.id = c.id /\ host'.buffer = c.id /\ host'.files = host.files
          /\ ~host'.refused /\ host.id <= c.id /\ c.id \in 0..JobCount /\ c.id \in 1..c.id
      BY <2>1, <2>12, <3>2, <3>5 DEF HostIs
    <3>7. Filed' BY <1>1, <2>9, <2>11, <3>3, <3>5, <3>6, AnswerIsFiled
    <3>8. Len(commands) = 1 => Followed'
      BY <1>1, <1>2, <2>8, <2>9, <2>14, <3>3, AnswerIsFollowed DEF EndEvents
    <3>9. Len(commands) = 1 => Settles'
      BY <1>1, <2>8, <2>14, <3>3, <3>5, <3>6 DEF Settles
    <3>15. host'.at = "poll" /\ host'.stalled = host.stalled /\ host'.ended = host.ended
      BY <3>1
    <3>10. QED
      BY <3>15, <1>1, <2>1, <2>3, <2>9, <3>2, <3>4, <3>7, <3>8, <3>9, ReadKeeps
  <2>15. CASE /\ c.op = "cancel" /\ host' = [rest EXCEPT !.buffer = 0]
              /\ Reply(IF host.buffer # 0 THEN "cancelled" ELSE "cancel_complete", c.id)
    <3>1. PICK e \in {"cancelled", "cancel_complete"} :
            e = IF host.buffer # 0 THEN "cancelled" ELSE "cancel_complete"
      OBVIOUS
    <3>2. e \in EndEvents BY <3>1 DEF EndEvents
    <3>3. host' = [at |-> "poll", buffer |-> 0, id |-> host.id, files |-> host.files,
                   stalled |-> host.stalled, ended |-> host.ended, refused |-> host.refused]
      BY <1>1, <2>15 DEF HostFields
    <3>4. /\ HostIs("poll", 0, host.id, host.files, host.stalled, host.ended)
          /\ host' \in HostFields
      BY <1>1, <2>9, <3>3 DEF HostIs, HostFields
    <3>5. Replied(e, c.id) /\ replies' \in Seq(CrowReplies) /\ EndReported'
      BY <2>1, <2>9, <2>15, <3>1, <3>2, AppendedReply
    <3>6. CrowTypes' BY <1>1, <2>11, <3>4, <3>5 DEF CrowInv, CrowTypes, HostFields
    <3>7. /\ c.id \in 1..JobCount /\ c.id = host.id /\ c.id \in 1..host.id
          /\ host.buffer # 0 => c.id = host.buffer /\ c.id \notin host.files
          /\ host.buffer = 0 => c.id \in host.files
      BY <2>1, <2>6, <2>7, <2>9, <2>12, <2>15
    <3>8. /\ host'.id = host.id /\ host'.buffer = 0 /\ host'.files = host.files
          /\ ~host'.refused /\ host.id <= host.id
      BY <2>12, <3>4 DEF HostIs
    <3>9. e \in {"started", "input"} \cup EndEvents BY <3>2
    <3>10. /\ e = "cancelled" => c.id \notin host.files /\ c.id # 0
           /\ e = "cancel_complete" => c.id \in host.files
           /\ e # "complete"
      BY <3>1, <3>7
    <3>11. Filed'
      BY <1>1, <2>9, <2>11, <2>12, <3>5, <3>7, <3>8, <3>9, <3>10, AnswerIsFiled
    <3>12. Len(commands) = 1 => Followed'
      BY <1>1, <1>2, <2>8, <2>9, <2>15, <3>1, <3>5, <3>9, AnswerIsFollowed
    <3>13. Settles' BY <3>5, <3>8 DEF Settles
    <3>16. host'.at = "poll" /\ host'.stalled = host.stalled /\ host'.ended = host.ended
      BY <3>3
    <3>14. QED
      BY <3>16, <1>1, <2>1, <2>3, <2>9, <3>4, <3>6, <3>11, <3>12, <3>13, ReadKeeps
  <2>16. QED BY <2>10, <2>13, <2>14, <2>15
<1>5. QED BY <1>3, <1>4

LEMMA CrowNextKeeps ==
  ASSUME CrowInv, [CrowNext]_crowVars
  PROVE  CrowInv'
<1>1. CASE UNCHANGED crowVars
  <2>1. /\ job' = job /\ call' = call /\ commands' = commands /\ replies' = replies
        /\ host' = host
    BY <1>1 DEF crowVars
  <2>2. Filed' /\ Takes' /\ Only' /\ Followed' /\ Answering' BY <2>1, ServerAlone
  <2>3. CrowTypes' /\ Abandoned' /\ Waited' /\ Called'
    BY <2>1 DEF CrowInv, CrowTypes, Abandoned, Waited, Called, JobCount
  <2>4. QED BY <2>2, <2>3 DEF CrowInv
<1>2. CASE \E op \in {"start", "status", "cancel", "inject"}, i \in 0..MaxJobs : Begin(op, i)
  BY <1>2, BeginKeeps
<1>3. CASE Drain \/ SendOrReturn \/ Await \/ TimesOut
  BY <1>3, DrainKeeps, SendOrReturnKeeps, AwaitKeeps, TimesOutKeeps
<1>4. CASE Record \/ Stall \/ Command BY <1>4, RecordKeeps, StallKeeps, CommandKeeps
<1>5. QED BY <1>1, <1>2, <1>3, <1>4 DEF CrowNext

LEMMA CrowStarts == CrowInit => CrowInv
<1>1. SUFFICES ASSUME CrowInit PROVE CrowInv OBVIOUS
<1>2. /\ job.status = <<>> /\ job.active = 0 /\ JobCount = 0 /\ call.op = "none"
      /\ call.replies = 0 /\ commands = <<>> /\ replies = <<>> /\ Len(commands) = 0
      /\ Len(replies) = 0 /\ host.buffer = 0 /\ host.id = 0 /\ host.files = {}
      /\ ~host.stalled /\ ~host.ended /\ ~host.refused
  BY <1>1 DEF CrowInit, Idle, JobCount
<1>3. CrowTypes BY <1>1 DEF CrowInit, CrowTypes, HostFields, Idle, Ops
<1>4. Filed BY <1>2 DEF Filed
<1>5. Takes /\ Only BY <1>2 DEF Takes, Only
<1>6. Followed BY <1>2 DEF Followed
<1>7. Answering BY <1>2 DEF Answering, Settles
<1>8. Abandoned /\ Waited /\ Called BY <1>2 DEF Abandoned, Waited, Called
<1>9. QED BY <1>3, <1>4, <1>5, <1>6, <1>7, <1>8 DEF CrowInv

(* The server never sends what the host must refuse, a finished job's       *)
(* status is true of the host's files, and between calls the active job is  *)
(* the one in the host's buffer: for any number of jobs and injections, and *)
(* wherever the host completes a capture, stalls or ends.                   *)
THEOREM CrowStaysTrue == CrowSpec => []CrowAgrees
<1>1. CrowInit => CrowInv BY CrowStarts
<1>2. CrowInv /\ [CrowNext]_crowVars => CrowInv' BY CrowNextKeeps
<1>3. CrowInv => CrowAgrees
  <2>1. SUFFICES ASSUME CrowInv PROVE CrowAgrees OBVIOUS
  <2>2. DOMAIN job.status = 1..JobCount /\ CrowTypes BY <2>1, CrowLengths DEF CrowInv
  <2>3. ASSUME call = Idle, replies = <<>>, commands = <<>> PROVE job.active = host.buffer
    <3>1. Len(commands) = 0 /\ Len(replies) = 0 BY <2>3
    <3>2. Settles /\ ~EndReported BY <2>1, <3>1 DEF CrowInv, Answering, EndReported
    <3>3. QED BY <3>2 DEF Settles
  <2>4. QED BY <2>1, <2>2, <2>3 DEF CrowInv, Filed, CrowAgrees, HostNeverRefuses, StatusIsTrue
<1>4. QED BY <1>1, <1>2, <1>3, PTL DEF CrowSpec

-----------------------------------------------------------------------------
(* Admission.  A repeat has runs in sessions of their own, each of the     *)
(* sources it began with, and none that its collector refuses.              *)

Trees == [source : Nat, candidate : Nat, default : Nat]
ProbeOutcomes ==
  [oracle : BOOLEAN, services : {"clean", "failed"}, sclang : {"clean", "odd"},
   output : Outputs \cup {CHOOSE o \in Outputs : TRUE}]
ProbeRuns == [session : Nat, source : Nat, candidate : Nat, outcome : ProbeOutcomes]
Repeats == [step : {"idle", "running", "written"}, began : Trees, runs : Seq(ProbeRuns),
            passed : BOOLEAN]

Collected(r) ==
  /\ Len(r.runs) <= 3
  /\ \A k \in 1..Len(r.runs) :
       /\ r.runs[k].session = k
       /\ r.runs[k].source = r.began.source /\ r.runs[k].candidate = r.began.candidate
       /\ r.runs[k].outcome.oracle /\ r.runs[k].outcome.services = "clean"
  /\ r.passed => Len(r.runs) = 3 /\ Agree(r.runs)
  /\ r.step = "idle" => Len(r.runs) = 0
  /\ r.step # "written" => ~r.passed

AdmissionInv == tree \in Trees /\ repeat \in Repeats /\ Collected(repeat)

LEMMA RunsTyped ==
  ASSUME NEW runs \in Seq(ProbeRuns)
  PROVE  /\ Len(runs) \in Nat /\ DOMAIN runs = 1..Len(runs)
         /\ \A k \in 1..Len(runs) : runs[k] \in ProbeRuns
BY LenProperties, ElementOfSeq

LEMMA AdmissionInvInit == AdmissionInit => AdmissionInv
<1> SUFFICES ASSUME AdmissionInit PROVE AdmissionInv OBVIOUS
<1>1. tree \in Trees /\ repeat = [step |-> "idle", began |-> tree, runs |-> <<>>, passed |-> FALSE]
  BY DEF AdmissionInit, Trees
<1>2. <<>> \in Seq(ProbeRuns) /\ Len(<<>>) = 0 OBVIOUS
<1>3. QED BY <1>1, <1>2 DEF AdmissionInv, Repeats, Collected

LEMMA ProbeKeeps ==
  ASSUME AdmissionInv, NEW outcome \in Outcomes, Probe(outcome)
  PROVE  repeat' \in Repeats /\ Collected(repeat')
<1> DEFINE observed == [session |-> Len(repeat.runs) + 1, source |-> tree.source,
                   candidate |-> tree.candidate, outcome |-> outcome]
<1>1. /\ repeat \in Repeats /\ repeat.step = "running" /\ Len(repeat.runs) < 3
      /\ repeat.runs \in Seq(ProbeRuns) /\ Len(repeat.runs) \in Nat /\ ~repeat.passed
  BY RunsTyped DEF AdmissionInv, Probe, Repeats, Collected
<1>2. CASE Acceptable(outcome)
  <2>1. PICK n \in Nat : n = Len(repeat.runs) BY <1>1
  <2>2. outcome \in ProbeOutcomes BY DEF Outcomes, ProbeOutcomes
  <2>3. /\ observed \in ProbeRuns /\ observed.session = n + 1 /\ observed.outcome = outcome
        /\ observed.source = repeat.began.source /\ observed.candidate = repeat.began.candidate
    BY <1>2, <2>1, <2>2 DEF AdmissionInv, Trees, ProbeRuns, Acceptable
  <2>4. PICK r \in ProbeRuns : r = observed BY <2>3
  <2>5. PICK runs : runs = Append(repeat.runs, r) OBVIOUS
  <2> HIDE DEF observed
  <2>6. /\ runs \in Seq(ProbeRuns) /\ Len(runs) = n + 1 /\ runs[n + 1] = r
        /\ \A k \in 1..n : runs[k] = repeat.runs[k]
    BY <1>1, <2>1, <2>4, <2>5, AppendProperties
  <2>7. repeat' = [step |-> "running", began |-> repeat.began, runs |-> runs, passed |-> FALSE]
    BY <1>1, <1>2, <2>4, <2>5 DEF Probe, Repeats, observed
  <2>8. ASSUME NEW k \in 1..(n + 1)
        PROVE  /\ runs[k].session = k
               /\ runs[k].source = repeat.began.source
               /\ runs[k].candidate = repeat.began.candidate
               /\ runs[k].outcome.oracle /\ runs[k].outcome.services = "clean"
    <3>1. CASE k = n + 1 BY <1>2, <2>3, <2>4, <2>6, <3>1 DEF Acceptable
    <3>2. CASE k \in 1..n BY <2>1, <2>6, <3>2 DEF AdmissionInv, Collected
    <3>3. QED BY <3>1, <3>2
  <2>9. QED BY <1>1, <2>1, <2>6, <2>7, <2>8 DEF Repeats, Collected
<1>3. CASE ~Acceptable(outcome)
  <2>1. repeat' = [step |-> "written", began |-> repeat.began, runs |-> repeat.runs,
                   passed |-> FALSE]
    BY <1>1, <1>3 DEF Probe, Repeats
  <2>2. QED BY <1>1, <2>1 DEF AdmissionInv, Repeats, Collected
<1>4. QED BY <1>2, <1>3

LEMMA AdmissionInvNext == AdmissionInv /\ [AdmissionNext]_admissionVars => AdmissionInv'
<1> SUFFICES ASSUME AdmissionInv, [AdmissionNext]_admissionVars PROVE AdmissionInv' OBVIOUS
<1>1. ASSUME NEW what \in {"source", "candidate", "default"}, Change(what) PROVE AdmissionInv'
  BY <1>1 DEF Change, AdmissionInv, Trees
<1>2. CASE BeginRepeat
  <2>1. repeat' = [step |-> "running", began |-> tree, runs |-> repeat.runs,
                   passed |-> repeat.passed]
        /\ tree' = tree /\ ~repeat.passed /\ Len(repeat.runs) = 0
    BY <1>2 DEF BeginRepeat, AdmissionInv, Repeats, Collected
  <2>2. QED BY <2>1 DEF AdmissionInv, Repeats, Collected
<1>3. CASE ConcludeRepeat
  <2>1. Len(repeat.runs) = 3 /\ tree' = tree
        /\ repeat' = [step |-> "written", began |-> repeat.began, runs |-> repeat.runs,
                      passed |-> Agree(repeat.runs) /\ tree = repeat.began]
    BY <1>3 DEF ConcludeRepeat, AdmissionInv, Repeats
  <2>2. Agree(repeat.runs) \in BOOLEAN BY DEF Agree
  <2>3. QED BY <2>1, <2>2 DEF AdmissionInv, Repeats, Collected
<1>4. ASSUME NEW outcome \in Outcomes, Probe(outcome) PROVE AdmissionInv'
  BY <1>4, ProbeKeeps DEF AdmissionInv, Probe
<1>5. CASE tree' = tree /\ repeat' = repeat BY <1>5 DEF AdmissionInv, Collected
<1>6. QED
  BY <1>1, <1>2, <1>3, <1>4, <1>5
  DEF AdmissionNext, CollectCheck, CollectApplication, Review, admissionVars

(* A run listed again in place of another has its session twice.            *)
LEMMA RepetitionIsSeen ==
  ASSUME repeat \in Repeats, Collected(repeat),
         NEW j \in 1..Len(repeat.runs), NEW k \in 1..Len(repeat.runs), j # k
  PROVE  ~RepeatVerified([repeat EXCEPT !.runs[k] = repeat.runs[j]])
<1> DEFINE runs == [repeat.runs EXCEPT ![k] = repeat.runs[j]]
           r == [repeat EXCEPT !.runs[k] = repeat.runs[j]]
<1>1. /\ repeat.runs \in Seq(ProbeRuns) /\ Len(repeat.runs) \in Nat
      /\ repeat.runs[j] \in ProbeRuns /\ DOMAIN repeat.runs = 1..Len(repeat.runs)
  BY RunsTyped DEF Repeats
<1>2. r.runs = runs BY DEF Repeats
<1>3. runs[j] = repeat.runs[j] /\ runs[k] = repeat.runs[j] /\ DOMAIN runs = 1..Len(repeat.runs)
  BY <1>1
<1>4. ~FreshSessions(runs) BY <1>3 DEF FreshSessions
<1>5. QED BY <1>2, <1>4 DEF RepeatVerified

(* What is admitted was all seen of the sources and installations as they   *)
(* are now, three times alike, however often they change while evidence of  *)
(* them is collected and whatever the runs of a probe come to; a repeat     *)
(* that passed is verified unless something changed or a run exited oddly.  *)
THEOREM AdmissionStaysEarned == AdmissionSpec => []AdmissionIsEarned
<1>1. AdmissionInv => AdmissionIsEarned
  <2> SUFFICES ASSUME AdmissionInv PROVE AdmissionIsEarned OBVIOUS
  <2> DEFINE runs == repeat.runs
             odd == \E k \in DOMAIN runs : runs[k].outcome.sclang = "odd"
  <2>1. /\ runs \in Seq(ProbeRuns) /\ Len(runs) \in Nat /\ DOMAIN runs = 1..Len(runs)
        /\ \A k \in 1..Len(runs) : runs[k] \in ProbeRuns
        /\ repeat \in Repeats /\ Collected(repeat)
    BY RunsTyped DEF AdmissionInv, Repeats
  <2>2. RepeatVerified(repeat) <=> repeat.passed /\ ~odd /\ repeat.began = tree
    <3>1. RepeatVerified(repeat) => repeat.passed /\ ~odd /\ repeat.began = tree
      BY DEF RepeatVerified, RunVerified
    <3>2. ASSUME repeat.passed, ~odd, repeat.began = tree PROVE RepeatVerified(repeat)
      <4>1. Len(runs) = 3 /\ Agree(runs) BY <2>1, <3>2 DEF Collected
      <4>2. \A k \in DOMAIN runs : runs[k].outcome.sclang = "clean"
        BY <2>1, <3>2 DEF ProbeRuns, ProbeOutcomes
      <4>3. \A k \in DOMAIN runs : RunVerified(repeat, runs[k])
        BY <2>1, <4>2 DEF Collected, RunVerified
      <4>4. FreshSessions(runs) BY <2>1, <4>1 DEF Collected, FreshSessions
      <4>5. QED BY <3>2, <4>1, <4>3, <4>4 DEF RepeatVerified
    <3>3. QED BY <3>1, <3>2
  <2>3. ASSUME NEW j \in DOMAIN runs, NEW k \in DOMAIN runs,
               [repeat EXCEPT !.runs[k] = runs[j]] # repeat
        PROVE  ~RepeatVerified([repeat EXCEPT !.runs[k] = runs[j]])
    <3>1. j # k
      <4>1. SUFFICES ASSUME j = k PROVE [repeat EXCEPT !.runs[k] = runs[j]] = repeat BY <2>3
      <4>2. [runs EXCEPT ![k] = runs[j]] = runs BY <2>1, <4>1
      <4>3. QED BY <2>1, <4>2 DEF Repeats
    <3>2. QED BY <2>1, <3>1, RepetitionIsSeen
  <2>4. ASSUME Admitted(repeat)
        PROVE  /\ \A runtime \in Runtimes : index.check[runtime].of = Checked(repeat.began, runtime)
               /\ index.application.of = repeat.began
               /\ index.review.of.source = repeat.began.source
               /\ Cardinality({runs[k].outcome.output : k \in 1..3}) = 1
    <3>1. /\ repeat.began = tree /\ FreshSessions(runs) /\ Agree(runs)
          /\ \A runtime \in Runtimes : index.check[runtime].of = Checked(tree, runtime)
          /\ index.application.of = tree
          /\ index.review.of.source = tree.source
      BY <2>4
      DEF Admitted, RepeatVerified, CheckVerified, ApplicationVerified, ReviewVerified
    <3>2. DOMAIN runs = 1..3 BY <2>1, <3>1 DEF FreshSessions
    <3>3. {runs[k].outcome.output : k \in 1..3} = {runs[1].outcome.output}
      BY <3>1, <3>2 DEF Agree
    <3>4. QED BY <3>1, <3>3, FS_Singleton
  <2>5. QED BY <2>2, <2>3, <2>4 DEF AdmissionIsEarned
<1>2. QED BY <1>1, AdmissionInvInit, AdmissionInvNext, PTL DEF AdmissionSpec
-----------------------------------------------------------------------------
(* Scenario runs, for any scenarios, deadlines and number of beats: a run  *)
(* that passed did what its bundle says, and only that bundle is evidence  *)
(* of it.                                                                  *)
(*                                                                         *)
(* VerdictIsEarned speaks of the end of a run; its invariant, RunInv, of   *)
(* every step on the way.  As long as there is no error, each step that is *)
(* over passed, and the trace, the actions that the backend applied, the   *)
(* timeline and the observations are those of the steps so far (SoFar).    *)
(* What a bundle is compared with is picked from its steps by a fold (Of), *)
(* so that a step that passes needs what the fold does to a longer         *)
(* sequence: the lemmas of Folding.                                        *)

PickKind(kinds, picked, kind) == IF kind \in kinds THEN Append(picked, kind) ELSE picked
PickBase(q) == q[2]
PickLast(s) == Max(s)
PickNext(q, i, v) == PickKind(q[1], v, q[3][i])
Picking == INSTANCE Folding WITH
             Base <- PickBase, Pick <- PickLast, Step <- PickNext, Op <- PickKind

LEMMA PickingFolds == Picking!FoldsSequences
BY DEF Picking!FoldsSequences, PickBase, PickLast, PickNext, Max, Picking!Max

(* Of is a fold from the left, one kind after the other. *)
LEMMA OfIsFold ==
  ASSUME NEW seq, NEW kinds PROVE Of(seq, kinds) = Picking!Fold(kinds, <<>>, seq)
BY DEF Of, FoldLeft, MapThenFoldSet, Max, PickKind,
       Picking!Fold, Picking!FoldLeft, Picking!MapThenFoldSet, Picking!Max

LEMMA OfEmpty == ASSUME NEW kinds PROVE Of(<<>>, kinds) = <<>>
BY OfIsFold, PickingFolds, Picking!FoldEmpty

LEMMA OfAppend ==
  ASSUME NEW kinds, NEW S, NEW seq \in Seq(S), NEW k \in S
  PROVE  Of(Append(seq, k), kinds)
           = IF k \in kinds THEN Append(Of(seq, kinds), k) ELSE Of(seq, kinds)
BY OfIsFold, PickingFolds, Picking!FoldAppend DEF PickKind

LEMMA OfPicks ==
  ASSUME NEW X, NEW seq \in Seq(X), NEW kinds
  PROVE  /\ Of(seq, kinds) \in Seq(X)
         /\ (\E i \in 1..Len(seq) : seq[i] \in kinds) => Of(seq, kinds) # <<>>
<1> DEFINE Picked(s) == /\ Of(s, kinds) \in Seq(X)
                        /\ ((\E i \in 1..Len(s) : s[i] \in kinds) => Of(s, kinds) # <<>>)
           S == {n \in Nat : \A s \in Seq(X) : Len(s) = n => Picked(s)}
<1>1. 0 \in S
  <2> SUFFICES ASSUME NEW s \in Seq(X), Len(s) = 0 PROVE Picked(s) OBVIOUS
  <2>1. s = <<>> OBVIOUS
  <2>2. Of(s, kinds) = <<>> BY <2>1, OfEmpty
  <2>3. <<>> \in Seq(X) /\ ~\E i \in 1..Len(s) : s[i] \in kinds OBVIOUS
  <2> QED BY <2>2, <2>3
<1>2. ASSUME NEW n \in Nat, n \in S PROVE n + 1 \in S
  <2> SUFFICES ASSUME NEW s \in Seq(X), Len(s) = n + 1 PROVE Picked(s) OBVIOUS
  <2>1. PICK t \in Seq(X), x \in X : s = Append(t, x) 
    <3>1. s # <<>> OBVIOUS
    <3> QED BY <3>1, SequenceEmptyOrAppend
  <2>2. Len(t) = n BY <2>1
  <2>3. Picked(t) BY <2>2, <1>2
  <2>4. Of(s, kinds) = IF x \in kinds THEN Append(Of(t, kinds), x) ELSE Of(t, kinds)
    BY <2>1, OfAppend
  <2>5. Of(s, kinds) \in Seq(X) BY <2>3, <2>4
  <2>6. ASSUME NEW i \in 1..Len(s), s[i] \in kinds PROVE Of(s, kinds) # <<>>
    <3>1. CASE x \in kinds BY <3>1, <2>4, <2>3
    <3>2. CASE x \notin kinds
      <4>1. i \in 1..Len(t) /\ t[i] \in kinds BY <3>2, <2>6, <2>1, <2>2
      <4> QED BY <4>1, <2>3, <2>4, <3>2
    <3> QED BY <3>1, <3>2
  <2> QED BY <2>5, <2>6
<1>3. Nat \subseteq S
  <2> HIDE DEF S
  <2> QED BY <1>1, <1>2, Picking!Induction
<1> QED BY <1>3

-----------------------------------------------------------------------------
(* The invariant of a run. *)

RunPhases == {"start", "steps", "beat", "step", "stop", "done"}
StepOutcomes == [index : Nat, kind : Kinds \cup {"startup"}, passed : BOOLEAN]

FailureCodes ==
  {"none", "start", "scenario_timeout", "missing_anchor", "request", "fixture_fault",
   "runtime_errors", "observation_path", "assertion_failed", "observation_timeout",
   "clock_fidelity", "duplicate_anchor", "beat_timeout", "clock_reset", "source_changed",
   "stop"}

RunStates ==
  [phase : RunPhases, until : Nat, known : BOOLEAN, results : Seq(StepOutcomes), trace : Seq(Nat),
   seen : SUBSET BOOLEAN, anchor : [beats : Nat, epoch : Nat],
   timeline : Seq([kind : Kinds, at : Nat]), error : FailureCodes]

Worlds ==
  [now : Nat, session : {"none", "up", "lost"}, beats : Nat, epoch : Nat, value : BOOLEAN,
   errors : BOOLEAN, source : {"same", "changed", "changed later"}, applied : Seq(Nat),
   resets : Nat]

SoFar == SubSeq(Steps, 1, Len(run.results))

\* The phases of a run without an error.
PhasesAreKept ==
  /\ Len(run.results) <= Len(Steps)
  /\ run.phase \in {"beat", "step"} => Len(run.results) < Len(Steps)
  /\ run.phase = "beat" => Step = "at_beat"
  /\ run.phase \in {"stop", "done"} => Len(run.results) = Len(Steps) /\ world.source # "changed"
  /\ run.phase = "start" => run.results = <<>>
  /\ run.phase # "start" => run.known
  /\ run.phase = "done" => world.session = "none"

\* Every step that is over passed, and its actions were applied in their order.
StepsArePassed ==
  \A k \in DOMAIN run.results :
    run.results[k] = [index |-> k - 1, kind |-> Steps[k], passed |-> TRUE]

ActsAreApplied ==
  /\ Len(run.trace) = Len(world.applied)
  /\ \A k \in DOMAIN run.trace : run.trace[k] = k
  /\ Len(world.applied) = Len(Of(SoFar, Acts))
  /\ \A i \in Nat : (\E k \in DOMAIN world.applied : world.applied[k] = i)
                      <=> i + 1 \in 1..Len(run.results) /\ Steps[i + 1] \in Acts
  /\ \A j, k \in DOMAIN world.applied : j < k => world.applied[j] < world.applied[k]

\* An at_beat is in the timeline before its action.
BeatsAreReached ==
  /\ [k \in DOMAIN run.timeline |-> run.timeline[k].kind]
       = IF run.phase = "step" /\ Step = "at_beat" THEN Append(Of(SoFar, Paces), "at_beat")
         ELSE Of(SoFar, Paces)
  /\ \A k \in DOMAIN run.timeline : run.anchor.epoch = run.timeline[k].at + 1

LooksAreSeen ==
  /\ run.seen \subseteq {FALSE}
  /\ (\E k \in DOMAIN run.results : run.results[k].kind \in Looks) => FALSE \in run.seen

RunInv ==
  /\ scenario \in Scenarios /\ Runnable(scenario)
  /\ run \in RunStates /\ world \in Worlds
  /\ world.epoch = world.resets + 1
  /\ run.error # "none" => run.phase \in {"stop", "done"}
  /\ run.phase = "done" /\ world.session # "none" => run.error # "none"
  /\ run.error = "none" =>
       PhasesAreKept /\ StepsArePassed /\ ActsAreApplied /\ BeatsAreReached /\ LooksAreSeen

-----------------------------------------------------------------------------
(* A step that fails, one that passes, and one that goes on. *)

LEMMA StepsTyped ==
  ASSUME RunInv
  PROVE  /\ Steps \in Seq(Kinds) /\ Len(Steps) \in Nat
         /\ Len(run.results) \in Nat /\ Position = Len(run.results) + 1
         /\ Position <= Len(Steps) => Step \in Kinds /\ Step = Steps[Len(run.results) + 1]
<1>1. Steps \in Seq(Kinds) BY ScenarioAssumption DEF RunInv, Steps
<1>2. run.results \in Seq(StepOutcomes) BY DEF RunInv, RunStates
<1> QED BY <1>1, <1>2 DEF Position, Step

LEMMA FailIsTyped ==
  ASSUME RunInv, NEW r \in RunStates, r.results = run.results, r.phase = "start" => r.results = <<>>,
         NEW code \in FailureCodes
  PROVE  /\ Fail(r, code) \in RunStates
         /\ Fail(r, code).error = code /\ Fail(r, code).phase = "stop"
<1>1. /\ r.results \in Seq(StepOutcomes) /\ Index \in Nat
  BY StepsTyped DEF RunStates, Index
<1>2. CASE Len(r.results) < Len(Steps)
  <2> DEFINE o == [index |-> Index, passed |-> FALSE,
                    kind |-> IF r.phase = "start" THEN "startup" ELSE Step]
  <2>1. o \in StepOutcomes BY <1>1, <1>2, StepsTyped DEF StepOutcomes
  <2>2. Append(r.results, o) \in Seq(StepOutcomes) BY <1>1, <2>1, AppendProperties
  <2>3. Fail(r, code) = [r EXCEPT !.error = code, !.phase = "stop", !.results = Append(r.results, o)]
    BY <1>2 DEF Fail
  <2>4. "stop" \in RunPhases BY DEF RunPhases
  <2>5. Fail(r, code) \in RunStates BY <2>2, <2>3, <2>4, Zenon DEF RunStates
  <2> HIDE DEF o
  <2> QED BY <2>3, <2>5 DEF RunStates
<1>3. CASE ~(Len(r.results) < Len(Steps))
  <2>1. Fail(r, code) = [r EXCEPT !.error = code, !.phase = "stop", !.results = r.results]
    BY <1>3 DEF Fail
  <2>2. "stop" \in RunPhases BY DEF RunPhases
  <2>3. Fail(r, code) \in RunStates BY <1>1, <2>1, <2>2, Zenon DEF RunStates
  <2> QED BY <2>1, <2>3 DEF RunStates
<1> QED BY <1>2, <1>3

LEMMA PassAppends ==
  ASSUME RunInv, NEW r \in RunStates, r.results = run.results, Len(run.results) < Len(Steps)
  PROVE  /\ Pass(r) \in RunStates
         /\ Pass(r) = [r EXCEPT !.phase = "steps",
                       !.results = Append(run.results,
                          [index |-> Len(run.results), kind |-> Step, passed |-> TRUE])]
<1> DEFINE o == [index |-> Len(run.results), kind |-> Step, passed |-> TRUE]
<1>1. run.results \in Seq(StepOutcomes) BY DEF RunInv, RunStates
<1>2. o \in StepOutcomes BY StepsTyped DEF StepOutcomes
<1>3. Append(run.results, o) \in Seq(StepOutcomes) BY <1>1, <1>2, AppendProperties
<1>4. Pass(r) = [r EXCEPT !.phase = "steps", !.results = Append(run.results, o)]
  BY DEF Pass, Index
<1> HIDE DEF o
<1>5. Pass(r) \in RunStates
  <2>1. "steps" \in RunPhases BY DEF RunPhases
  <2> QED BY <1>3, <1>4, <2>1, Zenon DEF RunStates
<1> QED BY <1>4, <1>5 DEF o

WorldIsKept ==
  world' \in Worlds /\ world'.epoch = world'.resets + 1 /\ scenario' = scenario

LEMMA FailKeeps ==
  ASSUME RunInv, WorldIsKept, run' \in RunStates, run'.error # "none", run'.phase = "stop"
  PROVE  RunInv'
BY DEF RunInv, WorldIsKept, Runnable

KindsOf(timeline) == [k \in DOMAIN timeline |-> timeline[k].kind]

\* What of a run changes in a step that passes.
PassingFrom(r) ==
  /\ r \in RunStates /\ r.results = run.results /\ r.known = run.known /\ r.error = "none"
  /\ IF Step \in Acts
     THEN r.trace = Append(run.trace, Len(run.trace) + 1)
          /\ world'.applied = Append(world.applied, Len(run.results))
     ELSE r.trace = run.trace /\ world'.applied = world.applied
  /\ KindsOf(r.timeline) = IF Step \in Paces THEN Append(Of(SoFar, Paces), Step) ELSE Of(SoFar, Paces)
  /\ \A k \in DOMAIN r.timeline : r.anchor.epoch = r.timeline[k].at + 1
  /\ r.seen \subseteq {FALSE} /\ run.seen \subseteq r.seen
  /\ Step \in Looks => FALSE \in r.seen

LEMMA SoFarGrows ==
  ASSUME RunInv, scenario' = scenario, Len(run.results) < Len(Steps),
         NEW o, run'.results = Append(run.results, o)
  PROVE  /\ SoFar \in Seq(Kinds) /\ SoFar' = Append(SoFar, Step)
         /\ Len(run'.results) = Len(run.results) + 1
         /\ \A k \in 1..Len(run.results) : run'.results[k] = run.results[k]
         /\ run'.results[Len(run.results) + 1] = o
<1>1. run.results \in Seq(StepOutcomes) BY DEF RunInv, RunStates
<1>2. Steps' = Steps BY DEF Steps
<1> DEFINE n == Len(run.results)
<1>3. n \in Nat /\ Len(run'.results) = n + 1 BY <1>1
<1>4. SubSeq(Steps, 1, n + 1) = Append(SubSeq(Steps, 1, n), Steps[n + 1])
  BY <1>3, StepsTyped
<1>5. SoFar \in Seq(Kinds) BY StepsTyped DEF SoFar
<1> QED BY <1>1, <1>2, <1>3, <1>4, <1>5, StepsTyped DEF SoFar

LEMMA PassKeeps ==
  ASSUME RunInv, WorldIsKept, run.error = "none", run.phase = "step", NEW r,
         PassingFrom(r), run' = Pass(r)
  PROVE  RunInv'
<1> DEFINE n == Len(run.results)
           o == [index |-> n, kind |-> Step, passed |-> TRUE]
<1>1. /\ PhasesAreKept /\ StepsArePassed /\ ActsAreApplied /\ BeatsAreReached /\ LooksAreSeen
      /\ n < Len(Steps) /\ n \in Nat
  BY StepsTyped DEF RunInv, PhasesAreKept
<1>2. /\ run' \in RunStates
      /\ run' = [r EXCEPT !.phase = "steps", !.results = Append(run.results, o)]
  BY <1>1, PassAppends DEF PassingFrom
<1>3. r \in RunStates BY DEF PassingFrom
<1>4. /\ run'.phase = "steps" /\ run'.results = Append(run.results, o) /\ run'.error = "none"
      /\ run'.known = run.known /\ run'.trace = r.trace /\ run'.timeline = r.timeline
      /\ run'.anchor = r.anchor /\ run'.seen = r.seen
  BY <1>2, <1>3 DEF PassingFrom, RunStates
<1>5. /\ SoFar \in Seq(Kinds) /\ SoFar' = Append(SoFar, Step)
      /\ Len(run'.results) = n + 1
      /\ \A k \in 1..n : run'.results[k] = run.results[k]
      /\ run'.results[n + 1] = o
  BY <1>1, <1>4, SoFarGrows DEF WorldIsKept
<1>6. /\ run'.results \in Seq(StepOutcomes) /\ run.results \in Seq(StepOutcomes)
      /\ DOMAIN run'.results = 1..(n + 1) /\ DOMAIN run.results = 1..n
  <2>1. run'.results \in Seq(StepOutcomes) BY <1>2 DEF RunStates
  <2>2. run.results \in Seq(StepOutcomes) BY DEF RunInv, RunStates
  <2> QED BY <2>1, <2>2, <1>5, LenProperties
<1>7. Step \in Kinds /\ Step = Steps[n + 1] /\ Steps' = Steps
  BY <1>1, StepsTyped DEF WorldIsKept, Steps
<1> HIDE DEF o
<1>8. PhasesAreKept'
  BY <1>1, <1>4, <1>5, <1>7, StepsTyped DEF PhasesAreKept
<1>9. StepsArePassed'
  <2> SUFFICES ASSUME NEW k \in 1..(n + 1)
               PROVE run'.results[k] = [index |-> k - 1, kind |-> Steps[k], passed |-> TRUE]
    BY <1>6, <1>7 DEF StepsArePassed
  <2>1. CASE k \in 1..n BY <2>1, <1>1, <1>5, <1>6 DEF StepsArePassed
  <2>2. CASE k = n + 1
    <3>1. k - 1 = n BY <2>2, <1>1
    <3> QED BY <2>2, <3>1, <1>5, <1>7 DEF o
  <2> QED BY <2>1, <2>2, <1>1
<1>10. ActsAreApplied'
  <2>1. world.applied \in Seq(Nat) /\ run.trace \in Seq(Nat) BY DEF RunInv, Worlds, RunStates
  <2>2. Of(SoFar', Acts) = IF Step \in Acts THEN Append(Of(SoFar, Acts), Step) ELSE Of(SoFar, Acts)
    <3>1. Of(Append(SoFar, Step), Acts)
            = IF Step \in Acts THEN Append(Of(SoFar, Acts), Step) ELSE Of(SoFar, Acts)
      <4>1. SoFar \in Seq(Kinds) /\ Step \in Kinds BY <1>5, <1>7
      <4> QED BY <4>1, OfAppend
    <3> QED BY <3>1, <1>5
  <2>3. Of(SoFar, Acts) \in Seq(Kinds) BY <1>5, OfPicks
  <2>4. ASSUME Step \in Acts PROVE ActsAreApplied'
    <3>1. /\ run'.trace = Append(run.trace, Len(run.trace) + 1)
          /\ world'.applied = Append(world.applied, n)
      BY <2>4, <1>4 DEF PassingFrom
    <3>2. /\ Len(run'.trace) = Len(run.trace) + 1 /\ Len(world'.applied) = Len(world.applied) + 1
          /\ DOMAIN run'.trace = 1..(Len(run.trace) + 1)
          /\ DOMAIN world'.applied = 1..(Len(world.applied) + 1)
          /\ \A k \in 1..Len(run.trace) : run'.trace[k] = run.trace[k]
          /\ run'.trace[Len(run.trace) + 1] = Len(run.trace) + 1
          /\ \A k \in 1..Len(world.applied) : world'.applied[k] = world.applied[k]
          /\ world'.applied[Len(world.applied) + 1] = n
          /\ Len(world.applied) \in Nat /\ Len(run.trace) \in Nat
          /\ DOMAIN world.applied = 1..Len(world.applied) /\ DOMAIN run.trace = 1..Len(run.trace)
      BY <3>1, <2>1, <1>1
    <3>3. Len(run'.trace) = Len(world'.applied) /\ \A k \in DOMAIN run'.trace : run'.trace[k] = k
      BY <3>2, <1>1 DEF ActsAreApplied
    <3>4. Len(world'.applied) = Len(Of(SoFar', Acts))
      <4>1. Len(Append(Of(SoFar, Acts), Step)) = Len(Of(SoFar, Acts)) + 1 BY <2>3, <1>7
      <4> QED BY <4>1, <2>2, <2>4, <3>2, <1>1 DEF ActsAreApplied
    <3>5. \A k \in 1..Len(world.applied) : world.applied[k] \in Nat /\ world.applied[k] < n
      <4> TAKE k \in 1..Len(world.applied)
      <4>1. world.applied[k] \in Nat BY <2>1
      <4>2. \E j \in DOMAIN world.applied : world.applied[j] = world.applied[k] BY <3>2
      <4>3. world.applied[k] + 1 \in 1..n BY <4>1, <4>2, <1>1 DEF ActsAreApplied
      <4> QED BY <4>1, <4>3, <1>1
    <3>6. ASSUME NEW i \in Nat
          PROVE (\E k \in DOMAIN world'.applied : world'.applied[k] = i)
                  <=> i + 1 \in 1..Len(run'.results) /\ Steps[i + 1] \in Acts
      <4>1. (\E k \in DOMAIN world'.applied : world'.applied[k] = i)
              <=> i = n \/ \E k \in DOMAIN world.applied : world.applied[k] = i
        <5>1. ASSUME NEW k \in DOMAIN world'.applied, world'.applied[k] = i
              PROVE i = n \/ \E j \in DOMAIN world.applied : world.applied[j] = i
          <6>1. CASE k \in 1..Len(world.applied) BY <5>1, <6>1, <3>2
          <6>2. CASE k = Len(world.applied) + 1 BY <5>1, <6>2, <3>2
          <6> QED BY <6>1, <6>2, <3>2
        <5>2. ASSUME i = n PROVE \E k \in DOMAIN world'.applied : world'.applied[k] = i
          <6>1. Len(world.applied) + 1 \in DOMAIN world'.applied BY <3>2
          <6> QED BY <5>2, <6>1, <3>2
        <5>3. ASSUME NEW k \in DOMAIN world.applied, world.applied[k] = i
              PROVE \E j \in DOMAIN world'.applied : world'.applied[j] = i
          <6>1. k \in DOMAIN world'.applied /\ world'.applied[k] = world.applied[k] BY <3>2
          <6> QED BY <5>3, <6>1
        <5> QED BY <5>1, <5>2, <5>3
      <4>2. (\E k \in DOMAIN world.applied : world.applied[k] = i)
                  <=> i + 1 \in 1..n /\ Steps[i + 1] \in Acts
        BY <1>1 DEF ActsAreApplied
      <4>3. i + 1 \in 1..(n + 1) <=> i = n \/ i + 1 \in 1..n BY <1>1
      <4>4. i = n => Steps[i + 1] \in Acts BY <1>7, <2>4
      <4> QED BY <4>1, <4>2, <4>3, <4>4, <1>5
    <3>7. ASSUME NEW j \in DOMAIN world'.applied, NEW k \in DOMAIN world'.applied, j < k
          PROVE world'.applied[j] < world'.applied[k]
      <4>1. j \in 1..Len(world.applied) BY <3>2, <3>7
      <4>2. CASE k \in 1..Len(world.applied)
        BY <4>1, <4>2, <3>2, <3>7, <1>1 DEF ActsAreApplied
      <4>3. CASE k = Len(world.applied) + 1
        BY <4>1, <4>3, <3>2, <3>5
      <4> QED BY <4>2, <4>3, <3>2
    <3> QED BY <3>3, <3>4, <3>6, <3>7, <1>7 DEF ActsAreApplied
  <2>5. ASSUME Step \notin Acts PROVE ActsAreApplied'
    <3>1. run'.trace = run.trace /\ world'.applied = world.applied
      BY <2>5, <1>4 DEF PassingFrom
    <3>2. Len(world'.applied) = Len(Of(SoFar', Acts)) BY <3>1, <2>2, <2>5, <1>1 DEF ActsAreApplied
    <3>3. ASSUME NEW i \in Nat
          PROVE i + 1 \in 1..(n + 1) /\ Steps[i + 1] \in Acts
                  <=> i + 1 \in 1..n /\ Steps[i + 1] \in Acts
      <4>1. i + 1 \in 1..(n + 1) <=> i = n \/ i + 1 \in 1..n BY <1>1
      <4>2. i = n => Steps[i + 1] \notin Acts BY <1>7, <2>5
      <4> QED BY <4>1, <4>2
    <3> QED BY <3>1, <3>2, <3>3, <1>1, <1>5, <1>7 DEF ActsAreApplied
  <2> QED BY <2>4, <2>5
<1>11. BeatsAreReached'
  <2>1. Of(SoFar', Paces) = IF Step \in Paces THEN Append(Of(SoFar, Paces), Step) ELSE Of(SoFar, Paces)
    <3>1. Of(Append(SoFar, Step), Paces)
            = IF Step \in Paces THEN Append(Of(SoFar, Paces), Step) ELSE Of(SoFar, Paces)
      <4>1. SoFar \in Seq(Kinds) /\ Step \in Kinds BY <1>5, <1>7
      <4> QED BY <4>1, OfAppend
    <3> QED BY <3>1, <1>5
  <2>2. KindsOf(run'.timeline) = Of(SoFar', Paces) BY <2>1, <1>4 DEF PassingFrom
  <2> QED BY <2>2, <1>4 DEF PassingFrom, BeatsAreReached, KindsOf
<1>12. LooksAreSeen'
  <2>1. run'.seen \subseteq {FALSE} BY <1>4 DEF PassingFrom
  <2>2. ASSUME NEW k \in 1..(n + 1), run'.results[k].kind \in Looks PROVE FALSE \in run'.seen
    <3>1. CASE k \in 1..n
      BY <3>1, <2>2, <1>1, <1>4, <1>5, <1>6 DEF PassingFrom, LooksAreSeen
    <3>2. CASE k = n + 1
      <4>1. Step \in Looks BY <3>2, <2>2, <1>5 DEF o
      <4> QED BY <4>1, <1>4 DEF PassingFrom
    <3>3. k \in 1..n \/ k = n + 1 BY <1>1
    <3> QED BY <3>1, <3>2, <3>3
  <2> QED BY <2>1, <2>2, <1>6 DEF LooksAreSeen
<1> QED BY <1>2, <1>4, <1>8, <1>9, <1>10, <1>11, <1>12 DEF RunInv, WorldIsKept, Runnable

LEMMA PhaseHasNoError ==
  ASSUME RunInv, run.phase \in {"start", "steps", "beat", "step"}
  PROVE  /\ run.error = "none" /\ PhasesAreKept /\ StepsArePassed /\ ActsAreApplied
         /\ BeatsAreReached /\ LooksAreSeen
BY DEF RunInv

LEMMA RunFails ==
  ASSUME RunInv, WorldIsKept, NEW r \in RunStates, r.results = run.results, r.phase = run.phase,
         run.phase \in {"start", "steps", "beat", "step"},
         NEW code \in FailureCodes, code # "none", run' = Fail(r, code)
  PROVE  RunInv'
<1>1. r.phase = "start" => r.results = <<>> BY PhaseHasNoError DEF PhasesAreKept
<1>2. run' \in RunStates /\ run'.error # "none" /\ run'.phase = "stop" BY <1>1, FailIsTyped
<1> QED BY <1>2, FailKeeps

LEMMA WorldStays == ASSUME RunInv, UNCHANGED <<scenario, world>> PROVE WorldIsKept
BY DEF RunInv, WorldIsKept

\* A run that does not move, or begins or waits within a step.
LEMMA RunStays ==
  ASSUME RunInv, WorldIsKept, run' \in RunStates,
         run'.results = run.results, run'.trace = run.trace, run'.seen = run.seen,
         run'.anchor = run.anchor, run'.timeline = run.timeline, run'.error = run.error,
         run'.known = run.known, run'.phase = run.phase,
         world'.applied = world.applied,
         run.phase \in {"stop", "done"} /\ world.source # "changed" => world'.source # "changed",
         world.session = "none" => world'.session = "none"
  PROVE  RunInv'
<1>1. Steps' = Steps /\ SoFar' = SoFar /\ (Step = Step)' /\ Step' = Step /\ Position' = Position
  BY DEF WorldIsKept, Steps, SoFar, Step, Position
<1>2. PhasesAreKept => PhasesAreKept' BY <1>1 DEF PhasesAreKept
<1>3. StepsArePassed => StepsArePassed' BY <1>1 DEF StepsArePassed
<1>4. ActsAreApplied => ActsAreApplied' BY <1>1 DEF ActsAreApplied
<1>5. BeatsAreReached => BeatsAreReached' BY <1>1 DEF BeatsAreReached
<1>6. LooksAreSeen => LooksAreSeen' BY <1>1 DEF LooksAreSeen
<1> QED BY <1>2, <1>3, <1>4, <1>5, <1>6 DEF RunInv, WorldIsKept, Runnable

-----------------------------------------------------------------------------
(* Each action keeps it. *)

LEMMA ElapsesKeeps == ASSUME RunInv, Elapses \/ Beats \/ Changes PROVE RunInv'
<1>1. /\ world \in Worlds /\ world.epoch = world.resets + 1 /\ run \in RunStates BY DEF RunInv
<1>2. CASE Elapses
  <2>0. world' = [world EXCEPT !.now = @ + 1] /\ scenario' = scenario BY <1>2 DEF Elapses
  <2>1. world.now + 1 \in Nat
    <3>1. world.now \in Nat BY <1>1 DEF Worlds
    <3> QED BY <3>1
  <2>2. world' \in Worlds BY <1>1, <2>0, <2>1, Zenon DEF Worlds
  <2>3. /\ world'.applied = world.applied /\ world'.source = world.source
        /\ world'.session = world.session /\ world'.epoch = world.epoch /\ world'.resets = world.resets
    BY <1>1, <2>0 DEF Worlds
  <2>4. WorldIsKept BY <1>1, <2>0, <2>2, <2>3 DEF WorldIsKept
  <2> QED BY <1>1, <1>2, <2>3, <2>4, RunStays DEF Elapses
<1>3. CASE Beats
  <2>1. MaxBeats \in Nat BY ScenarioAssumption
  <2>2. scenario' = scenario /\ run' = run BY <1>3 DEF Beats
  <2>3. CASE world' = [world EXCEPT !.beats = @ + 1]
    <3>1. world.beats + 1 \in Nat
      <4>1. world.beats \in Nat BY <1>1 DEF Worlds
      <4> QED BY <4>1
    <3>2. world' \in Worlds BY <1>1, <2>3, <3>1, Zenon DEF Worlds
    <3>3. /\ world'.applied = world.applied /\ world'.source = world.source
          /\ world'.session = world.session /\ world'.epoch = world.epoch /\ world'.resets = world.resets
      BY <1>1, <2>3 DEF Worlds
    <3>4. WorldIsKept BY <1>1, <2>2, <3>2, <3>3 DEF WorldIsKept
    <3> QED BY <1>1, <2>2, <3>3, <3>4, RunStays
  <2>4. CASE world' = [world EXCEPT !.beats = MaxBeats, !.epoch = @ + 1, !.resets = @ + 1]
    <3>1. world.epoch + 1 \in Nat /\ world.resets + 1 \in Nat
      <4>1. world.epoch \in Nat /\ world.resets \in Nat BY <1>1 DEF Worlds
      <4> QED BY <4>1
    <3>2. world' \in Worlds BY <1>1, <2>1, <2>4, <3>1, Zenon DEF Worlds
    <3>3. /\ world'.applied = world.applied /\ world'.source = world.source
          /\ world'.session = world.session /\ world'.epoch = world.epoch + 1
          /\ world'.resets = world.resets + 1
      BY <1>1, <2>4 DEF Worlds
    <3>4. WorldIsKept BY <1>1, <2>2, <3>2, <3>3 DEF WorldIsKept
    <3> QED BY <1>1, <2>2, <3>3, <3>4, RunStays
  <2> QED BY <1>3, <2>3, <2>4 DEF Beats
<1>4. CASE Changes
  <2>1. /\ WorldIsKept /\ world'.applied = world.applied
        /\ run.phase \in {"stop", "done"} /\ world.source # "changed" => world'.source # "changed"
        /\ world.session = "none" => world'.session = "none"
    BY <1>1, <1>4 DEF Changes, Worlds, WorldIsKept
  <2> QED BY <1>1, <1>4, <2>1, RunStays DEF Changes
<1> QED BY <1>2, <1>3, <1>4

LEMMA StartKeeps ==
  ASSUME RunInv, NEW outcome \in {"ready", "named", "unnamed"}, RunStartsSession(outcome)
  PROVE  RunInv'
<1>1. /\ world \in Worlds /\ world.epoch = world.resets + 1 /\ run \in RunStates BY DEF RunInv
<1>2. /\ WorldIsKept /\ world'.applied = world.applied /\ world'.source = world.source
  BY <1>1 DEF RunStartsSession, Worlds, WorldIsKept
<1>3. run.phase = "start" BY DEF RunStartsSession
<1>4. /\ run.error = "none" /\ PhasesAreKept /\ StepsArePassed /\ ActsAreApplied
      /\ BeatsAreReached /\ LooksAreSeen
  BY <1>3, PhaseHasNoError
<1>5. CASE outcome = "ready"
  <2>1. run' = [run EXCEPT !.phase = "steps", !.known = TRUE] BY <1>5 DEF RunStartsSession
  <2>2. run' \in RunStates
    <3>1. "steps" \in RunPhases BY DEF RunPhases
    <3> QED BY <2>1, <1>1, <3>1, Zenon DEF RunStates
  <2>3. /\ run'.results = run.results /\ run'.trace = run.trace /\ run'.seen = run.seen
        /\ run'.anchor = run.anchor /\ run'.timeline = run.timeline /\ run'.error = run.error
        /\ run'.known /\ run'.phase = "steps"
    BY <1>1, <2>1 DEF RunStates
  <2>4. Steps' = Steps /\ SoFar' = SoFar /\ Step' = Step /\ Position' = Position
    BY <1>2, <2>3 DEF WorldIsKept, Steps, SoFar, Step, Position
  <2>5. PhasesAreKept' BY <1>4, <2>3, <2>4 DEF PhasesAreKept
  <2>6. StepsArePassed' BY <1>4, <2>3, <2>4 DEF StepsArePassed
  <2>7. ActsAreApplied' BY <1>4, <1>2, <2>3, <2>4 DEF ActsAreApplied
  <2>8. BeatsAreReached' BY <1>3, <1>4, <2>3, <2>4 DEF BeatsAreReached
  <2>9. LooksAreSeen' BY <1>4, <2>3, <2>4 DEF LooksAreSeen
  <2> QED BY <1>2, <1>4, <2>2, <2>3, <2>5, <2>6, <2>7, <2>8, <2>9 DEF RunInv, WorldIsKept, Runnable
<1>6. CASE outcome # "ready"
  <2> DEFINE q == Fail(run, "start")
  <2>1. run' = [q EXCEPT !.known = outcome = "named"] BY <1>6 DEF RunStartsSession
  <2>2. q \in RunStates /\ q.error = "start" /\ q.phase = "stop"
    <3>1. "start" \in FailureCodes BY DEF FailureCodes
    <3>2. run.phase = "start" => run.results = <<>> BY <1>4 DEF PhasesAreKept
    <3> QED BY <1>1, <3>1, <3>2, FailIsTyped
  <2> HIDE DEF q
  <2>3. (outcome = "named") \in BOOLEAN OBVIOUS
  <2>4. run' \in RunStates BY <2>1, <2>2, <2>3, Zenon DEF RunStates
  <2>5. run'.error = "start" /\ run'.phase = "stop" BY <2>1, <2>2 DEF RunStates
  <2> QED BY <1>2, <2>4, <2>5, FailKeeps
<1> QED BY <1>5, <1>6

LEMMA BeginStepKeeps == ASSUME RunInv, BeginStep PROVE RunInv'
<1>1. /\ world \in Worlds /\ run \in RunStates /\ WorldIsKept
  BY WorldStays DEF RunInv, BeginStep
<1>2. /\ run.phase = "steps" /\ Position <= Len(Steps) BY DEF BeginStep
<1>3. /\ run.error = "none" /\ PhasesAreKept /\ StepsArePassed /\ ActsAreApplied
      /\ BeatsAreReached /\ LooksAreSeen
  BY <1>2, PhaseHasNoError
<1> DEFINE phase == IF Step = "at_beat" THEN "beat" ELSE "step"
           until == Earlier(RunDeadline, world.now + StepTimeout)
<1>4. \/ run' = Fail(run, "scenario_timeout") \/ run' = Fail(run, "missing_anchor")
      \/ run' = [run EXCEPT !.phase = phase, !.until = until]
  BY DEF BeginStep
<1>5. CASE run' = Fail(run, "scenario_timeout")
  <2>1. "scenario_timeout" \in FailureCodes /\ "scenario_timeout" # "none" BY DEF FailureCodes
  <2> QED BY <1>1, <1>2, <1>5, <2>1, RunFails
<1>6. CASE run' = Fail(run, "missing_anchor")
  <2>1. "missing_anchor" \in FailureCodes /\ "missing_anchor" # "none" BY DEF FailureCodes
  <2> QED BY <1>1, <1>2, <1>6, <2>1, RunFails
<1>7. CASE run' = [run EXCEPT !.phase = phase, !.until = until]
  <2>1. phase \in RunPhases BY DEF RunPhases
  <2>2. until \in Nat
    <3>1. RunDeadline \in Nat /\ StepTimeout \in Nat BY ScenarioAssumption
    <3>2. world.now \in Nat BY <1>1 DEF Worlds
    <3> QED BY <3>1, <3>2 DEF Earlier
  <2>3. phase \in {"beat", "step"} /\ (phase = "beat" <=> Step = "at_beat") OBVIOUS
  <2> HIDE DEF phase, until
  <2>4. run' \in RunStates BY <1>1, <1>7, <2>1, <2>2, Zenon DEF RunStates
  <2>5. /\ run'.results = run.results /\ run'.trace = run.trace /\ run'.seen = run.seen
        /\ run'.anchor = run.anchor /\ run'.timeline = run.timeline /\ run'.error = run.error
        /\ run'.known = run.known /\ run'.phase = phase /\ world' = world
    BY <1>1, <1>7 DEF RunStates, BeginStep
  <2>6. Steps' = Steps /\ SoFar' = SoFar /\ Step' = Step /\ Position' = Position
    BY <1>1, <2>5 DEF WorldIsKept, Steps, SoFar, Step, Position
  <2>7. PhasesAreKept' BY <1>2, <1>3, <2>3, <2>5, <2>6, StepsTyped DEF PhasesAreKept
  <2>8. StepsArePassed' BY <1>3, <2>5, <2>6 DEF StepsArePassed
  <2>9. ActsAreApplied' BY <1>3, <2>5, <2>6 DEF ActsAreApplied
  <2>10. BeatsAreReached' BY <1>2, <1>3, <2>3, <2>5, <2>6 DEF BeatsAreReached
  <2>11. LooksAreSeen' BY <1>3, <2>5, <2>6 DEF LooksAreSeen
  <2>12. /\ scenario' \in Scenarios /\ Runnable(scenario')
    BY <1>1 DEF RunInv, WorldIsKept
  <2>13. (world' \in Worlds /\ world'.epoch = world'.resets + 1) BY <1>1 DEF WorldIsKept
  <2>14. run'.error = "none" /\ run'.phase # "done" /\ run'.phase # "stop" BY <1>3, <2>3, <2>5
  <2> QED BY <2>12, <2>13, <2>14, <2>4, <2>7, <2>8, <2>9, <2>10, <2>11 DEF RunInv, Runnable
<1> QED BY <1>4, <1>5, <1>6, <1>7

LEMMA ActionKeeps ==
  ASSUME RunInv, NEW applied \in BOOLEAN, NEW answered \in BOOLEAN, DoAction(applied, answered)
  PROVE  RunInv'
<1>1. /\ world \in Worlds /\ world.epoch = world.resets + 1 /\ run \in RunStates BY DEF RunInv
<1>2. run.phase = "step" /\ Step \in Acts /\ scenario' = scenario BY DEF DoAction
<1>3. /\ run.error = "none" /\ PhasesAreKept /\ StepsArePassed /\ ActsAreApplied
      /\ BeatsAreReached /\ LooksAreSeen
  BY <1>2, PhaseHasNoError
<1>4. WorldIsKept /\ (applied => world'.applied = Append(world.applied, Len(run.results)))
  <2>1. CASE applied
    <3>1. world' = [world EXCEPT !.applied = Append(@, Index)] BY <2>1 DEF DoAction
    <3>2. Append(world.applied, Index) \in Seq(Nat)
      <4>1. world.applied \in Seq(Nat) /\ Index \in Nat BY <1>1, StepsTyped DEF Worlds, Index
      <4> QED BY <4>1, AppendProperties
    <3>3. world' \in Worlds BY <1>1, <3>1, <3>2, Zenon DEF Worlds
    <3>4. /\ world'.applied = Append(world.applied, Len(run.results))
          /\ world'.epoch = world.epoch /\ world'.resets = world.resets
      BY <1>1, <3>1 DEF Worlds, Index
    <3> QED BY <1>1, <1>2, <3>3, <3>4 DEF WorldIsKept
  <2>2. CASE ~applied
    <3>1. world' = world BY <2>2 DEF DoAction
    <3> QED BY <1>1, <1>2, <3>1, <2>2 DEF WorldIsKept
  <2> QED BY <2>1, <2>2
<1>5. CASE ~answered
  <2>1. run' = Fail(run, "request") BY <1>5 DEF DoAction
  <2>2. "request" \in FailureCodes /\ "request" # "none" BY DEF FailureCodes
  <2> QED BY <1>1, <1>2, <1>4, <2>1, <2>2, RunFails
<1>6. CASE answered
  <2> DEFINE r == [run EXCEPT !.trace = Append(@, Len(run.trace) + 1)]
  <2>1. run' = Pass(r) /\ applied BY <1>6 DEF DoAction
  <2>2. Append(run.trace, Len(run.trace) + 1) \in Seq(Nat)
    <3>1. run.trace \in Seq(Nat) BY <1>1 DEF RunStates
    <3>2. Len(run.trace) + 1 \in Nat BY <3>1
    <3> QED BY <3>1, <3>2, AppendProperties
  <2>3. r \in RunStates BY <1>1, <2>2, Zenon DEF RunStates
  <2>4. /\ r.results = run.results /\ r.known = run.known /\ r.error = run.error
        /\ r.trace = Append(run.trace, Len(run.trace) + 1) /\ r.timeline = run.timeline
        /\ r.anchor = run.anchor /\ r.seen = run.seen
    BY <1>1 DEF RunStates
  <2> HIDE DEF r
  <2>5. Step \notin Looks /\ (Step \in Paces <=> Step = "at_beat")
    BY <1>2 DEF Acts, Looks, Paces
  <2>6. PassingFrom(r)
    BY <1>2, <1>3, <1>4, <2>1, <2>3, <2>4, <2>5 DEF PassingFrom, BeatsAreReached, LooksAreSeen, KindsOf
  <2> QED BY <1>2, <1>3, <1>4, <2>1, <2>6, PassKeeps
<1> QED BY <1>5, <1>6

LEMMA FixtureFaultKeeps == ASSUME RunInv, DoFixtureFault PROVE RunInv'
<1>1. /\ WorldIsKept /\ run \in RunStates BY WorldStays DEF RunInv, DoFixtureFault
<1>2. "fixture_fault" \in FailureCodes /\ "fixture_fault" # "none" BY DEF FailureCodes
<1> QED BY <1>1, <1>2, RunFails DEF DoFixtureFault

\* A run that an observation without errors does not end.
KeptRun == [run EXCEPT !.seen = @ \cup {world.errors}]

LEMMA KeptIsTyped ==
  ASSUME RunInv
  PROVE  /\ KeptRun \in RunStates /\ KeptRun.seen = run.seen \cup {world.errors}
         /\ KeptRun.results = run.results /\ KeptRun.known = run.known
         /\ KeptRun.error = run.error /\ KeptRun.trace = run.trace
         /\ KeptRun.timeline = run.timeline /\ KeptRun.anchor = run.anchor
         /\ KeptRun.phase = run.phase /\ KeptRun.until = run.until
<1>1. run \in RunStates /\ world.errors \in BOOLEAN BY DEF RunInv, Worlds
<1>2. run.seen \cup {world.errors} \in SUBSET BOOLEAN
  <2>1. run.seen \in SUBSET BOOLEAN BY <1>1, Zenon DEF RunStates
  <2> QED BY <1>1, <2>1
<1>3. KeptRun \in RunStates BY <1>1, <1>2, Zenon DEF RunStates, KeptRun
<1> QED BY <1>1, <1>3 DEF RunStates, KeptRun

\* An observation that fails, and one that goes on.
LEMMA ObservationFails ==
  ASSUME RunInv, UNCHANGED <<scenario, world>>, run.phase \in {"beat", "step"},
         NEW code \in FailureCodes, code # "none", run' = Fail(run, code) \/ run' = Fail(KeptRun, code)
  PROVE  RunInv'
<1>1. WorldIsKept /\ run \in RunStates BY WorldStays DEF RunInv
<1>2. CASE run' = Fail(run, code) BY <1>1, <1>2, RunFails
<1>3. CASE run' = Fail(KeptRun, code) BY <1>1, <1>3, KeptIsTyped, RunFails
<1> QED BY <1>2, <1>3

LEMMA ObservationWaits ==
  ASSUME RunInv, UNCHANGED <<scenario, world>>, run.phase \in {"beat", "step"},
         world.errors = FALSE, run' = KeptRun
  PROVE  RunInv'
<1>1. WorldIsKept BY WorldStays
<1>2. /\ run.error = "none" /\ PhasesAreKept /\ StepsArePassed /\ ActsAreApplied
      /\ BeatsAreReached /\ LooksAreSeen
  BY PhaseHasNoError
<1>3. /\ run' \in RunStates /\ run'.seen = run.seen \cup {FALSE}
      /\ run'.results = run.results /\ run'.known = run.known
      /\ run'.error = run.error /\ run'.trace = run.trace
      /\ run'.timeline = run.timeline /\ run'.anchor = run.anchor
      /\ run'.phase = run.phase /\ world' = world
  BY KeptIsTyped
<1>4. Steps' = Steps /\ SoFar' = SoFar /\ Step' = Step /\ Position' = Position
  BY <1>1, <1>3 DEF WorldIsKept, Steps, SoFar, Step, Position
<1>5. PhasesAreKept' BY <1>2, <1>3, <1>4 DEF PhasesAreKept
<1>6. StepsArePassed' BY <1>2, <1>3, <1>4 DEF StepsArePassed
<1>7. ActsAreApplied' BY <1>2, <1>3, <1>4 DEF ActsAreApplied
<1>8. BeatsAreReached' BY <1>2, <1>3, <1>4 DEF BeatsAreReached
<1>9. LooksAreSeen' BY <1>2, <1>3, <1>4 DEF LooksAreSeen
<1>10. /\ scenario' \in Scenarios /\ Runnable(scenario')
  BY <1>1 DEF RunInv, WorldIsKept
<1>11. (world' \in Worlds /\ world'.epoch = world'.resets + 1) BY <1>1 DEF WorldIsKept
<1>12. run'.error = "none" /\ run'.phase # "done" BY <1>2, <1>3
<1> QED BY <1>3, <1>5, <1>6, <1>7, <1>8, <1>9, <1>10, <1>11, <1>12 DEF RunInv, Runnable

LEMMA LookKeeps == ASSUME RunInv, NEW present \in BOOLEAN, Look(present) PROVE RunInv'
<1>1. /\ run.phase = "step" /\ Step \in {"assertion", "wait"} /\ UNCHANGED <<scenario, world>>
  BY DEF Look, Observing
<1>2. \/ run' = Fail(run, "request")
      \/ run' = Fail(KeptRun, "runtime_errors")
      \/ run' = Fail(KeptRun, "observation_path")
      \/ run' = Fail(KeptRun, "assertion_failed")
      \/ run' = Fail(KeptRun, "observation_timeout")
      \/ world.errors = FALSE /\ run' = Pass(KeptRun)
      \/ world.errors = FALSE /\ run' = KeptRun
  <2>1. world.errors \in BOOLEAN BY DEF RunInv, Worlds
  <2> QED BY <1>1, <2>1 DEF Look, Observing, KeptRun
<1>3. /\ "request" \in FailureCodes /\ "request" # "none"
      /\ "runtime_errors" \in FailureCodes /\ "runtime_errors" # "none"
      /\ "observation_path" \in FailureCodes /\ "observation_path" # "none"
      /\ "assertion_failed" \in FailureCodes /\ "assertion_failed" # "none"
      /\ "observation_timeout" \in FailureCodes /\ "observation_timeout" # "none"
  BY DEF FailureCodes
<1>4. CASE run' = Fail(run, "request") BY <1>1, <1>3, <1>4, ObservationFails
<1>5. CASE run' = Fail(KeptRun, "runtime_errors") BY <1>1, <1>3, <1>5, ObservationFails
<1>6. CASE run' = Fail(KeptRun, "assertion_failed") BY <1>1, <1>3, <1>6, ObservationFails
<1>7. CASE run' = Fail(KeptRun, "observation_timeout") BY <1>1, <1>3, <1>7, ObservationFails
<1>8. CASE world.errors = FALSE /\ run' = Pass(KeptRun)
  <2>1. /\ run.error = "none" /\ PhasesAreKept /\ StepsArePassed /\ ActsAreApplied
        /\ BeatsAreReached /\ LooksAreSeen
    BY <1>1, PhaseHasNoError
  <2>2. Step \notin Acts /\ Step \notin Paces BY <1>1 DEF Acts, Paces
  <2>3. Step # "at_beat" BY <1>1
  <2>4. PassingFrom(KeptRun)
    BY <1>1, <1>8, <2>1, <2>2, <2>3, KeptIsTyped DEF PassingFrom, BeatsAreReached, LooksAreSeen, KindsOf
  <2> QED BY <1>1, <1>8, <2>1, <2>4, PassKeeps, WorldStays
<1>9. CASE world.errors = FALSE /\ run' = KeptRun BY <1>1, <1>9, ObservationWaits
<1>10. CASE run' = Fail(KeptRun, "observation_path") BY <1>1, <1>3, <1>10, ObservationFails
<1> QED BY <1>2, <1>4, <1>5, <1>6, <1>7, <1>8, <1>9, <1>10

\* A beat that is reached joins the timeline.
BeatAt(kind) == [kind |-> kind, at |-> world.resets]

LEMMA TimelineGrows ==
  ASSUME RunInv, NEW kind \in Kinds, NEW timeline, timeline = Append(run.timeline, BeatAt(kind))
  PROVE  /\ timeline \in Seq([kind : Kinds, at : Nat])
         /\ KindsOf(timeline) = Append(KindsOf(run.timeline), kind)
         /\ \A k \in DOMAIN timeline :
              timeline[k].at = world.resets \/ (k \in DOMAIN run.timeline /\ timeline[k] = run.timeline[k])
<1> DEFINE Reached == [kind : Kinds, at : Nat]
<1>1. run.timeline \in Seq(Reached) /\ world.resets \in Nat BY DEF RunInv, RunStates, Worlds
<1>2. BeatAt(kind) \in Reached /\ BeatAt(kind).kind = kind /\ BeatAt(kind).at = world.resets BY <1>1 DEF BeatAt
<1> DEFINE n == Len(run.timeline)
<1> HIDE DEF Reached
<1>3. /\ timeline \in Seq(Reached) /\ n \in Nat
      /\ DOMAIN timeline = 1..(n + 1) /\ DOMAIN run.timeline = 1..n
      /\ timeline[n + 1] = BeatAt(kind) /\ \A k \in 1..n : timeline[k] = run.timeline[k]
  BY <1>1, <1>2, AppendProperties
<1>4. KindsOf(run.timeline) \in Seq(Kinds) /\ Len(KindsOf(run.timeline)) = n
  <2>1. \A k \in 1..n : run.timeline[k].kind \in Kinds
    <3> TAKE k \in 1..n
    <3>1. run.timeline[k] \in Reached BY <1>1, <1>3
    <3> QED BY <3>1 DEF Reached
  <2> QED BY <1>3, <2>1 DEF KindsOf
<1>5. KindsOf(timeline) = Append(KindsOf(run.timeline), kind)
  <2> DEFINE A == Append(KindsOf(run.timeline), kind)
  <2>1. /\ DOMAIN A = 1..(n + 1) /\ A[n + 1] = kind
        /\ \A k \in 1..n : A[k] = KindsOf(run.timeline)[k]
        /\ A = [k \in 1..(n + 1) |-> A[k]]
    BY <1>3, <1>4, AppendProperties
  <2> HIDE DEF A
  <2>2. \A k \in 1..(n + 1) : timeline[k].kind = A[k]
    <3> TAKE k \in 1..(n + 1)
    <3>1. CASE k \in 1..n BY <3>1, <2>1, <1>3 DEF KindsOf
    <3>2. CASE k = n + 1 BY <3>2, <2>1, <1>2, <1>3
    <3> QED BY <3>1, <3>2, <1>3
  <2>3. KindsOf(timeline) = A BY <2>1, <2>2, <1>3 DEF KindsOf
  <2> QED BY <2>3 DEF A
<1>6. \A k \in DOMAIN timeline :
        timeline[k].at = world.resets \/ (k \in DOMAIN run.timeline /\ timeline[k] = run.timeline[k])
  <2> TAKE k \in DOMAIN timeline
  <2>1. CASE k \in 1..n BY <2>1, <1>3
  <2>2. CASE k = n + 1
    <3>1. timeline[k] = BeatAt(kind) BY <2>2, <1>3
    <3>2. timeline[k].at = world.resets BY <3>1, <1>2, Zenon
    <3> QED BY <3>2
  <2> QED BY <2>1, <2>2, <1>3
<1> QED BY <1>3, <1>5, <1>6 DEF Reached

LEMMA AnchorKeeps == ASSUME RunInv, Anchor PROVE RunInv'
<1>1. run.phase = "step" /\ Step = "anchor" /\ UNCHANGED <<scenario, world>>
  BY DEF Anchor, Sampling, Observing
<1> DEFINE anchored == [KeptRun EXCEPT !.anchor = [beats |-> world.beats, epoch |-> world.epoch],
                                   !.timeline = Append(@, BeatAt("anchor"))]
<1>2. \/ run' = Fail(run, "duplicate_anchor") \/ run' = Fail(run, "request")
      \/ run' = Fail(KeptRun, "runtime_errors") \/ run' = Fail(KeptRun, "clock_fidelity")
      \/ world.errors = FALSE /\ run.anchor = NoAnchor /\ run' = Pass(anchored)
  <2>1. world.errors \in BOOLEAN BY DEF RunInv, Worlds
  <2> QED BY <1>1, <2>1 DEF Anchor, Sampling, Observing, KeptRun, BeatAt
<1>3. /\ "duplicate_anchor" \in FailureCodes /\ "duplicate_anchor" # "none"
      /\ "request" \in FailureCodes /\ "request" # "none"
      /\ "runtime_errors" \in FailureCodes /\ "runtime_errors" # "none"
      /\ "clock_fidelity" \in FailureCodes /\ "clock_fidelity" # "none"
  BY DEF FailureCodes
<1>4. CASE run' = Fail(run, "duplicate_anchor") BY <1>1, <1>3, <1>4, ObservationFails
<1>5. CASE run' = Fail(run, "request") BY <1>1, <1>3, <1>5, ObservationFails
<1>6. CASE run' = Fail(KeptRun, "runtime_errors") BY <1>1, <1>3, <1>6, ObservationFails
<1>7. CASE run' = Fail(KeptRun, "clock_fidelity") BY <1>1, <1>3, <1>7, ObservationFails
<1>8. CASE world.errors = FALSE /\ run.anchor = NoAnchor /\ run' = Pass(anchored)
  <2>1. /\ run.error = "none" /\ PhasesAreKept /\ StepsArePassed /\ ActsAreApplied
        /\ BeatsAreReached /\ LooksAreSeen
    BY <1>1, PhaseHasNoError
  <2>2. Step \notin Acts /\ Step \in Paces /\ Step \notin Looks BY <1>1 DEF Acts, Paces, Looks
  <2>3. "anchor" \in Kinds BY DEF Kinds
  <2>4. /\ world.beats \in Nat /\ world.epoch \in Nat /\ world.resets \in Nat
        /\ world.epoch = world.resets + 1
    BY DEF RunInv, Worlds
  <2>5. DOMAIN run.timeline = {}
    <3>1. run.anchor.epoch = 0 BY <1>8 DEF NoAnchor
    <3>2. run.timeline \in Seq([kind : Kinds, at : Nat]) BY DEF RunInv, RunStates
    <3>3. ASSUME NEW k \in DOMAIN run.timeline PROVE FALSE
      <4>0. k \in 1..Len(run.timeline) BY <3>2, <3>3, LenProperties
      <4>1. run.timeline[k] \in [kind : Kinds, at : Nat] BY <3>2, <4>0, ElementOfSeq
      <4>2. run.timeline[k].at \in Nat BY <4>1
      <4> QED BY <4>2, <3>1, <2>1 DEF BeatsAreReached
    <3> QED BY <3>3
  <2>6. /\ Append(run.timeline, BeatAt("anchor")) \in Seq([kind : Kinds, at : Nat])
        /\ KindsOf(Append(run.timeline, BeatAt("anchor"))) = Append(KindsOf(run.timeline), "anchor")
        /\ \A k \in DOMAIN Append(run.timeline, BeatAt("anchor")) :
             Append(run.timeline, BeatAt("anchor"))[k].at = world.resets
    BY <2>3, <2>5, TimelineGrows
  <2>7. /\ anchored = [KeptRun EXCEPT !.anchor = [beats |-> world.beats, epoch |-> world.epoch],
                                      !.timeline = Append(run.timeline, BeatAt("anchor"))]
    BY KeptIsTyped
  <2>8. [beats |-> world.beats, epoch |-> world.epoch] \in [beats : Nat, epoch : Nat]
    BY <2>4
  <2>9. anchored \in RunStates BY <2>6, <2>7, <2>8, KeptIsTyped, Zenon DEF RunStates
  <2>10. /\ anchored.results = run.results /\ anchored.known = run.known
         /\ anchored.error = run.error /\ anchored.trace = run.trace
         /\ anchored.seen = run.seen \cup {FALSE}
         /\ anchored.timeline = Append(run.timeline, BeatAt("anchor"))
         /\ anchored.anchor.epoch = world.epoch
    BY <1>8, <2>7, KeptIsTyped DEF RunStates
  <2> HIDE DEF anchored
  <2>11. KindsOf(anchored.timeline) = Append(Of(SoFar, Paces), Step)
    <3>1. KindsOf(run.timeline) = Of(SoFar, Paces) BY <1>1, <2>1 DEF BeatsAreReached, KindsOf
    <3> QED BY <3>1, <1>1, <2>6, <2>10
  <2>12. \A k \in DOMAIN anchored.timeline : anchored.anchor.epoch = anchored.timeline[k].at + 1
    BY <2>4, <2>6, <2>10
  <2>13. PassingFrom(anchored)
    BY <1>1, <2>1, <2>2, <2>9, <2>10, <2>11, <2>12 DEF PassingFrom, LooksAreSeen
  <2> QED BY <1>1, <1>8, <2>1, <2>13, PassKeeps, WorldStays
<1> QED BY <1>2, <1>4, <1>5, <1>6, <1>7, <1>8

LEMMA WaitBeatsKeeps == ASSUME RunInv, WaitBeats PROVE RunInv'
<1>1. /\ run.phase \in {"beat", "step"} /\ UNCHANGED <<scenario, world>>
      /\ run.phase = "beat" \/ (run.phase = "step" /\ Step = "wait_beats")
  <2>1. UNCHANGED <<scenario, world>>
    <3>1. CASE world.now >= run.until BY <3>1 DEF WaitBeats
    <3>2. CASE ~(world.now >= run.until) BY <3>2 DEF WaitBeats, Sampling, Observing
    <3> QED BY <3>1, <3>2
  <2>2. run.phase = "beat" \/ (run.phase = "step" /\ Step = "wait_beats") BY Zenon DEF WaitBeats
  <2> QED BY <2>1, <2>2
<1> DEFINE reached == [KeptRun EXCEPT !.timeline = Append(@, BeatAt(Step))]
<1>2. \/ run' = Fail(run, "beat_timeout") \/ run' = Fail(run, "request")
      \/ run' = Fail(KeptRun, "runtime_errors") \/ run' = Fail(KeptRun, "clock_fidelity")
      \/ run' = Fail(KeptRun, "clock_reset")
      \/ world.errors = FALSE /\ run' = KeptRun
      \/ /\ world.errors = FALSE /\ SameTransport(KeptRun)
         /\ IF Step = "at_beat" THEN run' = [reached EXCEPT !.phase = "step"]
            ELSE run' = Pass(reached)
  <2>1. world.errors \in BOOLEAN BY DEF RunInv, Worlds
  <2> QED BY <1>1, <2>1 DEF WaitBeats, Sampling, Observing, KeptRun, BeatAt
<1>3. /\ "beat_timeout" \in FailureCodes /\ "beat_timeout" # "none"
      /\ "request" \in FailureCodes /\ "request" # "none"
      /\ "runtime_errors" \in FailureCodes /\ "runtime_errors" # "none"
      /\ "clock_fidelity" \in FailureCodes /\ "clock_fidelity" # "none"
      /\ "clock_reset" \in FailureCodes /\ "clock_reset" # "none"
  BY DEF FailureCodes
<1>4. CASE run' = Fail(run, "beat_timeout") BY <1>1, <1>3, <1>4, ObservationFails
<1>5. CASE run' = Fail(run, "request") BY <1>1, <1>3, <1>5, ObservationFails
<1>6. CASE run' = Fail(KeptRun, "runtime_errors") BY <1>1, <1>3, <1>6, ObservationFails
<1>7. CASE run' = Fail(KeptRun, "clock_fidelity") BY <1>1, <1>3, <1>7, ObservationFails
<1>8. CASE run' = Fail(KeptRun, "clock_reset") BY <1>1, <1>3, <1>8, ObservationFails
<1>9. CASE world.errors = FALSE /\ run' = KeptRun BY <1>1, <1>9, ObservationWaits
<1>10. ASSUME world.errors = FALSE, SameTransport(KeptRun),
              IF Step = "at_beat" THEN run' = [reached EXCEPT !.phase = "step"]
              ELSE run' = Pass(reached)
       PROVE  RunInv'
  <2>1. /\ run.error = "none" /\ PhasesAreKept /\ StepsArePassed /\ ActsAreApplied
        /\ BeatsAreReached /\ LooksAreSeen
    BY <1>1, PhaseHasNoError
  <2>2. Step \in {"at_beat", "wait_beats"} BY <1>1, <2>1 DEF PhasesAreKept
  <2>3. Step \in Kinds BY <2>2 DEF Kinds
  <2>4. /\ world.resets \in Nat /\ world.epoch = world.resets + 1 BY DEF RunInv, Worlds
  <2>5. run.anchor.epoch = world.resets + 1 BY <1>10, <2>4, KeptIsTyped DEF SameTransport
  <2>6. /\ Append(run.timeline, BeatAt(Step)) \in Seq([kind : Kinds, at : Nat])
        /\ KindsOf(Append(run.timeline, BeatAt(Step))) = Append(KindsOf(run.timeline), Step)
        /\ \A k \in DOMAIN Append(run.timeline, BeatAt(Step)) :
             \/ Append(run.timeline, BeatAt(Step))[k].at = world.resets
             \/ k \in DOMAIN run.timeline /\ Append(run.timeline, BeatAt(Step))[k] = run.timeline[k]
    BY <2>3, TimelineGrows
  <2>7. reached = [KeptRun EXCEPT !.timeline = Append(run.timeline, BeatAt(Step))]
    BY KeptIsTyped
  <2>8. reached \in RunStates BY <2>6, <2>7, KeptIsTyped, Zenon DEF RunStates
  <2>9. /\ reached.results = run.results /\ reached.known = run.known
        /\ reached.error = run.error /\ reached.trace = run.trace
        /\ reached.seen = run.seen \cup {FALSE}
        /\ reached.timeline = Append(run.timeline, BeatAt(Step))
        /\ reached.anchor = run.anchor
    BY <1>10, <2>7, KeptIsTyped DEF RunStates
  <2> HIDE DEF reached
  <2>10. KindsOf(reached.timeline) = Append(Of(SoFar, Paces), Step)
    <3>1. ~(run.phase = "step" /\ Step = "at_beat") BY <1>1
    <3>2. KindsOf(run.timeline) = Of(SoFar, Paces) BY <3>1, <2>1 DEF BeatsAreReached, KindsOf
    <3> QED BY <3>2, <2>6, <2>9
  <2>11. \A k \in DOMAIN reached.timeline : reached.anchor.epoch = reached.timeline[k].at + 1
    BY <2>1, <2>4, <2>5, <2>6, <2>9 DEF BeatsAreReached
  <2>12. CASE Step = "at_beat"
    <3>1. run' = [reached EXCEPT !.phase = "step"] BY <1>10, <2>12
    <3>2. "step" \in RunPhases BY DEF RunPhases
    <3>3. run' \in RunStates BY <2>8, <3>1, <3>2, Zenon DEF RunStates
    <3>4. /\ run'.results = run.results /\ run'.known = run.known
          /\ run'.error = run.error /\ run'.trace = run.trace
          /\ run'.seen = run.seen \cup {FALSE} /\ run'.timeline = reached.timeline
          /\ run'.anchor = run.anchor /\ run'.phase = "step" /\ world' = world
      BY <1>1, <2>8, <2>9, <3>1 DEF RunStates
    <3>5. WorldIsKept BY <1>1, WorldStays
    <3>6. Steps' = Steps /\ SoFar' = SoFar /\ Step' = Step /\ Position' = Position
      BY <3>4, <3>5 DEF WorldIsKept, Steps, SoFar, Step, Position
    <3>7. PhasesAreKept' BY <1>1, <2>1, <3>4, <3>6 DEF PhasesAreKept
    <3>8. StepsArePassed' BY <2>1, <3>4, <3>6 DEF StepsArePassed
    <3>9. ActsAreApplied' BY <2>1, <3>4, <3>6 DEF ActsAreApplied
    <3>10. BeatsAreReached'
      <4>1. KindsOf(run'.timeline) = Append(Of(SoFar, Paces), "at_beat") BY <2>10, <2>12, <3>4
      <4> QED BY <4>1, <2>9, <2>11, <2>12, <3>4, <3>6 DEF BeatsAreReached, KindsOf
    <3>11. LooksAreSeen' BY <2>1, <3>4, <3>6 DEF LooksAreSeen
    <3>12. /\ scenario' \in Scenarios /\ Runnable(scenario')
      BY <3>5 DEF RunInv, WorldIsKept
    <3>13. (world' \in Worlds /\ world'.epoch = world'.resets + 1) BY <3>5 DEF WorldIsKept
    <3>14. run'.error = "none" /\ run'.phase # "done" BY <2>1, <3>4
    <3> QED BY <3>3, <3>7, <3>8, <3>9, <3>10, <3>11, <3>12, <3>13, <3>14 DEF RunInv, Runnable
  <2>13. CASE Step = "wait_beats"
    <3>1. run' = Pass(reached) /\ run.phase = "step" BY <1>1, <1>10, <2>1, <2>13 DEF PhasesAreKept
    <3>2. Step \notin Acts /\ Step \in Paces /\ Step \in Looks BY <2>13 DEF Acts, Paces, Looks
    <3>3. PassingFrom(reached)
      BY <1>1, <2>1, <2>8, <2>9, <2>10, <2>11, <3>2 DEF PassingFrom, LooksAreSeen
    <3> QED BY <1>1, <2>1, <3>1, <3>3, PassKeeps, WorldStays
  <2> QED BY <2>2, <2>12, <2>13
<1> QED BY <1>2, <1>4, <1>5, <1>6, <1>7, <1>8, <1>9, <1>10

LEMMA FinishKeeps == ASSUME RunInv, Finish PROVE RunInv'
<1>1. /\ run.phase = "steps" /\ Position > Len(Steps) /\ UNCHANGED <<scenario, world>>
      /\ run \in RunStates /\ WorldIsKept
  <2>1. run.phase = "steps" /\ Position > Len(Steps) /\ UNCHANGED <<scenario, world>> BY DEF Finish
  <2>2. WorldIsKept BY <2>1, WorldStays
  <2> QED BY <2>1, <2>2 DEF RunInv
<1>2. \/ run' = Fail(run, "scenario_timeout") \/ run' = Fail(run, "source_changed")
      \/ world.source # "changed" /\ run' = [run EXCEPT !.phase = "stop"]
  <2>1. CASE world.now > RunDeadline BY <2>1 DEF Finish
  <2>2. CASE ~(world.now > RunDeadline) /\ world.source = "changed"
    <3>1. world.now \in Nat /\ RunDeadline \in Nat BY ScenarioAssumption DEF RunInv, Worlds
    <3>2. world.now <= RunDeadline BY <2>2, <3>1
    <3> QED BY <2>2, <3>2 DEF Finish
  <2>3. CASE ~(world.now > RunDeadline) /\ world.source # "changed"
    BY <2>3 DEF Finish
  <2> QED BY <2>1, <2>2, <2>3
<1>3. /\ "scenario_timeout" \in FailureCodes /\ "scenario_timeout" # "none"
      /\ "source_changed" \in FailureCodes /\ "source_changed" # "none"
  BY DEF FailureCodes
<1>4. CASE run' = Fail(run, "scenario_timeout") BY <1>1, <1>3, <1>4, RunFails
<1>5. CASE run' = Fail(run, "source_changed") BY <1>1, <1>3, <1>5, RunFails
<1>6. CASE world.source # "changed" /\ run' = [run EXCEPT !.phase = "stop"]
  <2>1. /\ run.error = "none" /\ PhasesAreKept /\ StepsArePassed /\ ActsAreApplied
        /\ BeatsAreReached /\ LooksAreSeen
    BY <1>1, PhaseHasNoError
  <2>2. run' \in RunStates
    <3>1. "stop" \in RunPhases BY DEF RunPhases
    <3> QED BY <1>1, <1>6, <3>1, Zenon DEF RunStates
  <2>3. /\ run'.results = run.results /\ run'.known = run.known
        /\ run'.error = run.error /\ run'.trace = run.trace
        /\ run'.seen = run.seen /\ run'.timeline = run.timeline
        /\ run'.anchor = run.anchor /\ run'.phase = "stop" /\ world' = world
    BY <1>1, <1>6 DEF RunStates
  <2>4. Steps' = Steps /\ SoFar' = SoFar /\ Step' = Step /\ Position' = Position
    BY <1>1, <2>3 DEF WorldIsKept, Steps, SoFar, Step, Position
  <2>5. Len(run.results) = Len(Steps) BY <1>1, <2>1, StepsTyped DEF PhasesAreKept
  <2>6. PhasesAreKept' BY <1>1, <1>6, <2>1, <2>3, <2>4, <2>5 DEF PhasesAreKept
  <2>7. StepsArePassed' BY <2>1, <2>3, <2>4 DEF StepsArePassed
  <2>8. ActsAreApplied' BY <2>1, <2>3, <2>4 DEF ActsAreApplied
  <2>9. BeatsAreReached' BY <1>1, <2>1, <2>3, <2>4 DEF BeatsAreReached
  <2>10. LooksAreSeen' BY <2>1, <2>3, <2>4 DEF LooksAreSeen
  <2>11. /\ scenario' \in Scenarios /\ Runnable(scenario')
    BY <1>1 DEF RunInv, WorldIsKept
  <2>12. (world' \in Worlds /\ world'.epoch = world'.resets + 1) BY <1>1 DEF WorldIsKept
  <2>13. run'.error = "none" /\ run'.phase # "done" BY <2>1, <2>3
  <2> QED BY <2>2, <2>6, <2>7, <2>8, <2>9, <2>10, <2>11, <2>12, <2>13 DEF RunInv, Runnable
<1> QED BY <1>2, <1>4, <1>5, <1>6

LEMMA StopKeeps == ASSUME RunInv, NEW stopped \in BOOLEAN, StopSession(stopped) PROVE RunInv'
<1>1. /\ run.phase = "stop" /\ run \in RunStates /\ world \in Worlds
      /\ world.epoch = world.resets + 1 /\ scenario' = scenario
  BY DEF StopSession, RunInv
<1> DEFINE error == IF run.known /\ ~stopped /\ world.session # "none" /\ run.error = "none"
                    THEN "stop" ELSE run.error
<1>2. run' = [run EXCEPT !.phase = "done", !.error = error] BY DEF StopSession
<1>3. error \in FailureCodes
  <2>1. "stop" \in FailureCodes BY DEF FailureCodes
  <2>2. run.error \in FailureCodes BY <1>1 DEF RunStates
  <2> QED BY <2>1, <2>2
<1>4. \/ ~(run.known /\ stopped) /\ world' = world
      \/ run.known /\ stopped /\ world' = [world EXCEPT !.session = "none"]
  BY DEF StopSession
<1>5. (world' \in Worlds /\ world'.epoch = world'.resets + 1)
      /\ world'.applied = world.applied /\ world'.source = world.source
      /\ (IF run.known /\ stopped THEN world'.session = "none" ELSE world'.session = world.session)
  <2>1. CASE ~(run.known /\ stopped) /\ world' = world BY <1>1, <2>1
  <2>2. CASE run.known /\ stopped /\ world' = [world EXCEPT !.session = "none"]
    <3>1. world' \in Worlds BY <1>1, <2>2, Zenon DEF Worlds
    <3> QED BY <1>1, <2>2, <3>1 DEF Worlds
  <2> QED BY <1>4, <2>1, <2>2
<1>6. run' \in RunStates
  <2>1. "done" \in RunPhases BY DEF RunPhases
  <2> HIDE DEF error
  <2> QED BY <1>1, <1>2, <1>3, <2>1, Zenon DEF RunStates
<1>7. /\ run'.results = run.results /\ run'.known = run.known
      /\ run'.error = error /\ run'.trace = run.trace
      /\ run'.seen = run.seen /\ run'.timeline = run.timeline
      /\ run'.anchor = run.anchor /\ run'.phase = "done"
  BY <1>1, <1>2 DEF RunStates
<1>8. /\ scenario' \in Scenarios /\ Runnable(scenario')
  BY <1>1 DEF RunInv
<1>9. run'.error # "none" => run'.phase \in {"stop", "done"} BY <1>7
<1>10. ASSUME run'.error = "none"
       PROVE  /\ PhasesAreKept' /\ StepsArePassed' /\ ActsAreApplied' /\ BeatsAreReached'
              /\ LooksAreSeen'
              /\ world'.session = "none"
  <2>1. /\ run.error = "none" /\ PhasesAreKept /\ StepsArePassed /\ ActsAreApplied
        /\ BeatsAreReached /\ LooksAreSeen
    BY <1>7, <1>10 DEF RunInv
  <2>2. run.known BY <1>1, <2>1 DEF PhasesAreKept
  <2>3. world'.session = "none" BY <1>5, <1>7, <1>10, <2>1, <2>2
  <2>4. Steps' = Steps /\ SoFar' = SoFar /\ Step' = Step /\ Position' = Position
    BY <1>1, <1>7 DEF Steps, SoFar, Step, Position
  <2>5. PhasesAreKept' BY <1>1, <1>5, <1>7, <2>1, <2>3, <2>4 DEF PhasesAreKept
  <2>6. StepsArePassed' BY <1>7, <2>1, <2>4 DEF StepsArePassed
  <2>7. ActsAreApplied' BY <1>5, <1>7, <2>1, <2>4 DEF ActsAreApplied
  <2>8. BeatsAreReached' BY <1>1, <1>7, <2>1, <2>4 DEF BeatsAreReached
  <2>9. LooksAreSeen' BY <1>7, <2>1, <2>4 DEF LooksAreSeen
  <2> QED BY <2>3, <2>5, <2>6, <2>7, <2>8, <2>9
<1> HIDE DEF error
<1> QED BY <1>5, <1>6, <1>8, <1>9, <1>10 DEF RunInv, Runnable

LEMMA RunInitHolds == ASSUME RunInit PROVE RunInv
<1>1. /\ scenario \in Scenarios /\ Runnable(scenario) BY DEF RunInit
<1>2. run \in RunStates
  <2>1. <<>> \in Seq(StepOutcomes) /\ <<>> \in Seq(Nat) /\ <<>> \in Seq([kind : Kinds, at : Nat]) OBVIOUS
  <2>2. NoAnchor \in [beats : Nat, epoch : Nat] BY DEF NoAnchor
  <2>3. "start" \in RunPhases /\ "none" \in FailureCodes BY DEF RunPhases, FailureCodes
  <2>4. 0 \in Nat /\ FALSE \in BOOLEAN /\ {} \in SUBSET BOOLEAN OBVIOUS
  <2> QED BY <2>1, <2>2, <2>3, <2>4, Zenon DEF RunInit, RunStates
<1>3. world \in Worlds
  <2>1. <<>> \in Seq(Nat) /\ 0 \in Nat /\ 1 \in Nat /\ FALSE \in BOOLEAN OBVIOUS
  <2> QED BY <2>1, Zenon DEF RunInit, Worlds
<1>4. /\ run.phase = "start" /\ run.error = "none" /\ run.results = <<>> /\ run.trace = <<>>
      /\ run.timeline = <<>> /\ run.seen = {} /\ world.applied = <<>> /\ world.epoch = 1
      /\ world.resets = 0
  BY DEF RunInit
<1>5. Steps \in Seq(Kinds) BY <1>1, ScenarioAssumption DEF Steps
<1>6. SoFar = <<>> BY <1>4, <1>5 DEF SoFar
<1>7. PhasesAreKept BY <1>4, <1>5 DEF PhasesAreKept
<1>8. StepsArePassed BY <1>4 DEF StepsArePassed
<1>9. ActsAreApplied
  <2>1. Of(SoFar, Acts) = <<>> BY <1>6, OfEmpty
  <2> QED BY <1>4, <2>1 DEF ActsAreApplied
<1>10. BeatsAreReached
  <2>1. Of(SoFar, Paces) = <<>> BY <1>6, OfEmpty
  <2> QED BY <1>4, <2>1 DEF BeatsAreReached
<1>11. LooksAreSeen BY <1>4 DEF LooksAreSeen
<1>12. world.epoch = world.resets + 1 BY <1>4
<1> QED BY <1>1, <1>2, <1>3, <1>4, <1>7, <1>8, <1>9, <1>10, <1>11, <1>12 DEF RunInv

(* A run keeps RunInv (runner.run, Timeline.wait). *)
THEOREM RunInvHolds == RunSpec => []RunInv
<1>1. RunInit => RunInv BY RunInitHolds
<1>2. RunInv /\ [RunNext]_runVars => RunInv'
  <2> SUFFICES ASSUME RunInv, [RunNext]_runVars PROVE RunInv' OBVIOUS
  <2>1. CASE UNCHANGED runVars
    <3>1. /\ WorldIsKept /\ run \in RunStates /\ run' = run /\ world' = world /\ scenario' = scenario
      BY <2>1, WorldStays DEF runVars, RunInv
    <3> QED BY <3>1, RunStays
  <2>2. CASE RunNext
    <3>1. CASE \E outcome \in {"ready", "named", "unnamed"} : RunStartsSession(outcome)
      BY <3>1, StartKeeps
    <3>2. CASE \E applied, answered \in BOOLEAN : DoAction(applied, answered) BY <3>2, ActionKeeps
    <3>3. CASE \E stopped \in BOOLEAN : StopSession(stopped) BY <3>3, StopKeeps
    <3>4. CASE BeginStep BY <3>4, BeginStepKeeps
    <3>5. CASE DoFixtureFault BY <3>5, FixtureFaultKeeps
    <3>6. CASE \E present \in BOOLEAN : Look(present) BY <3>6, LookKeeps
    <3>7. CASE Anchor BY <3>7, AnchorKeeps
    <3>8. CASE WaitBeats BY <3>8, WaitBeatsKeeps
    <3>9. CASE Finish BY <3>9, FinishKeeps
    <3>10. CASE Elapses \/ Beats \/ Changes BY <3>10, ElapsesKeeps
    <3> QED BY <2>2, <3>1, <3>2, <3>3, <3>4, <3>5, <3>6, <3>7, <3>8, <3>9, <3>10 DEF RunNext
  <2> QED BY <2>1, <2>2
<1> QED BY <1>1, <1>2, PTL DEF RunSpec

-----------------------------------------------------------------------------
(* The bundle of a run that is over, and its forgeries. *)

\* A sequence without one of its elements, or with two of them exchanged.
LEMMA WithoutIsShorter ==
  ASSUME NEW X, NEW seq \in Seq(X), NEW r \in Without(seq)
  PROVE  r \in Seq(X) /\ Len(r) # Len(seq)
<1>1. PICK k \in DOMAIN seq : r = RemoveAt(seq, k) BY DEF Without
<1>2. k \in 1..Len(seq) /\ Len(seq) \in Nat OBVIOUS
<1>3. SubSeq(seq, 1, k - 1) \in Seq(X) /\ Len(SubSeq(seq, 1, k - 1)) = k - 1
  <2>1. \A i \in 1..(k - 1) : seq[i] \in X BY <1>2
  <2> QED BY <1>2, <2>1, SubSeqProperties
<1>4. SubSeq(seq, k + 1, Len(seq)) \in Seq(X)
      /\ Len(SubSeq(seq, k + 1, Len(seq))) = Len(seq) - k
  BY <1>2, SubSeqProperties
<1>5. r = SubSeq(seq, 1, k - 1) \o SubSeq(seq, k + 1, Len(seq)) BY <1>1 DEF RemoveAt
<1>6. r \in Seq(X) /\ Len(r) = (k - 1) + (Len(seq) - k) BY <1>3, <1>4, <1>5, ConcatProperties
<1> QED BY <1>2, <1>6

Exchanged(seq, r) ==
  \E k \in Nat : k \in DOMAIN seq /\ k + 1 \in DOMAIN seq /\ r[k] = seq[k + 1] /\ r[k] # seq[k]

LEMMA SwappedIsExchanged ==
  ASSUME NEW X, NEW seq \in Seq(X), NEW r \in Swapped(seq)
  PROVE  r \in Seq(X) /\ Exchanged(seq, r)
<1>1. PICK k \in {i \in 1..(Len(seq) - 1) : seq[i] # seq[i + 1]} :
        r = [seq EXCEPT ![k] = seq[k + 1], ![k + 1] = seq[k]]
  BY DEF Swapped
<1>2. k \in DOMAIN seq /\ k + 1 \in DOMAIN seq /\ k \in Nat /\ k # k + 1 OBVIOUS
<1>3. r \in Seq(X) BY <1>1, <1>2
<1>4. r[k] = seq[k + 1] BY <1>1, <1>2
<1>5. Exchanged(seq, r) BY <1>1, <1>2, <1>4 DEF Exchanged
<1> QED BY <1>3, <1>5

Manifests ==
  [steps : Seq(Kinds), collected : Nat, results : Seq(StepOutcomes), passed : BOOLEAN, stale : BOOLEAN,
   trace : Seq(Nat), seen : SUBSET BOOLEAN, timeline : Seq(Kinds)]

LEMMA ForgedIsRefused ==
  ASSUME NEW m \in Manifests, BundleVerified(m), NEW f \in BundleForgeries(m)
  PROVE  ~BundleVerified(f)
<1>1. /\ m.steps \in Seq(Kinds) /\ m.results \in Seq(StepOutcomes) /\ m.trace \in Seq(Nat)
      /\ m.timeline \in Seq(Kinds)
  BY DEF Manifests
<1>2. /\ Len(m.results) = m.collected /\ Len(m.steps) = m.collected
      /\ \A k \in DOMAIN m.results : m.results[k].index = k - 1
      /\ m.seen = {FALSE} /\ ResultKinds(m) = m.steps /\ m.timeline = Of(m.steps, Paces)
      /\ Len(m.trace) = Len(Of(m.steps, Acts)) /\ \A k \in DOMAIN m.trace : m.trace[k] = k
  BY DEF BundleVerified, Complete, Ordered, Observed, Traced, Paced
<1> SUFFICES ASSUME BundleVerified(f) PROVE FALSE OBVIOUS
<1>3. /\ Len(f.results) = f.collected /\ Len(f.steps) = f.collected
      /\ \A k \in DOMAIN f.results : f.results[k].index = k - 1
      /\ f.seen = {FALSE} /\ ResultKinds(f) = f.steps /\ f.timeline = Of(f.steps, Paces)
      /\ Len(f.trace) = Len(Of(f.steps, Acts)) /\ \A k \in DOMAIN f.trace : f.trace[k] = k
  BY DEF BundleVerified, Complete, Ordered, Observed, Traced, Paced
<1>4. CASE \E r \in Without(m.results) \cup Swapped(m.results) : f = [m EXCEPT !.results = r]
  <2>1. PICK r \in Without(m.results) \cup Swapped(m.results) : f = [m EXCEPT !.results = r] BY <1>4
  <2>2. f.results = r /\ f.collected = m.collected BY <2>1 DEF Manifests
  <2>3. CASE r \in Without(m.results) BY <1>1, <1>2, <1>3, <2>2, <2>3, WithoutIsShorter
  <2>4. CASE r \in Swapped(m.results)
    <3>1. r \in Seq(StepOutcomes) BY <1>1, <2>4, SwappedIsExchanged
    <3>0. m.results \in Seq(StepOutcomes) BY <1>1
    <3>a. Exchanged(m.results, r) BY <3>0, <2>4, SwappedIsExchanged
    <3>2. PICK k \in Nat : k \in DOMAIN m.results /\ k + 1 \in DOMAIN m.results
                             /\ r[k] = m.results[k + 1]
      BY <3>a DEF Exchanged
    <3>3. DOMAIN r = DOMAIN m.results
      <4>1. Len(r) = Len(m.results) BY <1>2, <1>3, <2>2
      <4> QED BY <4>1, <1>1, <3>1, LenProperties
    <3>4. r[k].index = k - 1 /\ m.results[k + 1].index = (k + 1) - 1 BY <1>2, <1>3, <2>2, <3>2, <3>3
    <3> QED BY <3>2, <3>4
  <2> QED BY <2>1, <2>3, <2>4
<1>5. CASE \E r \in Without(m.trace) \cup Swapped(m.trace) : f = [m EXCEPT !.trace = r]
  <2>1. PICK r \in Without(m.trace) \cup Swapped(m.trace) : f = [m EXCEPT !.trace = r] BY <1>5
  <2>2. f.trace = r /\ f.steps = m.steps BY <2>1 DEF Manifests
  <2>3. CASE r \in Without(m.trace) BY <1>1, <1>2, <1>3, <2>2, <2>3, WithoutIsShorter
  <2>4. CASE r \in Swapped(m.trace)
    <3>1. r \in Seq(Nat) BY <1>1, <2>4, SwappedIsExchanged
    <3>0. m.trace \in Seq(Nat) BY <1>1
    <3>a. Exchanged(m.trace, r) BY <3>0, <2>4, SwappedIsExchanged
    <3>2. PICK k \in Nat : k \in DOMAIN m.trace /\ k + 1 \in DOMAIN m.trace /\ r[k] = m.trace[k + 1]
      BY <3>a DEF Exchanged
    <3>3. DOMAIN r = DOMAIN m.trace
      <4>1. Len(r) = Len(m.trace) BY <1>2, <1>3, <2>2
      <4> QED BY <4>1, <1>1, <3>1, LenProperties
    <3>4. r[k] = k BY <1>3, <2>2, <3>2, <3>3
    <3>5. m.trace[k + 1] = k + 1 BY <1>2, <3>2
    <3>6. k = k + 1 BY <3>2, <3>4, <3>5
    <3> QED BY <3>6
  <2> QED BY <2>1, <2>3, <2>4
<1>6. CASE \E r \in Without(m.timeline) \cup Swapped(m.timeline) : f = [m EXCEPT !.timeline = r]
  <2>1. PICK r \in Without(m.timeline) \cup Swapped(m.timeline) : f = [m EXCEPT !.timeline = r] BY <1>6
  <2>2. f.timeline = r /\ f.steps = m.steps BY <2>1 DEF Manifests
  <2>3. r = m.timeline BY <1>2, <1>3, <2>2
  <2>4. CASE r \in Without(m.timeline) BY <1>1, <2>3, <2>4, WithoutIsShorter
  <2>5. CASE r \in Swapped(m.timeline) BY <1>1, <2>3, <2>5, SwappedIsExchanged DEF Exchanged
  <2> QED BY <2>1, <2>4, <2>5
<1>7. CASE \E r \in Without(m.steps) \cup Swapped(m.steps) : f = [m EXCEPT !.steps = r]
  <2>1. PICK r \in Without(m.steps) \cup Swapped(m.steps) : f = [m EXCEPT !.steps = r] BY <1>7
  <2>2. f.steps = r /\ f.collected = m.collected /\ f.results = m.results BY <2>1 DEF Manifests
  <2>3. r = m.steps BY <1>2, <1>3, <2>2 DEF ResultKinds
  <2>4. CASE r \in Without(m.steps) BY <1>1, <2>3, <2>4, WithoutIsShorter
  <2>5. CASE r \in Swapped(m.steps) BY <1>1, <2>3, <2>5, SwappedIsExchanged DEF Exchanged
  <2> QED BY <2>1, <2>4, <2>5
<1>8. CASE \E r \in {{}, {TRUE, FALSE}} : f = [m EXCEPT !.seen = r]
  <2>1. PICK r \in {{}, {TRUE, FALSE}} : f = [m EXCEPT !.seen = r] BY <1>8
  <2>2. f.seen = r BY <2>1 DEF Manifests
  <2>3. r = {FALSE} BY <1>3, <2>2
  <2>4. r = {} \/ TRUE \in r BY <2>1
  <2>5. FALSE \in {FALSE} /\ TRUE \notin {FALSE} OBVIOUS
  <2> QED BY <2>3, <2>4, <2>5
<1> QED BY <1>4, <1>5, <1>6, <1>7, <1>8 DEF BundleForgeries

LEMMA DoneIsWhole ==
  ASSUME RunInv, run.phase = "done", run.error = "none"
  PROVE  /\ PhasesAreKept /\ StepsArePassed /\ ActsAreApplied /\ BeatsAreReached /\ LooksAreSeen
         /\ Len(run.results) = Len(Steps) /\ DOMAIN run.results = DOMAIN Steps
         /\ DOMAIN Steps = 1..Len(Steps)
         /\ SoFar = Steps /\ ResultKinds(Manifest) = Steps
         /\ \A k \in DOMAIN run.results :
              run.results[k].index = k - 1 /\ run.results[k].kind = Steps[k] /\ run.results[k].passed
<1>1. /\ PhasesAreKept /\ StepsArePassed /\ ActsAreApplied /\ BeatsAreReached /\ LooksAreSeen
  BY DEF RunInv
<1>2. Len(run.results) = Len(Steps) BY <1>1 DEF PhasesAreKept
<1>3. run.results \in Seq(StepOutcomes) /\ Steps \in Seq(Kinds) BY StepsTyped DEF RunInv, RunStates
<1>4. DOMAIN run.results = DOMAIN Steps /\ DOMAIN Steps = 1..Len(Steps) BY <1>2, <1>3, LenProperties
<1>5. SoFar = Steps BY <1>2, <1>3 DEF SoFar
<1>7. \A k \in DOMAIN run.results :
        run.results[k].index = k - 1 /\ run.results[k].kind = Steps[k] /\ run.results[k].passed
  <2> TAKE k \in DOMAIN run.results
  <2>1. run.results[k] = [index |-> k - 1, kind |-> Steps[k], passed |-> TRUE]
    BY <1>1 DEF StepsArePassed
  <2> QED BY <2>1
<1>6. ResultKinds(Manifest) = Steps
  <2>1. Manifest.results = run.results BY DEF Manifest
  <2>2. \A k \in DOMAIN Steps : run.results[k].kind = Steps[k] BY <1>4, <1>7
  <2>3. Steps = [k \in DOMAIN Steps |-> Steps[k]] BY <1>3
  <2> QED BY <1>4, <2>1, <2>2, <2>3 DEF ResultKinds
<1> QED BY <1>1, <1>2, <1>4, <1>5, <1>6, <1>7

LEMMA RunInvEarnsVerdict == ASSUME RunInv PROVE VerdictIsEarned
<1> SUFFICES ASSUME run.phase = "done"
             PROVE  /\ run.error = "none" =>
                        /\ ResultKinds(Manifest) = Steps
                        /\ ToSet(world.applied) = {k - 1 : k \in {i \in DOMAIN Steps : Steps[i] \in Acts}}
                        /\ \A j, k \in DOMAIN world.applied : j < k => world.applied[j] < world.applied[k]
                        /\ \A j, k \in DOMAIN run.timeline : run.timeline[j].at = run.timeline[k].at
                        /\ world.source # "changed" /\ world.session = "none"
                    /\ world.session # "none" => run.error # "none"
  BY DEF VerdictIsEarned
<1>1. world.session # "none" => run.error # "none" BY DEF RunInv
<1> SUFFICES ASSUME run.error = "none"
             PROVE  /\ ResultKinds(Manifest) = Steps
                    /\ ToSet(world.applied) = {k - 1 : k \in {i \in DOMAIN Steps : Steps[i] \in Acts}}
                    /\ \A j, k \in DOMAIN world.applied : j < k => world.applied[j] < world.applied[k]
                    /\ \A j, k \in DOMAIN run.timeline : run.timeline[j].at = run.timeline[k].at
                    /\ world.source # "changed" /\ world.session = "none"
  BY <1>1
<1>2. /\ PhasesAreKept /\ StepsArePassed /\ ActsAreApplied /\ BeatsAreReached /\ LooksAreSeen
      /\ Len(run.results) = Len(Steps) /\ DOMAIN run.results = DOMAIN Steps
      /\ DOMAIN Steps = 1..Len(Steps) /\ SoFar = Steps /\ ResultKinds(Manifest) = Steps
  BY DoneIsWhole
<1>3. ToSet(world.applied) = {k - 1 : k \in {i \in DOMAIN Steps : Steps[i] \in Acts}}
  <2>1. world.applied \in Seq(Nat) BY DEF RunInv, Worlds
  <2>2. \A i \in Nat : (\E k \in DOMAIN world.applied : world.applied[k] = i)
                      <=> i + 1 \in 1..Len(Steps) /\ Steps[i + 1] \in Acts
    BY <1>2 DEF ActsAreApplied
  <2>3. ASSUME NEW k \in DOMAIN world.applied
        PROVE  world.applied[k] \in {j - 1 : j \in {i \in DOMAIN Steps : Steps[i] \in Acts}}
    <3>1. world.applied[k] \in Nat BY <2>1, <2>3
    <3>2. world.applied[k] + 1 \in DOMAIN Steps /\ Steps[world.applied[k] + 1] \in Acts
      BY <1>2, <2>2, <2>3, <3>1
    <3>3. (world.applied[k] + 1) - 1 = world.applied[k] BY <3>1
    <3> QED BY <3>2, <3>3
  <2>4. ASSUME NEW j \in DOMAIN Steps, Steps[j] \in Acts
        PROVE  \E k \in DOMAIN world.applied : world.applied[k] = j - 1
    <3>1. j \in 1..Len(Steps) /\ Len(Steps) \in Nat BY <1>2, <2>4, StepsTyped
    <3>2. j - 1 \in Nat /\ (j - 1) + 1 = j BY <3>1
    <3> QED BY <2>2, <2>4, <3>1, <3>2
  <2>5. ToSet(world.applied) \subseteq {k - 1 : k \in {i \in DOMAIN Steps : Steps[i] \in Acts}}
    BY <2>3 DEF ToSet
  <2>6. {k - 1 : k \in {i \in DOMAIN Steps : Steps[i] \in Acts}} \subseteq ToSet(world.applied)
    BY <2>4 DEF ToSet
  <2> QED BY <2>5, <2>6
<1>4. \A j, k \in DOMAIN run.timeline : run.timeline[j].at = run.timeline[k].at
  <2>1. run.timeline \in Seq([kind : Kinds, at : Nat]) BY DEF RunInv, RunStates
  <2>2. \A k \in DOMAIN run.timeline : run.timeline[k].at \in Nat
    <3> DEFINE Reached == [kind : Kinds, at : Nat]
    <3> TAKE k \in DOMAIN run.timeline
    <3>1. k \in 1..Len(run.timeline) BY <2>1, LenProperties
    <3>2. run.timeline[k] \in Reached BY <2>1, <3>1, ElementOfSeq
    <3> QED BY <3>2
  <2>3. \A k \in DOMAIN run.timeline : run.anchor.epoch = run.timeline[k].at + 1
    BY <1>2 DEF BeatsAreReached
  <2> TAKE j, k \in DOMAIN run.timeline
  <2>4. run.timeline[j].at \in Nat /\ run.timeline[k].at \in Nat BY <2>2
  <2>5. run.timeline[j].at + 1 = run.timeline[k].at + 1 BY <2>3
  <2> QED BY <2>4, <2>5
<1>5. world.source # "changed" /\ world.session = "none" BY <1>2 DEF PhasesAreKept
<1>6. \A j, k \in DOMAIN world.applied : j < k => world.applied[j] < world.applied[k]
  BY <1>2 DEF ActsAreApplied
<1> QED BY <1>2, <1>3, <1>4, <1>5, <1>6

LEMMA ManifestIsTyped ==
  ASSUME RunInv
  PROVE  /\ Manifest \in Manifests
         /\ Manifest.results = run.results /\ Manifest.steps = Steps
         /\ Manifest.collected = Len(Steps) /\ Manifest.passed = (run.error = "none")
         /\ Manifest.stale = (world.source # "same") /\ Manifest.trace = run.trace
         /\ Manifest.seen = run.seen /\ Manifest.timeline = KindsOf(run.timeline)
<1>1. /\ Manifest.results = run.results /\ Manifest.steps = Steps
      /\ Manifest.collected = Len(Steps) /\ Manifest.passed = (run.error = "none")
      /\ Manifest.stale = (world.source # "same") /\ Manifest.trace = run.trace
      /\ Manifest.seen = run.seen /\ Manifest.timeline = KindsOf(run.timeline)
  BY DEF Manifest, KindsOf
<1>2. Steps \in Seq(Kinds) /\ Len(Steps) \in Nat /\ run.results \in Seq(StepOutcomes) 
  BY StepsTyped DEF RunInv, RunStates
<1>3. run.trace \in Seq(Nat) /\ run.seen \in SUBSET BOOLEAN
  BY DEF RunInv, RunStates
<1>4. KindsOf(run.timeline) \in Seq(Kinds)
  <2> DEFINE Reached == [kind : Kinds, at : Nat]
  <2>1. run.timeline \in Seq(Reached) BY DEF RunInv, RunStates
  <2>2. DOMAIN run.timeline = 1..Len(run.timeline) /\ Len(run.timeline) \in Nat BY <2>1, LenProperties
  <2>3. \A k \in DOMAIN run.timeline : run.timeline[k].kind \in Kinds
    <3> TAKE k \in DOMAIN run.timeline
    <3>2. run.timeline[k] \in Reached BY <2>1, <2>2, ElementOfSeq
    <3> QED BY <3>2
  <2> QED BY <2>2, <2>3 DEF KindsOf
<1>5. (run.error = "none") \in BOOLEAN /\ (world.source # "same") \in BOOLEAN OBVIOUS
<1>6. Manifest \in Manifests
  BY <1>2, <1>3, <1>4, <1>5, Zenon DEF Manifest, Manifests, KindsOf
<1> QED BY <1>1, <1>6

LEMMA RunInvIsEvidence == ASSUME RunInv PROVE BundleIsEvidence
<1> SUFFICES ASSUME run.phase = "done"
             PROVE  /\ BundleVerified(Manifest) <=> run.error = "none" /\ world.source = "same"
                    /\ BundleVerified(Manifest) =>
                         \A m \in BundleForgeries(Manifest) : ~BundleVerified(m)
  BY DEF BundleIsEvidence
<1>1. BundleVerified(Manifest) => \A m \in BundleForgeries(Manifest) : ~BundleVerified(m)
  BY ManifestIsTyped, ForgedIsRefused
<1>2. BundleVerified(Manifest) => run.error = "none" /\ world.source = "same"
  BY ManifestIsTyped DEF BundleVerified, Successful
<1>3. ASSUME run.error = "none", world.source = "same" PROVE BundleVerified(Manifest)
  <2>1. /\ PhasesAreKept /\ StepsArePassed /\ ActsAreApplied /\ BeatsAreReached /\ LooksAreSeen
        /\ Len(run.results) = Len(Steps) /\ DOMAIN run.results = DOMAIN Steps
        /\ DOMAIN Steps = 1..Len(Steps) /\ SoFar = Steps /\ ResultKinds(Manifest) = Steps
        /\ \A k \in DOMAIN run.results :
             run.results[k].index = k - 1 /\ run.results[k].kind = Steps[k] /\ run.results[k].passed
    BY <1>3, DoneIsWhole
  <2>2. PICK k \in DOMAIN Steps : Steps[k] \in Looks BY DEF RunInv, Runnable, Steps
  <2>3. Complete(Manifest)
    <3>1. k \in 1..Len(Steps) /\ Len(Steps) \in Nat BY <2>1, <2>2, StepsTyped
    <3>2. Len(Steps) > 0 BY <3>1
    <3> QED BY <2>1, <3>2, ManifestIsTyped DEF Complete
  <2>4. Ordered(Manifest) BY <2>1, ManifestIsTyped DEF Ordered
  <2>5. Successful(Manifest) BY <1>3, <2>1, ManifestIsTyped DEF Successful
  <2>6. Observed(Manifest)
    <3>1. run.results[k].kind \in Looks BY <2>1, <2>2
    <3>2. run.seen = {FALSE} BY <2>1, <2>2, <3>1 DEF LooksAreSeen
    <3>3. Of(Steps, Looks) # <<>> BY <2>1, <2>2, StepsTyped, OfPicks
    <3> QED BY <2>1, <3>2, <3>3, ManifestIsTyped DEF Observed
  <2>7. Traced(Manifest) BY <2>1, ManifestIsTyped DEF Traced, ActsAreApplied
  <2>8. Paced(Manifest)
    <3>1. KindsOf(run.timeline) = Of(Steps, Paces) BY <2>1 DEF BeatsAreReached, KindsOf
    <3> QED BY <3>1, ManifestIsTyped DEF Paced
  <2>9. ~Manifest.stale BY <1>3, ManifestIsTyped
  <2> QED BY <2>1, <2>3, <2>4, <2>5, <2>6, <2>7, <2>8, <2>9, ManifestIsTyped DEF BundleVerified
<1> QED BY <1>1, <1>2, <1>3

(* A run that passed did each of its steps, in their order and against one  *)
(* transport, and stopped its session; its bundle is evidence exactly as    *)
(* long as the sources are the same, and no bundle with a part removed or   *)
(* exchanged is (runner.run, evidence.verify).                              *)
THEOREM PassedRunsStayEvidence == RunSpec => []PassedRunsAreEvidence
<1>1. RunInv => PassedRunsAreEvidence
  BY RunInvEarnsVerdict, RunInvIsEvidence DEF PassedRunsAreEvidence
<1> QED BY <1>1, RunInvHolds, PTL
===============================================================================
