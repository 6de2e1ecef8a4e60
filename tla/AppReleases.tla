----------------------------- MODULE AppReleases ----------------------------
(***************************************************************************)
(* The program's own code on /data/app: the factory release that the first *)
(* boot copies there, code-only updates that are unpacked beside it, the   *)
(* link to the current release, the health check with its rollback, and    *)
(* the pruning of old releases.  The power may be cut at any step; what    *)
(* was written but not yet flushed then comes back torn or not at all.     *)
(*                                                                         *)
(* Updates are numbered in the order they are unpacked; each has its own   *)
(* name.  One runs at a time.  Left out: updates that are refused before   *)
(* anything is unpacked or because of changed dependencies, and             *)
(* directories a cut brings back after they were removed.                  *)
(***************************************************************************)
EXTENDS Naturals, FiniteSets

CONSTANTS
  MaxUpdates,        \* bound: updates installed
  Kept,              \* releases that pruning keeps
  MaxReleaseMishaps  \* bound: power cuts and good releases that start too slowly

ASSUME ReleaseAssumption ==
  MaxUpdates \in Nat /\ Kept \in Nat \ {0} /\ MaxReleaseMishaps \in Nat

VARIABLES
  release,      \* each release's directory
  broken,       \* updates whose engine does not answer
  current,      \* the release the link names, NoRelease without a link
  onCard,       \* the link as the card has it
  unflushed,    \* releases whose files are not on the card yet
  seeded,       \* .datapart-done
  installer,    \* what is going on
  candidate, previous,   \* the update at hand, and the release to go back to
  exposed,      \* history: the power was cut while a new release was at risk
  releaseMishaps

releaseVars == <<release, broken, current, onCard, unflushed, seeded, installer, candidate,
                 previous, exposed, releaseMishaps>>
-----------------------------------------------------------------------------
Factory   == 0
Updates   == 1..MaxUpdates
Releases  == {Factory} \cup Updates
NoRelease == MaxUpdates + 1

Runs(r) == r \in Releases /\ release[r] = "whole" /\ r \notin broken

ReleasesTypeOK ==
  /\ release \in [Releases -> {"absent", "staged", "whole", "torn"}]
  /\ broken \in SUBSET Updates
  /\ current \in Releases \cup {NoRelease} /\ onCard \in Releases \cup {NoRelease}
  /\ unflushed \in SUBSET Releases /\ seeded \in BOOLEAN
  /\ installer \in {"off", "seed", "link", "done", "rest", "place", "switch", "probe",
                    "rollback", "prune"}
  /\ candidate \in Releases /\ previous \in Releases
  /\ exposed \in BOOLEAN /\ releaseMishaps \in 0..MaxReleaseMishaps

ReleasesInit ==
  /\ release = [r \in Releases |-> "absent"] /\ broken = {}
  /\ current = NoRelease /\ onCard = NoRelease /\ unflushed = {} /\ seeded = FALSE
  /\ installer = "off" /\ candidate = Factory /\ previous = Factory
  /\ exposed = FALSE /\ releaseMishaps = 0

SetRelease(r, content) == release' = [release EXCEPT ![r] = content]
Switch(r) == current' = r /\ UNCHANGED onCard     \* ln -s, then mv -T: atomic
-----------------------------------------------------------------------------
(* The booth boots; piccie-firstboot-datapart runs until it has finished. *)
ReleasesPowerOn ==
  /\ installer = "off"
  /\ installer' = IF seeded THEN "rest" ELSE IF current = NoRelease THEN "seed" ELSE "done"
  /\ UNCHANGED <<release, broken, current, onCard, unflushed, seeded, candidate, previous,
                 exposed, releaseMishaps>>

(* rsync of the factory release from the image. *)
SeedCopy ==
  /\ installer = "seed" /\ installer' = "link"
  /\ SetRelease(Factory, "whole") /\ unflushed' = unflushed \cup {Factory}
  /\ UNCHANGED <<broken, current, onCard, seeded, candidate, previous, exposed,
                 releaseMishaps>>

SeedLink ==
  /\ installer = "link" /\ installer' = "done" /\ Switch(Factory)
  /\ UNCHANGED <<release, broken, unflushed, seeded, candidate, previous, exposed,
                 releaseMishaps>>

(* touch .datapart-done; sync *)
SeedDone ==
  /\ installer = "done" /\ installer' = "rest" /\ seeded' = TRUE
  /\ onCard' = current /\ unflushed' = {}
  /\ UNCHANGED <<release, broken, current, candidate, previous, exposed, releaseMishaps>>
-----------------------------------------------------------------------------
(* piccie-update unpacks the archive under a name of its own; sending it  *)
(* took longer than the card's journal commits (every five seconds) ...   *)
Unpack(r, bad) ==
  /\ installer = "rest" /\ onCard = current /\ r = candidate + 1 /\ r \in Updates
  /\ installer' = "place" /\ candidate' = r
  /\ SetRelease(r, "staged") /\ unflushed' = unflushed \cup {r}
  /\ broken' = IF bad THEN broken \cup {r} ELSE broken
  /\ UNCHANGED <<current, onCard, seeded, previous, exposed, releaseMishaps>>

(* ... finds it incomplete or not to compile, and cleans up ... *)
Reject ==
  /\ installer = "place" /\ candidate \in broken
  /\ installer' = "rest" /\ SetRelease(candidate, "absent")
  /\ unflushed' = unflushed \ {candidate}
  /\ UNCHANGED <<broken, current, onCard, seeded, candidate, previous, exposed,
                 releaseMishaps>>

(* ... or renames it to its place. *)
Place ==
  /\ installer = "place" /\ installer' = "switch" /\ SetRelease(candidate, "whole")
  /\ UNCHANGED <<broken, current, onCard, unflushed, seeded, candidate, previous, exposed,
                 releaseMishaps>>

(* Mutated form: the previous release is read after the switch. *)
SwitchReadsLate ==
  /\ installer = "switch" /\ installer' = "probe"
  /\ previous' = candidate /\ Switch(candidate)
  /\ UNCHANGED <<release, broken, unflushed, seeded, candidate, exposed, releaseMishaps>>

SwitchRelease ==
  /\ installer = "switch" /\ installer' = "probe"
  /\ previous' = current /\ Switch(candidate)
  /\ UNCHANGED <<release, broken, unflushed, seeded, candidate, exposed, releaseMishaps>>

(* The engine is restarted and must answer within thirty seconds. *)
Probe ==
  /\ installer = "probe"
  /\ \/ /\ Runs(current) /\ installer' = "prune" /\ UNCHANGED releaseMishaps
     \/ /\ ~Runs(current) /\ installer' = "rollback" /\ UNCHANGED releaseMishaps
     \/ /\ Runs(current) /\ releaseMishaps < MaxReleaseMishaps
        /\ releaseMishaps' = releaseMishaps + 1 /\ installer' = "rollback"
  /\ UNCHANGED <<release, broken, current, onCard, unflushed, seeded, candidate, previous,
                 exposed>>

RollBack ==
  /\ installer = "rollback" /\ installer' = "rest" /\ Switch(previous)
  /\ UNCHANGED <<release, broken, unflushed, seeded, candidate, previous, exposed,
                 releaseMishaps>>

Installed == {r \in Updates : release[r] # "absent"}

(* What is kept is the newest by the time of its directory, which the      *)
(* archive may have set: any of those installed.                           *)
Newest(kept) ==
  /\ kept \subseteq Installed
  /\ IF Cardinality(Installed) <= Kept THEN kept = Installed
                                        ELSE Cardinality(kept) = Kept

(* Everything but the newest, the current and the factory release goes;   *)
(* the card's journal keeps the order, so the link is on the card by then. *)
Prune ==
  /\ installer = "prune" /\ installer' = "rest"
  /\ \E kept \in SUBSET Updates :
       /\ Newest(kept)
       /\ release' = [r \in Releases |-> IF r \in kept \cup {current, Factory}
                                           THEN release[r] ELSE "absent"]
  /\ unflushed' = {r \in unflushed : release'[r] # "absent"}
  /\ onCard' = current
  /\ UNCHANGED <<broken, current, seeded, candidate, previous, exposed,
                 releaseMishaps>>
-----------------------------------------------------------------------------
(* The card catches up on its own: the link, and the files of a release. *)
FlushLink ==
  /\ installer # "off" /\ onCard # current /\ onCard' = current
  /\ UNCHANGED <<release, broken, current, unflushed, seeded, installer, candidate, previous,
                 exposed, releaseMishaps>>

FlushFiles(r) ==
  /\ installer # "off" /\ r \in unflushed /\ unflushed' = unflushed \ {r}
  /\ UNCHANGED <<release, broken, current, onCard, seeded, installer, candidate, previous,
                 exposed, releaseMishaps>>

(* A clean shutdown: sync. *)
ReleasesSwitchOff ==
  /\ installer = "rest" /\ installer' = "off"
  /\ onCard' = current /\ unflushed' = {}
  /\ UNCHANGED <<release, broken, current, seeded, candidate, previous, exposed,
                 releaseMishaps>>

(* A power cut. *)
ReleasesCut ==
  /\ installer # "off" /\ installer' = "off"
  /\ releaseMishaps < MaxReleaseMishaps /\ releaseMishaps' = releaseMishaps + 1
  /\ current' \in {current, onCard} /\ onCard' = current'
  /\ \E torn \in SUBSET unflushed :
       release' = [r \in Releases |-> IF r \in torn \/ release[r] = "staged"
                                        THEN "torn" ELSE release[r]]
  /\ unflushed' = {}
  /\ exposed' = (exposed \/ current' \in unflushed \/ installer \in {"probe", "rollback"}
                         \/ (current' \in Updates /\ current' > current))
  /\ UNCHANGED <<broken, seeded, candidate, previous>>
-----------------------------------------------------------------------------
ReleasesNext ==
  \/ ReleasesPowerOn \/ SeedCopy \/ SeedLink \/ SeedDone
  \/ \E r \in Updates, bad \in BOOLEAN : Unpack(r, bad)
  \/ Reject \/ Place \/ SwitchRelease \/ Probe \/ RollBack \/ Prune
  \/ FlushLink \/ \E r \in Releases : FlushFiles(r)
  \/ ReleasesSwitchOff \/ ReleasesCut

ReleasesSpec == ReleasesInit /\ [][ReleasesNext]_releaseVars
-----------------------------------------------------------------------------
(* A booth at rest has a current release that runs: what was rolled back  *)
(* to is still there and whole, however many updates failed before, and   *)
(* pruning never takes it; unless the power was cut before a new release  *)
(* was on the card and had passed its check, or before its rollback was   *)
(* on the card, for no boot looks at it again (piccie-update.sh:58).      *)
CurrentRuns == installer = "rest" /\ ~exposed => Runs(current)
=============================================================================
