---------------------------- MODULE Booth_proofs ----------------------------
(***************************************************************************)
(* Theorems about the smaller parts of the booth, for any number of        *)
(* updates, templates, events, networks, requests, faults and power cuts:  *)
(* releases of the program, growing of /data, the kiosk watchdog, strip    *)
(* templates and Wi-Fi profiles.                                           *)
(***************************************************************************)
EXTENDS MCBooth, EventGallery_proofs, ConfigStore_proofs, FirstBoot_proofs, TLAPS,
        FiniteSetTheorems
-----------------------------------------------------------------------------
(* Releases.  On the first boot the link names the factory release or      *)
(* nothing, and it names a release only when that one is whole.            *)
Seeding ==
  ~seeded =>
    /\ installer \in {"off", "seed", "link", "done"}
    /\ current \in {Factory, NoRelease} /\ onCard \in {Factory, NoRelease}
    /\ candidate = Factory
    /\ installer \in {"seed", "link"} => current = NoRelease /\ onCard = NoRelease
    /\ installer = "link" \/ current = Factory => release[Factory] = "whole"
    /\ installer = "done" => current = Factory
    /\ installer = "off" => onCard = current

(* Afterwards: where an update is, which release it goes back to, and what *)
(* the card would name after a power cut.                                  *)
Updating ==
  seeded =>
    /\ installer \notin {"seed", "link", "done"}
    /\ current \in Releases /\ current <= candidate
    /\ installer \in {"off", "place", "switch"} => onCard = current
    /\ installer = "rest" => onCard = current \/ (onCard \in Updates /\ onCard > current)
    /\ installer \in {"place", "switch"} => current < candidate
    /\ installer \in {"probe", "rollback", "prune"} =>
         /\ current = candidate /\ previous < candidate /\ Runs(previous)
         /\ onCard \in {previous, candidate}
    /\ installer \notin {"probe", "rollback"} => Runs(current)

(* Whatever was cut when: past the first boot there is always a link. *)
Linked ==
  /\ installer \notin {"off", "seed", "link", "done"} => seeded
  /\ seeded => /\ installer \notin {"seed", "link", "done"}
               /\ current \in Releases /\ onCard \in Releases
  /\ installer = "done" => current \in Releases

ReleaseFacts == ReleasesTypeOK /\ Linked /\ (~exposed => Seeding /\ Updating)

(* A new card has no release and no link. *)
LEMMA ReleaseFactsInit == ReleasesInit => ReleaseFacts
<1> SUFFICES ASSUME ReleasesInit PROVE ReleaseFacts
  OBVIOUS
<1>1. release \in [Releases -> {"absent", "staged", "whole", "torn"}]
  BY ReleaseAssumption DEF ReleasesInit
<1>2. broken \in SUBSET Updates /\ unflushed \in SUBSET Releases
  BY DEF ReleasesInit
<1>3. /\ current \in Releases \cup {NoRelease} /\ onCard \in Releases \cup {NoRelease}
      /\ candidate \in Releases /\ previous \in Releases
  BY DEF ReleasesInit, Releases
<1>4. releaseMishaps \in 0..MaxReleaseMishaps
  BY ReleaseAssumption DEF ReleasesInit
<1>5. ReleasesTypeOK
  BY <1>1, <1>2, <1>3, <1>4 DEF ReleasesTypeOK, ReleasesInit
<1>6. Linked /\ Seeding /\ Updating
  BY ReleaseAssumption
  DEF ReleasesInit, Linked, Seeding, Updating, Releases, NoRelease, Factory, Updates
<1> QED BY <1>5, <1>6 DEF ReleaseFacts

(* Every step of seed, update, rollback, pruning and power keeps them. *)
LEMMA ReleaseFactsKept == ReleaseFacts /\ [ReleasesNext]_releaseVars => ReleaseFacts'
<1> SUFFICES ASSUME ReleaseFacts, [ReleasesNext]_releaseVars PROVE ReleaseFacts'
  OBVIOUS
<1> USE ReleaseAssumption
    DEF ReleaseFacts, ReleasesTypeOK, Releases, NoRelease, Factory, Updates, SetRelease,
        Switch
<1>1. CASE UNCHANGED releaseVars
  BY <1>1 DEF releaseVars, Linked, Seeding, Updating, Runs
<1>2. CASE ReleasesPowerOn
  BY <1>2 DEF ReleasesPowerOn, Linked, Seeding, Updating, Runs
<1>3. CASE SeedCopy
  BY <1>3 DEF SeedCopy, Linked, Seeding, Updating, Runs
<1>4. CASE SeedLink
  BY <1>4 DEF SeedLink, Linked, Seeding, Updating, Runs
<1>5. CASE SeedDone
  BY <1>5 DEF SeedDone, Linked, Seeding, Updating, Runs
<1>6. ASSUME NEW r \in Updates, NEW bad \in BOOLEAN, Unpack(r, bad)
      PROVE  ReleaseFacts'
  BY <1>6 DEF Unpack, Linked, Seeding, Updating, Runs
<1>7. CASE Reject
  BY <1>7 DEF Reject, Linked, Seeding, Updating, Runs
<1>8. CASE Place
  BY <1>8 DEF Place, Linked, Seeding, Updating, Runs
<1>9. CASE SwitchRelease
  <2>1. ReleasesTypeOK' /\ Linked'
    BY <1>9 DEF SwitchRelease, Linked
  <2>2. ~exposed' => Seeding' /\ Updating'
    BY <1>9 DEF SwitchRelease, Linked, Seeding, Updating, Runs
  <2> QED BY <2>1, <2>2
<1>10. CASE Probe
  BY <1>10 DEF Probe, Linked, Seeding, Updating, Runs
<1>11. CASE RollBack
  BY <1>11 DEF RollBack, Linked, Seeding, Updating, Runs
<1>12. CASE Prune
  BY <1>12 DEF Prune, Linked, Seeding, Updating, Runs
<1>13. CASE FlushLink
  BY <1>13 DEF FlushLink, Linked, Seeding, Updating, Runs
<1>14. ASSUME NEW r \in Releases, FlushFiles(r)
       PROVE  ReleaseFacts'
  BY <1>14 DEF FlushFiles, Linked, Seeding, Updating, Runs
<1>15. CASE ReleasesSwitchOff
  BY <1>15 DEF ReleasesSwitchOff, Linked, Seeding, Updating, Runs
<1>16. CASE ReleasesCut
  <2>1. PICK torn \in SUBSET unflushed :
          release' = [r \in Releases |-> IF r \in torn \/ release[r] = "staged"
                                           THEN "torn" ELSE release[r]]
    BY <1>16 DEF ReleasesCut
  <2>2. ReleasesTypeOK'
    <3>1. release' \in [Releases -> {"absent", "staged", "whole", "torn"}]
      BY <2>1
    <3> QED BY <1>16, <3>1 DEF ReleasesCut
  <2>3. Linked'
    BY <1>16 DEF ReleasesCut, Linked
  <2>4. ASSUME ~exposed'
        PROVE  /\ ~exposed /\ current' \in {current, onCard} /\ onCard' = current'
               /\ installer \notin {"off", "probe", "rollback"} /\ installer' = "off"
               /\ current' \notin unflushed
               /\ ~(current' \in Updates /\ current' > current)
               /\ seeded' = seeded /\ candidate' = candidate /\ broken' = broken
    BY <1>16, <2>4 DEF ReleasesCut
  <2>5. ASSUME ~exposed' PROVE Seeding'
    <3>1. ASSUME ~seeded
          PROVE  /\ current' \in {Factory, NoRelease}
                 /\ current' = Factory => release'[Factory] = "whole"
      BY <2>1, <2>4, <2>5, <3>1 DEF Seeding
    <3> QED BY <2>4, <2>5, <3>1 DEF Seeding
  <2>6. ASSUME ~exposed' PROVE Updating'
    <3>1. ASSUME seeded
          PROVE  current' \in Releases /\ current' <= candidate /\ Runs(current')
      <4>1. CASE installer = "prune"
        BY <2>4, <2>6, <3>1, <4>1 DEF Updating, Linked
      <4>2. CASE installer # "prune"
        BY <2>4, <2>6, <3>1, <4>2 DEF Updating, Linked
      <4> QED BY <4>1, <4>2
    <3>2. ASSUME seeded PROVE Runs(current)'
      BY <2>1, <2>4, <2>6, <3>1, <3>2 DEF Runs
    <3> QED BY <2>4, <2>6, <3>1, <3>2 DEF Updating
  <2> QED BY <2>2, <2>3, <2>5, <2>6
<1> QED BY <1>1, <1>2, <1>3, <1>4, <1>5, <1>6, <1>7, <1>8, <1>9, <1>10, <1>11, <1>12, <1>13,
           <1>14, <1>15, <1>16 DEF ReleasesNext

(* ReleaseFacts is an invariant. *)
LEMMA ReleaseFactsHold == ReleasesSpec => []ReleaseFacts
BY ReleaseFactsInit, ReleaseFactsKept, PTL DEF ReleasesSpec

(* Outside the exposed cuts the link names a release that runs. *)
LEMMA ReleaseSafe == ReleaseFacts => CurrentRuns
BY DEF ReleaseFacts, Seeding, Updating, CurrentRuns

(* A booth at rest runs: the release that is current is there and whole,   *)
(* whatever updates failed, were rolled back or were cut short, as long as *)
(* no power cut met a release that was not yet safely on the card.         *)
THEOREM ReleaseRuns == ReleasesSpec => []CurrentRuns
BY ReleaseSafe, ReleaseFactsHold, PTL
-----------------------------------------------------------------------------
(* Growing of /data.  The table in the kernel is the one on the card while *)
(* the file system is worked on, the file system is never larger than the  *)
(* partition, and a boot that goes on without a failure mark has found or  *)
(* made the two equal.                                                     *)
Growing ==
  /\ extent = ImageSize \/ table = CardSize
  /\ growth \in {"validate", "fsck", "resize", "recheck"} => kernel = table
  /\ growth = "verify" => kernel = ImageSize /\ extent = ImageSize
  /\ growth \notin {"gate", "refused", "engine"} => dataMount = "none"

Grown ==
  /\ growth \in {"mount", "gate", "engine"} /\ ~growFailed => extent = kernel
  /\ growth = "gate" /\ dataMount = "disk" => intact
  /\ growth = "engine" /\ ~degraded => dataMount = "disk" /\ intact /\ ~growFailed

GrowFacts == GrowTypeOK /\ Growing /\ Grown

(* The image as it is written satisfies GrowFacts. *)
LEMMA GrowFactsInit == GrowInit => GrowFacts
<1> SUFFICES ASSUME GrowInit PROVE GrowFacts
  OBVIOUS
<1>1. /\ intact \in BOOLEAN /\ growFailed \in BOOLEAN
      /\ rebootAsked \in BOOLEAN /\ degraded \in BOOLEAN
  BY Zenon DEF GrowInit
<1>2. GrowTypeOK
  BY <1>1, GrowAssumption DEF GrowInit, GrowTypeOK
<1>3. Growing /\ Grown
  BY GrowAssumption DEF GrowInit, Growing, Grown
<1> QED BY <1>2, <1>3 DEF GrowFacts

(* Every step of growth, boot and power keeps them. *)
LEMMA GrowFactsKept == GrowFacts /\ [GrowNext]_growVars => GrowFacts'
<1> SUFFICES ASSUME GrowFacts, [GrowNext]_growVars PROVE GrowFacts'
  OBVIOUS
<1> USE GrowAssumption
    DEF GrowFacts, GrowTypeOK, Growing, Grown, diskVars, GrowFine, GrowFault, Proceed,
        Succeeds, Dies, EndsGrowth
<1>1. CASE UNCHANGED growVars
  BY <1>1 DEF growVars
<1>2. CASE GrowPowerOn
  BY <1>2 DEF GrowPowerOn
<1>3. CASE Validate
  <2>1. GrowTypeOK'
    BY <1>3 DEF Validate
  <2>2. Growing' /\ Grown'
    BY <1>3 DEF Validate
  <2> QED BY <2>1, <2>2
<1>4. CASE VerifyTable
  <2>1. GrowTypeOK'
    <3>1. /\ intact' \in BOOLEAN /\ growFailed' \in BOOLEAN
          /\ rebootAsked' \in BOOLEAN /\ degraded' \in BOOLEAN
      BY <1>4, Zenon DEF VerifyTable
    <3> QED BY <1>4, <3>1 DEF VerifyTable
  <2>2. Growing' /\ Grown'
    BY <1>4 DEF VerifyTable
  <2> QED BY <2>1, <2>2
<1>5. CASE Fsck
  <2>1. GrowTypeOK'
    <3>1. /\ intact' \in BOOLEAN /\ growFailed' \in BOOLEAN
          /\ rebootAsked' \in BOOLEAN /\ degraded' \in BOOLEAN
      BY <1>5, Zenon DEF Fsck, CheckExt4
    <3> QED BY <1>5, <3>1 DEF Fsck, CheckExt4
  <2>2. Growing' /\ Grown'
    BY <1>5 DEF Fsck, CheckExt4
  <2> QED BY <2>1, <2>2
<1>6. CASE Resize2fs
  <2>1. GrowTypeOK'
    <3>1. /\ intact' \in BOOLEAN /\ growFailed' \in BOOLEAN
          /\ rebootAsked' \in BOOLEAN /\ degraded' \in BOOLEAN
      BY <1>6, Zenon DEF Resize2fs
    <3> QED BY <1>6, <3>1 DEF Resize2fs
  <2>2. Growing' /\ Grown'
    BY <1>6 DEF Resize2fs
  <2> QED BY <2>1, <2>2
<1>7. CASE Recheck
  <2>1. GrowTypeOK'
    <3>1. /\ intact' \in BOOLEAN /\ growFailed' \in BOOLEAN
          /\ rebootAsked' \in BOOLEAN /\ degraded' \in BOOLEAN
      BY <1>7, Zenon DEF Recheck, CheckExt4
    <3> QED BY <1>7, <3>1 DEF Recheck, CheckExt4
  <2>2. Growing' /\ Grown'
    BY <1>7 DEF Recheck, CheckExt4
  <2> QED BY <2>1, <2>2
<1>8. CASE MountData
  <2>1. GrowTypeOK'
    <3>1. /\ intact' \in BOOLEAN /\ growFailed' \in BOOLEAN
          /\ rebootAsked' \in BOOLEAN /\ degraded' \in BOOLEAN
      BY <1>8, Zenon DEF MountData
    <3> QED BY <1>8, <3>1 DEF MountData
  <2>2. Growing' /\ Grown'
    BY <1>8 DEF MountData
  <2> QED BY <2>1, <2>2
<1>9. CASE Gate
  <2>1. GrowTypeOK'
    <3>1. degraded' \in BOOLEAN
      BY <1>9 DEF Gate, FallsBack
    <3> QED BY <1>9, <3>1 DEF Gate, FallsBack
  <2>2. Growing' /\ Grown'
    BY <1>9 DEF Gate, FallsBack
  <2> QED BY <2>1, <2>2
<1>10. CASE ValidateFails
  BY <1>10 DEF ValidateFails
<1>11. CASE GrowReboot
  BY <1>11 DEF GrowReboot
<1>12. CASE GrowSwitchOff
  BY <1>12 DEF GrowSwitchOff
<1>13. CASE GrowCut
  <2>1. GrowTypeOK'
    <3>1. /\ intact' \in BOOLEAN /\ growFailed' \in BOOLEAN
          /\ rebootAsked' \in BOOLEAN /\ degraded' \in BOOLEAN
      BY <1>13, Zenon DEF GrowCut
    <3> QED BY <1>13, <3>1 DEF GrowCut
  <2>2. Growing' /\ Grown'
    BY <1>13 DEF GrowCut
  <2> QED BY <2>1, <2>2
<1> QED BY <1>1, <1>2, <1>3, <1>4, <1>5, <1>6, <1>7, <1>8, <1>9, <1>10, <1>11, <1>12, <1>13
        DEF GrowNext, GrowStep

(* GrowFacts is an invariant. *)
LEMMA GrowFactsHold == GrowSpec => []GrowFacts
BY GrowFactsInit, GrowFactsKept, PTL DEF GrowSpec

(* An engine that is not degraded has the disk, all of it, intact. *)
LEMMA GrowSafe == GrowFacts => EngineOnWholeDisk
BY DEF GrowFacts, Grown, EngineOnWholeDisk

(* An engine that does not know itself degraded runs on the writable disk, *)
(* never on a damaged file system or one whose size the kernel's partition *)
(* does not match, wherever the growth was cut or failed or the disk went  *)
(* read-only, for any two sizes.                                           *)
THEOREM EngineDisk == GrowSpec => []EngineOnWholeDisk
BY GrowSafe, GrowFactsHold, PTL
-----------------------------------------------------------------------------
(* The kiosk watchdog.  A beat that is remembered is one since the last    *)
(* restart; a live page is never silent for long.                          *)
Watching ==
  /\ silence # NoBeat => seen
  /\ page = "alive" => silence \in 0..MaxPause
  /\ decided => untilCheck = CheckInterval /\ seen /\ (page = "alive" => silence = 0)

(* A page that died after its first beat has been silent since, the last   *)
(* restart was before that, and the look that will find it is due.         *)
Dying ==
  page = "dead" /\ silence # NoBeat =>
    IF decided
      THEN deadFor <= Longest
      ELSE /\ silence >= deadFor /\ gap >= deadFor
           /\ deadFor <= Longer(StaleAfter, RestartGap) + (CheckInterval - untilCheck)

WatchdogFacts == WatchdogTypeOK /\ Watching /\ Dying

(* The watchdog starts with no beat and no restart. *)
LEMMA WatchdogFactsInit == WatchdogInit => WatchdogFacts
<1> SUFFICES ASSUME WatchdogInit PROVE WatchdogFacts
  OBVIOUS
<1>1. decided \in BOOLEAN /\ seen \in BOOLEAN
  BY Zenon DEF WatchdogInit
<1>2. WatchdogTypeOK
  BY <1>1, WatchdogAssumption DEF WatchdogInit, WatchdogTypeOK, NoBeat, Longest, Longer
<1>3. Watching /\ Dying
  BY WatchdogAssumption DEF WatchdogInit, Watching, Dying, NoBeat
<1> QED BY <1>2, <1>3 DEF WatchdogFacts

(* Every beat, look, restart and tick of the clock keeps them. *)
LEMMA WatchdogFactsKept == WatchdogFacts /\ [WatchdogNext]_watchdogVars => WatchdogFacts'
<1> SUFFICES ASSUME WatchdogFacts, [WatchdogNext]_watchdogVars PROVE WatchdogFacts'
  OBVIOUS
<1> USE WatchdogAssumption
    DEF WatchdogFacts, WatchdogTypeOK, Watching, Dying, NoBeat, Longest, Longer
<1>1. CASE UNCHANGED watchdogVars
  BY <1>1 DEF watchdogVars
<1>2. CASE Beat
  BY <1>2 DEF Beat
<1>3. CASE PageDies
  BY <1>3 DEF PageDies
<1>4. CASE BrowserExits
  BY <1>4 DEF BrowserExits
<1>5. CASE Tick
  BY <1>5 DEF Tick, Older
<1>6. CASE Check
  BY <1>6 DEF Check
<1>7. CASE RestartKiosk
  <2>1. WatchdogTypeOK'
    <3>1. decided' \in BOOLEAN /\ seen' \in BOOLEAN
      BY <1>7, Zenon DEF RestartKiosk
    <3> QED BY <1>7, <3>1 DEF RestartKiosk
  <2>2. Watching' /\ Dying'
    BY <1>7 DEF RestartKiosk
  <2> QED BY <2>1, <2>2
<1> QED BY <1>1, <1>2, <1>3, <1>4, <1>5, <1>6, <1>7 DEF WatchdogNext

(* WatchdogFacts is an invariant. *)
LEMMA WatchdogFactsHold == WatchdogSpec => []WatchdogFacts
BY WatchdogFactsInit, WatchdogFactsKept, PTL DEF WatchdogSpec

(* It implies both properties of the watchdog. *)
LEMMA WatchdogSafe == WatchdogFacts => LivePageSpared /\ DeadPageRestarted
<1>1. WatchdogFacts => LivePageSpared
  BY DEF WatchdogFacts, Watching, LivePageSpared
<1>2. WatchdogFacts => DeadPageRestarted
  BY WatchdogAssumption
  DEF WatchdogFacts, WatchdogTypeOK, Dying, DeadPageRestarted, Longest, Longer, NoBeat
<1> QED BY <1>1, <1>2

(* The watchdog restarts only what was seen and fell silent, for any       *)
(* periods with a live page's pause shorter than the staleness.            *)
THEOREM LivePages == WatchdogSpec => []LivePageSpared
BY WatchdogSafe, WatchdogFactsHold, PTL

(* No page that died after its first beat stays dead for longer than the   *)
(* larger of staleness and cooldown and one interval between looks.        *)
THEOREM DeadPages == WatchdogSpec => []DeadPageRestarted
BY WatchdogSafe, WatchdogFactsHold, PTL
-----------------------------------------------------------------------------
(* Strip templates.  As long as no two requests about one template overlap,*)
(* what an event or a request about to write one refers to loads, and what *)
(* is being removed or installed is referred to by neither.                *)
Referred(t) ==
  \/ \E p \in Parties : templateOf[p] = t
  \/ \E d \in Desks : deskAt[d] = "write" /\ deskTemplate[d] = t

Referring ==
  /\ \A t \in Custom : Referred(t) => Loads(t)
  /\ \A d \in Desks : deskAt[d] = "remove" => ~Referred(deskTemplate[d])
  /\ installing # "no" => ~Referred(Hidden)

TemplateFacts == TemplatesTypeOK /\ (~crossed => Referring)

(* The event that was there first is one of the events. *)
LEMMA FirstPartyIsOne == FirstParty \in Parties
BY TemplateAssumption DEF FirstParty

(* At first no event refers to a custom template. *)
LEMMA TemplateFactsInit == TemplatesInit => TemplateFacts
<1> SUFFICES ASSUME TemplatesInit PROVE TemplateFacts
  OBVIOUS
<1>1. TemplatesTypeOK
  <2>1. crossed \in BOOLEAN
    BY Zenon DEF TemplatesInit
  <2> QED BY <2>1, TemplateAssumption, FirstPartyIsOne DEF TemplatesInit, TemplatesTypeOK
<1>2. \A t \in Custom : ~Referred(t)
  BY TemplateAssumption DEF TemplatesInit, Referred
<1> QED BY <1>1, <1>2, TemplateAssumption
        DEF TemplateFacts, Referring, TemplatesInit

(* A request that was answered has its subject forgotten. *)
LEMMA AnsweredDesk ==
  ASSUME NEW d \in Desks, TemplatesTypeOK, DeskRests(d)
  PROVE  /\ deskAt' \in [Desks -> {"idle", "write", "remove"}]
         /\ deskTemplate' \in [Desks -> Custom \cup {NoTemplate}]
         /\ deskParty' \in [Desks -> Parties] /\ deskKind' \in [Desks -> {"create", "update"}]
         /\ \A c \in Desks : deskAt'[c] # "idle" =>
              c # d /\ deskAt'[c] = deskAt[c] /\ deskTemplate'[c] = deskTemplate[c]
BY FirstPartyIsOne DEF TemplatesTypeOK, DeskRests

(* If no event and no writing request comes to refer to a template, those  *)
(* that are referred to keep loading, and no other is removed or installed *)
(* then the facts stay.                                                    *)
LEMMA ReferringStays ==
  ASSUME TemplatesTypeOK, Referring, TemplatesTypeOK',
         \A t \in Custom : Referred(t)' => Referred(t),
         \A t \in Custom : Referred(t)' => Loads(t)',
         \A d \in Desks : deskAt'[d] = "remove" =>
           deskAt[d] = "remove" /\ deskTemplate'[d] = deskTemplate[d],
         installing' # "no" => installing # "no"
  PROVE  Referring'
BY TemplateAssumption DEF Referring, TemplatesTypeOK

(* Every step of the requests, the installation and power keeps them. *)
LEMMA TemplateFactsKept == TemplateFacts /\ [TemplatesNext]_templateVars => TemplateFacts'
<1> SUFFICES ASSUME TemplateFacts, [TemplatesNext]_templateVars PROVE TemplateFacts'
  OBVIOUS
<1>t. TemplatesTypeOK /\ (~crossed => Referring)
  BY DEF TemplateFacts
<1>1. CASE UNCHANGED templateVars
  BY <1>t, <1>1 DEF templateVars, deskVars, TemplateFacts, TemplatesTypeOK, Referring, Referred,
                    Loads
<1>2. CASE InstallBegin
  <2>1. TemplatesTypeOK'
    BY <1>t, <1>2, TemplateAssumption DEF InstallBegin, TemplatesTypeOK, deskVars, SetFolder
  <2>2. ASSUME ~crossed' PROVE Referring'
    <3>1. \A t \in Custom : Referred(t)' <=> Referred(t)
      BY <1>2 DEF InstallBegin, Referred, deskVars
    <3>2. ~Referred(Hidden)
      BY <1>t, <1>2, <2>2, TemplateAssumption DEF InstallBegin, Referring, Loads
    <3>3. \A t \in Custom : t # Hidden => (Loads(t)' <=> Loads(t))
      BY <1>t, <1>2, TemplateAssumption DEF InstallBegin, Loads, SetFolder, TemplatesTypeOK
    <3> QED BY <1>t, <1>2, <2>2, <3>1, <3>2, <3>3, TemplateAssumption
            DEF InstallBegin, Referring, deskVars, TemplatesTypeOK
  <2> QED BY <2>1, <2>2 DEF TemplateFacts
<1>3. CASE InstallWrite
  <2>1. TemplatesTypeOK'
    BY <1>t, <1>3, TemplateAssumption DEF InstallWrite, TemplatesTypeOK, deskVars, SetFolder
  <2>2. ASSUME ~crossed' PROVE Referring'
    <3>1. \A t \in Custom : Referred(t)' <=> Referred(t)
      BY <1>3 DEF InstallWrite, Referred, deskVars
    <3>2. \A t \in Custom : Loads(t) => Loads(t)'
      BY <1>t, <1>3, TemplateAssumption DEF InstallWrite, Loads, SetFolder, TemplatesTypeOK
    <3>3. ~crossed /\ Referring
      BY <1>t, <1>3, <2>2 DEF InstallWrite
    <3>4. \A t \in Custom : Referred(t)' => Loads(t)'
      BY <3>1, <3>2, <3>3 DEF Referring
    <3> QED BY <1>t, <1>3, <2>1, <3>1, <3>3, <3>4, ReferringStays DEF InstallWrite, deskVars
  <2> QED BY <2>1, <2>2 DEF TemplateFacts
<1>4. CASE InstallFails
  <2>1. TemplatesTypeOK'
    <3>1. crossed' \in BOOLEAN
      BY <1>t, <1>4 DEF InstallFails, TemplatesTypeOK
    <3> QED BY <1>t, <1>4, <3>1, TemplateAssumption
            DEF InstallFails, TemplatesTypeOK, deskVars, SetFolder
  <2>2. ASSUME ~crossed' PROVE Referring'
    <3>1. \A t \in Custom : Referred(t)' <=> Referred(t)
      BY <1>4 DEF InstallFails, Referred, deskVars
    <3>2. ~crossed /\ ~Referred(Hidden)
      BY <1>4, <2>2 DEF InstallFails, Referred, Uses, Pending
    <3>3. \A t \in Custom : t # Hidden => (Loads(t)' <=> Loads(t))
      BY <1>t, <1>4, TemplateAssumption DEF InstallFails, Loads, SetFolder, TemplatesTypeOK
    <3>4. \A t \in Custom : Referred(t)' => Loads(t)'
      BY <1>t, <3>1, <3>2, <3>3 DEF Referring
    <3> QED BY <1>t, <1>4, <2>1, <3>1, <3>2, <3>4, ReferringStays DEF InstallFails, deskVars
  <2> QED BY <2>1, <2>2 DEF TemplateFacts
<1>5. ASSUME NEW t \in Custom, InstallRename(t)
      PROVE  TemplateFacts'
  <2>1. TemplatesTypeOK'
    BY <1>t, <1>5, TemplateAssumption DEF InstallRename, TemplatesTypeOK, deskVars
  <2>2. ASSUME ~crossed' PROVE Referring'
    <3>1. \A u \in Custom : Referred(u)' <=> Referred(u)
      BY <1>5 DEF InstallRename, Referred, deskVars
    <3>2. ~crossed /\ Referring
      BY <1>t, <1>5, <2>2 DEF InstallRename
    <3>3. ~Referred(Hidden)
      BY <1>5, <3>2 DEF InstallRename, Referring
    <3>4. \A u \in Custom : u # Hidden /\ Loads(u) => Loads(u)'
      BY <1>t, <1>5, TemplateAssumption DEF InstallRename, Loads, TemplatesTypeOK
    <3>5. \A u \in Custom : Referred(u)' => Loads(u)'
      BY <3>1, <3>2, <3>3, <3>4 DEF Referring
    <3> QED BY <1>t, <1>5, <2>1, <3>1, <3>2, <3>5, ReferringStays DEF InstallRename, deskVars
  <2> QED BY <2>1, <2>2 DEF TemplateFacts
<1>6. ASSUME NEW t \in Custom, Archive(t) \/ Restore(t)
      PROVE  TemplateFacts'
  <2>1. TemplatesTypeOK'
    BY <1>t, <1>6 DEF Archive, Restore, TemplatesTypeOK, deskVars, SetFolder
  <2>2. ASSUME ~crossed' PROVE Referring'
    <3>1. \A u \in Custom : Referred(u)' <=> Referred(u)
      BY <1>6 DEF Archive, Restore, Referred, deskVars
    <3>2. ~crossed /\ Referring
      BY <1>t, <1>6, <2>2 DEF Archive, Restore
    <3>3. \A u \in Custom : Loads(u) => Loads(u)'
      BY <1>t, <1>6 DEF Archive, Restore, Loads, SetFolder, TemplatesTypeOK
    <3>4. \A u \in Custom : Referred(u)' => Loads(u)'
      BY <3>1, <3>2, <3>3 DEF Referring
    <3> QED BY <1>t, <1>6, <2>1, <3>1, <3>2, <3>4, ReferringStays
            DEF Archive, Restore, deskVars
  <2> QED BY <2>1, <2>2 DEF TemplateFacts
<1>7. ASSUME NEW d \in Desks, NEW t \in Custom, NEW p \in Parties, EventLoads(d, p, t)
      PROVE  TemplateFacts'
  <2>1. TemplatesTypeOK'
    <3>1. crossed' \in BOOLEAN
      BY <1>t, <1>7 DEF EventLoads, TemplatesTypeOK
    <3> QED BY <1>t, <1>7, <3>1 DEF EventLoads, TemplatesTypeOK
  <2>2. ASSUME ~crossed' PROVE Referring'
    <3>1. \A u \in Custom : Referred(u)' => Referred(u) \/ u = t
      BY <1>t, <1>7 DEF EventLoads, Referred, TemplatesTypeOK
    <3>2. ~crossed /\ Referring /\ Loads(t) /\ folder' = folder /\ installing' = installing
      BY <1>t, <1>7, <2>2 DEF EventLoads
    <3>3. /\ \A c \in Desks : deskAt'[c] = "remove" =>
               /\ deskAt[c] = "remove" /\ deskTemplate'[c] = deskTemplate[c]
               /\ deskTemplate[c] # t
          /\ t = Hidden => installing = "no"
      BY <1>t, <1>7, <2>2 DEF EventLoads, Pending, TemplatesTypeOK
    <3>4. \A c \in Desks : deskAt'[c] = "remove" => deskTemplate'[c] \in Custom
      BY <2>1 DEF TemplatesTypeOK
    <3> QED BY <3>1, <3>2, <3>3, <3>4, TemplateAssumption DEF Referring, Loads
  <2> QED BY <2>1, <2>2 DEF TemplateFacts
<1>8. ASSUME NEW d \in Desks, NEW t \in Custom, DeleteChecks(d, t)
      PROVE  TemplateFacts'
  <2>1. TemplatesTypeOK'
    <3>1. crossed' \in BOOLEAN
      BY <1>t, <1>8 DEF DeleteChecks, TemplatesTypeOK
    <3> QED BY <1>t, <1>8, <3>1 DEF DeleteChecks, TemplatesTypeOK
  <2>2. ASSUME ~crossed' PROVE Referring'
    <3>1. \A u \in Custom : Referred(u)' => Referred(u)
      BY <1>t, <1>8 DEF DeleteChecks, Referred, TemplatesTypeOK
    <3>2. /\ ~crossed /\ Referring /\ ~Referred(t)
          /\ folder' = folder /\ installing' = installing
      BY <1>t, <1>8, <2>2 DEF DeleteChecks, Referred, Uses, Pending
    <3>3. \A c \in Desks : deskAt'[c] = "remove" =>
            \/ deskAt[c] = "remove" /\ deskTemplate'[c] = deskTemplate[c]
            \/ deskTemplate'[c] = t
      BY <1>t, <1>8 DEF DeleteChecks, TemplatesTypeOK
    <3>4. \A c \in Desks : deskAt'[c] = "remove" => deskTemplate'[c] \in Custom
      BY <2>1 DEF TemplatesTypeOK
    <3> QED BY <3>1, <3>2, <3>3, <3>4, TemplateAssumption DEF Referring, Loads
  <2> QED BY <2>1, <2>2 DEF TemplateFacts
<1>9. ASSUME NEW d \in Desks, EventWrites(d)
      PROVE  TemplateFacts'
  <2>1. TemplatesTypeOK'
    BY <1>t, <1>9, AnsweredDesk DEF EventWrites, TemplatesTypeOK
  <2>2. ASSUME ~crossed' PROVE Referring'
    <3>1. \A u \in Custom : Referred(u)' => Referred(u)
      BY <1>t, <1>9, AnsweredDesk DEF EventWrites, Referred, TemplatesTypeOK
    <3>2. ~crossed /\ Referring /\ folder' = folder /\ installing' = installing
      BY <1>t, <1>9, <2>2 DEF EventWrites
    <3>3. \A u \in Custom : Referred(u)' => Loads(u)'
      BY <3>1, <3>2 DEF Referring, Loads
    <3> QED BY <1>t, <1>9, <2>1, <3>1, <3>2, <3>3, AnsweredDesk, ReferringStays DEF EventWrites
  <2> QED BY <2>1, <2>2 DEF TemplateFacts
<1>10. ASSUME NEW d \in Desks, DeleteRemoves(d)
       PROVE  TemplateFacts'
  <2>1. TemplatesTypeOK'
    <3>1. folder' \in [Custom -> {"absent", "bare", "shown", "archived"}]
      BY <1>t, <1>10 DEF DeleteRemoves, TemplatesTypeOK, SetFolder
    <3> QED BY <1>t, <1>10, <3>1, AnsweredDesk DEF DeleteRemoves, TemplatesTypeOK
  <2>2. ASSUME ~crossed' PROVE Referring'
    <3>1. \A u \in Custom : Referred(u)' => Referred(u)
      BY <1>t, <1>10, AnsweredDesk DEF DeleteRemoves, Referred, TemplatesTypeOK
    <3>2. ~crossed /\ Referring /\ installing' = installing
      BY <1>t, <1>10, <2>2 DEF DeleteRemoves
    <3>3. ~Referred(deskTemplate[d])
      BY <1>10, <3>2 DEF DeleteRemoves, Referring
    <3>4. \A u \in Custom : u # deskTemplate[d] => (Loads(u)' <=> Loads(u))
      BY <1>t, <1>10 DEF DeleteRemoves, SetFolder, Loads, TemplatesTypeOK
    <3>5. \A u \in Custom : Referred(u)' => Loads(u)'
      BY <3>1, <3>2, <3>3, <3>4 DEF Referring
    <3> QED BY <1>t, <1>10, <2>1, <3>1, <3>2, <3>5, AnsweredDesk, ReferringStays
            DEF DeleteRemoves
  <2> QED BY <2>1, <2>2 DEF TemplateFacts
<1>11. ASSUME NEW p \in Parties, DropEvent(p)
       PROVE  TemplateFacts'
  <2>1. TemplatesTypeOK'
    BY <1>t, <1>11 DEF DropEvent, TemplatesTypeOK, deskVars
  <2>2. ASSUME ~crossed' PROVE Referring'
    <3>1. \A u \in Custom : Referred(u)' => Referred(u)
      BY <1>t, <1>11, TemplateAssumption DEF DropEvent, Referred, deskVars, TemplatesTypeOK
    <3>2. ~crossed /\ Referring /\ folder' = folder
      BY <1>t, <1>11, <2>2 DEF DropEvent
    <3>3. \A u \in Custom : Referred(u)' => Loads(u)'
      BY <3>1, <3>2 DEF Referring, Loads
    <3> QED BY <1>t, <1>11, <2>1, <3>1, <3>2, <3>3, ReferringStays DEF DropEvent, deskVars
  <2> QED BY <2>1, <2>2 DEF TemplateFacts
<1>12. CASE TemplatesCut
  <2>1. PICK f \in [Custom -> {"absent", "bare", "shown", "archived"}] :
          /\ \A t \in Custom :
               f[t] # folder[t] => folder[t] = "archived" /\ Pending(t, "remove")
          /\ folder' = f
    BY <1>12 DEF TemplatesCut
  <2>2. TemplatesTypeOK'
    BY <1>t, <1>12, <2>1, TemplateAssumption, FirstPartyIsOne DEF TemplatesCut, TemplatesTypeOK
  <2>3. ASSUME ~crossed' PROVE Referring'
    <3>1. \A u \in Custom : Referred(u)' => Referred(u)
      BY <1>12 DEF TemplatesCut, Referred
    <3>2. ~crossed /\ Referring
      BY <1>t, <1>12, <2>3 DEF TemplatesCut
    <3>3. \A u \in Custom : Referred(u)' => Loads(u)'
      BY <2>1, <3>1, <3>2 DEF Referring, Loads, Pending
    <3>4. /\ \A d \in Desks : deskAt'[d] # "remove"
          /\ installing' = "no"
      BY <1>12 DEF TemplatesCut
    <3> QED BY <3>3, <3>4 DEF Referring
  <2> QED BY <2>2, <2>3 DEF TemplateFacts
<1> QED BY <1>1, <1>2, <1>3, <1>4, <1>5, <1>6, <1>7, <1>8, <1>9, <1>10, <1>11, <1>12
        DEF TemplatesNext

(* TemplateFacts is an invariant. *)
LEMMA TemplateFactsHold == TemplatesSpec => []TemplateFacts
BY TemplateFactsInit, TemplateFactsKept, PTL DEF TemplatesSpec

(* A template an event refers to is there. *)
LEMMA TemplateSafe == TemplateFacts => EventTemplateThere
BY DEF TemplateFacts, TemplatesTypeOK, Referring, Referred, EventTemplateThere

(* Every event keeps a template that loads, whatever is installed, removed *)
(* and cut short, unless two requests about one template overlapped.       *)
THEOREM TemplatesThere == TemplatesSpec => []EventTemplateThere
BY TemplateSafe, TemplateFactsHold, PTL
-----------------------------------------------------------------------------
(* Wi-Fi.  An attempt that the radio answered has stored the profile it    *)
(* was asked for, with the right password; once one ended well, a right    *)
(* profile is stored under a name that no other attempt will delete.       *)
Settled(p) ==
  p \in stable \cup strays \/ \E a \in Attempts : tryAt[a] = "rename" /\ p \in fresh[a]

Settling ==
  /\ \A a \in Attempts : tryAt[a] \in {"verify", "drop", "rename"} =>
       fresh[a] = {tryProfile[a]} /\ tryProfile[a].right
  /\ joined # {} => \E p \in Profiles : p.right /\ Settled(p)

(* One attempt at a time, each answered in full, leaves nothing behind but *)
(* the last joined network.                                                *)
Tidy ==
  /\ strays = {}
  /\ \A a, b \in Attempts : tryAt[a] # "idle" /\ tryAt[b] # "idle" => a = b
  /\ \A a \in Attempts : tryAt[a] \in {"idle", "connect"} => fresh[a] = {}
  /\ IF \A a \in Attempts : tryAt[a] # "rename" THEN stable = joined ELSE stable = {}

WifiFacts == WifiTypeOK /\ Settling /\ (~untidy => Tidy)

(* The profile an idle attempt names is one. *)
LEMMA NoProfileIsOne == NoProfile \in Profiles
BY WifiAssumption DEF NoProfile, Profiles

(* A booth that joined nothing has no profiles. *)
LEMMA WifiFactsInit == WifiInit => WifiFacts
<1> SUFFICES ASSUME WifiInit PROVE WifiFacts
  OBVIOUS
<1>1. untidy \in BOOLEAN
  BY Zenon DEF WifiInit
<1>2. WifiTypeOK
  BY <1>1, WifiAssumption, NoProfileIsOne DEF WifiInit, WifiTypeOK
<1>3. Settling /\ Tidy
  BY DEF WifiInit, Settling, Tidy
<1> QED BY <1>2, <1>3 DEF WifiFacts

(* Every step keeps the domains. *)
LEMMA WifiTypes == WifiTypeOK /\ [WifiNext]_wifiVars => WifiTypeOK'
<1> SUFFICES ASSUME WifiTypeOK, [WifiNext]_wifiVars PROVE WifiTypeOK'
  OBVIOUS
<1>1. CASE UNCHANGED wifiVars
  BY <1>1 DEF wifiVars, tryVars, WifiTypeOK
<1> USE WifiAssumption, NoProfileIsOne
    DEF WifiTypeOK, Step, Ends, RadioFine, RadioMishap, LeavesNetwork
<1>2. ASSUME NEW a \in Attempts, NEW p \in Profiles, WifiAsks(a, p)
      PROVE  WifiTypeOK'
  <2>1. untidy' \in BOOLEAN
    BY <1>2 DEF WifiAsks
  <2> QED BY <1>2, <2>1 DEF WifiAsks
<1>3. ASSUME NEW a \in Attempts, Connects(a)
      PROVE  WifiTypeOK'
  <2>1. tryProfile[a].ssid \in Networks
    BY DEF Profiles
  <2> QED BY <1>3, <2>1 DEF Connects
<1>4. ASSUME NEW a \in Attempts, ConnectFails(a)
      PROVE  WifiTypeOK'
  BY <1>4 DEF ConnectFails
<1>5. ASSUME NEW a \in Attempts, Verifies(a) \/ VerifyFails(a)
      PROVE  WifiTypeOK'
  BY <1>5 DEF Verifies, VerifyFails
<1>6. ASSUME NEW a \in Attempts, CleansUp(a)
      PROVE  WifiTypeOK'
  <2>1. untidy' \in BOOLEAN
    BY <1>6, Zenon DEF CleansUp
  <2> QED BY <1>6, <2>1 DEF CleansUp
<1>7. ASSUME NEW a \in Attempts, DropsStable(a)
      PROVE  WifiTypeOK'
  <2>1. untidy' \in BOOLEAN
    BY <1>7, Zenon DEF DropsStable
  <2> QED BY <1>7, <2>1 DEF DropsStable
<1>8. ASSUME NEW a \in Attempts, Renames(a)
      PROVE  WifiTypeOK'
  <2>1. joined' \in SUBSET Profiles
    BY <1>8 DEF Renames
  <2> QED BY <1>8, <2>1 DEF Renames
<1>9. ASSUME NEW a \in Attempts, RenameFails(a)
      PROVE  WifiTypeOK'
  <2>1. untidy' \in BOOLEAN
    BY <1>9, Zenon DEF RenameFails
  <2> QED BY <1>9, <2>1 DEF RenameFails
<1>10. CASE RadioDrops
  BY <1>10 DEF RadioDrops, tryVars
<1>11. ASSUME NEW p \in Profiles, RadioJoins(p)
       PROVE  WifiTypeOK'
  <2>1. p.ssid \in Networks
    BY DEF Profiles
  <2> QED BY <1>11, <2>1 DEF RadioJoins, tryVars
<1>12. CASE WifiCut
  <2>1. untidy' \in BOOLEAN
    BY <1>12, Zenon DEF WifiCut
  <2> QED BY <1>12, <2>1 DEF WifiCut
<1> QED BY <1>1, <1>2, <1>3, <1>4, <1>5, <1>6, <1>7, <1>8, <1>9, <1>10, <1>11, <1>12
        DEF WifiNext

(* What was stored for good before an attempt's step still is after it, if *)
(* the step deletes neither the stable profile nor that of a renaming      *)
(* attempt.                                                                *)
LEMMA StaysSettled ==
  ASSUME Settling,
         joined' = joined,
         stable \subseteq stable', strays \subseteq strays',
         \A b \in Attempts : tryAt[b] = "rename" =>
           \/ tryAt'[b] = "rename" /\ fresh'[b] = fresh[b]
           \/ fresh[b] \subseteq stable' \cup strays',
         \A b \in Attempts : tryAt'[b] \in {"verify", "drop", "rename"} =>
           fresh'[b] = {tryProfile'[b]} /\ tryProfile'[b].right
  PROVE  Settling'
<1>1. ASSUME NEW p \in Profiles, Settled(p) PROVE Settled(p)'
  BY <1>1 DEF Settled
<1> QED BY <1>1 DEF Settling

(* Every step keeps a profile with the right password, once there is one. *)
LEMMA SettlingKept == WifiFacts /\ [WifiNext]_wifiVars => Settling'
<1> SUFFICES ASSUME WifiFacts, [WifiNext]_wifiVars PROVE Settling'
  OBVIOUS
<1>t. WifiTypeOK /\ Settling
  BY DEF WifiFacts
<1>1. CASE UNCHANGED wifiVars
  BY <1>t, <1>1, StaysSettled DEF wifiVars, tryVars, Settling
<1> USE DEF WifiTypeOK, Step, Ends
<1>2. ASSUME NEW a \in Attempts, NEW p \in Profiles, WifiAsks(a, p)
      PROVE  Settling'
  BY <1>t, <1>2, StaysSettled DEF WifiAsks, Settling
<1>3. ASSUME NEW a \in Attempts, Connects(a)
      PROVE  Settling'
  BY <1>t, <1>3, StaysSettled DEF Connects, Settling
<1>4. ASSUME NEW a \in Attempts, ConnectFails(a)
      PROVE  Settling'
  BY <1>t, <1>4, StaysSettled DEF ConnectFails, Settling
<1>5. ASSUME NEW a \in Attempts, Verifies(a) \/ VerifyFails(a)
      PROVE  Settling'
  BY <1>t, <1>5, StaysSettled DEF Verifies, VerifyFails, Settling
<1>6. ASSUME NEW a \in Attempts, CleansUp(a)
      PROVE  Settling'
  BY <1>t, <1>6, StaysSettled DEF CleansUp, Settling
<1>7. ASSUME NEW a \in Attempts, DropsStable(a)
      PROVE  Settling'
  <2>1. \A b \in Attempts : tryAt'[b] \in {"verify", "drop", "rename"} =>
          fresh'[b] = {tryProfile'[b]} /\ tryProfile'[b].right
    BY <1>t, <1>7 DEF DropsStable, Settling
  <2>2. PICK p \in Profiles : p = tryProfile[a] /\ p.right /\ fresh[a] = {p}
    BY <1>t, <1>7 DEF DropsStable, Settling
  <2>3. Settled(p)'
    BY <1>t, <1>7, <2>2 DEF DropsStable, Settled
  <2> QED BY <2>1, <2>2, <2>3 DEF Settling
<1>8. ASSUME NEW a \in Attempts, Renames(a)
      PROVE  Settling'
  <2>1. \A b \in Attempts : tryAt'[b] \in {"verify", "drop", "rename"} =>
          fresh'[b] = {tryProfile'[b]} /\ tryProfile'[b].right
    BY <1>t, <1>8 DEF Renames, Settling
  <2>2. PICK p \in Profiles : p = tryProfile[a] /\ p.right /\ fresh[a] = {p}
    BY <1>t, <1>8 DEF Renames, Settling
  <2>3. Settled(p)'
    BY <1>t, <1>8, <2>2 DEF Renames, Settled
  <2> QED BY <2>1, <2>2, <2>3 DEF Settling
<1>9. ASSUME NEW a \in Attempts, RenameFails(a)
      PROVE  Settling'
  BY <1>t, <1>9, StaysSettled DEF RenameFails, Settling
<1>10. CASE RadioDrops
  BY <1>t, <1>10, StaysSettled DEF RadioDrops, tryVars, Settling
<1>11. ASSUME NEW p \in Profiles, RadioJoins(p)
       PROVE  Settling'
  BY <1>t, <1>11, StaysSettled DEF RadioJoins, tryVars, Settling
<1>12. CASE WifiCut
  BY <1>t, <1>12, StaysSettled DEF WifiCut, Settling
<1> QED BY <1>1, <1>2, <1>3, <1>4, <1>5, <1>6, <1>7, <1>8, <1>9, <1>10, <1>11, <1>12
        DEF WifiNext

(* Without overlap and failing calls every step leaves nothing behind. *)
LEMMA TidyKept == WifiFacts /\ [WifiNext]_wifiVars /\ ~untidy' => Tidy'
<1> SUFFICES ASSUME WifiFacts, [WifiNext]_wifiVars, ~untidy' PROVE Tidy'
  OBVIOUS
<1>t. WifiTypeOK /\ Settling /\ (~untidy => Tidy)
  BY DEF WifiFacts
<1>1. CASE UNCHANGED wifiVars
  BY <1>t, <1>1 DEF wifiVars, tryVars, Tidy
<1> USE DEF WifiTypeOK, Step, Ends, RadioFine
<1>2. ASSUME NEW a \in Attempts, NEW p \in Profiles, WifiAsks(a, p)
      PROVE  Tidy'
  BY <1>t, <1>2 DEF WifiAsks, Tidy
<1>3. ASSUME NEW a \in Attempts, Connects(a)
      PROVE  Tidy'
  BY <1>t, <1>3 DEF Connects, Tidy
<1>4. ASSUME NEW a \in Attempts, ConnectFails(a)
      PROVE  Tidy'
  BY <1>t, <1>4 DEF ConnectFails, Tidy
<1>5. ASSUME NEW a \in Attempts, Verifies(a) \/ VerifyFails(a)
      PROVE  Tidy'
  BY <1>t, <1>5 DEF Verifies, VerifyFails, Tidy
<1>6. ASSUME NEW a \in Attempts, CleansUp(a)
      PROVE  Tidy'
  BY <1>t, <1>6 DEF CleansUp, RadioMishap, Tidy
<1>7. ASSUME NEW a \in Attempts, DropsStable(a)
      PROVE  Tidy'
  BY <1>t, <1>7 DEF DropsStable, RadioMishap, Tidy
<1>8. ASSUME NEW a \in Attempts, Renames(a)
      PROVE  Tidy'
  <2>1. ~untidy /\ fresh[a] = {tryProfile[a]} /\ tryProfile[a] \in Profiles
    BY <1>t, <1>8 DEF Renames, Settling
  <2>2. stable' = {tryProfile[a]} /\ joined' = {tryProfile[a]}
    BY <1>t, <1>8, <2>1 DEF Renames, Tidy
  <2> QED BY <1>t, <1>8, <2>1, <2>2 DEF Renames, Tidy
<1>9. ASSUME NEW a \in Attempts, RenameFails(a)
      PROVE  Tidy'
  BY <1>9 DEF RenameFails, RadioMishap
<1>10. CASE RadioDrops
  BY <1>t, <1>10 DEF RadioDrops, tryVars, Tidy
<1>11. ASSUME NEW p \in Profiles, RadioJoins(p)
       PROVE  Tidy'
  BY <1>t, <1>11 DEF RadioJoins, tryVars, Tidy
<1>12. CASE WifiCut
  BY <1>12 DEF WifiCut, RadioMishap
<1> QED BY <1>1, <1>2, <1>3, <1>4, <1>5, <1>6, <1>7, <1>8, <1>9, <1>10, <1>11, <1>12
        DEF WifiNext

(* WifiFacts is inductive. *)
LEMMA WifiFactsKept == WifiFacts /\ [WifiNext]_wifiVars => WifiFacts'
BY WifiTypes, SettlingKept, TidyKept DEF WifiFacts

(* WifiFacts is an invariant. *)
LEMMA WifiFactsHold == WifiSpec => []WifiFacts
BY WifiFactsInit, WifiFactsKept, PTL DEF WifiSpec

(* A settled profile is a stored one. *)
LEMMA WifiStranded == WifiFacts => NeverStranded
BY DEF WifiFacts, Settling, Settled, NeverStranded, Stored

(* A booth that once joined a network keeps a profile with the right       *)
(* password through every attempt, overlapping ones, failures and cuts.    *)
THEOREM VenueKept == WifiSpec => []NeverStranded
BY WifiStranded, WifiFactsHold, PTL

(* With no attempt under way a tidy store holds the last joined network. *)
LEMMA WifiOne == WifiFacts => OneProfile
BY DEF WifiFacts, Tidy, OneProfile

(* Attempts that neither overlap nor meet a failing nmcli or a power cut   *)
(* leave exactly the last joined network stored.                           *)
THEOREM VenueIsOne == WifiSpec => []OneProfile
BY WifiOne, WifiFactsHold, PTL
-----------------------------------------------------------------------------
(* The parts together.  A step of the booth is one of some part, and every *)
(* other part stands still.                                                *)
PartsStep ==
  /\ [GalleryNext]_galleryVars /\ [ConfigNext]_configVars /\ [TemplatesNext]_templateVars
  /\ [WifiNext]_wifiVars /\ [FirstBootNext]_bootVars /\ [WatchdogNext]_watchdogVars
  /\ [GrowNext]_growVars /\ [ReleasesNext]_releaseVars

BoothFacts ==
  /\ GalleryFacts /\ ConfigFacts /\ ChangesKept /\ TemplateFacts /\ WifiFacts /\ BootFacts
  /\ WatchdogFacts /\ GrowFacts /\ ReleaseFacts

(* Each part takes a step of its own or none. *)
LEMMA StepOfParts == [Next]_boothVars => PartsStep
<1> SUFFICES ASSUME [Next]_boothVars PROVE PartsStep
  OBVIOUS
<1>1. CASE UNCHANGED boothVars
  BY <1>1 DEF boothVars, PartsStep
<1>2. CASE Next
  BY <1>2 DEF Next, PartsStep
<1> QED BY <1>1, <1>2

(* Each part starts in its invariant. *)
LEMMA BoothFactsInit == Init => BoothFacts
BY GalleryFactsInit, ConfigFactsInit, KeptInit, TemplateFactsInit, WifiFactsInit, BootFactsInit,
   WatchdogFactsInit, GrowFactsInit, ReleaseFactsInit
DEF Init, BoothFacts

(* Each part's step keeps its invariant. *)
LEMMA BoothFactsKept == BoothFacts /\ [Next]_boothVars => BoothFacts'
BY StepOfParts, GalleryFactsKept, ConfigFactsKept, KeptByStep, TemplateFactsKept, WifiFactsKept,
   BootFactsKept, WatchdogFactsKept, GrowFactsKept, ReleaseFactsKept
DEF PartsStep, BoothFacts

(* BoothFacts is an invariant. *)
LEMMA BoothFactsHold == Spec => []BoothFacts
BY BoothFactsInit, BoothFactsKept, PTL DEF Spec

(* Every variable of every part keeps to its type, the counters to their  *)
(* bounds.                                                                 *)
THEOREM BoothTypes == Spec => []TypesOK
<1>1. BoothFacts => TypesOK
  BY DEF BoothFacts, TypesOK, GalleryFacts, ConfigFacts, TemplateFacts, WifiFacts, BootFacts,
         WatchdogFacts, GrowFacts, ReleaseFacts
<1> QED BY <1>1, BoothFactsHold, PTL

(* Every safety property of the parts holds in the booth as it is checked. *)
THEOREM BoothSafe ==
  Spec => [](/\ LinkOpens /\ RevokedLinksDie /\ DeletedEventOffline /\ CountMatches
             /\ ChangesKept /\ EventTemplateThere /\ NeverStranded /\ OneProfile
             /\ KeysNeverLost /\ ProvisionedIsComplete /\ LivePageSpared /\ DeadPageRestarted
             /\ EngineOnWholeDisk /\ CurrentRuns)
<1>1. GalleryFacts => LinkOpens /\ RevokedLinksDie /\ DeletedEventOffline /\ CountMatches
  BY GallerySafe
<1>2. TemplateFacts => EventTemplateThere
  BY TemplateSafe
<1>3. WifiFacts => NeverStranded /\ OneProfile
  BY WifiStranded, WifiOne
<1>4. BootFacts => KeysNeverLost /\ ProvisionedIsComplete
  BY DEF BootFacts
<1>5. WatchdogFacts => LivePageSpared /\ DeadPageRestarted
  BY WatchdogSafe
<1>6. GrowFacts => EngineOnWholeDisk
  BY GrowSafe
<1>7. ReleaseFacts => CurrentRuns
  BY ReleaseSafe
<1> QED BY <1>1, <1>2, <1>3, <1>4, <1>5, <1>6, <1>7, BoothFactsHold, PTL DEF BoothFacts
=============================================================================
