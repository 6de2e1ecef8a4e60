------------------------------ MODULE GrowData ------------------------------
(***************************************************************************)
(* The first boots of a card: the /data partition grows to the end of the  *)
(* card in the partition table, the booth reboots so that the kernel sees  *)
(* it, and its file system grows while it is not mounted.  A failure is    *)
(* marked on /run, and the fallback service decides whether the engine may *)
(* start: on the real partition, degraded on a tmpfs or on a partition that *)
(* cannot be written, or not at all.                                       *)
(*                                                                         *)
(* Sizes are in any unit.  The checks that the partition is the third, the *)
(* last, labelled "data" and so on are one fault that stops the script.    *)
(* Left out: partitions that someone else mounts or writes meanwhile, and a *)
(* disk that refuses the write test but then takes the .DEGRADED marker.   *)
(***************************************************************************)
EXTENDS Naturals

CONSTANTS
  ImageSize, CardSize,   \* of the partition: as flashed, and up to the end of the card
  MaxGrowFaults,         \* bound: failing commands and checks
  MaxGrowCuts            \* bound: power cuts

ASSUME GrowAssumption ==
  /\ ImageSize \in Nat /\ CardSize \in Nat /\ ImageSize <= CardSize
  /\ MaxGrowFaults \in Nat /\ MaxGrowCuts \in Nat

VARIABLES
  table, kernel,   \* the size of p3: in the table on the card, as the kernel sees it
  extent, intact,  \* the ext4 file system: its size, and whether it is consistent
  growth,          \* what this boot is doing
  growFailed,      \* /run/piccie-data-grow.failed
  dataMount,       \* on /data: nothing, the disk, the disk read-only, or a tmpfs
  degraded,        \* /data/.DEGRADED or /run/piccie.degraded, which the engine reads
  rebootAsked,
  growFaults, growCuts

diskVars  == <<table, kernel, extent, intact>>
growVars  == <<diskVars, growth, growFailed, dataMount, degraded, rebootAsked,
              growFaults, growCuts>>
-----------------------------------------------------------------------------
GrowTypeOK ==
  /\ table \in {ImageSize, CardSize} /\ kernel \in {ImageSize, CardSize}
  /\ extent \in {ImageSize, CardSize} /\ intact \in BOOLEAN
  /\ growth \in {"off", "validate", "verify", "fsck", "resize", "recheck", "mount", "gate",
                 "refused", "engine"}
  /\ growFailed \in BOOLEAN /\ dataMount \in {"none", "disk", "readonly", "tmpfs"}
  /\ degraded \in BOOLEAN /\ rebootAsked \in BOOLEAN
  /\ growFaults \in 0..MaxGrowFaults /\ growCuts \in 0..MaxGrowCuts

GrowInit ==
  /\ table = ImageSize /\ kernel = ImageSize /\ extent = ImageSize /\ intact = TRUE
  /\ growth = "off" /\ growFailed = FALSE /\ dataMount = "none"
  /\ degraded = FALSE /\ rebootAsked = FALSE
  /\ growFaults = 0 /\ growCuts = 0

GrowFault == growFaults < MaxGrowFaults /\ growFaults' = growFaults + 1 /\ UNCHANGED growCuts
GrowFine  == UNCHANGED <<growFaults, growCuts>>

(* The script goes on to step, ends well, or dies: record_result. *)
Proceed(step) == growth' = step /\ UNCHANGED <<growFailed, dataMount, degraded, rebootAsked>>
EndsGrowth(failed) ==
  growth' = "mount" /\ growFailed' = failed /\ UNCHANGED <<dataMount, degraded, rebootAsked>>
Succeeds == EndsGrowth(FALSE)
Dies == EndsGrowth(TRUE)
-----------------------------------------------------------------------------
(* The kernel reads the partition table; /run is empty. *)
GrowPowerOn ==
  /\ growth = "off" /\ growth' = "validate"
  /\ kernel' = table /\ growFailed' = FALSE /\ dataMount' = "none"
  /\ degraded' = FALSE /\ rebootAsked' = FALSE
  /\ UNCHANGED <<table, extent, intact>> /\ GrowFine

(* Mutated form: a table that is full already is taken as the end. *)
ValidateTableOnly ==
  /\ growth = "validate"
  /\ IF table < CardSize
       THEN table' = CardSize /\ Proceed("verify") /\ GrowFine
       ELSE UNCHANGED table /\ Succeeds /\ GrowFine
  /\ UNCHANGED <<kernel, extent, intact>>

(* check_data_mount_state, resolve_data_device and validate_target find   *)
(* nothing wrong; sfdisk writes the table, or the file system is next.    *)
Validate ==
  /\ growth = "validate"
  /\ IF table < CardSize
       THEN table' = CardSize /\ Proceed("verify") /\ GrowFine
       ELSE UNCHANGED table /\ (IF extent < table THEN Proceed("fsck") ELSE Succeeds) /\ GrowFine
  /\ UNCHANGED <<kernel, extent, intact>>

(* The partition is missing or not as expected, or sfdisk fails. *)
ValidateFails ==
  /\ growth = "validate" /\ GrowFault /\ Dies /\ UNCHANGED diskVars

(* The table is as it was meant to be, and a reboot is requested; or it   *)
(* cannot be read back.                                                   *)
VerifyTable ==
  /\ growth = "verify"
  /\ \/ /\ growth' = "mount" /\ growFailed' = FALSE /\ rebootAsked' = TRUE
        /\ UNCHANGED <<dataMount, degraded>> /\ GrowFine
     \/ Dies /\ GrowFault
  /\ UNCHANGED diskVars

(* e2fsck -pf, before and after resize2fs: it may give up on a damaged    *)
(* file system.                                                           *)
CheckExt4(step, Then) ==
  /\ growth = step
  /\ \/ intact' = TRUE /\ Then /\ GrowFine
     \/ UNCHANGED intact /\ Dies /\ GrowFault
  /\ UNCHANGED <<table, kernel, extent>>

Fsck == CheckExt4("fsck", Proceed("resize"))

(* Mutated form: the file system is rounded up past the partition. *)
Resize2fsRoundsUp ==
  /\ growth = "resize"
  /\ \/ extent' = kernel + 1 /\ UNCHANGED intact /\ Proceed("recheck") /\ GrowFine
     \/ /\ UNCHANGED extent /\ intact' \in BOOLEAN
        /\ Dies /\ GrowFault
  /\ UNCHANGED <<table, kernel>>

(* resize2fs takes the size of the device from the kernel. *)
Resize2fs ==
  /\ growth = "resize"
  /\ \/ extent' = kernel /\ UNCHANGED intact /\ Proceed("recheck") /\ GrowFine
     \/ /\ UNCHANGED extent /\ intact' \in BOOLEAN
        /\ Dies /\ GrowFault
  /\ UNCHANGED <<table, kernel>>

(* ... and the file system is as large as the partition. *)
Recheck == CheckExt4("recheck", IF extent = table THEN Succeeds ELSE Dies)
-----------------------------------------------------------------------------
(* data.mount, after systemd-fsck; a failure, or an ext4 error that leaves  *)
(* the disk read-only, does not stop the boot.                              *)
MountData ==
  /\ growth = "mount" /\ growth' = "gate"
  /\ \/ dataMount' = "disk" /\ intact' = TRUE /\ GrowFine
     \/ dataMount' \in {"none", "readonly"} /\ UNCHANGED intact /\ GrowFault
  /\ UNCHANGED <<table, kernel, extent, growFailed, degraded, rebootAsked>>

(* data-fallback.service: a tmpfs is mounted where nothing is, and what     *)
(* cannot be written, or is that tmpfs, is marked degraded.                 *)
FallsBack ==
  /\ dataMount' = IF dataMount = "none" THEN "tmpfs" ELSE dataMount
  /\ degraded' = (dataMount # "disk")
  /\ UNCHANGED <<diskVars, growFailed, rebootAsked>> /\ GrowFine

(* Mutated form: the failure marker is not looked at. *)
GateOpen == growth = "gate" /\ FallsBack /\ growth' = "engine"

(* A failed growth refuses the engine's start, unless it will be degraded. *)
Gate ==
  /\ growth = "gate" /\ FallsBack
  /\ growth' = IF growFailed /\ ~degraded' THEN "refused" ELSE "engine"

(* The reboot that was asked for, some time in the rest of the boot; or   *)
(* the operator switches a booth that did not come up, or came up degraded,*)
(* off and on ("Restart the booth and repair /data", routes.py:694).       *)
GrowReboot ==
  /\ \/ rebootAsked /\ growth \in {"mount", "gate", "engine"}
     \/ growth = "refused" \/ (growth = "engine" /\ degraded)
  /\ growth' = "off" /\ dataMount' = "none"
  /\ UNCHANGED <<diskVars, growFailed, degraded, rebootAsked>> /\ GrowFine

(* A clean shutdown of a booth that runs. *)
GrowSwitchOff ==
  /\ growth = "engine" /\ ~degraded /\ ~rebootAsked
  /\ growth' = "off" /\ dataMount' = "none"
  /\ UNCHANGED <<diskVars, growFailed, degraded, rebootAsked>> /\ GrowFine

(* A power cut.  In the middle of resize2fs the file system is damaged,   *)
(* whatever its superblock says of its size.                              *)
GrowCut ==
  /\ growCuts < MaxGrowCuts /\ growCuts' = growCuts + 1 /\ UNCHANGED growFaults
  /\ growth # "off" /\ growth' = "off" /\ dataMount' = "none"
  /\ IF growth = "resize"
       THEN extent' \in {extent, kernel} /\ intact' = FALSE
       ELSE UNCHANGED <<extent, intact>>
  /\ table' \in IF growth = "verify" THEN {ImageSize, CardSize} ELSE {table}
  /\ UNCHANGED <<kernel, growFailed, degraded, rebootAsked>>

GrowStep == Validate \/ VerifyTable \/ Fsck \/ Resize2fs \/ Recheck \/ MountData \/ Gate

GrowNext == GrowPowerOn \/ GrowStep \/ ValidateFails \/ GrowReboot \/ GrowSwitchOff \/ GrowCut

(* A boot goes on, a booth that is off or did not come up is switched on  *)
(* or off and on again by its operator.                                   *)
GrowFairness ==
  WF_growVars(GrowPowerOn) /\ WF_growVars(GrowStep) /\ WF_growVars(GrowReboot)

GrowSpec == GrowInit /\ [][GrowNext]_growVars /\ GrowFairness
-----------------------------------------------------------------------------
(* An engine that takes its /data for good, and so takes photos and moves    *)
(* keys there, has the real disk, writable, with a file system that is whole *)
(* and exactly as large as the partition the kernel sees                     *)
(* (piccie-grow-data.sh:208): after a failed growth it does not start, or    *)
(* knows that it is degraded.                                                *)
EngineOnWholeDisk ==
  growth = "engine" /\ ~degraded => dataMount = "disk" /\ intact /\ extent = kernel

(* However often the power is cut and commands fail on the way, a booth   *)
(* that was switched on ends with the engine on a file system that uses   *)
(* the whole card.                                                        *)
DiskGrows ==
  growth # "off" ~> growth = "engine" /\ dataMount = "disk" /\ extent = CardSize
=============================================================================
