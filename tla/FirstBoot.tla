------------------------------ MODULE FirstBoot -----------------------------
(***************************************************************************)
(* From a freshly written card to a locked booth: the import of the R2     *)
(* keys from the boot partition (as root, before every start of the        *)
(* engine), the engine's start, the onboarding request that provisions the *)
(* booth, and the lockdown that freezes the root file system.  The power   *)
(* may be cut between any two writes, and writes may fail.                 *)
(*                                                                         *)
(* Every file is replaced atomically, so a file is there whole or in its   *)
(* last version.  The operator may fill in the file on the card again, with *)
(* other keys, whenever the booth is off.  Left out: the degraded mode in   *)
(* which both import and lockdown refuse to act, the kill switch, SSH keys, *)
(* and what makes a boot file invalid.                                     *)
(***************************************************************************)
EXTENDS Naturals

CONSTANTS
  KeySets, NoKeys, \* complete sets of R2 keys, and none
  MaxBootFaults,   \* bound: failing writes, calls and commands
  MaxBootCuts      \* bound: power cuts

ASSUME BootAssumption ==
  /\ NoKeys \notin KeySets /\ "blank" \notin KeySets /\ "gone" \notin KeySets
  /\ MaxBootFaults \in Nat /\ MaxBootCuts \in Nat

VARIABLES
  bootFile,     \* piccie-r2.txt on the FAT partition: blank, its keys, or gone
  wanted,       \* history: the keys filled in last while /data had none
  localFile,    \* [keys, ssid, owner] of /data/local.json
  bootConfig,   \* [saved, ssid, pin] of /data/config.json
  markers,      \* .provisioned, .lockdown-requested and .lockdown-done
  frozen,       \* the read-only overlay is enabled
  stage,        \* what the booth is doing
  onboard,      \* how far the onboarding request is
  bootFaults, bootCuts

bootVars == <<bootFile, wanted, localFile, bootConfig, markers, frozen, stage, onboard,
              bootFaults, bootCuts>>
-----------------------------------------------------------------------------
Stages == {"off", "import", "write", "own", "unlink", "start", "crashed", "running",
           "freeze", "finish", "halted"}
OnboardSteps == {"idle", "local", "config", "pin", "marker", "request"}
NoLocal == [keys |-> NoKeys, ssid |-> FALSE, owner |-> "none"]

FirstBootTypeOK ==
  /\ bootFile \in KeySets \cup {"blank", "gone"} /\ wanted \in KeySets \cup {NoKeys}
  /\ localFile \in [keys : KeySets \cup {NoKeys}, ssid : BOOLEAN,
                    owner : {"none", "root", "pi"}]
  /\ bootConfig \in [saved : BOOLEAN, ssid : BOOLEAN, pin : BOOLEAN]
  /\ markers \in SUBSET {"provisioned", "requested", "done"}
  /\ frozen \in BOOLEAN /\ stage \in Stages /\ onboard \in OnboardSteps
  /\ bootFaults \in 0..MaxBootFaults /\ bootCuts \in 0..MaxBootCuts

FirstBootInit ==
  /\ bootFile = "blank" /\ wanted = NoKeys /\ localFile = NoLocal
  /\ bootConfig = [saved |-> FALSE, ssid |-> FALSE, pin |-> FALSE]
  /\ markers = {} /\ frozen = FALSE /\ stage = "off" /\ onboard = "idle"
  /\ bootFaults = 0 /\ bootCuts = 0

BootFault == bootFaults < MaxBootFaults /\ bootFaults' = bootFaults + 1 /\ UNCHANGED bootCuts
BootFine  == UNCHANGED <<bootFaults, bootCuts>>
Files     == <<localFile, bootConfig, markers, frozen>>
-----------------------------------------------------------------------------
(* The operator fills in piccie-r2.txt on a computer, or corrects it, or     *)
(* writes it again.                                                         *)
FillCard(k) ==
  /\ stage = "off" /\ bootFile' = k
  /\ wanted' = IF localFile.keys = NoKeys THEN k ELSE wanted
  /\ UNCHANGED <<Files, stage, onboard>> /\ BootFine

(* Mutated form: only the path unit starts the lockdown. *)
PowerOnPathOnly ==
  /\ stage = "off"
  /\ stage' = IF {"provisioned", "requested"} \subseteq markers /\ "done" \notin markers
                THEN "freeze" ELSE "import"
  /\ UNCHANGED <<bootFile, wanted, Files, onboard>> /\ BootFine

(* The lockdown service runs before the engine if the booth is provisioned *)
(* and not locked yet.                                                     *)
PowerOn ==
  /\ stage = "off"
  /\ stage' = IF "provisioned" \in markers /\ "done" \notin markers THEN "freeze" ELSE "import"
  /\ UNCHANGED <<bootFile, wanted, Files, onboard>> /\ BootFine

(* import_boot_config: nothing to import; or /data has complete keys, these *)
(* or others, and the card's are removed unread.                           *)
ImportReads ==
  /\ stage = "import"
  /\ stage' = IF bootFile \notin KeySets THEN "start"
              ELSE IF localFile.keys = NoKeys THEN "write" ELSE "unlink"
  /\ UNCHANGED <<bootFile, wanted, Files, onboard>> /\ BootFine

(* write_json_atomic as root: the new file belongs to root ... *)
ImportWrites ==
  /\ stage = "write" /\ stage' = "own"
  /\ localFile' = [localFile EXCEPT !.keys = bootFile, !.owner = "root"]
  /\ UNCHANGED <<bootFile, wanted, bootConfig, markers, frozen, onboard>> /\ BootFine

(* ... until chown gives it to the engine's user. *)
ImportOwns ==
  /\ stage = "own" /\ stage' = "unlink"
  /\ localFile' = [localFile EXCEPT !.owner = "pi"]
  /\ UNCHANGED <<bootFile, wanted, bootConfig, markers, frozen, onboard>> /\ BootFine

ImportUnlinks ==
  /\ stage = "unlink" /\ stage' = "start" /\ bootFile' = "gone"
  /\ UNCHANGED <<wanted, Files, onboard>> /\ BootFine

(* Mutated form: the copy on the card goes although the write failed. *)
ImportFailsUnlinked ==
  /\ stage \in {"write", "unlink"} /\ BootFault /\ stage' = "start" /\ bootFile' = "gone"
  /\ UNCHANGED <<wanted, Files, onboard>>

(* The write, the hand-over or the unlink fails: the engine starts with what *)
(* there is by then.                                                         *)
ImportFails ==
  /\ stage \in {"write", "own", "unlink"} /\ BootFault /\ stage' = "start"
  /\ UNCHANGED <<bootFile, wanted, Files, onboard>>

(* lifespan: ensure raises when local.json cannot be read; without a      *)
(* config.json it makes one with the SSID of local.json.                  *)
EngineStarts ==
  /\ stage = "start"
  /\ IF localFile.owner = "root"
       THEN stage' = "crashed" /\ UNCHANGED bootConfig
       ELSE /\ stage' = "running"
            /\ bootConfig' = IF bootConfig.saved THEN bootConfig
                ELSE [saved |-> TRUE, ssid |-> localFile.ssid, pin |-> FALSE]
  /\ UNCHANGED <<bootFile, wanted, localFile, markers, frozen, onboard>> /\ BootFine

(* Restart=always: after a failed start, and when the engine exits by itself. *)
EngineRetries ==
  /\ stage = "crashed" /\ stage' = "import"
  /\ UNCHANGED <<bootFile, wanted, Files, onboard>> /\ BootFine

EngineExits ==
  /\ stage = "running" /\ BootFault /\ stage' = "import" /\ onboard' = "idle"
  /\ UNCHANGED <<bootFile, wanted, Files>>
-----------------------------------------------------------------------------
(* _complete_onboarding, under onboarding_lock: not provisioned, Wi-Fi     *)
(* connected, keys there, and R2 answers the probe.                        *)
OnboardBegins ==
  /\ stage = "running" /\ onboard = "idle"
  /\ "provisioned" \notin markers /\ localFile.keys # NoKeys
  /\ onboard' = "local"
  /\ UNCHANGED <<bootFile, wanted, Files, stage>> /\ BootFine

OnboardWritesLocal ==
  /\ onboard = "local" /\ onboard' = "config"
  /\ localFile' = [localFile EXCEPT !.ssid = TRUE, !.owner = "pi"]
  /\ UNCHANGED <<bootFile, wanted, bootConfig, markers, frozen, stage>> /\ BootFine

OnboardSavesSsid ==
  /\ onboard = "config" /\ onboard' = "pin"
  /\ bootConfig' = [bootConfig EXCEPT !.ssid = TRUE]
  /\ UNCHANGED <<bootFile, wanted, localFile, markers, frozen, stage>> /\ BootFine

(* Mutated form: the marker is written before the PIN. *)
OnboardSavesPinLast ==
  /\ onboard = "pin" /\ onboard' = "marker"
  /\ markers' = markers \cup {"provisioned"}
  /\ UNCHANGED <<bootFile, wanted, localFile, bootConfig, frozen, stage>> /\ BootFine

OnboardSavesPin ==
  /\ onboard = "pin" /\ onboard' = "marker"
  /\ bootConfig' = [bootConfig EXCEPT !.pin = TRUE]
  /\ UNCHANGED <<bootFile, wanted, localFile, markers, frozen, stage>> /\ BootFine

OnboardMarks ==
  /\ onboard = "marker" /\ onboard' = "request"
  /\ markers' = markers \cup {"provisioned"}
  /\ UNCHANGED <<bootFile, wanted, localFile, bootConfig, frozen, stage>> /\ BootFine

OnboardRequestsLock ==
  /\ onboard = "request" /\ onboard' = "idle"
  /\ markers' = markers \cup {"requested"}
  /\ UNCHANGED <<bootFile, wanted, localFile, bootConfig, frozen, stage>> /\ BootFine

(* A write fails, and with it the request. *)
OnboardFails ==
  /\ onboard # "idle" /\ BootFault /\ onboard' = "idle"
  /\ UNCHANGED <<bootFile, wanted, Files, stage>>
-----------------------------------------------------------------------------
(* The path unit sees .lockdown-requested, also after a failed attempt;   *)
(* the script waits five seconds and stops the engine.                    *)
LockdownStarts ==
  /\ stage \in {"running", "halted"} /\ onboard = "idle"
  /\ {"provisioned", "requested"} \subseteq markers /\ "done" \notin markers
  /\ stage' = "freeze"
  /\ UNCHANGED <<bootFile, wanted, Files, onboard>> /\ BootFine

LockdownFreezes ==
  /\ stage = "freeze" /\ stage' = "finish" /\ frozen' = TRUE
  /\ UNCHANGED <<bootFile, wanted, localFile, bootConfig, markers, onboard>> /\ BootFine

(* raspi-config fails: the script aborts, the engine stays stopped. *)
LockdownFails ==
  /\ stage = "freeze" /\ BootFault /\ stage' = "halted"
  /\ UNCHANGED <<bootFile, wanted, Files, onboard>>

LockdownDone ==
  /\ stage = "finish" /\ stage' = "off"      \* reboot
  /\ markers' = (markers \cup {"done"}) \ {"requested"}
  /\ UNCHANGED <<bootFile, wanted, localFile, bootConfig, frozen, onboard>> /\ BootFine

BootCut ==
  /\ stage # "off" /\ bootCuts < MaxBootCuts /\ bootCuts' = bootCuts + 1
  /\ stage' = "off" /\ onboard' = "idle"
  /\ UNCHANGED <<bootFile, wanted, Files, bootFaults>>

(* After a party, or because it stands still, the booth is switched off. *)
SwitchOff ==
  /\ stage \in {"running", "halted"} /\ onboard = "idle" /\ stage' = "off"
  /\ UNCHANGED <<bootFile, wanted, Files, onboard>> /\ BootFine

BootStep ==
  \/ PowerOn \/ ImportReads \/ ImportWrites \/ ImportOwns \/ ImportUnlinks \/ EngineStarts
  \/ EngineRetries
  \/ LockdownStarts \/ LockdownFreezes \/ LockdownDone

OnboardStep ==
  \/ OnboardWritesLocal \/ OnboardSavesSsid \/ OnboardSavesPin \/ OnboardMarks
  \/ OnboardRequestsLock

FirstBootNext ==
  \/ \E k \in KeySets : FillCard(k)
  \/ BootStep \/ ImportFails \/ EngineExits
  \/ OnboardBegins \/ OnboardStep \/ OnboardFails \/ LockdownFails
  \/ SwitchOff \/ BootCut

(* systemd goes on, a request is served, a booth is switched off at last. *)
BootFairness ==
  WF_bootVars(BootStep) /\ WF_bootVars(OnboardStep) /\ WF_bootVars(SwitchOff)

FirstBootSpec == FirstBootInit /\ [][FirstBootNext]_bootVars /\ BootFairness
-----------------------------------------------------------------------------
(* The keys the operator gave the booth are never lost: those filled in last *)
(* before /data had any arrive there and are what the engine keeps using,    *)
(* and the copy on the card, readable in any computer, is removed only once  *)
(* /data has keys (r2_boot_config.py:132), whatever fails, is cut, or is     *)
(* filled in again.  Keys filled in later are removed without an import.     *)
KeysNeverLost ==
  /\ localFile.keys \in {NoKeys, wanted}
  /\ bootFile = "gone" => localFile.keys # NoKeys

(* A booth that calls itself provisioned has its keys, its network in both *)
(* files and its PIN: onboarding cannot be half done and over (the marker  *)
(* is written last, provisioning.py:80, and forbids another try).          *)
ProvisionedIsComplete ==
  "provisioned" \in markers =>
    localFile.keys # NoKeys /\ localFile.ssid /\ bootConfig.ssid /\ bootConfig.pin

(* A provisioned booth is locked down in the end, although the power was   *)
(* cut before the request was written or the freeze failed, if only it is  *)
(* switched off and on again after a party (image/piccie-lockdown.service  *)
(* is wanted by every boot, not only by the path unit).                    *)
LocksDown == "provisioned" \in markers ~> (frozen /\ "done" \in markers)
-----------------------------------------------------------------------------
(* What the unit file promises and the model refutes: the import runs "as  *)
(* root before the unprivileged engine reads /data/local.json"             *)
(* (image/piccie-engine.service:24), so the engine can read what it left.  *)
EngineReadsKeys == bootFile = "gone" => localFile.owner = "pi"
=============================================================================
