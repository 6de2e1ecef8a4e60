---------------------------- MODULE WifiProfiles ----------------------------
(***************************************************************************)
(* Moving the booth to another venue's Wi-Fi: connect_network on the       *)
(* appliance, against NetworkManager, its stored profiles and the radio.   *)
(* Each attempt works on a fresh profile of its own; only when the radio   *)
(* is verified to be on the requested network is the stable profile        *)
(* deleted and the fresh one renamed to it.  A request the kiosk gave up   *)
(* on may still run when the operator starts the next.                     *)
(*                                                                         *)
(* NetworkManager is external: an activation with the right password       *)
(* succeeds or fails, one with a wrong password fails, a failed one may    *)
(* leave its profile behind, the association may drop and come back        *)
(* whenever a profile with the right password is stored.  Left out: radio  *)
(* switching, scanning, and the wording of errors.                         *)
(***************************************************************************)
EXTENDS Naturals

CONSTANTS
  Networks,         \* SSIDs
  NoNetwork,
  Attempts,         \* engine threads in connect_network
  MaxAttempts,      \* bound: requests
  MaxRadioMishaps   \* bound: nmcli timeouts and power cuts

ASSUME WifiAssumption ==
  /\ Networks # {} /\ NoNetwork \notin Networks
  /\ MaxAttempts \in Nat /\ MaxRadioMishaps \in Nat

Profiles == [ssid : Networks, right : BOOLEAN]   \* right: the password is right

VARIABLES
  stable,       \* profiles of the name piccie-wifi-current
  fresh,        \* each attempt's own profile, {} without one
  strays,       \* fresh profiles that lost their attempt
  association,  \* the SSID the radio is on
  tryAt, tryProfile,   \* each attempt's step and what was asked for
  joined,       \* history: what the last attempt answered with ok asked for
  untidy,       \* history: attempts overlapped, or nmcli or the power failed
  attempts, radioMishaps

tryVars  == <<tryAt, tryProfile>>
wifiVars == <<stable, fresh, strays, association, tryVars, joined, untidy, attempts,
              radioMishaps>>
-----------------------------------------------------------------------------
Stored == stable \cup strays \cup UNION {fresh[a] : a \in Attempts}

WifiTypeOK ==
  /\ stable \in SUBSET Profiles /\ strays \in SUBSET Profiles
  /\ fresh \in [Attempts -> SUBSET Profiles]
  /\ association \in Networks \cup {NoNetwork}
  /\ tryAt \in [Attempts -> {"idle", "connect", "verify", "cleanup", "drop", "rename"}]
  /\ tryProfile \in [Attempts -> Profiles]
  /\ joined \in SUBSET Profiles /\ untidy \in BOOLEAN
  /\ attempts \in 0..MaxAttempts /\ radioMishaps \in 0..MaxRadioMishaps

NoProfile == [ssid |-> CHOOSE n \in Networks : TRUE, right |-> FALSE]

WifiInit ==
  /\ stable = {} /\ strays = {} /\ fresh = [a \in Attempts |-> {}]
  /\ association = NoNetwork
  /\ tryAt = [a \in Attempts |-> "idle"] /\ tryProfile = [a \in Attempts |-> NoProfile]
  /\ joined = {} /\ untidy = FALSE /\ attempts = 0 /\ radioMishaps = 0

Step(a, step) == tryAt' = [tryAt EXCEPT ![a] = step] /\ UNCHANGED tryProfile

(* The request is answered; a profile it still has becomes a stray one. *)
Ends(a, profile) ==
  /\ tryAt' = [tryAt EXCEPT ![a] = "idle"]
  /\ tryProfile' = [tryProfile EXCEPT ![a] = NoProfile]
  /\ fresh' = [fresh EXCEPT ![a] = {}]
  /\ strays' = strays \cup profile

RadioMishap ==
  radioMishaps < MaxRadioMishaps /\ radioMishaps' = radioMishaps + 1 /\ untidy' = TRUE

RadioFine == UNCHANGED <<radioMishaps, untidy>>
-----------------------------------------------------------------------------
WifiAsks(a, p) ==
  /\ tryAt[a] = "idle" /\ attempts < MaxAttempts /\ attempts' = attempts + 1
  /\ tryAt' = [tryAt EXCEPT ![a] = "connect"] /\ tryProfile' = [tryProfile EXCEPT ![a] = p]
  /\ untidy' = (untidy \/ \E b \in Attempts : tryAt[b] # "idle")
  /\ UNCHANGED <<stable, fresh, strays, association, joined, radioMishaps>>

(* device wifi connect: the radio is on the network, now or a moment later. *)
Connects(a) ==
  /\ tryAt[a] = "connect" /\ tryProfile[a].right /\ Step(a, "verify")
  /\ fresh' = [fresh EXCEPT ![a] = {tryProfile[a]}]
  /\ association' \in {tryProfile[a].ssid, NoNetwork}
  /\ UNCHANGED <<stable, strays, joined, attempts>> /\ RadioFine

(* Mutated form: the exit code of nmcli is not looked at. *)
ConnectFailsUnnoticed(a) ==
  /\ tryAt[a] = "connect" /\ Step(a, "verify")
  /\ \E left \in {{}, {tryProfile[a]}} : fresh' = [fresh EXCEPT ![a] = left]
  /\ association' \in {association, NoNetwork}
  /\ UNCHANGED <<stable, strays, joined, attempts>> /\ RadioFine

(* It fails or times out, having dropped the old association or not, and  *)
(* may leave its profile behind.                                          *)
ConnectFails(a) ==
  /\ tryAt[a] = "connect" /\ Step(a, "cleanup")
  /\ \E left \in {{}, {tryProfile[a]}} : fresh' = [fresh EXCEPT ![a] = left]
  /\ association' \in {association, NoNetwork}
  /\ UNCHANGED <<stable, strays, joined, attempts>> /\ RadioFine

(* Within ten looks the radio is on the network, or it is not. *)
Verifies(a) ==
  /\ tryAt[a] = "verify" /\ association = tryProfile[a].ssid /\ Step(a, "drop")
  /\ UNCHANGED <<stable, fresh, strays, association, joined, attempts>> /\ RadioFine

VerifyFails(a) ==
  /\ tryAt[a] = "verify" /\ association # tryProfile[a].ssid /\ Step(a, "cleanup")
  /\ UNCHANGED <<stable, fresh, strays, association, joined, attempts>> /\ RadioFine

(* connection delete of the attempt's profile; if nmcli times out it may  *)
(* or may not have happened, and the attempt ends all the same.  The      *)
(* radio leaves a network whose last profile goes.                        *)
LeavesNetwork ==
  IF \E p \in Stored' : p.ssid = association THEN UNCHANGED association
  ELSE association' = NoNetwork

CleansUp(a) ==
  /\ tryAt[a] = "cleanup"
  /\ \/ Ends(a, {}) /\ RadioFine
     \/ Ends(a, fresh[a]) /\ RadioMishap
  /\ UNCHANGED <<stable, joined, attempts>> /\ LeavesNetwork

(* Mutated form: the profile of this attempt is deleted, not the old one. *)
DropsFresh(a) ==
  /\ tryAt[a] = "drop" /\ Step(a, "rename")
  /\ fresh' = [fresh EXCEPT ![a] = {}]
  /\ UNCHANGED <<stable, strays, joined, attempts>> /\ LeavesNetwork /\ RadioFine

(* connection delete id piccie-wifi-current takes every profile of that   *)
(* name; its outcome is not looked at.                                    *)
DropsStable(a) ==
  /\ tryAt[a] = "drop" /\ Step(a, "rename")
  /\ \/ stable' = {} /\ RadioFine
     \/ UNCHANGED stable /\ RadioMishap
  /\ UNCHANGED <<fresh, strays, joined, attempts>> /\ LeavesNetwork

Renames(a) ==
  /\ tryAt[a] = "rename" /\ Ends(a, {})
  /\ stable' = stable \cup fresh[a] /\ joined' = {tryProfile[a]}
  /\ UNCHANGED <<association, attempts>> /\ RadioFine

(* The modify call fails: connected, but not saved under the stable name, *)
(* or, if nmcli timed out, saved and not known to be.                     *)
RenameFails(a) ==
  /\ tryAt[a] = "rename" /\ RadioMishap
  /\ \/ Ends(a, fresh[a]) /\ UNCHANGED stable
     \/ Ends(a, {}) /\ stable' = stable \cup fresh[a]
  /\ UNCHANGED <<association, joined, attempts>>
-----------------------------------------------------------------------------
(* The access point goes away, or NetworkManager joins a stored network. *)
RadioDrops ==
  /\ association # NoNetwork /\ association' = NoNetwork
  /\ UNCHANGED <<stable, fresh, strays, tryVars, joined, attempts>> /\ RadioFine

RadioJoins(p) ==
  /\ association = NoNetwork /\ p \in Stored /\ p.right /\ association' = p.ssid
  /\ UNCHANGED <<stable, fresh, strays, tryVars, joined, attempts>> /\ RadioFine

WifiCut ==
  /\ RadioMishap
  /\ tryAt' = [a \in Attempts |-> "idle"] /\ tryProfile' = [a \in Attempts |-> NoProfile]
  /\ strays' = strays \cup UNION {fresh[a] : a \in Attempts}
  /\ fresh' = [a \in Attempts |-> {}]
  /\ association' = NoNetwork
  /\ UNCHANGED <<stable, joined, attempts>>

WifiNext ==
  \/ \E a \in Attempts :
       \/ \E p \in Profiles : WifiAsks(a, p)
       \/ Connects(a) \/ ConnectFails(a) \/ Verifies(a) \/ VerifyFails(a) \/ CleansUp(a)
       \/ DropsStable(a) \/ Renames(a) \/ RenameFails(a)
  \/ RadioDrops \/ \E p \in Profiles : RadioJoins(p)
  \/ WifiCut

WifiSpec == WifiInit /\ [][WifiNext]_wifiVars
-----------------------------------------------------------------------------
(* Once the booth has joined a network, a profile with the right password *)
(* is stored at every moment, so it finds back to some venue after a      *)
(* power cut: "so a bad password cannot strand the booth" (wifi.py:266),  *)
(* nor can a failing nmcli, a cut between delete and rename, or a second  *)
(* attempt.                                                               *)
NeverStranded == joined # {} => \E p \in Stored : p.right

(* "Retain exactly one Piccie-managed venue profile" (wifi.py:265): with  *)
(* every attempt answered exactly the last joined network is stored, if   *)
(* no two attempts overlapped and neither nmcli nor the power failed.     *)
OneProfile ==
  ~untidy /\ (\A a \in Attempts : tryAt[a] = "idle") =>
    strays = {} /\ stable = joined
=============================================================================
