---------------------------- MODULE ConfigStore -----------------------------
(***************************************************************************)
(* config.json, the booth's settings that are not secrets, and the         *)
(* requests that change it: connecting Wi-Fi, setting the PIN or the       *)
(* performance mode, setting the active event, and the status poll that    *)
(* clears the active event once it has concluded.  Each of them loads the  *)
(* whole file, changes its own field and saves the whole file again; no    *)
(* lock spans the two, and the engine serves requests on several threads.  *)
(* The file is replaced atomically, so a power cut or a failing write      *)
(* leaves the last saved version.                                          *)
(*                                                                         *)
(* Values are two-valued per setting: what it was at boot and a change.    *)
(* Left out: PIN hashing, and the fields taken from local.json (FirstBoot).*)
(***************************************************************************)
EXTENDS Naturals

CONSTANTS
  PartyEvents,     \* events that can be made the active one
  NoEvent,         \* active_event_id is null
  Settings,        \* the other fields, for example wifi_ssid and the PIN
  Clerks,          \* engine threads serving operator requests
  MaxChanges,      \* bound: operator requests
  MaxSaveMishaps   \* bound: failing writes and power cuts

ASSUME ConfigAssumption ==
  /\ NoEvent \notin PartyEvents /\ "active" \notin Settings
  /\ MaxChanges \in Nat /\ MaxSaveMishaps \in Nat

VARIABLES
  confFile,      \* config.json
  concluded,     \* events whose end time has passed
  clerkAt, clerkField, clerkValue, clerkCopy,   \* each operator request
  pollAt, pollSaw, pollCopy,                    \* the status request
  (* history *)
  acknowledged,  \* the outcome of the answered requests in their order
  stale,         \* a save replaced a version it was not based on
  changes, saveMishaps

pollVars   == <<pollAt, pollSaw, pollCopy>>
clerkVars  == <<clerkAt, clerkField, clerkValue, clerkCopy>>
configVars == <<confFile, concluded, clerkVars, pollVars, acknowledged, stale, changes,
                saveMishaps>>
-----------------------------------------------------------------------------
Fields    == Settings \cup {"active"}
Values(f) == IF f = "active" THEN PartyEvents \cup {NoEvent} ELSE {0, 1}
AnyValue  == PartyEvents \cup {NoEvent, 0, 1}
Configs   == {c \in [Fields -> AnyValue] : \A f \in Fields : c[f] \in Values(f)}

AppConfig == [f \in Fields |-> IF f = "active" THEN NoEvent ELSE 0]

ConfigTypeOK ==
  /\ confFile \in Configs /\ acknowledged \in Configs /\ pollCopy \in Configs
  /\ concluded \in SUBSET PartyEvents
  /\ clerkAt \in [Clerks -> {"idle", "load", "save"}]
  /\ clerkField \in [Clerks -> Fields] /\ clerkValue \in [Clerks -> AnyValue]
  /\ clerkCopy \in [Clerks -> Configs]
  /\ pollAt \in {"idle", "load", "save"} /\ pollSaw \in PartyEvents \cup {NoEvent}
  /\ stale \in BOOLEAN
  /\ changes \in 0..MaxChanges /\ saveMishaps \in 0..MaxSaveMishaps

(* ensure, at boot: the file is there from then on. *)
ConfigInit ==
  /\ confFile = AppConfig /\ acknowledged = AppConfig /\ stale = FALSE
  /\ concluded = {}
  /\ clerkAt = [c \in Clerks |-> "idle"]
  /\ clerkField = [c \in Clerks |-> "active"]
  /\ clerkValue = [c \in Clerks |-> NoEvent]
  /\ clerkCopy = [c \in Clerks |-> AppConfig]
  /\ pollAt = "idle" /\ pollSaw = NoEvent /\ pollCopy = AppConfig
  /\ changes = 0 /\ saveMishaps = 0

ClerkRests(c) ==
  /\ clerkAt' = [clerkAt EXCEPT ![c] = "idle"]
  /\ clerkField' = [clerkField EXCEPT ![c] = "active"]
  /\ clerkValue' = [clerkValue EXCEPT ![c] = NoEvent]
  /\ clerkCopy' = [clerkCopy EXCEPT ![c] = AppConfig]

PollRests == pollAt' = "idle" /\ pollSaw' = NoEvent /\ pollCopy' = AppConfig

SaveMishap == saveMishaps < MaxSaveMishaps /\ saveMishaps' = saveMishaps + 1
-----------------------------------------------------------------------------
(* A request with its checks: a concluded event cannot be activated. *)
ClerkAsks(c, f, v) ==
  /\ clerkAt[c] = "idle" /\ changes < MaxChanges /\ changes' = changes + 1
  /\ v \in Values(f) /\ v \notin concluded
  /\ clerkAt' = [clerkAt EXCEPT ![c] = "load"]
  /\ clerkField' = [clerkField EXCEPT ![c] = f]
  /\ clerkValue' = [clerkValue EXCEPT ![c] = v]
  /\ UNCHANGED <<confFile, concluded, clerkCopy, pollVars, acknowledged, stale, saveMishaps>>

ClerkLoads(c) ==
  /\ clerkAt[c] = "load" /\ clerkAt' = [clerkAt EXCEPT ![c] = "save"]
  /\ clerkCopy' = [clerkCopy EXCEPT ![c] = confFile]
  /\ UNCHANGED <<confFile, concluded, clerkField, clerkValue, pollVars, acknowledged, stale,
                 changes, saveMishaps>>

(* Mutated form: the change is saved without what was loaded. *)
ClerkSavesPatch(c) ==
  /\ clerkAt[c] = "save" /\ ClerkRests(c)
  /\ confFile' = [AppConfig EXCEPT ![clerkField[c]] = clerkValue[c]]
  /\ acknowledged' = [acknowledged EXCEPT ![clerkField[c]] = clerkValue[c]]
  /\ stale' = (stale \/ clerkCopy[c] # confFile)
  /\ UNCHANGED <<concluded, pollVars, changes, saveMishaps>>

ClerkSaves(c) ==
  /\ clerkAt[c] = "save" /\ ClerkRests(c)
  /\ confFile' = [clerkCopy[c] EXCEPT ![clerkField[c]] = clerkValue[c]]
  /\ acknowledged' = [acknowledged EXCEPT ![clerkField[c]] = clerkValue[c]]
  /\ stale' = (stale \/ clerkCopy[c] # confFile)
  /\ UNCHANGED <<concluded, pollVars, changes, saveMishaps>>

(* The write fails: the request is answered with an error. *)
ClerkSaveFails(c) ==
  /\ clerkAt[c] = "save" /\ ClerkRests(c) /\ SaveMishap
  /\ UNCHANGED <<confFile, concluded, pollVars, acknowledged, stale, changes>>
-----------------------------------------------------------------------------
(* status: the active event it loaded has concluded. *)
PollReads ==
  /\ pollAt = "idle" /\ confFile["active"] \in concluded
  /\ pollAt' = "load" /\ pollSaw' = confFile["active"]
  /\ UNCHANGED <<confFile, concluded, clerkVars, pollCopy, acknowledged, stale, changes,
                 saveMishaps>>

(* set_active_event(None) loads the file once more ... *)
PollLoads ==
  /\ pollAt = "load" /\ pollAt' = "save" /\ pollCopy' = confFile
  /\ UNCHANGED <<confFile, concluded, clerkVars, pollSaw, acknowledged, stale, changes,
                 saveMishaps>>

(* Mutated form: what was loaded is saved as it was. *)
PollSavesCopy ==
  /\ pollAt = "save" /\ PollRests
  /\ confFile' = pollCopy /\ stale' = (stale \/ pollCopy # confFile)
  /\ UNCHANGED <<concluded, clerkVars, acknowledged, changes, saveMishaps>>

(* ... and clears whatever event is active by now. *)
PollSaves ==
  /\ pollAt = "save" /\ PollRests
  /\ confFile' = [pollCopy EXCEPT !["active"] = NoEvent]
  /\ acknowledged' = IF acknowledged["active"] = pollSaw
                       THEN [acknowledged EXCEPT !["active"] = NoEvent] ELSE acknowledged
  /\ stale' = (stale \/ pollCopy # confFile \/ pollCopy["active"] # pollSaw)
  /\ UNCHANGED <<concluded, clerkVars, changes, saveMishaps>>

PollSaveFails ==
  /\ pollAt = "save" /\ PollRests /\ SaveMishap
  /\ UNCHANGED <<confFile, concluded, clerkVars, acknowledged, stale, changes>>
-----------------------------------------------------------------------------
(* An event's end time passes, or the operator edits it. *)
Conclude(e) ==
  /\ e \notin concluded /\ concluded' = concluded \cup {e}
  /\ UNCHANGED <<confFile, clerkVars, pollVars, acknowledged, stale, changes, saveMishaps>>

Extend(e) ==
  /\ e \in concluded /\ concluded' = concluded \ {e}
  /\ changes < MaxChanges /\ changes' = changes + 1
  /\ UNCHANGED <<confFile, clerkVars, pollVars, acknowledged, stale, saveMishaps>>

ConfigCut ==
  /\ SaveMishap
  /\ clerkAt' = [c \in Clerks |-> "idle"]
  /\ clerkField' = [c \in Clerks |-> "active"]
  /\ clerkValue' = [c \in Clerks |-> NoEvent]
  /\ clerkCopy' = [c \in Clerks |-> AppConfig]
  /\ PollRests
  /\ UNCHANGED <<confFile, concluded, acknowledged, stale, changes>>

PollStep     == PollReads \/ PollLoads \/ PollSaves \/ PollSaveFails
ClerkStep(c) == ClerkLoads(c) \/ ClerkSaves(c) \/ ClerkSaveFails(c)

ConfigNext ==
  \/ \E c \in Clerks :
       \/ \E f \in Fields : \E v \in Values(f) : ClerkAsks(c, f, v)
       \/ ClerkStep(c)
  \/ PollStep
  \/ \E e \in PartyEvents : Conclude(e) \/ Extend(e)
  \/ ConfigCut

(* The admin screen polls as long as it is open, and requests are served. *)
ConfigFairness == WF_configVars(PollStep) /\ \A c \in Clerks : WF_configVars(ClerkStep(c))

ConfigSpec == ConfigInit /\ [][ConfigNext]_configVars /\ ConfigFairness
-----------------------------------------------------------------------------
(* config.json holds every acknowledged change, each field as the last     *)
(* answered request left it, unless some save replaced a version it was    *)
(* not based on: two requests overlapped, or status cleared an activation  *)
(* made after it looked (routes.py:136).  A failing write or a power cut   *)
(* alone loses nothing that was acknowledged.                              *)
ChangesKept == confFile # acknowledged => stale

(* A concluded event does not stay active while the admin screen polls the *)
(* status, whatever stale saves and failing writes come between.           *)
ConcludedExpires ==
  \A e \in PartyEvents :
    (confFile["active"] = e /\ e \in concluded)
      ~> (confFile["active"] # e \/ e \notin concluded)
=============================================================================
