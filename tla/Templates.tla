------------------------------ MODULE Templates -----------------------------
(***************************************************************************)
(* Custom strip templates on /data/templates: installing one from Template *)
(* Studio, archiving, restoring and deleting it, against the requests that *)
(* create and edit events referring to it.  Creating or editing an event   *)
(* first loads the template and then writes the row; deleting a template   *)
(* first counts the events that use it and then removes its directory.     *)
(* Nothing spans the two steps of either.                                  *)
(*                                                                         *)
(* An installation is written in a hidden directory and renamed into place *)
(* when it is complete; the hidden directory is listed and loaded like any *)
(* other once template.json is in it.  Built-in templates, which cannot be *)
(* changed, and the contents of a template are left out.                   *)
(***************************************************************************)
EXTENDS Naturals, FiniteSets

CONSTANTS
  Custom,            \* ids of custom templates
  Hidden,            \* the id of the directory an installation is written in
  Parties,           \* ids of events
  NoTemplate,
  Desks,             \* engine threads serving requests
  MaxTemplateCuts    \* bound: power cuts

ASSUME TemplateAssumption ==
  /\ Hidden \in Custom /\ NoTemplate \notin Custom /\ Parties # {}
  /\ MaxTemplateCuts \in Nat

VARIABLES
  folder,        \* the directory of each id
  templateOf,    \* events.template_id, NoTemplate without a row
  installing,    \* how far install_template is
  deskAt, deskTemplate, deskParty, deskKind,   \* each request's step and subject
  crossed,       \* history: requests about one template overlapped
  templateCuts

deskVars     == <<deskAt, deskTemplate, deskParty, deskKind>>
templateVars == <<folder, templateOf, installing, deskVars, crossed, templateCuts>>
-----------------------------------------------------------------------------
TemplatesTypeOK ==
  /\ folder \in [Custom -> {"absent", "bare", "shown", "archived"}]
  /\ templateOf \in [Parties -> Custom \cup {NoTemplate}]
  /\ installing \in {"no", "assets", "complete"}
  /\ deskAt \in [Desks -> {"idle", "write", "remove"}]
  /\ deskTemplate \in [Desks -> Custom \cup {NoTemplate}]
  /\ deskParty \in [Desks -> Parties] /\ deskKind \in [Desks -> {"create", "update"}]
  /\ \A d \in Desks : deskAt[d] # "idle" => deskTemplate[d] \in Custom
  /\ crossed \in BOOLEAN /\ templateCuts \in 0..MaxTemplateCuts

FirstParty == CHOOSE p \in Parties : TRUE

TemplatesInit ==
  /\ folder = [t \in Custom |-> "absent"]
  /\ templateOf = [p \in Parties |-> NoTemplate]
  /\ installing = "no"
  /\ deskAt = [d \in Desks |-> "idle"]
  /\ deskTemplate = [d \in Desks |-> NoTemplate]
  /\ deskParty = [d \in Desks |-> FirstParty] /\ deskKind = [d \in Desks |-> "create"]
  /\ crossed = FALSE /\ templateCuts = 0

(* load succeeds: the directory holds template.json. *)
Loads(t) == folder[t] \in {"shown", "archived"}

Pending(t, step) == \E d \in Desks : deskAt[d] = step /\ deskTemplate[d] = t
Uses(t) == {p \in Parties : templateOf[p] = t}     \* template_event_count

DeskRests(d) ==
  /\ deskAt' = [deskAt EXCEPT ![d] = "idle"]
  /\ deskTemplate' = [deskTemplate EXCEPT ![d] = NoTemplate]
  /\ deskParty' = [deskParty EXCEPT ![d] = FirstParty]
  /\ deskKind' = [deskKind EXCEPT ![d] = "create"]

SetFolder(t, content) == folder' = [folder EXCEPT ![t] = content]
-----------------------------------------------------------------------------
(* install_template: a fresh directory, then template.json in it. *)
InstallBegin ==
  /\ installing = "no" /\ folder[Hidden] = "absent"
  /\ installing' = "assets" /\ SetFolder(Hidden, "bare")
  /\ UNCHANGED <<templateOf, deskVars, crossed, templateCuts>>

InstallWrite ==
  /\ installing = "assets" /\ installing' = "complete" /\ SetFolder(Hidden, "shown")
  /\ UNCHANGED <<templateOf, deskVars, crossed, templateCuts>>

(* os.replace takes the directory as it is by now. *)
InstallRename(t) ==
  /\ installing = "complete" /\ Loads(Hidden)
  /\ t # Hidden /\ folder[t] = "absent" /\ Uses(t) = {} /\ ~Pending(t, "write")
  /\ installing' = "no"
  /\ folder' = [folder EXCEPT ![t] = folder[Hidden], ![Hidden] = "absent"]
  /\ UNCHANGED <<templateOf, deskVars, crossed, templateCuts>>

(* A bad package, a failing font download or a vanished directory. *)
InstallFails ==
  /\ installing # "no" /\ installing' = "no" /\ SetFolder(Hidden, "absent")
  /\ crossed' = (crossed \/ Uses(Hidden) # {} \/ Pending(Hidden, "write"))
  /\ UNCHANGED <<templateOf, deskVars, templateCuts>>

Archive(t) ==
  /\ folder[t] = "shown" /\ SetFolder(t, "archived")
  /\ UNCHANGED <<templateOf, installing, deskVars, crossed, templateCuts>>

Restore(t) ==
  /\ folder[t] = "archived" /\ SetFolder(t, "shown")
  /\ UNCHANGED <<templateOf, installing, deskVars, crossed, templateCuts>>
-----------------------------------------------------------------------------
(* create_event and update_event look the template up, archived or not ... *)
EventLoads(d, p, t) ==
  /\ deskAt[d] = "idle" /\ Loads(t)
  /\ \A c \in Desks : deskAt[c] = "write" /\ deskKind[c] = "create" => deskParty[c] # p
  /\ deskAt' = [deskAt EXCEPT ![d] = "write"]
  /\ deskTemplate' = [deskTemplate EXCEPT ![d] = t]
  /\ deskParty' = [deskParty EXCEPT ![d] = p]
  /\ deskKind' = [deskKind EXCEPT ![d] =
                    IF templateOf[p] = NoTemplate THEN "create" ELSE "update"]
  /\ crossed' = (crossed \/ Pending(t, "remove") \/ (t = Hidden /\ installing # "no"))
  /\ UNCHANGED <<folder, templateOf, installing, templateCuts>>

(* ... and write the row.  An event deleted meanwhile is not updated. *)
EventWrites(d) ==
  /\ deskAt[d] = "write" /\ DeskRests(d)
  /\ templateOf' = IF deskKind[d] = "update" /\ templateOf[deskParty[d]] = NoTemplate
                     THEN templateOf
                     ELSE [templateOf EXCEPT ![deskParty[d]] = deskTemplate[d]]
  /\ UNCHANGED <<folder, installing, crossed, templateCuts>>

DropEvent(p) ==
  /\ templateOf[p] # NoTemplate /\ templateOf' = [templateOf EXCEPT ![p] = NoTemplate]
  /\ UNCHANGED <<folder, installing, deskVars, crossed, templateCuts>>

(* Mutated form: the events are not counted. *)
DeleteChecksUncounted(d, t) ==
  /\ deskAt[d] = "idle" /\ folder[t] = "archived"
  /\ deskAt' = [deskAt EXCEPT ![d] = "remove"]
  /\ deskTemplate' = [deskTemplate EXCEPT ![d] = t]
  /\ crossed' = (crossed \/ Pending(t, "write"))
  /\ UNCHANGED <<folder, templateOf, installing, deskParty, deskKind, templateCuts>>

(* delete_template: archived, and used by no event ... *)
DeleteChecks(d, t) ==
  /\ deskAt[d] = "idle" /\ folder[t] = "archived" /\ Uses(t) = {}
  /\ deskAt' = [deskAt EXCEPT ![d] = "remove"]
  /\ deskTemplate' = [deskTemplate EXCEPT ![d] = t]
  /\ crossed' = (crossed \/ Pending(t, "write"))
  /\ UNCHANGED <<folder, templateOf, installing, deskParty, deskKind, templateCuts>>

(* ... and remove, which only looks once more whether it is archived. *)
DeleteRemoves(d) ==
  /\ deskAt[d] = "remove" /\ DeskRests(d)
  /\ IF folder[deskTemplate[d]] = "archived"
       THEN SetFolder(deskTemplate[d], "absent") ELSE UNCHANGED folder
  /\ UNCHANGED <<templateOf, installing, crossed, templateCuts>>

(* A power cut in the middle of rmtree leaves what it had not reached:    *)
(* with the marker gone first, the template is back in the list.          *)
TemplatesCut ==
  /\ templateCuts < MaxTemplateCuts /\ templateCuts' = templateCuts + 1
  /\ \E f \in [Custom -> {"absent", "bare", "shown", "archived"}] :
       /\ \A t \in Custom : f[t] # folder[t] => folder[t] = "archived" /\ Pending(t, "remove")
       /\ folder' = f
  /\ installing' = "no"
  /\ deskAt' = [d \in Desks |-> "idle"] /\ deskTemplate' = [d \in Desks |-> NoTemplate]
  /\ deskParty' = [d \in Desks |-> FirstParty] /\ deskKind' = [d \in Desks |-> "create"]
  /\ UNCHANGED <<templateOf, crossed>>

TemplatesNext ==
  \/ InstallBegin \/ InstallWrite \/ InstallFails \/ TemplatesCut
  \/ \E t \in Custom : InstallRename(t) \/ Archive(t) \/ Restore(t)
  \/ \E d \in Desks, t \in Custom : DeleteChecks(d, t) \/ \E p \in Parties : EventLoads(d, p, t)
  \/ \E d \in Desks : EventWrites(d) \/ DeleteRemoves(d)
  \/ \E p \in Parties : DropEvent(p)

TemplatesSpec == TemplatesInit /\ [][TemplatesNext]_templateVars
-----------------------------------------------------------------------------
(* The template of every event loads, or the guests' strips could not be  *)
(* composed: a template goes only when archived and unused, a half        *)
(* removed one that a power cut brought back still loads, and only a      *)
(* request that looked the template up before another one about it was    *)
(* done can break that (routes.py:629; crossed).                          *)
EventTemplateThere ==
  ~crossed => \A p \in Parties : templateOf[p] # NoTemplate => Loads(templateOf[p])
=============================================================================
