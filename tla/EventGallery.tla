---------------------------- MODULE EventGallery ----------------------------
(***************************************************************************)
(* The private gallery of one event: the share link the booth keeps, the   *)
(* gallery page and archive in the bucket, the archive on /data, and the   *)
(* count of finished strips, under overlapping requests to finalize a      *)
(* session, create, renew or disable the link, clear the photos or delete  *)
(* the event.  A request occupies a thread of the engine (a caller here)   *)
(* from its begin step on; each later step is one access to state another  *)
(* thread or a power cut can see.                                          *)
(*                                                                         *)
(* The operator's second request can overtake the first: the kiosk gives   *)
(* up on a share request after two minutes (web/js/api.js:58) and lets the *)
(* operator try again while the engine still works on it.                  *)
(*                                                                         *)
(* Left out: the manifest object, the expiry of signed URLs after a week,  *)
(* and the strips in the bucket (module GuestDelivery).                    *)
(***************************************************************************)
EXTENDS FiniteSets, Naturals

CONSTANTS
  Strips,          \* sessions of the event, each with at most one strip
  MaxLinks,        \* bound: share tokens made, numbered in the order they are made
  Callers,         \* engine threads serving the requests
  NoStrip,         \* a caller that finalizes nothing
  MaxMishaps       \* bound: failing R2 calls and power cuts

ASSUME GalleryAssumption ==
  NoStrip \notin Strips /\ MaxLinks \in Nat /\ MaxMishaps \in Nat

VARIABLES
  eventLive,   \* the row of the event is there
  link,        \* its share_token (share_url is set and unset with it)
  photoCount,  \* its photo_count
  rows,        \* sessions with a row
  stripFile,   \* what each session's directory holds
  archive,     \* strips in /data/events/<id>/download-all.zip
  bucketArchive, pages,  \* the archive and the gallery pages in the bucket
  erasures,    \* tombstones of the event in r2_deletions
  erasing,     \* the tombstone whose objects are gone but which is not discharged
  at, old, new, job,     \* each caller's step, previous and new token, session
  (* history *)
  made,        \* the number of tokens made
  shown,       \* links ever handed to the operator
  overlap,     \* an operator's request began while another was served
  severed,     \* links whose page went although the request failed
  skewed,      \* a clear, delete or cut came between a strip and its count
  mishaps

bucketVars  == <<bucketArchive, pages>>
callerVars  == <<at, old, new, job>>
localVars   == <<eventLive, link, photoCount, rows, stripFile, archive>>
sweepVars   == <<erasures, erasing>>
noteVars    == <<shown, overlap, severed, skewed>>
galleryVars == <<localVars, bucketVars, sweepVars, callerVars, noteVars,
                 made, mishaps>>

Links  == 1..MaxLinks
NoLink == 0            \* share_token IS NULL
-----------------------------------------------------------------------------
FinalizeSteps == {"compose", "count"}
PublishSteps  == {"archive", "zip", "page", "revoke", "record"}
DisableSteps  == {"remove", "unset"}
Steps == {"idle", "wipe", "raze"} \cup FinalizeSteps \cup PublishSteps \cup DisableSteps

Intact == {s \in Strips : stripFile[s] = "strip"}
Operating == {c \in Callers : at[c] \notin FinalizeSteps \cup {"idle"}}
Quiet == \A c \in Callers : at[c] = "idle"

GalleryTypeOK ==
  /\ eventLive \in BOOLEAN /\ link \in Links \cup {NoLink}
  /\ photoCount \in Nat /\ rows \in SUBSET Strips
  /\ stripFile \in [Strips -> {"none", "photos", "strip", "torn"}]
  /\ archive \in SUBSET Strips /\ bucketArchive \in SUBSET Strips
  /\ pages \in SUBSET Links /\ erasures \in SUBSET {"content", "event"}
  /\ erasing \in {"none", "content", "event"}
  /\ at \in [Callers -> Steps]
  /\ old \in [Callers -> Links \cup {NoLink}] /\ new \in [Callers -> Links \cup {NoLink}]
  /\ job \in [Callers -> Strips \cup {NoStrip}]
  /\ shown \in SUBSET Links /\ severed \in SUBSET Links
  /\ overlap \in BOOLEAN /\ skewed \in BOOLEAN
  /\ made \in 0..MaxLinks
  /\ mishaps \in 0..MaxMishaps

GalleryInit ==
  /\ eventLive = TRUE /\ link = NoLink /\ photoCount = 0 /\ rows = {}
  /\ stripFile = [s \in Strips |-> "none"]
  /\ archive = {} /\ bucketArchive = {} /\ pages = {}
  /\ erasures = {} /\ erasing = "none"
  /\ at = [c \in Callers |-> "idle"]
  /\ old = [c \in Callers |-> NoLink] /\ new = [c \in Callers |-> NoLink]
  /\ job = [c \in Callers |-> NoStrip]
  /\ shown = {} /\ overlap = FALSE /\ severed = {} /\ skewed = FALSE
  /\ made = 0 /\ mishaps = 0

Goto(c, step) == at' = [at EXCEPT ![c] = step]

(* The request of caller c is answered. *)
Answer(c) ==
  /\ Goto(c, "idle")
  /\ old' = [old EXCEPT ![c] = NoLink]
  /\ new' = [new EXCEPT ![c] = NoLink]
  /\ job' = [job EXCEPT ![c] = NoStrip]

(* The operator sends a request, perhaps before the last one is answered. *)
Enter(c, step) ==
  /\ at[c] = "idle" /\ Goto(c, step)
  /\ overlap' = (overlap \/ Operating # {})

Mishap == mishaps < MaxMishaps /\ mishaps' = mishaps + 1

BoundsSame == UNCHANGED <<made, mishaps>>
-----------------------------------------------------------------------------
(* start_session and the guest's three photos; a new id is one that       *)
(* nothing refers to.                                                     *)
StartSession(s) ==
  /\ eventLive /\ s \notin rows \cup archive \cup bucketArchive /\ stripFile[s] = "none"
  /\ \A c \in Callers : job[c] # s
  /\ rows' = rows \cup {s}
  /\ stripFile' = [stripFile EXCEPT ![s] = "photos"]
  /\ UNCHANGED <<eventLive, link, photoCount, archive, bucketVars, sweepVars, callerVars,
                 noteVars>> /\ BoundsSame

(* Mutated form: finalize_lock is not taken. *)
FinalizeBeginUnlocked(c, s) ==
  /\ at[c] = "idle" /\ eventLive /\ s \in rows /\ stripFile[s] \in {"photos", "torn"}
  /\ Goto(c, "compose") /\ job' = [job EXCEPT ![c] = s]
  /\ UNCHANGED <<localVars, bucketVars, sweepVars, old, new, noteVars>> /\ BoundsSame

(* finalize_session, up to compose_strip.  One at a time: the others wait *)
(* for finalize_lock.  With an intact strip there is nothing to count.    *)
FinalizeBegin(c, s) ==
  /\ \A d \in Callers : at[d] \notin FinalizeSteps
  /\ at[c] = "idle" /\ eventLive /\ s \in rows /\ stripFile[s] \in {"photos", "torn"}
  /\ Goto(c, "compose") /\ job' = [job EXCEPT ![c] = s]
  /\ UNCHANGED <<localVars, bucketVars, sweepVars, old, new, noteVars>> /\ BoundsSame

(* The strip is written, in a directory made anew if it was removed. *)
FinalizeCompose(c) ==
  /\ at[c] = "compose" /\ Goto(c, "count")
  /\ stripFile' = [stripFile EXCEPT ![job[c]] = "strip"]
  /\ UNCHANGED <<eventLive, link, photoCount, rows, archive, bucketVars, sweepVars, old,
                 new, job, noteVars>> /\ BoundsSame

(* increment_event_photo_count: UPDATE, without effect on a deleted event. *)
FinalizeCount(c) ==
  /\ at[c] = "count" /\ Answer(c)
  /\ photoCount' = IF eventLive THEN photoCount + 1 ELSE photoCount
  /\ UNCHANGED <<eventLive, link, rows, stripFile, archive, bucketVars, sweepVars,
                 noteVars>> /\ BoundsSame
-----------------------------------------------------------------------------
(* Mutated form: renewing does not name the token it replaces. *)
PublishBeginForgets(c, renew) ==
  /\ eventLive /\ (link # NoLink => renew)
  /\ Enter(c, "archive") /\ UNCHANGED old
  /\ UNCHANGED <<localVars, bucketVars, sweepVars, new, job, shown, severed, skewed>>
  /\ BoundsSame

(* create_event_share (renew FALSE; an existing link is simply returned)  *)
(* and regenerate_event_share read the event.                             *)
PublishBegin(c, renew) ==
  /\ eventLive /\ (link # NoLink => renew)
  /\ Enter(c, "archive")
  /\ old' = [old EXCEPT ![c] = IF renew THEN link ELSE NoLink]
  /\ UNCHANGED <<localVars, bucketVars, sweepVars, new, job, shown, severed, skewed>>
  /\ BoundsSame

(* _event_archive zips the intact strips of the sessions, or the request  *)
(* fails: the event is gone, or there is no strip.                        *)
PublishArchive(c) ==
  /\ at[c] = "archive"
  /\ IF eventLive /\ rows \cap Intact # {}
       THEN archive' = rows \cap Intact /\ Goto(c, "zip") /\ UNCHANGED <<old, new, job>>
       ELSE Answer(c) /\ UNCHANGED archive
  /\ UNCHANGED <<eventLive, link, photoCount, rows, stripFile, bucketVars, sweepVars,
                 noteVars>> /\ BoundsSame

(* publish_event: a new token, and the archive under the event's one key. *)
(* If a deletion removed the file meanwhile, the upload fails.            *)
PublishZip(c) ==
  /\ at[c] = "zip"
  /\ \/ /\ archive # {} /\ bucketArchive' = archive /\ Goto(c, "page")
        /\ made < MaxLinks /\ made' = made + 1
        /\ new' = [new EXCEPT ![c] = made'] /\ UNCHANGED <<old, job>>
     \/ archive = {} /\ Answer(c) /\ UNCHANGED <<bucketArchive, made>>
  /\ UNCHANGED <<localVars, pages, sweepVars, noteVars, mishaps>>

PublishPage(c) ==
  /\ at[c] = "page"
  /\ pages' = pages \cup {new[c]}
  /\ Goto(c, IF old[c] = NoLink THEN "record" ELSE "revoke")
  /\ UNCHANGED <<localVars, bucketArchive, sweepVars, old, new, job, noteVars>> /\ BoundsSame

(* publish_event deletes the page of the token it replaces. *)
PublishRevoke(c) ==
  /\ at[c] = "revoke" /\ Goto(c, "record")
  /\ pages' = pages \ {old[c]}
  /\ UNCHANGED <<localVars, bucketArchive, sweepVars, old, new, job, noteVars>> /\ BoundsSame

(* set_event_share, and the answer shows the link. *)
PublishRecord(c) ==
  /\ at[c] = "record" /\ Answer(c)
  /\ link' = IF eventLive THEN new[c] ELSE link
  /\ shown' = shown \cup {new[c]}
  /\ UNCHANGED <<eventLive, photoCount, rows, stripFile, archive, bucketVars, sweepVars,
                 overlap, severed, skewed>> /\ BoundsSame
-----------------------------------------------------------------------------
(* disable_event_share *)
DisableBegin(c) ==
  /\ eventLive
  /\ Enter(c, IF link = NoLink THEN "unset" ELSE "remove")
  /\ old' = [old EXCEPT ![c] = link]
  /\ UNCHANGED <<localVars, bucketVars, sweepVars, new, job, shown, severed, skewed>>
  /\ BoundsSame

DisableRemove(c) ==
  /\ at[c] = "remove" /\ Goto(c, "unset")
  /\ pages' = pages \ {old[c]}
  /\ UNCHANGED <<localVars, bucketArchive, sweepVars, old, new, job, noteVars>> /\ BoundsSame

(* Mutated form: the page is gone and the link stays in the row. *)
DisableUnsetForgets(c) ==
  /\ at[c] = "unset" /\ Answer(c)
  /\ UNCHANGED <<localVars, bucketVars, sweepVars, noteVars>> /\ BoundsSame

DisableUnset(c) ==
  /\ at[c] = "unset" /\ Answer(c)
  /\ link' = NoLink
  /\ UNCHANGED <<eventLive, photoCount, rows, stripFile, archive, bucketVars, sweepVars,
                 noteVars>> /\ BoundsSame

(* An R2 call raises, with or without having taken effect: 502, and the   *)
(* row stays as it was.                                                   *)
CallFails(c) ==
  /\ Mishap
  /\ \/ /\ at[c] = "zip"
        /\ bucketArchive' \in {bucketArchive, archive} /\ UNCHANGED <<pages, severed>>
     \/ /\ at[c] = "page"
        /\ pages' \in {pages, pages \cup {new[c]}} /\ UNCHANGED <<bucketArchive, severed>>
     \/ /\ at[c] \in {"revoke", "remove"}
        /\ pages' \in {pages, pages \ {old[c]}}
        /\ severed' = severed \cup {old[c]} /\ UNCHANGED bucketArchive
  /\ Answer(c)
  /\ UNCHANGED <<localVars, sweepVars, shown, overlap, skewed, made>>
-----------------------------------------------------------------------------
Finalizing == {c \in Callers : at[c] \in FinalizeSteps}

(* clear_event_photos: its transaction, then the files. *)
ClearCommit(c) ==
  /\ eventLive /\ Enter(c, "wipe")
  /\ rows' = {} /\ photoCount' = 0
  /\ erasures' = erasures \cup {"content"}
  /\ skewed' = (skewed \/ Finalizing # {})
  /\ UNCHANGED <<eventLive, link, stripFile, archive, bucketVars, erasing, old, new, job,
                 shown, severed>> /\ BoundsSame

(* The whole sessions directory goes, also what was started meanwhile. *)
ClearWipe(c) ==
  /\ at[c] = "wipe" /\ Answer(c)
  /\ stripFile' = [s \in Strips |-> "none"]
  /\ skewed' = (skewed \/ rows # {} \/ Finalizing # {})
  /\ UNCHANGED <<eventLive, link, photoCount, rows, archive, bucketVars, sweepVars, shown,
                 overlap, severed>> /\ BoundsSame

(* Mutated form: only an event with sessions is marked for deletion. *)
DeleteCommitIfSessions(c) ==
  /\ eventLive /\ Enter(c, "raze")
  /\ eventLive' = FALSE /\ link' = NoLink /\ rows' = {} /\ photoCount' = 0
  /\ erasures' = IF rows = {} THEN erasures ELSE erasures \cup {"event"}
  /\ UNCHANGED <<stripFile, archive, bucketVars, erasing, old, new, job, shown, severed,
                 skewed>> /\ BoundsSame

(* delete_event: its transaction, then the event's directory. *)
DeleteCommit(c) ==
  /\ eventLive /\ Enter(c, "raze")
  /\ eventLive' = FALSE /\ link' = NoLink /\ rows' = {} /\ photoCount' = 0
  /\ erasures' = erasures \cup {"event"}
  /\ UNCHANGED <<stripFile, archive, bucketVars, erasing, old, new, job, shown, severed,
                 skewed>> /\ BoundsSame

DeleteRaze(c) ==
  /\ at[c] = "raze" /\ Answer(c)
  /\ stripFile' = [s \in Strips |-> "none"] /\ archive' = {}
  /\ UNCHANGED <<eventLive, link, photoCount, rows, bucketVars, sweepVars, noteVars>>
  /\ BoundsSame

(* delete_target for a tombstone: the event's archive, or all of it. *)
EraseObjects(t) ==
  /\ erasing = "none" /\ t \in erasures /\ erasing' = t
  /\ bucketArchive' = {}
  /\ pages' = IF t = "event" THEN {} ELSE pages
  /\ UNCHANGED <<localVars, erasures, callerVars, noteVars>> /\ BoundsSame

(* complete_r2_deletion, or the call raised after all. *)
EraseDone ==
  /\ erasing # "none" /\ erasing' = "none"
  /\ \/ erasures' = erasures \ {erasing} /\ UNCHANGED mishaps
     \/ /\ Mishap
        /\ UNCHANGED erasures
  /\ UNCHANGED <<localVars, bucketVars, callerVars, noteVars, made>>

(* A power cut, and the boot with sweep_orphan_dirs.  A strip that was    *)
(* just written may come back torn.                                       *)
GalleryCut ==
  /\ Mishap
  /\ \E torn \in SUBSET (Intact \cap rows) :
       /\ stripFile' = [s \in Strips |-> IF s \notin rows THEN "none"
                                         ELSE IF s \in torn THEN "torn" ELSE stripFile[s]]
       /\ skewed' = (skewed \/ torn # {} \/ \E c \in Callers : at[c] = "count")
  /\ archive' = IF eventLive THEN archive ELSE {}
  /\ severed' = severed \cup {l \in Links : \E c \in Callers :
                                old[c] = l /\ at[c] \in {"record", "unset"}}
  /\ at' = [c \in Callers |-> "idle"]
  /\ old' = [c \in Callers |-> NoLink] /\ new' = [c \in Callers |-> NoLink]
  /\ job' = [c \in Callers |-> NoStrip]
  /\ erasing' = "none"
  /\ UNCHANGED <<eventLive, link, photoCount, rows, bucketVars, erasures, shown, overlap,
                 made>>
-----------------------------------------------------------------------------
GalleryNext ==
  \/ \E s \in Strips : StartSession(s)
  \/ \E c \in Callers :
       \/ \E s \in Strips : FinalizeBegin(c, s)
       \/ FinalizeCompose(c) \/ FinalizeCount(c)
       \/ \E renew \in BOOLEAN : PublishBegin(c, renew)
       \/ PublishArchive(c) \/ PublishZip(c) \/ PublishPage(c) \/ PublishRevoke(c)
       \/ PublishRecord(c)
       \/ DisableBegin(c) \/ DisableRemove(c) \/ DisableUnset(c) \/ CallFails(c)
       \/ ClearCommit(c) \/ ClearWipe(c) \/ DeleteCommit(c) \/ DeleteRaze(c)
  \/ \E t \in {"content", "event"} : EraseObjects(t)
  \/ EraseDone \/ GalleryCut

GallerySpec == GalleryInit /\ [][GalleryNext]_galleryVars
-----------------------------------------------------------------------------
(* The link on the event screen opens a page, however requests overlapped *)
(* and wherever the power was cut, unless a failed or cut request to      *)
(* renew or disable that very link took its page away (routes.py:519).    *)
LinkOpens == Quiet => link \in pages \cup severed \cup {NoLink}

(* A link that was handed out and is no longer the event's is dead once   *)
(* the requests are answered and the tombstones discharged, in spite of   *)
(* failed calls and power cuts, as long as the operator waits for each    *)
(* answer (r2.py:98; two requests at once both keep their page).          *)
RevokedLinksDie == Quiet /\ erasures = {} /\ ~overlap => shown \cap pages \subseteq {link}

(* A deleted event has no page and no archive in the bucket once its      *)
(* tombstone is discharged, not even what a failed or cut publish left.   *)
DeletedEventOffline ==
  Quiet /\ ~eventLive /\ erasures = {} /\ ~overlap => pages = {} /\ bucketArchive = {}

(* photo_count is the number of finished strips, one being counted aside: *)
(* a double tap counts nothing twice (routes.py:748), and only a clear, a *)
(* delete or a power cut between strip and count makes it wrong.          *)
CountMatches ==
  eventLive /\ ~skewed =>
    photoCount + Cardinality({c \in Callers : at[c] = "count"}) = Cardinality(rows \cap Intact)
-----------------------------------------------------------------------------
(* What the booth tells the operator and the model refutes: after a clear *)
(* "Local copies and cloud uploads will be deleted. This cannot be        *)
(* undone." (web/js/screens/editor.js:238)                                *)
ClearedLeavesNoCopy == Quiet => archive \subseteq rows
=============================================================================
