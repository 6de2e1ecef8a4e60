------------------------ MODULE EventGallery_proofs -------------------------
(***************************************************************************)
(* Theorems about the gallery of an event, for any number of requests,     *)
(* tokens, strips, failing calls and power cuts.                           *)
(***************************************************************************)
EXTENDS EventGallery, TLAPS, FiniteSetTheorems

PublishedSteps == {"page", "revoke", "record"}   \* the token is made
PageSteps      == {"revoke", "record"}           \* ... and its page put up
LinkSteps      == PublishSteps \cup DisableSteps

(* Each request makes a token that nobody else knows before it is recorded.*)
Tokens ==
  /\ link <= made /\ shown \subseteq 1..made
  /\ \A c \in Callers : old[c] <= made
  /\ \A c \in Callers : at[c] \in PublishedSteps =>
       /\ new[c] \in 1..made /\ new[c] # link /\ new[c] \notin shown
       /\ \A d \in Callers : old[d] # new[c]
       /\ \A d \in Callers : at[d] \in PublishedSteps /\ new[d] = new[c] => d = c
  /\ \A c \in Callers : at[c] \in {"revoke", "remove"} => old[c] # NoLink

(* A deleted event has no link, and only a deleted one is erased. *)
Deleted ==
  /\ ~eventLive => link = NoLink
  /\ erasing # "none" => erasing \in erasures
  /\ "event" \in erasures => ~eventLive
  /\ \A c \in Callers : at[c] = "raze" => ~eventLive

(* The page of the event's link is up unless a request that took it away   *)
(* failed, or is about to store that.                                      *)
Opening ==
  /\ eventLive => \A c \in Callers : at[c] \in PageSteps => new[c] \in pages
  /\ \/ link \in pages \cup severed \cup {NoLink}
     \/ \E c \in Callers : at[c] \in {"record", "unset"} /\ old[c] = link

(* Without overlap there is one request at a time, about a link that stays *)
(* the event's while it is served, and no page but that link's was shown.  *)
OneRequest ==
  /\ \A c, d \in Operating : c = d
  /\ \A c \in Callers : at[c] \in LinkSteps => eventLive /\ old[c] = link
  /\ \A c \in Callers : at[c] \in {"record", "unset"} => link \notin pages

Cleaned ==
  /\ shown \cap pages \subseteq {link} \/ "event" \in erasures
  /\ ~eventLive => "event" \in erasures \/ (pages = {} /\ bucketArchive = {})
  /\ erasing = "event" => pages = {} /\ bucketArchive = {}

(* One strip at a time is composed and counted. *)
Counters == {c \in Callers : at[c] = "count"}
Finished == rows \cap Intact

Counting ==
  /\ \A c, d \in Finalizing : c = d
  /\ IsFiniteSet(rows)
  /\ eventLive /\ ~skewed =>
       /\ \A c \in Callers : at[c] = "compose" =>
            job[c] \in rows /\ stripFile[job[c]] \in {"photos", "torn"}
       /\ photoCount + Cardinality(Counters) = Cardinality(Finished)

GalleryFacts ==
  /\ GalleryTypeOK /\ Tokens /\ Deleted /\ Opening /\ Counting
  /\ ~overlap => OneRequest /\ Cleaned
-----------------------------------------------------------------------------
(* Every step keeps the domains. *)
LEMMA GalleryTypes == GalleryTypeOK /\ Tokens /\ [GalleryNext]_galleryVars => GalleryTypeOK'
<1> SUFFICES ASSUME GalleryTypeOK /\ Tokens, [GalleryNext]_galleryVars PROVE GalleryTypeOK'
  OBVIOUS
<1>a. \A c \in Callers : /\ at[c] \in PublishedSteps => new[c] \in Links
                         /\ at[c] \in {"revoke", "remove"} => old[c] \in Links
  BY GalleryAssumption DEF Tokens, GalleryTypeOK, Links
<1> USE GalleryAssumption
    DEF GalleryTypeOK, PublishedSteps, NoLink, Steps, FinalizeSteps, PublishSteps,
        DisableSteps, localVars, bucketVars, sweepVars, callerVars, noteVars, Goto, Answer,
        Enter, Mishap, BoundsSame
<1>1. CASE UNCHANGED galleryVars
  BY <1>1 DEF galleryVars
<1>2. ASSUME NEW s \in Strips, StartSession(s)
      PROVE  GalleryTypeOK'
  BY <1>2 DEF StartSession
<1>3. ASSUME NEW c \in Callers, NEW s \in Strips, FinalizeBegin(c, s)
      PROVE  GalleryTypeOK'
  BY <1>3 DEF FinalizeBegin
<1>4. ASSUME NEW c \in Callers, FinalizeCompose(c)
      PROVE  GalleryTypeOK'
  BY <1>4 DEF FinalizeCompose
<1>5. ASSUME NEW c \in Callers, FinalizeCount(c)
      PROVE  GalleryTypeOK'
  BY <1>5 DEF FinalizeCount
<1>6. ASSUME NEW c \in Callers, NEW renew \in BOOLEAN, PublishBegin(c, renew)
      PROVE  GalleryTypeOK'
  BY <1>6 DEF PublishBegin
<1>7. ASSUME NEW c \in Callers, PublishArchive(c)
      PROVE  GalleryTypeOK'
  BY <1>7 DEF PublishArchive
<1>8. ASSUME NEW c \in Callers, PublishZip(c)
      PROVE  GalleryTypeOK'
  <2>1. made < MaxLinks => made + 1 \in Links
    BY DEF Links
  <2> QED BY <1>8, <2>1 DEF PublishZip
<1>9. ASSUME NEW c \in Callers, PublishPage(c)
      PROVE  GalleryTypeOK'
  <2>1. pages' \in SUBSET Links
    <3>1. new[c] \in Links
      BY <1>a, <1>9 DEF PublishPage
    <3> QED BY <1>9, <3>1 DEF PublishPage
  <2>2. at' \in [Callers -> Steps]
    BY <1>9 DEF PublishPage
  <2> QED BY <1>9, <2>1, <2>2 DEF PublishPage
<1>10. ASSUME NEW c \in Callers, PublishRevoke(c)
      PROVE  GalleryTypeOK'
  BY <1>10 DEF PublishRevoke
<1>11. ASSUME NEW c \in Callers, PublishRecord(c)
      PROVE  GalleryTypeOK'
  <2>1. link' \in Links \cup {NoLink} /\ shown' \in SUBSET Links
    <3>1. new[c] \in Links
      BY <1>a, <1>11 DEF PublishRecord
    <3> QED BY <1>11, <3>1 DEF PublishRecord
  <2> QED BY <1>11, <2>1 DEF PublishRecord
<1>12. ASSUME NEW c \in Callers, DisableBegin(c)
      PROVE  GalleryTypeOK'
  BY <1>12 DEF DisableBegin
<1>13. ASSUME NEW c \in Callers, DisableRemove(c)
      PROVE  GalleryTypeOK'
  BY <1>13 DEF DisableRemove
<1>14. ASSUME NEW c \in Callers, DisableUnset(c)
      PROVE  GalleryTypeOK'
  BY <1>14 DEF DisableUnset
<1>15. ASSUME NEW c \in Callers, CallFails(c)
      PROVE  GalleryTypeOK'
  <2>1. pages' \in SUBSET Links /\ severed' \in SUBSET Links
    <3>1. CASE at[c] = "page"
      <4>1. new[c] \in Links
        BY <1>a, <3>1
      <4> QED BY <1>15, <3>1, <4>1 DEF CallFails
    <3>2. CASE at[c] \in {"revoke", "remove"}
      <4>1. old[c] \in Links
        BY <1>a, <3>2
      <4> QED BY <1>15, <3>2, <4>1 DEF CallFails
    <3> QED BY <1>15, <3>1, <3>2 DEF CallFails
  <2>2. bucketArchive' \in SUBSET Strips
    BY <1>15 DEF CallFails
  <2> QED BY <1>15, <2>1, <2>2 DEF CallFails
<1>16. ASSUME NEW c \in Callers, ClearCommit(c)
      PROVE  GalleryTypeOK'
  BY <1>16 DEF ClearCommit
<1>17. ASSUME NEW c \in Callers, ClearWipe(c)
      PROVE  GalleryTypeOK'
  BY <1>17 DEF ClearWipe
<1>18. ASSUME NEW c \in Callers, DeleteCommit(c)
      PROVE  GalleryTypeOK'
  BY <1>18 DEF DeleteCommit
<1>19. ASSUME NEW c \in Callers, DeleteRaze(c)
      PROVE  GalleryTypeOK'
  BY <1>19 DEF DeleteRaze
<1>20. ASSUME NEW t \in {"content", "event"}, EraseObjects(t)
      PROVE  GalleryTypeOK'
  BY <1>20 DEF EraseObjects
<1>21. CASE EraseDone
  <2>1. erasures' \subseteq erasures /\ mishaps' \in 0..MaxMishaps
    BY <1>21 DEF EraseDone
  <2> QED BY <1>21, <2>1 DEF EraseDone
<1>22. CASE GalleryCut
  <2>1. stripFile' \in [Strips -> {"none", "photos", "strip", "torn"}] /\ skewed' \in BOOLEAN
    BY <1>22 DEF GalleryCut
  <2>2. severed' \in SUBSET Links /\ archive' \in SUBSET Strips
    BY <1>22 DEF GalleryCut
  <2> QED BY <1>22, <2>1, <2>2 DEF GalleryCut
<1> QED BY <1>1, <1>2, <1>3, <1>4, <1>5, <1>6, <1>7, <1>8, <1>9, <1>10, <1>11, <1>12,
           <1>13, <1>14, <1>15, <1>16, <1>17, <1>18, <1>19, <1>20, <1>21, <1>22
        DEF GalleryNext

(* A new token is larger than all others. *)
LEMMA TokensKept == GalleryTypeOK /\ Tokens /\ [GalleryNext]_galleryVars => Tokens'
<1> SUFFICES ASSUME GalleryTypeOK /\ Tokens, [GalleryNext]_galleryVars PROVE Tokens'
  OBVIOUS
<1>a. GalleryTypeOK'
  BY GalleryTypes
<1> USE GalleryAssumption
    DEF GalleryTypeOK, Tokens, PublishedSteps, NoLink, Links, localVars, bucketVars,
        sweepVars, callerVars, noteVars, Goto, Answer, Enter, Mishap, BoundsSame
<1>1. CASE UNCHANGED galleryVars
  BY <1>1 DEF galleryVars
<1>2. ASSUME NEW s \in Strips, StartSession(s)
      PROVE  Tokens'
  BY <1>2 DEF StartSession
<1>3. ASSUME NEW c \in Callers, NEW s \in Strips, FinalizeBegin(c, s)
      PROVE  Tokens'
  BY <1>3 DEF FinalizeBegin
<1>4. ASSUME NEW c \in Callers, FinalizeCompose(c)
      PROVE  Tokens'
  BY <1>4 DEF FinalizeCompose
<1>5. ASSUME NEW c \in Callers, FinalizeCount(c)
      PROVE  Tokens'
  BY <1>5 DEF FinalizeCount
<1>6. ASSUME NEW c \in Callers, NEW renew \in BOOLEAN, PublishBegin(c, renew)
      PROVE  Tokens'
  BY <1>6 DEF PublishBegin
<1>7. ASSUME NEW c \in Callers, PublishArchive(c)
      PROVE  Tokens'
  BY <1>7 DEF PublishArchive
<1>8. ASSUME NEW c \in Callers, PublishZip(c)
      PROVE  Tokens'
  BY <1>8 DEF PublishZip
<1>9. ASSUME NEW c \in Callers, PublishPage(c)
      PROVE  Tokens'
  BY <1>9 DEF PublishPage
<1>10. ASSUME NEW c \in Callers, PublishRevoke(c)
      PROVE  Tokens'
  BY <1>10 DEF PublishRevoke
<1>11. ASSUME NEW c \in Callers, PublishRecord(c)
      PROVE  Tokens'
  <2>1. new[c] \in 1..made /\ made' = made
    BY <1>11 DEF PublishRecord
  <2>2. link' <= made' /\ shown' \subseteq 1..made'
    <3>1. link' \in {link, new[c]} /\ shown' = shown \cup {new[c]}
      BY <1>11 DEF PublishRecord
    <3>2. link <= made /\ new[c] <= made /\ shown \subseteq 1..made
      BY <2>1
    <3>3. shown' \subseteq 1..made
      BY <2>1, <3>1, <3>2
    <3> QED BY <2>1, <3>1, <3>2, <3>3
  <2>3. \A d \in Callers : /\ old'[d] <= made'
                           /\ at'[d] \in {"revoke", "remove"} => old'[d] # NoLink
    BY <1>11 DEF PublishRecord
  <2>4. \A d \in Callers : d # c => at'[d] = at[d] /\ new'[d] = new[d]
    BY <1>11 DEF PublishRecord
  <2>5. ASSUME NEW d \in Callers, at'[d] \in PublishedSteps
        PROVE  /\ d # c /\ new'[d] \in 1..made' /\ new'[d] # link' /\ new'[d] \notin shown'
               /\ \A e \in Callers : old'[e] # new'[d]
               /\ \A e \in Callers : at'[e] \in PublishedSteps /\ new'[e] = new'[d] => e = d
    <3>1. d # c
      BY <1>11, <2>5 DEF PublishRecord
    <3>2. new[d] \in 1..made /\ new[d] # link /\ new[d] \notin shown /\ new[d] # new[c]
      BY <1>11, <2>4, <2>5, <3>1 DEF PublishRecord
    <3>3. \A e \in Callers : old'[e] # new'[d]
      BY <1>11, <2>4, <2>5, <3>1, <3>2 DEF PublishRecord
    <3>4. \A e \in Callers : at'[e] \in PublishedSteps => e # c
      BY <1>11 DEF PublishRecord
    <3> QED BY <1>11, <2>1, <2>4, <2>5, <3>1, <3>2, <3>3, <3>4 DEF PublishRecord
  <2> QED BY <2>2, <2>3, <2>5
<1>12. ASSUME NEW c \in Callers, DisableBegin(c)
      PROVE  Tokens'
  BY <1>12 DEF DisableBegin
<1>13. ASSUME NEW c \in Callers, DisableRemove(c)
      PROVE  Tokens'
  BY <1>13 DEF DisableRemove
<1>14. ASSUME NEW c \in Callers, DisableUnset(c)
      PROVE  Tokens'
  BY <1>14 DEF DisableUnset
<1>15. ASSUME NEW c \in Callers, CallFails(c)
      PROVE  Tokens'
  BY <1>15 DEF CallFails
<1>16. ASSUME NEW c \in Callers, ClearCommit(c)
      PROVE  Tokens'
  BY <1>16 DEF ClearCommit
<1>17. ASSUME NEW c \in Callers, ClearWipe(c)
      PROVE  Tokens'
  BY <1>17 DEF ClearWipe
<1>18. ASSUME NEW c \in Callers, DeleteCommit(c)
      PROVE  Tokens'
  BY <1>18 DEF DeleteCommit
<1>19. ASSUME NEW c \in Callers, DeleteRaze(c)
      PROVE  Tokens'
  BY <1>19 DEF DeleteRaze
<1>20. ASSUME NEW t \in {"content", "event"}, EraseObjects(t)
      PROVE  Tokens'
  BY <1>20 DEF EraseObjects
<1>21. CASE EraseDone
  BY <1>21 DEF EraseDone
<1>22. CASE GalleryCut
  BY <1>22 DEF GalleryCut
<1> QED BY <1>1, <1>2, <1>3, <1>4, <1>5, <1>6, <1>7, <1>8, <1>9, <1>10, <1>11, <1>12,
           <1>13, <1>14, <1>15, <1>16, <1>17, <1>18, <1>19, <1>20, <1>21, <1>22
        DEF GalleryNext

(* A deleted event stays so. *)
LEMMA DeletedKept == GalleryTypeOK /\ Deleted /\ [GalleryNext]_galleryVars => Deleted'
<1> SUFFICES ASSUME GalleryTypeOK /\ Deleted, [GalleryNext]_galleryVars PROVE Deleted'
  OBVIOUS
<1> USE DEF GalleryTypeOK, Deleted, NoLink, localVars, bucketVars, sweepVars, callerVars,
        noteVars, Goto, Answer, Enter, Mishap, BoundsSame
<1>1. CASE UNCHANGED galleryVars
  BY <1>1 DEF galleryVars
<1>2. ASSUME NEW s \in Strips, StartSession(s)
      PROVE  Deleted'
  BY <1>2 DEF StartSession
<1>3. ASSUME NEW c \in Callers, NEW s \in Strips, FinalizeBegin(c, s)
      PROVE  Deleted'
  BY <1>3 DEF FinalizeBegin
<1>4. ASSUME NEW c \in Callers, FinalizeCompose(c)
      PROVE  Deleted'
  BY <1>4 DEF FinalizeCompose
<1>5. ASSUME NEW c \in Callers, FinalizeCount(c)
      PROVE  Deleted'
  BY <1>5 DEF FinalizeCount
<1>6. ASSUME NEW c \in Callers, NEW renew \in BOOLEAN, PublishBegin(c, renew)
      PROVE  Deleted'
  BY <1>6 DEF PublishBegin
<1>7. ASSUME NEW c \in Callers, PublishArchive(c)
      PROVE  Deleted'
  BY <1>7 DEF PublishArchive
<1>8. ASSUME NEW c \in Callers, PublishZip(c)
      PROVE  Deleted'
  BY <1>8 DEF PublishZip
<1>9. ASSUME NEW c \in Callers, PublishPage(c)
      PROVE  Deleted'
  BY <1>9 DEF PublishPage
<1>10. ASSUME NEW c \in Callers, PublishRevoke(c)
      PROVE  Deleted'
  BY <1>10 DEF PublishRevoke
<1>11. ASSUME NEW c \in Callers, PublishRecord(c)
      PROVE  Deleted'
  BY <1>11 DEF PublishRecord
<1>12. ASSUME NEW c \in Callers, DisableBegin(c)
      PROVE  Deleted'
  BY <1>12 DEF DisableBegin
<1>13. ASSUME NEW c \in Callers, DisableRemove(c)
      PROVE  Deleted'
  BY <1>13 DEF DisableRemove
<1>14. ASSUME NEW c \in Callers, DisableUnset(c)
      PROVE  Deleted'
  BY <1>14 DEF DisableUnset
<1>15. ASSUME NEW c \in Callers, CallFails(c)
      PROVE  Deleted'
  BY <1>15 DEF CallFails
<1>16. ASSUME NEW c \in Callers, ClearCommit(c)
      PROVE  Deleted'
  BY <1>16 DEF ClearCommit
<1>17. ASSUME NEW c \in Callers, ClearWipe(c)
      PROVE  Deleted'
  BY <1>17 DEF ClearWipe
<1>18. ASSUME NEW c \in Callers, DeleteCommit(c)
      PROVE  Deleted'
  BY <1>18 DEF DeleteCommit
<1>19. ASSUME NEW c \in Callers, DeleteRaze(c)
      PROVE  Deleted'
  BY <1>19 DEF DeleteRaze
<1>20. ASSUME NEW t \in {"content", "event"}, EraseObjects(t)
      PROVE  Deleted'
  BY <1>20 DEF EraseObjects
<1>21. CASE EraseDone
  BY <1>21 DEF EraseDone
<1>22. CASE GalleryCut
  BY <1>22 DEF GalleryCut
<1> QED BY <1>1, <1>2, <1>3, <1>4, <1>5, <1>6, <1>7, <1>8, <1>9, <1>10, <1>11, <1>12,
           <1>13, <1>14, <1>15, <1>16, <1>17, <1>18, <1>19, <1>20, <1>21, <1>22
        DEF GalleryNext

(* What takes the page of the event's link away does so to replace or end the link. *)
LEMMA OpeningKept ==
  GalleryTypeOK /\ Tokens /\ Deleted /\ Opening /\ [GalleryNext]_galleryVars => Opening'
<1> SUFFICES ASSUME GalleryTypeOK /\ Tokens /\ Deleted /\ Opening, [GalleryNext]_galleryVars
             PROVE  Opening'
  OBVIOUS
<1>a. GalleryTypeOK'
  BY GalleryTypes
<1> USE DEF GalleryTypeOK, Tokens, Deleted, Opening, PageSteps, PublishedSteps, NoLink,
        localVars, bucketVars, sweepVars, callerVars, noteVars, Goto, Answer, Enter, Mishap,
        BoundsSame
<1>1. CASE UNCHANGED galleryVars
  BY <1>1 DEF galleryVars
<1>2. ASSUME NEW s \in Strips, StartSession(s)
      PROVE  Opening'
  BY <1>2 DEF StartSession
<1>3. ASSUME NEW c \in Callers, NEW s \in Strips, FinalizeBegin(c, s)
      PROVE  Opening'
  BY <1>3 DEF FinalizeBegin
<1>4. ASSUME NEW c \in Callers, FinalizeCompose(c)
      PROVE  Opening'
  BY <1>4 DEF FinalizeCompose
<1>5. ASSUME NEW c \in Callers, FinalizeCount(c)
      PROVE  Opening'
  BY <1>5 DEF FinalizeCount
<1>6. ASSUME NEW c \in Callers, NEW renew \in BOOLEAN, PublishBegin(c, renew)
      PROVE  Opening'
  BY <1>6 DEF PublishBegin
<1>7. ASSUME NEW c \in Callers, PublishArchive(c)
      PROVE  Opening'
  BY <1>7 DEF PublishArchive
<1>8. ASSUME NEW c \in Callers, PublishZip(c)
      PROVE  Opening'
  BY <1>8 DEF PublishZip
<1>9. ASSUME NEW c \in Callers, PublishPage(c)
      PROVE  Opening'
  BY <1>9 DEF PublishPage
<1>10. ASSUME NEW c \in Callers, PublishRevoke(c)
      PROVE  Opening'
  BY <1>10 DEF PublishRevoke
<1>11. ASSUME NEW c \in Callers, PublishRecord(c)
      PROVE  Opening'
  BY <1>11 DEF PublishRecord
<1>12. ASSUME NEW c \in Callers, DisableBegin(c)
      PROVE  Opening'
  BY <1>12 DEF DisableBegin
<1>13. ASSUME NEW c \in Callers, DisableRemove(c)
      PROVE  Opening'
  BY <1>13 DEF DisableRemove
<1>14. ASSUME NEW c \in Callers, DisableUnset(c)
      PROVE  Opening'
  BY <1>14 DEF DisableUnset
<1>15. ASSUME NEW c \in Callers, CallFails(c)
      PROVE  Opening'
  BY <1>15 DEF CallFails
<1>16. ASSUME NEW c \in Callers, ClearCommit(c)
      PROVE  Opening'
  BY <1>16 DEF ClearCommit
<1>17. ASSUME NEW c \in Callers, ClearWipe(c)
      PROVE  Opening'
  BY <1>17 DEF ClearWipe
<1>18. ASSUME NEW c \in Callers, DeleteCommit(c)
      PROVE  Opening'
  BY <1>18 DEF DeleteCommit
<1>19. ASSUME NEW c \in Callers, DeleteRaze(c)
      PROVE  Opening'
  BY <1>19 DEF DeleteRaze
<1>20. ASSUME NEW t \in {"content", "event"}, EraseObjects(t)
      PROVE  Opening'
  BY <1>20 DEF EraseObjects
<1>21. CASE EraseDone
  BY <1>21 DEF EraseDone
<1>22. CASE GalleryCut
  BY <1>22 DEF GalleryCut
<1> QED BY <1>1, <1>2, <1>3, <1>4, <1>5, <1>6, <1>7, <1>8, <1>9, <1>10, <1>11, <1>12,
           <1>13, <1>14, <1>15, <1>16, <1>17, <1>18, <1>19, <1>20, <1>21, <1>22
        DEF GalleryNext

(* A request that begins alone is served alone. *)
LEMMA OneRequestKept ==
  GalleryTypeOK /\ Tokens /\ Deleted /\ (~overlap => OneRequest) /\ [GalleryNext]_galleryVars =>
    (~overlap' => OneRequest')
<1> SUFFICES ASSUME GalleryTypeOK /\ Tokens /\ Deleted /\ (~overlap => OneRequest),
                    [GalleryNext]_galleryVars
             PROVE  ~overlap' => OneRequest'
  OBVIOUS
<1>a. GalleryTypeOK'
  BY GalleryTypes
<1> USE DEF GalleryTypeOK, Tokens, Deleted, OneRequest, Operating, LinkSteps, PublishSteps,
        DisableSteps, FinalizeSteps, PublishedSteps, NoLink, Links, localVars, bucketVars,
        sweepVars, callerVars, noteVars, Goto, Answer, Enter, Mishap, BoundsSame
<1>1. CASE UNCHANGED galleryVars
  BY <1>1 DEF galleryVars
<1>2. ASSUME NEW s \in Strips, StartSession(s)
      PROVE  ~overlap' => OneRequest'
  BY <1>2 DEF StartSession
<1>3. ASSUME NEW c \in Callers, NEW s \in Strips, FinalizeBegin(c, s)
      PROVE  ~overlap' => OneRequest'
  BY <1>3 DEF FinalizeBegin
<1>4. ASSUME NEW c \in Callers, FinalizeCompose(c)
      PROVE  ~overlap' => OneRequest'
  BY <1>4 DEF FinalizeCompose
<1>5. ASSUME NEW c \in Callers, FinalizeCount(c)
      PROVE  ~overlap' => OneRequest'
  BY <1>5 DEF FinalizeCount
<1>6. ASSUME NEW c \in Callers, NEW renew \in BOOLEAN, PublishBegin(c, renew)
      PROVE  ~overlap' => OneRequest'
  BY <1>6 DEF PublishBegin
<1>7. ASSUME NEW c \in Callers, PublishArchive(c)
      PROVE  ~overlap' => OneRequest'
  BY <1>7 DEF PublishArchive
<1>8. ASSUME NEW c \in Callers, PublishZip(c)
      PROVE  ~overlap' => OneRequest'
  BY <1>8 DEF PublishZip
<1>9. ASSUME NEW c \in Callers, PublishPage(c)
      PROVE  ~overlap' => OneRequest'
  BY <1>9 DEF PublishPage
<1>10. ASSUME NEW c \in Callers, PublishRevoke(c)
      PROVE  ~overlap' => OneRequest'
  BY <1>10 DEF PublishRevoke
<1>11. ASSUME NEW c \in Callers, PublishRecord(c)
      PROVE  ~overlap' => OneRequest'
  BY <1>11 DEF PublishRecord
<1>12. ASSUME NEW c \in Callers, DisableBegin(c)
      PROVE  ~overlap' => OneRequest'
  <2> SUFFICES ASSUME ~overlap' PROVE OneRequest'
    OBVIOUS
  <2>1. ~overlap /\ Operating = {}
    BY <1>12 DEF DisableBegin
  <2>2. \A d \in Callers : at'[d] \notin {"idle", "compose", "count"} => d = c
    BY <1>12, <2>1 DEF DisableBegin
  <2>3. /\ eventLive' /\ old'[c] = link' /\ pages' = pages
        /\ at'[c] \in {"record", "unset"} => link' = NoLink
    BY <1>12 DEF DisableBegin
  <2> QED BY <2>2, <2>3
<1>13. ASSUME NEW c \in Callers, DisableRemove(c)
      PROVE  ~overlap' => OneRequest'
  BY <1>13 DEF DisableRemove
<1>14. ASSUME NEW c \in Callers, DisableUnset(c)
      PROVE  ~overlap' => OneRequest'
  BY <1>14 DEF DisableUnset
<1>15. ASSUME NEW c \in Callers, CallFails(c)
      PROVE  ~overlap' => OneRequest'
  BY <1>15 DEF CallFails
<1>16. ASSUME NEW c \in Callers, ClearCommit(c)
      PROVE  ~overlap' => OneRequest'
  BY <1>16 DEF ClearCommit
<1>17. ASSUME NEW c \in Callers, ClearWipe(c)
      PROVE  ~overlap' => OneRequest'
  BY <1>17 DEF ClearWipe
<1>18. ASSUME NEW c \in Callers, DeleteCommit(c)
      PROVE  ~overlap' => OneRequest'
  BY <1>18 DEF DeleteCommit
<1>19. ASSUME NEW c \in Callers, DeleteRaze(c)
      PROVE  ~overlap' => OneRequest'
  BY <1>19 DEF DeleteRaze
<1>20. ASSUME NEW t \in {"content", "event"}, EraseObjects(t)
      PROVE  ~overlap' => OneRequest'
  BY <1>20 DEF EraseObjects
<1>21. CASE EraseDone
  BY <1>21 DEF EraseDone
<1>22. CASE GalleryCut
  BY <1>22 DEF GalleryCut
<1> QED BY <1>1, <1>2, <1>3, <1>4, <1>5, <1>6, <1>7, <1>8, <1>9, <1>10, <1>11, <1>12,
           <1>13, <1>14, <1>15, <1>16, <1>17, <1>18, <1>19, <1>20, <1>21, <1>22
        DEF GalleryNext

(* ... and leaves no page of a link that it ended, nor anything of a deleted event. *)
LEMMA CleanedKept ==
  /\ GalleryTypeOK /\ Tokens /\ Deleted /\ (~overlap => OneRequest /\ Cleaned)
  /\ [GalleryNext]_galleryVars
  => (~overlap' => Cleaned')
<1> SUFFICES ASSUME GalleryTypeOK /\ Tokens /\ Deleted /\ (~overlap => OneRequest /\ Cleaned),
                    [GalleryNext]_galleryVars
             PROVE  ~overlap' => Cleaned'
  OBVIOUS
<1>a. GalleryTypeOK'
  BY GalleryTypes
<1> USE DEF GalleryTypeOK, Tokens, Deleted, OneRequest, Cleaned, Operating, LinkSteps,
        PublishSteps, DisableSteps, FinalizeSteps, PublishedSteps, PageSteps, NoLink, Links,
        localVars, bucketVars, sweepVars, callerVars, noteVars, Goto, Answer, Enter, Mishap,
        BoundsSame
<1>1. CASE UNCHANGED galleryVars
  BY <1>1 DEF galleryVars
<1>2. ASSUME NEW s \in Strips, StartSession(s)
      PROVE  ~overlap' => Cleaned'
  BY <1>2 DEF StartSession
<1>3. ASSUME NEW c \in Callers, NEW s \in Strips, FinalizeBegin(c, s)
      PROVE  ~overlap' => Cleaned'
  BY <1>3 DEF FinalizeBegin
<1>4. ASSUME NEW c \in Callers, FinalizeCompose(c)
      PROVE  ~overlap' => Cleaned'
  BY <1>4 DEF FinalizeCompose
<1>5. ASSUME NEW c \in Callers, FinalizeCount(c)
      PROVE  ~overlap' => Cleaned'
  BY <1>5 DEF FinalizeCount
<1>6. ASSUME NEW c \in Callers, NEW renew \in BOOLEAN, PublishBegin(c, renew)
      PROVE  ~overlap' => Cleaned'
  BY <1>6 DEF PublishBegin
<1>7. ASSUME NEW c \in Callers, PublishArchive(c)
      PROVE  ~overlap' => Cleaned'
  BY <1>7 DEF PublishArchive
<1>8. ASSUME NEW c \in Callers, PublishZip(c)
      PROVE  ~overlap' => Cleaned'
  BY <1>8 DEF PublishZip
<1>9. ASSUME NEW c \in Callers, PublishPage(c)
      PROVE  ~overlap' => Cleaned'
  BY <1>9 DEF PublishPage
<1>10. ASSUME NEW c \in Callers, PublishRevoke(c)
      PROVE  ~overlap' => Cleaned'
  BY <1>10 DEF PublishRevoke
<1>11. ASSUME NEW c \in Callers, PublishRecord(c)
      PROVE  ~overlap' => Cleaned'
  <2> SUFFICES ASSUME ~overlap' PROVE Cleaned'
    OBVIOUS
  <2>1. ~overlap /\ eventLive /\ link \notin pages
    BY <1>11 DEF PublishRecord
  <2>2. /\ link' = new[c] /\ shown' = shown \cup {new[c]} /\ pages' = pages
        /\ eventLive' = eventLive /\ erasures' = erasures /\ erasing' = erasing
        /\ bucketArchive' = bucketArchive
    BY <1>11, <2>1 DEF PublishRecord
  <2>3. shown \cap pages = {}
    BY <2>1
  <2> QED BY <2>1, <2>2, <2>3
<1>12. ASSUME NEW c \in Callers, DisableBegin(c)
      PROVE  ~overlap' => Cleaned'
  BY <1>12 DEF DisableBegin
<1>13. ASSUME NEW c \in Callers, DisableRemove(c)
      PROVE  ~overlap' => Cleaned'
  BY <1>13 DEF DisableRemove
<1>14. ASSUME NEW c \in Callers, DisableUnset(c)
      PROVE  ~overlap' => Cleaned'
  BY <1>14 DEF DisableUnset
<1>15. ASSUME NEW c \in Callers, CallFails(c)
      PROVE  ~overlap' => Cleaned'
  BY <1>15 DEF CallFails
<1>16. ASSUME NEW c \in Callers, ClearCommit(c)
      PROVE  ~overlap' => Cleaned'
  BY <1>16 DEF ClearCommit
<1>17. ASSUME NEW c \in Callers, ClearWipe(c)
      PROVE  ~overlap' => Cleaned'
  BY <1>17 DEF ClearWipe
<1>18. ASSUME NEW c \in Callers, DeleteCommit(c)
      PROVE  ~overlap' => Cleaned'
  BY <1>18 DEF DeleteCommit
<1>19. ASSUME NEW c \in Callers, DeleteRaze(c)
      PROVE  ~overlap' => Cleaned'
  BY <1>19 DEF DeleteRaze
<1>20. ASSUME NEW t \in {"content", "event"}, EraseObjects(t)
      PROVE  ~overlap' => Cleaned'
  BY <1>20 DEF EraseObjects
<1>21. CASE EraseDone
  BY <1>21 DEF EraseDone
<1>22. CASE GalleryCut
  BY <1>22 DEF GalleryCut
<1> QED BY <1>1, <1>2, <1>3, <1>4, <1>5, <1>6, <1>7, <1>8, <1>9, <1>10, <1>11, <1>12,
           <1>13, <1>14, <1>15, <1>16, <1>17, <1>18, <1>19, <1>20, <1>21, <1>22
        DEF GalleryNext

(* Steps that neither finalize, clear nor delete leave the count alone. *)
LEMMA SameCount ==
  ASSUME GalleryTypeOK, Counting, GalleryTypeOK',
         rows' = rows, stripFile' = stripFile, photoCount' = photoCount, skewed' = skewed,
         eventLive' => eventLive,
         \A c \in Callers : at'[c] = "count" <=> at[c] = "count",
         \A c \in Callers : at'[c] = "compose" => at[c] = "compose" /\ job'[c] = job[c]
  PROVE  Counting'
<1>1. Counters' = Counters /\ Finished' = Finished
  BY DEF Counters, Finished, Intact
<1>2. \A c \in Callers : c \in Finalizing' => c \in Finalizing
  BY DEF Finalizing, FinalizeSteps
<1>3. Finalizing' \subseteq Callers
  BY DEF Finalizing
<1> QED BY <1>1, <1>2, <1>3 DEF Counting

(* Every strip is counted once, by the one request that composed it. *)
LEMMA CountingKept ==
  GalleryTypeOK /\ GalleryTypeOK' /\ Deleted /\ Counting /\ [GalleryNext]_galleryVars => Counting'
<1> SUFFICES ASSUME GalleryTypeOK /\ Deleted /\ Counting /\ GalleryTypeOK',
                    [GalleryNext]_galleryVars
             PROVE  Counting'
  OBVIOUS
<1>a. GalleryTypeOK'
  OBVIOUS
<1> USE DEF GalleryTypeOK, localVars, bucketVars, sweepVars, callerVars, noteVars, Goto,
        Answer, Enter, Mishap, BoundsSame
<1>1. CASE UNCHANGED galleryVars
  BY <1>a, <1>1, SameCount DEF galleryVars
<1>2. ASSUME NEW s \in Strips, StartSession(s)
      PROVE  Counting'
  <2>1. Counters' = Counters /\ Finalizing' = Finalizing
    BY <1>2 DEF StartSession, Counters, Finalizing
  <2>2. rows' \cap Intact' = rows \cap Intact
    BY <1>2 DEF StartSession, Intact
  <2>3. IsFiniteSet(rows')
    BY <1>2, FS_AddElement DEF StartSession, Counting
  <2>4. eventLive' = eventLive /\ skewed' = skewed /\ photoCount' = photoCount
    BY <1>2 DEF StartSession
  <2>5. ASSUME eventLive, ~skewed, NEW c \in Callers, at'[c] = "compose"
        PROVE  job'[c] \in rows' /\ stripFile'[job'[c]] \in {"photos", "torn"}
    <3>1. job[c] \in rows /\ stripFile[job[c]] \in {"photos", "torn"}
      BY <1>2, <2>5 DEF StartSession, Counting
    <3> QED BY <1>2, <3>1 DEF StartSession
  <2>6. Finished' = Finished
    BY <2>2 DEF Finished
  <2>7. Counting => Counting'
    BY <2>1, <2>3, <2>4, <2>5, <2>6 DEF Counting
  <2> QED BY <2>7
<1>3. ASSUME NEW c \in Callers, NEW s \in Strips, FinalizeBegin(c, s)
      PROVE  Counting'
  <2>1. Counters' = Counters /\ Finished' = Finished
    BY <1>3 DEF FinalizeBegin, Counters, Finished, Intact, FinalizeSteps
  <2>2. \A d \in Finalizing' : d = c
    BY <1>3 DEF FinalizeBegin, Finalizing
  <2>3. /\ job'[c] \in rows' /\ stripFile'[job'[c]] \in {"photos", "torn"}
        /\ \A d \in Callers : at'[d] = "compose" => d = c
    BY <1>3 DEF FinalizeBegin, FinalizeSteps
  <2>4. /\ eventLive' = eventLive /\ skewed' = skewed /\ photoCount' = photoCount
        /\ rows' = rows
    BY <1>3 DEF FinalizeBegin
  <2> QED BY <2>1, <2>2, <2>3, <2>4 DEF Counting
<1>4. ASSUME NEW c \in Callers, FinalizeCompose(c)
      PROVE  Counting'
  <2>1. Finalizing' \subseteq {c} /\ Finalizing = {c}
    BY <1>4 DEF FinalizeCompose, Finalizing, FinalizeSteps, Counting
  <2>2. Counters = {} /\ Counters' = {c}
    BY <1>4, <2>1 DEF FinalizeCompose, Counters, Finalizing, FinalizeSteps
  <2>3. ASSUME eventLive, ~skewed
        PROVE  photoCount + 1 = Cardinality(Finished')
    <3>1. job[c] \in rows /\ stripFile[job[c]] # "strip"
      BY <1>4, <2>3 DEF FinalizeCompose, Counting
    <3>2. Finished' = Finished \cup {job[c]} /\ job[c] \notin Finished
      BY <1>4, <3>1 DEF FinalizeCompose, Finished, Intact
    <3>3. IsFiniteSet(Finished)
      BY FS_Intersection DEF Counting, Finished
    <3>4. Cardinality(Finished') = Cardinality(Finished) + 1
      BY <3>2, <3>3, FS_AddElement
    <3>5. photoCount + Cardinality(Counters) = Cardinality(Finished)
      BY <2>3 DEF Counting
    <3> QED BY <2>2, <3>4, <3>5, FS_EmptySet
  <2>4. /\ eventLive' = eventLive /\ skewed' = skewed /\ photoCount' = photoCount
        /\ rows' = rows
    BY <1>4 DEF FinalizeCompose
  <2>5. \A d \in Callers : at'[d] # "compose"
    BY <1>4, <2>1 DEF FinalizeCompose, Finalizing, FinalizeSteps
  <2> QED BY <2>1, <2>2, <2>3, <2>4, <2>5, FS_Singleton DEF Counting
<1>5. ASSUME NEW c \in Callers, FinalizeCount(c)
      PROVE  Counting'
  <2>1. Finalizing' = {} /\ Finalizing = {c}
    BY <1>5 DEF FinalizeCount, Finalizing, FinalizeSteps, Counting
  <2>2. Counters = {c} /\ Counters' = {}
    BY <1>5, <2>1 DEF FinalizeCount, Counters, Finalizing, FinalizeSteps
  <2>3. Finished' = Finished
    BY <1>5 DEF FinalizeCount, Finished, Intact
  <2>4. /\ eventLive' = eventLive /\ skewed' = skewed /\ rows' = rows
        /\ eventLive => photoCount' = photoCount + 1
    BY <1>5 DEF FinalizeCount
  <2>5. \A d \in Callers : at'[d] # "compose"
    BY <2>1 DEF Finalizing, FinalizeSteps
  <2>6. Cardinality(Counters) = 1 /\ Cardinality(Counters') = 0
    BY <2>2, FS_Singleton, FS_EmptySet
  <2>7. eventLive /\ ~skewed => photoCount' + Cardinality(Counters') = Cardinality(Finished')
    BY <2>3, <2>4, <2>6 DEF Counting
  <2> QED BY <2>1, <2>4, <2>5, <2>7 DEF Counting
<1>6. ASSUME NEW c \in Callers, NEW renew \in BOOLEAN, PublishBegin(c, renew)
      PROVE  Counting'
  BY <1>a, <1>6, SameCount DEF PublishBegin
<1>7. ASSUME NEW c \in Callers, PublishArchive(c)
      PROVE  Counting'
  BY <1>a, <1>7, SameCount DEF PublishArchive
<1>8. ASSUME NEW c \in Callers, PublishZip(c)
      PROVE  Counting'
  BY <1>a, <1>8, SameCount DEF PublishZip
<1>9. ASSUME NEW c \in Callers, PublishPage(c)
      PROVE  Counting'
  BY <1>a, <1>9, SameCount DEF PublishPage
<1>10. ASSUME NEW c \in Callers, PublishRevoke(c)
      PROVE  Counting'
  BY <1>a, <1>10, SameCount DEF PublishRevoke
<1>11. ASSUME NEW c \in Callers, PublishRecord(c)
      PROVE  Counting'
  BY <1>a, <1>11, SameCount DEF PublishRecord
<1>12. ASSUME NEW c \in Callers, DisableBegin(c)
      PROVE  Counting'
  BY <1>a, <1>12, SameCount DEF DisableBegin
<1>13. ASSUME NEW c \in Callers, DisableRemove(c)
      PROVE  Counting'
  BY <1>a, <1>13, SameCount DEF DisableRemove
<1>14. ASSUME NEW c \in Callers, DisableUnset(c)
      PROVE  Counting'
  BY <1>a, <1>14, SameCount DEF DisableUnset
<1>15. ASSUME NEW c \in Callers, CallFails(c)
      PROVE  Counting'
  BY <1>a, <1>15, SameCount DEF CallFails
<1>16. ASSUME NEW c \in Callers, ClearCommit(c)
      PROVE  Counting'
  <2>1. /\ rows' = {} /\ photoCount' = 0 /\ Finished' = {}
        /\ ~skewed' => Finalizing = {}
    BY <1>16 DEF ClearCommit, Finished
  <2>2. Finalizing' = Finalizing
    BY <1>16 DEF ClearCommit, Finalizing, FinalizeSteps
  <2>3. ~skewed' => Counters' = {} /\ \A d \in Callers : at'[d] # "compose"
    BY <2>1, <2>2 DEF Finalizing, FinalizeSteps, Counters
  <2> QED BY <2>1, <2>2, <2>3, FS_EmptySet DEF Counting
<1>17. ASSUME NEW c \in Callers, ClearWipe(c)
      PROVE  Counting'
  <2>1. Finalizing' = Finalizing /\ rows' = rows /\ eventLive' = eventLive
    BY <1>17 DEF ClearWipe, Finalizing, FinalizeSteps
  <2>2. ASSUME ~skewed' 
        PROVE  /\ ~skewed /\ rows = {} /\ Finished = {} /\ Finished' = {}
               /\ photoCount' = photoCount /\ Finalizing = {}
    BY <1>17, <2>2 DEF ClearWipe, Finished
  <2>3. ~skewed' => /\ Counters' = {} /\ Counters = {}
                    /\ \A d \in Callers : at'[d] # "compose"
    BY <2>1, <2>2 DEF Finalizing, FinalizeSteps, Counters
  <2> QED BY <2>1, <2>2, <2>3, FS_EmptySet DEF Counting
<1>18. ASSUME NEW c \in Callers, DeleteCommit(c)
      PROVE  Counting'
  <2>1. Finalizing' = Finalizing /\ rows' = {} /\ ~eventLive'
    BY <1>18 DEF DeleteCommit, Finalizing, FinalizeSteps
  <2> QED BY <2>1, FS_EmptySet DEF Counting
<1>19. ASSUME NEW c \in Callers, DeleteRaze(c)
      PROVE  Counting'
  <2>1. Finalizing' = Finalizing /\ rows' = rows /\ ~eventLive'
    BY <1>19 DEF DeleteRaze, Finalizing, FinalizeSteps, Deleted
  <2> QED BY <2>1 DEF Counting
<1>20. ASSUME NEW t \in {"content", "event"}, EraseObjects(t)
      PROVE  Counting'
  BY <1>a, <1>20, SameCount DEF EraseObjects
<1>21. CASE EraseDone
  BY <1>a, <1>21, SameCount DEF EraseDone
<1>22. CASE GalleryCut
  <2>1. /\ Finalizing' = {} /\ Counters' = {} /\ \A d \in Callers : at'[d] = "idle"
        /\ rows' = rows /\ photoCount' = photoCount /\ eventLive' = eventLive
    BY <1>22 DEF GalleryCut, Finalizing, FinalizeSteps, Counters
  <2>2. ASSUME ~skewed'
        PROVE  ~skewed /\ Counters = {} /\ Finished' = Finished
    BY <1>22, <2>2 DEF GalleryCut, Counters, Finished, Intact
  <2> QED BY <2>1, <2>2, FS_EmptySet DEF Counting
<1> QED BY <1>1, <1>2, <1>3, <1>4, <1>5, <1>6, <1>7, <1>8, <1>9, <1>10, <1>11, <1>12,
           <1>13, <1>14, <1>15, <1>16, <1>17, <1>18, <1>19, <1>20, <1>21, <1>22
        DEF GalleryNext

(* A booth without links and strips satisfies GalleryFacts. *)
LEMMA GalleryFactsInit == GalleryInit => GalleryFacts
<1> SUFFICES ASSUME GalleryInit PROVE GalleryFacts
  OBVIOUS
<1>1. GalleryTypeOK
  <2>1. eventLive \in BOOLEAN /\ overlap \in BOOLEAN /\ skewed \in BOOLEAN
    BY Zenon DEF GalleryInit
  <2> QED BY <2>1, GalleryAssumption DEF GalleryInit, GalleryTypeOK, Steps, NoLink
<1>2. Tokens /\ Deleted /\ Opening
  BY GalleryAssumption
  DEF GalleryInit, Tokens, Deleted, Opening, PublishedSteps, PageSteps, NoLink
<1>3. Counting
  <2>1. Counters = {} /\ Finalizing = {} /\ Finished = {}
    BY DEF GalleryInit, Counters, Finalizing, FinalizeSteps, Finished
  <2> QED BY <2>1, FS_EmptySet DEF GalleryInit, Counting
<1>4. OneRequest /\ Cleaned
  BY DEF GalleryInit, OneRequest, Cleaned, Operating, LinkSteps, PublishSteps, DisableSteps
<1> QED BY <1>1, <1>2, <1>3, <1>4 DEF GalleryFacts

(* GalleryFacts is inductive. *)
LEMMA GalleryFactsKept == GalleryFacts /\ [GalleryNext]_galleryVars => GalleryFacts'
BY GalleryTypes, TokensKept, DeletedKept, OpeningKept, OneRequestKept, CleanedKept, CountingKept
DEF GalleryFacts

(* GalleryFacts is an invariant. *)
LEMMA GalleryFactsHold == GallerySpec => []GalleryFacts
BY GalleryFactsInit, GalleryFactsKept, PTL DEF GallerySpec
-----------------------------------------------------------------------------
(* It implies the four properties of the gallery. *)
LEMMA GallerySafe ==
  GalleryFacts => LinkOpens /\ RevokedLinksDie /\ DeletedEventOffline /\ CountMatches
<1>1. GalleryFacts => LinkOpens
  BY DEF GalleryFacts, Opening, LinkOpens, Quiet
<1>2. GalleryFacts => RevokedLinksDie
  BY DEF GalleryFacts, Cleaned, RevokedLinksDie
<1>3. GalleryFacts => DeletedEventOffline
  BY DEF GalleryFacts, Cleaned, DeletedEventOffline
<1>4. GalleryFacts => CountMatches
  BY DEF GalleryFacts, Counting, Counters, Finished, CountMatches
<1> QED BY <1>1, <1>2, <1>3, <1>4

(* When no request is being served, the event's link opens its page,       *)
(* unless a failed or cut request to replace or end that link took it.     *)
THEOREM LinksOpen == GallerySpec => []LinkOpens
BY GallerySafe, GalleryFactsHold, PTL

(* A link that was replaced, disabled or deleted opens nothing once the    *)
(* request is answered and the tombstones are discharged, as long as the   *)
(* operator's requests do not overlap.                                     *)
THEOREM LinksDie == GallerySpec => []RevokedLinksDie
BY GallerySafe, GalleryFactsHold, PTL

(* Nothing of a deleted event is left in the bucket then. *)
THEOREM DeletedGoesOffline == GallerySpec => []DeletedEventOffline
BY GallerySafe, GalleryFactsHold, PTL

(* The photo count is that of the finished strips, however many requests   *)
(* to finalize a session come at once.                                     *)
THEOREM CountsMatch == GallerySpec => []CountMatches
BY GallerySafe, GalleryFactsHold, PTL
=============================================================================
