------------------------------ MODULE Thumbnails ------------------------------
(***************************************************************************)
(* The picture of one dashboard.  Handlers that publish content call the   *)
(* Cloud Function generate-thumbnail and do not wait for it (thumbnail.ts, *)
(* functions/generate-thumbnail/index.ts); the owner may upload a picture  *)
(* of his own (api/dashboards/[id]/thumbnail/route.ts).  Both read the     *)
(* document, save the picture under a path with the time in it, point the  *)
(* document at it and then delete the picture the document named when it   *)
(* was read.  Two times are taken to differ, so a path is used once.       *)
(* Some names say Picture or Worker, for Jobs_proofs reads this module     *)
(* and RefreshLock together.                                               *)
(***************************************************************************)
EXTENDS Integers

CONSTANTS Workers,      \* invocations of the function and the owner's requests
          MaxContent,   \* publications
          MaxPaths,     \* pictures saved
          None,         \* no picture, no path
          Own           \* a picture from the owner, of no content in particular

Paths == 1..MaxPaths
Versions == 1..MaxContent

ASSUME ThumbnailsAssumption == /\ MaxContent \in Nat \ {0} /\ MaxPaths \in Nat
                               /\ None \notin Paths \cup Versions
                               /\ Own \notin Versions \cup {None}

VARIABLES
  stored,    \* stored[v] is the path of the content published as number v; the
             \* document has the last one
  there,     \* the document exists
  thumb,     \* its thumbnailStoragePath
  blob,      \* the pictures in the bucket: of which content, or Own
  called,    \* calls of the function on their way
  h,         \* what each worker does
  time,      \* the last path chosen
  newest,    \* history: the newest content the document has had a picture of
  unseen,    \* history: content whose picture was lost or passed by an older one
  left       \* history: pictures nobody is going to delete

doc == <<stored, there, thumb>>
pictureVars == <<stored, there, thumb, blob, called, h, time, newest, unseen, left>>

Current == CHOOSE v \in DOMAIN stored : v + 1 \notin DOMAIN stored

Idle == [pc |-> "idle", old |-> None, file |-> 0, pic |-> None, path |-> None]
WorkerState == [pc : {"idle", "download", "save", "update", "delete"},
                old : Paths \cup {None}, file : 0..MaxContent,
                pic : Versions \cup {Own, None}, path : Paths \cup {None}]

\* No publication calls the function twice.
PictureTypeOK == /\ \E n \in Versions : stored \in [1..n -> Versions]
                 /\ there \in BOOLEAN
                 /\ thumb \in Paths \cup {None}
                 /\ blob \in [Paths -> Versions \cup {Own, None}]
                 /\ called \in 0..MaxContent
                 /\ h \in [Workers -> WorkerState]
                 /\ time \in 0..MaxPaths
                 /\ newest \in 0..MaxContent
                 /\ unseen \subseteq Versions
                 /\ left \subseteq Paths

\* The dashboard has been created, and the function called.
PictureInit == /\ stored = [v \in {1} |-> 1]
               /\ there = TRUE
               /\ thumb = None
               /\ blob = [p \in Paths |-> None]
               /\ called = 1
               /\ h = [w \in Workers |-> Idle]
               /\ time = 0
               /\ newest = 0
               /\ unseen = {}
               /\ left = {}

-----------------------------------------------------------------------------
\* The dashboard.

\* Content goes live at a path of its own, or over the one the dashboard was
\* created with.
Stores(f) == /\ there
             /\ Current < MaxContent
             /\ stored' = [v \in 1..(Current + 1) |-> IF v > Current THEN f ELSE stored[v]]

\* A replacement, an edit or a refresh.
Publish ==
  /\ \E f \in {1, Current + 1} : Stores(f)
  /\ called' = called + 1
  /\ UNCHANGED <<there, thumb, blob, h, time, newest, unseen, left>>

\* A restored version calls nothing.
Restore ==
  /\ Stores(Current + 1)
  /\ unseen' = unseen \cup {Current + 1}
  /\ UNCHANGED <<there, thumb, blob, called, h, time, newest, left>>

\* The picture stays behind.
Delete ==
  /\ there
  /\ there' = FALSE
  /\ left' = left \cup ({thumb} \ {None})
  /\ UNCHANGED <<stored, thumb, blob, called, h, time, newest, unseen>>

-----------------------------------------------------------------------------
\* The function and the owner's request.

\* Mutant: a call that is not answered in time is sent again.
LoseCallRetried ==
  /\ called > 0
  /\ called' = called + 1
  /\ UNCHANGED <<doc, blob, h, time, newest, unseen, left>>

\* A call that does not arrive, or finds no dashboard.  Another one on its way
\* would have done as well.
LoseCall ==
  /\ called > 0
  /\ called' = called - 1
  /\ unseen' = IF called = 1 /\ newest < Current THEN unseen \cup {Current} ELSE unseen
  /\ UNCHANGED <<stored, there, thumb, blob, h, time, newest, left>>

Reads(w) == [Idle EXCEPT !.pc = "download", !.old = thumb, !.file = stored[Current],
                         !.pic = Current]

\* Mutant: a call is dropped while another one is being worked on.
GenerateUnlessBusy(w) ==
  /\ called > 0 /\ there /\ h[w].pc = "idle"
  /\ called' = called - 1
  /\ h' = IF \A x \in Workers : h[x].pc = "idle" THEN [h EXCEPT ![w] = Reads(w)] ELSE h
  /\ UNCHANGED <<doc, blob, time, newest, unseen, left>>

\* A call arrives and the document is read.
Generate(w) ==
  /\ called > 0 /\ there /\ h[w].pc = "idle"
  /\ called' = called - 1
  /\ h' = [h EXCEPT ![w] = Reads(w)]
  /\ UNCHANGED <<doc, blob, time, newest, unseen, left>>

\* The file may have been written over since, or replaced and not yet deleted.
Download(w) ==
  /\ h[w].pc = "download"
  /\ \E v \in DOMAIN stored :
       /\ stored[v] = h[w].file
       /\ \A x \in DOMAIN stored : stored[x] = h[w].file => x <= v
       /\ h' = [h EXCEPT ![w] = [h[w] EXCEPT !.pc = "save", !.pic = v]]
  /\ UNCHANGED <<doc, blob, called, time, newest, unseen, left>>

\* The owner's picture comes with the request.
Upload(w) ==
  /\ there /\ h[w].pc = "idle"
  /\ h' = [h EXCEPT ![w] = [Idle EXCEPT !.pc = "save", !.old = thumb, !.pic = Own]]
  /\ UNCHANGED <<doc, blob, called, time, newest, unseen, left>>

SavePicture(w) ==
  /\ h[w].pc = "save"
  /\ time < MaxPaths
  /\ time' = time + 1
  /\ blob' = [blob EXCEPT ![time'] = h[w].pic]
  /\ h' = [h EXCEPT ![w] = [h[w] EXCEPT !.pc = "update", !.path = time']]
  /\ UNCHANGED <<doc, called, newest, unseen, left>>

\* Whoever has replaced another picture than the one he read leaves it there.
Update(w) ==
  /\ h[w].pc = "update"
  /\ there
  /\ thumb' = h[w].path
  /\ left' = IF thumb \in {None, h[w].old} THEN left ELSE left \cup {thumb}
  /\ newest' = IF h[w].pic # Own /\ h[w].pic > newest THEN h[w].pic ELSE newest
  /\ unseen' = IF h[w].pic # Own /\ h[w].pic < newest THEN unseen \cup {newest}
               ELSE unseen \ {h[w].pic}
  /\ h' = [h EXCEPT ![w] = [h[w] EXCEPT !.pc = "delete"]]
  /\ UNCHANGED <<stored, there, blob, called, time>>

\* Mutant: the document is read again before the old picture is deleted.
PreviousReread(w) == thumb

\* Mutant: the same, but the picture just written is spared.
PreviousUnlessNew(w) == IF thumb = h[w].path THEN None ELSE thumb

Previous(w) == h[w].old

\* The old picture is deleted; the answer does not wait for it.
Forget(w) ==
  /\ h[w].pc = "delete"
  /\ blob' = [p \in Paths |-> IF p = Previous(w) THEN None ELSE blob[p]]
  /\ h' = [h EXCEPT ![w] = Idle]
  /\ UNCHANGED <<doc, called, time, newest, unseen, left>>

\* A call that fails, a document or a file that is gone, or the end of the
\* instance: a picture that is saved but not named, or replaced but not deleted,
\* is left, and a content that was to be seen may not be.
Abandon(w) ==
  /\ h[w].pc # "idle"
  /\ h' = [h EXCEPT ![w] = Idle]
  /\ left' = left \cup (CASE h[w].pc = "update" -> {h[w].path}
                          [] h[w].pc = "delete" -> {h[w].old} \ {None}
                          [] OTHER -> {})
  /\ unseen' = IF h[w].pc # "delete" /\ h[w].pic # Own /\ h[w].pic > newest
               THEN unseen \cup {h[w].pic} ELSE unseen
  /\ UNCHANGED <<doc, blob, called, time, newest>>

Work(w) == \/ Generate(w) \/ Download(w) \/ Upload(w) \/ SavePicture(w) \/ Update(w)
           \/ Forget(w) \/ Abandon(w)

PictureNext == Publish \/ Restore \/ Delete \/ LoseCall \/ \E w \in Workers : Work(w)

PictureSpec == PictureInit /\ [][PictureNext]_pictureVars
-----------------------------------------------------------------------------
\* The document never names a picture that has been deleted, however many
\* workers replace it at once (thumbnail/route.ts:162 takes the old path "BEFORE
\* updating anything").
NeverDangles == there /\ thumb # None => blob[thumb] # None

\* A picture that nobody looks at is about to be named or deleted, unless two
\* workers replaced the same one, something failed or the dashboard was deleted
\* (docs/DATA-PRIVACY.md:109 says that the last one stays).
NoneForgotten ==
  \A p \in Paths : blob[p] # None =>
    \/ p = thumb
    \/ p \in left
    \/ \E w \in Workers : \/ h[w].pc = "update" /\ h[w].path = p
                          \/ h[w].pc = "delete" /\ h[w].old = p

\* With no call on its way and nobody at work, the picture is of the current
\* content or the owner's, unless a call or a generation failed, the content was
\* restored, or an older generation finished last.
PicturesCurrent ==
  there /\ called = 0 /\ (\A w \in Workers : h[w].pc = "idle") =>
    \/ Current \in unseen
    \/ thumb # None /\ blob[thumb] \in {Current, Own}
=============================================================================
