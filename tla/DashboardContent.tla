--------------------------- MODULE DashboardContent ---------------------------
(***************************************************************************)
(* The content of one dashboard: its Firestore document, the objects it    *)
(* points to in storage, and its version history, under the route handlers *)
(* and the refresh worker that rewrite it.                                 *)
(*                                                                         *)
(* A handler reads the document once and works from that snapshot until it *)
(* ends; nothing serialises two handlers.  Each action below is one call   *)
(* to Firestore or to storage, so every interleaving of the calls of       *)
(* several handlers is a behaviour.                                        *)
(*                                                                         *)
(* Abstractions.  The file name is fixed, so the dashboard has one stable  *)
(* path (Stable) and one path per revision prefix.  An operation is        *)
(* numbered when it starts; the number also names the random revision      *)
(* prefix it would create and the content it would upload.  A package is   *)
(* one object that is Partial until every file of it is uploaded.  Of an   *)
(* upload's metadata there are its search text, the fields of a package    *)
(* (isMultiPage and storagePrefix, with which entrypoint and files are     *)
(* written) and its size (fileSizeBytes; fileName goes with it), each      *)
(* named by the content it was taken from.                                 *)
(***************************************************************************)
EXTENDS Naturals, FiniteSets

CONSTANTS
    Procs,        \* request handlers and workers
    Kinds,        \* the operations that occur
    Faults,       \* what the environment may do to a call
    MaxVersions,  \* MAX_VERSIONS of lib/versions.ts
    MaxOps,       \* bound: operations started in a behaviour
    InitialMulti, \* whether the dashboard was uploaded as a package
    Absent,       \* no object at a path
    NoText,       \* the empty search text
    Partial       \* a package whose upload has not finished

AllKinds  == {"html", "zip", "restore", "aiSave", "refresh", "delete"}
AllFaults == {"upload", "copy", "record", "read", "commit", "lostAck", "remove",
              "crash"}

Stable    == 0                  \* dashboards/{uid}/{id}/{fileName}
OpIds     == 1..MaxOps
Path      == {Stable} \cup OpIds
Content   == 0..MaxOps          \* 0 is what the dashboard was created with
VersionNo == 1..MaxOps

ASSUME ContentAssumption ==
    /\ MaxOps \in Nat
    /\ MaxVersions \in Nat \ {0}
    /\ Kinds \subseteq AllKinds
    /\ Faults \subseteq AllFaults
    /\ InitialMulti \subseteq BOOLEAN
    /\ Absent \notin Nat
    /\ Partial \notin Nat
    /\ NoText \notin Nat
    /\ Absent # Partial

\* Writers that overwrite the stable path in place instead of creating a
\* revision.
InPlaceKinds  == {"aiSave", "refresh"}
RevisionKinds == {"html", "zip", "restore"}

VARIABLES
    doc,         \* dashboards/{id}
    live,        \* objects under dashboards/{uid}/{id}/
    replacedAt,  \* dashboards/{id}/versions/{n}: its timestamp, 0 if no document
    verSize,     \* and its fileSizeBytes
    verFile,     \* objects under versions/{id}/{n}/
    clock,       \* Firestore server time, ticked by each serverTimestamp()
    h,           \* the handlers
    ops,         \* operations started
    owed,        \* history: contents the version archive owes to the owner
    overlap      \* history: whether two handlers have been at work at once

vars == <<doc, live, replacedAt, verSize, verFile, clock, h, ops, owed, overlap>>

Steps == {"idle", "pick", "survey", "copy", "record", "evictFile", "evictDoc",
          "upload", "unpack", "commit", "cleanup", "unlist", "purge"}

Idle == [pc |-> "idle", kind |-> "none", op |-> 0, path |-> Stable,
         multi |-> FALSE, prefix |-> Stable, size |-> 0, ver |-> 0,
         recorded |-> 0, num |-> 0, seen |-> [n \in VersionNo |-> 0], gc |-> {},
         text |-> 0, blank |-> FALSE]

Init ==
    /\ \E multi \in InitialMulti, ai \in BOOLEAN :
          /\ ~(multi /\ ai)              \* the builder saves single files only
          /\ doc = [exists |-> TRUE, path |-> Stable, multi |-> multi,
                    prefix |-> Stable, text |-> 0, size |-> 0, ai |-> ai]
          /\ owed = IF multi THEN {} ELSE {0}
    /\ live = [x \in Path |-> IF x = Stable THEN 0 ELSE Absent]
    /\ replacedAt = [n \in VersionNo |-> 0]
    /\ verSize = [n \in VersionNo |-> 0]
    /\ verFile = [n \in VersionNo |-> Absent]
    /\ clock = 0
    /\ h = [p \in Procs |-> Idle]
    /\ ops = 0
    /\ overlap = FALSE

-----------------------------------------------------------------------------
(* Helpers *)

VersionDocs == {n \in VersionNo : replacedAt[n] # 0}

Goto(p, step) == h' = [h EXCEPT ![p].pc = step]
Finish(p)     == h' = [h EXCEPT ![p] = Idle]
Uploaded(p, content) ==
    h' = [h EXCEPT ![p] = [@ EXCEPT !.pc = "commit", !.text = content]]

\* The archive step is for a single HTML file only: a replacement of a
\* package and a ZIP replacement go straight to their upload.
FirstStep(k) ==
    CASE k = "restore"                  -> "pick"
      [] k = "delete"                   -> "unlist"
      [] k = "zip"                      -> "upload"
      [] k = "html" /\ doc.multi        -> "upload"
      [] OTHER                          -> "survey"

\* Mutant: number by counting the documents.
IsCountPlusOne(n) == n = Cardinality(VersionDocs) + 1

\* The number archiveCurrentVersion gives to the next version: one more than
\* the highest number in use, whatever the number of documents.
IsNextVersion(n) ==
    /\ \A m \in VersionDocs : m < n
    /\ n = 1 \/ n - 1 \in VersionDocs

\* Mutant: the clean-up takes the newest documents.
NewestInstead(docs, k) ==
    {n \in docs : Cardinality({m \in docs : replacedAt[m] > replacedAt[n]}) < k}

\* The k oldest documents of a set of version documents.
Oldest(docs, k) ==
    {n \in docs : Cardinality({m \in docs : replacedAt[m] < replacedAt[n]}) < k}

\* Mutants: the protected version is not exempt; one version too many stays.
OverflowUnprotected(protected) ==
    IF Cardinality(VersionDocs) >= MaxVersions
    THEN Oldest(VersionDocs, Cardinality(VersionDocs) - MaxVersions + 1)
    ELSE {}
OverflowOneShort(protected) ==
    LET size == Cardinality(VersionDocs)
    IN  IF size > MaxVersions
        THEN Oldest(VersionDocs \ {protected}, size - MaxVersions)
        ELSE {}

\* FIFO clean-up: what is to go once one more version has been added.
Overflow(protected) ==
    LET size == Cardinality(VersionDocs)
    IN  IF size >= MaxVersions
        THEN Oldest(VersionDocs \ {protected}, size - MaxVersions + 1)
        ELSE {}

-----------------------------------------------------------------------------
(* Starting a handler: one read of the document. *)

Start(p, k) ==
    /\ h[p].pc = "idle"
    /\ doc.exists
    /\ k \in InPlaceKinds => doc.ai
    /\ ops < MaxOps
    /\ ops' = ops + 1
    /\ h' = [h EXCEPT ![p] =
                [Idle EXCEPT !.pc = FirstStep(k), !.kind = k, !.op = ops + 1,
                             !.path = doc.path, !.multi = doc.multi,
                             !.prefix = doc.prefix, !.size = doc.size]]
    /\ overlap' = (overlap \/ \E q \in Procs \ {p} : h[q].pc # "idle")
    /\ UNCHANGED <<doc, live, replacedAt, verSize, verFile, clock, owed>>

\* Restore: read the version document; a package cannot be restored over, and
\* the request may name a version that does not exist.
PickVersion(p, n) ==
    /\ h[p].pc = "pick"
    /\ n \in VersionDocs
    /\ ~h[p].multi
    /\ h' = [h EXCEPT ![p] = [@ EXCEPT !.pc = "survey", !.ver = n,
                                       !.recorded = verSize[n]]]
    /\ UNCHANGED <<doc, live, replacedAt, verFile, clock, ops, owed, verSize, overlap>>

RejectRestore(p) ==
    /\ h[p].pc = "pick"
    /\ Finish(p)
    /\ UNCHANGED <<doc, live, replacedAt, verFile, clock, ops, owed, verSize, overlap>>

-----------------------------------------------------------------------------
(* archiveCurrentVersion *)

\* Read the version documents.
SurveyVersions(p, n) ==
    /\ h[p].pc = "survey"
    /\ IsNextVersion(n)
    /\ h' = [h EXCEPT ![p] = [@ EXCEPT !.pc = "copy", !.num = n, !.seen = replacedAt,
                                       !.gc = Overflow(h[p].ver)]]
    /\ UNCHANGED <<doc, live, replacedAt, verFile, clock, ops, owed, verSize, overlap>>

\* Copy the live file, at the path of the handler's snapshot.
CopyToVersion(p) ==
    /\ h[p].pc = "copy"
    /\ live[h[p].path] # Absent
    /\ verFile' = [verFile EXCEPT ![h[p].num] = live[h[p].path]]
    /\ Goto(p, "record")
    /\ UNCHANGED <<doc, live, replacedAt, clock, ops, owed, verSize, overlap>>

\* Mutant: a failed copy does not stop the operation.
CopyFailureIgnored(p) ==
    /\ h[p].pc = "copy"
    /\ live[h[p].path] = Absent \/ "copy" \in Faults
    /\ Goto(p, "upload")
    /\ UNCHANGED <<doc, live, replacedAt, verFile, clock, ops, owed, verSize, overlap>>

\* No live file, or a storage error: the handler gives up before it has
\* changed anything.
CopyFails(p) ==
    /\ h[p].pc = "copy"
    /\ live[h[p].path] = Absent \/ "copy" \in Faults
    /\ Finish(p)
    /\ UNCHANGED <<doc, live, replacedAt, verFile, clock, ops, owed, verSize, overlap>>

AfterArchive(gc) == IF gc = {} THEN "upload" ELSE "evictFile"

\* The size is that of the handler's snapshot.
RecordVersion(p) ==
    /\ h[p].pc = "record"
    /\ clock' = clock + 1
    /\ replacedAt' = [replacedAt EXCEPT ![h[p].num] = clock + 1]
    /\ verSize' = [verSize EXCEPT ![h[p].num] = h[p].size]
    /\ Goto(p, AfterArchive(h[p].gc))
    /\ UNCHANGED <<doc, live, verFile, ops, owed, overlap>>

RecordFails(p) ==
    /\ h[p].pc = "record"
    /\ "record" \in Faults
    /\ Finish(p)
    /\ UNCHANGED <<doc, live, replacedAt, verFile, clock, ops, owed, verSize, overlap>>

\* FIFO clean-up, oldest version first in the order of the survey: its file,
\* then its document; an error of either call is ignored.
EvictFile(p, n) ==
    /\ h[p].pc = "evictFile"
    /\ n \in h[p].gc
    /\ \A m \in h[p].gc : h[p].seen[n] <= h[p].seen[m]
    /\ \/ verFile' = [verFile EXCEPT ![n] = Absent]
       \/ "remove" \in Faults /\ UNCHANGED verFile
    /\ owed' = owed \ {verFile[n]}
    /\ Goto(p, "evictDoc")
    /\ UNCHANGED <<doc, live, replacedAt, clock, ops, verSize, overlap>>

EvictDoc(p, n) ==
    /\ h[p].pc = "evictDoc"
    /\ n \in h[p].gc
    /\ \A m \in h[p].gc : h[p].seen[n] <= h[p].seen[m]
    /\ \/ replacedAt' = [replacedAt EXCEPT ![n] = 0]
       \/ "remove" \in Faults /\ UNCHANGED replacedAt
    /\ h' = [h EXCEPT ![p] = [@ EXCEPT !.gc = h[p].gc \ {n},
                                       !.pc = AfterArchive(h[p].gc \ {n})]]
    /\ UNCHANGED <<doc, live, verFile, clock, ops, owed, verSize, overlap>>

-----------------------------------------------------------------------------
(* Uploading the new content *)

UploadHtml(p) ==
    /\ h[p].pc = "upload" /\ h[p].kind = "html"
    /\ live' = [live EXCEPT ![h[p].op] = h[p].op]
    /\ Uploaded(p, h[p].op)
    /\ UNCHANGED <<doc, replacedAt, verFile, clock, ops, owed, verSize, overlap>>

\* A package is uploaded file by file under its own revision prefix.
UploadZip(p) ==
    /\ h[p].pc = "upload" /\ h[p].kind = "zip"
    /\ live' = [live EXCEPT ![h[p].op] = Partial]
    /\ Goto(p, "unpack")
    /\ UNCHANGED <<doc, replacedAt, verFile, clock, ops, owed, verSize, overlap>>

\* The entrypoint is read back for its text; a failure is swallowed.
UnpackZip(p) ==
    /\ h[p].pc = "unpack"
    /\ live' = [live EXCEPT ![h[p].op] = h[p].op]
    /\ \E blank \in {FALSE, "read" \in Faults} :
          h' = [h EXCEPT ![p] = [@ EXCEPT !.pc = "commit", !.text = h[p].op,
                                         !.blank = blank]]
    /\ UNCHANGED <<doc, replacedAt, verFile, clock, ops, owed, verSize, overlap>>

UnpackFails(p) ==
    /\ h[p].pc = "unpack"
    /\ "upload" \in Faults
    /\ \/ live' = [live EXCEPT ![h[p].op] = Absent]
       \/ "remove" \in Faults /\ UNCHANGED live
    /\ Finish(p)
    /\ UNCHANGED <<doc, replacedAt, verFile, clock, ops, owed, verSize, overlap>>

\* Restore copies the archived file into a revision of its own.
CopyFromVersion(p) ==
    /\ h[p].pc = "upload" /\ h[p].kind = "restore"
    /\ verFile[h[p].ver] # Absent
    /\ live' = [live EXCEPT ![h[p].op] = verFile[h[p].ver]]
    /\ Uploaded(p, verFile[h[p].ver])
    /\ UNCHANGED <<doc, replacedAt, verFile, clock, ops, owed, verSize, overlap>>

\* AI save of an existing dashboard, and refresh: the stable path again.
UploadInPlace(p) ==
    /\ h[p].pc = "upload" /\ h[p].kind \in InPlaceKinds
    /\ live' = [live EXCEPT ![Stable] = h[p].op]
    /\ Uploaded(p, h[p].op)
    /\ UNCHANGED <<doc, replacedAt, verFile, clock, ops, owed, verSize, overlap>>

UploadFails(p) ==
    /\ h[p].pc = "upload"
    /\ \/ "upload" \in Faults
       \/ h[p].kind = "restore" /\ verFile[h[p].ver] = Absent
    /\ Finish(p)
    /\ UNCHANGED <<doc, live, replacedAt, verFile, clock, ops, owed, verSize, overlap>>

-----------------------------------------------------------------------------
(* Publishing: one update of the document *)

\* The metadata of what the handler has uploaded.  A restore publishes the
\* size it has read in the version document.
Described(p) ==
    [doc EXCEPT !.path = IF h[p].kind \in InPlaceKinds THEN Stable ELSE h[p].op,
                !.text = IF h[p].blank THEN NoText ELSE h[p].text,
                !.size = IF h[p].kind = "restore" THEN h[p].recorded ELSE h[p].text]

\* Mutant: the fields of the package that a single file replaces are left.
CommittedOverPackage(p) ==
    IF h[p].kind = "zip" THEN [Described(p) EXCEPT !.multi = TRUE, !.prefix = h[p].op]
                         ELSE Described(p)

\* Only a replacement that has read a package clears its fields.
Committed(p) ==
    CASE h[p].kind = "zip" ->
           [Described(p) EXCEPT !.multi = TRUE, !.prefix = h[p].op]
      [] h[p].kind = "html" /\ h[p].multi ->
           [Described(p) EXCEPT !.multi = FALSE, !.prefix = Stable]
      [] OTHER -> Described(p)

\* A single file becomes owed to the archive once it is published; a ZIP
\* replacement discards the file it replaces.
OwedAfter(p) ==
    IF h[p].kind = "zip" THEN owed \ {live[doc.path]}
                         ELSE owed \cup {h[p].text}

Commit(p) ==
    /\ h[p].pc = "commit"
    /\ doc.exists
    /\ doc' = Committed(p)
    /\ owed' = OwedAfter(p)
    /\ IF h[p].kind \in InPlaceKinds THEN Finish(p) ELSE Goto(p, "cleanup")
    /\ UNCHANGED <<live, replacedAt, verFile, clock, ops, verSize, overlap>>

\* The update throws, because the document is gone or Firestore failed: a
\* revision writer deletes what it has uploaded (an error of that call is
\* ignored too), an in-place writer leaves it.
RollBack(p) ==
    \/ /\ h[p].kind \in RevisionKinds
       /\ live' = [live EXCEPT ![h[p].op] = Absent]
    \/ /\ h[p].kind \in InPlaceKinds \/ "remove" \in Faults
       /\ UNCHANGED live

CommitFails(p) ==
    /\ h[p].pc = "commit"
    /\ ~doc.exists \/ "commit" \in Faults
    /\ RollBack(p)
    /\ Finish(p)
    /\ UNCHANGED <<doc, replacedAt, verFile, clock, ops, owed, verSize, overlap>>

\* The update is applied but its acknowledgement is lost, so the client
\* library throws all the same.  The user is told that the upload failed:
\* nobody is owed that content.
CommitUnacknowledged(p) ==
    /\ h[p].pc = "commit"
    /\ doc.exists
    /\ "lostAck" \in Faults
    /\ doc' = Committed(p)
    /\ RollBack(p)
    /\ Finish(p)
    /\ UNCHANGED <<replacedAt, verFile, clock, ops, owed, verSize, overlap>>

\* Mutant: clean up the path read again after the update.
GarbageReread(p) == IF h[p].multi THEN h[p].prefix ELSE doc.path

\* What the handler deletes afterwards: the package or the file that its
\* snapshot says was live.
Garbage(p) == IF h[p].multi THEN h[p].prefix ELSE h[p].path

Cleanup(p) ==
    /\ h[p].pc = "cleanup"
    /\ \/ live' = [live EXCEPT ![Garbage(p)] = Absent]
       \/ "remove" \in Faults /\ UNCHANGED live
    /\ Finish(p)
    /\ UNCHANGED <<doc, replacedAt, verFile, clock, ops, owed, verSize, overlap>>

-----------------------------------------------------------------------------
(* Deleting the dashboard: the document first, then what it pointed to. *)

Unlist(p) ==
    /\ h[p].pc = "unlist"
    /\ doc' = [doc EXCEPT !.exists = FALSE]
    /\ owed' = {}
    /\ Goto(p, "purge")
    /\ UNCHANGED <<live, replacedAt, verFile, clock, ops, verSize, overlap>>

Purge(p) ==
    /\ h[p].pc = "purge"
    /\ \/ live' = IF h[p].multi THEN [x \in Path |-> Absent]
                   ELSE [live EXCEPT ![h[p].path] = Absent]
       \/ "remove" \in Faults /\ UNCHANGED live
    /\ Finish(p)
    /\ UNCHANGED <<doc, replacedAt, verFile, clock, ops, owed, verSize, overlap>>

-----------------------------------------------------------------------------
\* The server process dies: the handler does not run its catch blocks.
Crash(p) ==
    /\ "crash" \in Faults
    /\ h[p].pc # "idle"
    /\ Finish(p)
    /\ UNCHANGED <<doc, live, replacedAt, verFile, clock, ops, owed, verSize, overlap>>

Archive(p) ==
    \/ CopyToVersion(p) \/ CopyFails(p)
    \/ RecordVersion(p) \/ RecordFails(p)
    \/ \E n \in VersionNo :
          SurveyVersions(p, n) \/ EvictFile(p, n) \/ EvictDoc(p, n)

Upload(p) ==
    \/ UploadHtml(p) \/ UploadZip(p) \/ UnpackZip(p) \/ UnpackFails(p)
    \/ CopyFromVersion(p) \/ UploadInPlace(p) \/ UploadFails(p)

Publish(p) ==
    \/ Commit(p) \/ CommitFails(p) \/ CommitUnacknowledged(p) \/ Cleanup(p)

Step(p) ==
    \/ \E k \in Kinds : Start(p, k)
    \/ \E n \in VersionNo : PickVersion(p, n)
    \/ RejectRestore(p)
    \/ Archive(p) \/ Upload(p) \/ Publish(p)
    \/ Unlist(p) \/ Purge(p)
    \/ Crash(p)

Next == \E p \in Procs : Step(p)

Spec == Init /\ [][Next]_vars

-----------------------------------------------------------------------------
(* Properties *)

DocRecord ==
    [exists : BOOLEAN, path : Path, multi : BOOLEAN, prefix : Path,
     text : Content \cup {NoText}, size : Content, ai : BOOLEAN]

HandlerRecord ==
    [pc : Steps, kind : AllKinds \cup {"none"}, op : Path, path : Path,
     multi : BOOLEAN, prefix : Path, size : Content, ver : Content,
     recorded : Content, num : Content, seen : [VersionNo -> Nat],
     gc : SUBSET VersionNo, text : Content, blank : BOOLEAN]

\* The variables have their types; in particular what a handler is about to
\* publish is always a complete upload.
TypeOK ==
    /\ doc \in DocRecord
    /\ live \in [Path -> Content \cup {Absent, Partial}]
    /\ replacedAt \in [VersionNo -> Nat]
    /\ verSize \in [VersionNo -> Content]
    /\ verFile \in [VersionNo -> Content \cup {Absent}]
    /\ clock \in Nat
    /\ h \in [Procs -> HandlerRecord]
    /\ ops \in Content
    /\ owed \subseteq Content
    /\ overlap \in BOOLEAN

\* The document never points at an object that is missing or half uploaded.
\* replace/route.ts orders its calls for this: "the dashboard is never left
\* pointing at deleted content".
NoDanglingPointer == doc.exists => live[doc.path] \in Content

\* Whatever the writers, the interleaving and the faults, a half uploaded
\* package is never live: "a complete new package is uploaded before one
\* Firestore update makes it visible" (docs/ARCHITECTURE.md).
NeverHalfPublished == live[doc.path] # Partial

\* Every single HTML file that was ever published is still what viewers get,
\* or has a version document with its file, or was evicted by the FIFO limit:
\* versions.ts aborts an operation that cannot archive because "proceeding
\* without a successful archive would lose the live file".
NoContentLost ==
    doc.exists => \A c \in owed : \/ live[doc.path] = c
                                  \/ \E n \in VersionDocs : verFile[n] = c

\* The archive never holds more than MAX_VERSIONS versions once a handler has
\* finished archiving, even after crashes in the middle of earlier clean-ups.
ArchiveTrimmed ==
    \A p \in Procs : h[p].pc = "upload" /\ h[p].num # 0
                        => Cardinality(VersionDocs) <= MaxVersions

\* FIFO clean-up takes the oldest version first and spares only the one a
\* restore is reading, even when an earlier clean-up was cut short by a crash.
EvictsOldestFirst ==
    [][\A n \in VersionDocs : replacedAt'[n] = 0 =>
          \A m \in VersionDocs : replacedAt[m] < replacedAt[n] =>
             \E p \in Procs : h[p].kind = "restore" /\ h[p].ver = m]_vars

\* A version keeps the content it was archived with: a number freed by the
\* clean-up is never given to another file.
VersionsImmutable ==
    [][\A n \in VersionDocs :
          verFile'[n] = verFile[n] \/ verFile'[n] = Absent]_vars

\* A restore never loses the version it was asked to restore between reading
\* the version document and copying its file (protectVersionId).
RestoreSourceKept ==
    [][\A p \in Procs :
          h[p].kind = "restore" /\ h[p].ver # 0 /\ h'[p].ver = h[p].ver
            => verFile'[h[p].ver] = verFile[h[p].ver]]_vars

-----------------------------------------------------------------------------
(* With revision writers only, the handlers implement LiveContent. *)

OfDashboard(x) == IF doc.exists THEN x ELSE Absent

Abstract == INSTANCE LiveContent WITH
    Nothing <- Absent,
    served  <- OfDashboard(live[doc.path]),
    text    <- OfDashboard(doc.text),
    size    <- OfDashboard(doc.size),
    package <- OfDashboard(IF doc.multi THEN live[doc.prefix] ELSE Absent)

\* Viewers only ever get complete uploads, each put in place by a single step
\* with its own text and its own package, and with its own size: but for the
\* text of a package that could not be read back, and for what a single file
\* may keep of others once handlers have overlapped.  No clean-up touches the
\* file or the package that the document points to.
ImplementsLiveContent == Abstract!Spec
=============================================================================
