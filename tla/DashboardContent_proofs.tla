------------------------ MODULE DashboardContent_proofs ------------------------
(***************************************************************************)
(* Proofs about DashboardContent, for any number of handlers, operations   *)
(* and versions.                                                           *)
(***************************************************************************)
EXTENDS DashboardContent, FiniteSetTheorems, TLAPS

-----------------------------------------------------------------------------
(* The inductive invariant. *)

\* The steps of a handler before it has published, when its own revision is
\* known to nobody else.
Private == {"pick", "survey", "copy", "record", "evictFile", "evictDoc",
            "upload", "unpack", "commit"}

\* Operation numbers, and so revision paths, are handed out in order.
Numbered ==
    /\ doc.path <= ops /\ doc.prefix <= ops
    /\ \A p \in Procs : /\ h[p].op <= ops
                        /\ h[p].path <= ops
                        /\ h[p].prefix <= ops

\* Until a handler publishes its revision, neither the document nor another
\* handler's snapshot mentions it.
Fresh ==
    \A p \in Procs : h[p].pc \in Private =>
        /\ h[p].op # Stable
        /\ doc.path # h[p].op
        /\ doc.prefix # h[p].op
        /\ \A q \in Procs : /\ h[q].path # h[p].op
                            /\ h[q].prefix # h[p].op
                            /\ q # p => h[q].op # h[p].op

\* A half uploaded package is never published and never in a snapshot.
PartialHidden ==
    \A x \in Path : live[x] = Partial =>
        /\ x # Stable /\ x <= ops
        /\ doc.path # x
        /\ \A q \in Procs : /\ h[q].path # x
                            /\ h[q].op = x => h[q].pc = "unpack"

\* A restore has chosen an existing version number once it is past "pick".
Chosen ==
    \A p \in Procs : h[p].kind = "restore" =>
        h[p].pc = "pick" \/ h[p].ver \in VersionNo

TInv == TypeOK /\ Numbered /\ Fresh /\ PartialHidden /\ Chosen

\* Only a delete purges.
Purging == \A p \in Procs : h[p].pc = "purge" => ~doc.exists

\* What a handler is about to publish is in place.
Ready == \A p \in Procs : doc.exists /\ h[p].pc = "commit" =>
            live[h[p].op] = h[p].text

\* What a handler is about to delete is not what the document points to.
Unused ==
    \A p \in Procs : h[p].pc = "cleanup" =>
        /\ Garbage(p) # doc.path
        /\ doc.multi => Garbage(p) # doc.prefix

\* A handler that has read a single file has not read the package in use.
Apart ==
    \A p \in Procs : h[p].pc # "idle" /\ ~h[p].multi /\ doc.multi =>
        h[p].path # doc.prefix

\* Only a package is unpacked and may lack its text, and only a single file is
\* restored.
Parts ==
    \A p \in Procs :
        /\ h[p].blank => h[p].kind = "zip"
        /\ h[p].pc = "unpack" => h[p].kind = "zip"
        /\ h[p].pc = "commit" => h[p].kind \in RevisionKinds
        /\ h[p].kind = "restore" => h[p].pc = "pick" \/ ~h[p].multi

\* The document points to a complete upload.
Served == doc.exists => live[doc.path] \in Content

\* As long as no two handlers have overlapped, the one at work has read the
\* document as it is,
Current ==
    /\ \A p, q \in Procs : h[p].pc # "idle" /\ h[q].pc # "idle" => p = q
    /\ \A p \in Procs : h[p].pc \in Private =>
          /\ doc.exists
          /\ h[p].path = doc.path /\ h[p].multi = doc.multi /\ h[p].size = doc.size

\* the document and the versions have the sizes of their files,
Sized ==
    /\ doc.exists => doc.size = live[doc.path]
    /\ \A n \in VersionDocs : verFile[n] \in {Absent, verSize[n]}

\* and so do the version about to be recorded and the one to be restored.
Sizing ==
    \A p \in Procs :
        /\ h[p].pc \in {"copy", "record"} => h[p].num \in VersionNo \ VersionDocs
        /\ h[p].pc = "record" => verFile[h[p].num] = h[p].size
        /\ h[p].kind = "restore" /\ h[p].pc \in {"survey", "copy", "record"} =>
              h[p].ver \in VersionDocs
        /\ h[p].kind = "restore" /\ h[p].pc \in Private \ {"pick"} =>
              verFile[h[p].ver] \in {Absent, h[p].recorded}
        /\ h[p].kind = "restore" /\ h[p].pc = "commit" => h[p].recorded = h[p].text

Alone == ~overlap => Current /\ Sized /\ Sizing

\* The kinds the theorems below are about.
RevisionWritersOnly ==
    /\ Kinds \cap InPlaceKinds = {}
    /\ "lostAck" \notin Faults

NoInPlace == \A p \in Procs : h[p].kind \notin InPlaceKinds

SInv ==
    /\ TInv /\ NoInPlace /\ Purging /\ Ready /\ Unused /\ Apart /\ Parts /\ Served
    /\ Alone

-----------------------------------------------------------------------------
(* Type correctness *)

\* Every number the model hands out is a path, a content and a version.
LEMMA Names ==
    /\ Path = Content /\ VersionNo = OpIds /\ OpIds \subseteq Path
    /\ 0 \in Path /\ Stable = 0 /\ Content \subseteq Nat
    /\ Absent \notin Content /\ Partial \notin Content
  BY ContentAssumption DEF Path, Content, VersionNo, OpIds, Stable

\* A handler that moves on keeps a well-formed record.
LEMMA GotoType ==
    ASSUME h \in [Procs -> HandlerRecord], NEW p \in Procs,
           NEW s \in Steps, Goto(p, s)
    PROVE  h' \in [Procs -> HandlerRecord]
  BY DEF Goto, HandlerRecord

\* A handler that ends is an idle one.
LEMMA FinishType ==
    ASSUME h \in [Procs -> HandlerRecord], NEW p \in Procs, Finish(p)
    PROVE  h' \in [Procs -> HandlerRecord]
<1>1. Idle \in HandlerRecord
  BY Names DEF Idle, HandlerRecord, Steps
<1> QED BY <1>1 DEF Finish

\* A handler that has uploaded text t is about to commit it.
LEMMA UploadedType ==
    ASSUME h \in [Procs -> HandlerRecord], NEW p \in Procs,
           NEW t \in Content, Uploaded(p, t)
    PROVE  h' \in [Procs -> HandlerRecord]
<1>1. [h[p] EXCEPT !.pc = "commit", !.text = t] \in HandlerRecord
  BY DEF HandlerRecord, Steps
<1> QED BY <1>1 DEF Uploaded

\* No step gives a handler an ill-formed record.
LEMMA HandlerType ==
    ASSUME TypeOK, Chosen, NEW p \in Procs, Step(p)
    PROVE  h' \in [Procs -> HandlerRecord]
<1>0. h \in [Procs -> HandlerRecord]
  BY DEF TypeOK
<1>p. h[p] \in HandlerRecord
  BY <1>0
<1>1. ASSUME NEW k \in Kinds, Start(p, k)
      PROVE  h' \in [Procs -> HandlerRecord]
  <2>1. FirstStep(k) \in Steps
    BY DEF FirstStep, Steps
  <2>2. ops + 1 \in Path /\ k \in AllKinds
    BY <1>1, ContentAssumption DEF Start, TypeOK, Path, Content, OpIds
  <2>3. [Idle EXCEPT !.pc = FirstStep(k), !.kind = k, !.op = ops + 1,
                     !.path = doc.path, !.multi = doc.multi,
                     !.prefix = doc.prefix, !.size = doc.size]
           \in HandlerRecord
    BY <2>1, <2>2, Names DEF HandlerRecord, TypeOK, DocRecord, Idle
  <2> QED BY <1>0, <1>1, <2>3 DEF Start
<1>2. ASSUME NEW n \in VersionNo, PickVersion(p, n)
      PROVE  h' \in [Procs -> HandlerRecord]
  <2>1. [h[p] EXCEPT !.pc = "survey", !.ver = n, !.recorded = verSize[n]]
           \in HandlerRecord
    BY <1>p, Names DEF HandlerRecord, Steps, TypeOK
  <2> QED BY <1>0, <1>2, <2>1 DEF PickVersion
<1>3. ASSUME NEW n \in VersionNo, SurveyVersions(p, n)
      PROVE  h' \in [Procs -> HandlerRecord]
  <2>1. Overflow(h[p].ver) \subseteq VersionNo
    BY DEF Overflow, Oldest, VersionDocs
  <2>2. [h[p] EXCEPT !.pc = "copy", !.num = n, !.seen = replacedAt,
                     !.gc = Overflow(h[p].ver)] \in HandlerRecord
    BY <1>p, <2>1, Names DEF HandlerRecord, Steps, TypeOK
  <2> QED BY <1>0, <1>3, <2>2 DEF SurveyVersions
<1>4. ASSUME NEW n \in VersionNo, EvictDoc(p, n)
      PROVE  h' \in [Procs -> HandlerRecord]
  <2>1. AfterArchive(h[p].gc \ {n}) \in Steps
    BY DEF AfterArchive, Steps
  <2>2. [h[p] EXCEPT !.gc = h[p].gc \ {n},
                     !.pc = AfterArchive(h[p].gc \ {n})] \in HandlerRecord
    BY <1>p, <2>1 DEF HandlerRecord
  <2> QED BY <1>0, <1>4, <2>2 DEF EvictDoc
<1>5. CASE CopyToVersion(p) \/ UploadZip(p) \/ Commit(p) \/ Unlist(p)
           \/ RecordVersion(p) \/ \E n \in VersionNo : EvictFile(p, n)
  <2>1. PICK s \in Steps \cup {"idle"} : Goto(p, s) \/ Finish(p)
    BY <1>5 DEF CopyToVersion, UploadZip, Commit, Unlist, RecordVersion,
                EvictFile, AfterArchive, Steps
  <2> QED BY <1>0, <2>1, GotoType, FinishType DEF Steps
<1>6. CASE UploadHtml(p) \/ UploadInPlace(p)
  <2>1. Uploaded(p, h[p].op) /\ h[p].op \in Content
    BY <1>6, <1>p, Names DEF UploadHtml, UploadInPlace, HandlerRecord
  <2> QED BY <1>0, <2>1, UploadedType
<1>9. CASE UnpackZip(p)
  <2>1. PICK b \in BOOLEAN :
           h' = [h EXCEPT ![p] = [h[p] EXCEPT !.pc = "commit", !.text = h[p].op,
                                             !.blank = b]]
    <3>1. {FALSE, "read" \in Faults} \subseteq BOOLEAN
      OBVIOUS
    <3> QED BY <1>9, <1>0, <3>1 DEF UnpackZip
  <2>2. [h[p] EXCEPT !.pc = "commit", !.text = h[p].op, !.blank = b]
           \in HandlerRecord
    BY <1>p, Names DEF HandlerRecord, Steps
  <2> QED BY <1>0, <2>1, <2>2
<1>7. CASE CopyFromVersion(p)
  <2>1. verFile[h[p].ver] \in Content
    BY <1>7 DEF CopyFromVersion, Chosen, TypeOK
  <2> QED BY <1>0, <1>7, <2>1, UploadedType DEF CopyFromVersion
<1>8. CASE RejectRestore(p) \/ CopyFails(p) \/ RecordFails(p)
           \/ UnpackFails(p) \/ UploadFails(p) \/ CommitFails(p)
           \/ CommitUnacknowledged(p) \/ Cleanup(p) \/ Purge(p) \/ Crash(p)
  BY <1>0, <1>8, FinishType
     DEF RejectRestore, CopyFails, RecordFails, UnpackFails, UploadFails,
         CommitFails, CommitUnacknowledged, Cleanup, Purge, Crash
<1> QED BY <1>1, <1>2, <1>3, <1>4, <1>5, <1>6, <1>7, <1>8, <1>9
           DEF Step, Archive, Upload, Publish

\* What a step may do to each variable but h.
LEMMA StepEffects ==
    ASSUME NEW p \in Procs, Step(p)
    PROVE
    /\ \/ doc' = doc
       \/ doc' = [doc EXCEPT !.exists = FALSE]
       \/ Commit(p) \/ CommitUnacknowledged(p)
    /\ \/ live' = live
       \/ live' = [live EXCEPT ![h[p].op] = h[p].op]
       \/ UploadZip(p)
       \/ live' = [live EXCEPT ![h[p].op] = Absent]
       \/ CopyFromVersion(p)
       \/ live' = [live EXCEPT ![Stable] = h[p].op]
       \/ live' = [live EXCEPT ![Garbage(p)] = Absent]
       \/ live' = [live EXCEPT ![h[p].path] = Absent]
       \/ live' = [x \in Path |-> Absent]
    /\ \/ replacedAt' = replacedAt /\ clock' = clock
       \/ RecordVersion(p)
       \/ \E n \in VersionNo : EvictDoc(p, n)
    /\ \/ verSize' = verSize
       \/ verSize' = [verSize EXCEPT ![h[p].num] = h[p].size]
    /\ \/ verFile' = verFile
       \/ CopyToVersion(p)
       \/ \E n \in VersionNo : verFile' = [verFile EXCEPT ![n] = Absent]
    /\ overlap' = overlap \/ \E k \in Kinds : Start(p, k)
    /\ ops' = ops \/ (ops < MaxOps /\ ops' = ops + 1)
    /\ owed' \subseteq owed \/ owed' = OwedAfter(p)
<1> USE DEF Step, Archive, Upload, Publish, Start, PickVersion, RejectRestore,
            CopyToVersion, CopyFails, RecordVersion, RecordFails,
            SurveyVersions, EvictFile, EvictDoc, UploadHtml, UploadZip,
            UnpackZip, UnpackFails, CopyFromVersion, UploadInPlace,
            UploadFails, Commit, CommitFails, CommitUnacknowledged, RollBack,
            Cleanup, Unlist, Purge, Crash
<1>1. \/ doc' = doc
      \/ doc' = [doc EXCEPT !.exists = FALSE]
      \/ Commit(p) \/ CommitUnacknowledged(p)
  OBVIOUS
<1>2. \/ live' = live
      \/ live' = [live EXCEPT ![h[p].op] = h[p].op]
      \/ UploadZip(p)
      \/ live' = [live EXCEPT ![h[p].op] = Absent]
      \/ CopyFromVersion(p)
      \/ live' = [live EXCEPT ![Stable] = h[p].op]
      \/ live' = [live EXCEPT ![Garbage(p)] = Absent]
      \/ live' = [live EXCEPT ![h[p].path] = Absent]
      \/ live' = [x \in Path |-> Absent]
  OBVIOUS
<1>3. \/ replacedAt' = replacedAt /\ clock' = clock
      \/ RecordVersion(p)
      \/ \E n \in VersionNo : EvictDoc(p, n)
  OBVIOUS
<1>4. \/ verFile' = verFile
      \/ CopyToVersion(p)
      \/ \E n \in VersionNo : verFile' = [verFile EXCEPT ![n] = Absent]
  OBVIOUS
<1>5. ops' = ops \/ (ops < MaxOps /\ ops' = ops + 1)
  OBVIOUS
<1>6. owed' \subseteq owed \/ owed' = OwedAfter(p)
  OBVIOUS
<1>7. \/ verSize' = verSize
      \/ verSize' = [verSize EXCEPT ![h[p].num] = h[p].size]
  OBVIOUS
<1>8. overlap' = overlap \/ \E k \in Kinds : Start(p, k)
  OBVIOUS
<1> QED BY <1>1, <1>2, <1>3, <1>4, <1>5, <1>6, <1>7, <1>8

\* The fields that a handler writes to the document.
LEMMA DescribedFields ==
    ASSUME TypeOK, NEW p \in Procs
    PROVE  /\ Described(p) \in DocRecord
           /\ Described(p).path =
                 IF h[p].kind \in InPlaceKinds THEN Stable ELSE h[p].op
           /\ Described(p).text = IF h[p].blank THEN NoText ELSE h[p].text
           /\ Described(p).size =
                 IF h[p].kind = "restore" THEN h[p].recorded ELSE h[p].text
           /\ Described(p).multi = doc.multi /\ Described(p).prefix = doc.prefix
           /\ Described(p).exists = doc.exists /\ Described(p).ai = doc.ai
<1>1. doc \in DocRecord /\ h[p] \in HandlerRecord
  BY DEF TypeOK
<1>2. PICK path \in Path, text \in Content \cup {NoText}, size \in Content :
         /\ path = IF h[p].kind \in InPlaceKinds THEN Stable ELSE h[p].op
         /\ text = IF h[p].blank THEN NoText ELSE h[p].text
         /\ size = IF h[p].kind = "restore" THEN h[p].recorded ELSE h[p].text
  BY <1>1, Names DEF HandlerRecord
<1>3. Described(p) = [doc EXCEPT !.path = path, !.text = text, !.size = size]
  BY <1>2 DEF Described
<1> QED BY <1>1, <1>2, <1>3 DEF DocRecord

\* What a handler writes to the document is a document.
LEMMA CommittedType ==
    ASSUME TypeOK, NEW p \in Procs
    PROVE  Committed(p) \in DocRecord
<1>0. Described(p) \in DocRecord /\ h[p].op \in Path
  BY DescribedFields DEF TypeOK, HandlerRecord
<1> QED BY <1>0, Names DEF Committed, DocRecord

\* A step of a handler keeps the types; that it publishes no partial upload
\* is what PartialHidden is needed for.
LEMMA TypeStep ==
    ASSUME TypeOK, Chosen, PartialHidden, NEW p \in Procs, Step(p)
    PROVE  TypeOK'
<1>1. h' \in [Procs -> HandlerRecord]
  BY HandlerType
<1>p. /\ h[p] \in HandlerRecord
      /\ h[p].op \in Path /\ h[p].op \in Content /\ h[p].path \in Path
  BY Names DEF TypeOK, HandlerRecord
<1>2. doc' \in DocRecord
  <2>1. [doc EXCEPT !.exists = FALSE] \in DocRecord
    BY DEF TypeOK, DocRecord
  <2> QED BY <2>1, StepEffects, CommittedType
          DEF TypeOK, Commit, CommitUnacknowledged
<1>3. live' \in [Path -> Content \cup {Absent, Partial}]
  <2>1. CASE CopyFromVersion(p)
    <3>1. verFile[h[p].ver] \in Content \cup {Absent}
      BY <2>1 DEF CopyFromVersion, Chosen, TypeOK
    <3> QED BY <2>1, <3>1, <1>p DEF CopyFromVersion, TypeOK
  <2>2. CASE ~CopyFromVersion(p)
    BY <2>2, <1>p, StepEffects DEF TypeOK, UploadZip
  <2> QED BY <2>1, <2>2
<1>4. replacedAt' \in [VersionNo -> Nat] /\ clock' \in Nat
  <2>0. /\ replacedAt \in [VersionNo -> Nat] /\ clock \in Nat
        /\ 0 \in Nat /\ clock + 1 \in Nat
    BY DEF TypeOK
  <2>1. CASE RecordVersion(p)
    BY <2>0, <2>1 DEF RecordVersion
  <2>2. ASSUME NEW n \in VersionNo, EvictDoc(p, n)
        PROVE  replacedAt' \in [VersionNo -> Nat] /\ clock' \in Nat
    BY <2>0, <2>2 DEF EvictDoc
  <2> QED BY <2>0, <2>1, <2>2, StepEffects
<1>5. verFile' \in [VersionNo -> Content \cup {Absent}]
  <2>1. CASE CopyToVersion(p)
    <3>1. live[h[p].path] \in Content
      BY <1>p, <2>1 DEF CopyToVersion, TypeOK, PartialHidden
    <3> QED BY <2>1, <3>1 DEF CopyToVersion, TypeOK
  <2>2. CASE ~CopyToVersion(p)
    BY <2>2, StepEffects DEF TypeOK
  <2> QED BY <2>1, <2>2
<1>6. ops' \in Content
  <2>1. ops' = ops \/ (ops < MaxOps /\ ops' = ops + 1)
    BY StepEffects
  <2>2. ops \in 0..MaxOps /\ MaxOps \in Nat
    BY ContentAssumption DEF TypeOK, Content
  <2> QED BY <2>1, <2>2 DEF Content
<1>7. owed' \subseteq Content
  <2>1. OwedAfter(p) \subseteq Content
    BY <1>p DEF OwedAfter, TypeOK, HandlerRecord
  <2> QED BY <2>1, StepEffects DEF TypeOK
<1>8. verSize' \in [VersionNo -> Content]
  BY <1>p, StepEffects DEF TypeOK, HandlerRecord
<1>9. overlap' \in BOOLEAN
  <2>1. ASSUME NEW k \in Kinds, Start(p, k) PROVE overlap' \in BOOLEAN
    BY <2>1 DEF Start
  <2>2. overlap \in BOOLEAN
    BY DEF TypeOK
  <2> QED BY <2>1, <2>2, StepEffects
<1> QED BY <1>1, <1>2, <1>3, <1>4, <1>5, <1>6, <1>7, <1>8, <1>9 DEF TypeOK

-----------------------------------------------------------------------------
(* Who knows which path *)

\* A step after the first one ends the handler, or leaves the names it works
\* with alone.
Moves(p) ==
    \/ h'[p] = Idle
    \/ /\ h[p].pc # "idle"
       /\ h'[p].op = h[p].op /\ h'[p].kind = h[p].kind
       /\ h'[p].path = h[p].path /\ h'[p].prefix = h[p].prefix
       /\ h'[p].multi = h[p].multi /\ h'[p].size = h[p].size
       /\ h'[p].pc \in Private => h[p].pc \in Private
       /\ h'[p].kind = "restore" => h'[p].pc = "pick" \/ h'[p].ver \in VersionNo

\* A step of one handler leaves the others alone: it starts, or moves on.
LEMMA StepMoves ==
    ASSUME TypeOK, Chosen, NEW p \in Procs, Step(p)
    PROVE  /\ \A q \in Procs \ {p} : h'[q] = h[q]
           /\ (\E k \in Kinds : Start(p, k)) \/ Moves(p)
<1>0. h \in [Procs -> HandlerRecord]
  BY DEF TypeOK
<1> DEFINE Others == \A q \in Procs \ {p} : h'[q] = h[q]
<1>1. CASE \E k \in Kinds : Start(p, k)
  BY <1>0, <1>1 DEF Start
<1>2. ASSUME NEW n \in VersionNo, PickVersion(p, n) PROVE Others /\ Moves(p)
  BY <1>0, <1>2 DEF PickVersion, Moves, Private
<1>3. ASSUME NEW n \in VersionNo, SurveyVersions(p, n) PROVE Others /\ Moves(p)
  BY <1>0, <1>3 DEF SurveyVersions, Moves, Private, Chosen
<1>4. ASSUME NEW n \in VersionNo, EvictDoc(p, n) PROVE Others /\ Moves(p)
  <2>1. h[p].pc = "evictDoc" /\ h'[p] = [h[p] EXCEPT !.gc = h[p].gc \ {n},
                              !.pc = AfterArchive(h[p].gc \ {n})]
    BY <1>0, <1>4 DEF EvictDoc
  <2>2. AfterArchive(h[p].gc \ {n}) # "pick"
    BY DEF AfterArchive
  <2> QED BY <1>0, <1>4, <2>1, <2>2 DEF EvictDoc, Moves, Private, Chosen, HandlerRecord
<1>5. CASE CopyToVersion(p) \/ UploadZip(p) \/ Commit(p) \/ Unlist(p)
           \/ RecordVersion(p) \/ \E n \in VersionNo : EvictFile(p, n)
  <2>1. CASE Finish(p)
    BY <1>0, <2>1 DEF Finish, Moves
  <2>2. PICK s : /\ h' = [h EXCEPT ![p].pc = s] \/ Finish(p)
                 /\ s # "pick" /\ h[p].pc \notin {"idle", "pick"}
                 /\ s \in Private => h[p].pc \in Private
    BY <1>5 DEF CopyToVersion, UploadZip, Commit, Unlist, RecordVersion,
                EvictFile, AfterArchive, Goto, Private
  <2>3. CASE ~Finish(p)
    <3>1. h'[p] = [h[p] EXCEPT !.pc = s]
      BY <1>0, <2>2, <2>3
    <3> QED BY <1>0, <2>2, <2>3, <3>1 DEF Moves, Chosen, HandlerRecord
  <2> QED BY <2>1, <2>3
<1>7. CASE UnpackZip(p)
  <2>1. PICK b : h' = [h EXCEPT ![p] = [h[p] EXCEPT !.pc = "commit",
                                                    !.text = h[p].op, !.blank = b]]
    BY <1>0, <1>7 DEF UnpackZip
  <2>2. h'[p] = [h[p] EXCEPT !.pc = "commit", !.text = h[p].op, !.blank = b]
    BY <1>0, <2>1
  <2> QED BY <1>0, <1>7, <2>1, <2>2 DEF UnpackZip, Moves, Private, Chosen, HandlerRecord
<1>6. CASE UploadHtml(p) \/ UploadInPlace(p) \/ CopyFromVersion(p)
  <2>1. PICK t : Uploaded(p, t) /\ h[p].pc = "upload"
    BY <1>6 DEF UploadHtml, UploadInPlace, CopyFromVersion
  <2>2. h'[p] = [h[p] EXCEPT !.pc = "commit", !.text = t]
    BY <1>0, <2>1 DEF Uploaded
  <2> QED BY <1>0, <2>1, <2>2
          DEF Uploaded, Moves, Private, Chosen, HandlerRecord
<1>8. CASE RejectRestore(p) \/ CopyFails(p) \/ RecordFails(p)
           \/ UnpackFails(p) \/ UploadFails(p) \/ CommitFails(p)
           \/ CommitUnacknowledged(p) \/ Cleanup(p) \/ Purge(p) \/ Crash(p)
  BY <1>0, <1>8
     DEF RejectRestore, CopyFails, RecordFails, UnpackFails, UploadFails,
         CommitFails, CommitUnacknowledged, Cleanup, Purge, Crash, Finish, Moves
<1> QED BY <1>1, <1>2, <1>3, <1>4, <1>5, <1>6, <1>7, <1>8
           DEF Step, Archive, Upload, Publish

\* A step leaves the document's pointers alone, drops them to the stable path,
\* or publishes the handler's own revision.
LEMMA DocPaths ==
    ASSUME TypeOK, NEW p \in Procs, Step(p)
    PROVE  \/ doc'.path = doc.path /\ doc'.prefix = doc.prefix
           \/ /\ h[p].pc = "commit" /\ h'[p].pc \notin Private
              /\ doc'.path \in {Stable, h[p].op}
              /\ doc'.prefix \in {doc.prefix, Stable, h[p].op}
<1>0. h \in [Procs -> HandlerRecord] /\ doc \in DocRecord
  BY DEF TypeOK
<1>1. Committed(p).path \in {Stable, h[p].op}
  BY <1>0, DescribedFields DEF Committed, DocRecord
<1>2. Committed(p).prefix \in {doc.prefix, Stable, h[p].op}
  BY <1>0, DescribedFields DEF Committed, DocRecord
<1>3. CASE Commit(p) \/ CommitUnacknowledged(p)
  <2>1. h[p].pc = "commit" /\ doc' = Committed(p)
    BY <1>3 DEF Commit, CommitUnacknowledged
  <2>2. h'[p].pc \in {"idle", "cleanup"}
    BY <1>0, <1>3
       DEF Commit, CommitUnacknowledged, Goto, Finish, Idle, HandlerRecord
  <2> QED BY <1>1, <1>2, <2>1, <2>2 DEF Private
<1>4. CASE ~(Commit(p) \/ CommitUnacknowledged(p))
  <2>1. doc' = doc \/ doc' = [doc EXCEPT !.exists = FALSE]
    BY <1>4, StepEffects
  <2> QED BY <1>0, <2>1 DEF DocRecord
<1> QED BY <1>3, <1>4

\* What an operation that starts has read.
LEMMA StartFields ==
    ASSUME h \in [Procs -> HandlerRecord], NEW p \in Procs, NEW k \in Kinds,
           Start(p, k)
    PROVE  /\ h'[p].pc = FirstStep(k) /\ h'[p].kind = k /\ h'[p].op = ops + 1
           /\ h'[p].path = doc.path /\ h'[p].multi = doc.multi
           /\ h'[p].prefix = doc.prefix /\ h'[p].size = doc.size
           /\ h'[p].ver = 0 /\ h'[p].num = 0 /\ h'[p].gc = {}
           /\ h'[p].blank = FALSE
<1>1. h'[p] = [Idle EXCEPT !.pc = FirstStep(k), !.kind = k, !.op = ops + 1,
                           !.path = doc.path, !.multi = doc.multi,
                           !.prefix = doc.prefix, !.size = doc.size]
  BY DEF Start
<1> QED BY <1>1 DEF Idle

\* The operation that starts takes the next number, which no path has yet.
LEMMA StartNames ==
    ASSUME TInv, NEW p \in Procs, NEW k \in Kinds, Start(p, k)
    PROVE  Numbered' /\ Fresh' /\ Chosen'
<1>0. h \in [Procs -> HandlerRecord] /\ ops \in Nat /\ doc \in DocRecord
  BY Names DEF TInv, TypeOK
<1>1. /\ \A q \in Procs \ {p} : h'[q] = h[q]
      /\ h'[p].op = ops + 1 /\ h'[p].kind = k
      /\ h'[p].path = doc.path /\ h'[p].prefix = doc.prefix
      /\ h'[p].pc = FirstStep(k)
      /\ ops' = ops + 1 /\ doc' = doc
  BY <1>0, StartFields DEF Start
<1>2. /\ doc.path \in Nat /\ doc.prefix \in Nat
      /\ \A q \in Procs : h[q].op \in Nat /\ h[q].path \in Nat /\ h[q].prefix \in Nat
  BY <1>0, Names DEF DocRecord, HandlerRecord
<1>3. Numbered'
  BY <1>0, <1>1, <1>2 DEF TInv, Numbered
<1>4. Fresh'
  BY <1>0, <1>1, <1>2 DEF TInv, Numbered, Fresh, Stable
<1>5. Chosen'
  BY <1>1 DEF TInv, Chosen, FirstStep
<1> QED BY <1>3, <1>4, <1>5

\* An operation that goes on keeps its number.
LEMMA MovesNames ==
    ASSUME TInv, NEW p \in Procs, Step(p), Moves(p)
    PROVE  Numbered' /\ Fresh' /\ Chosen'
<1>0. h \in [Procs -> HandlerRecord] /\ ops \in Nat /\ doc \in DocRecord
  BY Names DEF TInv, TypeOK
<1>1. \A q \in Procs : q # p => h'[q] = h[q]
  BY StepMoves DEF TInv
<1>2. /\ doc.path \in Nat /\ doc.prefix \in Nat
      /\ \A q \in Procs : h[q].op \in Nat /\ h[q].path \in Nat /\ h[q].prefix \in Nat
  BY <1>0, Names DEF DocRecord, HandlerRecord
<1>3. ops' = ops \/ ops' = ops + 1
  BY StepEffects
<1>4. \/ doc'.path = doc.path /\ doc'.prefix = doc.prefix
      \/ /\ h[p].pc = "commit" /\ h'[p].pc \notin Private
         /\ doc'.path \in {Stable, h[p].op}
         /\ doc'.prefix \in {doc.prefix, Stable, h[p].op}
  BY DocPaths DEF TInv
<1>5. Idle.pc = "idle" /\ Idle.op = 0 /\ Idle.path = 0 /\ Idle.prefix = 0
      /\ Idle.kind = "none"
  BY DEF Idle, Stable
<1>6. Numbered'
  BY <1>1, <1>2, <1>3, <1>4, <1>5, <1>0 DEF TInv, Numbered, Moves, Stable
<1>7. Fresh'
  BY <1>1, <1>2, <1>4, <1>5, <1>0 DEF TInv, Fresh, Moves, Stable, Private
<1>8. Chosen'
  BY <1>1, <1>5 DEF TInv, Chosen, Moves
<1> QED BY <1>6, <1>7, <1>8

\* A package being unpacked stays out of the document and of the archive.
LEMMA PartialStep ==
    ASSUME TInv, NEW p \in Procs, Step(p)
    PROVE  PartialHidden'
<1>0. /\ h \in [Procs -> HandlerRecord] /\ ops \in Nat
      /\ live \in [Path -> Content \cup {Absent, Partial}]
      /\ Partial \notin Content /\ Absent # Partial /\ Stable = 0
  BY Names, ContentAssumption DEF TInv, TypeOK
<1>1. CASE UploadZip(p)
  <2>1. /\ h[p].pc = "upload" /\ ops' = ops /\ doc' = doc
        /\ live' = [live EXCEPT ![h[p].op] = Partial]
        /\ h' = [h EXCEPT ![p].pc = "unpack"]
    BY <1>1 DEF UploadZip, Goto
  <2>2. \A q \in Procs : /\ h'[q].path = h[q].path /\ h'[q].op = h[q].op
                         /\ h'[q].pc = IF q = p THEN "unpack" ELSE h[q].pc
    BY <1>0, <2>1 DEF HandlerRecord
  <2>3. \A x \in Path : live'[x] = Partial => live[x] = Partial \/ x = h[p].op
    BY <1>0, <2>1
  <2> QED BY <1>0, <2>1, <2>2, <2>3
          DEF TInv, Fresh, Numbered, PartialHidden, Private
<1>2. CASE ~UploadZip(p)
  <2>1. ASSUME NEW x \in Path, live'[x] = Partial
        PROVE  live[x] = Partial
    <3>1. CASE CopyFromVersion(p)
      <4>1. verFile[h[p].ver] # Partial
        BY <1>0, <3>1 DEF CopyFromVersion, TInv, TypeOK, Chosen
      <4> QED BY <1>0, <2>1, <3>1, <4>1 DEF CopyFromVersion
    <3>2. CASE ~CopyFromVersion(p)
      <4>1. h[p].op # Partial
        BY <1>0, ContentAssumption, Names DEF HandlerRecord
      <4> QED BY <1>0, <1>2, <2>1, <3>2, <4>1, StepEffects
    <3> QED BY <3>1, <3>2
  <2>2. ASSUME NEW x \in Path, live'[x] = Partial
        PROVE  x # Stable /\ x <= ops'
    BY <1>0, <2>1, <2>2, Names, StepEffects DEF TInv, PartialHidden
  <2>3. ASSUME NEW x \in Path, live'[x] = Partial
        PROVE  doc'.path # x
    BY <2>1, <2>3, DocPaths DEF TInv, PartialHidden, Fresh, Private
  <2>4. ASSUME NEW x \in Path, live'[x] = Partial, NEW q \in Procs
        PROVE  /\ h'[q].path # x
               /\ h'[q].op = x => h'[q].pc = "unpack"
    <3>0. /\ live[x] = Partial /\ x # Stable /\ x <= ops /\ doc.path # x
          /\ h[q].path # x
          /\ h[q].op = x => h[q].pc = "unpack"
      BY <2>1, <2>4 DEF TInv, PartialHidden
    <3>1. CASE q # p
      BY <3>0, <3>1, StepMoves DEF TInv
    <3>2. ASSUME q = p, NEW k \in Kinds, Start(p, k)
          PROVE  h'[q].path # x /\ h'[q].op # x
      <4>1. h'[p].path = doc.path /\ h'[p].op = ops + 1
        BY <1>0, <3>2, StartFields
      <4> QED BY <1>0, <3>0, <3>2, <4>1, Names
    <3>3. CASE q = p /\ Moves(p) /\ h[p].pc = "unpack"
      <4>1. UnpackZip(p) \/ UnpackFails(p) \/ Crash(p)
        BY <3>3 DEF Step, Archive, Upload, Publish, Start, PickVersion,
           RejectRestore, CopyToVersion, CopyFails, RecordVersion,
           RecordFails, SurveyVersions, EvictFile, EvictDoc, UploadHtml,
           UploadZip, CopyFromVersion, UploadInPlace, UploadFails, Commit,
           CommitFails, CommitUnacknowledged, Cleanup, Unlist, Purge
      <4>2. CASE UnpackZip(p)
        <5>1. live'[h[p].op] # Partial
          BY <1>0, <4>2, Names, ContentAssumption
             DEF UnpackZip, HandlerRecord
        <5> QED BY <2>4, <3>0, <3>3, <5>1, Names DEF Moves, Idle
      <4>3. CASE UnpackFails(p) \/ Crash(p)
        BY <1>0, <3>0, <3>3, <4>3 DEF UnpackFails, Crash, Finish, Idle
      <4> QED BY <4>1, <4>2, <4>3
    <3>4. CASE q = p /\ Moves(p) /\ h[p].pc # "unpack"
      BY <3>0, <3>4, Names DEF Moves, Idle
    <3> QED BY <3>0, <3>1, <3>2, <3>3, <3>4, StepMoves DEF TInv
  <2> QED BY <2>2, <2>3, <2>4 DEF PartialHidden
<1> QED BY <1>1, <1>2

\* The first upload satisfies the type part of the invariant.
LEMMA TInvInit == Init => TInv
<1> SUFFICES ASSUME Init PROVE TInv
  OBVIOUS
<1>1. PICK multi \in InitialMulti, ai \in BOOLEAN :
        doc = [exists |-> TRUE, path |-> Stable, multi |-> multi,
               prefix |-> Stable, text |-> 0, size |-> 0, ai |-> ai]
  BY DEF Init
<1>2. Idle \in HandlerRecord
  BY Names DEF Idle, HandlerRecord, Steps
<1>3. /\ \A p \in Procs : h[p] = Idle
      /\ ops = 0 /\ live = [x \in Path |-> IF x = Stable THEN 0 ELSE Absent]
  BY DEF Init
<1>4. TypeOK
  BY <1>1, <1>2, Names, ContentAssumption DEF Init, TypeOK, DocRecord
<1>5. Numbered /\ Fresh /\ Chosen
  BY <1>1, <1>3, Names DEF Numbered, Fresh, Chosen, Idle, Private
<1>6. PartialHidden
  BY <1>1, <1>3, ContentAssumption DEF PartialHidden, Idle
<1> QED BY <1>4, <1>5, <1>6 DEF TInv

\* Every step keeps the type part of the invariant.
LEMMA TInvNext == TInv /\ [Next]_vars => TInv'
<1> SUFFICES ASSUME TInv, [Next]_vars PROVE TInv'
  OBVIOUS
<1>1. CASE UNCHANGED vars
  BY <1>1 DEF vars, TInv, TypeOK, Numbered, Fresh, PartialHidden, Chosen
<1>2. ASSUME NEW p \in Procs, Step(p) PROVE TInv'
  <2>1. TypeOK' /\ PartialHidden'
    BY <1>2, TypeStep, PartialStep DEF TInv
  <2>2. Numbered' /\ Fresh' /\ Chosen'
    BY <1>2, StepMoves, StartNames, MovesNames DEF TInv
  <2> QED BY <2>1, <2>2 DEF TInv
<1> QED BY <1>1, <1>2 DEF Next

\* The variables keep their types, whatever the handlers, the faults and the
\* number of operations: what is about to be published or archived is always a
\* complete upload, and a new revision's path is in nobody else's hands.
THEOREM TypeCorrect == Spec => []TypeOK
<1>1. TInv => TypeOK
  BY DEF TInv
<1> QED BY <1>1, TInvInit, TInvNext, PTL DEF Spec

\* Whatever the writers, the faults and the interleaving, viewers never get a
\* half uploaded package.
THEOREM NoHalfPackage == Spec => []NeverHalfPublished
<1>1. TInv => NeverHalfPublished
  BY DEF TInv, TypeOK, DocRecord, PartialHidden, NeverHalfPublished
<1> QED BY <1>1, TInvInit, TInvNext, PTL DEF Spec

-----------------------------------------------------------------------------
(* Writers that create revisions never disturb what viewers get *)

\* Which steps write to storage, and where.
LEMMA Writes ==
    ASSUME NoInPlace, TypeOK, NEW p \in Procs, Step(p)
    PROVE  \/ live' = live
           \/ /\ h[p].pc \in Private
              /\ \A x \in Path \ {h[p].op} : live'[x] = live[x]
           \/ /\ h[p].pc = "cleanup"
              /\ \A x \in Path \ {Garbage(p)} : live'[x] = live[x]
           \/ h[p].pc = "purge"
<1>0. live \in [Path -> Content \cup {Absent, Partial}]
  BY DEF TypeOK
<1>1. CASE UploadHtml(p) \/ UploadZip(p) \/ UnpackZip(p) \/ UnpackFails(p)
           \/ CopyFromVersion(p) \/ CommitFails(p) \/ CommitUnacknowledged(p)
  BY <1>0, <1>1 DEF UploadHtml, UploadZip, UnpackZip, UnpackFails,
     CopyFromVersion, CommitFails, CommitUnacknowledged, RollBack, Private
<1>2. CASE Cleanup(p)
  BY <1>0, <1>2 DEF Cleanup
<1>3. CASE UploadInPlace(p)
  BY <1>3 DEF UploadInPlace, NoInPlace
<1>4. CASE Purge(p)
  BY <1>4 DEF Purge
<1>5. CASE ~(UploadHtml(p) \/ UploadZip(p) \/ UnpackZip(p) \/ UnpackFails(p)
             \/ CopyFromVersion(p) \/ CommitFails(p)
             \/ CommitUnacknowledged(p) \/ Cleanup(p) \/ UploadInPlace(p)
             \/ Purge(p))
  BY <1>5
     DEF Step, Archive, Upload, Publish, Start, PickVersion, RejectRestore,
         CopyToVersion, CopyFails, RecordVersion, RecordFails, SurveyVersions,
         EvictFile, EvictDoc, UploadFails, Commit, Unlist, Crash
<1> QED BY <1>1, <1>2, <1>3, <1>4, <1>5

\* What a handler that publishes makes of the document.
Publishes(p) ==
    /\ Commit(p) /\ live' = live /\ doc.exists /\ doc' = Committed(p)
    /\ doc'.exists
    /\ doc'.path = h[p].op
    /\ doc'.text = IF h[p].blank THEN NoText ELSE h[p].text
    /\ doc'.size = IF h[p].kind = "restore" THEN h[p].recorded ELSE h[p].text
    /\ \/ h[p].kind = "zip" /\ doc'.multi /\ doc'.prefix = h[p].op
       \/ h[p].kind = "html" /\ h[p].multi /\ ~doc'.multi
       \/ /\ h[p].kind # "zip" /\ ~(h[p].kind = "html" /\ h[p].multi)
          /\ doc'.multi = doc.multi /\ doc'.prefix = doc.prefix

\* Which steps change the document when acknowledgements are never lost.
LEMMA Documents ==
    ASSUME NoInPlace, TypeOK, "lostAck" \notin Faults, NEW p \in Procs, Step(p)
    PROVE  \/ doc' = doc /\ ~Commit(p)
           \/ Unlist(p) /\ ~doc'.exists
           \/ Publishes(p)
<1>0. doc \in DocRecord
  BY DEF TypeOK
<1>1. CASE Commit(p)
  <2>0. h[p].kind \notin InPlaceKinds
    BY DEF NoInPlace
  <2>1. /\ Described(p) \in DocRecord /\ Described(p).path = h[p].op
        /\ Described(p).text = IF h[p].blank THEN NoText ELSE h[p].text
        /\ Described(p).size =
              IF h[p].kind = "restore" THEN h[p].recorded ELSE h[p].text
        /\ Described(p).multi = doc.multi /\ Described(p).prefix = doc.prefix
        /\ Described(p).exists = doc.exists
    BY <2>0, DescribedFields
  <2>2. /\ live' = live /\ doc.exists /\ doc' = Committed(p)
    BY <1>1 DEF Commit
  <2>3. CASE h[p].kind = "zip"
    <3>1. doc' = [Described(p) EXCEPT !.multi = TRUE, !.prefix = h[p].op]
      BY <2>2, <2>3 DEF Committed
    <3> QED BY <1>1, <2>1, <2>2, <2>3, <3>1 DEF DocRecord, Publishes
  <2>4. CASE h[p].kind = "html" /\ h[p].multi
    <3>1. doc' = [Described(p) EXCEPT !.multi = FALSE, !.prefix = Stable]
      BY <2>2, <2>4 DEF Committed
    <3> QED BY <1>1, <2>1, <2>2, <2>4, <3>1 DEF DocRecord, Publishes
  <2>5. CASE h[p].kind # "zip" /\ ~(h[p].kind = "html" /\ h[p].multi)
    <3>1. doc' = Described(p)
      BY <2>2, <2>5 DEF Committed
    <3> QED BY <1>1, <2>1, <2>2, <2>5, <3>1 DEF Publishes
  <2> QED BY <2>3, <2>4, <2>5
<1>2. CASE Unlist(p)
  BY <1>0, <1>2 DEF Unlist, DocRecord
<1>3. CASE ~Commit(p) /\ ~Unlist(p)
  BY <1>3
     DEF Step, Archive, Upload, Publish, Start, PickVersion,
         RejectRestore, CopyToVersion, CopyFails, RecordVersion, RecordFails,
         SurveyVersions, EvictFile, EvictDoc, UploadHtml, UploadZip,
         UnpackZip, UnpackFails, CopyFromVersion, UploadInPlace,
         UploadFails, CommitFails, CommitUnacknowledged, Cleanup, Purge, Crash
<1> QED BY <1>1, <1>2, <1>3

\* How a handler comes to the steps the invariant speaks of.
Arrives(p) ==
    /\ h'[p].pc = "commit" =>
          /\ UploadHtml(p) \/ UnpackZip(p) \/ CopyFromVersion(p)
          /\ live'[h'[p].op] = h'[p].text
    /\ h'[p].pc = "cleanup" => /\ Commit(p) /\ h'[p].path = h[p].path
                              /\ h'[p].prefix = h[p].prefix
                              /\ h'[p].multi = h[p].multi
    /\ h'[p].pc = "purge" => Unlist(p)
    /\ h'[p].pc = "unpack" => UploadZip(p)
    /\ h'[p].blank = FALSE \/ h'[p].blank = h[p].blank \/ UnpackZip(p)
    /\ h[p].pc = "pick" => h'[p] = Idle \/ ~h[p].multi

\* Every step does what Arrives allows, one case per action.
LEMMA Arrivals ==
    ASSUME TypeOK, NoInPlace, NEW p \in Procs, Step(p)
    PROVE  Arrives(p)
<1>0. /\ h \in [Procs -> HandlerRecord]
      /\ live \in [Path -> Content \cup {Absent, Partial}]
  BY DEF TypeOK
<1>1. ASSUME NEW k \in Kinds, Start(p, k) PROVE Arrives(p)
  <2>1. /\ h'[p].pc \in {"pick", "unlist", "upload", "survey"}
        /\ h'[p].blank = FALSE /\ h[p].pc = "idle"
    <3>1. h'[p].pc = FirstStep(k) /\ h'[p].blank = FALSE
      BY <1>0, <1>1, StartFields
    <3>2. FirstStep(k) \in {"pick", "unlist", "upload", "survey"}
      BY DEF FirstStep
    <3> QED BY <1>1, <3>1, <3>2 DEF Start
  <2> QED BY <2>1 DEF Arrives
<1>2. ASSUME NEW n \in VersionNo, PickVersion(p, n) \/ SurveyVersions(p, n)
      PROVE  Arrives(p)
  <2>1. /\ h'[p].pc \in {"survey", "copy"} /\ h'[p].blank = h[p].blank
        /\ h[p].pc = "pick" => ~h[p].multi
    <3>1. CASE PickVersion(p, n)
      <4>1. h'[p] = [h[p] EXCEPT !.pc = "survey", !.ver = n, !.recorded = verSize[n]]
        BY <1>0, <3>1 DEF PickVersion
      <4>2. h'[p].pc = "survey" /\ h'[p].blank = h[p].blank
        BY <1>0, <4>1 DEF HandlerRecord
      <4> QED BY <3>1, <4>2 DEF PickVersion
    <3>2. CASE SurveyVersions(p, n)
      <4>1. h'[p] = [h[p] EXCEPT !.pc = "copy", !.num = n, !.seen = replacedAt,
                                 !.gc = Overflow(h[p].ver)]
        BY <1>0, <3>2 DEF SurveyVersions
      <4>2. h'[p].pc = "copy" /\ h'[p].blank = h[p].blank
        BY <1>0, <4>1 DEF HandlerRecord
      <4> QED BY <3>2, <4>2 DEF SurveyVersions
    <3> QED BY <1>2, <3>1, <3>2
  <2> QED BY <2>1 DEF Arrives
<1>3. ASSUME NEW n \in VersionNo, EvictFile(p, n) \/ EvictDoc(p, n)
      PROVE  Arrives(p)
  <2>1. /\ h'[p].pc \in {"evictFile", "evictDoc", "upload"}
        /\ h'[p].blank = h[p].blank /\ h[p].pc # "pick"
    <3>1. CASE EvictFile(p, n)
      <4>1. h'[p] = [h[p] EXCEPT !.pc = "evictDoc"] /\ h[p].pc = "evictFile"
        BY <1>0, <3>1 DEF EvictFile, Goto
      <4> QED BY <1>0, <4>1 DEF HandlerRecord
    <3>2. CASE EvictDoc(p, n)
      <4>1. /\ h[p].pc = "evictDoc"
            /\ h'[p] = [h[p] EXCEPT !.gc = h[p].gc \ {n},
                                    !.pc = AfterArchive(h[p].gc \ {n})]
        BY <1>0, <3>2 DEF EvictDoc
      <4>2. AfterArchive(h[p].gc \ {n}) \in {"upload", "evictFile"}
        BY DEF AfterArchive
      <4> QED BY <1>0, <4>1, <4>2 DEF HandlerRecord
    <3> QED BY <1>3, <3>1, <3>2
  <2> QED BY <2>1 DEF Arrives
<1>4. CASE CopyToVersion(p) \/ UploadZip(p) \/ RecordVersion(p)
  <2>1. /\ h'[p].pc \in {"record", "unpack", "evictFile", "upload"}
        /\ h'[p].pc = "unpack" => UploadZip(p)
        /\ h'[p].blank = h[p].blank /\ h[p].pc # "pick"
    BY <1>0, <1>4 DEF CopyToVersion, UploadZip, RecordVersion, Goto,
                      AfterArchive, HandlerRecord
  <2> QED BY <2>1 DEF Arrives
<1>5. CASE UploadHtml(p) \/ CopyFromVersion(p)
  <2>1. PICK t : Uploaded(p, t) /\ live' = [live EXCEPT ![h[p].op] = t]
                 /\ h[p].pc = "upload"
    BY <1>5 DEF UploadHtml, CopyFromVersion
  <2>2. h'[p] = [h[p] EXCEPT !.pc = "commit", !.text = t]
    BY <1>0, <2>1 DEF Uploaded
  <2> QED BY <1>0, <1>5, <2>1, <2>2 DEF Arrives, HandlerRecord
<1>u. CASE UnpackZip(p)
  <2>1. PICK b : h' = [h EXCEPT ![p] = [h[p] EXCEPT !.pc = "commit",
                                                    !.text = h[p].op, !.blank = b]]
    BY <1>0, <1>u DEF UnpackZip
  <2>2. h'[p] = [h[p] EXCEPT !.pc = "commit", !.text = h[p].op, !.blank = b]
    BY <1>0, <2>1
  <2>3. live' = [live EXCEPT ![h[p].op] = h[p].op] /\ h[p].pc = "unpack"
    BY <1>u DEF UnpackZip
  <2> QED BY <1>0, <1>u, <2>2, <2>3 DEF Arrives, HandlerRecord
<1>6. CASE Commit(p)
  <2>1. h'[p] = [h[p] EXCEPT !.pc = "cleanup"] \/ h'[p] = Idle
    BY <1>0, <1>6 DEF Commit, Goto, Finish
  <2>2. /\ h'[p].pc \in {"cleanup", "idle"}
        /\ h'[p].pc = "cleanup" => /\ h'[p].path = h[p].path
                                  /\ h'[p].prefix = h[p].prefix
                                  /\ h'[p].multi = h[p].multi
        /\ h'[p].blank = FALSE \/ h'[p].blank = h[p].blank
    BY <1>0, <2>1 DEF Idle, HandlerRecord
  <2>3. h[p].pc # "pick"
    BY <1>6 DEF Commit
  <2> QED BY <1>6, <2>2, <2>3 DEF Arrives
<1>7. CASE Unlist(p)
  <2>1. h'[p] = [h[p] EXCEPT !.pc = "purge"] /\ h[p].pc = "unlist"
    BY <1>0, <1>7 DEF Unlist, Goto
  <2>2. h'[p].pc = "purge" /\ h'[p].blank = h[p].blank
    BY <1>0, <2>1 DEF HandlerRecord
  <2> QED BY <1>7, <2>1, <2>2 DEF Arrives
<1>8. CASE RejectRestore(p) \/ CopyFails(p) \/ RecordFails(p)
           \/ UnpackFails(p) \/ UploadFails(p) \/ CommitFails(p)
           \/ CommitUnacknowledged(p) \/ Cleanup(p) \/ Purge(p) \/ Crash(p)
  <2>1. h'[p] = Idle
    BY <1>0, <1>8
       DEF RejectRestore, CopyFails, RecordFails, UnpackFails, UploadFails,
           CommitFails, CommitUnacknowledged, Cleanup, Purge, Crash, Finish
  <2>2. Idle.pc = "idle" /\ Idle.blank = FALSE
    BY DEF Idle
  <2> QED BY <2>1, <2>2 DEF Arrives
<1>9. CASE UploadInPlace(p)
  BY <1>9 DEF UploadInPlace, NoInPlace
<1> QED BY <1>1, <1>2, <1>3, <1>4, <1>5, <1>u, <1>6, <1>7, <1>8, <1>9
           DEF Step, Archive, Upload, Publish

\* Without an in-place writer to start, none ever runs.
LEMMA NoInPlaceStep ==
    ASSUME TInv, NoInPlace, RevisionWritersOnly, NEW p \in Procs, Step(p)
    PROVE  NoInPlace'
<1>0. h \in [Procs -> HandlerRecord]
  BY DEF TInv, TypeOK
<1>1. ASSUME NEW k \in Kinds, Start(p, k)
      PROVE  h'[p].kind \notin InPlaceKinds
  BY <1>0, <1>1, StartFields DEF RevisionWritersOnly
<1>2. ASSUME Moves(p)
      PROVE  h'[p].kind \notin InPlaceKinds
  BY <1>2 DEF Moves, NoInPlace, Idle, InPlaceKinds
<1> QED BY <1>1, <1>2, StepMoves DEF NoInPlace, TInv

\* The file and the package that the document points to stay as they are.
LEMMA LiveKept ==
    ASSUME SInv, NEW p \in Procs, Step(p), doc.exists
    PROVE  /\ live'[doc.path] = live[doc.path]
           /\ doc.multi => live'[doc.prefix] = live[doc.prefix]
<1>1. /\ doc.path \in Path /\ doc.prefix \in Path
      /\ TypeOK /\ Fresh /\ NoInPlace
  BY DEF SInv, TInv, TypeOK, DocRecord
<1>2. \/ live' = live
      \/ /\ h[p].pc \in Private
         /\ \A x \in Path \ {h[p].op} : live'[x] = live[x]
      \/ /\ h[p].pc = "cleanup"
         /\ \A x \in Path \ {Garbage(p)} : live'[x] = live[x]
  BY <1>1, Writes DEF SInv, Purging
<1>3. h[p].pc \in Private => doc.path # h[p].op /\ doc.prefix # h[p].op
  BY <1>1 DEF Fresh
<1>4. h[p].pc = "cleanup" => /\ Garbage(p) # doc.path
                             /\ doc.multi => Garbage(p) # doc.prefix
  BY DEF SInv, Unused
<1> QED BY <1>1, <1>2, <1>3, <1>4

\* No handler gets to delete, or to publish, what is not its own.
LEMMA SInvStep ==
    ASSUME SInv, RevisionWritersOnly, NEW p \in Procs, Step(p)
    PROVE  Purging' /\ Ready' /\ Unused' /\ Apart' /\ Parts' /\ Served'
<1>0. /\ h \in [Procs -> HandlerRecord] /\ doc \in DocRecord
      /\ TypeOK /\ Chosen /\ Fresh /\ Numbered /\ NoInPlace
      /\ "lostAck" \notin Faults
  BY DEF SInv, TInv, TypeOK, RevisionWritersOnly
<1>a. Arrives(p)
  BY <1>0, Arrivals
<1>d. \/ doc' = doc /\ ~Commit(p)
      \/ Unlist(p) /\ ~doc'.exists
      \/ Publishes(p)
  BY <1>0, Documents
<1>u. Unlist(p) => /\ doc'.path = doc.path /\ doc'.prefix = doc.prefix
                   /\ doc'.multi = doc.multi
  BY <1>0 DEF Unlist, DocRecord
<1>m. (\E k \in Kinds : Start(p, k)) \/ Moves(p)
  BY <1>0, StepMoves
<1>o. \A q \in Procs : q # p => h'[q] = h[q]
  BY <1>0, StepMoves
<1>s. ASSUME NEW k \in Kinds, Start(p, k)
      PROVE  /\ doc' = doc
             /\ h'[p].pc = FirstStep(k) /\ h'[p].kind = k /\ h'[p].blank = FALSE
             /\ h'[p].multi = doc.multi
  BY <1>0, <1>s, StartFields DEF Start
<1>c. Commit(p) => doc.exists /\ h[p].pc = "commit"
  BY DEF Commit
<1>e. doc'.exists => doc.exists
  BY <1>d, <1>c DEF Publishes
<1>t. /\ doc.path \in Path
      /\ \A q \in Procs : h[q].op \in Path
  BY <1>0 DEF DocRecord, HandlerRecord
<1>f. \A q \in Procs : h[p].pc = "commit" => Garbage(q) # h[p].op
                                            /\ h[q].path # h[p].op
  BY <1>0 DEF Fresh, Private, Garbage
<1>1. Purging'
  <2> SUFFICES ASSUME NEW q \in Procs, h'[q].pc = "purge"
               PROVE  ~doc'.exists
    BY DEF Purging
  <2>1. CASE q = p
    <3>1. Unlist(p)
      BY <1>a, <2>1 DEF Arrives
    <3> QED BY <1>0, <3>1 DEF Unlist, DocRecord
  <2>2. CASE q # p
    BY <1>o, <1>e, <2>2 DEF SInv, Purging
  <2> QED BY <2>1, <2>2
<1>2. Ready'
  <2> SUFFICES ASSUME NEW q \in Procs, doc'.exists, h'[q].pc = "commit"
               PROVE  live'[h'[q].op] = h'[q].text
    BY DEF Ready
  <2>1. CASE q = p
    BY <1>a, <2>1 DEF Arrives
  <2>2. CASE q # p
    <3>1. h'[q] = h[q] /\ doc.exists /\ live[h[q].op] = h[q].text
      BY <1>o, <1>e, <2>2 DEF SInv, Ready
    <3>2. /\ h[q].op # Garbage(p)
          /\ h[p].pc \in Private => h[q].op # h[p].op
      BY <1>0, <2>2, <3>1 DEF Fresh, Garbage, Private
    <3>3. \/ live' = live
          \/ /\ h[p].pc \in Private
             /\ \A x \in Path \ {h[p].op} : live'[x] = live[x]
          \/ /\ h[p].pc = "cleanup"
             /\ \A x \in Path \ {Garbage(p)} : live'[x] = live[x]
      BY <1>0, <3>1, Writes DEF SInv, Purging
    <3> QED BY <1>t, <3>1, <3>2, <3>3
  <2> QED BY <2>1, <2>2
<1>3. Unused'
  <2> SUFFICES ASSUME NEW q \in Procs, h'[q].pc = "cleanup"
               PROVE  /\ Garbage(q)' # doc'.path
                      /\ doc'.multi => Garbage(q)' # doc'.prefix
    BY DEF Unused
  <2>2. CASE q = p
    <3>1. Commit(p) /\ Garbage(q)' = Garbage(q)
      BY <1>a, <2>2 DEF Arrives, Garbage
    <3>2. Publishes(p)
      BY <1>d, <1>c, <3>1 DEF Commit, Unlist
    <3>3. h[p].kind \in RevisionKinds /\ (h[p].kind = "restore" => ~h[p].multi)
      BY <1>c, <3>1 DEF SInv, Parts
    <3>4. CASE h[p].kind = "zip" \/ (h[p].kind = "html" /\ h[p].multi)
      BY <1>c, <1>f, <2>2, <3>1, <3>2, <3>4 DEF Publishes
    <3>5. CASE h[p].kind # "zip" /\ ~(h[p].kind = "html" /\ h[p].multi)
      <4>1. ~h[p].multi /\ Garbage(p) = h[p].path
        BY <3>3, <3>5 DEF RevisionKinds, Garbage
      <4>2. doc.multi => h[p].path # doc.prefix
        BY <1>c, <3>1, <4>1 DEF SInv, Apart
      <4> QED BY <1>c, <1>f, <2>2, <3>1, <3>2, <3>5, <4>1, <4>2 DEF Publishes
    <3> QED BY <3>4, <3>5
  <2>3. CASE q # p
    <3>1. /\ Garbage(q)' = Garbage(q) /\ Garbage(q) # doc.path
          /\ doc.multi => Garbage(q) # doc.prefix
      BY <1>o, <2>3 DEF SInv, Unused, Garbage
    <3>2. CASE Publishes(p)
      BY <1>c, <1>f, <3>1, <3>2 DEF Publishes
    <3> QED BY <1>d, <1>u, <3>1, <3>2
  <2> QED BY <2>2, <2>3
<1>4. Apart'
  <2> SUFFICES ASSUME NEW q \in Procs, h'[q].pc # "idle", ~h'[q].multi, doc'.multi
               PROVE  h'[q].path # doc'.prefix
    BY DEF Apart
  <2>1. CASE q = p /\ \E k \in Kinds : Start(p, k)
    BY <1>s, <2>1
  <2>2. CASE ~(q = p /\ \E k \in Kinds : Start(p, k))
    <3>1. /\ h[q].pc # "idle" /\ h'[q].path = h[q].path
          /\ h'[q].multi = h[q].multi
      BY <1>m, <1>o, <2>2 DEF Moves, Idle
    <3>2. doc.multi => h[q].path # doc.prefix
      BY <3>1 DEF SInv, Apart
    <3>3. CASE Publishes(p)
      BY <1>c, <1>f, <3>1, <3>2, <3>3 DEF Publishes
    <3> QED BY <1>d, <1>u, <3>1, <3>2, <3>3
  <2> QED BY <2>1, <2>2
<1>5. Parts'
  <2> SUFFICES ASSUME NEW q \in Procs
               PROVE  /\ h'[q].blank => h'[q].kind = "zip"
                      /\ h'[q].pc = "unpack" => h'[q].kind = "zip"
                      /\ h'[q].pc = "commit" => h'[q].kind \in RevisionKinds
                      /\ h'[q].kind = "restore" => h'[q].pc = "pick" \/ ~h'[q].multi
    BY DEF Parts
  <2>0. /\ h[q].blank => h[q].kind = "zip"
        /\ h[q].pc = "unpack" => h[q].kind = "zip"
        /\ h[q].pc = "commit" => h[q].kind \in RevisionKinds
        /\ h[q].kind = "restore" => h[q].pc = "pick" \/ ~h[q].multi
    BY DEF SInv, Parts
  <2>1. CASE q # p
    BY <1>o, <2>0, <2>1
  <2>2. ASSUME q = p, NEW k \in Kinds, Start(p, k)
        PROVE  /\ h'[q].blank = FALSE /\ h'[q].kind = k
               /\ h'[q].pc = FirstStep(k)
    BY <1>s, <2>2
  <2>3. \A k \in Kinds : /\ FirstStep(k) \notin {"unpack", "commit"}
                         /\ k = "restore" => FirstStep(k) = "pick"
    BY DEF FirstStep
  <2>4. CASE q = p /\ h'[p] = Idle
    BY <2>4 DEF Idle
  <2>5. CASE q = p /\ h'[p] # Idle /\ Moves(p)
    <3>1. h'[p].kind = h[p].kind /\ h'[p].multi = h[p].multi
      BY <2>5 DEF Moves
    <3>2. h'[p].pc = "unpack" => h[p].kind = "zip"
      BY <1>a DEF Arrives, UploadZip
    <3>3. UnpackZip(p) => h[p].kind = "zip"
      BY <2>0, <2>5 DEF UnpackZip
    <3>4. h'[p].pc = "commit" => h[p].kind \in RevisionKinds
      BY <1>a, <3>3 DEF Arrives, UploadHtml, CopyFromVersion, RevisionKinds
    <3>5. h'[p].blank => h[p].kind = "zip"
      BY <1>a, <2>0, <2>5, <3>3 DEF Arrives
    <3> QED BY <1>a, <2>0, <2>5, <3>1, <3>2, <3>4, <3>5 DEF Arrives
  <2> QED BY <1>m, <2>1, <2>2, <2>3, <2>4, <2>5
<1>6. Served'
  <2> SUFFICES ASSUME doc'.exists PROVE live'[doc'.path] \in Content
    BY DEF Served
  <2>1. doc.exists /\ live[doc.path] \in Content
    BY <1>e DEF SInv, Served
  <2>2. CASE Publishes(p)
    <3>1. live'[doc'.path] = h[p].text
      BY <1>c, <2>2 DEF SInv, Ready, Publishes
    <3> QED BY <1>0, <3>1 DEF HandlerRecord
  <2>3. CASE doc' = doc
    BY <2>1, <2>3, LiveKept
  <2> QED BY <1>d, <2>2, <2>3
<1> QED BY <1>1, <1>2, <1>3, <1>4, <1>5, <1>6

-----------------------------------------------------------------------------
(* Handlers that have never overlapped *)

\* The steps that read or write the archive, other than those that fail and
\* the copy a restore takes.
Archives(p) ==
    \/ \E n \in VersionNo :
          \/ PickVersion(p, n) \/ SurveyVersions(p, n)
          \/ EvictFile(p, n) \/ EvictDoc(p, n)
    \/ CopyToVersion(p) \/ RecordVersion(p)

\* Every other step leaves the archive alone.
LEMMA ArchiveLeft ==
    ASSUME NEW p \in Procs, Step(p), ~Archives(p)
    PROVE  /\ replacedAt' = replacedAt /\ verFile' = verFile /\ verSize' = verSize
           /\ VersionDocs' = VersionDocs
<1>1. replacedAt' = replacedAt /\ verFile' = verFile /\ verSize' = verSize
  BY DEF Archives, Step, Archive, Upload, Publish, Start, RejectRestore,
         CopyFails, RecordFails, UploadHtml, UploadZip, UnpackZip, UnpackFails,
         CopyFromVersion, UploadInPlace, UploadFails, Commit, CommitFails,
         CommitUnacknowledged, Cleanup, Unlist, Purge, Crash
<1> QED BY <1>1 DEF VersionDocs

\* Where such a step leads, if not past the publication.
LEMMA ArchiveArrivals ==
    ASSUME SInv, NEW p \in Procs, Step(p), ~Archives(p), h'[p].pc \in Private
    PROVE  /\ h'[p].pc \notin {"copy", "record"}
           /\ \/ h'[p].kind # "restore"
              \/ h'[p].pc = "pick"
              \/ /\ CopyFromVersion(p)
                 /\ h'[p].pc = "commit" /\ h'[p].text = verFile[h[p].ver]
                 /\ h'[p].recorded = h[p].recorded /\ h'[p].ver = h[p].ver
<1>0. h \in [Procs -> HandlerRecord] /\ NoInPlace
  BY DEF SInv, TInv, TypeOK
<1>1. ASSUME NEW k \in Kinds, Start(p, k)
      PROVE  /\ h'[p].pc \notin {"copy", "record"}
             /\ h'[p].kind # "restore" \/ h'[p].pc = "pick"
  BY <1>0, <1>1, StartFields DEF FirstStep
<1>2. CASE UploadHtml(p) \/ UploadZip(p) \/ UnpackZip(p)
  <2>1. h[p].kind \in {"html", "zip"}
    BY <1>2 DEF UploadHtml, UploadZip, UnpackZip, SInv, Parts
  <2>2. PICK t, b : h'[p] \in {[h[p] EXCEPT !.pc = "commit", !.text = t],
                               [h[p] EXCEPT !.pc = "unpack"],
                               [h[p] EXCEPT !.pc = "commit", !.text = t, !.blank = b]}
    BY <1>0, <1>2 DEF UploadHtml, UploadZip, UnpackZip, Uploaded, Goto
  <2>3. h'[p].kind = h[p].kind /\ h'[p].pc \in {"commit", "unpack"}
    BY <1>0, <2>2 DEF HandlerRecord
  <2> QED BY <2>1, <2>3
<1>3. CASE CopyFromVersion(p)
  <2>1. h'[p] = [h[p] EXCEPT !.pc = "commit", !.text = verFile[h[p].ver]]
    BY <1>0, <1>3 DEF CopyFromVersion, Uploaded
  <2>2. /\ h'[p].pc = "commit" /\ h'[p].text = verFile[h[p].ver]
        /\ h'[p].recorded = h[p].recorded /\ h'[p].ver = h[p].ver
    BY <1>0, <2>1 DEF HandlerRecord
  <2> QED BY <1>3, <2>2
<1>4. CASE Commit(p) \/ Unlist(p)
  <2>1. h'[p].pc \in {"cleanup", "idle", "purge"}
    BY <1>0, <1>4 DEF Commit, Unlist, Goto, Finish, Idle, HandlerRecord
  <2> QED BY <2>1 DEF Private
<1>5. CASE RejectRestore(p) \/ CopyFails(p) \/ RecordFails(p)
           \/ UnpackFails(p) \/ UploadFails(p) \/ CommitFails(p)
           \/ CommitUnacknowledged(p) \/ Cleanup(p) \/ Purge(p) \/ Crash(p)
  <2>1. h'[p].pc = "idle"
    BY <1>0, <1>5
       DEF RejectRestore, CopyFails, RecordFails, UnpackFails, UploadFails,
           CommitFails, CommitUnacknowledged, Cleanup, Purge, Crash, Finish,
           Idle
  <2> QED BY <2>1 DEF Private
<1>6. ~UploadInPlace(p)
  BY <1>0 DEF UploadInPlace, NoInPlace
<1> QED BY <1>1, <1>2, <1>3, <1>4, <1>5, <1>6
           DEF Step, Archive, Archives, Upload, Publish

\* A handler that works alone knows the document as it is.
LEMMA CurrentStep ==
    ASSUME SInv, RevisionWritersOnly, NEW p \in Procs, Step(p), ~overlap'
    PROVE  /\ Current'
           /\ Current /\ Sized /\ Sizing
           /\ \A q \in Procs : q # p => h[q].pc = "idle" /\ h'[q].pc = "idle"
           /\ h'[p].pc \in Private => doc' = doc /\ doc.exists
<1>0. /\ h \in [Procs -> HandlerRecord] /\ doc \in DocRecord
      /\ TypeOK /\ Chosen /\ NoInPlace /\ "lostAck" \notin Faults
  BY DEF SInv, TInv, TypeOK, RevisionWritersOnly
<1>1. ~overlap
  <2>1. ASSUME NEW k \in Kinds, Start(p, k) PROVE ~overlap
    BY <2>1 DEF Start
  <2> QED BY <2>1, StepEffects
<1>2. Current /\ Sized /\ Sizing
  BY <1>1 DEF SInv, Alone
<1>m. (\E k \in Kinds : Start(p, k)) \/ Moves(p)
  BY <1>0, StepMoves
<1>i. Moves(p) => h'[p] = Idle \/ h[p].pc # "idle"
  BY DEF Moves
<1>3. ASSUME NEW q \in Procs, q # p
      PROVE  h[q].pc = "idle" /\ h'[q].pc = "idle"
  <2>1. h'[q] = h[q]
    BY <1>0, <1>3, StepMoves
  <2>2. ASSUME NEW k \in Kinds, Start(p, k) PROVE h[q].pc = "idle"
    BY <1>3, <2>2 DEF Start
  <2>3. CASE h[p].pc # "idle"
    BY <1>2, <1>3, <2>1, <2>3 DEF Current
  <2>4. h[p].pc # "idle" \/ \E k \in Kinds : Start(p, k)
    BY DEF Step, Archive, Upload, Publish, PickVersion, RejectRestore,
         CopyToVersion, CopyFails, RecordVersion, RecordFails, SurveyVersions,
         EvictFile, EvictDoc, UploadHtml, UploadZip, UnpackZip, UnpackFails,
         CopyFromVersion, UploadInPlace, UploadFails, Commit, CommitFails,
         CommitUnacknowledged, Cleanup, Unlist, Purge, Crash
  <2> QED BY <2>1, <2>2, <2>3, <2>4
<1>4. ASSUME h'[p].pc \in Private
      PROVE  /\ doc' = doc /\ doc.exists
             /\ h'[p].path = doc.path /\ h'[p].multi = doc.multi
             /\ h'[p].size = doc.size
  <2>1. ASSUME NEW k \in Kinds, Start(p, k)
        PROVE  /\ doc' = doc /\ doc.exists
               /\ h'[p].path = doc.path /\ h'[p].multi = doc.multi
               /\ h'[p].size = doc.size
    BY <1>0, <2>1, StartFields DEF Start
  <2>2. CASE Moves(p)
    <3>1. /\ h[p].pc \in Private /\ h'[p].path = h[p].path
          /\ h'[p].multi = h[p].multi /\ h'[p].size = h[p].size
      BY <1>4, <2>2 DEF Moves, Idle, Private
    <3>2. ~Commit(p) /\ ~Unlist(p)
      BY <1>0, <1>4 DEF Commit, Unlist, Goto, Finish, Idle, Private, HandlerRecord
    <3>3. doc' = doc
      BY <1>0, <3>2, Documents DEF Publishes
    <3> QED BY <1>2, <3>1, <3>3 DEF Current
  <2> QED BY <1>m, <2>1, <2>2
<1>5. Current'
  BY <1>3, <1>4 DEF Current, Private
<1> QED BY <1>2, <1>3, <1>4, <1>5

\* The sizes in the document and in the archive go with their files.
LEMMA SizedStep ==
    ASSUME SInv, RevisionWritersOnly, NEW p \in Procs, Step(p), ~overlap'
    PROVE  Sized' /\ Sizing'
<1>0. /\ h \in [Procs -> HandlerRecord] /\ doc \in DocRecord
      /\ replacedAt \in [VersionNo -> Nat] /\ clock \in Nat
      /\ verSize \in [VersionNo -> Content]
      /\ verFile \in [VersionNo -> Content \cup {Absent}]
      /\ TypeOK /\ Chosen /\ NoInPlace /\ "lostAck" \notin Faults
  BY DEF SInv, TInv, TypeOK, RevisionWritersOnly
<1>1. /\ Current /\ Sized /\ Sizing
      /\ \A q \in Procs : q # p => h'[q].pc = "idle"
  BY CurrentStep
<1>2. doc'.exists => doc'.size = live'[doc'.path]
  <2> SUFFICES ASSUME doc'.exists PROVE doc'.size = live'[doc'.path]
    OBVIOUS
  <2>1. CASE doc' = doc
    BY <1>1, <2>1, LiveKept DEF Sized
  <2>2. CASE Publishes(p)
    <3>1. h[p].pc = "commit" /\ live'[doc'.path] = h[p].text
      BY <2>2 DEF SInv, Ready, Publishes, Commit
    <3>2. h[p].kind = "restore" => h[p].recorded = h[p].text
      BY <1>1, <3>1 DEF Sizing
    <3> QED BY <2>2, <3>1, <3>2 DEF Publishes
  <2> QED BY <1>0, <2>1, <2>2, Documents
\* What is left to show: about the versions, and about the handler at work.
<1> DEFINE Versions == \A n \in VersionDocs : verFile[n] \in {Absent, verSize[n]}
           At(q) ==
              /\ h[q].pc \in {"copy", "record"} => h[q].num \in VersionNo \ VersionDocs
              /\ h[q].pc = "record" => verFile[h[q].num] = h[q].size
              /\ h[q].kind = "restore" /\ h[q].pc \in {"survey", "copy", "record"} =>
                    h[q].ver \in VersionDocs
              /\ h[q].kind = "restore" /\ h[q].pc \in Private \ {"pick"} =>
                    verFile[h[q].ver] \in {Absent, h[q].recorded}
              /\ h[q].kind = "restore" /\ h[q].pc = "commit" => h[q].recorded = h[q].text
<1>3. SUFFICES Versions' /\ At(p)'
  <2>1. ASSUME NEW q \in Procs, q # p PROVE At(q)'
    BY <1>1, <2>1 DEF Private
  <2> QED BY <1>2, <1>3, <2>1 DEF Sized, Sizing
<1>4. Versions /\ At(p)
  BY <1>1 DEF Sized, Sizing
<1>5. CASE ~Archives(p)
  <2>1. /\ replacedAt' = replacedAt /\ verFile' = verFile /\ verSize' = verSize
        /\ VersionDocs' = VersionDocs
    BY <1>5, ArchiveLeft
  <2>2. CASE h'[p].pc \notin Private
    BY <1>4, <2>1, <2>2 DEF Private
  <2>3. CASE h'[p].pc \in Private
    <3>1. /\ h'[p].pc \notin {"copy", "record"}
          /\ \/ h'[p].kind # "restore"
             \/ h'[p].pc = "pick"
             \/ /\ CopyFromVersion(p)
                /\ h'[p].pc = "commit" /\ h'[p].text = verFile[h[p].ver]
                /\ h'[p].recorded = h[p].recorded /\ h'[p].ver = h[p].ver
      BY <1>5, <2>3, ArchiveArrivals
    <3>2. CASE CopyFromVersion(p) /\ h'[p].pc = "commit"
               /\ h'[p].text = verFile[h[p].ver]
               /\ h'[p].recorded = h[p].recorded /\ h'[p].ver = h[p].ver
      <4>1. verFile[h[p].ver] = h[p].recorded
        BY <1>4, <3>2 DEF CopyFromVersion, Private
      <4> QED BY <1>4, <2>1, <3>2, <4>1
    <3>3. CASE h'[p].kind # "restore" \/ h'[p].pc = "pick"
      BY <1>4, <2>1, <3>1, <3>3 DEF Private
    <3> QED BY <3>1, <3>2, <3>3
  <2> QED BY <2>2, <2>3
<1>6. ASSUME NEW n \in VersionNo, PickVersion(p, n) PROVE Versions' /\ At(p)'
  <2>1. /\ replacedAt' = replacedAt /\ verFile' = verFile /\ verSize' = verSize
        /\ VersionDocs' = VersionDocs /\ n \in VersionDocs
        /\ h'[p] = [h[p] EXCEPT !.pc = "survey", !.ver = n, !.recorded = verSize[n]]
    BY <1>0, <1>6 DEF PickVersion, VersionDocs
  <2>2. h'[p].pc = "survey" /\ h'[p].ver = n /\ h'[p].recorded = verSize[n]
    BY <1>0, <2>1 DEF HandlerRecord
  <2> QED BY <1>4, <2>1, <2>2
<1>7. ASSUME NEW n \in VersionNo, SurveyVersions(p, n) PROVE Versions' /\ At(p)'
  <2>1. /\ replacedAt' = replacedAt /\ verFile' = verFile /\ verSize' = verSize
        /\ VersionDocs' = VersionDocs /\ IsNextVersion(n) /\ h[p].pc = "survey"
        /\ h'[p] = [h[p] EXCEPT !.pc = "copy", !.num = n, !.seen = replacedAt,
                                !.gc = Overflow(h[p].ver)]
    BY <1>0, <1>7 DEF SurveyVersions, VersionDocs
  <2>2. /\ h'[p].pc = "copy" /\ h'[p].num = n /\ h'[p].kind = h[p].kind
        /\ h'[p].ver = h[p].ver /\ h'[p].recorded = h[p].recorded
    BY <1>0, <2>1 DEF HandlerRecord
  <2>3. n \notin VersionDocs
    BY <2>1, Names DEF IsNextVersion, VersionDocs
  <2> QED BY <1>4, <2>1, <2>2, <2>3 DEF Private
<1>8. CASE CopyToVersion(p)
  <2>1. /\ replacedAt' = replacedAt /\ verSize' = verSize
        /\ VersionDocs' = VersionDocs /\ h[p].pc = "copy"
        /\ verFile' = [verFile EXCEPT ![h[p].num] = live[h[p].path]]
        /\ h'[p] = [h[p] EXCEPT !.pc = "record"]
    BY <1>0, <1>8 DEF CopyToVersion, Goto, VersionDocs
  <2>2. /\ h'[p].pc = "record" /\ h'[p].num = h[p].num /\ h'[p].kind = h[p].kind
        /\ h'[p].ver = h[p].ver /\ h'[p].recorded = h[p].recorded
        /\ h'[p].size = h[p].size
    BY <1>0, <2>1 DEF HandlerRecord
  <2>3. live[h[p].path] = h[p].size
    BY <1>1, <2>1 DEF Current, Sized, Private
  <2>4. h[p].num \in VersionNo \ VersionDocs
    BY <1>4, <2>1
  <2>5. /\ verFile'[h[p].num] = h[p].size
        /\ \A m \in VersionNo : m # h[p].num => verFile'[m] = verFile[m]
    BY <1>0, <2>1, <2>3, <2>4
  <2>6. VersionDocs \subseteq VersionNo
    BY DEF VersionDocs
  <2>7. Versions'
    BY <1>4, <2>1, <2>4, <2>5, <2>6
  <2>8. At(p)'
    BY <1>4, <2>1, <2>2, <2>4, <2>5, <2>6 DEF Private
  <2> QED BY <2>7, <2>8
<1>9. CASE RecordVersion(p)
  <2>1. /\ verFile' = verFile /\ h[p].pc = "record"
        /\ replacedAt' = [replacedAt EXCEPT ![h[p].num] = clock + 1]
        /\ verSize' = [verSize EXCEPT ![h[p].num] = h[p].size]
        /\ h'[p] = [h[p] EXCEPT !.pc = AfterArchive(h[p].gc)]
    BY <1>0, <1>9 DEF RecordVersion, Goto
  <2>2. /\ h'[p].pc \in {"upload", "evictFile"} /\ h'[p].kind = h[p].kind
        /\ h'[p].ver = h[p].ver /\ h'[p].recorded = h[p].recorded
    BY <1>0, <2>1 DEF HandlerRecord, AfterArchive
  <2>3. h[p].num \in VersionNo \ VersionDocs /\ verFile[h[p].num] = h[p].size
    BY <1>4, <2>1
  <2>4. VersionDocs' \subseteq VersionDocs \cup {h[p].num}
    BY <1>0, <2>1 DEF VersionDocs
  <2>5. /\ verSize'[h[p].num] = h[p].size
        /\ \A m \in VersionNo : m # h[p].num => verSize'[m] = verSize[m]
    BY <1>0, <2>1, <2>3
  <2>6. Versions'
    BY <1>4, <2>1, <2>3, <2>4, <2>5 DEF VersionDocs
  <2>7. At(p)'
    BY <1>4, <2>1, <2>2 DEF Private
  <2> QED BY <2>6, <2>7
<1>10. ASSUME NEW n \in VersionNo, EvictFile(p, n) PROVE Versions' /\ At(p)'
  <2>1. /\ replacedAt' = replacedAt /\ verSize' = verSize
        /\ VersionDocs' = VersionDocs /\ h[p].pc = "evictFile"
        /\ verFile' = [verFile EXCEPT ![n] = Absent] \/ verFile' = verFile
        /\ h'[p] = [h[p] EXCEPT !.pc = "evictDoc"]
    BY <1>0, <1>10 DEF EvictFile, Goto, VersionDocs
  <2>2. /\ h'[p].pc = "evictDoc" /\ h'[p].kind = h[p].kind
        /\ h'[p].ver = h[p].ver /\ h'[p].recorded = h[p].recorded
    BY <1>0, <2>1 DEF HandlerRecord
  <2>3. \A m \in VersionNo : verFile'[m] \in {Absent, verFile[m]}
    BY <1>0, <2>1
  <2>4. Versions'
    BY <1>4, <2>1, <2>3 DEF VersionDocs
  <2>5. h[p].kind = "restore" => h[p].ver \in VersionNo
    BY <1>0, <2>1 DEF Chosen
  <2>6. At(p)'
    BY <1>4, <2>1, <2>2, <2>3, <2>5 DEF Private
  <2> QED BY <2>4, <2>6
<1>11. ASSUME NEW n \in VersionNo, EvictDoc(p, n) PROVE Versions' /\ At(p)'
  <2>1. /\ verFile' = verFile /\ verSize' = verSize /\ h[p].pc = "evictDoc"
        /\ replacedAt' = [replacedAt EXCEPT ![n] = 0] \/ replacedAt' = replacedAt
        /\ h'[p] = [h[p] EXCEPT !.gc = h[p].gc \ {n},
                                !.pc = AfterArchive(h[p].gc \ {n})]
    BY <1>0, <1>11 DEF EvictDoc
  <2>2. AfterArchive(h[p].gc \ {n}) \in {"upload", "evictFile"}
    BY DEF AfterArchive
  <2>3. /\ h'[p].pc \in {"upload", "evictFile"} /\ h'[p].kind = h[p].kind
        /\ h'[p].ver = h[p].ver /\ h'[p].recorded = h[p].recorded
    BY <1>0, <2>1, <2>2 DEF HandlerRecord
  <2>4. VersionDocs' \subseteq VersionDocs
    BY <1>0, <2>1 DEF VersionDocs
  <2>5. Versions'
    BY <1>4, <2>1, <2>4
  <2>6. At(p)'
    BY <1>4, <2>1, <2>3 DEF Private
  <2> QED BY <2>5, <2>6
<1> QED BY <1>5, <1>6, <1>7, <1>8, <1>9, <1>10, <1>11 DEF Archives

-----------------------------------------------------------------------------
(* What viewers get *)

\* The first upload satisfies the whole invariant.
LEMMA SInvInit == Init => SInv
<1> SUFFICES ASSUME Init PROVE SInv
  OBVIOUS
<1>1. TInv
  BY TInvInit
<1>2. /\ \A p \in Procs : h[p] = Idle
      /\ live = [x \in Path |-> IF x = Stable THEN 0 ELSE Absent]
      /\ doc.path = Stable /\ doc.size = 0
      /\ replacedAt = [n \in VersionNo |-> 0]
  BY DEF Init
<1>3. NoInPlace /\ Purging /\ Ready /\ Unused /\ Apart /\ Parts /\ Served
  BY <1>2, Names
     DEF NoInPlace, Purging, Ready, Unused, Apart, Parts, Served, Idle,
         InPlaceKinds
<1>4. Current /\ Sized /\ Sizing
  <2>1. VersionDocs = {}
    BY <1>2 DEF VersionDocs
  <2> QED BY <1>2, <2>1, Names DEF Current, Sized, Sizing, Idle, Private
<1> QED BY <1>1, <1>3, <1>4 DEF SInv, Alone

\* Every step of revision writers keeps the whole invariant.
LEMMA SInvNext ==
    ASSUME RevisionWritersOnly
    PROVE  SInv /\ [Next]_vars => SInv'
<1> SUFFICES ASSUME SInv, [Next]_vars PROVE SInv'
  OBVIOUS
<1>1. CASE UNCHANGED vars
  <2>1. TInv'
    BY TInvNext DEF SInv
  <2>2. /\ NoInPlace' /\ Purging' /\ Ready' /\ Unused' /\ Apart' /\ Parts'
        /\ Served'
    BY <1>1 DEF vars, SInv, NoInPlace, Purging, Ready, Unused, Apart, Parts,
       Served, Garbage
  <2>3. Alone'
    BY <1>1 DEF vars, SInv, Alone, Current, Sized, Sizing, VersionDocs
  <2> QED BY <2>1, <2>2, <2>3 DEF SInv
<1>2. ASSUME NEW p \in Procs, Step(p) PROVE SInv'
  <2>1. TInv'
    BY <1>2, TInvNext DEF Next, SInv
  <2>2. NoInPlace'
    BY <1>2, NoInPlaceStep DEF SInv
  <2>3. Alone'
    BY <1>2, CurrentStep, SizedStep DEF Alone
  <2> QED BY <1>2, <2>1, <2>2, <2>3, SInvStep DEF SInv
<1> QED BY <1>1, <1>2 DEF Next

\* As long as every writer creates a revision and no acknowledgement is lost,
\* the document never points at an object that is missing or half uploaded,
\* however many handlers overlap, fail and crash.
THEOREM PointerNeverDangles ==
    ASSUME RevisionWritersOnly
    PROVE  Spec => []NoDanglingPointer
<1>1. SInv => NoDanglingPointer
  BY DEF SInv, Served, NoDanglingPointer
<1> QED BY <1>1, SInvInit, SInvNext, PTL DEF Spec

\* A publication is one of LiveContent.
LEMMA PublishesContent ==
    ASSUME SInv, SInv', RevisionWritersOnly, NEW p \in Procs, Step(p),
           Publishes(p)
    PROVE  \E c \in Content : Abstract!PublishFile(c) \/ Abstract!PublishPackage(c)
<1> DEFINE c == h[p].text
<1>0. /\ doc \in DocRecord /\ h[p] \in HandlerRecord /\ doc' \in DocRecord
      /\ doc.exists /\ doc'.exists /\ live' = live /\ overlap' = overlap
      /\ h[p].pc = "commit" /\ Absent \notin Content
  BY Names DEF SInv, TInv, TypeOK, Publishes, Commit
<1>1. /\ c \in Content /\ live[doc.path] # Absent
      /\ live[h[p].op] = c
  BY <1>0 DEF SInv, Ready, Served, HandlerRecord
<1>2. /\ doc'.path = h[p].op
      /\ doc'.text = IF h[p].blank THEN NoText ELSE c
      /\ doc'.size = IF h[p].kind = "restore" THEN h[p].recorded ELSE c
  BY DEF Publishes
<1>3. CASE h[p].kind = "zip"
  <2>1. doc'.multi /\ doc'.prefix = h[p].op /\ doc'.text \in {c, NoText}
        /\ doc'.size = c
    BY <1>2, <1>3 DEF Publishes
  <2>2. Abstract!PublishPackage(c)
    BY <1>0, <1>1, <1>2, <2>1 DEF Abstract!PublishPackage, OfDashboard
  <2> QED BY <1>1, <2>2
<1>4. CASE h[p].kind # "zip"
  <2>1. /\ ~h[p].blank
        /\ h[p].kind \in {"html", "restore"}
        /\ h[p].kind = "restore" => ~h[p].multi
    BY <1>0, <1>4 DEF SInv, Parts, RevisionKinds
  <2>2. doc'.text = c /\ doc'.size \in Content
    BY <1>0, <1>2, <2>1 DEF DocRecord
  <2>3. ~overlap => doc'.size = c /\ h[p].multi = doc.multi
    BY <1>0, <1>2 DEF SInv, Alone, Current, Sizing, Private
  <2> DEFINE Further == OfDashboard(IF doc.multi THEN live[doc.prefix] ELSE Absent)
  <2>4. /\ Further' \in {Absent, Further}
        /\ ~overlap => Further' = Absent
    <3>1. CASE h[p].kind = "html" /\ h[p].multi
      BY <1>0, <3>1 DEF Publishes, OfDashboard
    <3>2. CASE ~(h[p].kind = "html" /\ h[p].multi)
      <4>1. doc'.multi = doc.multi /\ doc'.prefix = doc.prefix /\ ~h[p].multi
        BY <1>4, <2>1, <3>2 DEF Publishes
      <4>2. Further' = Further
        BY <1>0, <4>1 DEF OfDashboard
      <4>3. ~overlap => Further' = Absent
        BY <1>0, <2>3, <4>1 DEF OfDashboard, DocRecord
      <4> QED BY <4>2, <4>3
    <3> QED BY <3>1, <3>2
  <2>5. Abstract!PublishFile(c)
    BY <1>0, <1>1, <1>2, <2>2, <2>3, <2>4 DEF Abstract!PublishFile, OfDashboard
  <2> QED BY <1>1, <2>5
<1> QED BY <1>3, <1>4

\* Under the same conditions the handlers implement LiveContent: each upload
\* takes the place of the one before in one step, with its own text and its own
\* package, and no clean-up touches what the document points to.  A single file
\* also has its own size, and no package beside it, as long as no two handlers
\* have overlapped.
THEOREM Refinement ==
    ASSUME RevisionWritersOnly
    PROVE  Spec => ImplementsLiveContent
<1>1. Init => Abstract!Init
  BY Names DEF Init, Abstract!Init, OfDashboard
<1>2. SInv /\ [Next]_vars => [Abstract!Next]_(Abstract!vars)
  <2> SUFFICES ASSUME SInv, [Next]_vars
               PROVE  [Abstract!Next]_(Abstract!vars)
    OBVIOUS
  <2>1. SInv'
    BY SInvNext
  <2>2. CASE UNCHANGED vars
    BY <2>2 DEF vars, Abstract!vars, OfDashboard
  <2>3. ASSUME NEW p \in Procs, Step(p)
        PROVE  [Abstract!Next]_(Abstract!vars)
    <3>1. CASE doc' = doc
      <4>1. /\ OfDashboard(live[doc.path])' = OfDashboard(live[doc.path])
            /\ OfDashboard(doc.text)' = OfDashboard(doc.text)
            /\ OfDashboard(doc.size)' = OfDashboard(doc.size)
            /\ OfDashboard(IF doc.multi THEN live[doc.prefix] ELSE Absent)'
                 = OfDashboard(IF doc.multi THEN live[doc.prefix] ELSE Absent)
        BY <2>3, <3>1, LiveKept DEF OfDashboard
      <4>2. overlap' = overlap \/ overlap' = TRUE
        <5>1. ASSUME NEW k \in Kinds, Start(p, k)
              PROVE  overlap' = overlap \/ overlap' = TRUE
          BY <5>1 DEF Start, SInv, TInv, TypeOK
        <5> QED BY <2>3, <5>1, StepEffects
      <4> QED BY <4>1, <4>2 DEF Abstract!vars, Abstract!Next, Abstract!Overlap
    <3>2. CASE Unlist(p) /\ ~doc'.exists
      BY <3>2 DEF Unlist, Abstract!Next, Abstract!Remove, OfDashboard
    <3>3. CASE Publishes(p)
      BY <2>1, <2>3, <3>3, PublishesContent DEF Abstract!Next
    <3> QED BY <2>3, <3>1, <3>2, <3>3, Documents
            DEF SInv, TInv, RevisionWritersOnly
  <2> QED BY <2>2, <2>3 DEF Next
<1> QED BY <1>1, <1>2, SInvInit, SInvNext, PTL
        DEF Spec, ImplementsLiveContent, Abstract!Spec

-----------------------------------------------------------------------------
(* One handler at a time keeps the archive *)

\* The condition of the theorems on the archive's order: handlers do not overlap,
\* a delete that fails is not ignored, and there is room for a version beside
\* the one a restore protects.
OneAtATime ==
    /\ \A p, q \in Procs : p = q
    /\ "remove" \notin Faults
    /\ "restore" \in Kinds => MaxVersions > 1

\* The condition of the theorem on its contents: in addition no handler
\* replaces the dashboard by a package, which discards what it replaces.
SerialHandlers == OneAtATime /\ "zip" \notin Kinds

-----------------------------------------------------------------------------
(* The inductive invariant, first what is about the order of the versions *)

Known ==
    \A p \in Procs : h[p].kind # "none" => h[p].kind \in Kinds

\* Only a restore chooses a version.
ChosenByRestore ==
    \A p \in Procs : h[p].ver # 0 \/ h[p].pc = "pick" => h[p].kind = "restore"

\* The version a restore has chosen stays until its file is copied.
SourceListed ==
    \A p \in Procs : h[p].pc \in Private \ {"pick", "commit"} =>
        h[p].ver \in VersionDocs \cup {0}

\* Version documents carry distinct server times, none of them in the future.
Timestamps ==
    /\ \A n \in VersionNo : replacedAt[n] <= clock
    /\ \A m, n \in VersionDocs : replacedAt[m] = replacedAt[n] => m = n

Archiving == {"copy", "record"}
Evicting  == {"evictFile", "evictDoc"}

\* The number of the next version is free, the versions to evict are the
\* oldest there are, and the version being restored is not among them.
Survey ==
    \A p \in Procs : h[p].pc \in Archiving \cup Evicting =>
        /\ h[p].num \in VersionNo
        /\ h[p].pc \in Archiving => h[p].num \notin VersionDocs
        /\ h[p].gc \subseteq VersionDocs \ {h[p].ver}
        /\ \A n \in h[p].gc : h[p].seen[n] = replacedAt[n]
        /\ \A n \in h[p].gc, m \in VersionDocs \ (h[p].gc \cup {h[p].ver}) :
               replacedAt[n] <= replacedAt[m]

\* Once the versions to evict are gone, the archive is within its limit.
Trimming ==
    \A p \in Procs :
        /\ h[p].pc \in Archiving =>
              Cardinality(VersionDocs \ h[p].gc) + 1 <= MaxVersions
        /\ h[p].pc \in Evicting =>
              Cardinality(VersionDocs \ h[p].gc) <= MaxVersions

OrderInv ==
    /\ Known /\ ChosenByRestore /\ SourceListed /\ Timestamps
    /\ Survey /\ Trimming /\ ArchiveTrimmed

-----------------------------------------------------------------------------
(* then what is about the contents of their files. *)

NoZip == \A p \in Procs : h[p].kind # "zip" /\ h[p].pc # "unpack"

\* What a handler read when it started still holds until it publishes.
Snapshot ==
    \A p \in Procs : h[p].pc \in Private =>
        /\ doc.exists
        /\ h[p].path = doc.path
        /\ h[p].multi = doc.multi
        /\ doc.multi => h[p].kind = "html" \/ h[p].pc = "pick"
        /\ h[p].path # h[p].op /\ h[p].prefix # h[p].op

\* A package is not owed to the archive, and the builder does not own it.
Packages == doc.multi => owed = {} /\ ~doc.ai

\* What is about to be recorded as a version is the file that is live.
Copied ==
    \A p \in Procs : h[p].pc = "record" =>
        verFile[h[p].num] = live[doc.path]

\* The document of the version being evicted no longer has a file.
Emptied ==
    \A p \in Procs : h[p].pc = "evictDoc" =>
        \A n \in h[p].gc :
            (\A m \in h[p].gc : h[p].seen[n] <= h[p].seen[m])
                => verFile[n] = Absent

\* Everything that is owed is in the archive, so that the live file may go.
AllArchived == \A c \in owed : \E n \in VersionDocs : verFile[n] = c

Safe ==
    \A p \in Procs : h[p].pc \in Evicting \cup {"upload", "commit"} => AllArchived

\* What is about to be published is in place.
Staged ==
    \A p \in Procs : h[p].pc = "commit" =>
        live[IF h[p].kind \in InPlaceKinds THEN Stable ELSE h[p].op] = h[p].text

\* What a handler deletes afterwards is not what it has published.
Published ==
    \A p \in Procs : h[p].pc = "cleanup" =>
        doc.path = h[p].op /\ h[p].path # h[p].op /\ h[p].prefix # h[p].op

ContentInv ==
    /\ NoZip /\ Snapshot /\ Packages /\ Copied /\ Emptied /\ Safe
    /\ Staged /\ Published /\ Purging /\ NoContentLost

-----------------------------------------------------------------------------
(* Lemmas on the clean-up *)

\* The version documents are finitely many.
LEMMA VersionsFinite ==
    ASSUME NEW S \in SUBSET VersionNo
    PROVE  IsFiniteSet(S) /\ Cardinality(S) \in Nat
<1>1. IsFiniteSet(VersionNo)
  BY FS_Interval, ContentAssumption DEF VersionNo
<1> QED BY <1>1, FS_Subset, FS_CardinalityType

\* A version that is not among the k oldest is no older than any of them.
LEMMA OldestFirst ==
    ASSUME replacedAt \in [VersionNo -> Nat],
           NEW D \in SUBSET VersionNo, NEW k \in Nat,
           NEW n \in Oldest(D, k), NEW m \in D \ Oldest(D, k)
    PROVE  replacedAt[n] <= replacedAt[m]
<1> DEFINE Below(x) == {y \in D : replacedAt[y] < replacedAt[x]}
<1>1. SUFFICES ASSUME replacedAt[m] < replacedAt[n] PROVE FALSE
  BY DEF Oldest
<1>2. Cardinality(Below(n)) < k /\ ~(Cardinality(Below(m)) < k)
  BY DEF Oldest
<1>3. Below(m) \subseteq Below(n) /\ Below(n) \subseteq VersionNo
  BY <1>1 DEF Oldest
<1>4. IsFiniteSet(Below(n)) /\ Cardinality(Below(n)) \in Nat
  BY <1>3, VersionsFinite
<1>5. Cardinality(Below(m)) <= Cardinality(Below(n))
  BY <1>3, <1>4, FS_Subset
<1>6. Cardinality(Below(m)) \in Nat
  BY <1>3, VersionsFinite
<1> HIDE DEF Below
<1> QED BY <1>2, <1>4, <1>5, <1>6

\* The k oldest are at least k, where there are as many.
LEMMA OldestEnough ==
    ASSUME replacedAt \in [VersionNo -> Nat],
           NEW D \in SUBSET VersionNo, NEW k \in Nat, k <= Cardinality(D)
    PROVE  k <= Cardinality(Oldest(D, k))
<1> DEFINE Old == Oldest(D, k)
           Rest == D \ Old
           Times == {replacedAt[n] : n \in Rest}
<1>1. Old \subseteq D
  BY DEF Oldest
<1>2. CASE Rest = {}
  <2>1. Old = D
    BY <1>1, <1>2
  <2> QED BY <2>1
<1>3. CASE Rest # {}
  <2>1. Times \subseteq Nat /\ Times # {}
    BY <1>3
  <2>2. PICK t \in Times : \A u \in Times : ~(<<u, t>> \in OpToRel(<, Nat))
    <3> HIDE DEF Times
    <3> QED BY <2>1, NatLessThanWellFounded, WFMin
  <2>3. \A u \in Times : ~(u < t)
    BY <2>1, <2>2 DEF OpToRel
  <2>4. PICK n \in Rest : t = replacedAt[n]
    BY <2>2
  <2> DEFINE Below == {y \in D : replacedAt[y] < replacedAt[n]}
  <2>5. ~(Cardinality(Below) < k)
    BY <2>4 DEF Oldest
  <2>6. Below \subseteq Old
    BY <2>3, <2>4
  <2>7. IsFiniteSet(Old) /\ Cardinality(Old) \in Nat
    BY <1>1, VersionsFinite
  <2>8. Cardinality(Below) <= Cardinality(Old) /\ Cardinality(Below) \in Nat
    BY <2>6, <2>7, FS_Subset, VersionsFinite
  <2> HIDE DEF Below
  <2>9. k <= Cardinality(Old)
    <3> HIDE DEF Old
    <3> QED BY <2>5, <2>7, <2>8
  <2> QED BY <2>9
<1> QED BY <1>2, <1>3

\* What the clean-up chooses: existing versions, the oldest first, never the
\* protected one, and enough of them to make room for one more.
LEMMA OverflowFacts ==
    ASSUME TypeOK, NEW v, v \in VersionNo => MaxVersions > 1
    PROVE  /\ Overflow(v) \subseteq VersionDocs \ {v}
           /\ \A n \in Overflow(v), m \in VersionDocs \ (Overflow(v) \cup {v}) :
                 replacedAt[n] <= replacedAt[m]
           /\ Cardinality(VersionDocs \ Overflow(v)) + 1 <= MaxVersions
<1> DEFINE size == Cardinality(VersionDocs)
           D == VersionDocs \ {v}
           k == size - MaxVersions + 1
<1>0. /\ replacedAt \in [VersionNo -> Nat] /\ VersionDocs \subseteq VersionNo
      /\ MaxVersions \in Nat \ {0}
  BY ContentAssumption DEF TypeOK, VersionDocs
<1>1. IsFiniteSet(VersionDocs) /\ size \in Nat
  BY <1>0, VersionsFinite
<1>2. CASE size < MaxVersions
  <2>1. Overflow(v) = {}
    BY <1>0, <1>1, <1>2 DEF Overflow
  <2>2. VersionDocs \ {} = VersionDocs
    OBVIOUS
  <2>3. Cardinality(VersionDocs \ Overflow(v)) = size
    BY <2>1, <2>2
  <2> HIDE DEF size
  <2> QED BY <2>1, <2>3, <1>0, <1>1, <1>2
<1>3. CASE size >= MaxVersions
  <2>1. Overflow(v) = Oldest(D, k)
    BY <1>3 DEF Overflow
  <2>2. D \in SUBSET VersionNo /\ Oldest(D, k) \subseteq D
    BY <1>0 DEF Oldest
  <2>3. k \in Nat
    BY <1>0, <1>1, <1>3
  <2>4. k <= Cardinality(D)
    <3>1. /\ Cardinality(D) = IF v \in VersionDocs THEN size - 1 ELSE size
          /\ v \in VersionDocs => MaxVersions > 1
      BY <1>0, <1>1, FS_RemoveElement
    <3> HIDE DEF size, D
    <3> QED BY <3>1, <1>0, <1>1
  <2>5. k <= Cardinality(Oldest(D, k))
    <3> HIDE DEF D, k
    <3> QED BY <1>0, <2>2, <2>3, <2>4, OldestEnough
  <2>6. \A n \in Oldest(D, k), m \in D \ Oldest(D, k) :
           replacedAt[n] <= replacedAt[m]
    <3> HIDE DEF D, k
    <3> QED BY <1>0, <2>2, <2>3, OldestFirst
  <2>7. Cardinality(VersionDocs \ Oldest(D, k))
           = size - Cardinality(Oldest(D, k))
    <3>1. VersionDocs \cap Oldest(D, k) = Oldest(D, k)
      BY <2>2
    <3>2. Cardinality(VersionDocs \ Oldest(D, k))
             = size - Cardinality(VersionDocs \cap Oldest(D, k))
      BY <1>1, FS_Difference
    <3> QED BY <3>1, <3>2
  <2>8. Cardinality(Oldest(D, k)) \in Nat
    BY <2>2, VersionsFinite
  <2>9. Cardinality(VersionDocs \ Oldest(D, k)) + 1 <= MaxVersions
    <3> DEFINE c == Cardinality(Oldest(D, k))
    <3>1. c \in Nat /\ size - MaxVersions + 1 <= c
      BY <2>5, <2>8
    <3>2. size - c + 1 <= MaxVersions
      <4> HIDE DEF size, c
      <4> QED BY <3>1, <1>0, <1>1
    <3> QED BY <3>2, <2>7
  <2>10. VersionDocs \ (Overflow(v) \cup {v}) = D \ Oldest(D, k)
    BY <2>1
  <2> QED BY <2>1, <2>2, <2>6, <2>9, <2>10
<1> QED BY <1>0, <1>1, <1>2, <1>3

-----------------------------------------------------------------------------
(* How each step keeps the order of the archive *)

\* All but the place and the text of a handler's work is as before.
SameWork(p) ==
    /\ h'[p].kind = h[p].kind /\ h'[p].op = h[p].op
    /\ h'[p].path = h[p].path /\ h'[p].multi = h[p].multi
    /\ h'[p].prefix = h[p].prefix /\ h'[p].ver = h[p].ver
    /\ h'[p].num = h[p].num /\ h'[p].seen = h[p].seen /\ h'[p].gc = h[p].gc

\* A handler that moves on changes its place only.
LEMMA GotoFields ==
    ASSUME TypeOK, NEW p \in Procs, NEW s, Goto(p, s)
    PROVE  h'[p].pc = s /\ SameWork(p)
<1>1. h'[p] = [h[p] EXCEPT !.pc = s] /\ h[p] \in HandlerRecord
  BY DEF TypeOK, Goto
<1> QED BY <1>1 DEF HandlerRecord, SameWork

\* A handler that has uploaded is about to publish what it uploaded.
LEMMA UploadedFields ==
    ASSUME TypeOK, NEW p \in Procs, NEW t, Uploaded(p, t)
    PROVE  h'[p].pc = "commit" /\ h'[p].text = t /\ SameWork(p)
<1>1. /\ h'[p] = [h[p] EXCEPT !.pc = "commit", !.text = t]
      /\ h[p] \in HandlerRecord
  BY DEF TypeOK, Uploaded
<1> QED BY <1>1 DEF HandlerRecord, SameWork

\* So has one that has unpacked a package.
LEMMA UnpackedFields ==
    ASSUME TypeOK, NEW p \in Procs, UnpackZip(p)
    PROVE  h'[p].pc = "commit" /\ SameWork(p)
<1>0. h \in [Procs -> HandlerRecord]
  BY DEF TypeOK
<1>1. PICK b : h' = [h EXCEPT ![p] = [h[p] EXCEPT !.pc = "commit",
                                                  !.text = h[p].op, !.blank = b]]
  BY <1>0 DEF UnpackZip
<1>2. h'[p] = [h[p] EXCEPT !.pc = "commit", !.text = h[p].op, !.blank = b]
  BY <1>0, <1>1
<1> QED BY <1>0, <1>2 DEF HandlerRecord, SameWork

\* A handler that ends leaves no decision behind.
LEMMA OrderEnded ==
    ASSUME OneAtATime, TypeOK, OrderInv, NEW p \in Procs, Finish(p),
           UNCHANGED <<replacedAt, clock>>
    PROVE  OrderInv'
<1>1. \A q \in Procs : h'[q] = Idle
  BY DEF OneAtATime, TypeOK, Finish
<1>2. VersionDocs' = VersionDocs
  BY DEF VersionDocs
<1>3. /\ Idle.pc = "idle" /\ Idle.kind = "none" /\ Idle.ver = 0 /\ Idle.num = 0
  BY DEF Idle
<1>4. /\ Known' /\ ChosenByRestore' /\ SourceListed' /\ Survey' /\ Trimming'
      /\ ArchiveTrimmed'
  BY <1>1, <1>3
     DEF Known, ChosenByRestore, SourceListed, Survey, Trimming, ArchiveTrimmed,
         Private, Archiving, Evicting
<1>5. Timestamps'
  BY <1>2 DEF OrderInv, Timestamps
<1> QED BY <1>4, <1>5 DEF OrderInv

\* A handler that goes on after archiving leaves the versions alone.
LEMMA OrderPublishing ==
    ASSUME OneAtATime, OrderInv, NEW p \in Procs, SameWork(p),
           h'[p].pc \in {"unpack", "commit", "cleanup", "purge"},
           h'[p].pc = "unpack" => h[p].pc = "upload",
           UNCHANGED <<replacedAt, clock>>
    PROVE  OrderInv'
<1>1. \A q \in Procs : q = p
  BY DEF OneAtATime
<1>2. VersionDocs' = VersionDocs
  BY DEF VersionDocs
<1>3. Known' /\ ChosenByRestore'
  BY <1>1 DEF OrderInv, Known, ChosenByRestore, SameWork
<1>4. SourceListed'
  BY <1>1, <1>2 DEF OrderInv, SourceListed, Private, SameWork
<1>5. Survey' /\ Trimming' /\ ArchiveTrimmed'
  BY <1>1 DEF Survey, Trimming, ArchiveTrimmed, Archiving, Evicting
<1>6. Timestamps'
  BY <1>2 DEF OrderInv, Timestamps
<1> QED BY <1>3, <1>4, <1>5, <1>6 DEF OrderInv

\* A new operation has decided nothing yet.
LEMMA OrderStart ==
    ASSUME OneAtATime, TypeOK, OrderInv, NEW p \in Procs, NEW k \in Kinds,
           Start(p, k)
    PROVE  OrderInv'
<1>1. /\ h'[p].pc = FirstStep(k) /\ h'[p].kind = k
      /\ h'[p].ver = 0 /\ h'[p].num = 0
  BY StartFields DEF TypeOK
<1>2. \A q \in Procs : q = p
  BY DEF OneAtATime
<1>3. UNCHANGED <<replacedAt, clock>> /\ VersionDocs' = VersionDocs
  BY DEF Start, VersionDocs
<1>4. /\ FirstStep(k) \in {"pick", "survey", "upload", "unlist"}
      /\ FirstStep(k) = "pick" => k = "restore"
  BY DEF FirstStep
<1>5. Known' /\ ChosenByRestore' /\ SourceListed'
  BY <1>1, <1>2, <1>4 DEF Known, ChosenByRestore, SourceListed, Private
<1>6. Survey' /\ Trimming' /\ ArchiveTrimmed'
  BY <1>1, <1>2, <1>4 DEF Survey, Trimming, ArchiveTrimmed, Archiving, Evicting
<1>7. Timestamps'
  BY <1>3 DEF OrderInv, Timestamps
<1> QED BY <1>5, <1>6, <1>7 DEF OrderInv

\* A restore chooses an existing version.
LEMMA OrderPick ==
    ASSUME OneAtATime, TypeOK, OrderInv, NEW p \in Procs,
           NEW n \in VersionNo, PickVersion(p, n)
    PROVE  OrderInv'
<1>1. /\ h[p].pc = "pick" /\ n \in VersionDocs
      /\ UNCHANGED <<replacedAt, clock>> /\ VersionDocs' = VersionDocs
  BY DEF PickVersion, VersionDocs
<1>2. /\ h[p] \in HandlerRecord
      /\ h'[p] = [h[p] EXCEPT !.pc = "survey", !.ver = n, !.recorded = verSize[n]]
  BY DEF PickVersion, TypeOK
<1>3. h'[p].pc = "survey" /\ h'[p].ver = n /\ h'[p].kind = h[p].kind
  BY <1>2 DEF HandlerRecord
<1>4. \A q \in Procs : q = p
  BY DEF OneAtATime
<1>5. Known' /\ ChosenByRestore' /\ SourceListed'
  BY <1>1, <1>3, <1>4 DEF OrderInv, Known, ChosenByRestore, SourceListed, Private
<1>6. Survey' /\ Trimming' /\ ArchiveTrimmed'
  BY <1>3, <1>4 DEF Survey, Trimming, ArchiveTrimmed, Archiving, Evicting
<1>7. Timestamps'
  BY <1>1 DEF OrderInv, Timestamps
<1> QED BY <1>5, <1>6, <1>7 DEF OrderInv

\* The survey numbers the next version and chooses what is to go.
LEMMA OrderSurvey ==
    ASSUME OneAtATime, TypeOK, OrderInv, NEW p \in Procs,
           NEW n \in VersionNo, SurveyVersions(p, n)
    PROVE  OrderInv'
<1>0. /\ h[p] \in HandlerRecord /\ 0 \notin VersionNo
      /\ VersionDocs \subseteq VersionNo
  BY ContentAssumption DEF TypeOK, VersionNo, VersionDocs
<1>1. /\ h[p].pc = "survey" /\ IsNextVersion(n)
      /\ UNCHANGED <<replacedAt, clock>> /\ VersionDocs' = VersionDocs
  BY DEF SurveyVersions, VersionDocs
<1>2. h'[p] = [h[p] EXCEPT !.pc = "copy", !.num = n, !.seen = replacedAt,
                           !.gc = Overflow(h[p].ver)]
  BY DEF SurveyVersions, TypeOK
<1>3. /\ h'[p].pc = "copy" /\ h'[p].ver = h[p].ver /\ h'[p].kind = h[p].kind
      /\ h'[p].num = n /\ h'[p].seen = replacedAt
      /\ h'[p].gc = Overflow(h[p].ver)
  BY <1>0, <1>2 DEF HandlerRecord
<1>4. \A q \in Procs : q = p
  BY DEF OneAtATime
<1>5. h[p].ver \in VersionDocs \cup {0}
  BY <1>1 DEF OrderInv, SourceListed, Private
<1>6. h[p].ver \in VersionNo => MaxVersions > 1
  BY <1>0 DEF OrderInv, ChosenByRestore, Known, OneAtATime
<1>7. PICK gc : gc = Overflow(h[p].ver)
  OBVIOUS
<1>8. /\ gc \subseteq VersionDocs \ {h[p].ver}
      /\ \A i \in gc, m \in VersionDocs \ (gc \cup {h[p].ver}) :
               replacedAt[i] <= replacedAt[m]
      /\ Cardinality(VersionDocs \ gc) + 1 <= MaxVersions
  BY <1>6, <1>7, OverflowFacts
<1>9. n \notin VersionDocs
  BY <1>0, <1>1 DEF IsNextVersion, VersionNo
<1>10. Known' /\ ChosenByRestore' /\ SourceListed'
  BY <1>1, <1>3, <1>4, <1>5
     DEF OrderInv, Known, ChosenByRestore, SourceListed, Private
<1>11. Survey'
  BY <1>1, <1>3, <1>4, <1>7, <1>8, <1>9 DEF Survey, Archiving, Evicting
<1>12. Trimming'
  BY <1>1, <1>3, <1>4, <1>7, <1>8 DEF Trimming, Archiving, Evicting
<1>13. ArchiveTrimmed' /\ Timestamps'
  BY <1>1, <1>3, <1>4 DEF OrderInv, ArchiveTrimmed, Timestamps
<1> QED BY <1>10, <1>11, <1>12, <1>13 DEF OrderInv

\* The copy of the live file changes no document.
LEMMA OrderCopy ==
    ASSUME OneAtATime, TypeOK, OrderInv, NEW p \in Procs, CopyToVersion(p)
    PROVE  OrderInv'
<1>1. /\ h[p].pc = "copy" /\ UNCHANGED <<replacedAt, clock>>
      /\ VersionDocs' = VersionDocs
  BY DEF CopyToVersion, VersionDocs
<1>2. h'[p].pc = "record" /\ SameWork(p)
  BY GotoFields DEF CopyToVersion
<1>3. \A q \in Procs : q = p
  BY DEF OneAtATime
<1>4. Known' /\ ChosenByRestore' /\ SourceListed'
  BY <1>1, <1>2, <1>3
     DEF OrderInv, Known, ChosenByRestore, SourceListed, Private, SameWork
<1>5. Survey' /\ Trimming'
  BY <1>1, <1>2, <1>3
     DEF OrderInv, Survey, Trimming, Archiving, Evicting, SameWork
<1>6. ArchiveTrimmed' /\ Timestamps'
  BY <1>1, <1>2, <1>3 DEF OrderInv, ArchiveTrimmed, Timestamps
<1> QED BY <1>4, <1>5, <1>6 DEF OrderInv

\* The new version is the newest, and there is room for it.
LEMMA OrderRecord ==
    ASSUME OneAtATime, TypeOK, OrderInv, NEW p \in Procs, RecordVersion(p)
    PROVE  /\ OrderInv'
           /\ VersionDocs' = VersionDocs \cup {h[p].num}
<1>0. /\ replacedAt \in [VersionNo -> Nat] /\ clock \in Nat
      /\ VersionDocs \subseteq VersionNo /\ MaxVersions \in Nat
  BY ContentAssumption DEF TypeOK, VersionDocs
<1>1. /\ h[p].pc = "record"
      /\ clock' = clock + 1
      /\ replacedAt' = [replacedAt EXCEPT ![h[p].num] = clock + 1]
  BY DEF RecordVersion
<1>2. h'[p].pc = AfterArchive(h[p].gc) /\ SameWork(p)
  BY GotoFields DEF RecordVersion
<1>3. \A q \in Procs : q = p
  BY DEF OneAtATime
<1>4. /\ h[p].num \in VersionNo \ VersionDocs
      /\ h[p].gc \subseteq VersionDocs \ {h[p].ver}
      /\ h[p].ver \in VersionDocs \cup {0}
  BY <1>1 DEF OrderInv, Survey, SourceListed, Private, Archiving, Evicting
<1>5. /\ replacedAt'[h[p].num] = clock + 1
      /\ \A m \in VersionDocs : replacedAt'[m] = replacedAt[m]
      /\ \A m \in VersionNo : m # h[p].num => replacedAt'[m] = replacedAt[m]
  BY <1>0, <1>1, <1>4
<1>6. VersionDocs' = VersionDocs \cup {h[p].num}
  BY <1>0, <1>4, <1>5 DEF VersionDocs
<1>7. /\ h'[p].pc \in {"upload", "evictFile"}
      /\ h'[p].pc = "upload" <=> h[p].gc = {}
  BY <1>2 DEF AfterArchive
<1>8. Known' /\ ChosenByRestore' /\ SourceListed'
  BY <1>2, <1>3, <1>4, <1>6, <1>7
     DEF OrderInv, Known, ChosenByRestore, SourceListed, Private, SameWork
<1>9. Timestamps'
  <2>1. \A n \in VersionNo : replacedAt[n] <= clock /\ replacedAt[n] \in Nat
    BY <1>0 DEF OrderInv, Timestamps
  <2>2. \A n \in VersionNo : replacedAt'[n] <= clock'
    BY <1>0, <1>1, <1>4, <1>5, <2>1
  <2>3. \A m, n \in VersionDocs' : replacedAt'[m] = replacedAt'[n] => m = n
    <3>1. \A m \in VersionDocs : replacedAt[m] # clock + 1
      BY <1>0, <2>1
    <3>2. \A m, n \in VersionDocs : replacedAt[m] = replacedAt[n] => m = n
      BY DEF OrderInv, Timestamps
    <3> QED BY <1>5, <1>6, <3>1, <3>2
  <2> QED BY <2>2, <2>3 DEF Timestamps
<1>10. Survey'
  <2>1. \A n \in h[p].gc : h[p].seen[n] = replacedAt'[n]
    BY <1>1, <1>4, <1>5 DEF OrderInv, Survey, Archiving, Evicting
  <2>2. \A n \in h[p].gc, m \in VersionDocs' \ (h[p].gc \cup {h[p].ver}) :
           replacedAt'[n] <= replacedAt'[m]
    <3>1. \A n \in h[p].gc, m \in VersionDocs \ (h[p].gc \cup {h[p].ver}) :
           replacedAt[n] <= replacedAt[m]
      BY <1>1 DEF OrderInv, Survey, Archiving, Evicting
    <3>2. \A n \in h[p].gc : replacedAt[n] <= clock + 1
      BY <1>0, <1>4 DEF OrderInv, Timestamps
    <3> QED BY <1>4, <1>5, <1>6, <3>1, <3>2
  <2> QED BY <1>2, <1>3, <1>4, <1>6, <1>7, <2>1, <2>2
          DEF Survey, Archiving, Evicting, SameWork
<1>11. Cardinality(VersionDocs' \ h[p].gc) <= MaxVersions
  <2>1. Cardinality(VersionDocs \ h[p].gc) + 1 <= MaxVersions
    BY <1>1 DEF OrderInv, Trimming, Archiving
  <2>2. /\ IsFiniteSet(VersionDocs \ h[p].gc)
        /\ Cardinality(VersionDocs \ h[p].gc) \in Nat
    BY <1>0, VersionsFinite
  <2>3. VersionDocs' \ h[p].gc = (VersionDocs \ h[p].gc) \cup {h[p].num}
    BY <1>4, <1>6
  <2>4. h[p].num \notin VersionDocs \ h[p].gc
    BY <1>4
  <2>5. Cardinality((VersionDocs \ h[p].gc) \cup {h[p].num})
           = Cardinality(VersionDocs \ h[p].gc) + 1
    BY <2>2, <2>4, FS_AddElement
  <2> QED BY <2>1, <2>3, <2>5
<1>12. Trimming'
  BY <1>2, <1>3, <1>7, <1>11 DEF Trimming, Archiving, Evicting, SameWork
<1>13. ArchiveTrimmed'
  <2>1. h[p].gc = {} => Cardinality(VersionDocs') <= MaxVersions
    <3>1. VersionDocs' \ {} = VersionDocs'
      OBVIOUS
    <3> QED BY <1>11, <3>1
  <2> QED BY <1>3, <1>7, <2>1 DEF ArchiveTrimmed
<1> QED BY <1>6, <1>8, <1>9, <1>10, <1>12, <1>13 DEF OrderInv

\* Evicting a version's file changes no document.
LEMMA OrderEvictFile ==
    ASSUME OneAtATime, TypeOK, OrderInv, NEW p \in Procs,
           NEW n \in VersionNo, EvictFile(p, n)
    PROVE  OrderInv'
<1>1. /\ h[p].pc = "evictFile" /\ UNCHANGED <<replacedAt, clock>>
      /\ VersionDocs' = VersionDocs
  BY DEF EvictFile, VersionDocs
<1>2. h'[p].pc = "evictDoc" /\ SameWork(p)
  BY GotoFields DEF EvictFile
<1>3. \A q \in Procs : q = p
  BY DEF OneAtATime
<1>4. Known' /\ ChosenByRestore' /\ SourceListed'
  BY <1>1, <1>2, <1>3
     DEF OrderInv, Known, ChosenByRestore, SourceListed, Private, SameWork
<1>5. Survey' /\ Trimming'
  BY <1>1, <1>2, <1>3
     DEF OrderInv, Survey, Trimming, Archiving, Evicting, SameWork
<1>6. ArchiveTrimmed' /\ Timestamps'
  BY <1>1, <1>2, <1>3 DEF OrderInv, ArchiveTrimmed, Timestamps
<1> QED BY <1>4, <1>5, <1>6 DEF OrderInv

\* What is evicted is the oldest of what is to go; the rest stays in order.
LEMMA OrderEvictDoc ==
    ASSUME OneAtATime, TypeOK, OrderInv, NEW p \in Procs,
           NEW n \in VersionNo, EvictDoc(p, n)
    PROVE  /\ OrderInv'
           /\ VersionDocs' = VersionDocs \ {n}
<1>0. /\ h \in [Procs -> HandlerRecord] /\ MaxVersions \in Nat
      /\ VersionDocs \subseteq VersionNo
      /\ replacedAt \in [VersionNo -> Nat] /\ clock \in Nat
  BY Names, ContentAssumption DEF TypeOK, VersionDocs
<1>1. /\ h[p].pc = "evictDoc" /\ n \in h[p].gc
      /\ \A m \in h[p].gc : h[p].seen[n] <= h[p].seen[m]
      /\ UNCHANGED clock
      /\ replacedAt' = [replacedAt EXCEPT ![n] = 0]
  BY DEF EvictDoc, OneAtATime
<1>2. h'[p] = [h[p] EXCEPT !.gc = h[p].gc \ {n},
                           !.pc = AfterArchive(h[p].gc \ {n})]
  BY <1>0 DEF EvictDoc
<1>3. /\ h'[p].pc = AfterArchive(h[p].gc \ {n}) /\ h'[p].gc = h[p].gc \ {n}
      /\ h'[p].ver = h[p].ver /\ h'[p].kind = h[p].kind
      /\ h'[p].op = h[p].op /\ h'[p].path = h[p].path
      /\ h'[p].multi = h[p].multi /\ h'[p].prefix = h[p].prefix
      /\ h'[p].num = h[p].num /\ h'[p].seen = h[p].seen
  BY <1>0, <1>2 DEF HandlerRecord
<1>4. \A q \in Procs : q = p
  BY DEF OneAtATime
<1>5. /\ h[p].gc \subseteq VersionDocs \ {h[p].ver} /\ h[p].num \in VersionNo
      /\ \A m \in h[p].gc : h[p].seen[m] = replacedAt[m]
      /\ \A i \in h[p].gc, m \in VersionDocs \ (h[p].gc \cup {h[p].ver}) :
               replacedAt[i] <= replacedAt[m]
      /\ h[p].ver \in VersionDocs \cup {0}
  BY <1>1 DEF OrderInv, Survey, SourceListed, Archiving, Evicting, Private
<1>6. /\ \A m \in VersionNo : replacedAt'[m] = IF m = n THEN 0 ELSE replacedAt[m]
      /\ VersionDocs' = VersionDocs \ {n}
  <2>1. \A m \in VersionNo : replacedAt'[m] = IF m = n THEN 0 ELSE replacedAt[m]
    BY <1>0, <1>1
  <2> QED BY <2>1 DEF VersionDocs
<1>7. /\ h'[p].pc \in {"upload", "evictFile"}
      /\ h'[p].pc = "upload" <=> h[p].gc \ {n} = {}
  BY <1>3 DEF AfterArchive
<1>8. Known' /\ ChosenByRestore' /\ SourceListed'
  BY <1>1, <1>3, <1>4, <1>5, <1>6, <1>7
     DEF OrderInv, Known, ChosenByRestore, SourceListed, Private
<1>9. Timestamps'
  <2>1. \A i, m \in VersionDocs' : replacedAt'[i] = replacedAt'[m] => i = m
    BY <1>0, <1>6 DEF OrderInv, Timestamps
  <2>2. \A i \in VersionNo : replacedAt'[i] <= clock'
    BY <1>0, <1>1, <1>6 DEF OrderInv, Timestamps
  <2> QED BY <2>1, <2>2 DEF Timestamps
<1>10. Survey'
  BY <1>0, <1>3, <1>4, <1>5, <1>6, <1>7 DEF Survey, Archiving, Evicting
<1>11. /\ Cardinality(VersionDocs' \ (h[p].gc \ {n})) <= MaxVersions
  <2>1. VersionDocs' \ (h[p].gc \ {n}) = VersionDocs \ h[p].gc
    BY <1>1, <1>5, <1>6
  <2> QED BY <1>1, <2>1 DEF OrderInv, Trimming, Evicting
<1>12. Trimming'
  BY <1>3, <1>4, <1>7, <1>11 DEF Trimming, Archiving, Evicting
<1>13. ArchiveTrimmed'
  <2>1. h[p].gc \ {n} = {} => Cardinality(VersionDocs') <= MaxVersions
    <3>1. VersionDocs' \ {} = VersionDocs'
      OBVIOUS
    <3> QED BY <1>11, <3>1
  <2> QED BY <1>4, <1>7, <2>1 DEF ArchiveTrimmed
<1> QED BY <1>6, <1>8, <1>9, <1>10, <1>12, <1>13 DEF OrderInv

\* Nothing has been archived at first.
LEMMA OrderInit == Init => OrderInv
<1> SUFFICES ASSUME Init PROVE OrderInv
  OBVIOUS
<1>1. /\ \A p \in Procs : h[p] = Idle
      /\ \A n \in VersionNo : replacedAt[n] = 0
      /\ VersionDocs = {} /\ clock = 0
  BY DEF Init, VersionDocs
<1>2. Idle.pc = "idle" /\ Idle.kind = "none" /\ Idle.ver = 0 /\ Idle.num = 0
  BY DEF Idle
<1> QED BY <1>1, <1>2
        DEF OrderInv, Known, ChosenByRestore, SourceListed, Timestamps, Survey,
            Trimming, ArchiveTrimmed, Private, Archiving, Evicting

\* Every step of a handler that is alone keeps the order, of whatever kind the
\* handler is.
LEMMA OrderStep ==
    ASSUME OneAtATime, TypeOK, OrderInv, NEW p \in Procs, Step(p)
    PROVE  OrderInv'
<1>1. CASE \E k \in Kinds : Start(p, k)
  BY <1>1, OrderStart
<1>2. CASE \E n \in VersionNo : \/ PickVersion(p, n) \/ SurveyVersions(p, n)
                               \/ EvictFile(p, n) \/ EvictDoc(p, n)
  BY <1>2, OrderPick, OrderSurvey, OrderEvictFile, OrderEvictDoc
<1>3. CASE CopyToVersion(p) \/ RecordVersion(p)
  BY <1>3, OrderCopy, OrderRecord
<1>4. CASE \/ RejectRestore(p) \/ CopyFails(p) \/ RecordFails(p)
           \/ UnpackFails(p) \/ UploadFails(p) \/ CommitFails(p)
           \/ CommitUnacknowledged(p) \/ Cleanup(p) \/ Purge(p) \/ Crash(p)
  BY <1>4, OrderEnded
     DEF RejectRestore, CopyFails, RecordFails, UnpackFails, UploadFails,
         CommitFails, CommitUnacknowledged, Cleanup, Purge, Crash
<1>8. CASE UnpackZip(p)
  <2>1. h'[p].pc = "commit" /\ SameWork(p) /\ UNCHANGED <<replacedAt, clock>>
    BY <1>8, UnpackedFields DEF UnpackZip
  <2> QED BY <2>1, OrderPublishing
<1>5. CASE UploadHtml(p) \/ CopyFromVersion(p) \/ UploadInPlace(p)
  <2>1. PICK t : Uploaded(p, t) /\ UNCHANGED <<replacedAt, clock>>
    BY <1>5 DEF UploadHtml, CopyFromVersion, UploadInPlace
  <2>2. h'[p].pc = "commit" /\ SameWork(p)
    BY <2>1, UploadedFields
  <2> QED BY <2>1, <2>2, OrderPublishing
<1>6. CASE UploadZip(p) \/ Unlist(p)
  <2>1. /\ h'[p].pc \in {"unpack", "purge"} /\ SameWork(p)
        /\ h'[p].pc = "unpack" => h[p].pc = "upload"
    BY <1>6, GotoFields DEF UploadZip, Unlist
  <2> QED BY <1>6, <2>1, OrderPublishing DEF UploadZip, Unlist
<1>7. CASE Commit(p)
  <2>1. CASE Finish(p)
    BY <1>7, <2>1, OrderEnded DEF Commit
  <2>2. CASE Goto(p, "cleanup")
    <3>1. h'[p].pc = "cleanup" /\ SameWork(p)
      BY <2>2, GotoFields
    <3> QED BY <1>7, <3>1, OrderPublishing DEF Commit
  <2> QED BY <1>7, <2>1, <2>2 DEF Commit
<1> QED BY <1>1, <1>2, <1>3, <1>4, <1>5, <1>6, <1>7, <1>8
        DEF Step, Archive, Upload, Publish

LEMMA OrderNext ==
    ASSUME OneAtATime
    PROVE  TInv /\ OrderInv /\ [Next]_vars => OrderInv'
<1>1. CASE UNCHANGED vars
  BY <1>1 DEF vars, OrderInv, Known, ChosenByRestore, SourceListed, Timestamps,
     Survey, Trimming, ArchiveTrimmed, VersionDocs
<1>2. CASE Next
  BY <1>2, OrderStep DEF Next, TInv
<1> QED BY <1>1, <1>2

-----------------------------------------------------------------------------
(* How each step keeps the contents *)

\* A handler that ends leaves nothing behind but what it has written.
LEMMA Ended ==
    ASSUME SerialHandlers, TypeOK, ContentInv, NEW p \in Procs, Finish(p),
           UNCHANGED <<doc, replacedAt, verFile, owed>>,
           live'[doc.path] = live[doc.path] \/ AllArchived \/ ~doc.exists
    PROVE  ContentInv'
<1>1. \A q \in Procs : h'[q] = Idle
  BY DEF SerialHandlers, OneAtATime, TypeOK, Finish
<1>2. VersionDocs' = VersionDocs
  BY DEF VersionDocs
<1>3. Idle.pc = "idle" /\ Idle.kind = "none"
  BY DEF Idle
<1>4. /\ NoZip' /\ Snapshot' /\ Copied' /\ Emptied' /\ Safe' /\ Staged'
      /\ Published' /\ Purging'
  BY <1>1, <1>3
     DEF NoZip, Snapshot, Copied, Emptied, Safe, Staged, Published, Purging,
         Private, Evicting
<1>5. Packages' /\ NoContentLost'
  BY <1>2 DEF ContentInv, Packages, NoContentLost, AllArchived
<1> QED BY <1>4, <1>5 DEF ContentInv

\* Giving up, at any point, and the clean-up after an operation.
LEMMA EndSteps ==
    ASSUME SerialHandlers, TypeOK, ContentInv, NEW p \in Procs,
           \/ RejectRestore(p) \/ CopyFails(p) \/ RecordFails(p)
           \/ UnpackFails(p) \/ UploadFails(p) \/ CommitFails(p)
           \/ Cleanup(p) \/ Purge(p) \/ Crash(p)
    PROVE  ContentInv'
<1>0. /\ doc.path \in Path /\ h[p].pc # "unpack"
      /\ live \in [Path -> Content \cup {Absent, Partial}]
  BY DEF TypeOK, DocRecord, ContentInv, NoZip
<1>1. CASE RejectRestore(p) \/ CopyFails(p) \/ RecordFails(p)
           \/ UploadFails(p) \/ Crash(p)
  BY <1>1, Ended
     DEF RejectRestore, CopyFails, RecordFails, UploadFails, Crash
<1>2. CASE CommitFails(p)
  <2>1. AllArchived
    BY <1>2 DEF CommitFails, ContentInv, Safe
  <2> QED BY <1>2, <2>1, Ended DEF CommitFails
<1>3. CASE Cleanup(p)
  <2>1. Garbage(p) # doc.path
    BY <1>3 DEF Cleanup, ContentInv, Published, Garbage
  <2>2. live'[doc.path] = live[doc.path]
    BY <1>0, <1>3, <2>1 DEF Cleanup
  <2> QED BY <1>3, <2>2, Ended DEF Cleanup
<1>4. CASE Purge(p)
  <2>1. ~doc.exists
    BY <1>4 DEF Purge, ContentInv, Purging
  <2> QED BY <1>4, <2>1, Ended DEF Purge
<1>5. CASE UnpackFails(p)
  BY <1>0, <1>5 DEF UnpackFails
<1> QED BY <1>1, <1>2, <1>3, <1>4, <1>5

\* A new operation reads the document; over a package it need not archive.
LEMMA StartStep ==
    ASSUME SerialHandlers, TInv, ContentInv, NEW p \in Procs, NEW k \in Kinds,
           Start(p, k)
    PROVE  ContentInv'
<1>0. /\ h \in [Procs -> HandlerRecord] /\ doc \in DocRecord /\ ops \in Nat
      /\ k # "zip"
  BY Names DEF TInv, TypeOK, SerialHandlers
<1>1. /\ h'[p].pc = FirstStep(k) /\ h'[p].kind = k /\ h'[p].op = ops + 1
      /\ h'[p].path = doc.path /\ h'[p].multi = doc.multi
      /\ h'[p].prefix = doc.prefix
  BY <1>0 DEF Start
<1>2. \A q \in Procs : q = p
  BY DEF SerialHandlers, OneAtATime
<1>3. /\ UNCHANGED <<doc, live, replacedAt, verFile, owed>>
      /\ VersionDocs' = VersionDocs /\ doc.exists
      /\ k \in InPlaceKinds => doc.ai
  BY DEF Start, VersionDocs
<1>4. /\ FirstStep(k) \in {"pick", "survey", "upload", "unlist"}
      /\ FirstStep(k) = "upload" => doc.multi
      /\ FirstStep(k) = "unlist" <=> k = "delete"
      /\ k = "restore" => FirstStep(k) = "pick"
  BY <1>0 DEF FirstStep
<1>5. k \in AllKinds /\ doc.path < ops + 1 /\ doc.prefix < ops + 1
  <2>1. doc.path \in Nat /\ doc.prefix \in Nat
    BY <1>0, Names DEF DocRecord
  <2>2. doc.path <= ops /\ doc.prefix <= ops
    BY DEF TInv, Numbered
  <2>3. k \in AllKinds
    BY ContentAssumption
  <2> QED BY <1>0, <2>1, <2>2, <2>3
<1>6. doc.multi => /\ owed = {} /\ k \notin InPlaceKinds
  BY <1>3 DEF ContentInv, Packages
<1>7. NoZip'
  BY <1>0, <1>1, <1>2, <1>4 DEF NoZip
<1>8. Snapshot'
  <2>1. doc.path # ops + 1 /\ doc.prefix # ops + 1
    BY <1>0, <1>5, Names DEF DocRecord
  <2>2. doc.multi => k = "html" \/ FirstStep(k) \in {"pick", "unlist"}
    BY <1>0, <1>4, <1>5, <1>6 DEF AllKinds, InPlaceKinds
  <2> QED BY <1>1, <1>2, <1>3, <2>1, <2>2 DEF Snapshot, Private
<1>9. Packages' /\ NoContentLost'
  BY <1>3 DEF ContentInv, Packages, NoContentLost
<1>10. Copied' /\ Emptied' /\ Staged' /\ Published' /\ Purging'
  BY <1>1, <1>2, <1>3, <1>4 DEF Copied, Emptied, Staged, Published, Purging
<1>11. Safe'
  BY <1>1, <1>2, <1>3, <1>4, <1>6 DEF Safe, AllArchived, Evicting
<1> QED BY <1>7, <1>8, <1>9, <1>10, <1>11 DEF ContentInv

\* A restore chooses a version, and the survey what is to go.
LEMMA DecisionStep ==
    ASSUME SerialHandlers, TypeOK, ContentInv, NEW p \in Procs,
           NEW n \in VersionNo, PickVersion(p, n) \/ SurveyVersions(p, n)
    PROVE  ContentInv'
<1>1. /\ h[p] \in HandlerRecord
      /\ h[p].pc \in {"pick", "survey"} /\ (h[p].pc = "pick" => ~h[p].multi)
      /\ UNCHANGED <<doc, live, replacedAt, verFile, owed>>
      /\ VersionDocs' = VersionDocs
  BY DEF TypeOK, PickVersion, SurveyVersions, VersionDocs
<1>2. \/ h'[p] = [h[p] EXCEPT !.pc = "survey", !.ver = n, !.recorded = verSize[n]]
      \/ h'[p] = [h[p] EXCEPT !.pc = "copy", !.num = n, !.seen = replacedAt,
                              !.gc = Overflow(h[p].ver)]
  BY DEF TypeOK, PickVersion, SurveyVersions
<1>3. /\ h'[p].pc \in {"survey", "copy"} /\ h'[p].kind = h[p].kind
      /\ h'[p].op = h[p].op /\ h'[p].path = h[p].path
      /\ h'[p].multi = h[p].multi /\ h'[p].prefix = h[p].prefix
  BY <1>1, <1>2 DEF HandlerRecord
<1>4. \A q \in Procs : q = p
  BY DEF SerialHandlers, OneAtATime
<1>5. NoZip' /\ Snapshot'
  BY <1>1, <1>3, <1>4 DEF ContentInv, NoZip, Snapshot, Private
<1>6. Packages' /\ NoContentLost'
  BY <1>1 DEF ContentInv, Packages, NoContentLost
<1>7. Copied' /\ Emptied' /\ Safe' /\ Staged' /\ Published' /\ Purging'
  BY <1>3, <1>4
     DEF Copied, Emptied, Safe, Staged, Published, Purging, Evicting
<1> QED BY <1>5, <1>6, <1>7 DEF ContentInv

\* The live file is copied to a number no version has.
LEMMA CopyStep ==
    ASSUME SerialHandlers, TypeOK, OrderInv, ContentInv, NEW p \in Procs,
           CopyToVersion(p)
    PROVE  ContentInv'
<1>0. /\ verFile \in [VersionNo -> Content \cup {Absent}]
      /\ VersionDocs \subseteq VersionNo
  BY DEF TypeOK, VersionDocs
<1>1. /\ h[p].pc = "copy"
      /\ UNCHANGED <<doc, live, replacedAt, owed>>
      /\ verFile' = [verFile EXCEPT ![h[p].num] = live[h[p].path]]
      /\ VersionDocs' = VersionDocs
  BY DEF CopyToVersion, VersionDocs
<1>2. h'[p].pc = "record" /\ SameWork(p)
  BY GotoFields DEF CopyToVersion
<1>3. \A q \in Procs : q = p
  BY DEF SerialHandlers, OneAtATime
<1>4. h[p].num \in VersionNo \ VersionDocs /\ h[p].path = doc.path
  BY <1>1 DEF OrderInv, ContentInv, Survey, Snapshot, Private, Archiving
<1>5. /\ verFile'[h[p].num] = live[doc.path]
      /\ \A m \in VersionDocs : verFile'[m] = verFile[m]
  BY <1>0, <1>1, <1>4
<1>6. NoZip' /\ Snapshot'
  BY <1>1, <1>2, <1>3 DEF ContentInv, NoZip, Snapshot, Private, SameWork
<1>7. Packages' /\ NoContentLost'
  BY <1>1, <1>5 DEF ContentInv, Packages, NoContentLost
<1>8. Copied'
  BY <1>1, <1>2, <1>3, <1>5 DEF Copied, SameWork
<1>9. Emptied' /\ Safe' /\ Staged' /\ Published' /\ Purging'
  BY <1>2, <1>3 DEF Emptied, Safe, Staged, Published, Purging, Evicting
<1> QED BY <1>6, <1>7, <1>8, <1>9 DEF ContentInv

\* Recording the version makes the archive complete: the live file may go.
LEMMA RecordStep ==
    ASSUME SerialHandlers, TypeOK, OrderInv, ContentInv, NEW p \in Procs,
           RecordVersion(p)
    PROVE  ContentInv'
<1>1. /\ h[p].pc = "record" /\ UNCHANGED <<doc, live, verFile, owed>>
  BY DEF RecordVersion
<1>2. h'[p].pc = AfterArchive(h[p].gc) /\ SameWork(p)
  BY GotoFields DEF RecordVersion
<1>3. \A q \in Procs : q = p
  BY DEF SerialHandlers, OneAtATime
<1>4. h'[p].pc \in {"upload", "evictFile"}
  BY <1>2 DEF AfterArchive
<1>5. NoZip' /\ Snapshot' /\ Packages'
  BY <1>1, <1>2, <1>3, <1>4
     DEF ContentInv, NoZip, Snapshot, Packages, Private, SameWork
<1>6. /\ doc.exists /\ verFile[h[p].num] = live[doc.path]
  BY <1>1 DEF ContentInv, Snapshot, Copied, Private
<1>7. VersionDocs' = VersionDocs \cup {h[p].num}
  BY OrderRecord DEF SerialHandlers
<1>8. AllArchived'
  BY <1>1, <1>6, <1>7 DEF AllArchived, ContentInv, NoContentLost
<1>9. Safe' /\ NoContentLost'
  BY <1>8 DEF Safe, NoContentLost, AllArchived
<1>10. Copied' /\ Emptied' /\ Staged' /\ Published' /\ Purging'
  BY <1>3, <1>4 DEF Copied, Emptied, Staged, Published, Purging
<1> QED BY <1>5, <1>9, <1>10 DEF ContentInv

\* Evicting a version's file ends what is owed for it, and nothing else.
LEMMA EvictFileStep ==
    ASSUME SerialHandlers, TypeOK, OrderInv, ContentInv, NEW p \in Procs,
           NEW n \in VersionNo, EvictFile(p, n)
    PROVE  ContentInv'
<1>0. /\ verFile \in [VersionNo -> Content \cup {Absent}]
      /\ VersionDocs \subseteq VersionNo
      /\ replacedAt \in [VersionNo -> Nat]
  BY DEF TypeOK, VersionDocs
<1>1. /\ h[p].pc = "evictFile" /\ n \in h[p].gc
      /\ \A m \in h[p].gc : h[p].seen[n] <= h[p].seen[m]
      /\ UNCHANGED <<doc, live, replacedAt>>
      /\ verFile' = [verFile EXCEPT ![n] = Absent]
      /\ owed' = owed \ {verFile[n]}
      /\ VersionDocs' = VersionDocs
  BY DEF EvictFile, VersionDocs, SerialHandlers, OneAtATime
<1>2. h'[p].pc = "evictDoc" /\ SameWork(p)
  BY GotoFields DEF EvictFile
<1>3. \A q \in Procs : q = p
  BY DEF SerialHandlers, OneAtATime
<1>4. /\ h[p].gc \subseteq VersionDocs
      /\ \A m \in h[p].gc : h[p].seen[m] = replacedAt[m]
  BY <1>1 DEF OrderInv, Survey, Evicting
<1>5. /\ verFile'[n] = Absent
      /\ \A m \in VersionDocs : m # n => verFile'[m] = verFile[m]
  BY <1>0, <1>1
<1>6. NoZip' /\ Snapshot' /\ Packages'
  BY <1>1, <1>2, <1>3 DEF ContentInv, NoZip, Snapshot, Packages, Private, SameWork
<1>7. Emptied'
  <2>1. ASSUME NEW i \in h[p].gc, \A m \in h[p].gc : h[p].seen[i] <= h[p].seen[m]
        PROVE  i = n
    <3>1. replacedAt[i] = replacedAt[n]
      BY <1>0, <1>1, <1>4, <2>1
    <3> QED BY <1>1, <1>4, <3>1 DEF OrderInv, Timestamps
  <2> QED BY <1>2, <1>3, <1>5, <2>1 DEF Emptied, SameWork
<1>8. AllArchived'
  <2>1. AllArchived
    BY <1>1 DEF ContentInv, Safe, Evicting
  <2> QED BY <1>1, <1>5, <2>1 DEF AllArchived
<1>9. Safe' /\ NoContentLost'
  BY <1>8 DEF Safe, NoContentLost, AllArchived
<1>10. Copied' /\ Staged' /\ Published' /\ Purging'
  BY <1>2, <1>3 DEF Copied, Staged, Published, Purging
<1> QED BY <1>6, <1>7, <1>9, <1>10 DEF ContentInv

\* The document of an evicted version goes last; its file has gone before.
LEMMA EvictDocStep ==
    ASSUME SerialHandlers, TypeOK, OrderInv, ContentInv, NEW p \in Procs,
           NEW n \in VersionNo, EvictDoc(p, n)
    PROVE  ContentInv'
<1>0. /\ h[p] \in HandlerRecord /\ owed \subseteq Content
      /\ Absent \notin Content
  BY Names DEF TypeOK
<1>1. /\ h[p].pc = "evictDoc" /\ n \in h[p].gc
      /\ \A m \in h[p].gc : h[p].seen[n] <= h[p].seen[m]
      /\ UNCHANGED <<doc, live, verFile, owed>>
  BY DEF EvictDoc
<1>2. h'[p] = [h[p] EXCEPT !.gc = h[p].gc \ {n},
                           !.pc = AfterArchive(h[p].gc \ {n})]
  BY DEF EvictDoc, TypeOK
<1>3. /\ h'[p].pc = AfterArchive(h[p].gc \ {n}) /\ h'[p].kind = h[p].kind
      /\ h'[p].op = h[p].op /\ h'[p].path = h[p].path
      /\ h'[p].multi = h[p].multi /\ h'[p].prefix = h[p].prefix
  BY <1>0, <1>2 DEF HandlerRecord
<1>4. \A q \in Procs : q = p
  BY DEF SerialHandlers, OneAtATime
<1>5. h'[p].pc \in {"upload", "evictFile"}
  BY <1>3 DEF AfterArchive
<1>6. NoZip' /\ Snapshot' /\ Packages'
  BY <1>1, <1>3, <1>4, <1>5 DEF ContentInv, NoZip, Snapshot, Packages, Private
<1>7. VersionDocs' = VersionDocs \ {n}
  BY OrderEvictDoc DEF SerialHandlers
<1>8. verFile[n] = Absent
  BY <1>1 DEF ContentInv, Emptied
<1>9. AllArchived'
  <2>1. AllArchived
    BY <1>1 DEF ContentInv, Safe, Evicting
  <2> QED BY <1>0, <1>1, <1>7, <1>8, <2>1 DEF AllArchived
<1>10. Safe' /\ NoContentLost'
  BY <1>9 DEF Safe, NoContentLost, AllArchived
<1>11. Copied' /\ Emptied' /\ Staged' /\ Published' /\ Purging'
  BY <1>4, <1>5 DEF Copied, Emptied, Staged, Published, Purging
<1> QED BY <1>6, <1>10, <1>11 DEF ContentInv

\* What was uploaded is in place, and what it may overwrite is archived.
LEMMA UploadStep ==
    ASSUME SerialHandlers, TypeOK, ContentInv, NEW p \in Procs,
           UploadHtml(p) \/ CopyFromVersion(p) \/ UploadInPlace(p)
    PROVE  ContentInv'
<1>0. /\ live \in [Path -> Content \cup {Absent, Partial}]
      /\ h[p].op \in Path /\ Stable \in Path
  BY Names DEF TypeOK, HandlerRecord
<1>1. /\ h[p].pc = "upload"
      /\ UNCHANGED <<doc, replacedAt, verFile, owed>>
      /\ VersionDocs' = VersionDocs
  BY DEF UploadHtml, CopyFromVersion, UploadInPlace, VersionDocs
<1>2. PICK t : /\ Uploaded(p, t)
               /\ live' = [live EXCEPT ![IF h[p].kind \in InPlaceKinds
                                         THEN Stable ELSE h[p].op] = t]
  BY DEF UploadHtml, CopyFromVersion, UploadInPlace, InPlaceKinds
<1>3. h'[p].pc = "commit" /\ h'[p].text = t /\ SameWork(p)
  BY <1>2, UploadedFields
<1>4. \A q \in Procs : q = p
  BY DEF SerialHandlers, OneAtATime
<1>5. NoZip' /\ Snapshot' /\ Packages'
  BY <1>1, <1>3, <1>4
     DEF ContentInv, NoZip, Snapshot, Packages, Private, SameWork
<1>6. AllArchived'
  BY <1>1 DEF ContentInv, Safe, AllArchived
<1>7. Safe' /\ NoContentLost'
  BY <1>6 DEF Safe, NoContentLost, AllArchived
<1>8. Staged'
  BY <1>0, <1>2, <1>3, <1>4 DEF Staged, SameWork
<1>9. Copied' /\ Emptied' /\ Published' /\ Purging'
  BY <1>3, <1>4 DEF Copied, Emptied, Published, Purging
<1> QED BY <1>5, <1>7, <1>8, <1>9 DEF ContentInv

\* What an update of the document sets, when no package is involved.
LEMMA CommittedFields ==
    ASSUME TypeOK, ContentInv, NEW p \in Procs, h[p].pc = "commit"
    PROVE  /\ Committed(p).path = IF h[p].kind \in InPlaceKinds
                                  THEN Stable ELSE h[p].op
           /\ Committed(p).multi = FALSE
           /\ Committed(p).exists = doc.exists
<1>1. /\ doc \in DocRecord /\ h[p].kind # "zip" /\ h[p].multi = doc.multi
      /\ doc.multi => h[p].kind = "html"
  BY DEF TypeOK, ContentInv, NoZip, Snapshot, Private
<1>2. doc.multi \in BOOLEAN
  BY <1>1 DEF DocRecord
<1>3. /\ Described(p) \in DocRecord /\ Described(p).multi = doc.multi
      /\ Described(p).path = IF h[p].kind \in InPlaceKinds THEN Stable ELSE h[p].op
      /\ Described(p).exists = doc.exists
  BY DescribedFields
<1>4. CASE h[p].kind = "html" /\ h[p].multi
  <2>1. Committed(p) = [Described(p) EXCEPT !.multi = FALSE, !.prefix = Stable]
    BY <1>4 DEF Committed
  <2> QED BY <1>3, <2>1 DEF DocRecord
<1>5. CASE ~(h[p].kind = "html" /\ h[p].multi)
  <2>1. Committed(p) = Described(p)
    BY <1>1, <1>5 DEF Committed
  <2> QED BY <1>1, <1>2, <1>3, <1>5, <2>1
<1> QED BY <1>4, <1>5

\* Publishing: the new content is live, and the old one is in the archive.
LEMMA CommitStep ==
    ASSUME SerialHandlers, TypeOK, ContentInv, NEW p \in Procs, Commit(p)
    PROVE  ContentInv'
<1>1. /\ h[p].pc = "commit" /\ doc' = Committed(p)
      /\ owed' = owed \cup {h[p].text}
      /\ UNCHANGED <<live, replacedAt, verFile>>
      /\ VersionDocs' = VersionDocs
  BY DEF Commit, OwedAfter, ContentInv, NoZip, VersionDocs
<1>2. /\ doc'.path = IF h[p].kind \in InPlaceKinds THEN Stable ELSE h[p].op
      /\ doc'.multi = FALSE
  BY <1>1, CommittedFields
<1>3. \A q \in Procs : q = p
  BY DEF SerialHandlers, OneAtATime
<1>4. \/ /\ h'[p].pc = "cleanup" /\ h[p].kind \notin InPlaceKinds
         /\ SameWork(p)
      \/ h'[p] = Idle
  BY GotoFields DEF Commit, Finish, TypeOK
<1>5. Idle.pc = "idle" /\ Idle.kind = "none"
  BY DEF Idle
<1>6. h'[p].pc \in {"cleanup", "idle"}
  BY <1>4, <1>5
<1>7. NoZip'
  BY <1>3, <1>4, <1>5, <1>6 DEF ContentInv, NoZip, SameWork
<1>8. Published'
  BY <1>1, <1>2, <1>3, <1>4, <1>5
     DEF ContentInv, Published, Snapshot, Private, SameWork
<1>9. Snapshot' /\ Copied' /\ Emptied' /\ Safe' /\ Staged' /\ Purging'
  BY <1>3, <1>6
     DEF Snapshot, Copied, Emptied, Safe, Staged, Purging, Private, Evicting
<1>10. Packages'
  BY <1>2 DEF Packages
<1>11. NoContentLost'
  <2>1. AllArchived /\ live[doc'.path] = h[p].text
    BY <1>1, <1>2 DEF ContentInv, Safe, Staged
  <2> QED BY <1>1, <2>1 DEF AllArchived, NoContentLost
<1> QED BY <1>7, <1>8, <1>9, <1>10, <1>11 DEF ContentInv

\* An update whose acknowledgement is lost: the archive still has everything.
LEMMA UnacknowledgedStep ==
    ASSUME SerialHandlers, TypeOK, ContentInv, NEW p \in Procs,
           CommitUnacknowledged(p)
    PROVE  ContentInv'
<1>1. /\ h[p].pc = "commit" /\ doc' = Committed(p) /\ h'[p] = Idle
      /\ UNCHANGED <<replacedAt, verFile, owed>>
      /\ VersionDocs' = VersionDocs
  BY DEF CommitUnacknowledged, Finish, VersionDocs, TypeOK
<1>2. doc'.multi = FALSE
  BY <1>1, CommittedFields
<1>3. \A q \in Procs : q = p
  BY DEF SerialHandlers, OneAtATime
<1>4. Idle.pc = "idle" /\ Idle.kind = "none"
  BY DEF Idle
<1>5. /\ NoZip' /\ Snapshot' /\ Copied' /\ Emptied' /\ Safe' /\ Staged'
      /\ Published' /\ Purging'
  BY <1>1, <1>3, <1>4
     DEF NoZip, Snapshot, Copied, Emptied, Safe, Staged, Published, Purging,
         Private, Evicting
<1>6. Packages'
  BY <1>2 DEF Packages
<1>7. NoContentLost'
  <2>1. AllArchived
    BY <1>1 DEF ContentInv, Safe
  <2> QED BY <1>1, <2>1 DEF AllArchived, NoContentLost
<1> QED BY <1>5, <1>6, <1>7 DEF ContentInv

\* A deleted dashboard is owed nothing.
LEMMA UnlistStep ==
    ASSUME SerialHandlers, TypeOK, ContentInv, NEW p \in Procs, Unlist(p)
    PROVE  ContentInv'
<1>1. /\ h[p].pc = "unlist" /\ owed' = {} /\ ~doc'.exists
      /\ doc'.multi = doc.multi /\ doc'.ai = doc.ai
  BY DEF Unlist, TypeOK, DocRecord
<1>2. h'[p].pc = "purge" /\ SameWork(p)
  BY GotoFields DEF Unlist
<1>3. \A q \in Procs : q = p
  BY DEF SerialHandlers, OneAtATime
<1>4. NoZip' /\ Purging'
  BY <1>1, <1>2, <1>3 DEF ContentInv, NoZip, Purging, SameWork
<1>5. Snapshot' /\ Copied' /\ Emptied' /\ Safe' /\ Staged' /\ Published'
  BY <1>2, <1>3
     DEF Snapshot, Copied, Emptied, Safe, Staged, Published, Private, Evicting
<1>6. Packages' /\ NoContentLost'
  BY <1>1 DEF ContentInv, Packages, NoContentLost
<1> QED BY <1>4, <1>5, <1>6 DEF ContentInv

\* The first upload is live, and nothing else is owed.
LEMMA ContentInit == Init => ContentInv
<1> SUFFICES ASSUME Init PROVE ContentInv
  OBVIOUS
<1>1. /\ \A p \in Procs : h[p] = Idle
      /\ live[Stable] = 0 /\ doc.path = Stable
      /\ doc.multi => ~doc.ai /\ owed = {}
      /\ owed \subseteq {0}
  BY Names DEF Init
<1>2. Idle.pc = "idle" /\ Idle.kind = "none"
  BY DEF Idle
<1>3. /\ NoZip /\ Snapshot /\ Copied /\ Emptied /\ Safe /\ Staged /\ Published
      /\ Purging
  BY <1>1, <1>2
     DEF NoZip, Snapshot, Copied, Emptied, Safe, Staged, Published, Purging,
         Private, Evicting
<1>4. Packages /\ NoContentLost
  BY <1>1 DEF Packages, NoContentLost
<1> QED BY <1>3, <1>4 DEF ContentInv

LEMMA ContentNext ==
    ASSUME SerialHandlers
    PROVE  TInv /\ OrderInv /\ ContentInv /\ [Next]_vars => ContentInv'
<1> SUFFICES ASSUME TInv, OrderInv, ContentInv, [Next]_vars PROVE ContentInv'
  OBVIOUS
<1>1. CASE UNCHANGED vars
  BY <1>1 DEF vars, ContentInv, NoZip, Snapshot, Packages, Copied, Emptied, Safe,
     Staged, Published, Purging, NoContentLost, AllArchived, VersionDocs
<1>2. ASSUME NEW p \in Procs, Step(p) PROVE ContentInv'
  <2>1. TypeOK
    BY DEF TInv
  <2>2. ~UploadZip(p) /\ ~UnpackZip(p)
    BY DEF ContentInv, NoZip, UploadZip, UnpackZip
  <2>3. CASE \E k \in Kinds : Start(p, k)
    BY <2>3, StartStep
  <2>4. CASE \E n \in VersionNo : PickVersion(p, n) \/ SurveyVersions(p, n)
    BY <2>1, <2>4, DecisionStep
  <2>5. CASE \E n \in VersionNo : EvictFile(p, n) \/ EvictDoc(p, n)
    BY <2>1, <2>5, EvictFileStep, EvictDocStep
  <2>6. CASE CopyToVersion(p) \/ RecordVersion(p)
    BY <2>1, <2>6, CopyStep, RecordStep
  <2>7. CASE UploadHtml(p) \/ CopyFromVersion(p) \/ UploadInPlace(p)
    BY <2>1, <2>7, UploadStep
  <2>8. CASE Commit(p) \/ CommitUnacknowledged(p) \/ Unlist(p)
    BY <2>1, <2>8, CommitStep, UnacknowledgedStep, UnlistStep
  <2>9. CASE \/ RejectRestore(p) \/ CopyFails(p) \/ RecordFails(p)
             \/ UnpackFails(p) \/ UploadFails(p) \/ CommitFails(p)
             \/ Cleanup(p) \/ Purge(p) \/ Crash(p)
    BY <2>1, <2>9, EndSteps
  <2> QED BY <1>2, <2>2, <2>3, <2>4, <2>5, <2>6, <2>7, <2>8, <2>9
          DEF Step, Archive, Upload, Publish
<1> QED BY <1>1, <1>2 DEF Next

-----------------------------------------------------------------------------
(* The theorems on the archive *)

\* While handlers do not overlap, every single HTML file that was ever
\* published is live, or in the archive, or was evicted by the limit, whatever
\* fails, crashes or goes unacknowledged on the way.
THEOREM ContentKept ==
    ASSUME SerialHandlers
    PROVE  Spec => []NoContentLost
<1>1. ContentInv => NoContentLost
  BY DEF ContentInv
<1>2. OneAtATime
  BY DEF SerialHandlers
<1> QED BY <1>1, <1>2, TInvInit, TInvNext, OrderInit, OrderNext, ContentInit,
           ContentNext, PTL DEF Spec

\* While handlers do not overlap an archived version leaves at most MAX_VERSIONS
\* behind, even after crashes in the middle of earlier clean-ups.
THEOREM ArchiveBounded ==
    ASSUME OneAtATime
    PROVE  Spec => []ArchiveTrimmed
<1>1. OrderInv => ArchiveTrimmed
  BY DEF OrderInv
<1> QED BY <1>1, TInvInit, TInvNext, OrderInit, OrderNext, PTL DEF Spec

\* The steps that write to the archive, and what the invariant says of them.
LEMMA ArchiveWrites ==
    ASSUME OneAtATime, TypeOK, OrderInv, NEW p \in Procs, Step(p)
    PROVE  \/ verFile' = verFile
           \/ /\ CopyToVersion(p) /\ h[p].num \notin VersionDocs
              /\ h[p].ver # h[p].num
              /\ \A m \in VersionNo : m # h[p].num => verFile'[m] = verFile[m]
           \/ \E n \in h[p].gc :
                /\ n # h[p].ver
                /\ verFile' = [verFile EXCEPT ![n] = Absent]
<1>0. verFile \in [VersionNo -> Content \cup {Absent}] /\ 0 \notin VersionNo
  BY ContentAssumption DEF TypeOK, VersionNo
<1>1. CASE CopyToVersion(p)
  <2>1. /\ h[p].pc = "copy"
        /\ verFile' = [verFile EXCEPT ![h[p].num] = live[h[p].path]]
    BY <1>1 DEF CopyToVersion
  <2>2. /\ h[p].num \in VersionNo \ VersionDocs
        /\ h[p].ver \in VersionDocs \cup {0}
    BY <2>1 DEF OrderInv, Survey, SourceListed, Archiving, Private
  <2> QED BY <1>0, <1>1, <2>1, <2>2
<1>2. ASSUME NEW n \in VersionNo, EvictFile(p, n)
      PROVE  /\ n \in h[p].gc /\ n # h[p].ver
             /\ verFile' = [verFile EXCEPT ![n] = Absent] \/ verFile' = verFile
  BY <1>2 DEF EvictFile, OrderInv, Survey, Evicting
<1>3. CASE ~CopyToVersion(p) /\ ~\E n \in VersionNo : EvictFile(p, n)
  BY <1>3
     DEF Step, Archive, Upload, Publish, Start, PickVersion, RejectRestore,
         CopyFails, RecordVersion, RecordFails, SurveyVersions, EvictDoc,
         UploadHtml, UploadZip, UnpackZip, UnpackFails, CopyFromVersion,
         UploadInPlace, UploadFails, Commit, CommitFails,
         CommitUnacknowledged, Cleanup, Unlist, Purge, Crash
<1> QED BY <1>1, <1>2, <1>3

\* Under the same conditions a version keeps the content it was archived with.
THEOREM VersionsKeepContent ==
    ASSUME OneAtATime
    PROVE  Spec => VersionsImmutable
<1>1. TInv /\ OrderInv /\ [Next]_vars =>
        [\A n \in VersionDocs :
            verFile'[n] = verFile[n] \/ verFile'[n] = Absent]_vars
  <2> SUFFICES ASSUME TInv, OrderInv, [Next]_vars, NEW n \in VersionDocs,
                      ~UNCHANGED vars
               PROVE  verFile'[n] = verFile[n] \/ verFile'[n] = Absent
    OBVIOUS
  <2>1. PICK p \in Procs : Step(p)
    BY DEF Next
  <2>2. TypeOK /\ n \in VersionNo
    BY DEF TInv, VersionDocs
  <2> QED BY <2>1, <2>2, ArchiveWrites DEF TypeOK
<1> QED BY <1>1, TInvInit, TInvNext, OrderInit, OrderNext, PTL
        DEF Spec, VersionsImmutable

\* Under the same conditions a restore copies the very file it was asked for:
\* the clean-up it triggers itself spares that version.
THEOREM RestoreKeepsSource ==
    ASSUME OneAtATime
    PROVE  Spec => RestoreSourceKept
<1>1. TInv /\ OrderInv /\ [Next]_vars =>
        [\A p \in Procs :
          h[p].kind = "restore" /\ h[p].ver # 0 /\ h'[p].ver = h[p].ver
            => verFile'[h[p].ver] = verFile[h[p].ver]]_vars
  <2> SUFFICES ASSUME TInv, OrderInv, [Next]_vars, NEW p \in Procs,
                      ~UNCHANGED vars, h[p].ver # 0
               PROVE  verFile'[h[p].ver] = verFile[h[p].ver]
    OBVIOUS
  <2>1. Step(p)
    BY DEF Next, OneAtATime
  <2>2. TypeOK /\ h[p].ver \in VersionNo
    BY Names DEF TInv, TypeOK, HandlerRecord, Content, VersionNo
  <2> QED BY <2>1, <2>2, ArchiveWrites DEF TypeOK
<1> QED BY <1>1, TInvInit, TInvNext, OrderInit, OrderNext, PTL
        DEF Spec, RestoreSourceKept

\* Under the same conditions the clean-up evicts the oldest version there is,
\* but for the one that a restore is reading.
THEOREM OldestEvictedFirst ==
    ASSUME OneAtATime
    PROVE  Spec => EvictsOldestFirst
<1>1. TInv /\ OrderInv /\ [Next]_vars =>
        [\A n \in VersionDocs : replacedAt'[n] = 0 =>
          \A m \in VersionDocs : replacedAt[m] < replacedAt[n] =>
             \E p \in Procs : h[p].kind = "restore" /\ h[p].ver = m]_vars
  <2> SUFFICES ASSUME TInv, OrderInv, [Next]_vars, ~UNCHANGED vars,
                      NEW n \in VersionDocs, replacedAt'[n] = 0,
                      NEW m \in VersionDocs, replacedAt[m] < replacedAt[n]
               PROVE  \E p \in Procs : h[p].kind = "restore" /\ h[p].ver = m
    OBVIOUS
  <2>1. PICK p \in Procs : Step(p)
    BY DEF Next
  <2>2. /\ TypeOK /\ n \in VersionNo /\ m \in VersionNo /\ replacedAt[n] # 0
        /\ replacedAt \in [VersionNo -> Nat] /\ clock \in Nat
        /\ 0 \notin VersionNo
    BY ContentAssumption DEF TInv, TypeOK, VersionDocs, VersionNo
  <2>3. ~RecordVersion(p)
    BY <2>2 DEF RecordVersion
  <2>4. PICK i \in VersionNo : EvictDoc(p, i)
    BY <2>1, <2>2, <2>3, StepEffects
  <2>5. n = i
    BY <2>2, <2>4 DEF EvictDoc
  <2>6. /\ h[p].pc = "evictDoc" /\ n \in h[p].gc
        /\ \A j \in h[p].gc : h[p].seen[n] <= h[p].seen[j]
    BY <2>4, <2>5 DEF EvictDoc
  <2>7. /\ \A j \in h[p].gc : h[p].seen[j] = replacedAt[j]
        /\ \A j \in VersionDocs \ (h[p].gc \cup {h[p].ver}) :
               replacedAt[n] <= replacedAt[j]
    BY <2>6 DEF OrderInv, Survey, Evicting
  <2>8. m \notin h[p].gc
    BY <2>2, <2>6, <2>7
  <2>9. h[p].ver = m
    BY <2>2, <2>7, <2>8
  <2> QED BY <2>2, <2>9 DEF OrderInv, ChosenByRestore
<1> QED BY <1>1, TInvInit, TInvNext, OrderInit, OrderNext, PTL
        DEF Spec, EvictsOldestFirst
==============================================================================
