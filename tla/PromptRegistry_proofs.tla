------------------------- MODULE PromptRegistry_proofs -------------------------
(***************************************************************************)
(* What PromptRegistry promises for every number of editors, resolvers,    *)
(* instances and versions: a consistent history, and answers that are at   *)
(* most a TTL behind it.                                                   *)
(*                                                                         *)
(* The second rests on a fact about every entry of every cache and every   *)
(* answer on its way into one: it knows all versions that are older than   *)
(* the clock it is dated with, or a read failed after that clock; and the  *)
(* text it holds is the text of its version.                               *)
(***************************************************************************)
EXTENDS PromptRegistry, TLAPS

\* What a request to publish or restore holds until it commits.
EditorKnows ==
    \A e \in Editors :
        /\ editor[e].pc # "idle" => editor[e].content \in Contents
        /\ editor[e].source <= Newest
        /\ editor[e].source > 0 =>
              editor[e].content = versions[editor[e].source].content

\* A request that has not begun names no version.
IdleSource == \A e \in Editors : editor[e].pc = "idle" => editor[e].source = 0

\* The inductive invariant of the history.
HInv ==
    TypeOK /\ HistoryConsistent /\ RestoredFaithfully /\ EditorKnows /\ IdleSource

\* The versions published before t are known to an answer v.
Knows(v, t) == \A n \in 1..Newest : versions[n].at < t => v >= n

\* An answer v dated t on instance i.
Good(v, t, i) == Knows(v, t) \/ failedAt[i] >= t

\* The text c that goes with a version v is the one published as v.
TextOf(v, c) == v > 0 => v <= Newest /\ c = versions[v].content

\* So it is in every cache and on every way into one.
Texts ==
    /\ \A i \in Instances : TextOf(cache[i].version, cache[i].content)
    /\ \A r \in Resolvers : resolver[r].pc \in {"read", "fill"} =>
          TextOf(resolver[r].version, resolver[r].content)

\* No clock reading is in the future, or older than any that matters.
Dated ==
    /\ \A n \in 1..Newest : Long <= versions[n].at /\ versions[n].at <= now
    /\ \A i \in Instances : cache[i].fetchedAt <= now /\ failedAt[i] <= now
    /\ \A r \in Resolvers : resolver[r].started <= now

\* The inductive invariant of the answers.
CInv ==
    /\ HInv
    /\ Dated
    /\ Texts
    /\ \A r \in Resolvers : resolver[r].pc # "idle" => resolver[r].at \in Instances
    /\ \A i \in Instances : Good(cache[i].version, cache[i].fetchedAt, i)
    /\ \A r \in Resolvers : resolver[r].pc = "fill" =>
          Good(resolver[r].version, resolver[r].started, resolver[r].at)
    /\ BoundedStaleness

\* What a transaction that commits leaves.
Appended(e) ==
    /\ versions' \in Seq(VersionRecord)
    /\ Newest' = Newest + 1
    /\ \A n \in 1..Newest :
          /\ versions'[n] = [versions[n] EXCEPT !.status = "archived"]
          /\ versions'[n] = [versions[n] EXCEPT !.status = versions'[n].status]
          /\ versions'[n].version = n
          /\ versions'[n].status = "archived"
          /\ versions'[n].content = versions[n].content
          /\ versions'[n].restoredFrom = versions[n].restoredFrom
          /\ versions'[n].at = versions[n].at
    /\ versions'[Newest + 1] =
          [version |-> Newest + 1, content |-> editor[e].content,
           status |-> "active", restoredFrom |-> editor[e].source, at |-> now]
    /\ summary' = [version |-> Newest + 1, content |-> editor[e].content,
                   draft |-> FALSE]

-----------------------------------------------------------------------------
\* There are no versions, or one that an earlier release published.
LEMMA InitHInv == Init => HInv
<1> SUFFICES ASSUME Init PROVE HInv
  OBVIOUS
<1> USE RegistryAssumption
<1>1. \/ versions = <<>>
      \/ \E c \in Contents :
            versions = <<[version |-> 1, content |-> c, status |-> "active",
                          restoredFrom |-> 0, at |-> Long]>>
  BY DEF Init
<1>2. editor \in [Editors -> EditorRecord]
  BY DEF Init, IdleEditor, EditorRecord
<1>3. resolver \in [Resolvers -> ResolverRecord]
  BY DEF Init, IdleResolver, ResolverRecord, Time, Fallback
<1>4. /\ cache \in [Instances -> EntryRecord]
      /\ failedAt \in [Instances -> Time] /\ now \in Nat
  BY DEF Init, NoEntry, EntryRecord, Time, Long, Fallback
<1>5. CASE versions = <<>>
  <2>1. Newest = 0 /\ versions \in Seq(VersionRecord)
    BY <1>5 DEF Newest
  <2>2. summary = [version |-> 0, content |-> None, draft |-> FALSE]
    BY <1>5 DEF Init
  <2>3. TypeOK
    BY <1>2, <1>3, <1>4, <2>1, <2>2 DEF TypeOK
  <2>4. HistoryConsistent /\ RestoredFaithfully
    BY <2>1, <2>2 DEF HistoryConsistent, RestoredFaithfully
  <2>5. EditorKnows /\ IdleSource
    BY <2>1 DEF Init, IdleEditor, EditorKnows, IdleSource
  <2> QED
    BY <2>3, <2>4, <2>5 DEF HInv
<1>6. ASSUME NEW c \in Contents,
             versions = <<[version |-> 1, content |-> c, status |-> "active",
                           restoredFrom |-> 0, at |-> Long]>>
      PROVE  HInv
  <2>1. /\ Newest = 1
        /\ versions[1] = [version |-> 1, content |-> c, status |-> "active",
                          restoredFrom |-> 0, at |-> Long]
    BY <1>6 DEF Newest
  <2>2. versions[1] \in VersionRecord /\ versions \in Seq(VersionRecord)
    BY <1>6, <2>1 DEF VersionRecord, Time, Long
  <2>3. summary = [version |-> 1, content |-> c, draft |-> FALSE]
    BY <1>6, <2>1 DEF Init, Newest
  <2>4. TypeOK
    BY <1>2, <1>3, <1>4, <2>2, <2>3 DEF TypeOK
  <2>5. HistoryConsistent /\ RestoredFaithfully
    BY <2>1, <2>3 DEF HistoryConsistent, RestoredFaithfully
  <2>6. EditorKnows /\ IdleSource
    BY <2>1 DEF Init, IdleEditor, EditorKnows, IdleSource
  <2> QED
    BY <2>4, <2>5, <2>6 DEF HInv
<1> QED
  BY <1>1, <1>5, <1>6

\* A transaction that commits appends one version, numbered after the newest,
\* and archives the newest.
LEMMA WriteAppends ==
  ASSUME HInv, NEW e \in Editors, Write(e), editor[e].pc = "commit"
  PROVE  Appended(e)
<1> DEFINE old == Archived(editor[e].seen)
<1>1. editor[e].seen = Newest /\ Newest \in Nat
  BY DEF Write, HInv, HistoryConsistent, TypeOK, Newest
<1>2. \A n \in 1..Newest :
         /\ versions[n] \in VersionRecord
         /\ versions[n].version = n
         /\ versions[n].status = IF n = Newest THEN "active" ELSE "archived"
  BY <1>1 DEF HInv, HistoryConsistent, TypeOK, Newest
<1>3. \A n \in 1..Newest : old[n] = [versions[n] EXCEPT !.status = "archived"]
  BY <1>1, <1>2 DEF Archived, VersionRecord
<1>4. ASSUME NEW n \in 1..Newest
      PROVE  [versions[n] EXCEPT !.status = "archived"] \in VersionRecord
  BY <1>2 DEF VersionRecord
<1>5. old = [n \in 1..Newest |-> old[n]]
  BY DEF Archived
<1>6. NewVersion(e) = [version |-> Newest + 1, content |-> editor[e].content,
                       status |-> "active", restoredFrom |-> editor[e].source,
                       at |-> now]
  BY <1>1 DEF NewVersion
<1>7. NewVersion(e) \in VersionRecord
  <2>1. editor[e].content \in Contents /\ editor[e].source \in Nat /\ now \in Int
    BY DEF HInv, TypeOK, EditorKnows, EditorRecord
  <2> QED
    BY <1>1, <1>6, <2>1 DEF VersionRecord, Time
<1>8. /\ versions' = Append(old, NewVersion(e))
      /\ summary' = [version |-> Newest + 1, content |-> editor[e].content,
                     draft |-> FALSE]
  BY <1>1 DEF Write, NewSummary
<1> HIDE DEF old
<1>9. old \in Seq(VersionRecord) /\ Len(old) = Newest
  BY <1>1, <1>3, <1>4, <1>5
<1>10. /\ versions' \in Seq(VersionRecord) /\ Newest' = Newest + 1
       /\ \A n \in 1..Newest : versions'[n] = old[n]
       /\ versions'[Newest + 1] = NewVersion(e)
  BY <1>1, <1>7, <1>8, <1>9 DEF Newest
<1>11. ASSUME NEW n \in 1..Newest
       PROVE  /\ versions'[n] = [versions[n] EXCEPT !.status = "archived"]
              /\ versions'[n] = [versions[n] EXCEPT !.status = versions'[n].status]
              /\ versions'[n].version = n
              /\ versions'[n].status = "archived"
              /\ versions'[n].content = versions[n].content
              /\ versions'[n].restoredFrom = versions[n].restoredFrom
              /\ versions'[n].at = versions[n].at
  <2>1. versions'[n] = [versions[n] EXCEPT !.status = "archived"]
    BY <1>3, <1>10
  <2> QED
    BY <1>2, <2>1 DEF VersionRecord
<1> QED
  BY <1>6, <1>8, <1>10, <1>11 DEF Appended

\* How the request of an editor may change: it starts, goes on, or ends.
LEMMA EditorMoves ==
  ASSUME HInv, NEW e \in Editors, Edit(e)
  PROVE  \E h \in EditorRecord :
            /\ editor' = [editor EXCEPT ![e] = h]
            /\ h = IdleEditor \/ h.pc # "idle"
            /\ \/ h = IdleEditor
               \/ h.content \in Valid /\ h.source = editor[e].source
                  /\ editor[e].source = 0
               \/ \E n \in 1..Newest :
                     h.source = n /\ h.content \in Valid
                     /\ h.content = versions[n].content
               \/ editor[e].pc # "idle" /\ h.content = editor[e].content
                  /\ h.source = editor[e].source
<1> USE RegistryAssumption
<1>1. editor \in [Editors -> EditorRecord] /\ editor[e] \in EditorRecord
  BY DEF HInv, TypeOK
<1>2. CASE Publish(e)
  <2>1. PICK c \in Valid :
           editor' = [editor EXCEPT ![e] = [editor[e] EXCEPT !.pc = "read", !.content = c]]
    BY <1>1, <1>2 DEF Publish
  <2>2. editor[e].source = 0
    BY <1>2 DEF Publish, HInv, IdleSource
  <2>3. [editor[e] EXCEPT !.pc = "read", !.content = c] \in EditorRecord
    BY <1>1 DEF EditorRecord
  <2>4. /\ [editor[e] EXCEPT !.pc = "read", !.content = c].content = c
        /\ [editor[e] EXCEPT !.pc = "read", !.content = c].source = editor[e].source
        /\ [editor[e] EXCEPT !.pc = "read", !.content = c].pc = "read"
    BY <1>1 DEF EditorRecord
  <2> QED
    BY <2>1, <2>2, <2>3, <2>4
<1>3. CASE Restore(e)
  <2>1. PICK n \in 1..Newest :
           /\ versions[n].content \in Valid
           /\ editor' = [editor EXCEPT ![e] = [editor[e] EXCEPT !.pc = "read",
                             !.content = versions[n].content,
                             !.source = versions[n].version]]
    BY <1>1, <1>3 DEF Restore
  <2>2. versions[n].version = n /\ n \in Nat
    BY DEF HInv, HistoryConsistent, Newest
  <2>3. [editor[e] EXCEPT !.pc = "read", !.content = versions[n].content,
                          !.source = versions[n].version] \in EditorRecord
    BY <1>1, <2>1, <2>2 DEF EditorRecord
  <2>4. /\ [editor[e] EXCEPT !.pc = "read", !.content = versions[n].content,
                             !.source = versions[n].version].content
              = versions[n].content
        /\ [editor[e] EXCEPT !.pc = "read", !.content = versions[n].content,
                             !.source = versions[n].version].source = n
        /\ [editor[e] EXCEPT !.pc = "read", !.content = versions[n].content,
                             !.source = versions[n].version].pc = "read"
    BY <1>1, <2>2 DEF EditorRecord
  <2> QED
    BY <2>1, <2>3, <2>4
<1>4. CASE ReadSummary(e) \/ Commit(e) \/ Conflict(e)
  <2>1. PICK pc \in {"read", "commit", "invalidate"}, n \in Nat :
           editor' = [editor EXCEPT ![e] = [editor[e] EXCEPT !.pc = pc, !.seen = n]]
    <3>1. CASE ReadSummary(e)
      BY <3>1, <1>1 DEF ReadSummary, HInv, TypeOK
    <3>2. CASE Commit(e) \/ Conflict(e)
      <4>1. PICK pc \in {"read", "invalidate"} :
               editor' = [editor EXCEPT ![e] = [editor[e] EXCEPT !.pc = pc]]
        BY <3>2, <1>1 DEF Commit, Conflict
      <4>2. [editor[e] EXCEPT !.pc = pc]
              = [editor[e] EXCEPT !.pc = pc, !.seen = editor[e].seen]
        BY <1>1 DEF EditorRecord
      <4>3. editor[e].seen \in Nat
        BY <1>1 DEF EditorRecord
      <4> QED
        BY <4>1, <4>2, <4>3
    <3> QED
      BY <1>4, <3>1, <3>2
  <2>2. editor[e].pc # "idle"
    BY <1>4 DEF ReadSummary, Commit, Conflict
  <2>3. [editor[e] EXCEPT !.pc = pc, !.seen = n] \in EditorRecord
    BY <1>1 DEF EditorRecord
  <2>4. /\ [editor[e] EXCEPT !.pc = pc, !.seen = n].content = editor[e].content
        /\ [editor[e] EXCEPT !.pc = pc, !.seen = n].source = editor[e].source
        /\ [editor[e] EXCEPT !.pc = pc, !.seen = n].pc = pc
    BY <1>1 DEF EditorRecord
  <2> QED
    BY <2>1, <2>2, <2>3, <2>4
<1>5. CASE CommitUnacknowledged(e) \/ Invalidate(e)
  <2>1. IdleEditor \in EditorRecord
    BY DEF IdleEditor, EditorRecord
  <2> QED
    BY <1>5, <2>1 DEF CommitUnacknowledged, Invalidate
<1> QED
  BY <1>2, <1>3, <1>4, <1>5 DEF Edit

\* What an editor holds stays true, and so does what the others hold.
LEMMA EditorStep ==
  ASSUME HInv, NEW e \in Editors, Edit(e),
         versions' = versions \/ Appended(e)
  PROVE  EditorKnows' /\ IdleSource' /\ editor' \in [Editors -> EditorRecord]
<1>1. PICK h \in EditorRecord :
         /\ editor' = [editor EXCEPT ![e] = h]
         /\ h = IdleEditor \/ h.pc # "idle"
         /\ \/ h = IdleEditor
            \/ h.content \in Valid /\ h.source = editor[e].source
               /\ editor[e].source = 0
            \/ \E n \in 1..Newest :
                  h.source = n /\ h.content \in Valid
                  /\ h.content = versions[n].content
            \/ editor[e].pc # "idle" /\ h.content = editor[e].content
               /\ h.source = editor[e].source
  BY EditorMoves
<1>2. editor' \in [Editors -> EditorRecord]
  BY <1>1 DEF HInv, TypeOK
<1>3. \A q \in Editors : editor'[q] = IF q = e THEN h ELSE editor[q]
  BY <1>1 DEF HInv, TypeOK
<1>4. /\ Newest \in Nat /\ Newest' \in Nat /\ Newest <= Newest'
      /\ \A n \in 1..Newest : versions'[n].content = versions[n].content
  <2>1. Newest \in Nat
    BY DEF HInv, TypeOK, Newest
  <2>2. CASE versions' = versions
    BY <2>1, <2>2 DEF Newest
  <2>3. CASE Appended(e)
    <3>1. Newest' = Newest + 1
      BY <2>3 DEF Appended
    <3>2. \A n \in 1..Newest : versions'[n].content = versions[n].content
      BY <2>3 DEF Appended
    <3> QED
      BY <2>1, <3>1, <3>2
  <2> QED
    BY <2>1, <2>2, <2>3
<1>5. ASSUME NEW q \in Editors
      PROVE  /\ editor[q].source \in Nat /\ editor[q].source <= Newest
             /\ editor[q].pc # "idle" => editor[q].content \in Contents
             /\ editor[q].pc = "idle" => editor[q].source = 0
             /\ editor[q].source > 0 =>
                    editor[q].content = versions[editor[q].source].content
  BY DEF HInv, TypeOK, EditorKnows, EditorRecord, IdleSource
<1>6. ASSUME NEW q \in Editors, q # e
      PROVE  /\ editor'[q].source <= Newest'
             /\ editor'[q].pc # "idle" => editor'[q].content \in Contents
             /\ editor'[q].pc = "idle" => editor'[q].source = 0
             /\ editor'[q].source > 0 =>
                    editor'[q].content = versions'[editor'[q].source].content
  BY <1>3, <1>4, <1>5, <1>6
<1>7. /\ h.source <= Newest'
      /\ h.pc # "idle" => h.content \in Contents
      /\ h.source > 0 => h.content = versions'[h.source].content
  <2>1. CASE h = IdleEditor
    BY <1>4, <2>1 DEF IdleEditor
  <2>2. CASE h.content \in Valid /\ h.source = editor[e].source /\ editor[e].source = 0
    BY <1>4, <2>2, RegistryAssumption
  <2>3. CASE \E n \in 1..Newest : h.source = n /\ h.content \in Valid
                                 /\ h.content = versions[n].content
    BY <1>4, <2>3, RegistryAssumption
  <2>4. CASE editor[e].pc # "idle" /\ h.content = editor[e].content
             /\ h.source = editor[e].source
    BY <1>4, <1>5, <2>4
  <2> QED
    BY <1>1, <2>1, <2>2, <2>3, <2>4
<1>8. h.pc = "idle" => h.source = 0
  BY <1>1 DEF IdleEditor
<1> QED
  BY <1>2, <1>3, <1>6, <1>7, <1>8 DEF EditorKnows, IdleSource
\* What a resolver is after a step.
LEMMA ResolverMoves ==
  ASSUME HInv, NEW r \in Resolvers, Resolve(r)
  PROVE  /\ resolver' \in [Resolvers -> ResolverRecord]
         /\ cache' \in [Instances -> EntryRecord]
         /\ failedAt' \in [Instances -> Time]
         /\ UNCHANGED <<summary, versions, editor, now>>
<1> USE RegistryAssumption
<1>1. /\ resolver \in [Resolvers -> ResolverRecord] /\ resolver[r] \in ResolverRecord
      /\ cache \in [Instances -> EntryRecord]
      /\ failedAt \in [Instances -> Time] /\ now \in Time
      /\ summary.version \in Nat /\ summary.content \in Contents \cup {None}
  BY DEF HInv, TypeOK, Time
<1>2. UNCHANGED <<summary, versions, editor, now>>
  BY DEF Resolve, Hit, Miss, ReadActive, ReadFails, Fill, Return
<1>3. failedAt' \in [Instances -> Time]
  BY <1>1 DEF Resolve, Hit, Miss, ReadActive, ReadFails, Fill, Return
<1>4. cache' \in [Instances -> EntryRecord]
  <2>1. CASE Fill(r)
    <3>1. Entry(r, resolver[r].started) \in EntryRecord
      BY <1>1 DEF Entry, ResolverRecord, EntryRecord
    <3> QED
      BY <1>1, <2>1, <3>1 DEF Fill
  <2>2. CASE cache' = cache
    BY <1>1, <2>2
  <2> QED
    BY <2>1, <2>2 DEF Resolve, Hit, Miss, ReadActive, ReadFails, Return
<1>5. PICK h : resolver' = [resolver EXCEPT ![r] = h] /\ h \in ResolverRecord
  <2>1. CASE Hit(r)
    <3>1. PICK i \in Instances : resolver' = [resolver EXCEPT ![r] =
             [pc |-> "done", at |-> i, started |-> now,
              version |-> Rendered(cache[i].version, cache[i].content),
              content |-> cache[i].content]]
      BY <2>1 DEF Hit
    <3>2. [pc |-> "done", at |-> i, started |-> now,
           version |-> Rendered(cache[i].version, cache[i].content),
           content |-> cache[i].content] \in ResolverRecord
      BY <1>1 DEF ResolverRecord, EntryRecord, Rendered, Fallback
    <3> QED
      BY <3>1, <3>2
  <2>2. CASE Miss(r)
    <3>1. PICK i \in Instances : resolver' = [resolver EXCEPT ![r] =
             [pc |-> "read", at |-> i, started |-> now,
              version |-> Fallback, content |-> None]]
      BY <2>2 DEF Miss
    <3>2. [pc |-> "read", at |-> i, started |-> now,
           version |-> Fallback, content |-> None] \in ResolverRecord
      BY <1>1 DEF ResolverRecord, Fallback
    <3> QED
      BY <3>1, <3>2
  <2>3. CASE ReadActive(r)
    <3>1. [resolver[r] EXCEPT !.pc = "fill", !.version = summary.version,
                              !.content = summary.content] \in ResolverRecord
      BY <1>1 DEF ResolverRecord
    <3> QED
      BY <1>1, <2>3, <3>1 DEF ReadActive
  <2>4. CASE ReadFails(r)
    <3>1. [resolver[r] EXCEPT !.pc = "fill"] \in ResolverRecord
      BY <1>1 DEF ResolverRecord
    <3> QED
      BY <1>1, <2>4, <3>1 DEF ReadFails
  <2>5. CASE Fill(r)
    <3>1. Answer(r) \in ResolverRecord
      BY <1>1 DEF ResolverRecord, Answer, Rendered, Fallback
    <3> QED
      BY <1>1, <2>5, <3>1 DEF Fill
  <2>6. CASE Return(r)
    <3>1. IdleResolver \in ResolverRecord
      BY DEF IdleResolver, ResolverRecord, Fallback, Time
    <3> QED
      BY <2>6, <3>1 DEF Return
  <2> QED
    BY <2>1, <2>2, <2>3, <2>4, <2>5, <2>6 DEF Resolve
<1>6. resolver' \in [Resolvers -> ResolverRecord]
  BY <1>1, <1>5
<1> QED
  BY <1>2, <1>3, <1>4, <1>6

\* An appended version continues the history.
LEMMA AppendKeepsHistory ==
  ASSUME HInv, NEW e \in Editors, Appended(e)
  PROVE  HistoryConsistent' /\ RestoredFaithfully'
<1>1. /\ Newest \in Nat /\ Newest' = Newest + 1
      /\ editor[e].source \in Nat /\ editor[e].source <= Newest
      /\ editor[e].source > 0 => editor[e].content = versions[editor[e].source].content
  BY DEF HInv, TypeOK, EditorKnows, EditorRecord, Newest, Appended
<1>2. /\ versions'[Newest + 1].version = Newest + 1
      /\ versions'[Newest + 1].status = "active"
      /\ versions'[Newest + 1].content = editor[e].content
      /\ versions'[Newest + 1].restoredFrom = editor[e].source
      /\ summary'.version = Newest + 1
      /\ summary'.content = editor[e].content
  BY DEF Appended
<1>3. \A n \in 1..Newest :
          /\ versions'[n].version = n
          /\ versions'[n].status = "archived"
          /\ versions'[n].content = versions[n].content
          /\ versions'[n].restoredFrom = versions[n].restoredFrom
  BY DEF Appended
<1>4. HistoryConsistent'
  <2>1. \A n \in 1..Newest' :
           /\ versions'[n].version = n
           /\ versions'[n].status = IF n = Newest' THEN "active" ELSE "archived"
    <3> TAKE n \in 1..Newest'
    <3>1. n \in 1..Newest \/ n = Newest + 1
      BY <1>1
    <3> QED
      BY <1>1, <1>2, <1>3, <3>1
  <2> QED
    BY <1>1, <1>2, <2>1 DEF HistoryConsistent
<1>5. RestoredFaithfully'
  <2> SUFFICES ASSUME NEW n \in 1..Newest', versions'[n].restoredFrom > 0
               PROVE  /\ versions'[n].restoredFrom < n
                      /\ versions'[n].content =
                            versions'[versions'[n].restoredFrom].content
    BY DEF RestoredFaithfully
  <2>1. CASE n \in 1..Newest
    <3>1. versions[n].restoredFrom \in Nat
      <4>1. versions[n] \in VersionRecord
        BY <2>1 DEF HInv, TypeOK, Newest
      <4> QED
        BY <4>1 DEF VersionRecord
    <3>2. /\ versions[n].restoredFrom < n
          /\ versions[n].content = versions[versions[n].restoredFrom].content
      BY <1>3, <2>1 DEF HInv, RestoredFaithfully
    <3>3. versions[n].restoredFrom \in 1..Newest
      BY <1>1, <1>3, <2>1, <3>1, <3>2
    <3> QED
      BY <1>3, <2>1, <3>2, <3>3
  <2>2. CASE n = Newest + 1
    BY <1>1, <1>2, <1>3, <2>2
  <2> QED
    BY <1>1, <2>1, <2>2
<1> QED
  BY <1>4, <1>5

\* A step of an editor either appends a version or leaves the history alone,
\* and never touches the resolvers.
LEMMA EditEffect ==
  ASSUME HInv, NEW e \in Editors, Edit(e)
  PROVE  /\ \/ Appended(e) /\ cache' = cache
            \/ /\ UNCHANGED <<summary, versions>>
               /\ \/ cache' = cache
                  \/ \E i \in Instances : cache' = [cache EXCEPT ![i] = NoEntry]
         /\ UNCHANGED <<resolver, now, failedAt>>
<1>1. CASE Commit(e) \/ CommitUnacknowledged(e)
  BY <1>1, WriteAppends DEF Commit, CommitUnacknowledged, Write
<1>2. CASE Publish(e) \/ Restore(e) \/ ReadSummary(e) \/ Conflict(e) \/ Invalidate(e)
  BY <1>2 DEF Publish, Restore, ReadSummary, Conflict, Invalidate
<1> QED
  BY <1>1, <1>2 DEF Edit

\* Every step keeps the invariant of the history.
LEMMA NextHInv == HInv /\ [Next]_vars => HInv'
<1> SUFFICES ASSUME HInv, [Next]_vars PROVE HInv'
  OBVIOUS
<1> USE RegistryAssumption
<1>1. CASE UNCHANGED vars
  BY <1>1 DEF vars, HInv, TypeOK, HistoryConsistent, RestoredFaithfully,
              EditorKnows, IdleSource, Newest
<1>2. CASE SaveDraft \/ DiscardDraft \/ Tick
  <2>1. /\ UNCHANGED <<versions, editor, cache, resolver, failedAt>>
        /\ summary' \in [version: Nat, content: Contents \cup {None},
                         draft: BOOLEAN]
        /\ summary'.version = summary.version /\ summary'.content = summary.content
        /\ now' \in Nat
    <3>1. PICK b \in BOOLEAN : summary' = [summary EXCEPT !.draft = b]
      <4>1. summary.draft \in BOOLEAN
        BY Zenon DEF HInv, TypeOK
      <4>2. CASE Tick
        <5>1. summary' = [summary EXCEPT !.draft = summary.draft]
          BY <4>2 DEF Tick, HInv, TypeOK
        <5> QED
          BY <4>1, <5>1
      <4> QED
        BY <1>2, <4>2 DEF SaveDraft, DiscardDraft
    <3>2. summary \in [version: Nat, content: Contents \cup {None}, draft: BOOLEAN]
      BY Zenon DEF HInv, TypeOK
    <3>3. /\ UNCHANGED <<versions, editor, cache, resolver, failedAt>>
          /\ now' \in Nat
      BY <1>2 DEF SaveDraft, DiscardDraft, Tick, HInv, TypeOK
    <3> QED
      BY <3>1, <3>2, <3>3
  <2> QED
    BY <2>1 DEF HInv, TypeOK, HistoryConsistent, RestoredFaithfully,
                EditorKnows, IdleSource, Newest
<1>3. ASSUME NEW e \in Editors, Edit(e)
      PROVE  HInv'
  <2>1. EditorKnows' /\ IdleSource' /\ editor' \in [Editors -> EditorRecord]
    BY <1>3, EditEffect, EditorStep
  <2>2. cache' \in [Instances -> EntryRecord]
    <3>1. NoEntry \in EntryRecord
      BY DEF NoEntry, EntryRecord, Fallback, Long, Time
    <3>2. cache \in [Instances -> EntryRecord]
      BY DEF HInv, TypeOK
    <3>3. cache' = cache \/ \E i \in Instances : cache' = [cache EXCEPT ![i] = NoEntry]
      BY <1>3, EditEffect
    <3> QED
      BY <3>1, <3>2, <3>3
  <2>3. UNCHANGED <<resolver, now, failedAt>>
    BY <1>3, EditEffect
  <2>4. CASE Appended(e)
    <3>1. /\ versions' \in Seq(VersionRecord)
          /\ summary' = [version |-> Newest + 1, content |-> editor[e].content,
                         draft |-> FALSE]
      BY <2>4 DEF Appended
    <3>2. Newest \in Nat /\ editor[e].content \in Contents \cup {None}
      BY DEF HInv, TypeOK, EditorRecord, Newest
    <3>3. summary' \in [version: Nat, content: Contents \cup {None},
                        draft: BOOLEAN]
      BY <3>1, <3>2
    <3>4. TypeOK'
      BY <2>1, <2>2, <2>3, <3>1, <3>3 DEF TypeOK, HInv
    <3> QED
      BY <2>1, <2>4, <3>4, AppendKeepsHistory DEF HInv
  <2>5. CASE UNCHANGED <<summary, versions>>
    BY <2>1, <2>2, <2>3, <2>5 DEF HInv, TypeOK, HistoryConsistent,
                                  RestoredFaithfully, Newest
  <2> QED
    BY <1>3, <2>4, <2>5, EditEffect
<1>4. ASSUME NEW r \in Resolvers, Resolve(r)
      PROVE  HInv'
  <2>1. /\ resolver' \in [Resolvers -> ResolverRecord]
        /\ cache' \in [Instances -> EntryRecord]
        /\ failedAt' \in [Instances -> Time]
        /\ UNCHANGED <<summary, versions, editor, now>>
    BY <1>4, ResolverMoves
  <2> QED
    BY <2>1 DEF HInv, TypeOK, HistoryConsistent, RestoredFaithfully,
                EditorKnows, IdleSource, Newest
<1> QED
  BY <1>1, <1>2, <1>3, <1>4 DEF Next

-----------------------------------------------------------------------------
\* However many administrators publish and restore at once, the history has
\* no gap, no duplicate and one active version, the one that is served.
THEOREM History == Spec => []HistoryConsistent
<1>1. HInv => HistoryConsistent
  BY DEF HInv
<1> QED
  BY <1>1, InitHInv, NextHInv, PTL DEF Spec

\* A restored version has the text of the version it was restored from.
THEOREM Restoration == Spec => []RestoredFaithfully
<1>1. HInv => RestoredFaithfully
  BY DEF HInv
<1> QED
  BY <1>1, InitHInv, NextHInv, PTL DEF Spec

\* No step removes or rewrites a version.
THEOREM Preservation == Spec => HistoryPreserved
<1> DEFINE Keeps ==
      \A n \in 1..Newest :
          /\ n <= Len(versions')
          /\ versions'[n] = [versions[n] EXCEPT !.status = versions'[n].status]
          /\ versions[n].status = "archived" => versions'[n].status = "archived"
<1>1. HInv /\ [Next]_vars => [Keeps]_vars
  <2> SUFFICES ASSUME HInv, Next PROVE Keeps
    OBVIOUS
  <2>1. Newest \in Nat /\ \A n \in 1..Newest : versions[n] \in VersionRecord
    BY DEF HInv, TypeOK, Newest
  <2>2. CASE versions' = versions
    BY <2>1, <2>2 DEF VersionRecord, Newest
  <2>3. ASSUME NEW e \in Editors, Appended(e) PROVE Keeps
    <3>1. Newest' = Newest + 1 /\ Newest' = Len(versions')
      BY <2>3 DEF Appended, Newest
    <3>2. \A n \in 1..Newest :
             /\ versions'[n] = [versions[n] EXCEPT !.status = versions'[n].status]
             /\ versions'[n].status = "archived"
      BY <2>3 DEF Appended
    <3> QED
      BY <2>1, <3>1, <3>2
  <2>4. versions' = versions \/ \E e \in Editors : Appended(e)
    <3>1. CASE \E e \in Editors : Edit(e)
      BY <3>1, EditEffect
    <3>2. CASE \E r \in Resolvers : Resolve(r)
      BY <3>2, ResolverMoves
    <3> QED
      BY <3>1, <3>2 DEF Next, SaveDraft, DiscardDraft, Tick
  <2> QED
    BY <2>2, <2>3, <2>4
<1> QED
  BY <1>1, InitHInv, NextHInv, PTL DEF Spec, HistoryPreserved

-----------------------------------------------------------------------------
\* At first every cache is empty and every version is old.
LEMMA InitCInv == Init => CInv
<1> SUFFICES ASSUME Init PROVE CInv
  OBVIOUS
<1> USE RegistryAssumption
<1>1. HInv
  BY InitHInv
<1>2. \A n \in 1..Newest : versions[n].at = Long
  BY DEF Init, Newest
<1>3. /\ now = 0 /\ Long \in Int /\ Long < 0
      /\ \A i \in Instances : cache[i] = NoEntry /\ failedAt[i] = Long
      /\ \A r \in Resolvers : resolver[r] = IdleResolver
  BY DEF Init, Long
<1>4. Dated
  BY <1>2, <1>3 DEF Dated, NoEntry, IdleResolver
<1>5. \A i \in Instances : Good(cache[i].version, cache[i].fetchedAt, i)
  BY <1>2, <1>3 DEF Good, Knows, NoEntry
<1>6. Texts
  BY <1>3 DEF Texts, TextOf, NoEntry, IdleResolver, Fallback
<1> QED
  BY <1>1, <1>3, <1>4, <1>5, <1>6 DEF CInv, BoundedStaleness, IdleResolver

\* A step moves the clocks forward only, what it publishes is dated now, and
\* no text changes.
Onwards ==
    /\ now' \in Int /\ now <= now'
    /\ \A i \in Instances : failedAt'[i] \in Int /\ failedAt[i] <= failedAt'[i]
                              /\ failedAt'[i] <= now'
    /\ Newest' \in Nat /\ Newest <= Newest'
    /\ \A n \in 1..Newest : versions'[n].content = versions[n].content
    /\ \A n \in 1..Newest' :
          \/ n \in 1..Newest /\ versions'[n].at = versions[n].at
          \/ versions'[n].at = now

\* Every step does so.
LEMMA StepOnwards ==
  ASSUME CInv, [Next]_vars
  PROVE  Onwards
<1> USE RegistryAssumption
<1>1. /\ now \in Int /\ Newest \in Nat
      /\ failedAt \in [Instances -> Int]
      /\ \A i \in Instances : failedAt[i] <= now
  BY DEF CInv, HInv, TypeOK, Dated, Newest, Time
<1>2. CASE versions' = versions /\ now' \in {now, now + 1} /\ failedAt' = failedAt
  BY <1>1, <1>2 DEF Onwards, Newest
<1>3. ASSUME NEW e \in Editors, Appended(e), now' = now, failedAt' = failedAt
      PROVE  Onwards
  <2>1. Newest' = Newest + 1
    BY <1>3 DEF Appended
  <2>2. \A n \in 1..Newest : /\ versions'[n].at = versions[n].at
                             /\ versions'[n].content = versions[n].content
    BY <1>3 DEF Appended
  <2>3. versions'[Newest + 1].at = now
    BY <1>3 DEF Appended
  <2>4. \A n \in 1..Newest' : n \in 1..Newest \/ n = Newest + 1
    BY <1>1, <2>1
  <2> QED
    BY <1>1, <1>3, <2>1, <2>2, <2>3, <2>4 DEF Onwards
<1>4. ASSUME NEW r \in Resolvers, Resolve(r)
      PROVE  Onwards
  <2>1. UNCHANGED <<versions, now>>
    BY <1>4, ResolverMoves DEF CInv
  <2>2. \/ failedAt' = failedAt
        \/ failedAt' = [failedAt EXCEPT ![resolver[r].at] = now]
    BY <1>4 DEF Resolve, Hit, Miss, ReadActive, ReadFails, Fill, Return
  <2> QED
    BY <1>1, <2>1, <2>2 DEF Onwards, Newest
<1>5. CASE \E e \in Editors : Edit(e)
  BY <1>2, <1>3, <1>5, EditEffect DEF CInv
<1>6. CASE UNCHANGED vars \/ SaveDraft \/ DiscardDraft \/ Tick
  BY <1>2, <1>6 DEF vars, SaveDraft, DiscardDraft, Tick
<1> QED
  BY <1>4, <1>5, <1>6 DEF Next

\* A version is where its number says, with the clock reading of its commit.
LEMMA VersionFacts ==
  ASSUME HInv, NEW n \in 1..Newest
  PROVE  versions[n].version = n /\ versions[n].at \in Int
<1>1. versions[n] \in VersionRecord
  BY DEF HInv, TypeOK, Newest
<1> QED
  BY <1>1 DEF HInv, HistoryConsistent, VersionRecord, Time

\* So a good answer stays good, as long as it is not dated in the future.
GoodNext(v, t, i) ==
    \/ \A n \in 1..Newest' : versions'[n].at < t => v >= n
    \/ failedAt'[i] >= t

\* The lemma: what is good before a step is good after it.
LEMMA GoodStays ==
  ASSUME CInv, Onwards, NEW v \in Nat, NEW t \in Int, t <= now,
         NEW i \in Instances, Good(v, t, i)
  PROVE  GoodNext(v, t, i)
<1>1. now \in Int /\ failedAt[i] \in Int
  BY DEF CInv, HInv, TypeOK, Time
<1>2. CASE failedAt[i] >= t
  BY <1>1, <1>2 DEF Onwards, GoodNext
<1>3. CASE Knows(v, t)
  <2>1. \A n \in 1..Newest' : versions'[n].at < t => v >= n
    BY <1>1, <1>3 DEF Onwards, Knows
  <2> QED
    BY <2>1 DEF GoodNext
<1> QED
  BY <1>2, <1>3 DEF Good

\* What an answer v owes to a request that started at t.
Fulfils(v, i, t) ==
    \A n \in 1..Newest : versions[n].at + TTL <= t =>
        \/ v >= versions[n].version
        \/ FailedLately(i, t)
        \/ v = Fallback /\ Unrenderable(n)

\* A good entry dated s, once rendered, fulfils what is owed to a request that
\* starts less than a TTL later: if its text has an unknown variable, that
\* text is the version that was found.
LEMMA GoodFulfils ==
  ASSUME CInv, NEW v \in Nat, NEW c, NEW i \in Instances, NEW t \in Int,
         NEW s \in Int, Good(v, s, i), TextOf(v, c), t - s < TTL
  PROVE  Fulfils(Rendered(v, c), i, t)
<1> USE RegistryAssumption
<1>1. \A n \in 1..Newest : versions[n].version = n /\ versions[n].at \in Int
  BY VersionFacts DEF CInv
<1>2. failedAt[i] \in Int /\ Newest \in Nat
  BY DEF CInv, HInv, TypeOK, Time, Newest
<1>3. SUFFICES ASSUME NEW n \in 1..Newest, versions[n].at + TTL <= t,
                      ~FailedLately(i, t)
               PROVE  \/ Rendered(v, c) >= versions[n].version
                      \/ Rendered(v, c) = Fallback /\ Unrenderable(n)
  BY DEF Fulfils
<1>4. v >= n
  BY <1>1, <1>2, <1>3 DEF Good, Knows, FailedLately
<1>5. CASE c \in Renders
  BY <1>1, <1>4, <1>5 DEF Rendered
<1>6. CASE c \notin Renders
  <2>1. v \in n..Newest /\ versions[v].content \notin Renders
    BY <1>2, <1>4, <1>6 DEF TextOf
  <2> QED
    BY <1>6, <2>1 DEF Rendered, Unrenderable
<1> QED
  BY <1>5, <1>6

\* And what was owed once is owed still, and paid.
FulfilsNext(v, i, t) ==
    \A n \in 1..Newest' : versions'[n].at + TTL <= t =>
        \/ v >= versions'[n].version
        \/ failedAt'[i] + TTL > t
        \/ v = Fallback /\ \E m \in n..Newest' : versions'[m].content \notin Renders

\* A later version is dated later, so it adds nothing to what is owed.
LEMMA FulfilsStays ==
  ASSUME CInv, HInv', Onwards, NEW v \in Nat, NEW i \in Instances,
         NEW t \in Int, t <= now, Fulfils(v, i, t)
  PROVE  FulfilsNext(v, i, t)
<1> USE RegistryAssumption
<1>1. \A n \in 1..Newest : versions[n].version = n /\ versions[n].at \in Int
  BY VersionFacts DEF CInv
<1>2. \A n \in 1..Newest' : versions'[n].version = n
  BY DEF HInv, HistoryConsistent
<1>3. now \in Int /\ failedAt[i] \in Int /\ Newest \in Nat
  BY DEF CInv, HInv, TypeOK, Time, Newest
<1>4. SUFFICES ASSUME NEW n \in 1..Newest', versions'[n].at + TTL <= t
               PROVE  \/ v >= versions'[n].version
                      \/ failedAt'[i] + TTL > t
                      \/ v = Fallback /\ \E m \in n..Newest' :
                                           versions'[m].content \notin Renders
  BY DEF FulfilsNext
<1>5. n \in 1..Newest /\ versions'[n].at = versions[n].at
  BY <1>3, <1>4 DEF Onwards
<1>6. \/ v >= versions[n].version
      \/ FailedLately(i, t)
      \/ v = Fallback /\ Unrenderable(n)
  BY <1>4, <1>5 DEF Fulfils
<1>7. FailedLately(i, t) => failedAt'[i] + TTL > t
  BY <1>3 DEF FailedLately, Onwards
<1>8. Unrenderable(n) => \E m \in n..Newest' : versions'[m].content \notin Renders
  <2> SUFFICES ASSUME NEW m \in n..Newest, versions[m].content \notin Renders
               PROVE  m \in n..Newest' /\ versions'[m].content \notin Renders
    BY DEF Unrenderable
  <2> QED
    BY <1>3, <1>5 DEF Onwards
<1> QED
  BY <1>1, <1>2, <1>5, <1>6, <1>7, <1>8

\* The text of a version stays its text.
TextNext(v, c) == v > 0 => v <= Newest' /\ c = versions'[v].content

\* Every step leaves it alone.
LEMMA TextStays ==
  ASSUME CInv, Onwards, NEW v \in Nat, NEW c, TextOf(v, c)
  PROVE  TextNext(v, c)
<1>1. Newest \in Nat
  BY DEF CInv, HInv, TypeOK, Newest
<1> QED
  BY <1>1 DEF TextOf, TextNext, Onwards

\* What a step makes of an entry: nothing, no entry, or a resolver's answer.
LEMMA EntryMoves ==
  ASSUME CInv, [Next]_vars, NEW i \in Instances
  PROVE  \/ cache'[i] = cache[i]
         \/ cache'[i] = NoEntry
         \/ \E r \in Resolvers :
               /\ resolver[r].pc = "fill" /\ resolver[r].at = i
               /\ cache'[i] = [version |-> resolver[r].version,
                               content |-> resolver[r].content,
                               fetchedAt |-> resolver[r].started]
<1>1. cache \in [Instances -> EntryRecord]
  BY DEF CInv, HInv, TypeOK
<1>2. CASE \E e \in Editors : Edit(e)
  BY <1>1, <1>2, EditEffect DEF CInv
<1>3. CASE \E r \in Resolvers : Resolve(r)
  BY <1>1, <1>3 DEF Resolve, Hit, Miss, ReadActive, ReadFails, Fill, Return, Entry
<1>4. CASE UNCHANGED vars \/ SaveDraft \/ DiscardDraft \/ Tick
  BY <1>4 DEF vars, SaveDraft, DiscardDraft, Tick
<1> QED
  BY <1>2, <1>3, <1>4 DEF Next

\* What a step makes of a resolver.
Answers(r) ==
    \/ resolver'[r] = resolver[r]
    \/ resolver'[r] = IdleResolver
    \/ \E i \in Instances :
          /\ now - cache[i].fetchedAt < TTL
          /\ resolver'[r] = [pc |-> "done", at |-> i, started |-> now,
                             version |-> Rendered(cache[i].version, cache[i].content),
                             content |-> cache[i].content]
    \/ \E i \in Instances :
          resolver'[r] = [pc |-> "read", at |-> i, started |-> now,
                          version |-> Fallback, content |-> None]
    \/ /\ resolver[r].pc = "read"
       /\ resolver'[r] = [resolver[r] EXCEPT !.pc = "fill", !.version = Newest,
                                             !.content = summary.content]
    \/ /\ resolver[r].pc = "read"
       /\ resolver'[r] = [resolver[r] EXCEPT !.pc = "fill"]
       /\ failedAt'[resolver[r].at] = now
    \/ /\ resolver[r].pc = "fill"
       /\ resolver'[r] = Answer(r)

\* Every step of a resolver is one of these.
LEMMA ResolverAnswers ==
  ASSUME CInv, [Next]_vars, NEW r \in Resolvers
  PROVE  Answers(r)
<1>1. /\ resolver \in [Resolvers -> ResolverRecord]
      /\ failedAt \in [Instances -> Time]
      /\ summary.version = Newest
      /\ resolver[r].pc # "idle" => resolver[r].at \in Instances
  BY DEF CInv, HInv, TypeOK, HistoryConsistent
<1>2. CASE resolver' = resolver
  BY <1>2 DEF Answers
<1>3. ASSUME NEW q \in Resolvers, Resolve(q), q # r
      PROVE  resolver'[r] = resolver[r]
  BY <1>1, <1>3 DEF Resolve, Hit, Miss, ReadActive, ReadFails, Fill, Return
<1>4. CASE Resolve(r)
  <2>1. CASE Hit(r)
    BY <1>1, <2>1 DEF Hit, Fresh, Answers
  <2>2. CASE Miss(r)
    BY <1>1, <2>2 DEF Miss, Answers
  <2>3. CASE ReadActive(r)
    BY <1>1, <2>3 DEF ReadActive, Answers
  <2>4. CASE ReadFails(r)
    BY <1>1, <2>4 DEF ReadFails, Answers
  <2>5. CASE Fill(r)
    BY <1>1, <2>5 DEF Fill, Answers
  <2>6. CASE Return(r)
    BY <1>1, <2>6 DEF Return, Answers
  <2> QED
    BY <1>4, <2>1, <2>2, <2>3, <2>4, <2>5, <2>6 DEF Resolve
<1>5. CASE \E e \in Editors : Edit(e)
  BY <1>2, <1>5, EditEffect DEF CInv
<1>6. CASE UNCHANGED vars \/ SaveDraft \/ DiscardDraft \/ Tick
  BY <1>2, <1>6 DEF vars, SaveDraft, DiscardDraft, Tick
<1> QED
  BY <1>3, <1>4, <1>5, <1>6 DEF Next, Answers

\* Every step keeps the invariant of the answers.
LEMMA NextCInv == CInv /\ [Next]_vars => CInv'
<1> SUFFICES ASSUME CInv, [Next]_vars PROVE CInv'
  OBVIOUS
<1> USE RegistryAssumption
<1>1. HInv' /\ Onwards
  BY NextHInv, StepOnwards DEF CInv
<1>2. /\ now \in Nat /\ now' \in Int /\ now <= now' /\ Newest \in Nat
      /\ Long \in Int /\ Long < 0 /\ TTL \in Int /\ TTL > 0
  BY <1>1 DEF CInv, HInv, TypeOK, Onwards, Newest, Long
<1>3. \A i \in Instances :
         /\ cache[i].version \in Nat /\ cache[i].fetchedAt \in Int
         /\ cache[i].fetchedAt <= now
         /\ Good(cache[i].version, cache[i].fetchedAt, i)
         /\ TextOf(cache[i].version, cache[i].content)
  BY DEF CInv, HInv, TypeOK, EntryRecord, Dated, Texts, Time
<1>4. \A r \in Resolvers :
         /\ resolver[r] \in ResolverRecord
         /\ resolver[r].version \in Nat /\ resolver[r].started \in Int
         /\ resolver[r].started <= now
         /\ resolver[r].pc # "idle" => resolver[r].at \in Instances
         /\ resolver[r].pc = "fill" =>
               Good(resolver[r].version, resolver[r].started, resolver[r].at)
         /\ resolver[r].pc = "done" =>
               Fulfils(resolver[r].version, resolver[r].at, resolver[r].started)
         /\ resolver[r].pc \in {"read", "fill"} =>
               TextOf(resolver[r].version, resolver[r].content)
  BY DEF CInv, HInv, TypeOK, Dated, Time, ResolverRecord, BoundedStaleness,
         Fulfils, Texts
<1>5. \A n \in 1..Newest' : Long <= versions'[n].at /\ versions'[n].at <= now'
  BY <1>1, <1>2, VersionFacts DEF CInv, Dated, Onwards
<1>6. ASSUME NEW i \in Instances
      PROVE  /\ cache'[i].fetchedAt <= now'
             /\ GoodNext(cache'[i].version, cache'[i].fetchedAt, i)
             /\ TextNext(cache'[i].version, cache'[i].content)
  <2>1. CASE cache'[i] = cache[i]
    <3>1. GoodNext(cache[i].version, cache[i].fetchedAt, i)
      BY <1>1, <1>3, GoodStays
    <3>2. TextNext(cache[i].version, cache[i].content)
      BY <1>1, <1>3, TextStays
    <3> QED
      BY <1>2, <1>3, <2>1, <3>1, <3>2
  <2>2. CASE cache'[i] = NoEntry
    <3>1. cache'[i].version = 0 /\ cache'[i].fetchedAt = Long
      BY <2>2 DEF NoEntry, Fallback
    <3>2. \A n \in 1..Newest' : versions'[n].at \in Int
      BY <1>1, <1>2, VersionFacts DEF CInv, Onwards
    <3> QED
      BY <1>2, <1>5, <3>1, <3>2 DEF GoodNext, TextNext
  <2>3. ASSUME NEW r \in Resolvers, resolver[r].pc = "fill", resolver[r].at = i,
               cache'[i] = [version |-> resolver[r].version,
                            content |-> resolver[r].content,
                            fetchedAt |-> resolver[r].started]
        PROVE  /\ cache'[i].fetchedAt <= now'
               /\ GoodNext(cache'[i].version, cache'[i].fetchedAt, i)
               /\ TextNext(cache'[i].version, cache'[i].content)
    <3>1. GoodNext(resolver[r].version, resolver[r].started, i)
      BY <1>1, <1>4, <2>3, GoodStays
    <3>2. TextNext(resolver[r].version, resolver[r].content)
      BY <1>1, <1>4, <2>3, TextStays
    <3> QED
      BY <1>2, <1>4, <2>3, <3>1, <3>2
  <2> QED
    BY <2>1, <2>2, <2>3, EntryMoves
<1>7. ASSUME NEW r \in Resolvers
      PROVE  /\ resolver'[r].started <= now'
             /\ resolver'[r].pc # "idle" => resolver'[r].at \in Instances
             /\ resolver'[r].pc = "fill" =>
                   GoodNext(resolver'[r].version, resolver'[r].started, resolver'[r].at)
             /\ resolver'[r].pc = "done" =>
                   FulfilsNext(resolver'[r].version, resolver'[r].at, resolver'[r].started)
             /\ resolver'[r].pc \in {"read", "fill"} =>
                   TextNext(resolver'[r].version, resolver'[r].content)
  <2>1. CASE resolver'[r] = resolver[r]
    <3>1. resolver[r].pc = "fill" =>
             GoodNext(resolver[r].version, resolver[r].started, resolver[r].at)
      BY <1>1, <1>4, GoodStays
    <3>2. resolver[r].pc = "done" =>
             FulfilsNext(resolver[r].version, resolver[r].at, resolver[r].started)
      BY <1>1, <1>4, FulfilsStays
    <3>3. resolver[r].pc \in {"read", "fill"} =>
             TextNext(resolver[r].version, resolver[r].content)
      BY <1>1, <1>4, TextStays
    <3> QED
      BY <1>2, <1>4, <2>1, <3>1, <3>2, <3>3
  <2>2. CASE resolver'[r] = IdleResolver
    BY <1>2, <2>2 DEF IdleResolver
  <2>3. ASSUME NEW i \in Instances, now - cache[i].fetchedAt < TTL,
               resolver'[r] = [pc |-> "done", at |-> i, started |-> now,
                               version |-> Rendered(cache[i].version, cache[i].content),
                               content |-> cache[i].content]
        PROVE  /\ resolver'[r].pc = "done" /\ resolver'[r].at \in Instances
               /\ resolver'[r].started <= now'
               /\ FulfilsNext(resolver'[r].version, resolver'[r].at, resolver'[r].started)
    <3> DEFINE v == Rendered(cache[i].version, cache[i].content)
    <3>1. Fulfils(v, i, now) /\ v \in Nat
      BY <1>2, <1>3, <2>3, GoodFulfils DEF Rendered, Fallback
    <3>2. PICK w \in Nat : w = v
      BY <3>1
    <3>3. FulfilsNext(w, i, now)
      BY <1>1, <1>2, <3>1, <3>2, FulfilsStays
    <3> HIDE DEF v
    <3> QED
      BY <1>2, <2>3, <3>2, <3>3 DEF v
  <2>4. ASSUME NEW i \in Instances,
               resolver'[r] = [pc |-> "read", at |-> i, started |-> now,
                               version |-> Fallback, content |-> None]
        PROVE  /\ resolver'[r].pc = "read" /\ resolver'[r].at \in Instances
               /\ resolver'[r].started <= now'
               /\ TextNext(resolver'[r].version, resolver'[r].content)
    BY <1>2, <2>4 DEF TextNext, Fallback
  <2>5. CASE /\ resolver[r].pc = "read"
             /\ resolver'[r] = [resolver[r] EXCEPT !.pc = "fill", !.version = Newest,
                                                   !.content = summary.content]
    <3>1. /\ resolver'[r].pc = "fill" /\ resolver'[r].version = Newest
          /\ resolver'[r].content = summary.content
          /\ resolver'[r].at = resolver[r].at
          /\ resolver'[r].started = resolver[r].started
      BY <1>4, <2>5 DEF ResolverRecord
    <3>2. Good(Newest, resolver[r].started, resolver[r].at)
      BY <1>2 DEF Good, Knows
    <3>3. GoodNext(Newest, resolver[r].started, resolver[r].at)
      BY <1>1, <1>2, <1>4, <2>5, <3>2, GoodStays
    <3>4. TextOf(Newest, summary.content)
      BY <1>2 DEF CInv, HInv, HistoryConsistent, TextOf
    <3>5. PICK n, c : n = Newest /\ c = summary.content
      OBVIOUS
    <3>6. TextNext(n, c)
      BY <1>1, <1>2, <3>4, <3>5, TextStays
    <3> QED
      BY <1>2, <1>4, <2>5, <3>1, <3>3, <3>5, <3>6
  <2>6. CASE /\ resolver[r].pc = "read"
             /\ resolver'[r] = [resolver[r] EXCEPT !.pc = "fill"]
             /\ failedAt'[resolver[r].at] = now
    <3>1. /\ resolver'[r].pc = "fill" /\ resolver'[r].at = resolver[r].at
          /\ resolver'[r].started = resolver[r].started
      BY <1>4, <2>6 DEF ResolverRecord
    <3>2. failedAt'[resolver'[r].at] >= resolver'[r].started
      BY <1>2, <1>4, <2>6, <3>1
    <3>3. /\ resolver'[r].version = resolver[r].version
          /\ resolver'[r].content = resolver[r].content
      BY <1>4, <2>6 DEF ResolverRecord
    <3>4. TextNext(resolver[r].version, resolver[r].content)
      BY <1>1, <1>4, <2>6, TextStays
    <3> QED
      BY <1>2, <1>4, <2>6, <3>1, <3>2, <3>3, <3>4 DEF GoodNext
  <2>7. CASE /\ resolver[r].pc = "fill"
             /\ resolver'[r] = Answer(r)
    <3> DEFINE v == Rendered(resolver[r].version, resolver[r].content)
    <3>1. /\ resolver'[r].pc = "done" /\ resolver'[r].at = resolver[r].at
          /\ resolver'[r].started = resolver[r].started
          /\ resolver'[r].version = v
      BY <1>4, <2>7 DEF ResolverRecord, Answer
    <3>2. resolver[r].started - resolver[r].started < TTL
      BY <1>2, <1>4
    <3>3. Fulfils(v, resolver[r].at, resolver[r].started) /\ v \in Nat
      BY <1>4, <2>7, <3>2, GoodFulfils DEF Rendered, Fallback
    <3>4. PICK w \in Nat : w = v
      BY <3>3
    <3>5. FulfilsNext(w, resolver[r].at, resolver[r].started)
      BY <1>1, <1>4, <2>7, <3>3, <3>4, FulfilsStays
    <3> HIDE DEF v
    <3> QED
      BY <1>2, <1>4, <2>7, <3>1, <3>4, <3>5
  <2> QED
    BY <2>1, <2>2, <2>3, <2>4, <2>5, <2>6, <2>7, ResolverAnswers DEF Answers
<1>8. Dated'
  BY <1>1, <1>2, <1>5, <1>6, <1>7 DEF Dated, Onwards
<1>9. \A i \in Instances : Good(cache[i].version, cache[i].fetchedAt, i)'
  BY <1>6 DEF Good, Knows, GoodNext
<1>10. \A r \in Resolvers : resolver'[r].pc = "fill" =>
          Good(resolver[r].version, resolver[r].started, resolver[r].at)'
  BY <1>7 DEF Good, Knows, GoodNext
<1>11. BoundedStaleness'
  BY <1>7 DEF BoundedStaleness, FulfilsNext, FailedLately, Unrenderable
<1>12. Texts'
  BY <1>6, <1>7 DEF Texts, TextOf, TextNext
<1> QED
  BY <1>1, <1>7, <1>8, <1>9, <1>10, <1>11, <1>12 DEF CInv

\* "published edits propagate within CACHE_TTL_MS worst-case", whatever the
\* number of instances, resolvers and administrators, and however the answers
\* of Firestore overtake one another: unless a read fails, or a text that is
\* no longer accepted makes the answer the fallback.
THEOREM Staleness == Spec => []BoundedStaleness
<1>1. CInv => BoundedStaleness
  BY DEF CInv
<1> QED
  BY <1>1, InitCInv, NextCInv, PTL DEF Spec

\* Versions, drafts, caches and whoever uses them keep their form.
THEOREM Types == Spec => []TypeOK
<1>1. HInv => TypeOK
  BY DEF HInv
<1> QED
  BY <1>1, InitHInv, NextHInv, PTL DEF Spec
=============================================================================
