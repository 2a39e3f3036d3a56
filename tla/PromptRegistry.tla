---------------------------- MODULE PromptRegistry ----------------------------
(***************************************************************************)
(* One governed prompt: its document and its versions in Firestore, the    *)
(* administrators that publish and restore, and the instances of the       *)
(* server that resolve it through a cache of their own.                    *)
(*                                                                         *)
(* A Firestore transaction is a read and a later commit that goes through  *)
(* only if the document it read has not changed; a failed commit reads     *)
(* again.  A resolver works with the clock it read first, and awaits       *)
(* Firestore before it fills the cache, so publishing, invalidating and    *)
(* other resolvers may fall in between.  A prompt resolves to a version;   *)
(* version 0 stands for the fallback in the code.  Publishing refuses a    *)
(* text with a variable the server does not know, but one that an earlier  *)
(* release published may have it: that text is cached and never answered.  *)
(***************************************************************************)
EXTENDS Integers, Sequences

CONSTANTS
    Contents,     \* prompt texts
    Renders,      \* those without an unknown global variable
    Valid,        \* those that validatePromptContent accepts
    Editors,      \* requests to publish or to restore
    Resolvers,    \* requests that resolve the prompt
    Instances,    \* processes of the server
    TTL,          \* CACHE_TTL_MS, in ticks
    MaxTime,      \* bound on the clock
    MaxVersions,  \* bound on the versions
    None          \* no content

ASSUME RegistryAssumption ==
    /\ Valid \subseteq Renders /\ Renders \subseteq Contents
    /\ None \notin Contents \cup Instances
    /\ TTL \in Nat \ {0}
    /\ MaxTime \in Nat
    /\ MaxVersions \in Nat

VARIABLES
    summary,   \* app_prompts/{key}: activeVersion, activeContent, is there a draft
    versions,  \* its versions subcollection, in the order they were created
    editor,    \* the request of an administrator
    cache,     \* the entry of each instance, or a stale one
    resolver,  \* the request that resolves the prompt
    now,       \* the clock
    failedAt   \* history: when a read last failed on each instance

vars == <<summary, versions, editor, cache, resolver, now, failedAt>>

Fallback == 0
Long     == -TTL          \* before any entry that is still fresh

Newest == Len(versions)

IdleEditor   == [pc |-> "idle", content |-> None, source |-> 0, seen |-> 0]
IdleResolver == [pc |-> "idle", at |-> None, started |-> 0,
                 version |-> Fallback, content |-> None]
NoEntry      == [version |-> Fallback, content |-> None, fetchedAt |-> Long]

Init ==
    /\ \/ versions = <<>>
       \/ \E c \in Contents :      \* published by an earlier release
             versions = <<[version |-> 1, content |-> c, status |-> "active",
                           restoredFrom |-> 0, at |-> Long]>>
    /\ summary = [version |-> Len(versions),
                  content |-> IF versions = <<>> THEN None ELSE versions[1].content,
                  draft |-> FALSE]
    /\ editor = [e \in Editors |-> IdleEditor]
    /\ cache = [i \in Instances |-> NoEntry]
    /\ resolver = [r \in Resolvers |-> IdleResolver]
    /\ now = 0
    /\ failedAt = [i \in Instances |-> Long]

Tick ==
    /\ now < MaxTime
    /\ now' = now + 1
    /\ UNCHANGED <<summary, versions, editor, cache, resolver, failedAt>>

-----------------------------------------------------------------------------
(* Drafts: whoever publishes clears the draft, whoever saved it. *)

SaveDraft ==
    /\ summary' = [summary EXCEPT !.draft = TRUE]
    /\ UNCHANGED <<versions, editor, cache, resolver, now, failedAt>>

DiscardDraft ==
    /\ summary' = [summary EXCEPT !.draft = FALSE]
    /\ UNCHANGED <<versions, editor, cache, resolver, now, failedAt>>

-----------------------------------------------------------------------------
(* publishVersion and restoreVersion, and their routes *)

Publish(e) ==
    /\ editor[e].pc = "idle"
    /\ \E c \in Valid :
          editor' = [editor EXCEPT ![e] = [@ EXCEPT !.pc = "read", !.content = c]]
    /\ UNCHANGED <<summary, versions, cache, resolver, now, failedAt>>

\* Mutant: the active text is published as if it were the chosen version.
RestoreActive(e) ==
    /\ editor[e].pc = "idle"
    /\ \E n \in 1..Newest :
          /\ versions[n].content \in Valid
          /\ editor' = [editor EXCEPT ![e] = [@ EXCEPT !.pc = "read",
                            !.content = summary.content,
                            !.source = versions[n].version]]
    /\ UNCHANGED <<summary, versions, cache, resolver, now, failedAt>>

\* A version that is no longer valid is refused.
Restore(e) ==
    /\ editor[e].pc = "idle"
    /\ \E n \in 1..Newest :
          /\ versions[n].content \in Valid
          /\ editor' = [editor EXCEPT ![e] = [@ EXCEPT !.pc = "read",
                            !.content = versions[n].content,
                            !.source = versions[n].version]]
    /\ UNCHANGED <<summary, versions, cache, resolver, now, failedAt>>

ReadSummary(e) ==
    /\ editor[e].pc = "read"
    /\ editor' = [editor EXCEPT ![e] = [@ EXCEPT !.pc = "commit",
                                                 !.seen = summary.version]]
    /\ UNCHANGED <<summary, versions, cache, resolver, now, failedAt>>

Archived(n) ==
    [k \in 1..Newest |->
        IF versions[k].version = n THEN [versions[k] EXCEPT !.status = "archived"]
        ELSE versions[k]]

NewVersion(e) ==
    [version |-> editor[e].seen + 1, content |-> editor[e].content,
     status |-> "active", restoredFrom |-> editor[e].source, at |-> now]

NewSummary(e) ==
    [version |-> editor[e].seen + 1, content |-> editor[e].content, draft |-> FALSE]

\* Mutant: a restored version is made active again where it is.
ReactivateSource(e) ==
    /\ editor[e].seen = summary.version
    /\ Newest < MaxVersions
    /\ IF editor[e].source > 0
       THEN /\ versions' = [Archived(editor[e].seen)
                                EXCEPT ![editor[e].source].status = "active"]
            /\ summary' = [NewSummary(e) EXCEPT !.version = editor[e].source]
       ELSE /\ versions' = Append(Archived(editor[e].seen), NewVersion(e))
            /\ summary' = NewSummary(e)
    /\ UNCHANGED <<cache, resolver, now, failedAt>>

\* Mutant: the reads and the writes are not one transaction.
WriteUnchecked(e) ==
    /\ Newest < MaxVersions
    /\ versions' = Append(Archived(editor[e].seen), NewVersion(e))
    /\ summary' = NewSummary(e)
    /\ UNCHANGED <<cache, resolver, now, failedAt>>

Write(e) ==
    /\ editor[e].seen = summary.version
    /\ Newest < MaxVersions
    /\ versions' = Append(Archived(editor[e].seen), NewVersion(e))
    /\ summary' = NewSummary(e)
    /\ UNCHANGED <<cache, resolver, now, failedAt>>

Commit(e) ==
    /\ editor[e].pc = "commit"
    /\ Write(e)
    /\ editor' = [editor EXCEPT ![e] = [@ EXCEPT !.pc = "invalidate"]]

\* The transaction commits and its acknowledgement is lost: the request fails
\* and the cache is not invalidated.
CommitUnacknowledged(e) ==
    /\ editor[e].pc = "commit"
    /\ Write(e)
    /\ editor' = [editor EXCEPT ![e] = IdleEditor]

\* The document changed under the transaction: the client runs it again.
Conflict(e) ==
    /\ editor[e].pc = "commit"
    /\ editor[e].seen # summary.version
    /\ editor' = [editor EXCEPT ![e] = [@ EXCEPT !.pc = "read"]]
    /\ UNCHANGED <<summary, versions, cache, resolver, now, failedAt>>

\* Only the instance that served the request forgets its entry.
Invalidate(e) ==
    /\ editor[e].pc = "invalidate"
    /\ \E i \in Instances :
          cache' = [cache EXCEPT ![i] = NoEntry]
    /\ editor' = [editor EXCEPT ![e] = IdleEditor]
    /\ UNCHANGED <<summary, versions, resolver, now, failedAt>>

-----------------------------------------------------------------------------
(* resolvePrompt *)

Fresh(i) == now - cache[i].fetchedAt < TTL

\* The version a request is answered with: a text with an unknown variable
\* gives way to the fallback, each time it is found.
Rendered(version, content) == IF content \in Renders THEN version ELSE Fallback

Hit(r) ==
    /\ resolver[r].pc = "idle"
    /\ \E i \in Instances :
          /\ Fresh(i)
          /\ resolver' = [resolver EXCEPT ![r] =
                [pc |-> "done", at |-> i, started |-> now,
                 version |-> Rendered(cache[i].version, cache[i].content),
                 content |-> cache[i].content]]
    /\ UNCHANGED <<summary, versions, editor, cache, now, failedAt>>

Miss(r) ==
    /\ resolver[r].pc = "idle"
    /\ \E i \in Instances :
          /\ ~Fresh(i)
          /\ resolver' = [resolver EXCEPT ![r] =
                [pc |-> "read", at |-> i, started |-> now,
                 version |-> Fallback, content |-> None]]
    /\ UNCHANGED <<summary, versions, editor, cache, now, failedAt>>

\* A prompt that was never published resolves to the fallback, version 0.
ReadActive(r) ==
    /\ resolver[r].pc = "read"
    /\ resolver' = [resolver EXCEPT ![r] = [@ EXCEPT !.pc = "fill",
                                                     !.version = summary.version,
                                                     !.content = summary.content]]
    /\ UNCHANGED <<summary, versions, editor, cache, now, failedAt>>

\* So does every prompt when Firestore fails, and the answer is cached.
ReadFails(r) ==
    /\ resolver[r].pc = "read"
    /\ resolver' = [resolver EXCEPT ![r] = [@ EXCEPT !.pc = "fill"]]
    /\ failedAt' = [failedAt EXCEPT ![resolver[r].at] = now]
    /\ UNCHANGED <<summary, versions, editor, cache, now>>

Entry(r, clock) ==
    [version |-> resolver[r].version, content |-> resolver[r].content,
     fetchedAt |-> clock]

Answer(r) ==
    [resolver[r] EXCEPT !.pc = "done",
                        !.version = Rendered(resolver[r].version, resolver[r].content)]

\* Mutant: the entry is as old as its arrival, not as its request.
FillAtArrival(r) ==
    /\ resolver[r].pc = "fill"
    /\ cache' = [cache EXCEPT ![resolver[r].at] = Entry(r, now)]
    /\ resolver' = [resolver EXCEPT ![r] = Answer(r)]
    /\ UNCHANGED <<summary, versions, editor, now, failedAt>>

\* The last answer to arrive is kept, whichever was asked for last, with the
\* text as it was published.
Fill(r) ==
    /\ resolver[r].pc = "fill"
    /\ cache' = [cache EXCEPT ![resolver[r].at] = Entry(r, resolver[r].started)]
    /\ resolver' = [resolver EXCEPT ![r] = Answer(r)]
    /\ UNCHANGED <<summary, versions, editor, now, failedAt>>

Return(r) ==
    /\ resolver[r].pc = "done"
    /\ resolver' = [resolver EXCEPT ![r] = IdleResolver]
    /\ UNCHANGED <<summary, versions, editor, cache, now, failedAt>>

-----------------------------------------------------------------------------
Edit(e) ==
    \/ Publish(e) \/ Restore(e)
    \/ ReadSummary(e) \/ Commit(e) \/ CommitUnacknowledged(e) \/ Conflict(e)
    \/ Invalidate(e)

Resolve(r) ==
    Hit(r) \/ Miss(r) \/ ReadActive(r) \/ ReadFails(r) \/ Fill(r) \/ Return(r)

Next ==
    \/ SaveDraft \/ DiscardDraft
    \/ \E e \in Editors : Edit(e)
    \/ \E r \in Resolvers : Resolve(r)
    \/ Tick

Spec == Init /\ [][Next]_vars

-----------------------------------------------------------------------------
(* Properties *)

Time == Int

VersionRecord ==
    [version: Nat, content: Contents, status: {"active", "archived"},
     restoredFrom: Nat, at: Time]

EditorRecord ==
    [pc: {"idle", "read", "commit", "invalidate"}, content: Contents \cup {None},
     source: Nat, seen: Nat]

ResolverRecord ==
    [pc: {"idle", "read", "fill", "done"}, at: Instances \cup {None},
     started: Time, version: Nat, content: Contents \cup {None}]

EntryRecord == [version: Nat, content: Contents \cup {None}, fetchedAt: Time]

TypeOK ==
    /\ summary \in [version: Nat, content: Contents \cup {None},
                    draft: BOOLEAN]
    /\ versions \in Seq(VersionRecord)
    /\ editor \in [Editors -> EditorRecord]
    /\ cache \in [Instances -> EntryRecord]
    /\ resolver \in [Resolvers -> ResolverRecord]
    /\ now \in Nat
    /\ failedAt \in [Instances -> Time]

\* Whoever publishes at the same time as whom: versions are numbered from 1
\* without a gap, the newest alone is active, and the prompt's own document
\* says the same as its newest version.
HistoryConsistent ==
    /\ summary.version = Newest
    /\ \A n \in 1..Newest :
          /\ versions[n].version = n
          /\ versions[n].status = IF n = Newest THEN "active" ELSE "archived"
    /\ Newest > 0 => summary.content = versions[Newest].content

\* Restoring makes a new version with the text of the version it names.
RestoredFaithfully ==
    \A n \in 1..Newest : versions[n].restoredFrom > 0 =>
        /\ versions[n].restoredFrom < n
        /\ versions[n].content = versions[versions[n].restoredFrom].content

\* "Publishing and restoring preserve history" (DATA-PRIVACY.md): a version is
\* never removed or rewritten, and one that was archived stays archived.
HistoryPreserved ==
    [][\A n \in 1..Newest :
          /\ n <= Len(versions')
          /\ versions'[n] = [versions[n] EXCEPT !.status = versions'[n].status]
          /\ versions[n].status = "archived" => versions'[n].status = "archived"]_vars

FailedLately(i, t) == failedAt[i] + TTL > t

\* Some version from n on has an unknown variable.
Unrenderable(n) == \E m \in n..Newest : versions[m].content \notin Renders

\* "published edits propagate within CACHE_TTL_MS worst-case": a request that
\* starts a TTL after a version was published gets that version or a later
\* one.  Two things excuse it: a read failed on its instance within the last
\* TTL, or the answer is the fallback and a version that may have been found
\* has an unknown variable.
BoundedStaleness ==
    \A r \in Resolvers : resolver[r].pc = "done" =>
        \A n \in 1..Newest :
            versions[n].at + TTL <= resolver[r].started =>
                \/ resolver[r].version >= versions[n].version
                \/ FailedLately(resolver[r].at, resolver[r].started)
                \/ resolver[r].version = Fallback /\ Unrenderable(n)
=============================================================================
