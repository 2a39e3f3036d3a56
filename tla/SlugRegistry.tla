----------------------------- MODULE SlugRegistry -----------------------------
(***************************************************************************)
(* Friendly URLs: the slug field of the dashboard documents, the `slugs`   *)
(* collection that is their uniqueness index, and the handlers that keep   *)
(* the two together: upload and AI save, which reserve a slug and then     *)
(* write the document; the rename, which does both in one transaction and  *)
(* then releases the old slug; and the delete, which removes the document  *)
(* and then releases its slug.                                             *)
(*                                                                         *)
(* A transaction is one step, every other Firestore call another.  Of a    *)
(* slug only its identity is modelled: Candidates[n] are the name n itself *)
(* and n with the suffixes that are tried in order, Stamped[n] are n with  *)
(* a time stamp.  A rename that keeps the slug touches neither collection  *)
(* and is left out, and so are the files.                                  *)
(***************************************************************************)
EXTENDS Integers, Sequences

CONSTANTS
    Dashboards,   \* document ids
    Drafts,       \* those preallocated for a builder session, which may retry
    Names,        \* slugs that titles generate or users type
    Slugs,        \* all slugs
    Candidates,   \* a name with the suffixes that are tried
    Stamped,      \* a name with the time stamps of the fallback
    Procs,        \* request handlers
    Overlap,      \* may two handlers of one dashboard overlap?
    Faults        \* what may go wrong, a subset of AllFaults

AllFaults == {"tx", "write", "writeAck", "release", "crash", "clock"}

Absent  == "absent"     \* no document yet
Deleted == "deleted"    \* no document any more
Free    == "free"       \* no reservation
None    == "none"       \* no dashboard, name or slug

ASSUME SlugAssumption ==
    /\ Drafts \subseteq Dashboards
    /\ Candidates \in [Names -> Seq(Slugs)]
    /\ Stamped \in [Names -> SUBSET Slugs]
    /\ Absent \notin Slugs /\ Deleted \notin Slugs
    /\ Free \notin Dashboards /\ None \notin Dashboards
    /\ Overlap \in BOOLEAN
    /\ Faults \subseteq AllFaults

VARIABLES
    reserved,   \* slugs/{slug}.dashboardId
    dash,       \* dashboards/{id}.slug
    used,       \* ids that a request has been given
    h,          \* the handlers
    cut         \* history: a handler died or a call failed after its effect

vars == <<reserved, dash, used, h, cut>>

Exists(d) == dash[d] \in Slugs

IdleHandler == [pc |-> "idle", d |-> None, name |-> None, k |-> 1, slug |-> None]

Init ==
    /\ reserved = [s \in Slugs |-> Free]
    /\ dash = [d \in Dashboards |-> Absent]
    /\ used = {}
    /\ h = [p \in Procs |-> IdleHandler]
    /\ cut = FALSE

-----------------------------------------------------------------------------
Idle(p)  == h[p].pc = "idle"

\* Nobody else serves a request about d, or that is no obstacle.
Alone(d) == Overlap \/ \A q \in Procs : Idle(q) \/ h[q].d # d

Goto(p, pc) == h' = [h EXCEPT ![p] = [@ EXCEPT !.pc = pc]]
End(p)      == h' = [h EXCEPT ![p] = IdleHandler]

-----------------------------------------------------------------------------
(* Upload and AI save *)

\* A new id, or a draft that has no document yet.
Create(p) ==
    /\ Idle(p)
    /\ \E d \in Dashboards, n \in Names :
          /\ Alone(d)
          /\ dash[d] = Absent
          /\ d \in used => d \in Drafts
          /\ h' = [h EXCEPT ![p] =
                      [pc |-> "reserve", d |-> d, name |-> n, k |-> 1, slug |-> None]]
          /\ used' = used \cup {d}
    /\ UNCHANGED <<reserved, dash, cut>>

Available(s, d) == reserved[s] \in {Free, d}

\* Mutant: a slug is offered whoever has reserved it.
OfferedTaken(p) ==
    LET cs == Candidates[h[p].name]
    IN  IF h[p].k <= Len(cs) THEN {cs[h[p].k]} ELSE Stamped[h[p].name]

\* What the next transaction of reserveUniqueSlug can reserve: a candidate that
\* is free or its own; a time stamp, and a random suffix if that is taken, once
\* all candidates are.
Offered(p) ==
    LET cs == Candidates[h[p].name]
    IN  {s \in IF h[p].k <= Len(cs) THEN {cs[h[p].k]} ELSE Stamped[h[p].name] :
            Available(s, h[p].d)}

Reserve(p) ==
    /\ h[p].pc = "reserve"
    /\ \E s \in Offered(p) :
          /\ reserved' = [reserved EXCEPT ![s] = h[p].d]
          /\ h' = [h EXCEPT ![p] = [@ EXCEPT !.pc = "write", !.slug = s]]
    /\ UNCHANGED <<dash, used, cut>>

TryNext(p) ==
    /\ h[p].pc = "reserve"
    /\ h[p].k <= Len(Candidates[h[p].name])
    /\ Offered(p) = {}
    /\ h' = [h EXCEPT ![p] = [@ EXCEPT !.k = h[p].k + 1]]
    /\ UNCHANGED <<reserved, dash, used, cut>>

\* The transaction throws, committed or not; the file is removed again.
ReserveFails(p) ==
    /\ h[p].pc = "reserve"
    /\ "tx" \in Faults
    /\ \/ UNCHANGED <<reserved, cut>>
       \/ \E s \in Offered(p) :
             /\ reserved' = [reserved EXCEPT ![s] = h[p].d]
             /\ cut' = TRUE
    /\ End(p)
    /\ UNCHANGED <<dash, used>>

\* docRef.set
Write(p) ==
    /\ h[p].pc = "write"
    /\ dash' = [dash EXCEPT ![h[p].d] = h[p].slug]
    /\ End(p)
    /\ UNCHANGED <<reserved, used, cut>>

\* It throws: the catch block releases the slug.
WriteFails(p) ==
    /\ h[p].pc = "write"
    /\ \/ "write" \in Faults /\ UNCHANGED <<dash, cut>>
       \/ /\ "writeAck" \in Faults
          /\ dash' = [dash EXCEPT ![h[p].d] = h[p].slug]
          /\ cut' = TRUE
    /\ Goto(p, "release")
    /\ UNCHANGED <<reserved, used>>

-----------------------------------------------------------------------------
(* PATCH with another slug *)

\* The document is read, and its slug with it.
Rename(p) ==
    /\ Idle(p)
    /\ \E d \in Dashboards, n \in Names :
          /\ Exists(d) /\ Alone(d)
          /\ n # dash[d]
          /\ h' = [h EXCEPT ![p] =
                      [pc |-> "rename", d |-> d, name |-> n, k |-> 1, slug |-> dash[d]]]
    /\ UNCHANGED <<reserved, dash, used, cut>>

\* The first candidate that is free or its own; a time stamp, unchecked, if
\* there is none.
FirstAvailable(name, d, s) ==
    LET cs == Candidates[name]
    IN  \/ \E k \in 1..Len(cs) :
              /\ s = cs[k]
              /\ Available(s, d)
              /\ \A j \in 1..(k-1) : ~Available(cs[j], d)
        \/ /\ \A k \in 1..Len(cs) : ~Available(cs[k], d)
           /\ s \in Stamped[name]
           /\ "clock" \in Faults \/ Available(s, d)

Renamed(p) ==
    \E s \in Slugs :
       /\ FirstAvailable(h[p].name, h[p].d, s)
       /\ reserved' = [reserved EXCEPT ![s] = h[p].d]
       /\ dash' = [dash EXCEPT ![h[p].d] = s]

\* Mutant: the old slug is not released.
RenameKeepsOld(p) ==
    /\ h[p].pc = "rename"
    /\ Exists(h[p].d)
    /\ Renamed(p)
    /\ End(p)
    /\ UNCHANGED <<used, cut>>

\* The transaction: reserve, and update the document.
RenameCommits(p) ==
    /\ h[p].pc = "rename"
    /\ Exists(h[p].d)
    /\ Renamed(p)
    /\ IF dash'[h[p].d] = h[p].slug THEN End(p) ELSE Goto(p, "release")
    /\ UNCHANGED <<used, cut>>

\* It throws, committed or not: the old slug is not released.
RenameFails(p) ==
    /\ h[p].pc = "rename"
    /\ \/ /\ "tx" \in Faults \/ ~Exists(h[p].d)
          /\ UNCHANGED <<reserved, dash, cut>>
       \/ "tx" \in Faults /\ Exists(h[p].d) /\ Renamed(p) /\ cut' = TRUE
    /\ End(p)
    /\ UNCHANGED used

-----------------------------------------------------------------------------
(* DELETE *)

Delete(p) ==
    /\ Idle(p)
    /\ \E d \in Dashboards :
          /\ Exists(d) /\ Alone(d)
          /\ h' = [h EXCEPT ![p] = 
                      [pc |-> "delete", d |-> d, name |-> None, k |-> 1, slug |-> dash[d]]]
    /\ UNCHANGED <<reserved, dash, used, cut>>

\* Mutant: the slug is released before the document is gone.
RemoveAfterRelease(p) ==
    /\ h[p].pc = "delete"
    /\ \/ /\ reserved[h[p].slug] = h[p].d
          /\ reserved' = [reserved EXCEPT ![h[p].slug] = Free]
          /\ UNCHANGED <<dash, h>>
       \/ /\ reserved[h[p].slug] # h[p].d
          /\ dash' = [dash EXCEPT ![h[p].d] = Deleted]
          /\ End(p)
          /\ UNCHANGED reserved
    /\ UNCHANGED <<used, cut>>

\* The document goes first.
Remove(p) ==
    /\ h[p].pc = "delete"
    /\ dash' = [dash EXCEPT ![h[p].d] = Deleted]
    /\ Goto(p, "release")
    /\ UNCHANGED <<reserved, used, cut>>

RemoveFails(p) ==
    /\ h[p].pc = "delete"
    /\ "write" \in Faults
    /\ End(p)
    /\ UNCHANGED <<reserved, dash, used, cut>>

-----------------------------------------------------------------------------
\* releaseSlug: whoever holds the reservation by now; errors are swallowed.
ReleaseSlug(p) ==
    /\ h[p].pc = "release"
    /\ \/ reserved' = [reserved EXCEPT ![h[p].slug] = Free] /\ cut' = cut
       \/ "release" \in Faults /\ reserved' = reserved /\ cut' = TRUE
    /\ End(p)
    /\ UNCHANGED <<dash, used>>

Crash(p) ==
    /\ "crash" \in Faults
    /\ ~Idle(p)
    /\ End(p)
    /\ cut' = TRUE
    /\ UNCHANGED <<reserved, dash, used>>

Step(p) ==
    \/ Create(p) \/ Reserve(p) \/ TryNext(p) \/ ReserveFails(p)
    \/ Write(p) \/ WriteFails(p)
    \/ Rename(p) \/ RenameCommits(p) \/ RenameFails(p)
    \/ Delete(p) \/ Remove(p) \/ RemoveFails(p)
    \/ ReleaseSlug(p) \/ Crash(p)

Next == \E p \in Procs : Step(p)

Spec == Init /\ [][Next]_vars

-----------------------------------------------------------------------------
(* Properties *)

HandlerRecord ==
    [pc: {"idle", "reserve", "write", "rename", "delete", "release"},
     d: Dashboards \cup {None}, name: Names \cup {None}, k: Nat \ {0},
     slug: Slugs \cup {None}]

TypeOK ==
    /\ reserved \in [Slugs -> Dashboards \cup {Free}]
    /\ dash \in [Dashboards -> Slugs \cup {Absent, Deleted}]
    /\ used \subseteq Dashboards
    /\ h \in [Procs -> HandlerRecord]
    /\ cut \in BOOLEAN

\* "Uniqueness is enforced via a transactional reservation" (slug.ts): a link
\* leads to one dashboard.
UniqueSlugs ==
    \A d, e \in Dashboards : Exists(d) /\ dash[d] = dash[e] => d = e

\* A dashboard's slug stays reserved for it, so nobody can take it over: it is
\* reserved before the document says so, and released after it says otherwise.
SlugsReserved == \A d \in Dashboards : Exists(d) => reserved[dash[d]] = d

\* As long as no handler died and no call failed after its effect, slugs that
\* no dashboard uses become free again.
NoOrphans ==
    (~cut /\ \A p \in Procs : Idle(p)) =>
        \A s \in Slugs : reserved[s] # Free => dash[reserved[s]] = s
=============================================================================
