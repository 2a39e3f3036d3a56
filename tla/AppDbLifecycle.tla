---------------------------- MODULE AppDbLifecycle ----------------------------
(***************************************************************************)
(* The databases of AI apps: the registry of instances in Postgres, the    *)
(* physical tables under the prefix of each, the dashboard documents in    *)
(* Firestore that they belong to, and the handlers that move an instance   *)
(* from draft to active (saving), to deleting and deleted (deleting the    *)
(* dashboard) and to orphaned (the clean-up of abandoned drafts), while a  *)
(* chat creates tables.                                                    *)
(*                                                                         *)
(* Postgres and Firestore share no transaction: every call is a step.  An  *)
(* instance is named by the id it was provisioned under, which its prefix  *)
(* keeps for good; its key is the dashboard it now belongs to.             *)
(***************************************************************************)
EXTENDS Integers, FiniteSets

CONSTANTS
    Ids,         \* dashboard ids
    Tables,      \* logical table names
    Procs,       \* request handlers
    SavesTwice,  \* may a draft be saved by two requests at once?
    Faults       \* what may go wrong, a subset of AllFaults

AllFaults == {"drop", "call", "crash"}
None == "none"

ASSUME AppDbAssumption ==
    /\ None \notin Ids
    /\ SavesTwice \in BOOLEAN
    /\ Faults \subseteq AllFaults

VARIABLES
    doc,         \* dashboards/{id}: none, saved or deleted
    summary,     \* dashboards/{id}.appDatabase.status
    status,      \* AppDbInstance.status
    key,         \* AppDbInstance.dashboardId
    target,      \* the dashboard that the builder session of a draft saves
    old,         \* is AppDbInstance.updatedAt more than DRAFT_TTL_MS ago?
    registered,  \* AppDbTable rows of an instance
    physical,    \* tables with the prefix of an instance
    cleaned,     \* the instances whose tables a clean-up has dropped, or some of
                 \* them (history: no action reads it)
    h            \* the handlers

vars == <<doc, summary, status, key, target, old, registered, physical, cleaned, h>>

IdleHandler == [pc |-> "idle", d |-> None, i |-> None, todo |-> {}, done |-> {}]

Init ==
    /\ doc = [d \in Ids |-> None]
    /\ summary = [d \in Ids |-> None]
    /\ status = [i \in Ids |-> None]
    /\ key = [i \in Ids |-> None]
    /\ target = [i \in Ids |-> None]
    /\ old = [i \in Ids |-> FALSE]
    /\ registered = [i \in Ids |-> {}]
    /\ physical = [i \in Ids |-> {}]
    /\ cleaned = {}
    /\ h = [p \in Procs |-> IdleHandler]

-----------------------------------------------------------------------------
Goto(p, pc) == h' = [h EXCEPT ![p] = [@ EXCEPT !.pc = pc]]
End(p)      == h' = [h EXCEPT ![p] = IdleHandler]

Begin(p, pc, d, i) ==
    /\ h[p].pc = "idle"
    /\ h' = [h EXCEPT ![p] = [IdleHandler EXCEPT !.pc = pc, !.d = d, !.i = i]]

\* findUnique by dashboardId
At(d, i)  == key[i] = d
Usable(i) == status[i] \in {"draft", "active"}

\* A write of an instance, which Prisma dates.
SetStatus(i, s) ==
    /\ status' = [status EXCEPT ![i] = s]
    /\ old' = [old EXCEPT ![i] = FALSE]

-----------------------------------------------------------------------------
(* Provisioning *)

\* A fresh id, and a draft that is keyed with it, for a new app or for a session
\* that edits a dashboard.
Provision(i) ==
    /\ status[i] = None /\ doc[i] = None
    /\ SetStatus(i, "draft")
    /\ key' = [key EXCEPT ![i] = i]
    /\ \E d \in Ids :
          /\ d = i \/ doc[d] = "saved"
          /\ target' = [target EXCEPT ![i] = d]
    /\ UNCHANGED <<doc, summary, registered, physical, h, cleaned>>

\* The last write of the instance comes to be a day ago, whoever works on it.
Age(i) ==
    /\ status[i] # None /\ ~old[i]
    /\ old' = [old EXCEPT ![i] = TRUE]
    /\ UNCHANGED <<doc, summary, status, key, registered, physical, h, target, cleaned>>

-----------------------------------------------------------------------------
(* Chat: create_dashboard_table *)

\* The chat route checks the instance, once for all calls of the turn.
Chat(p) ==
    /\ \E d, i \in Ids :
          /\ At(d, i) /\ Usable(i)
          /\ Begin(p, "tool", d, None)
    /\ UNCHANGED <<doc, summary, status, key, old, registered, physical, target, cleaned>>

\* Mutant: a table is registered whether or not it was created.
CreateUnchecked(p) ==
    /\ h[p].pc = "tool"
    /\ \E i \in Ids, t \in Tables :
          /\ At(h[p].d, i)
          /\ \E made \in {{}, {t}} : physical' = [physical EXCEPT ![i] = @ \cup made]
          /\ h' = [h EXCEPT ![p] = [@ EXCEPT !.pc = "register", !.i = i, !.todo = {t}]]
    /\ UNCHANGED <<doc, summary, status, key, old, registered, target, cleaned>>

\* handleCreateTable looks up the instance and creates the table with its prefix.
CreateTable(p) ==
    /\ h[p].pc = "tool"
    /\ \E i \in Ids, t \in Tables :
          /\ At(h[p].d, i)
          /\ physical' = [physical EXCEPT ![i] = @ \cup {t}]
          /\ h' = [h EXCEPT ![p] = [@ EXCEPT !.pc = "register", !.i = i, !.todo = {t}]]
    /\ UNCHANGED <<doc, summary, status, key, old, registered, target, cleaned>>

\* registerTable: a row that exists already, or another error, ends the call.
Register(p) ==
    /\ h[p].pc = "register"
    /\ \/ registered' = [registered EXCEPT ![h[p].i] = @ \cup h[p].todo]
       \/ "call" \in Faults /\ UNCHANGED registered
    /\ h' = [h EXCEPT ![p] = [@ EXCEPT !.pc = "tool", !.i = None, !.todo = {}]]
    /\ UNCHANGED <<doc, summary, status, key, old, physical, target, cleaned>>

EndChat(p) ==
    /\ h[p].pc = "tool"
    /\ End(p)
    /\ UNCHANGED <<doc, summary, status, key, old, registered, physical, target, cleaned>>

-----------------------------------------------------------------------------
(* POST /api/ai/save *)

\* A dashboard without a database.
SavePlain(d) ==
    /\ doc[d] = None /\ status[d] = None
    /\ doc' = [doc EXCEPT ![d] = "saved"]
    /\ UNCHANGED <<summary, status, key, old, registered, physical, h, target, cleaned>>

Saving(d) == \E p \in Procs : h[p].pc \in {"write", "activate", "set", "summary"} /\ h[p].d = d

\* Create mode with a draft: the checks that precede the write.  The builder
\* does not offer to save while it saves.
SaveDraft(p) ==
    /\ \E d, i \in Ids :
          /\ At(d, i) /\ Usable(i)
          /\ doc[d] = None /\ target[i] = d
          /\ SavesTwice \/ ~Saving(d)
          /\ Begin(p, "write", d, None)
    /\ UNCHANGED <<doc, summary, status, key, old, registered, physical, target, cleaned>>

WriteDoc(p) ==
    /\ h[p].pc = "write"
    /\ \/ doc' = [doc EXCEPT ![h[p].d] = "saved"] /\ Goto(p, "activate")
       \/ "call" \in Faults /\ UNCHANGED doc /\ End(p)
    /\ UNCHANGED <<summary, status, key, old, registered, physical, target, cleaned>>

\* Edit mode with a draft of this session, which has an id of its own.
Update(p) ==
    /\ \E d, i \in Ids :
          /\ doc[d] = "saved"
          /\ At(i, i) /\ Usable(i)
          /\ target[i] = d /\ d # i
          /\ Begin(p, "rekey", d, i)
    /\ UNCHANGED <<doc, summary, status, key, old, registered, physical, target, cleaned>>

\* Edit mode with the dashboard's own id, which the builder learns from the
\* summary or, if there is none, from the registry (db-context).
UpdateOwn(p) ==
    /\ \E d, i \in Ids :
          /\ doc[d] = "saved" /\ At(d, i)
          /\ summary[d] # None \/ status[i] \notin {"deleted", "orphaned"}
          /\ Begin(p, "activate", d, None)
    /\ UNCHANGED <<doc, summary, status, key, old, registered, physical, target, cleaned>>

\* Mutant: a dashboard that has a database gives it up for the new one.
RekeyReplaces(p) ==
    /\ h[p].pc = "rekey"
    /\ key' = [i \in Ids |-> IF i = h[p].i THEN h[p].d
                              ELSE IF At(h[p].d, i) THEN i ELSE key[i]]
    /\ old' = [old EXCEPT ![h[p].i] = FALSE]
    /\ Goto(p, "activate")
    /\ UNCHANGED <<doc, summary, status, registered, physical, target, cleaned>>

\* rekeyInstance: dashboardId is unique; a draft that another save has moved by
\* now is left alone.
Rekey(p) ==
    /\ h[p].pc = "rekey"
    /\ IF At(h[p].i, h[p].i)
       THEN /\ \A i \in Ids : ~At(h[p].d, i)
            /\ key' = [key EXCEPT ![h[p].i] = h[p].d]
            /\ old' = [old EXCEPT ![h[p].i] = FALSE]
       ELSE UNCHANGED <<key, old>>
    /\ Goto(p, "activate")
    /\ UNCHANGED <<doc, summary, status, registered, physical, target, cleaned>>

\* The error of rekeyInstance ends the save's work on the database.
RekeyFails(p) ==
    /\ h[p].pc = "rekey"
    /\ \/ "call" \in Faults
       \/ At(h[p].i, h[p].i) /\ \E i \in Ids : At(h[p].d, i)
    /\ End(p)
    /\ UNCHANGED <<doc, summary, status, key, old, registered, physical, target, cleaned>>

\* activateInstance reads the instance and then updates it; that it is not
\* usable any more goes unnoticed.
Activate(p) ==
    /\ h[p].pc = "activate"
    /\ \E i \in Ids :
          /\ At(h[p].d, i)
          /\ h' = [h EXCEPT ![p] = [@ EXCEPT !.i = i,
                     !.pc = IF status[i] = "draft" THEN "set" ELSE "summary"]]
    /\ UNCHANGED <<doc, summary, status, key, old, registered, physical, target, cleaned>>

SetActive(p) ==
    /\ h[p].pc = "set"
    /\ SetStatus(h[p].i, "active")
    /\ Goto(p, "summary")
    /\ UNCHANGED <<doc, summary, key, registered, physical, target, cleaned>>

\* The summary of the instance as it now is; no document, no update.
Summarize(p) ==
    /\ h[p].pc = "summary"
    /\ \E i \in Ids :
          /\ At(h[p].d, i)
          /\ summary' = IF doc[h[p].d] = "saved"
                        THEN [summary EXCEPT ![h[p].d] = status[i]] ELSE summary
    /\ End(p)
    /\ UNCHANGED <<doc, status, key, old, registered, physical, target, cleaned>>

\* Errors while activating are logged: the dashboard is saved.
ActivateFails(p) ==
    /\ h[p].pc \in {"activate", "set", "summary"}
    /\ "call" \in Faults
    /\ End(p)
    /\ UNCHANGED <<doc, summary, status, key, old, registered, physical, target, cleaned>>

-----------------------------------------------------------------------------
(* DELETE /api/dashboards/[id] *)

Delete(p) ==
    /\ \E d \in Ids :
          /\ doc[d] = "saved"
          /\ doc' = [doc EXCEPT ![d] = "deleted"]
          /\ Begin(p, "mark", d, None)
    /\ UNCHANGED <<summary, status, key, old, registered, physical, target, cleaned>>

\* getInstance and markForDeletion
Mark(p) ==
    /\ h[p].pc = "mark"
    /\ \E i \in Ids :
          /\ At(h[p].d, i)
          /\ IF status[i] \in {"deleted", "deleting"} THEN UNCHANGED <<status, old>>
             ELSE SetStatus(i, "deleting")
          /\ h' = [h EXCEPT ![p] = [@ EXCEPT !.pc = "drop", !.i = i]]
    /\ UNCHANGED <<doc, summary, key, registered, physical, target, cleaned>>

\* There is none, or the registry does not answer.
NothingToMark(p) ==
    /\ h[p].pc = "mark"
    /\ "call" \in Faults \/ \A i \in Ids : ~At(h[p].d, i)
    /\ End(p)
    /\ UNCHANGED <<doc, summary, status, key, old, registered, physical, target, cleaned>>

Drop(p) ==
    /\ h[p].pc = "drop"
    /\ physical' = [physical EXCEPT ![h[p].i] = {}]
    /\ Goto(p, "finalize")
    /\ UNCHANGED <<doc, summary, status, key, old, registered, target, cleaned>>

\* Some tables may be gone by then; the instance is left in deleting.
DropFails(p) ==
    /\ h[p].pc = "drop"
    /\ "drop" \in Faults
    /\ \E left \in SUBSET physical[h[p].i] : 
          physical' = [physical EXCEPT ![h[p].i] = left]
    /\ End(p)
    /\ UNCHANGED <<doc, summary, status, key, old, registered, target, cleaned>>

Finalize(p) ==
    /\ h[p].pc = "finalize"
    /\ IF status[h[p].i] = "deleting" THEN SetStatus(h[p].i, "deleted")
       ELSE UNCHANGED <<status, old>>
    /\ End(p)
    /\ UNCHANGED <<doc, summary, key, registered, physical, target, cleaned>>

-----------------------------------------------------------------------------
(* POST /api/ai/cleanup-drafts *)

\* Mutant: any instance that has not been written for a day.
StaleAny == {i \in Ids : status[i] # None /\ old[i]}

\* findOrphanedDrafts
Stale == {i \in Ids : status[i] \in {"draft", "deleting"} /\ old[i]}

CleanUp(p) ==
    /\ h[p].pc = "idle"
    /\ Stale # {}
    /\ h' = [h EXCEPT ![p] = [IdleHandler EXCEPT !.pc = "clean", !.todo = Stale]]
    /\ UNCHANGED <<doc, summary, status, key, old, registered, physical, target, cleaned>>

CleanOne(p, i) ==
    /\ h[p].pc = "clean" /\ i \in h[p].todo
    /\ physical' = [physical EXCEPT ![i] = {}]
    /\ cleaned' = cleaned \cup {i}
    /\ h' = [h EXCEPT ![p] = [h[p] EXCEPT !.todo = @ \ {i}, !.done = @ \cup {i}]]
    /\ UNCHANGED <<doc, summary, status, key, old, registered, target>>

CleanOneFails(p, i) ==
    /\ h[p].pc = "clean" /\ i \in h[p].todo
    /\ "drop" \in Faults
    /\ \E left \in SUBSET physical[i] : physical' = [physical EXCEPT ![i] = left]
    /\ cleaned' = cleaned \cup {i}
    /\ h' = [h EXCEPT ![p] = [h[p] EXCEPT !.todo = @ \ {i}]]
    /\ UNCHANGED <<doc, summary, status, key, old, registered, target>>

\* markOrphaned, whatever the instances have become.
MarkOrphaned(p) ==
    /\ h[p].pc = "clean" /\ h[p].todo = {}
    /\ status' = [i \in Ids |-> IF i \in h[p].done THEN "orphaned" ELSE status[i]]
    /\ old' = [i \in Ids |-> IF i \in h[p].done THEN FALSE ELSE old[i]]
    /\ End(p)
    /\ UNCHANGED <<doc, summary, key, registered, physical, target, cleaned>>

-----------------------------------------------------------------------------
Crash(p) ==
    /\ "crash" \in Faults
    /\ h[p].pc # "idle"
    /\ End(p)
    /\ UNCHANGED <<doc, summary, status, key, old, registered, physical, target, cleaned>>

Save(p) ==
    \/ SaveDraft(p) \/ WriteDoc(p) \/ Update(p) \/ UpdateOwn(p)
    \/ Rekey(p) \/ RekeyFails(p)
    \/ Activate(p) \/ SetActive(p) \/ Summarize(p) \/ ActivateFails(p)

Remove(p) ==
    Delete(p) \/ Mark(p) \/ NothingToMark(p) \/ Drop(p) \/ DropFails(p) \/ Finalize(p)

Clean(p) ==
    \/ CleanUp(p) \/ MarkOrphaned(p)
    \/ \E i \in Ids : CleanOne(p, i) \/ CleanOneFails(p, i)

Step(p) ==
    \/ Chat(p) \/ CreateTable(p) \/ Register(p) \/ EndChat(p)
    \/ Save(p) \/ Remove(p) \/ Clean(p) \/ Crash(p)

Next ==
    \/ \E p \in Procs : Step(p)
    \/ \E i \in Ids : Provision(i) \/ Age(i) \/ SavePlain(i)

Spec == Init /\ [][Next]_vars

-----------------------------------------------------------------------------
(* Properties *)

HandlerRecord ==
    [pc: {"idle", "tool", "register", "write", "rekey", "activate", "set", "summary",
          "mark", "drop", "finalize", "clean"},
     d: Ids \cup {None}, i: Ids \cup {None},
     todo: SUBSET (Ids \cup Tables), done: SUBSET Ids]

Statuses == {None, "draft", "active", "deleting", "deleted", "orphaned"}

TypeOK ==
    /\ doc \in [Ids -> {None, "saved", "deleted"}]
    /\ summary \in [Ids -> Statuses]
    /\ status \in [Ids -> Statuses]
    /\ key \in [Ids -> Ids \cup {None}]
    /\ target \in [Ids -> Ids \cup {None}]
    /\ old \in [Ids -> BOOLEAN]
    /\ registered \in [Ids -> SUBSET Tables]
    /\ physical \in [Ids -> SUBSET Tables]
    /\ cleaned \in SUBSET Ids
    /\ h \in [Procs -> HandlerRecord]

InUse(i) == status[i] = "active" /\ key[i] # None /\ doc[key[i]] = "saved"

\* A clean-up under way has found the instance to be an abandoned draft.
Listed(i) == \E p \in Procs : h[p].pc = "clean" /\ i \in h[p].todo \cup h[p].done

\* The database of a saved dashboard, once it is active and no clean-up has it on
\* its list.  A draft is at risk until then: one that is saved while it is listed,
\* or whose activation failed, loses its tables.
Secured(i) == InUse(i) /\ ~Listed(i)

\* The clean-up is for "orphaned draft database instances" (cleanup-drafts): a
\* secured database keeps its tables and stays secured, whatever is saved, moved,
\* cleaned up or deleted at the same time, until its dashboard is deleted.
SecuredDataKept ==
    [][\A i \in Ids : Secured(i) =>
          /\ physical[i] \subseteq physical'[i]
          /\ Secured(i)' \/ doc'[key[i]] = "deleted"]_vars

\* What the registry says a saved dashboard's database holds is there, unless a
\* clean-up dropped it before the database was secured.
RegisteredExist ==
    \A i \in Ids : InUse(i) /\ i \notin cleaned => registered[i] \subseteq physical[i]

\* A dashboard that is said to have a database has one that the data API serves,
\* unless a clean-up dropped it before it was secured.
SummaryTrue ==
    \A d \in Ids : doc[d] = "saved" /\ summary[d] # None =>
        \E i \in Ids :
            /\ At(d, i)
            /\ i \in cleaned \/ (summary[d] = "active" /\ status[i] = "active")
=============================================================================
