------------------------ MODULE AppDbLifecycle_proofs ------------------------
(***************************************************************************)
(* What AppDbLifecycle promises of the databases of saved dashboards holds  *)
(* for any number of dashboards, tables, requests and faults, however late  *)
(* a draft is saved, as long as no draft is saved by two requests at once.  *)
(*                                                                         *)
(* The handlers of one request share nothing but the registry, so the       *)
(* invariant says what each of them may still rely on between two calls,    *)
(* and Keeps what every step leaves to the others.                          *)
(***************************************************************************)
EXTENDS AppDbLifecycle, TLAPS

\* The dashboard of an instance has been deleted, for good.
Gone(i) == key[i] # None /\ doc[key[i]] = "deleted"

\* Nothing is promised of its tables any more: a clean-up has dropped some.
Lost(i) == Gone(i) \/ i \in cleaned

\* An instance belongs to the dashboard it was provisioned for or, until that is
\* saved, to none; a draft for another dashboard has no dashboard of its own.
Keys ==
    \A i \in Ids :
        /\ status[i] = None => key[i] = None /\ registered[i] = {}
        /\ status[i] # None => key[i] \in {i, target[i]} /\ target[i] \in Ids
        /\ key[i] \notin {None, i} => doc[key[i]] # None
        /\ status[i] # None /\ target[i] # i => doc[i] = None

OneKey == \A i, j \in Ids : key[i] = key[j] /\ key[i] # None => i = j

\* Only the databases of deleted dashboards are deleted, and what is registered
\* of one that may be worked on exists.
Tidy ==
    \A i \in Ids :
        /\ status[i] \in {"deleting", "deleted"} => Gone(i)
        /\ Usable(i) => registered[i] \subseteq physical[i] \/ Lost(i)

NoSummaryYet == \A d \in Ids : doc[d] = None => summary[d] = None

WorksOn(r, i) ==
    /\ r.pc \in {"tool", "register", "write", "activate", "set", "rekey"}
    /\ r.i = i \/ (r.pc # "rekey" /\ At(r.d, i))

\* What a handler knows: its arguments,
Knows(r) ==
    /\ r.pc \notin {"idle", "clean"} => r.d \in Ids
    /\ r.pc \in {"register", "rekey", "set", "summary", "drop", "finalize"} =>
          r.i \in Ids /\ status[r.i] # None
    /\ r.pc = "register" => r.todo \subseteq Tables
    /\ r.pc = "clean" =>
          r.todo \subseteq Ids /\ \A i \in r.todo \cup r.done : status[i] # None

\* the document,
KnowsDoc(r) ==
    /\ r.pc = "write" => doc[r.d] = None
    /\ r.pc \in {"rekey", "activate", "set", "summary"} => doc[r.d] # None
    /\ r.pc \in {"mark", "drop", "finalize"} => doc[r.d] = "deleted"

\* whose database it is,
KnowsKey(r) ==
    /\ r.pc = "write" => status[r.d] # None /\ key[r.d] = r.d /\ target[r.d] = r.d
    /\ r.pc = "rekey" => r.d # r.i /\ target[r.i] = r.d
    /\ r.pc \in {"set", "summary", "drop", "finalize"} => key[r.i] = r.d

\* that nobody else takes it away while the dashboard exists,
KnowsLive(r) ==
    /\ \A i \in Ids : WorksOn(r, i) => Usable(i) \/ Lost(i)
    /\ r.pc = "summary" => status[r.i] = "active" \/ Lost(r.i)

\* that the tables it will register exist, and that those it will mark are gone.
KnowsTables(r) ==
    /\ r.pc = "register" => r.todo \subseteq physical[r.i] \/ Lost(r.i)
    /\ r.pc = "clean" => r.done \subseteq cleaned

Ok(r) == Knows(r) /\ KnowsDoc(r) /\ KnowsKey(r) /\ KnowsLive(r) /\ KnowsTables(r)

OneWriter ==
    \A p, q \in Procs :
        h[p].pc = "write" /\ h[q].pc = "write" /\ h[p].d = h[q].d => p = q

Handlers == \A p \in Procs, r \in HandlerRecord : h[p] = r => Ok(r)

Data == Keys /\ OneKey /\ Tidy /\ NoSummaryYet /\ SummaryTrue

IInv == TypeOK /\ Data /\ Handlers /\ OneWriter

-----------------------------------------------------------------------------
(* What a step leaves to the other handlers *)

data == <<doc, summary, status, key, target, old, registered, physical, cleaned>>

KeepsDocs ==
    \A d \in Ids :
        /\ doc[d] # None => doc'[d] # None
        /\ doc[d] = "deleted" => doc'[d] = "deleted"

KeepsKeys ==
    \A i \in Ids :
        /\ status[i] # None =>
              /\ status'[i] # None /\ target'[i] = target[i]
              /\ key[i] # i \/ target[i] = i => key'[i] = key[i]
        /\ key'[i] # key[i] => Usable(i)' \/ Lost(i)'

KeepsLife ==
    \A i \in Ids :
        /\ Lost(i) => Lost(i)'
        /\ i \in cleaned => i \in cleaned'
        /\ Usable(i) => Usable(i)' \/ Lost(i)'
        /\ status[i] = "active" => status'[i] = "active" \/ Lost(i)'
        /\ physical[i] \subseteq physical'[i] \/ Lost(i)'

Keeps == KeepsDocs /\ KeepsKeys /\ KeepsLife

\* The handlers other than p that are about to write still may.
KeepsWriters(p) ==
    \A q \in Procs \ {p} : h[q].pc = "write" =>
        doc'[h[q].d] = None /\ ~(h'[p].pc = "write" /\ h'[p].d = h[q].d)

\* A handler keeps what it knows while others take steps that keep it.
LEMMA Others ==
    ASSUME TypeOK, Keys, Keeps,
           NEW q \in Procs, NEW r \in HandlerRecord, h[q] = r, Ok(r),
           r.pc = "write" => doc'[r.d] = None
    PROVE  Ok(r)'
<1>1. Knows(r)'
  BY DEF Keeps, KeepsKeys, Ok, Knows, HandlerRecord, TypeOK
<1>2. KnowsDoc(r)'
  BY DEF Keeps, KeepsDocs, Ok, Knows, KnowsDoc, HandlerRecord, TypeOK
<1>3. KnowsKey(r)'
  <2>1. ASSUME r.pc = "write" PROVE status'[r.d] # None /\ key'[r.d] = r.d /\ target'[r.d] = r.d
    BY <2>1 DEF Keeps, KeepsKeys, Ok, Knows, KnowsKey
  <2>2. ASSUME r.pc = "rekey" PROVE r.d # r.i /\ target'[r.i] = r.d
    BY <2>2 DEF Keeps, KeepsKeys, Ok, Knows, KnowsKey
  <2>3. ASSUME r.pc \in {"set", "summary", "drop", "finalize"} PROVE key'[r.i] = r.d
    <3>1. r.i \in Ids /\ status[r.i] # None /\ key[r.i] = r.d
      BY <2>3 DEF Ok, Knows, KnowsKey
    <3>2. doc[r.d] # None
      BY <2>3 DEF Ok, KnowsDoc, None
    <3>3. key[r.i] # r.i \/ target[r.i] = r.i
      BY <3>1, <3>2 DEF Keys
    <3> QED BY <3>1, <3>3 DEF Keeps, KeepsKeys
  <2> QED BY <2>1, <2>2, <2>3 DEF KnowsKey
<1>4. KnowsLive(r)'
  <2>1. ASSUME NEW i \in Ids, WorksOn(r, i)' PROVE Usable(i)' \/ Lost(i)'
    <3>1. CASE key'[i] # key[i] BY <3>1 DEF Keeps, KeepsKeys
    <3>2. CASE key'[i] = key[i]
      <4>1. WorksOn(r, i)
        BY <3>2, <2>1 DEF WorksOn, At
      <4>2. Usable(i) \/ Lost(i)
        BY <4>1 DEF Ok, KnowsLive
      <4> QED BY <4>2 DEF Keeps, KeepsLife
    <3> QED BY <3>1, <3>2
  <2>2. r.pc = "summary" => status'[r.i] = "active" \/ Lost(r.i)'
    BY DEF Keeps, KeepsLife, Ok, Knows, KnowsLive
  <2> QED BY <2>1, <2>2 DEF KnowsLive
<1>5. KnowsTables(r)'
  <2>1. ASSUME r.pc = "register" PROVE r.todo \subseteq physical'[r.i] \/ Lost(r.i)'
    BY <2>1 DEF Keeps, KeepsLife, Ok, Knows, KnowsTables
  <2>2. ASSUME r.pc = "clean" PROVE r.done \subseteq cleaned'
    BY <2>2 DEF Keeps, KeepsLife, Ok, Knows, KnowsTables, HandlerRecord
  <2> QED BY <2>1, <2>2 DEF KnowsTables
<1> QED BY <1>1, <1>2, <1>3, <1>4, <1>5 DEF Ok

\* A step of one handler preserves the invariant if it preserves that of the
\* data, keeps what the others know, and leaves the handler itself right.
LEMMA Compose ==
    ASSUME IInv, TypeOK', Data', Keeps, NEW p \in Procs,
           \A q \in Procs \ {p} : h'[q] = h[q],
           KeepsWriters(p),
           \A r \in HandlerRecord : h'[p] = r => Ok(r)'
    PROVE  IInv'
<1>1. ASSUME NEW q \in Procs, NEW r \in HandlerRecord, h'[q] = r PROVE Ok(r)'
  <2>1. CASE q = p BY <2>1, <1>1
  <2>2. CASE q # p
    <3>1. h[q] = r BY <1>1, <2>2
    <3>2. Ok(r) BY <3>1 DEF IInv, Handlers
    <3>3. r.pc = "write" => doc'[r.d] = None BY <3>1, <2>2 DEF KeepsWriters
    <3> QED BY <3>1, <3>2, <3>3, Others DEF IInv, Data
  <2> QED BY <2>1, <2>2
<1>2. OneWriter'
  BY DEF IInv, OneWriter, KeepsWriters
<1> QED BY <1>1, <1>2 DEF IInv, Handlers

\* The same for a step of none of them.
LEMMA ComposeNone ==
    ASSUME IInv, TypeOK', Data', Keeps, h' = h,
           \A q \in Procs : h[q].pc = "write" => doc'[h[q].d] = None
    PROVE  IInv'
<1>1. ASSUME NEW q \in Procs, NEW r \in HandlerRecord, h'[q] = r PROVE Ok(r)'
  <2>1. h[q] = r /\ Ok(r) BY <1>1 DEF IInv, Handlers
  <2> QED BY <2>1, Others DEF IInv, Data
<1>2. OneWriter'
  BY DEF IInv, OneWriter
<1> QED BY <1>1, <1>2 DEF IInv, Handlers

\* The same for a step that changes nothing else than a handler.
LEMMA Calm ==
    ASSUME IInv, UNCHANGED data, NEW p \in Procs, NEW r \in HandlerRecord,
           h' = [h EXCEPT ![p] = r], Ok(r),
           r.pc = "write" =>
              \A q \in Procs \ {p} : ~(h[q].pc = "write" /\ h[q].d = r.d)
    PROVE  IInv'
<1>1. TypeOK' BY DEF IInv, TypeOK, data
<1>2. Data'
  BY DEF IInv, Data, Keys, OneKey, Tidy, NoSummaryYet, SummaryTrue, Usable, Gone, Lost, At, data
<1>3. Keeps
  BY DEF Keeps, KeepsDocs, KeepsKeys, KeepsLife, Usable, Gone, Lost, data
<1>4. h'[p] = r /\ \A q \in Procs \ {p} : h'[q] = h[q]
  BY DEF IInv, TypeOK
<1>5. KeepsWriters(p)
  <2>1. ASSUME NEW q \in Procs \ {p}, h[q].pc = "write" PROVE doc[h[q].d] = None
    BY <2>1 DEF IInv, Handlers, TypeOK, Ok, KnowsDoc
  <2> QED BY <2>1, <1>4 DEF KeepsWriters, data
<1>6. Ok(r)'
  BY DEF Ok, Knows, KnowsDoc, KnowsKey, KnowsLive, KnowsTables, WorksOn, Usable, Gone, Lost,
         At, data
<1> QED BY <1>1, <1>2, <1>3, <1>4, <1>5, <1>6, Compose

-----------------------------------------------------------------------------
(* Steps that change nothing else than a handler *)

\* A handler is a record that knows what it needs.
LEMMA Handler ==
    ASSUME IInv, NEW p \in Procs
    PROVE  h[p] \in HandlerRecord /\ \E s \in HandlerRecord : s = h[p] /\ Ok(s)
  BY DEF IInv, TypeOK, Handlers

\* An idle handler knows nothing.
LEMMA Idle == IdleHandler \in HandlerRecord /\ IdleHandler.pc = "idle" /\ Ok(IdleHandler)
<1>1. IdleHandler \in HandlerRecord /\ IdleHandler.pc = "idle"
  BY DEF IdleHandler, HandlerRecord
<1> QED
  BY <1>1 DEF Ok, Knows, KnowsDoc, KnowsKey, KnowsLive, KnowsTables, WorksOn

\* A request that ends preserves the invariant.
LEMMA EndOk ==
    ASSUME IInv, NEW p \in Procs, End(p), UNCHANGED data
    PROVE  IInv'
  BY Idle, Calm DEF End

\* The record that a request begins with.
LEMMA Begins ==
    ASSUME NEW p \in Procs, NEW d \in Ids, NEW i \in Ids \cup {None},
           NEW pc \in {"tool", "write", "rekey", "activate", "mark"}, Begin(p, pc, d, i)
    PROVE  \E r \in HandlerRecord :
              /\ h' = [h EXCEPT ![p] = r]
              /\ r.pc = pc /\ r.d = d /\ r.i = i
<1> DEFINE r == [IdleHandler EXCEPT !.pc = pc, !.d = d, !.i = i]
<1>1. r \in HandlerRecord /\ r.pc = pc /\ r.d = d /\ r.i = i
  BY DEF HandlerRecord, IdleHandler
<1> QED BY <1>1 DEF Begin

\* A chat begins on an instance that may be worked on, and only on that one.
LEMMA ChatOk ==
    ASSUME IInv, ~SavesTwice, NEW p \in Procs, Chat(p)
    PROVE  IInv'
<1>1. PICK d \in Ids, i \in Ids :
        At(d, i) /\ Usable(i) /\ Begin(p, "tool", d, None)
  BY DEF Chat
<1>2. PICK r \in HandlerRecord :
        /\ h' = [h EXCEPT ![p] = r]
        /\ r.pc = "tool" /\ r.d = d /\ r.i = None
  BY <1>1, Begins
<1>3. \A j \in Ids : WorksOn(r, j) => j = i
  BY <1>2, <1>1, AppDbAssumption DEF WorksOn, IInv, Data, OneKey, At
<1>4. Usable(i)
  BY <1>1 DEF Usable
<1>5. Ok(r)
  BY <1>2, <1>3, <1>4 DEF Ok, Knows, KnowsDoc, KnowsKey, KnowsLive, KnowsTables
<1>6. UNCHANGED data /\ r.pc # "write"
  BY <1>2 DEF Chat, data
<1> QED BY <1>2, <1>5, <1>6, Calm

\* A save begins with a draft that is nobody else's to save.
LEMMA SaveDraftOk ==
    ASSUME IInv, ~SavesTwice, NEW p \in Procs, SaveDraft(p)
    PROVE  IInv'
<1>1. PICK d \in Ids, i \in Ids :
        /\ At(d, i) /\ Usable(i)
        /\ doc[d] = None /\ target[i] = d
        /\ ~Saving(d) /\ Begin(p, "write", d, None)
  BY DEF SaveDraft
<1>2. PICK r \in HandlerRecord :
        /\ h' = [h EXCEPT ![p] = r]
        /\ r.pc = "write" /\ r.d = d /\ r.i = None
  BY <1>1, Begins
<1>3. \A j \in Ids : WorksOn(r, j) => j = i
  BY <1>2, <1>1, AppDbAssumption DEF WorksOn, IInv, Data, OneKey, At
<1>4. Usable(i) /\ status[i] # None
  BY <1>1 DEF Usable, None
<1>5. i = d
  BY <1>1, AppDbAssumption DEF At, IInv, Data, Keys
<1>6. Ok(r)
  BY <1>2, <1>1, <1>3, <1>4, <1>5 DEF Ok, Knows, KnowsDoc, KnowsKey, KnowsLive, KnowsTables, At
<1>7. \A q \in Procs : ~(h[q].pc = "write" /\ h[q].d = d)
  BY <1>1 DEF Saving
<1>8. UNCHANGED data
  BY DEF SaveDraft, data
<1> QED BY <1>2, <1>6, <1>7, <1>8, Calm

\* An edit session's draft may be moved: it has no dashboard of its own.
LEMMA UpdateOk ==
    ASSUME IInv, ~SavesTwice, NEW p \in Procs, Update(p)
    PROVE  IInv'
<1>1. PICK d \in Ids, i \in Ids :
        /\ doc[d] = "saved" /\ At(i, i) /\ Usable(i)
        /\ target[i] = d /\ d # i /\ Begin(p, "rekey", d, i)
  BY DEF Update
<1>2. PICK r \in HandlerRecord :
        /\ h' = [h EXCEPT ![p] = r]
        /\ r.pc = "rekey" /\ r.d = d /\ r.i = i
  BY <1>1, Begins
<1>3. Usable(i) /\ status[i] # None
  BY <1>1 DEF Usable, None
<1>4. Ok(r)
  BY <1>2, <1>1, <1>3 DEF Ok, Knows, KnowsDoc, KnowsKey, KnowsLive, KnowsTables, WorksOn, None
<1>5. UNCHANGED data /\ r.pc # "write"
  BY <1>2 DEF Update, data
<1> QED BY <1>2, <1>4, <1>5, Calm

\* A document that names a database is believed; one that does not is looked up.
LEMMA UpdateOwnOk ==
    ASSUME IInv, ~SavesTwice, NEW p \in Procs, UpdateOwn(p)
    PROVE  IInv'
<1>1. PICK d \in Ids, i \in Ids :
        /\ doc[d] = "saved" /\ At(d, i)
        /\ summary[d] # None \/ status[i] \notin {"deleted", "orphaned"}
        /\ Begin(p, "activate", d, None)
  BY DEF UpdateOwn
<1>2. PICK r \in HandlerRecord :
        /\ h' = [h EXCEPT ![p] = r]
        /\ r.pc = "activate" /\ r.d = d /\ r.i = None
  BY <1>1, Begins
<1>3. \A j \in Ids : WorksOn(r, j) => j = i
  BY <1>2, <1>1, AppDbAssumption DEF WorksOn, IInv, Data, OneKey, At
<1>4. Usable(i) \/ Lost(i)
  <2>1. CASE summary[d] # None
    <3>1. PICK j \in Ids : At(d, j) /\ (status[j] = "active" \/ j \in cleaned)
      BY <2>1, <1>1 DEF IInv, Data, SummaryTrue
    <3>2. j = i
      BY <3>1, <1>1, AppDbAssumption DEF IInv, Data, OneKey, At
    <3> QED BY <3>1, <3>2 DEF Usable, Lost
  <2>2. CASE status[i] \notin {"deleted", "orphaned"}
    <3>1. ~Gone(i)
      BY <1>1 DEF Gone, At
    <3>2. status[i] # None
      BY <1>1, AppDbAssumption DEF IInv, Data, Keys, At
    <3>3. status[i] \in {"draft", "active"}
      BY <2>2, <3>1, <3>2 DEF IInv, Data, Tidy, TypeOK, Statuses
    <3> QED BY <3>3, <1>1 DEF Usable
  <2> QED BY <1>1, <2>1, <2>2
<1>5. Ok(r)
  BY <1>2, <1>1, <1>3, <1>4 DEF Ok, Knows, KnowsDoc, KnowsKey, KnowsLive, KnowsTables, None
<1>6. UNCHANGED data /\ r.pc # "write"
  BY <1>2 DEF UpdateOwn, data
<1> QED BY <1>2, <1>5, <1>6, Calm

\* What the read of activateInstance shows it is not taken back while the
\* dashboard exists.
LEMMA ActivateOk ==
    ASSUME IInv, NEW p \in Procs, Activate(p)
    PROVE  IInv'
<1>1. PICK s \in HandlerRecord : s = h[p] /\ Ok(s)
  BY Handler
<1>2. PICK i \in Ids :
        /\ At(s.d, i)
        /\ h' = [h EXCEPT ![p] = [s EXCEPT !.i = i,
                   !.pc = IF status[i] = "draft" THEN "set" ELSE "summary"]]
  BY <1>1 DEF Activate
<1>3. s.pc = "activate" /\ UNCHANGED data
  BY <1>1 DEF Activate, data
<1>4. PICK r \in HandlerRecord :
        /\ r = [s EXCEPT !.i = i, !.pc = IF status[i] = "draft" THEN "set" ELSE "summary"]
        /\ r.pc = IF status[i] = "draft" THEN "set" ELSE "summary"
        /\ r.d = s.d /\ r.i = i
  <2>1. PICK pc \in {"set", "summary"} : pc = IF status[i] = "draft" THEN "set" ELSE "summary"
    OBVIOUS
  <2>2. [s EXCEPT !.i = i, !.pc = pc] \in HandlerRecord
    BY DEF HandlerRecord
  <2>3. [s EXCEPT !.i = i, !.pc = pc].pc = pc /\ [s EXCEPT !.i = i, !.pc = pc].d = s.d
         /\ [s EXCEPT !.i = i, !.pc = pc].i = i
    BY DEF HandlerRecord
  <2> QED BY <2>1, <2>2, <2>3
<1>5. \A j \in Ids : WorksOn(r, j) => WorksOn(s, j) /\ j = i
  BY <1>2, <1>3, <1>4, AppDbAssumption, <1>1
     DEF WorksOn, IInv, Data, OneKey, At, Ok, Knows
<1>6. Knows(r)
  BY <1>1, <1>2, <1>3, <1>4, AppDbAssumption DEF Ok, Knows, IInv, Data, Keys, At
<1>7. KnowsDoc(r) /\ KnowsKey(r) /\ KnowsTables(r)
  BY <1>1, <1>2, <1>3, <1>4 DEF Ok, KnowsDoc, KnowsKey, KnowsTables, At
<1>8. KnowsLive(r)
  <2>1. WorksOn(s, i) BY <1>2, <1>3 DEF WorksOn
  <2>2. Usable(i) \/ Lost(i) BY <2>1, <1>1 DEF Ok, KnowsLive
  <2> QED BY <2>2, <1>4, <1>5 DEF KnowsLive, Usable
<1>9. Ok(r) /\ r.pc # "write"
  BY <1>6, <1>7, <1>8, <1>4 DEF Ok
<1> QED BY <1>9, <1>2, <1>3, <1>4, Calm

\* The clean-up has dropped nothing when it has its list.
LEMMA CleanUpOk ==
    ASSUME IInv, NEW p \in Procs, CleanUp(p)
    PROVE  IInv'
<1>1. PICK t \in SUBSET Ids : t = Stale /\ \A i \in t : status[i] # None
  <2>1. Stale \in SUBSET Ids /\ \A i \in Stale : status[i] # None
    BY DEF Stale, None
  <2> QED BY <2>1
<1>2. PICK r \in HandlerRecord :
        /\ h' = [h EXCEPT ![p] = r]
        /\ r.pc = "clean" /\ r.todo = t /\ r.done = {}
  <2> DEFINE r == [IdleHandler EXCEPT !.pc = "clean", !.todo = t]
  <2>1. r \in HandlerRecord /\ r.pc = "clean" /\ r.todo = t /\ r.done = {}
    BY DEF HandlerRecord, IdleHandler
  <2> QED BY <1>1, <2>1 DEF CleanUp
<1>3. Ok(r)
  BY <1>2, <1>1 DEF Ok, Knows, KnowsDoc, KnowsKey, KnowsLive, KnowsTables, WorksOn
<1>4. UNCHANGED data /\ r.pc # "write"
  BY <1>2 DEF CleanUp, data
<1> QED BY <1>2, <1>3, <1>4, Calm

-----------------------------------------------------------------------------
(* Steps that change what the handlers share *)

\* A step of a handler that writes no document.
LEMMA Move ==
    ASSUME IInv, TypeOK', Data', Keeps, doc' = doc,
           NEW p \in Procs, NEW r \in HandlerRecord,
           h' = [h EXCEPT ![p] = r], r.pc # "write", Ok(r)'
    PROVE  IInv'
<1>1. h'[p] = r /\ \A q \in Procs \ {p} : h'[q] = h[q]
  BY DEF IInv, TypeOK
<1>2. KeepsWriters(p)
  <2>1. ASSUME NEW q \in Procs \ {p}, h[q].pc = "write" PROVE doc[h[q].d] = None
    BY <2>1 DEF IInv, Handlers, TypeOK, Ok, KnowsDoc
  <2> QED BY <2>1, <1>1 DEF KeepsWriters
<1> QED BY <1>1, <1>2, Compose

\* A table is created: nothing is taken away.
LEMMA CreateTableOk ==
    ASSUME IInv, NEW p \in Procs, CreateTable(p)
    PROVE  IInv'
<1>1. PICK s \in HandlerRecord : s = h[p] /\ Ok(s)
  BY Handler
<1>2. PICK i \in Ids, t \in Tables :
        /\ At(s.d, i)
        /\ physical' = [physical EXCEPT ![i] = @ \cup {t}]
        /\ h' = [h EXCEPT ![p] = [s EXCEPT !.pc = "register", !.i = i, !.todo = {t}]]
  BY <1>1 DEF CreateTable
<1>3. /\ s.pc = "tool" /\ s.d \in Ids
      /\ UNCHANGED <<doc, summary, status, key, old, registered, target, cleaned>>
  BY <1>1 DEF CreateTable, Ok, Knows
<1>4. PICK r \in HandlerRecord :
        /\ h' = [h EXCEPT ![p] = r]
        /\ r.pc = "register" /\ r.d = s.d /\ r.i = i /\ r.todo = {t}
  <2> DEFINE r == [s EXCEPT !.pc = "register", !.i = i, !.todo = {t}]
  <2>1. r \in HandlerRecord /\ r.pc = "register" /\ r.d = s.d /\ r.i = i /\ r.todo = {t}
    BY DEF HandlerRecord
  <2> QED BY <1>2, <2>1
<1>5. physical \in [Ids -> SUBSET Tables] /\ physical' \in [Ids -> SUBSET Tables]
      /\ \A j \in Ids : physical[j] \subseteq physical'[j]
      /\ t \in physical'[i]
  BY <1>2 DEF IInv, TypeOK
<1>6. TypeOK'
  BY <1>3, <1>4, <1>5 DEF IInv, TypeOK
<1>7. Data'
  BY <1>3, <1>5
     DEF IInv, Data, Keys, OneKey, Tidy, NoSummaryYet, SummaryTrue, Usable, Gone, Lost, At
<1>8. Keeps
  BY <1>3, <1>5 DEF Keeps, KeepsDocs, KeepsKeys, KeepsLife, Usable, Gone, Lost
<1>9. Ok(r)'
  <2>1. \A j \in Ids : WorksOn(r, j)' => WorksOn(s, j)
    BY <1>2, <1>3, <1>4 DEF WorksOn, At
  <2>2. KnowsLive(r)'
    BY <2>1, <1>1, <1>3, <1>4 DEF Ok, KnowsLive, Usable, Gone, Lost
  <2>3. status[i] # None
    BY <1>2, <1>3, AppDbAssumption DEF IInv, Data, Keys, At
  <2> QED BY <2>2, <2>3, <1>3, <1>4, <1>5 DEF Ok, Knows, KnowsDoc, KnowsKey, KnowsTables
<1> QED BY <1>3, <1>4, <1>6, <1>7, <1>8, <1>9, Move

\* A table that is registered exists, or its dashboard is gone.
LEMMA RegisterOk ==
    ASSUME IInv, NEW p \in Procs, Register(p)
    PROVE  IInv'
<1>1. PICK s \in HandlerRecord : s = h[p] /\ Ok(s)
  BY Handler
<1>2. /\ s.pc = "register" /\ s.d \in Ids /\ s.i \in Ids /\ status[s.i] # None
      /\ s.todo \subseteq Tables
      /\ UNCHANGED <<doc, summary, status, key, old, physical, target, cleaned>>
  BY <1>1 DEF Register, Ok, Knows
<1>3. PICK r \in HandlerRecord :
        /\ h' = [h EXCEPT ![p] = r]
        /\ r.pc = "tool" /\ r.d = s.d /\ r.i = None
  <2> DEFINE r == [s EXCEPT !.pc = "tool", !.i = None, !.todo = {}]
  <2>1. r \in HandlerRecord /\ r.pc = "tool" /\ r.d = s.d /\ r.i = None
    BY DEF HandlerRecord
  <2> QED BY <1>1, <2>1 DEF Register
<1>4. /\ registered' \in [Ids -> SUBSET Tables]
      /\ \A j \in Ids : registered'[j] \in {registered[j], registered[j] \cup s.todo}
      /\ \A j \in Ids \ {s.i} : registered'[j] = registered[j]
  BY <1>1, <1>2 DEF Register, IInv, TypeOK
<1>5. TypeOK'
  BY <1>2, <1>3, <1>4 DEF IInv, TypeOK
<1>6. s.todo \subseteq physical[s.i] \/ Lost(s.i)
  BY <1>1, <1>2 DEF Ok, KnowsTables
<1>7. Data'
  <2>1. Tidy'
    <3>1. ASSUME NEW j \in Ids, Usable(j), ~Lost(j) PROVE registered'[j] \subseteq physical[j]
      BY <3>1, <1>4, <1>6 DEF IInv, Data, Tidy
    <3> QED BY <3>1, <1>2 DEF IInv, Data, Tidy, Usable, Gone, Lost
  <2>2. Keys'
    BY <1>2, <1>4 DEF IInv, Data, Keys
  <2> QED BY <2>1, <2>2, <1>2 DEF IInv, Data, OneKey, NoSummaryYet, SummaryTrue, At
<1>8. Keeps
  BY <1>2 DEF Keeps, KeepsDocs, KeepsKeys, KeepsLife, Usable, Gone, Lost
<1>9. Ok(r)'
  <2>1. \A j \in Ids : WorksOn(r, j)' => WorksOn(s, j)
    BY <1>2, <1>3, AppDbAssumption DEF WorksOn, At
  <2>2. KnowsLive(r)'
    BY <2>1, <1>1, <1>2, <1>3 DEF Ok, KnowsLive, Usable, Gone, Lost
  <2> QED BY <2>2, <1>2, <1>3 DEF Ok, Knows, KnowsDoc, KnowsKey, KnowsTables
<1> QED BY <1>2, <1>3, <1>5, <1>7, <1>8, <1>9, Move

\* A dashboard without a database takes no draft's id.
LEMMA SavePlainOk ==
    ASSUME IInv, NEW d \in Ids, SavePlain(d)
    PROVE  IInv'
<1>1. /\ doc[d] = None /\ status[d] = None
      /\ doc' = [doc EXCEPT ![d] = "saved"]
      /\ UNCHANGED <<summary, status, key, old, registered, physical, h, target, cleaned>>
  BY DEF SavePlain
<1>2. /\ doc' \in [Ids -> {None, "saved", "deleted"}]
      /\ doc'[d] = "saved" /\ \A e \in Ids \ {d} : doc'[e] = doc[e]
  BY <1>1 DEF IInv, TypeOK
<1>3. TypeOK'
  BY <1>1, <1>2 DEF IInv, TypeOK
<1>4. \A i \in Ids : Gone(i)' <=> Gone(i)
  <2>1. ASSUME NEW i \in Ids, key[i] # None PROVE key[i] \in Ids
    BY <2>1 DEF IInv, TypeOK
  <2> QED BY <2>1, <1>1, <1>2 DEF Gone, None
<1>5. Data'
  <2>1. Keys'
    <3>1. \A i \in Ids : key[i] # None => key[i] \in Ids
      BY DEF IInv, TypeOK
    <3> QED BY <3>1, <1>1, <1>2 DEF IInv, Data, Keys, None
  <2>2. Tidy' /\ OneKey'
    BY <1>1, <1>4 DEF IInv, Data, Tidy, OneKey, Usable, Lost
  <2>3. NoSummaryYet'
    BY <1>1, <1>2 DEF IInv, Data, NoSummaryYet, None
  <2>4. SummaryTrue'
    <3>1. summary[d] = None
      BY <1>1 DEF IInv, Data, NoSummaryYet
    <3> QED BY <3>1, <1>1, <1>2 DEF IInv, Data, SummaryTrue, At
  <2> QED BY <2>1, <2>2, <2>3, <2>4 DEF Data
<1>6. Keeps
  <2>1. KeepsDocs
    BY <1>1, <1>2 DEF KeepsDocs, None
  <2>2. KeepsKeys /\ KeepsLife
    BY <1>1, <1>4 DEF KeepsKeys, KeepsLife, Usable, Lost
  <2> QED BY <2>1, <2>2 DEF Keeps
<1>7. ASSUME NEW q \in Procs, h[q].pc = "write" PROVE doc'[h[q].d] = None
  <2>1. h[q].d \in Ids /\ status[h[q].d] # None /\ doc[h[q].d] = None
    BY <1>7 DEF IInv, TypeOK, Handlers, Ok, Knows, KnowsDoc, KnowsKey
  <2> QED BY <2>1, <1>1, <1>2
<1> QED BY <1>1, <1>3, <1>5, <1>6, <1>7, ComposeNone

\* A draft is saved by one handler, under its own id.
LEMMA WriteDocOk ==
    ASSUME IInv, NEW p \in Procs, WriteDoc(p)
    PROVE  IInv'
<1>1. PICK s \in HandlerRecord : s = h[p] /\ Ok(s)
  BY Handler
<1>2. /\ s.pc = "write" /\ s.d \in Ids /\ doc[s.d] = None
      /\ status[s.d] # None /\ key[s.d] = s.d /\ target[s.d] = s.d
      /\ UNCHANGED <<summary, status, key, old, registered, physical, target, cleaned>>
  BY <1>1 DEF WriteDoc, Ok, Knows, KnowsDoc, KnowsKey
<1>3. CASE UNCHANGED doc /\ End(p)
  BY <1>2, <1>3, EndOk DEF data
<1>4. CASE doc' = [doc EXCEPT ![h[p].d] = "saved"] /\ Goto(p, "activate")
  <2>1. PICK r \in HandlerRecord :
          h' = [h EXCEPT ![p] = r] /\ r.pc = "activate" /\ r.d = s.d /\ r.i = s.i
    <3> DEFINE r == [s EXCEPT !.pc = "activate"]
    <3>1. r \in HandlerRecord /\ r.pc = "activate" /\ r.d = s.d /\ r.i = s.i
      BY DEF HandlerRecord
    <3> QED BY <1>1, <1>4, <3>1 DEF Goto
  <2>2. /\ doc' \in [Ids -> {None, "saved", "deleted"}]
        /\ doc'[s.d] = "saved" /\ \A e \in Ids \ {s.d} : doc'[e] = doc[e]
    BY <1>1, <1>2, <1>4 DEF IInv, TypeOK
  <2>3. TypeOK'
    BY <1>2, <2>1, <2>2 DEF IInv, TypeOK
  <2>4. \A i \in Ids : key[i] # None => key[i] \in Ids
    BY DEF IInv, TypeOK
  <2>5. \A i \in Ids : Gone(i)' <=> Gone(i)
    BY <2>4, <1>2, <2>2 DEF Gone, None
  <2>6. Data'
    <3>1. Keys'
      BY <2>4, <1>2, <2>2 DEF IInv, Data, Keys, None
    <3>2. Tidy' /\ OneKey'
      BY <1>2, <2>5 DEF IInv, Data, Tidy, OneKey, Usable, Lost
    <3>3. NoSummaryYet'
      BY <1>2, <2>2 DEF IInv, Data, NoSummaryYet, None
    <3>4. SummaryTrue'
      <4>1. summary[s.d] = None
        BY <1>2 DEF IInv, Data, NoSummaryYet
      <4> QED BY <4>1, <1>2, <2>2 DEF IInv, Data, SummaryTrue, At
    <3> QED BY <3>1, <3>2, <3>3, <3>4 DEF Data
  <2>7. Keeps
    <3>1. KeepsDocs
      BY <1>2, <2>2 DEF KeepsDocs, None
    <3>2. KeepsKeys /\ KeepsLife
      BY <1>2, <2>5 DEF KeepsKeys, KeepsLife, Usable, Lost
    <3> QED BY <3>1, <3>2 DEF Keeps
  <2>8. h'[p] = r /\ \A q \in Procs \ {p} : h'[q] = h[q]
    BY <2>1 DEF IInv, TypeOK
  <2>9. KeepsWriters(p)
    <3>1. ASSUME NEW q \in Procs \ {p}, h[q].pc = "write"
          PROVE  doc[h[q].d] = None /\ h[q].d \in Ids /\ h[q].d # s.d
      <4>1. doc[h[q].d] = None /\ h[q].d \in Ids
        BY <3>1 DEF IInv, TypeOK, Handlers, Ok, Knows, KnowsDoc
      <4>2. h[q].d # s.d
        BY <3>1, <1>1, <1>2 DEF IInv, OneWriter
      <4> QED BY <4>1, <4>2
    <3> QED BY <3>1, <2>1, <2>2, <2>8 DEF KeepsWriters
  <2>10. Ok(r)'
    <3>1. \A j \in Ids : WorksOn(r, j)' => WorksOn(s, j)
      BY <1>2, <2>1 DEF WorksOn, At
    <3>2. KnowsLive(r)'
      BY <3>1, <1>1, <1>2, <2>1, <2>5 DEF Ok, KnowsLive, Usable, Lost
    <3> QED BY <3>2, <1>2, <2>1, <2>2 DEF Ok, Knows, KnowsDoc, KnowsKey, KnowsTables, None
  <2> QED BY <2>3, <2>6, <2>7, <2>8, <2>9, <2>10, Compose
<1> QED BY <1>3, <1>4 DEF WriteDoc

\* A draft moves to a dashboard that has no database, and only while it is
\* nobody's.
LEMMA RekeyOk ==
    ASSUME IInv, NEW p \in Procs, Rekey(p)
    PROVE  IInv'
<1>1. PICK s \in HandlerRecord : s = h[p] /\ Ok(s)
  BY Handler
<1>2. /\ s.pc = "rekey" /\ s.d \in Ids /\ s.i \in Ids /\ s.d # s.i
      /\ status[s.i] # None /\ target[s.i] = s.d /\ doc[s.d] # None
      /\ UNCHANGED <<doc, summary, status, registered, physical, target, cleaned>>
  BY <1>1 DEF Rekey, Ok, Knows, KnowsDoc, KnowsKey
<1>3. PICK r \in HandlerRecord :
        h' = [h EXCEPT ![p] = r] /\ r.pc = "activate" /\ r.d = s.d /\ r.i = s.i
  <2> DEFINE r == [s EXCEPT !.pc = "activate"]
  <2>1. r \in HandlerRecord /\ r.pc = "activate" /\ r.d = s.d /\ r.i = s.i
    BY DEF HandlerRecord
  <2> QED BY <1>1, <2>1 DEF Goto, Rekey
<1>4. key[s.i] \in {s.i, s.d}
  BY <1>2 DEF IInv, Data, Keys
<1>5. Usable(s.i) \/ Lost(s.i)
  BY <1>1, <1>2 DEF Ok, KnowsLive, WorksOn
<1>6. CASE At(s.i, s.i)
  <2>1. /\ \A i \in Ids : key[i] # s.d
        /\ key' = [key EXCEPT ![s.i] = s.d]
        /\ old' = [old EXCEPT ![s.i] = FALSE]
    BY <1>1, <1>6 DEF Rekey, At
  <2>2. /\ key' \in [Ids -> Ids \cup {None}]
        /\ key'[s.i] = s.d /\ \A j \in Ids \ {s.i} : key'[j] = key[j]
    BY <1>2, <2>1 DEF IInv, TypeOK
  <2>3. old' \in [Ids -> BOOLEAN]
    BY <2>1, Zenon DEF IInv, TypeOK
  <2>4. old \in [Ids -> BOOLEAN]
    BY DEF IInv, TypeOK
  <2>5. ~old'[s.i] /\ \A j \in Ids \ {s.i} : old'[j] = old[j]
    BY <1>2, <2>1, <2>4
  <2>6. TypeOK'
    BY <1>2, <1>3, <2>2, <2>3 DEF IInv, TypeOK
  <2>7. /\ ~Gone(s.i) /\ key[s.i] = s.i /\ doc[s.i] = None
        /\ Usable(s.i) \/ s.i \in cleaned
    BY <1>2, <1>5, <1>6 DEF Gone, Lost, At, IInv, Data, Keys, None
  <2>8. \A j \in Ids : Usable(j)' <=> Usable(j)
    BY <1>2 DEF Usable
  <2>9. \A j \in Ids \ {s.i} : Gone(j)' <=> Gone(j)
    BY <1>2, <2>2 DEF Gone
  <2>10. Data'
    <3>1. Keys'
      BY <1>2, <2>2, AppDbAssumption DEF IInv, Data, Keys
    <3>2. OneKey'
      BY <1>2, <2>1, <2>2 DEF IInv, Data, OneKey
    <3>3. Tidy'
      <4>1. status[s.i] \notin {"deleting", "deleted"}
        BY <2>7, <1>2 DEF IInv, Data, Tidy
      <4>2. registered[s.i] \subseteq physical[s.i] \/ s.i \in cleaned
        BY <2>7, <1>2 DEF IInv, Data, Tidy, Lost
      <4> QED BY <4>1, <4>2, <1>2, <2>8, <2>9 DEF IInv, Data, Tidy, Lost
    <3>4. SummaryTrue'
      <4>1. ASSUME NEW d \in Ids, doc[d] = "saved", summary[d] # None
            PROVE  \E i \in Ids : /\ At(d, i)'
                                  /\ i \in cleaned \/ (summary[d] = "active" /\ status[i] = "active")
        <5>1. PICK i \in Ids : /\ At(d, i)
                               /\ i \in cleaned \/ (summary[d] = "active" /\ status[i] = "active")
          BY <4>1 DEF IInv, Data, SummaryTrue
        <5>2. i # s.i
          BY <5>1, <4>1, <2>7 DEF At, None
        <5> QED BY <5>1, <5>2, <2>2 DEF At
      <4> QED BY <4>1, <1>2 DEF SummaryTrue
    <3> QED BY <3>1, <3>2, <3>3, <3>4, <1>2 DEF IInv, Data, NoSummaryYet
  <2>11. Keeps
    <3>1. KeepsDocs /\ KeepsKeys
      BY <1>2, <2>2, <2>7, <2>8 DEF KeepsDocs, KeepsKeys, Lost
    <3>2. \A j \in Ids : Lost(j) => Lost(j)'
      BY <2>7, <2>9, <1>2 DEF Lost
    <3> QED BY <3>1, <3>2, <1>2, <2>8 DEF Keeps, KeepsLife
  <2>12. Ok(r)'
    <3>1. \A j \in Ids : WorksOn(r, j)' => j = s.i
      BY <1>2, <1>3, <2>1, <2>2 DEF WorksOn, At
    <3>2. KnowsLive(r)'
      BY <3>1, <2>7, <2>8, <1>2, <1>3 DEF KnowsLive, Lost
    <3> QED BY <3>2, <1>2, <1>3 DEF Ok, Knows, KnowsDoc, KnowsKey, KnowsTables
  <2> QED BY <1>2, <1>3, <2>6, <2>10, <2>11, <2>12, Move
<1>7. CASE ~At(s.i, s.i)
  <2>1. UNCHANGED data
    BY <1>1, <1>2, <1>7 DEF Rekey, data
  <2>2. key[s.i] = s.d
    BY <1>4, <1>7 DEF At
  <2>3. \A j \in Ids : WorksOn(r, j) => j = s.i
    BY <2>2, <1>2, <1>3, AppDbAssumption DEF WorksOn, At, IInv, Data, OneKey
  <2>4. Ok(r)
    BY <2>3, <1>2, <1>3, <1>5 DEF Ok, Knows, KnowsDoc, KnowsKey, KnowsLive, KnowsTables
  <2> QED BY <2>1, <2>4, <1>3, Calm
<1> QED BY <1>6, <1>7

\* A status that changes, and what it is then dated.
LEMMA StatusStep ==
    ASSUME TypeOK, NEW i \in Ids, NEW s \in Statuses, SetStatus(i, s)
    PROVE  /\ status' \in [Ids -> Statuses] /\ old' \in [Ids -> BOOLEAN]
           /\ status'[i] = s /\ ~old'[i]
           /\ \A j \in Ids \ {i} : status'[j] = status[j] /\ old'[j] = old[j]
<1>1. status' \in [Ids -> Statuses]
  BY DEF TypeOK, SetStatus
<1>2. old' \in [Ids -> BOOLEAN]
  BY Zenon DEF TypeOK, SetStatus
<1>3. status \in [Ids -> Statuses] /\ old \in [Ids -> BOOLEAN]
  BY DEF TypeOK
<1>4. status'[i] = s /\ ~old'[i]
  BY <1>3 DEF SetStatus
<1>5. \A j \in Ids \ {i} : status'[j] = status[j] /\ old'[j] = old[j]
  BY <1>3 DEF SetStatus
<1> QED BY <1>1, <1>2, <1>4, <1>5

\* A database becomes active only if it was worked on or its dashboard is gone.
LEMMA SetActiveOk ==
    ASSUME IInv, NEW p \in Procs, SetActive(p)
    PROVE  IInv'
<1>1. PICK s \in HandlerRecord : s = h[p] /\ Ok(s)
  BY Handler
<1>2. /\ s.pc = "set" /\ s.d \in Ids /\ s.i \in Ids /\ status[s.i] # None
      /\ key[s.i] = s.d /\ doc[s.d] # None
      /\ SetStatus(s.i, "active")
      /\ UNCHANGED <<doc, summary, key, registered, physical, target, cleaned>>
  BY <1>1 DEF SetActive, Ok, Knows, KnowsDoc, KnowsKey
<1>3. PICK r \in HandlerRecord :
        h' = [h EXCEPT ![p] = r] /\ r.pc = "summary" /\ r.d = s.d /\ r.i = s.i
  <2> DEFINE r == [s EXCEPT !.pc = "summary"]
  <2>1. r \in HandlerRecord /\ r.pc = "summary" /\ r.d = s.d /\ r.i = s.i
    BY DEF HandlerRecord
  <2> QED BY <1>1, <2>1 DEF Goto, SetActive
<1>4. /\ status' \in [Ids -> Statuses] /\ old' \in [Ids -> BOOLEAN]
      /\ status'[s.i] = "active"
      /\ \A j \in Ids \ {s.i} : status'[j] = status[j] /\ old'[j] = old[j]
  BY <1>2, StatusStep DEF IInv, Statuses
<1>5. TypeOK'
  BY <1>2, <1>3, <1>4 DEF IInv, TypeOK
<1>6. Usable(s.i) \/ Lost(s.i)
  BY <1>1, <1>2 DEF Ok, KnowsLive, WorksOn
<1>7. \A j \in Ids : Gone(j)' <=> Gone(j)
  BY <1>2 DEF Gone
<1>8. Usable(s.i)' /\ \A j \in Ids \ {s.i} : Usable(j)' <=> Usable(j)
  BY <1>4 DEF Usable
<1>9. Data'
  <2>1. Keys' /\ OneKey' /\ NoSummaryYet'
    BY <1>2, <1>4 DEF IInv, Data, Keys, OneKey, NoSummaryYet, None
  <2>2. Tidy'
    BY <1>2, <1>4, <1>6, <1>7, <1>8 DEF IInv, Data, Tidy, Lost
  <2>3. SummaryTrue'
    BY <1>2, <1>4 DEF IInv, Data, SummaryTrue, At
  <2> QED BY <2>1, <2>2, <2>3 DEF Data
<1>10. Keeps
  <2>2. KeepsDocs /\ KeepsKeys
    BY <1>2, <1>4 DEF KeepsDocs, KeepsKeys, None
  <2>3. KeepsLife
    BY <1>2, <1>4, <1>7, <1>8 DEF KeepsLife, Lost
  <2> QED BY <2>2, <2>3 DEF Keeps
<1>11. Ok(r)'
  BY <1>2, <1>3, <1>4
     DEF Ok, Knows, KnowsDoc, KnowsKey, KnowsLive, KnowsTables, WorksOn, None
<1> QED BY <1>2, <1>3, <1>5, <1>9, <1>10, <1>11, Move

\* The summary that is written is that of an active database.
LEMMA SummarizeOk ==
    ASSUME IInv, NEW p \in Procs, Summarize(p)
    PROVE  IInv'
<1>1. PICK s \in HandlerRecord : s = h[p] /\ Ok(s)
  BY Handler
<1>2. PICK i \in Ids :
        /\ At(s.d, i)
        /\ summary' = IF doc[s.d] = "saved"
                      THEN [summary EXCEPT ![s.d] = status[i]] ELSE summary
  BY <1>1 DEF Summarize
<1>3. /\ s.pc = "summary" /\ s.d \in Ids /\ s.i \in Ids /\ key[s.i] = s.d
      /\ status[s.i] = "active" \/ Lost(s.i)
      /\ UNCHANGED <<doc, status, key, old, registered, physical, target, cleaned>> /\ End(p)
  BY <1>1 DEF Summarize, Ok, Knows, KnowsKey, KnowsLive
<1>4. i = s.i
  BY <1>2, <1>3, AppDbAssumption DEF At, IInv, Data, OneKey
<1>5. doc[s.d] = "saved" => status[i] = "active" \/ i \in cleaned
  BY <1>3, <1>4 DEF Gone, Lost
<1>6. /\ summary' \in [Ids -> Statuses]
      /\ \A d \in Ids : \/ summary'[d] = summary[d]
                        \/ d = s.d /\ doc[d] = "saved" /\ summary'[d] = status[i]
  <2>1. status[i] \in Statuses /\ summary \in [Ids -> Statuses]
    BY DEF IInv, TypeOK
  <2>2. CASE doc[s.d] = "saved"
    <3>1. summary' = [summary EXCEPT ![s.d] = status[i]]
      BY <2>2, <1>2, Zenon
    <3> QED BY <3>1, <2>1, <2>2, <1>3
  <2>3. CASE doc[s.d] # "saved"
    <3>1. summary' = summary
      BY <2>3, <1>2, Zenon
    <3> QED BY <3>1, <2>1
  <2> QED BY <2>2, <2>3
<1>7. TypeOK'
  BY <1>3, <1>6, Idle DEF IInv, TypeOK, End
<1>8. Data'
  <2>1. Keys' /\ OneKey' /\ Tidy'
    BY <1>3 DEF IInv, Data, Keys, OneKey, Tidy, Usable, Gone, Lost
  <2>2. NoSummaryYet'
    BY <1>3, <1>6 DEF IInv, Data, NoSummaryYet, None
  <2>3. SummaryTrue'
    BY <1>2, <1>3, <1>5, <1>6 DEF IInv, Data, SummaryTrue, At
  <2> QED BY <2>1, <2>2, <2>3 DEF Data
<1>9. Keeps
  BY <1>3 DEF Keeps, KeepsDocs, KeepsKeys, KeepsLife, Usable, Gone, Lost
<1>10. Ok(IdleHandler)'
  BY Idle DEF Ok, Knows, KnowsDoc, KnowsKey, KnowsLive, KnowsTables, WorksOn
<1> QED BY <1>3, <1>7, <1>8, <1>9, <1>10, Idle, Move DEF End

\* The document goes first: from then on its database is nobody's.
LEMMA DeleteOk ==
    ASSUME IInv, NEW p \in Procs, Delete(p)
    PROVE  IInv'
<1>1. PICK d \in Ids :
        doc[d] = "saved" /\ doc' = [doc EXCEPT ![d] = "deleted"] /\ Begin(p, "mark", d, None)
  BY DEF Delete
<1>2. UNCHANGED <<summary, status, key, old, registered, physical, target, cleaned>>
  BY DEF Delete
<1>3. PICK r \in HandlerRecord :
        h' = [h EXCEPT ![p] = r] /\ r.pc = "mark" /\ r.d = d /\ r.i = None
  BY <1>1, Begins
<1>4. /\ doc' \in [Ids -> {None, "saved", "deleted"}]
      /\ doc'[d] = "deleted" /\ \A e \in Ids \ {d} : doc'[e] = doc[e]
  BY <1>1 DEF IInv, TypeOK
<1>5. TypeOK'
  BY <1>2, <1>3, <1>4 DEF IInv, TypeOK
<1>6. \A i \in Ids : key[i] # None => key[i] \in Ids
  BY DEF IInv, TypeOK
<1>7. \A i \in Ids : Gone(i) => Gone(i)'
  BY <1>2, <1>4, <1>6 DEF Gone
<1>8. Data'
  <2>1. Keys'
    BY <1>1, <1>2, <1>4, <1>6 DEF IInv, Data, Keys, None
  <2>2. OneKey' /\ Tidy'
    BY <1>2, <1>7 DEF IInv, Data, OneKey, Tidy, Usable, Lost
  <2>3. NoSummaryYet' /\ SummaryTrue'
    BY <1>1, <1>2, <1>4 DEF IInv, Data, NoSummaryYet, SummaryTrue, At, None
  <2> QED BY <2>1, <2>2, <2>3 DEF Data
<1>9. Keeps
  <2>1. KeepsDocs
    BY <1>1, <1>4 DEF KeepsDocs, None
  <2>2. KeepsKeys /\ KeepsLife
    BY <1>2, <1>7 DEF KeepsKeys, KeepsLife, Usable, Lost
  <2> QED BY <2>1, <2>2 DEF Keeps
<1>10. h'[p] = r /\ \A q \in Procs \ {p} : h'[q] = h[q]
  BY <1>3 DEF IInv, TypeOK
<1>11. KeepsWriters(p)
  <2>1. ASSUME NEW q \in Procs \ {p}, h[q].pc = "write"
        PROVE  doc[h[q].d] = None /\ h[q].d \in Ids /\ h[q].d # d
    <3>1. doc[h[q].d] = None /\ h[q].d \in Ids
      BY <2>1 DEF IInv, TypeOK, Handlers, Ok, Knows, KnowsDoc
    <3> QED BY <3>1, <1>1 DEF None
  <2> QED BY <2>1, <1>3, <1>4, <1>10 DEF KeepsWriters
<1>12. Ok(r)'
  BY <1>3, <1>4 DEF Ok, Knows, KnowsDoc, KnowsKey, KnowsLive, KnowsTables, WorksOn
<1> QED BY <1>5, <1>8, <1>9, <1>10, <1>11, <1>12, Compose

\* A status that no live instance of a dashboard that exists is given.
LEMMA Buried ==
    ASSUME IInv, UNCHANGED <<doc, summary, key, registered, physical, target, cleaned>>,
           status' \in [Ids -> Statuses], old' \in [Ids -> BOOLEAN],
           \A j \in Ids :
              \/ status'[j] = status[j] /\ old'[j] = old[j]
              \/ /\ status[j] # None
                 /\ \/ status'[j] \in {"deleting", "deleted"} /\ Gone(j)
                    \/ status'[j] = "orphaned" /\ j \in cleaned
    PROVE  Data' /\ Keeps
<1>1. \A j \in Ids : (Gone(j)' <=> Gone(j)) /\ (Lost(j)' <=> Lost(j))
  BY DEF Gone, Lost
<1>2. Data'
  <2>1. Keys' /\ OneKey' /\ NoSummaryYet'
    BY DEF IInv, Data, Keys, OneKey, NoSummaryYet, None
  <2>2. Tidy'
    BY <1>1 DEF IInv, Data, Tidy, Usable, Lost
  <2>3. SummaryTrue'
    <3>1. ASSUME NEW d \in Ids, doc[d] = "saved", NEW i \in Ids, At(d, i), status[i] = "active"
          PROVE  status'[i] = "active" \/ i \in cleaned
      <4>1. ~Gone(i)
        BY <3>1 DEF Gone, At
      <4> QED BY <4>1, <3>1
    <3> QED BY <3>1 DEF IInv, Data, SummaryTrue, At
  <2> QED BY <2>1, <2>2, <2>3 DEF Data
<1>3. Keeps
  <2>1. KeepsDocs /\ KeepsKeys
    BY DEF KeepsDocs, KeepsKeys, None
  <2>2. KeepsLife
    <3>1. \A j \in Ids : Usable(j) => Usable(j)' \/ Lost(j)'
      BY <1>1 DEF Usable, Lost
    <3>2. \A j \in Ids : status[j] = "active" => status'[j] = "active" \/ Lost(j)'
      BY <1>1 DEF Lost
    <3> QED BY <3>1, <3>2, <1>1 DEF KeepsLife
  <2> QED BY <2>1, <2>2 DEF Keeps
<1> QED BY <1>2, <1>3

\* A database is marked only when its dashboard is deleted.
LEMMA MarkOk ==
    ASSUME IInv, NEW p \in Procs, Mark(p)
    PROVE  IInv'
<1>1. PICK s \in HandlerRecord : s = h[p] /\ Ok(s)
  BY Handler
<1>2. PICK i \in Ids :
        /\ At(s.d, i)
        /\ IF status[i] \in {"deleted", "deleting"} THEN UNCHANGED <<status, old>>
           ELSE SetStatus(i, "deleting")
        /\ h' = [h EXCEPT ![p] = [s EXCEPT !.pc = "drop", !.i = i]]
  BY <1>1 DEF Mark
<1>3. /\ s.pc = "mark" /\ s.d \in Ids /\ doc[s.d] = "deleted"
      /\ UNCHANGED <<doc, summary, key, registered, physical, target, cleaned>>
  BY <1>1 DEF Mark, Ok, Knows, KnowsDoc
<1>4. PICK r \in HandlerRecord :
        h' = [h EXCEPT ![p] = r] /\ r.pc = "drop" /\ r.d = s.d /\ r.i = i
  <2> DEFINE r == [s EXCEPT !.pc = "drop", !.i = i]
  <2>1. r \in HandlerRecord /\ r.pc = "drop" /\ r.d = s.d /\ r.i = i
    BY DEF HandlerRecord
  <2> QED BY <1>2, <2>1
<1>5. status[i] # None /\ Gone(i)
  BY <1>2, <1>3, AppDbAssumption DEF IInv, Data, Keys, At, Gone
<1>6. /\ status' \in [Ids -> Statuses] /\ old' \in [Ids -> BOOLEAN]
      /\ status'[i] \in {"deleting", "deleted"}
      /\ \A j \in Ids \ {i} : status'[j] = status[j] /\ old'[j] = old[j]
  <2>1. CASE status[i] \in {"deleted", "deleting"}
    BY <2>1, <1>2 DEF IInv, TypeOK
  <2>2. CASE status[i] \notin {"deleted", "deleting"}
    BY <2>2, <1>2, StatusStep DEF IInv, Statuses
  <2> QED BY <2>1, <2>2
<1>7. TypeOK'
  BY <1>3, <1>4, <1>6 DEF IInv, TypeOK
<1>8. Data' /\ Keeps
  BY <1>3, <1>5, <1>6, Buried
<1>9. Ok(r)'
  BY <1>2, <1>3, <1>4, <1>6
     DEF Ok, Knows, KnowsDoc, KnowsKey, KnowsLive, KnowsTables, WorksOn, At, None
<1> QED BY <1>3, <1>4, <1>7, <1>8, <1>9, Move

\* What was marked is recorded as deleted.
LEMMA FinalizeOk ==
    ASSUME IInv, NEW p \in Procs, Finalize(p)
    PROVE  IInv'
<1>1. PICK s \in HandlerRecord : s = h[p] /\ Ok(s)
  BY Handler
<1>2. /\ s.i \in Ids /\ key[s.i] = s.d /\ doc[s.d] = "deleted" /\ s.d \in Ids
      /\ status[s.i] # None /\ End(p)
      /\ IF status[s.i] = "deleting" THEN SetStatus(s.i, "deleted")
         ELSE UNCHANGED <<status, old>>
      /\ UNCHANGED <<doc, summary, key, registered, physical, target, cleaned>>
  BY <1>1 DEF Finalize, Ok, Knows, KnowsDoc, KnowsKey
<1>3. Gone(s.i)
  BY <1>2, AppDbAssumption DEF Gone
<1>4. /\ status' \in [Ids -> Statuses] /\ old' \in [Ids -> BOOLEAN]
      /\ \A j \in Ids : \/ status'[j] = status[j] /\ old'[j] = old[j]
                        \/ j = s.i /\ status'[j] = "deleted"
  <2>1. CASE status[s.i] = "deleting"
    <3>1. /\ status' \in [Ids -> Statuses] /\ old' \in [Ids -> BOOLEAN]
          /\ status'[s.i] = "deleted"
          /\ \A j \in Ids \ {s.i} : status'[j] = status[j] /\ old'[j] = old[j]
      BY <2>1, <1>2, StatusStep DEF IInv, Statuses
    <3> QED BY <3>1, Zenon
  <2>2. CASE status[s.i] # "deleting"
    <3>1. status' = status /\ old' = old
      BY <2>2, <1>2
    <3> QED BY <3>1, Zenon DEF IInv, TypeOK
  <2> QED BY <2>1, <2>2
<1>5. TypeOK'
  BY <1>2, <1>4, Idle DEF IInv, TypeOK, End
<1>6. Data' /\ Keeps
  BY <1>2, <1>3, <1>4, Buried
<1>7. Ok(IdleHandler)'
  BY Idle DEF Ok, Knows, KnowsDoc, KnowsKey, KnowsLive, KnowsTables, WorksOn
<1> QED BY <1>2, <1>5, <1>6, <1>7, Idle, Move DEF End

\* What the clean-up marks has lost its tables.
LEMMA MarkOrphanedOk ==
    ASSUME IInv, NEW p \in Procs, MarkOrphaned(p)
    PROVE  IInv'
<1>1. PICK s \in HandlerRecord : s = h[p] /\ Ok(s)
  BY Handler
<1>2. /\ s.pc = "clean" /\ End(p)
      /\ status' = [i \in Ids |-> IF i \in s.done THEN "orphaned" ELSE status[i]]
      /\ old' = [i \in Ids |-> IF i \in s.done THEN FALSE ELSE old[i]]
      /\ UNCHANGED <<doc, summary, key, registered, physical, target, cleaned>>
  BY <1>1 DEF MarkOrphaned
<1>3. \A j \in s.done : status[j] # None /\ j \in cleaned
  BY <1>1, <1>2 DEF Ok, Knows, KnowsTables
<1>4. status' \in [Ids -> Statuses]
  BY <1>2 DEF IInv, TypeOK, Statuses
<1>5. old' \in [Ids -> BOOLEAN]
  BY <1>2, Zenon DEF IInv, TypeOK
<1>6. TypeOK'
  BY <1>2, <1>4, <1>5, Idle DEF IInv, TypeOK, End
<1>7. \A j \in Ids : \/ status'[j] = status[j] /\ old'[j] = old[j]
                     \/ j \in s.done /\ status'[j] = "orphaned"
  <2>1. \A j \in Ids : status'[j] = IF j \in s.done THEN "orphaned" ELSE status[j]
    BY <1>2, Zenon
  <2>2. \A j \in Ids : old'[j] = IF j \in s.done THEN FALSE ELSE old[j]
    BY <1>2, Zenon
  <2> QED BY <2>1, <2>2
<1>8. Data' /\ Keeps
  BY <1>2, <1>3, <1>4, <1>5, <1>7, Buried
<1>9. Ok(IdleHandler)'
  BY Idle DEF Ok, Knows, KnowsDoc, KnowsKey, KnowsLive, KnowsTables, WorksOn
<1> QED BY <1>2, <1>6, <1>8, <1>9, Idle, Move DEF End

\* Tables that are dropped are those of an instance that is nobody's.
LEMMA Dropped ==
    ASSUME IInv, UNCHANGED <<doc, summary, status, key, old, registered, target>>,
           NEW i \in Ids, cleaned' \in {cleaned, cleaned \cup {i}}, Gone(i) \/ i \in cleaned',
           NEW left \in SUBSET physical[i],
           physical' = [physical EXCEPT ![i] = left]
    PROVE  /\ physical' \in [Ids -> SUBSET Tables] /\ cleaned' \in SUBSET Ids
           /\ Data' /\ Keeps
<1>1. /\ physical \in [Ids -> SUBSET Tables] /\ physical' \in [Ids -> SUBSET Tables]
      /\ \A j \in Ids \ {i} : physical'[j] = physical[j]
  BY DEF IInv, TypeOK
<1>2. Lost(i)' /\ \A j \in Ids : Lost(j) => Lost(j)'
  BY DEF Lost, Gone
<1>3. Data'
  <2>1. Tidy'
    BY <1>1, <1>2 DEF IInv, Data, Tidy, Usable, Gone, Lost
  <2> QED BY <2>1 DEF IInv, Data, Keys, OneKey, NoSummaryYet, SummaryTrue, At
<1>4. Keeps
  BY <1>1, <1>2 DEF Keeps, KeepsDocs, KeepsKeys, KeepsLife, Usable
<1>5. cleaned' \in SUBSET Ids
  BY DEF IInv, TypeOK
<1> QED BY <1>1, <1>3, <1>4, <1>5

\* Deleting a dashboard drops the tables of its own database.
LEMMA DropOk ==
    ASSUME IInv, NEW p \in Procs, Drop(p) \/ DropFails(p)
    PROVE  IInv'
<1>1. PICK s \in HandlerRecord : s = h[p] /\ Ok(s)
  BY Handler
<1>2. /\ s.pc = "drop" /\ s.d \in Ids /\ s.i \in Ids /\ status[s.i] # None
      /\ key[s.i] = s.d /\ doc[s.d] = "deleted"
      /\ UNCHANGED <<doc, summary, status, key, old, registered, target, cleaned>>
  BY <1>1 DEF Drop, DropFails, Ok, Knows, KnowsDoc, KnowsKey
<1>3. PICK left \in SUBSET physical[s.i] : physical' = [physical EXCEPT ![s.i] = left]
  BY <1>1 DEF Drop, DropFails
<1>4. Gone(s.i)
  BY <1>2, AppDbAssumption DEF Gone
<1>5. physical' \in [Ids -> SUBSET Tables] /\ Data' /\ Keeps
  BY <1>2, <1>3, <1>4, Dropped DEF Gone
<1>6. CASE Drop(p)
  <2>1. PICK r \in HandlerRecord :
          h' = [h EXCEPT ![p] = r] /\ r.pc = "finalize" /\ r.d = s.d /\ r.i = s.i
    <3> DEFINE r == [s EXCEPT !.pc = "finalize"]
    <3>1. r \in HandlerRecord /\ r.pc = "finalize" /\ r.d = s.d /\ r.i = s.i
      BY DEF HandlerRecord
    <3> QED BY <1>1, <1>6, <3>1 DEF Goto, Drop
  <2>2. TypeOK'
    BY <1>2, <1>5, <2>1 DEF IInv, TypeOK
  <2>3. Ok(r)'
    BY <1>2, <2>1 DEF Ok, Knows, KnowsDoc, KnowsKey, KnowsLive, KnowsTables, WorksOn
  <2> QED BY <1>2, <1>5, <2>1, <2>2, <2>3, Move
<1>7. CASE DropFails(p)
  <2>1. End(p)
    BY <1>7 DEF DropFails
  <2>2. TypeOK'
    BY <1>2, <1>5, <2>1, Idle DEF IInv, TypeOK, End
  <2>3. Ok(IdleHandler)'
    BY Idle DEF Ok, Knows, KnowsDoc, KnowsKey, KnowsLive, KnowsTables, WorksOn
  <2> QED BY <1>2, <1>5, <2>1, <2>2, <2>3, Idle, Move DEF End
<1> QED BY <1>6, <1>7

\* From then on nothing is promised of what the clean-up drops.
LEMMA CleanOneOk ==
    ASSUME IInv, NEW p \in Procs, NEW i \in Ids, CleanOne(p, i) \/ CleanOneFails(p, i)
    PROVE  IInv'
<1>1. PICK s \in HandlerRecord : s = h[p] /\ Ok(s)
  BY Handler
<1>2. /\ s.pc = "clean" /\ i \in s.todo /\ s.todo \subseteq Ids
      /\ \A j \in s.todo \cup s.done : status[j] # None
      /\ s.done \subseteq cleaned /\ cleaned' = cleaned \cup {i}
      /\ UNCHANGED <<doc, summary, status, key, old, registered, target>>
  BY <1>1 DEF CleanOne, CleanOneFails, Ok, Knows, KnowsTables
<1>3. PICK left \in SUBSET physical[i] : physical' = [physical EXCEPT ![i] = left]
  BY <1>1 DEF CleanOne, CleanOneFails
<1>4. /\ physical' \in [Ids -> SUBSET Tables] /\ cleaned' \in SUBSET Ids
      /\ Data' /\ Keeps
  BY <1>2, <1>3, Dropped
<1>5. PICK r \in HandlerRecord :
        /\ h' = [h EXCEPT ![p] = r] /\ r.pc = "clean"
        /\ r.todo \subseteq s.todo /\ r.done \subseteq s.done \cup {i}
  <2>1. CASE CleanOne(p, i)
    <3> DEFINE r == [s EXCEPT !.todo = @ \ {i}, !.done = @ \cup {i}]
    <3>1. /\ r \in HandlerRecord /\ r.pc = "clean"
          /\ r.todo \subseteq s.todo /\ r.done \subseteq s.done \cup {i}
      BY <1>2 DEF HandlerRecord
    <3>2. h' = [h EXCEPT ![p] = r]
      BY <1>1, <2>1 DEF CleanOne
    <3> QED BY <3>1, <3>2
  <2>2. CASE CleanOneFails(p, i)
    <3> DEFINE r == [s EXCEPT !.todo = @ \ {i}]
    <3>1. /\ r \in HandlerRecord /\ r.pc = "clean"
          /\ r.todo \subseteq s.todo /\ r.done \subseteq s.done \cup {i}
      BY <1>2 DEF HandlerRecord
    <3>2. h' = [h EXCEPT ![p] = r]
      BY <1>1, <2>2 DEF CleanOneFails
    <3> QED BY <3>1, <3>2
  <2> QED BY <2>1, <2>2
<1>6. TypeOK'
  BY <1>2, <1>4, <1>5 DEF IInv, TypeOK
<1>7. Ok(r)'
  BY <1>2, <1>5
     DEF Ok, Knows, KnowsDoc, KnowsKey, KnowsLive, KnowsTables, WorksOn, Lost, Gone
<1> QED BY <1>2, <1>4, <1>5, <1>6, <1>7, Move

\* A draft begins under an id that nothing has.
LEMMA ProvisionOk ==
    ASSUME IInv, NEW i \in Ids, Provision(i)
    PROVE  IInv'
<1>1. PICK d \in Ids : target' = [target EXCEPT ![i] = d]
  BY DEF Provision
<1>2. /\ status[i] = None /\ doc[i] = None /\ key[i] = None /\ registered[i] = {}
      /\ SetStatus(i, "draft") /\ key' = [key EXCEPT ![i] = i]
      /\ UNCHANGED <<doc, summary, registered, physical, h, cleaned>>
  BY DEF Provision, IInv, Data, Keys
<1>3. /\ status' \in [Ids -> Statuses] /\ old' \in [Ids -> BOOLEAN]
      /\ status'[i] = "draft" /\ ~old'[i]
      /\ \A j \in Ids \ {i} : status'[j] = status[j] /\ old'[j] = old[j]
  BY <1>2, StatusStep DEF IInv, Statuses
<1>4. /\ key' \in [Ids -> Ids \cup {None}] /\ target' \in [Ids -> Ids \cup {None}]
      /\ key'[i] = i /\ target'[i] = d
      /\ \A j \in Ids \ {i} : key'[j] = key[j] /\ target'[j] = target[j]
  BY <1>1, <1>2 DEF IInv, TypeOK
<1>5. TypeOK'
  BY <1>2, <1>3, <1>4 DEF IInv, TypeOK
<1>6. \A j \in Ids : key[j] # i
  BY <1>2, AppDbAssumption DEF IInv, Data, Keys
<1>7. /\ ~Gone(i) /\ ~Usable(i) /\ Usable(i)'
      /\ \A j \in Ids \ {i} :
            (Gone(j)' <=> Gone(j)) /\ (Usable(j)' <=> Usable(j)) /\ (Lost(j)' <=> Lost(j))
  BY <1>2, <1>3, <1>4 DEF Gone, Lost, Usable, None
<1>8. Data'
  <2>1. Keys'
    BY <1>2, <1>3, <1>4, AppDbAssumption DEF IInv, Data, Keys, None
  <2>2. OneKey'
    BY <1>2, <1>4, <1>6 DEF IInv, Data, OneKey
  <2>3. Tidy'
    BY <1>2, <1>3, <1>7 DEF IInv, Data, Tidy
  <2>4. NoSummaryYet'
    BY <1>2 DEF IInv, Data, NoSummaryYet
  <2>5. SummaryTrue'
    BY <1>2, <1>3, <1>4, AppDbAssumption DEF IInv, Data, SummaryTrue, At, None
  <2> QED BY <2>1, <2>2, <2>3, <2>4, <2>5 DEF Data
<1>9. Keeps
  <2>1. KeepsDocs /\ KeepsKeys
    BY <1>2, <1>3, <1>4, <1>7 DEF KeepsDocs, KeepsKeys
  <2>2. KeepsLife
    BY <1>2, <1>3, <1>7 DEF KeepsLife, Lost, None
  <2> QED BY <2>1, <2>2 DEF Keeps
<1>10. ASSUME NEW q \in Procs, h[q].pc = "write" PROVE doc[h[q].d] = None
  BY <1>10 DEF IInv, TypeOK, Handlers, Ok, KnowsDoc
<1> QED BY <1>2, <1>5, <1>8, <1>9, <1>10, ComposeNone

\* That a draft's day ends concerns nobody until a clean-up comes.
LEMMA AgeOk ==
    ASSUME IInv, NEW i \in Ids, Age(i)
    PROVE  IInv'
<1>1. /\ old' = [old EXCEPT ![i] = TRUE]
      /\ UNCHANGED <<doc, summary, status, key, registered, physical, h, target, cleaned>>
  BY DEF Age
<1>2. old' \in [Ids -> BOOLEAN]
  BY <1>1, Zenon DEF IInv, TypeOK
<1>3. TypeOK'
  BY <1>1, <1>2 DEF IInv, TypeOK
<1>4. Data'
  BY <1>1 DEF IInv, Data, Keys, OneKey, Tidy, NoSummaryYet, SummaryTrue, Usable, Gone, Lost, At
<1>5. Keeps
  BY <1>1 DEF Keeps, KeepsDocs, KeepsKeys, KeepsLife, Usable, Gone, Lost
<1>6. ASSUME NEW q \in Procs, h[q].pc = "write" PROVE doc[h[q].d] = None
  BY <1>6 DEF IInv, TypeOK, Handlers, Ok, KnowsDoc
<1> QED BY <1>1, <1>3, <1>4, <1>5, <1>6, ComposeNone

-----------------------------------------------------------------------------
(* The theorems *)

\* The invariant holds of an empty registry.
LEMMA InitOk == Init => IInv
<1> SUFFICES ASSUME Init PROVE IInv
  OBVIOUS
<1>1. TypeOK
  <2>1. old \in [Ids -> BOOLEAN]
    BY Zenon DEF Init
  <2>2. IdleHandler \in HandlerRecord
    BY Idle
  <2> QED BY <2>1, <2>2 DEF Init, TypeOK, Statuses
<1>2. Data
  BY DEF Init, Data, Keys, OneKey, Tidy, NoSummaryYet, SummaryTrue, Usable, None
<1>3. Handlers
  <2>1. ASSUME NEW p \in Procs, NEW r \in HandlerRecord, h[p] = r PROVE Ok(r)
    <3>1. r = IdleHandler
      BY <2>1 DEF Init
    <3> QED BY <3>1, Idle
  <2> QED BY <2>1 DEF Handlers
<1>4. OneWriter
  BY Idle DEF Init, OneWriter
<1> QED BY <1>1, <1>2, <1>3, <1>4 DEF IInv

\* Every step of a handler preserves the invariant.
LEMMA StepOk ==
    ASSUME IInv, ~SavesTwice, NEW p \in Procs, Step(p)
    PROVE  IInv'
<1>1. CASE Chat(p) BY <1>1, ChatOk
<1>2. CASE CreateTable(p) BY <1>2, CreateTableOk
<1>3. CASE Register(p) BY <1>3, RegisterOk
<1>4. CASE EndChat(p) BY <1>4, EndOk DEF EndChat, data
<1>5. CASE SaveDraft(p) BY <1>5, SaveDraftOk
<1>6. CASE WriteDoc(p) BY <1>6, WriteDocOk
<1>7. CASE Update(p) BY <1>7, UpdateOk
<1>8. CASE UpdateOwn(p) BY <1>8, UpdateOwnOk
<1>9. CASE Rekey(p) BY <1>9, RekeyOk
<1>10. CASE RekeyFails(p) BY <1>10, EndOk DEF RekeyFails, data
<1>11. CASE Activate(p) BY <1>11, ActivateOk
<1>12. CASE SetActive(p) BY <1>12, SetActiveOk
<1>13. CASE Summarize(p) BY <1>13, SummarizeOk
<1>14. CASE ActivateFails(p) BY <1>14, EndOk DEF ActivateFails, data
<1>15. CASE Delete(p) BY <1>15, DeleteOk
<1>16. CASE Mark(p) BY <1>16, MarkOk
<1>17. CASE NothingToMark(p) BY <1>17, EndOk DEF NothingToMark, data
<1>18. CASE Drop(p) \/ DropFails(p) BY <1>18, DropOk
<1>19. CASE Finalize(p) BY <1>19, FinalizeOk
<1>20. CASE CleanUp(p) BY <1>20, CleanUpOk
<1>21. CASE MarkOrphaned(p) BY <1>21, MarkOrphanedOk
<1>22. CASE \E i \in Ids : CleanOne(p, i) \/ CleanOneFails(p, i) BY <1>22, CleanOneOk
<1>23. CASE Crash(p) BY <1>23, EndOk DEF Crash, data
<1> QED
  BY <1>1, <1>2, <1>3, <1>4, <1>5, <1>6, <1>7, <1>8, <1>9, <1>10, <1>11, <1>12, <1>13,
     <1>14, <1>15, <1>16, <1>17, <1>18, <1>19, <1>20, <1>21, <1>22, <1>23
     DEF Step, Save, Remove, Clean

\* A step that changes nothing preserves the invariant.
LEMMA StutterOk ==
    ASSUME IInv, UNCHANGED vars
    PROVE  IInv'
<1>1. Data'
  BY DEF vars, IInv, Data, Keys, OneKey, Tidy, NoSummaryYet, SummaryTrue, Usable, Gone, Lost, At
<1>2. Keeps
  BY DEF vars, Keeps, KeepsDocs, KeepsKeys, KeepsLife, Usable, Gone, Lost
<1>3. TypeOK' /\ h' = h
  BY DEF vars, IInv, TypeOK
<1>4. ASSUME NEW q \in Procs, h[q].pc = "write" PROVE doc'[h[q].d] = None
  BY <1>4 DEF vars, IInv, TypeOK, Handlers, Ok, KnowsDoc
<1> QED BY <1>1, <1>2, <1>3, <1>4, ComposeNone

\* The invariant is inductive if no draft is saved by two requests at once.
THEOREM Invariant ==
    ASSUME ~SavesTwice
    PROVE  Spec => []IInv
<1>1. Init => IInv
  BY InitOk
<1>2. IInv /\ [Next]_vars => IInv'
  <2> SUFFICES ASSUME IInv, [Next]_vars PROVE IInv'
    OBVIOUS
  <2>1. ASSUME NEW p \in Procs, Step(p) PROVE IInv'
    BY <2>1, StepOk
  <2>2. ASSUME NEW i \in Ids, Provision(i) \/ Age(i) \/ SavePlain(i) PROVE IInv'
    BY <2>2, ProvisionOk, AgeOk, SavePlainOk
  <2>3. CASE UNCHANGED vars
    BY <2>3, StutterOk
  <2> QED BY <2>1, <2>2, <2>3 DEF Next
<1> QED BY <1>1, <1>2, PTL DEF Spec

\* Every variable has its type, and every handler the fields that its step reads.
THEOREM TypeCorrect ==
    ASSUME ~SavesTwice
    PROVE  Spec => []TypeOK
<1>1. IInv => TypeOK
  BY DEF IInv
<1> QED BY <1>1, Invariant, PTL

\* The tables that the registry lists for a saved dashboard exist, unless a
\* clean-up has dropped some of them.
THEOREM NothingMissing ==
    ASSUME ~SavesTwice
    PROVE  Spec => []RegisteredExist
<1>1. IInv => RegisteredExist
  BY DEF IInv, Data, Tidy, RegisteredExist, InUse, Usable, Gone, Lost
<1> QED BY <1>1, Invariant, PTL

\* A dashboard that says it has a database has an active one, or one that a
\* clean-up has dropped.
THEOREM SummariesTrue ==
    ASSUME ~SavesTwice
    PROVE  Spec => []SummaryTrue
<1>1. IInv => SummaryTrue
  BY DEF IInv, Data
<1> QED BY <1>1, Invariant, PTL

\* Only a dashboard that is deleted loses its key or its document.
LEMMA KeyKept ==
    ASSUME IInv, Next, NEW i \in Ids, InUse(i)
    PROVE  key'[i] = key[i] /\ doc'[key[i]] \in {"saved", "deleted"}
<1>1. key[i] \in Ids /\ doc[key[i]] = "saved" /\ status[i] = "active"
  BY DEF InUse, IInv, TypeOK
<1>2. key[i] = i => target[i] = i
  BY <1>1, AppDbAssumption DEF IInv, Data, Keys, None
<1>3. ASSUME NEW p \in Procs, Rekey(p) PROVE key'[i] = key[i] /\ doc' = doc
  <2>1. PICK s \in HandlerRecord : s = h[p] /\ Ok(s)
    BY Handler
  <2>2. s.i \in Ids /\ s.d # s.i /\ target[s.i] = s.d
    BY <1>3, <2>1 DEF Rekey, Ok, Knows, KnowsKey
  <2>3. At(s.i, s.i) => s.i # i
    BY <2>2, <1>2 DEF At
  <2> QED BY <1>3, <2>1, <2>2, <2>3 DEF Rekey, IInv, TypeOK
<1>4. ASSUME NEW j \in Ids, Provision(j) PROVE key'[i] = key[i] /\ doc' = doc
  BY <1>4, <1>1 DEF Provision, IInv, TypeOK, None
<1>5. ASSUME NEW j \in Ids, SavePlain(j) PROVE key' = key /\ doc'[key[i]] = "saved"
  BY <1>5, <1>1 DEF SavePlain, IInv, TypeOK
<1>6. ASSUME NEW p \in Procs, WriteDoc(p) PROVE key' = key /\ doc'[key[i]] = "saved"
  <2>1. PICK s \in HandlerRecord : s = h[p] /\ s.d \in Ids
    BY <1>6, Handler DEF WriteDoc, Ok, Knows
  <2> QED BY <2>1, <1>6, <1>1 DEF WriteDoc, IInv, TypeOK
<1>7. ASSUME NEW p \in Procs, Delete(p) PROVE key' = key /\ doc'[key[i]] \in {"saved", "deleted"}
  BY <1>7, <1>1 DEF Delete, IInv, TypeOK
<1>8. ASSUME NEW p \in Procs, Step(p), ~Rekey(p), ~WriteDoc(p), ~Delete(p)
      PROVE  key' = key /\ doc' = doc
  <2>1. CASE Chat(p) \/ CreateTable(p) \/ Register(p) \/ EndChat(p) \/ Crash(p)
    BY <2>1 DEF Chat, CreateTable, Register, EndChat, Crash
  <2>2. CASE Save(p)
    BY <2>2, <1>8 DEF Save, SaveDraft, Update, UpdateOwn, RekeyFails, Activate, SetActive,
                      Summarize, ActivateFails
  <2>3. CASE Remove(p)
    BY <2>3, <1>8 DEF Remove, Mark, NothingToMark, Drop, DropFails, Finalize
  <2>4. CASE Clean(p)
    BY <2>4 DEF Clean, CleanUp, MarkOrphaned, CleanOne, CleanOneFails
  <2> QED BY <1>8, <2>1, <2>2, <2>3, <2>4 DEF Step
<1>9. ASSUME NEW j \in Ids, Age(j) PROVE key' = key /\ doc' = doc
  BY <1>9 DEF Age
<1> QED BY <1>1, <1>3, <1>4, <1>5, <1>6, <1>7, <1>8, <1>9 DEF Next

\* A database that is in use and on no list stays active, and on no list.
LEMMA ActiveKept ==
    ASSUME IInv, Next, NEW i \in Ids, Secured(i)
    PROVE  status'[i] = "active" /\ ~Listed(i)'
<1>1. /\ key[i] \in Ids /\ doc[key[i]] = "saved" /\ status[i] = "active" /\ ~Listed(i)
      /\ status \in [Ids -> Statuses] /\ h \in [Procs -> HandlerRecord]
  BY DEF Secured, InUse, IInv, TypeOK
<1>2. ASSUME NEW p \in Procs, NEW r \in HandlerRecord, h' = [h EXCEPT ![p] = r],
             r.pc = "clean" => i \notin r.todo \cup r.done
      PROVE  ~Listed(i)'
  BY <1>2, <1>1 DEF Listed
<1>3. ASSUME NEW p \in Procs, End(p) PROVE ~Listed(i)'
  <2>1. h' = [h EXCEPT ![p] = IdleHandler] /\ IdleHandler \in HandlerRecord /\ IdleHandler.pc = "idle"
    BY <1>3, Idle DEF End
  <2> QED BY <2>1, <1>2
<1>4. ASSUME NEW p \in Procs, NEW r, h' = [h EXCEPT ![p] = r], r.pc # "clean"
      PROVE  ~Listed(i)'
  BY <1>4, <1>1 DEF Listed
<1> DEFINE Kept == status'[i] = "active" /\ ~Listed(i)'
<1>5. ASSUME NEW p \in Procs, Chat(p) \/ SaveDraft(p) \/ Update(p) \/ UpdateOwn(p) \/ Delete(p)
      PROVE  Kept
  <2>1. PICK pc \in {"tool", "write", "rekey", "activate", "mark"}, d \in Ids, j \in Ids \cup {None} :
          Begin(p, pc, d, j)
    BY <1>5 DEF Chat, SaveDraft, Update, UpdateOwn, Delete
  <2>2. PICK r \in HandlerRecord : h' = [h EXCEPT ![p] = r] /\ r.pc = pc
    BY <2>1, Begins
  <2>3. ~Listed(i)'
    BY <2>2, <1>4
  <2> QED BY <2>3, <1>5, <1>1 DEF Chat, SaveDraft, Update, UpdateOwn, Delete
<1>6. ASSUME NEW p \in Procs,
             EndChat(p) \/ RekeyFails(p) \/ Summarize(p) \/ ActivateFails(p)
                \/ NothingToMark(p) \/ DropFails(p) \/ Crash(p)
      PROVE  Kept
  <2>1. End(p) /\ status' = status
    BY <1>6 DEF EndChat, RekeyFails, Summarize, ActivateFails, NothingToMark, DropFails, Crash
  <2> QED BY <2>1, <1>1, <1>3
<1>7. ASSUME NEW p \in Procs, CreateTable(p) \/ Register(p) \/ WriteDoc(p) \/ Rekey(p) \/ Activate(p) \/ Drop(p)
      PROVE  Kept
  <2>1. status' = status
    BY <1>7 DEF CreateTable, Register, WriteDoc, Rekey, Activate, Drop
  <2>2. PICK s \in HandlerRecord : s = h[p]
    BY <1>1
  <2>3. CASE CreateTable(p)
    <3>1. PICK j \in Ids, t \in Tables :
            h' = [h EXCEPT ![p] = [s EXCEPT !.pc = "register", !.i = j, !.todo = {t}]]
      BY <2>2, <2>3 DEF CreateTable
    <3>2. [s EXCEPT !.pc = "register", !.i = j, !.todo = {t}].pc = "register"
      BY DEF HandlerRecord
    <3>3. ~Listed(i)'
      BY <3>1, <3>2, <1>4
    <3> QED BY <3>3, <2>1, <1>1
  <2>4. CASE Register(p)
    <3>1. h' = [h EXCEPT ![p] = [s EXCEPT !.pc = "tool", !.i = None, !.todo = {}]]
      BY <2>2, <2>4 DEF Register
    <3>2. [s EXCEPT !.pc = "tool", !.i = None, !.todo = {}].pc = "tool"
      BY DEF HandlerRecord
    <3>3. ~Listed(i)'
      BY <3>1, <3>2, <1>4
    <3> QED BY <3>3, <2>1, <1>1
  <2>5. CASE WriteDoc(p) \/ Rekey(p) \/ Drop(p)
    <3>1. CASE End(p)
      BY <3>1, <2>1, <1>1, <1>3
    <3>2. CASE Goto(p, "activate") \/ Goto(p, "finalize")
      <4>1. PICK pc \in {"activate", "finalize"} : h' = [h EXCEPT ![p] = [s EXCEPT !.pc = pc]]
        BY <3>2, <2>2 DEF Goto
      <4>2. [s EXCEPT !.pc = pc].pc = pc
        BY DEF HandlerRecord
      <4>3. ~Listed(i)'
        BY <4>1, <4>2, <1>4
      <4> QED BY <4>3, <2>1, <1>1
    <3> QED BY <3>1, <3>2, <2>5 DEF WriteDoc, Rekey, Drop
  <2>6. CASE Activate(p)
    <3>1. PICK j \in Ids, pc \in {"set", "summary"} :
            h' = [h EXCEPT ![p] = [s EXCEPT !.i = j, !.pc = pc]]
      BY <2>2, <2>6 DEF Activate
    <3>2. [s EXCEPT !.i = j, !.pc = pc].pc = pc
      BY DEF HandlerRecord
    <3>3. ~Listed(i)'
      BY <3>1, <3>2, <1>4
    <3> QED BY <3>3, <2>1, <1>1
  <2> QED BY <1>7, <2>3, <2>4, <2>5, <2>6
<1>8. ASSUME NEW p \in Procs, SetActive(p) PROVE Kept
  <2>1. PICK s \in HandlerRecord : s = h[p]
    BY <1>1
  <2>2. h' = [h EXCEPT ![p] = [s EXCEPT !.pc = "summary"]]
    BY <1>8, <2>1 DEF SetActive, Goto
  <2>3. [s EXCEPT !.pc = "summary"].pc = "summary"
    BY DEF HandlerRecord
  <2>4. ~Listed(i)'
    BY <2>2, <2>3, <1>4
  <2>5. status'[i] = "active"
    BY <1>8, <1>1 DEF SetActive, SetStatus
  <2> QED BY <2>4, <2>5
<1>9. ASSUME NEW p \in Procs, Mark(p) PROVE Kept
  <2>1. PICK s \in HandlerRecord : s = h[p] /\ Ok(s)
    BY Handler
  <2>2. PICK j \in Ids :
          /\ At(s.d, j)
          /\ IF status[j] \in {"deleted", "deleting"} THEN UNCHANGED <<status, old>>
             ELSE SetStatus(j, "deleting")
          /\ h' = [h EXCEPT ![p] = [s EXCEPT !.pc = "drop", !.i = j]]
    BY <1>9, <2>1 DEF Mark
  <2>3. doc[s.d] = "deleted"
    BY <1>9, <2>1 DEF Mark, Ok, KnowsDoc
  <2>4. j # i
    BY <2>2, <2>3, <1>1 DEF At
  <2>5. [s EXCEPT !.pc = "drop", !.i = j].pc = "drop"
    BY DEF HandlerRecord
  <2>6. ~Listed(i)'
    BY <2>2, <2>5, <1>4
  <2>7. status'[i] = "active"
    BY <2>2, <2>4, <1>1 DEF SetStatus
  <2> QED BY <2>6, <2>7
<1>10. ASSUME NEW p \in Procs, Finalize(p) PROVE Kept
  <2>1. status'[i] = "active"
    BY <1>10, <1>1 DEF Finalize, SetStatus
  <2>2. End(p)
    BY <1>10 DEF Finalize
  <2> QED BY <2>1, <2>2, <1>3
<1>11. ASSUME NEW p \in Procs, CleanUp(p) PROVE Kept
  <2>1. PICK t \in SUBSET Ids : t = Stale /\ i \notin t
    <3>1. Stale \in SUBSET Ids /\ i \notin Stale
      BY <1>1 DEF Stale
    <3> QED BY <3>1
  <2> DEFINE r == [IdleHandler EXCEPT !.pc = "clean", !.todo = t]
  <2>2. r \in HandlerRecord /\ r.todo = t /\ r.done = {}
    BY DEF HandlerRecord, IdleHandler
  <2>3. h' = [h EXCEPT ![p] = r] /\ status' = status
    BY <1>11, <2>1 DEF CleanUp
  <2>4. ~Listed(i)'
    BY <2>1, <2>2, <2>3, <1>2
  <2> QED BY <2>3, <2>4, <1>1
<1>12. ASSUME NEW p \in Procs, NEW j \in Ids, CleanOne(p, j) \/ CleanOneFails(p, j) PROVE Kept
  <2>1. PICK s \in HandlerRecord : s = h[p] /\ s.pc = "clean" /\ j \in s.todo
    BY <1>12, <1>1 DEF CleanOne, CleanOneFails
  <2>2. i \notin s.todo \cup s.done
    BY <2>1, <1>1 DEF Listed
  <2>3. PICK d \in {s.done, s.done \cup {j}} :
          h' = [h EXCEPT ![p] = [s EXCEPT !.todo = s.todo \ {j}, !.done = d]]
    <3>1. CASE CleanOne(p, j)
      BY <3>1, <2>1 DEF CleanOne
    <3>2. CASE CleanOneFails(p, j)
      <4>1. h' = [h EXCEPT ![p] = [s EXCEPT !.todo = s.todo \ {j}]]
        BY <3>2, <2>1 DEF CleanOneFails
      <4>2. [s EXCEPT !.todo = s.todo \ {j}] = [s EXCEPT !.todo = s.todo \ {j}, !.done = s.done]
        BY DEF HandlerRecord
      <4> QED BY <4>1, <4>2
    <3> QED BY <1>12, <3>1, <3>2
  <2> DEFINE r == [s EXCEPT !.todo = s.todo \ {j}, !.done = d]
  <2>4. r \in HandlerRecord /\ r.todo = s.todo \ {j} /\ r.done = d
    BY DEF HandlerRecord
  <2>5. i \notin r.todo \cup r.done
    BY <2>1, <2>2, <2>3, <2>4
  <2>6. ~Listed(i)'
    BY <2>3, <2>4, <2>5, <1>2
  <2> QED BY <2>6, <1>12, <1>1 DEF CleanOne, CleanOneFails
<1>13. ASSUME NEW p \in Procs, MarkOrphaned(p) PROVE Kept
  <2>1. i \notin h[p].done
    BY <1>13, <1>1 DEF MarkOrphaned, Listed
  <2>2. status'[i] = "active" /\ End(p)
    BY <1>13, <2>1, <1>1 DEF MarkOrphaned
  <2> QED BY <2>2, <1>3
<1>14. ASSUME NEW j \in Ids, Provision(j) \/ Age(j) \/ SavePlain(j) PROVE Kept
  <2>1. h' = h
    BY <1>14 DEF Provision, Age, SavePlain
  <2>2. ~Listed(i)'
    BY <2>1, <1>1 DEF Listed
  <2>3. status'[i] = "active"
    BY <1>14, <1>1 DEF Provision, Age, SavePlain, SetStatus, None
  <2> QED BY <2>2, <2>3
<1> QED
  BY <1>5, <1>6, <1>7, <1>8, <1>9, <1>10, <1>11, <1>12, <1>13, <1>14
     DEF Next, Step, Save, Remove, Clean

\* No step, of whatever request, drops a table of a secured database.
LEMMA TablesKept ==
    ASSUME IInv, Next, NEW i \in Ids, Secured(i)
    PROVE  physical[i] \subseteq physical'[i]
<1>1. InUse(i) /\ ~Listed(i) /\ ~Gone(i)
  BY DEF Secured, InUse, Gone
<1>2. ASSUME NEW p \in Procs, CreateTable(p) PROVE physical[i] \subseteq physical'[i]
  BY <1>2 DEF CreateTable, IInv, TypeOK
<1>3. ASSUME NEW p \in Procs, Drop(p) \/ DropFails(p) PROVE physical'[i] = physical[i]
  <2>1. PICK s \in HandlerRecord : s = h[p] /\ Ok(s)
    BY Handler
  <2>2. s.pc = "drop" /\ s.d \in Ids /\ key[s.i] = s.d /\ doc[s.d] = "deleted"
    BY <1>3, <2>1 DEF Drop, DropFails, Ok, Knows, KnowsDoc, KnowsKey
  <2>3. s.i # i
    BY <2>2, <1>1, AppDbAssumption DEF Gone
  <2> QED BY <1>3, <2>1, <2>3 DEF Drop, DropFails, IInv, TypeOK
<1>4. ASSUME NEW p \in Procs, NEW j \in Ids, CleanOne(p, j) \/ CleanOneFails(p, j)
      PROVE  physical'[i] = physical[i]
  <2>1. j # i
    BY <1>4, <1>1 DEF CleanOne, CleanOneFails, Listed
  <2> QED BY <1>4, <2>1 DEF CleanOne, CleanOneFails, IInv, TypeOK
<1>5. ASSUME NEW p \in Procs, Step(p)
      PROVE  \/ physical' = physical
             \/ CreateTable(p) \/ Drop(p) \/ DropFails(p)
             \/ \E j \in Ids : CleanOne(p, j) \/ CleanOneFails(p, j)
  <2>1. CASE Chat(p) \/ Register(p) \/ EndChat(p) \/ Crash(p)
    BY <2>1 DEF Chat, Register, EndChat, Crash
  <2>2. CASE Save(p)
    BY <2>2 DEF Save, SaveDraft, WriteDoc, Update, UpdateOwn, Rekey, RekeyFails, Activate,
                SetActive, Summarize, ActivateFails
  <2>3. CASE Delete(p) \/ Mark(p) \/ NothingToMark(p) \/ Finalize(p)
    BY <2>3 DEF Delete, Mark, NothingToMark, Finalize
  <2>4. CASE CleanUp(p) \/ MarkOrphaned(p)
    BY <2>4 DEF CleanUp, MarkOrphaned
  <2> QED BY <1>5, <2>1, <2>2, <2>3, <2>4 DEF Step, Remove, Clean
<1>6. ASSUME NEW j \in Ids, Provision(j) \/ Age(j) \/ SavePlain(j) PROVE physical' = physical
  BY <1>6 DEF Provision, Age, SavePlain
<1> QED BY <1>2, <1>3, <1>4, <1>5, <1>6 DEF Next

\* The database of a saved dashboard, once it is active and on no clean-up's
\* list, keeps its tables and stays so until the dashboard is deleted.
THEOREM DataKept ==
    ASSUME ~SavesTwice
    PROVE  Spec => SecuredDataKept
<1>1. IInv /\ [Next]_vars => [\A i \in Ids : Secured(i) =>
          /\ physical[i] \subseteq physical'[i]
          /\ Secured(i)' \/ doc'[key[i]] = "deleted"]_vars
  <2> SUFFICES ASSUME IInv, Next, NEW i \in Ids, Secured(i)
               PROVE  /\ physical[i] \subseteq physical'[i]
                      /\ Secured(i)' \/ doc'[key[i]] = "deleted"
    OBVIOUS
  <2>1. key'[i] = key[i] /\ doc'[key[i]] \in {"saved", "deleted"} /\ key[i] # None
    BY KeyKept DEF Secured, InUse
  <2>2. status'[i] = "active" /\ ~Listed(i)'
    BY ActiveKept
  <2> QED BY <2>1, <2>2, TablesKept DEF Secured, InUse
<1> QED BY <1>1, Invariant, PTL DEF Spec, SecuredDataKept

=============================================================================
