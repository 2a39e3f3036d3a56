-------------------------- MODULE SlugRegistry_proofs --------------------------
(***************************************************************************)
(* A friendly URL leads to one dashboard, whatever fails or crashes, as    *)
(* long as the handlers of one dashboard do not overlap and a document     *)
(* write that is reported as failed was not made.                          *)
(*                                                                         *)
(* The argument is about ownership.  Whatever a handler reserves, writes   *)
(* or releases belongs to the dashboard it serves; no other handler serves *)
(* that dashboard; so a step changes what is known of one dashboard only.  *)
(***************************************************************************)
EXTENDS SlugRegistry, TLAPS

\* What the run SlugRegistry_requests assumes of its environment.
Orderly == ~Overlap /\ "writeAck" \notin Faults /\ "clock" \notin Faults

\* No two handlers serve the same dashboard.
Separate ==
    \A p, q \in Procs : ~Idle(p) /\ ~Idle(q) /\ h[p].d = h[q].d => p = q

\* What a handler knows of its own dashboard and of the slug it holds.
Knows(p) ==
    /\ ~Idle(p) => h[p].d \in Dashboards
    /\ h[p].pc = "reserve" => h[p].name \in Names /\ dash[h[p].d] = Absent
    /\ h[p].pc = "write" => /\ h[p].slug \in Slugs
                            /\ dash[h[p].d] = Absent
                            /\ reserved[h[p].slug] = h[p].d
    /\ h[p].pc = "rename" => h[p].name \in Names
    /\ h[p].pc \in {"rename", "delete"} => /\ h[p].slug \in Slugs
                                           /\ dash[h[p].d] = h[p].slug
    /\ h[p].pc = "release" => /\ h[p].slug \in Slugs
                              /\ dash[h[p].d] # h[p].slug
                              /\ reserved[h[p].slug] = h[p].d

IInv == TypeOK /\ SlugsReserved /\ Separate /\ \A p \in Procs : Knows(p)

\* Reserved slugs name their dashboards, so they are unique.
LEMMA ReservedIsUnique == SlugsReserved => UniqueSlugs
BY DEF SlugsReserved, UniqueSlugs, Exists

\* The empty registry satisfies the invariant.
LEMMA InitIInv == Init => IInv
<1> USE SlugAssumption
<1> SUFFICES ASSUME Init PROVE IInv
  OBVIOUS
<1>1. TypeOK
  <2>1. IdleHandler \in HandlerRecord
    BY DEF IdleHandler, HandlerRecord
  <2>2. cut \in BOOLEAN
    BY DEF Init
  <2> QED
    BY <2>1, <2>2 DEF Init, TypeOK
<1>2. SlugsReserved
  BY DEF Init, SlugsReserved, Exists
<1>3. \A p \in Procs : Idle(p) /\ h[p].pc = "idle"
  BY DEF Init, Idle, IdleHandler
<1> QED
  BY <1>1, <1>2, <1>3 DEF IInv, Separate, Knows

\* What every step of handler p for dashboard d leaves alone.
Framed(p, d) ==
    /\ \A q \in Procs \ {p} : h'[q] = h[q] /\ (~Idle(q) => h[q].d # d)
    /\ \A e \in Dashboards \ {d} :
          /\ dash'[e] = dash[e]
          /\ \A s \in Slugs : reserved[s] = e => reserved'[s] = e

\* So the invariant only has to be shown for p and d.
LEMMA FramedStep ==
  ASSUME IInv, TypeOK', NEW p \in Procs, NEW d \in Dashboards, Framed(p, d),
         Idle(p)' \/ h'[p].d = d, Knows(p)',
         (Exists(d) => reserved[dash[d]] = d)'
  PROVE  IInv'
<1> USE SlugAssumption
<1>1. SlugsReserved'
  BY DEF IInv, TypeOK, SlugsReserved, Exists, Framed
<1>2. Separate'
  BY DEF IInv, Separate, Framed, Idle
<1>3. ASSUME NEW q \in Procs, q # p PROVE Knows(q)'
  <2>1. h'[q] = h[q] /\ (~Idle(q) => h[q].d # d)
    BY <1>3 DEF Framed
  <2>2. Knows(q)
    BY DEF IInv
  <2>3. CASE Idle(q)
    BY <2>1, <2>3 DEF Knows, Idle
  <2>4. CASE ~Idle(q)
    <3>1. h[q].d \in Dashboards \ {d}
      BY <2>1, <2>2, <2>4 DEF Knows
    <3>2. /\ dash'[h[q].d] = dash[h[q].d]
          /\ \A s \in Slugs : reserved[s] = h[q].d => reserved'[s] = h[q].d
      BY <3>1 DEF Framed
    <3> QED
      BY <2>1, <2>2, <3>2 DEF Knows, Idle
  <2> QED
    BY <2>3, <2>4
<1> QED
  BY <1>1, <1>2, <1>3 DEF IInv
-----------------------------------------------------------------------------
\* What reserveUniqueSlug is offered is a slug that is free or its own.
LEMMA OfferedIsAvailable ==
  ASSUME TypeOK, NEW p \in Procs, h[p].name \in Names, NEW s \in Offered(p)
  PROVE  s \in Slugs /\ Available(s, h[p].d)
<1> USE SlugAssumption
<1> DEFINE cs == Candidates[h[p].name]
<1>1. cs \in Seq(Slugs) /\ Stamped[h[p].name] \in SUBSET Slugs
  OBVIOUS
<1>2. h[p].k \in Nat /\ h[p].k >= 1
  BY DEF TypeOK, HandlerRecord
<1>3. h[p].k <= Len(cs) => cs[h[p].k] \in Slugs
  BY <1>1, <1>2
<1> QED
  BY <1>1, <1>3 DEF Offered

\* What the handlers' records can become.
LEMMA HandlerType ==
  ASSUME TypeOK, NEW p \in Procs, Knows(p), Step(p)
  PROVE  h' \in [Procs -> HandlerRecord]
<1> USE SlugAssumption
<1>0. h \in [Procs -> HandlerRecord] /\ h[p] \in HandlerRecord
  BY DEF TypeOK
<1>1. IdleHandler \in HandlerRecord
  BY DEF IdleHandler, HandlerRecord
<1>2. ASSUME NEW pc \in {"release"}
      PROVE  [h[p] EXCEPT !.pc = pc] \in HandlerRecord
  BY <1>0 DEF HandlerRecord
<1>3. \A s \in Slugs : [h[p] EXCEPT !.pc = "write", !.slug = s] \in HandlerRecord
  BY <1>0 DEF HandlerRecord
<1>4. [h[p] EXCEPT !.k = h[p].k + 1] \in HandlerRecord
  <2>1. h[p].k + 1 \in Nat \ {0}
    BY <1>0 DEF HandlerRecord
  <2>2. \A k \in Nat \ {0} : [h[p] EXCEPT !.k = k] \in HandlerRecord
    BY <1>0 DEF HandlerRecord
  <2> QED
    BY <2>1, <2>2
<1>5. \A d \in Dashboards, n \in Names :
        [pc |-> "reserve", d |-> d, name |-> n, k |-> 1, slug |-> None] \in HandlerRecord
  BY DEF HandlerRecord
<1>6. \A d \in Dashboards, n \in Names \cup {None}, s \in Slugs, pc \in {"rename", "delete"} :
        [pc |-> pc, d |-> d, name |-> n, k |-> 1, slug |-> s] \in HandlerRecord
  BY DEF HandlerRecord
<1>7. \E r \in HandlerRecord : h' = [h EXCEPT ![p] = r]
  <2>1. CASE Create(p)
    BY <1>5, <2>1 DEF Create
  <2>2. CASE Reserve(p)
    <3>1. PICK s \in Offered(p) :
             h' = [h EXCEPT ![p] = [h[p] EXCEPT !.pc = "write", !.slug = s]]
      BY <2>2, <1>0 DEF Reserve
    <3>2. s \in Slugs
      BY <2>2, OfferedIsAvailable DEF Reserve, Knows
    <3> QED
      BY <1>3, <3>1, <3>2
  <2>3. CASE TryNext(p)
    <3>1. h' = [h EXCEPT ![p] = [h[p] EXCEPT !.k = h[p].k + 1]]
      BY <1>0, <2>3 DEF TryNext
    <3> QED
      BY <1>4, <3>1
  <2>4. CASE Rename(p)
    BY <1>6, <2>4 DEF Rename, Exists
  <2>5. CASE Delete(p)
    BY <1>6, <2>5 DEF Delete, Exists
  <2>6. CASE WriteFails(p) \/ Remove(p) \/ RenameCommits(p)
    BY <1>0, <1>1, <1>2, <2>6 DEF WriteFails, Remove, RenameCommits, Goto, End
  <2>7. CASE \/ ReserveFails(p) \/ Write(p) \/ RenameFails(p) \/ RemoveFails(p)
             \/ ReleaseSlug(p) \/ Crash(p)
    BY <1>1, <2>7 DEF ReserveFails, Write, RenameFails, RemoveFails, ReleaseSlug,
                      Crash, End
  <2> QED
    BY <2>1, <2>2, <2>3, <2>4, <2>5, <2>6, <2>7 DEF Step
<1> QED
  BY <1>0, <1>7

\* What a rename reserves is a slug that is free or its own.
LEMMA RenameIsAvailable ==
  ASSUME Orderly, TypeOK, NEW d \in Dashboards, NEW n \in Names,
         NEW s \in Slugs, FirstAvailable(n, d, s)
  PROVE  Available(s, d)
BY DEF FirstAvailable, Orderly

\* The truth values stay truth values.
LEMMA CutType ==
  ASSUME TypeOK, NEW p \in Procs, Step(p)
  PROVE  cut' \in BOOLEAN
<1>1. cut' = cut \/ cut' = TRUE
  BY DEF Step, Create, Reserve, TryNext, ReserveFails, Write, WriteFails, Rename,
         RenameCommits, RenameFails, Delete, Remove, RemoveFails, ReleaseSlug, Crash
<1> QED
  BY <1>1, Zenon DEF TypeOK

\* What a step does to the registry: for the dashboard it serves, and to slugs
\* that are free or belong to that dashboard.
Serves(p, d) ==
    /\ UNCHANGED reserved \/ \E s \in Slugs :
          /\ Available(s, d)
          /\ reserved' = [reserved EXCEPT ![s] = d] \/ reserved' = [reserved EXCEPT ![s] = Free]
    /\ UNCHANGED dash \/ \E x \in Slugs \cup {Absent, Deleted} :
                            dash' = [dash EXCEPT ![d] = x]

\* Serving a dashboard keeps the types and what is known of the others.
LEMMA ServesStep ==
  ASSUME IInv, NEW p \in Procs, NEW d \in Dashboards, Step(p), Serves(p, d),
         used' \subseteq Dashboards,
         \A q \in Procs \ {p} : h'[q] = h[q] /\ (~Idle(q) => h[q].d # d)
  PROVE  TypeOK' /\ Framed(p, d)
<1> USE SlugAssumption
<1>1. h' \in [Procs -> HandlerRecord] /\ cut' \in BOOLEAN
  BY HandlerType, CutType DEF IInv
<1>2. reserved' \in [Slugs -> Dashboards \cup {Free}]
  BY DEF Serves, IInv, TypeOK
<1>3. dash' \in [Dashboards -> Slugs \cup {Absent, Deleted}]
  BY DEF Serves, IInv, TypeOK
<1>4. TypeOK'
  BY <1>1, <1>2, <1>3 DEF TypeOK
<1>5. \A e \in Dashboards \ {d} : dash'[e] = dash[e]
  BY DEF Serves, IInv, TypeOK
<1>6. \A e \in Dashboards \ {d}, s \in Slugs : reserved[s] = e => reserved'[s] = e
  BY DEF Serves, Available, IInv, TypeOK
<1> QED
  BY <1>4, <1>5, <1>6 DEF Framed

\* A handler leaves the others alone, and nobody serves its dashboard.
LEMMA AloneStep ==
  ASSUME Orderly, IInv, NEW p \in Procs, Step(p)
  PROVE  \E d \in Dashboards :
            /\ Idle(p)' \/ h'[p].d = d
            /\ ~Idle(p) => h[p].d = d
            /\ Idle(p) => Alone(d)
            /\ \A q \in Procs \ {p} : h'[q] = h[q] /\ (~Idle(q) => h[q].d # d)
<1>0. h \in [Procs -> HandlerRecord] /\ ~Overlap
  BY DEF IInv, TypeOK, Orderly
<1>1. CASE Idle(p)
  <2>1. Create(p) \/ Rename(p) \/ Delete(p)
    BY <1>1 DEF Step, Reserve, TryNext, ReserveFails, Write, WriteFails,
         RenameCommits, RenameFails, Remove, RemoveFails, ReleaseSlug, Crash, Idle
  <2>2. PICK d \in Dashboards : Alone(d) /\ h'[p].d = d
                               /\ \A q \in Procs \ {p} : h'[q] = h[q]
    BY <1>0, <2>1 DEF Create, Rename, Delete
  <2> QED
    BY <1>0, <1>1, <2>2 DEF Alone
<1>2. CASE ~Idle(p)
  <2>1. h[p].d \in Dashboards /\ \A q \in Procs \ {p} : ~Idle(q) => h[q].d # h[p].d
    BY <1>2 DEF IInv, Knows, Separate
  <2>2. h'[p] = IdleHandler \/ h'[p].d = h[p].d
    BY <1>0, <1>2 DEF Step, Create, Rename, Delete, Reserve, TryNext, ReserveFails,
         Write, WriteFails, RenameCommits, RenameFails, Remove, RemoveFails,
         ReleaseSlug, Crash, Goto, End, Idle, HandlerRecord
  <2>3. \A q \in Procs \ {p} : h'[q] = h[q]
    BY <1>0, <1>2 DEF Step, Create, Rename, Delete, Reserve, TryNext, ReserveFails,
         Write, WriteFails, RenameCommits, RenameFails, Remove, RemoveFails,
         ReleaseSlug, Crash, Goto, End, Idle
  <2> QED
    BY <1>2, <2>1, <2>2, <2>3 DEF Idle, IdleHandler
<1> QED
  BY <1>1, <1>2

\* What is to be shown of a step that serves d.
Served(p, d) ==
    /\ Serves(p, d)
    /\ used' \subseteq Dashboards
    /\ Knows(p)'
    /\ (Exists(d) => reserved[dash[d]] = d)'

\* Starting a request reserves, writes and releases nothing.
LEMMA StartStep ==
  ASSUME IInv, NEW p \in Procs, NEW d \in Dashboards, Idle(p), Step(p),
         Idle(p)' \/ h'[p].d = d
  PROVE  Served(p, d)
<1> USE SlugAssumption
<1>0. h \in [Procs -> HandlerRecord] /\ used \subseteq Dashboards
  BY DEF IInv, TypeOK
<1>1. UNCHANGED <<reserved, dash>>
  BY DEF Step, Create, Rename, Delete, Reserve, TryNext, ReserveFails, Write,
         WriteFails, RenameCommits, RenameFails, Remove, RemoveFails,
         ReleaseSlug, Crash, Idle
<1>2. Create(p) \/ Rename(p) \/ Delete(p)
  BY DEF Step, Reserve, TryNext, ReserveFails, Write, WriteFails,
       RenameCommits, RenameFails, Remove, RemoveFails, ReleaseSlug, Crash, Idle
<1>3. Knows(p)' /\ used' \subseteq Dashboards
  <2>1. CASE Create(p)
    BY <1>0, <2>1 DEF Create, Knows, Idle
  <2>2. CASE Rename(p)
    BY <1>0, <2>2 DEF Rename, Knows, Idle, Exists
  <2>3. CASE Delete(p)
    BY <1>0, <2>3 DEF Delete, Knows, Idle, Exists
  <2> QED
    BY <1>2, <2>1, <2>2, <2>3
<1>4. (Exists(d) => reserved[dash[d]] = d)'
  BY <1>1 DEF IInv, SlugsReserved, Exists
<1> QED
  BY <1>1, <1>3, <1>4 DEF Served, Serves

\* Every later step of a request touches its own dashboard and slug only.
LEMMA LaterStep ==
  ASSUME Orderly, IInv, NEW p \in Procs, NEW d \in Dashboards, ~Idle(p),
         h[p].d = d, Step(p)
  PROVE  Served(p, d)
<1> USE SlugAssumption
<1>0. /\ h \in [Procs -> HandlerRecord] /\ used \subseteq Dashboards
      /\ h[p].d = d /\ Knows(p) /\ TypeOK
      /\ reserved \in [Slugs -> Dashboards \cup {Free}]
      /\ dash \in [Dashboards -> Slugs \cup {Absent, Deleted}]
      /\ dash[d] \in Slugs => reserved[dash[d]] = d
  BY DEF IInv, TypeOK, Knows, SlugsReserved, Exists
<1>1. h'[p] = IdleHandler => Knows(p)'
  BY DEF IdleHandler, Knows, Idle
<1>2. used' = used
  BY DEF Step, Create, Rename, Delete, Reserve, TryNext, ReserveFails, Write,
         WriteFails, RenameCommits, RenameFails, Remove, RemoveFails,
         ReleaseSlug, Crash, Idle
<1>a. ASSUME NEW s \in Slugs, Available(s, d),
             \/ reserved' = [reserved EXCEPT ![s] = d]
             \/ reserved' = [reserved EXCEPT ![s] = Free],
             dash' = dash
      PROVE  Serves(p, d)
  BY <1>a DEF Serves
<1>b. ASSUME NEW x \in Slugs \cup {Absent, Deleted}, reserved' = reserved,
             dash' = [dash EXCEPT ![d] = x]
      PROVE  Serves(p, d)
  BY <1>b DEF Serves
<1>c. ASSUME reserved' = reserved, dash' = dash
      PROVE  Serves(p, d) /\ (Exists(d) => reserved[dash[d]] = d)'
  BY <1>0, <1>c DEF Serves, Exists
<1>d. ASSUME NEW s \in Slugs, Available(s, d),
             reserved' = [reserved EXCEPT ![s] = d],
             dash' = [dash EXCEPT ![d] = s]
      PROVE  Serves(p, d) /\ (Exists(d) => reserved[dash[d]] = d)'
  <2>1. Serves(p, d)
    BY <1>d DEF Serves
  <2>2. reserved'[s] = d /\ dash'[d] = s
    BY <1>0, <1>d
  <2> QED
    BY <2>1, <2>2
<1>3. CASE Reserve(p)
  <2>1. PICK s \in Offered(p) :
           /\ reserved' = [reserved EXCEPT ![s] = d]
           /\ h'[p] = [h[p] EXCEPT !.pc = "write", !.slug = s]
    BY <1>0, <1>3 DEF Reserve
  <2>2. s \in Slugs /\ Available(s, d) /\ dash' = dash /\ dash[d] = Absent
    BY <1>0, <1>3, OfferedIsAvailable DEF Reserve, Knows
  <2>3. h'[p].pc = "write" /\ h'[p].slug = s /\ h'[p].d = d
    BY <1>0, <2>1 DEF HandlerRecord
  <2>4. Serves(p, d)
    BY <1>a, <2>1, <2>2
  <2> QED
    BY <1>0, <1>2, <2>1, <2>2, <2>3, <2>4, SlugAssumption DEF Served, Knows, Idle, Exists
<1>4. CASE TryNext(p)
  BY <1>0, <1>2, <1>4 DEF TryNext, Served, Serves, Knows, Idle, Exists, HandlerRecord
<1>5. CASE ReserveFails(p)
  <2>1. UNCHANGED reserved \/ \E s \in Offered(p) : reserved' = [reserved EXCEPT ![s] = d]
    BY <1>5 DEF ReserveFails
  <2>2. \A s \in Offered(p) : s \in Slugs /\ Available(s, d)
    BY <1>0, <1>5, OfferedIsAvailable DEF ReserveFails, Knows
  <2>3. dash' = dash /\ h'[p] = IdleHandler /\ dash[d] = Absent
    BY <1>0, <1>5 DEF ReserveFails, End, Knows
  <2>4. Serves(p, d)
    BY <1>a, <1>c, <2>1, <2>2, <2>3
  <2> QED
    BY <1>0, <1>1, <1>2, <2>3, <2>4 DEF Served, Exists
<1>6. CASE Write(p)
  <2>1. /\ reserved' = reserved /\ dash' = [dash EXCEPT ![d] = h[p].slug]
        /\ h'[p] = IdleHandler /\ h[p].slug \in Slugs /\ reserved[h[p].slug] = d
    BY <1>0, <1>6 DEF Write, End, Knows
  <2>2. Serves(p, d)
    BY <1>b, <2>1
  <2> QED
    BY <1>0, <1>1, <1>2, <2>1, <2>2 DEF Served, Exists
<1>7. CASE WriteFails(p)
  <2>1. UNCHANGED <<dash, reserved>> /\ h'[p] = [h[p] EXCEPT !.pc = "release"]
    BY <1>0, <1>7 DEF WriteFails, Goto, Orderly
  <2>2. h'[p].pc = "release" /\ h'[p].slug = h[p].slug /\ h'[p].d = d
    BY <1>0, <2>1 DEF HandlerRecord
  <2> QED
    BY <1>0, <1>2, <1>7, <2>1, <2>2 DEF WriteFails, Served, Serves, Knows, Idle, Exists
<1>8. CASE RenameCommits(p)
  <2>1. PICK s \in Slugs :
           /\ FirstAvailable(h[p].name, d, s)
           /\ reserved' = [reserved EXCEPT ![s] = d]
           /\ dash' = [dash EXCEPT ![d] = s]
    BY <1>8 DEF RenameCommits, Renamed
  <2>2. Available(s, d)
    BY <1>0, <1>8, <2>1, RenameIsAvailable DEF RenameCommits, Knows
  <2>3. Serves(p, d) /\ (Exists(d) => reserved[dash[d]] = d)'
    BY <1>d, <2>1, <2>2
  <2>4. CASE s = h[p].slug
    BY <1>0, <1>1, <1>2, <1>8, <2>1, <2>3, <2>4 DEF RenameCommits, End, Served
  <2>5. CASE s # h[p].slug
    <3>1. h'[p] = [h[p] EXCEPT !.pc = "release"]
      BY <1>0, <1>8, <2>1, <2>5 DEF RenameCommits, Goto
    <3>2. h'[p].pc = "release" /\ h'[p].slug = h[p].slug /\ h'[p].d = d
      BY <1>0, <3>1 DEF HandlerRecord
    <3>3. h[p].slug \in Slugs /\ reserved[h[p].slug] = d
      BY <1>0, <1>8 DEF RenameCommits, Knows
    <3> QED
      BY <1>0, <1>2, <2>1, <2>3, <2>5, <3>2, <3>3 DEF Served, Knows, Idle
  <2> QED
    BY <2>4, <2>5
<1>9. CASE RenameFails(p)
  <2>1. \/ UNCHANGED <<reserved, dash>>
        \/ \E s \in Slugs : /\ FirstAvailable(h[p].name, d, s)
                            /\ reserved' = [reserved EXCEPT ![s] = d]
                            /\ dash' = [dash EXCEPT ![d] = s]
    BY <1>9 DEF RenameFails, Renamed
  <2>2. \A s \in Slugs : FirstAvailable(h[p].name, d, s) => Available(s, d)
    BY <1>0, <1>9, RenameIsAvailable DEF RenameFails, Knows
  <2>3. h'[p] = IdleHandler
    BY <1>0, <1>9 DEF RenameFails, End
  <2>4. Serves(p, d) /\ (Exists(d) => reserved[dash[d]] = d)'
    BY <1>c, <1>d, <2>1, <2>2
  <2> QED
    BY <1>0, <1>1, <1>2, <2>3, <2>4 DEF Served
<1>10. CASE Remove(p)
  <2>1. /\ h'[p] = [h[p] EXCEPT !.pc = "release"] /\ reserved' = reserved
        /\ dash' = [dash EXCEPT ![d] = Deleted]
    BY <1>0, <1>10 DEF Remove, Goto
  <2>2. h'[p].pc = "release" /\ h'[p].slug = h[p].slug /\ h'[p].d = d
    BY <1>0, <2>1 DEF HandlerRecord
  <2>3. Serves(p, d)
    BY <1>b, <2>1
  <2> QED
    BY <1>0, <1>2, <1>10, <2>1, <2>2, <2>3 DEF Remove, Served, Knows, Idle, Exists
<1>11. CASE RemoveFails(p) \/ Crash(p)
  <2>1. reserved' = reserved /\ dash' = dash /\ h'[p] = IdleHandler
    BY <1>0, <1>11 DEF RemoveFails, Crash, End
  <2> QED
    BY <1>0, <1>1, <1>2, <1>c, <2>1 DEF Served
<1>12. CASE ReleaseSlug(p)
  <2>1. /\ h'[p] = IdleHandler /\ dash' = dash
        /\ reserved' = reserved \/ reserved' = [reserved EXCEPT ![h[p].slug] = Free]
    BY <1>0, <1>12 DEF ReleaseSlug, End
  <2>2. h[p].slug \in Slugs /\ reserved[h[p].slug] = d /\ dash[d] # h[p].slug
    BY <1>0, <1>12 DEF ReleaseSlug, Knows
  <2>3. Serves(p, d)
    BY <1>a, <1>c, <2>1, <2>2 DEF Available
  <2>4. (Exists(d) => reserved[dash[d]] = d)'
    BY <1>0, <2>1, <2>2 DEF Exists
  <2> QED
    BY <1>0, <1>1, <1>2, <2>1, <2>3, <2>4 DEF Served
<1> QED
  BY <1>3, <1>4, <1>5, <1>6, <1>7, <1>8, <1>9, <1>10, <1>11, <1>12
     DEF Step, Create, Rename, Delete

\* Every step keeps the inductive invariant.
LEMMA NextIInv ==
  ASSUME Orderly, IInv, [Next]_vars
  PROVE  IInv'
<1>1. CASE UNCHANGED vars
  BY <1>1 DEF vars, IInv, TypeOK, SlugsReserved, Separate, Knows, Exists, Idle
<1>2. ASSUME NEW p \in Procs, Step(p) PROVE IInv'
  <2>1. PICK d \in Dashboards :
            /\ Idle(p)' \/ h'[p].d = d
            /\ ~Idle(p) => h[p].d = d
            /\ \A q \in Procs \ {p} : h'[q] = h[q] /\ (~Idle(q) => h[q].d # d)
    BY <1>2, AloneStep
  <2>2. Served(p, d)
    <3>1. CASE Idle(p)
      BY <1>2, <2>1, <3>1, StartStep
    <3>2. CASE ~Idle(p)
      BY <1>2, <2>1, <3>2, LaterStep
    <3> QED
      BY <3>1, <3>2
  <2>3. TypeOK' /\ Framed(p, d)
    BY <1>2, <2>1, <2>2, ServesStep DEF Served
  <2> QED
    BY <2>1, <2>2, <2>3, FramedStep DEF Served
<1> QED
  BY <1>1, <1>2 DEF Next

-----------------------------------------------------------------------------
\* A link leads to one dashboard, and its slug is reserved for it.
THEOREM Uniqueness ==
  ASSUME Orderly
  PROVE  Spec => [](UniqueSlugs /\ SlugsReserved)
<1>1. IInv => UniqueSlugs /\ SlugsReserved
  BY ReservedIsUnique DEF IInv
<1>2. IInv /\ [Next]_vars => IInv'
  BY NextIInv
<1> QED
  BY <1>1, <1>2, InitIInv, PTL DEF Spec

\* Reservations, documents and handlers keep their form.
THEOREM Types ==
  ASSUME Orderly
  PROVE  Spec => []TypeOK
<1>1. IInv => TypeOK
  BY DEF IInv
<1>2. IInv /\ [Next]_vars => IInv'
  BY NextIInv
<1> QED
  BY <1>1, <1>2, InitIInv, PTL DEF Spec

\* The slug of a dashboard stays reserved for it.
THEOREM Reservation ==
  ASSUME Orderly
  PROVE  Spec => []SlugsReserved
<1>1. IInv => SlugsReserved
  BY DEF IInv
<1>2. IInv /\ [Next]_vars => IInv'
  BY NextIInv
<1> QED
  BY <1>1, <1>2, InitIInv, PTL DEF Spec

-----------------------------------------------------------------------------
\* As long as nothing died, a reserved slug is its dashboard's, or a handler has
\* it in hand: it will be written to the document or released.
InHand(s) == \E p \in Procs : /\ h[p].pc \in {"write", "release"}
                             /\ h[p].d = reserved[s]
                             /\ h[p].slug = s
Held == ~cut => \A s \in Slugs :
                  reserved[s] # Free => dash[reserved[s]] = s \/ InHand(s)

\* What a step of p for its dashboard leaves in hand of the others.
LEMMA HeldByOthers ==
  ASSUME TypeOK, NEW p \in Procs, NEW s \in Slugs, reserved'[s] = reserved[s],
         \A q \in Procs \ {p} : h'[q] = h[q],
         InHand(s), ~(h[p].pc \in {"write", "release"} /\ h[p].slug = s)
  PROVE  InHand(s)'
BY DEF InHand

LEMMA HeldStep ==
  ASSUME Orderly, IInv, Held, NEW p \in Procs, Step(p)
  PROVE  Held'
<1> USE SlugAssumption
<1> SUFFICES ASSUME ~cut', NEW s \in Slugs, reserved'[s] # Free
             PROVE  dash'[reserved'[s]] = s \/ InHand(s)'
  BY DEF Held
<1>1. /\ TypeOK /\ Knows(p) /\ h[p] \in HandlerRecord
      /\ reserved \in [Slugs -> Dashboards \cup {Free}]
      /\ dash \in [Dashboards -> Slugs \cup {Absent, Deleted}]
      /\ h \in [Procs -> HandlerRecord]
  BY DEF IInv, TypeOK
<1>2. /\ \A q \in Procs \ {p} : h'[q] = h[q]
      /\ ~cut
  <2>1. \E r : h' = [h EXCEPT ![p] = r]
    BY DEF Step, Create, Reserve, TryNext, ReserveFails, Write, WriteFails, Rename,
           RenameCommits, RenameFails, Delete, Remove, RemoveFails, ReleaseSlug, Crash,
           Goto, End
  <2>2. cut' = cut \/ cut' = TRUE
    BY DEF Step, Create, Reserve, TryNext, ReserveFails, Write, WriteFails, Rename,
           RenameCommits, RenameFails, Delete, Remove, RemoveFails, ReleaseSlug, Crash
  <2>3. ~cut
    BY <2>2
  <2> QED BY <1>1, <2>1, <2>3
<1>3. reserved[s] # Free => dash[reserved[s]] = s \/ InHand(s)
  BY <1>2 DEF Held
\* Steps that change neither collection and are of a handler that holds nothing.
<1>4. CASE UNCHANGED <<reserved, dash>> /\ h[p].pc \notin {"write", "release"}
  BY <1>1, <1>2, <1>3, <1>4, HeldByOthers
<1>5. CASE Reserve(p)
  <2>1. PICK t \in Offered(p) :
          /\ reserved' = [reserved EXCEPT ![t] = h[p].d]
          /\ h' = [h EXCEPT ![p] = [h[p] EXCEPT !.pc = "write", !.slug = t]]
          /\ dash' = dash /\ h[p].pc = "reserve"
    BY <1>5 DEF Reserve
  <2>2. t \in Slugs
    BY <1>1, <2>1, OfferedIsAvailable DEF Knows
  <2>3. CASE s = t
    <3>1. /\ h'[p].pc = "write" /\ h'[p].d = h[p].d /\ h'[p].slug = s
          /\ reserved'[s] = h[p].d
      BY <1>1, <2>1, <2>2, <2>3 DEF HandlerRecord
    <3> QED BY <3>1 DEF InHand
  <2>4. CASE s # t
    <3>1. reserved'[s] = reserved[s]
      BY <1>1, <2>1, <2>4
    <3> QED BY <1>1, <1>2, <1>3, <2>1, <3>1, HeldByOthers
  <2> QED BY <2>3, <2>4
<1>6. CASE Write(p)
  <2>1. /\ dash' = [dash EXCEPT ![h[p].d] = h[p].slug] /\ reserved' = reserved
        /\ h[p].d \in Dashboards /\ dash[h[p].d] = Absent
        /\ reserved[h[p].slug] = h[p].d /\ h[p].pc = "write"
    BY <1>1, <1>6 DEF Write, Knows, Idle
  <2>2. CASE h[p].slug = s
    BY <1>1, <2>1, <2>2
  <2>3. CASE h[p].slug # s
    <3>1. dash[reserved[s]] = s => reserved[s] # h[p].d
      BY <2>1
    <3>2. reserved[s] \in Dashboards
      BY <1>1, <2>1
    <3>3. dash[reserved[s]] = s => dash'[reserved'[s]] = s
      BY <1>1, <2>1, <3>1, <3>2
    <3> QED BY <1>1, <1>2, <1>3, <2>1, <2>3, <3>3, HeldByOthers
  <2> QED BY <2>2, <2>3
<1>7. CASE WriteFails(p)
  <2>1. /\ UNCHANGED <<reserved, dash>> /\ h[p].pc = "write"
        /\ h' = [h EXCEPT ![p] = [h[p] EXCEPT !.pc = "release"]]
    BY <1>7 DEF WriteFails, Goto, Orderly
  <2>2. h'[p].pc = "release" /\ h'[p].d = h[p].d /\ h'[p].slug = h[p].slug
    BY <1>1, <2>1 DEF HandlerRecord
  <2> QED BY <1>2, <1>3, <2>1, <2>2 DEF InHand
<1>8. CASE RenameCommits(p)
  <2>1. PICK t \in Slugs : /\ reserved' = [reserved EXCEPT ![t] = h[p].d]
                           /\ dash' = [dash EXCEPT ![h[p].d] = t]
    BY <1>8 DEF RenameCommits, Renamed
  <2>2. /\ h[p].d \in Dashboards /\ dash[h[p].d] = h[p].slug /\ h[p].slug \in Slugs
        /\ h[p].pc = "rename" /\ dash'[h[p].d] = t /\ reserved'[t] = h[p].d
    BY <1>1, <1>8, <2>1 DEF RenameCommits, Knows, Idle
  <2>3. CASE s # t /\ reserved[s] = h[p].d /\ dash[reserved[s]] = s
    <3>1. h' = [h EXCEPT ![p] = [h[p] EXCEPT !.pc = "release"]] /\ h[p].slug = s
      BY <1>8, <2>2, <2>3 DEF RenameCommits, Goto
    <3>2. h'[p].pc = "release" /\ h'[p].d = h[p].d /\ h'[p].slug = s
      BY <1>1, <3>1 DEF HandlerRecord
    <3>3. reserved'[s] = h[p].d
      BY <1>1, <2>1, <2>3
    <3> QED BY <3>2, <3>3 DEF InHand
  <2>4. CASE s # t /\ ~(reserved[s] = h[p].d /\ dash[reserved[s]] = s)
    <3>1. reserved'[s] = reserved[s]
      BY <1>1, <2>1, <2>4
    <3>2. reserved[s] \in Dashboards
      BY <1>1, <3>1
    <3>3. dash[reserved[s]] = s => dash'[reserved'[s]] = s
      BY <1>1, <2>1, <2>4, <3>1, <3>2
    <3> QED BY <1>1, <1>2, <1>3, <2>2, <3>1, <3>3, HeldByOthers
  <2>5. CASE s = t
    BY <2>2, <2>5
  <2> QED BY <2>3, <2>4, <2>5
<1>9. CASE Remove(p)
  <2>1. /\ dash' = [dash EXCEPT ![h[p].d] = Deleted] /\ reserved' = reserved
        /\ h[p].d \in Dashboards /\ dash[h[p].d] = h[p].slug /\ h[p].pc = "delete"
        /\ h' = [h EXCEPT ![p] = [h[p] EXCEPT !.pc = "release"]]
    BY <1>1, <1>9 DEF Remove, Knows, Idle, Goto
  <2>2. h'[p].pc = "release" /\ h'[p].d = h[p].d /\ h'[p].slug = h[p].slug
    BY <1>1, <2>1 DEF HandlerRecord
  <2>3. CASE reserved[s] = h[p].d /\ dash[reserved[s]] = s
    BY <2>1, <2>2, <2>3 DEF InHand
  <2>4. CASE ~(reserved[s] = h[p].d /\ dash[reserved[s]] = s)
    <3>1. reserved[s] \in Dashboards
      BY <1>1, <2>1
    <3>2. dash[reserved[s]] = s => dash'[reserved'[s]] = s
      BY <1>1, <2>1, <2>4, <3>1
    <3> QED BY <1>1, <1>2, <1>3, <2>1, <3>2, HeldByOthers
  <2> QED BY <2>3, <2>4
<1>10. CASE ReleaseSlug(p)
  <2>1. /\ reserved' = [reserved EXCEPT ![h[p].slug] = Free] /\ dash' = dash
        /\ h[p].slug \in Slugs
    BY <1>1, <1>10, <1>2 DEF ReleaseSlug, Knows
  <2>2. s # h[p].slug /\ reserved'[s] = reserved[s]
    BY <1>1, <2>1
  <2> QED BY <1>1, <1>2, <1>3, <2>1, <2>2, HeldByOthers
<1>11. CASE \/ Create(p) \/ TryNext(p) \/ ReserveFails(p) \/ Rename(p) \/ RenameFails(p)
           \/ Delete(p) \/ RemoveFails(p) \/ Crash(p)
  <2>1. UNCHANGED <<reserved, dash>> /\ h[p].pc \notin {"write", "release"}
    BY <1>2, <1>11 DEF Create, TryNext, ReserveFails, Rename, RenameFails, Delete,
                       RemoveFails, Crash, Idle
  <2> QED BY <1>4, <2>1
<1> QED BY <1>5, <1>6, <1>7, <1>8, <1>9, <1>10, <1>11 DEF Step

\* Slugs that no dashboard uses come back, unless something died with them.
THEOREM Returned ==
  ASSUME Orderly
  PROVE  Spec => []NoOrphans
<1>1. Init => IInv /\ Held
  <2>1. Init => Held
    BY DEF Init, Held
  <2> QED BY <2>1, InitIInv
<1>2. IInv /\ Held /\ [Next]_vars => (IInv /\ Held)'
  <2> SUFFICES ASSUME IInv, Held, [Next]_vars PROVE (IInv /\ Held)'
    OBVIOUS
  <2>1. IInv'
    BY NextIInv
  <2>2. CASE UNCHANGED vars
    BY <2>1, <2>2 DEF vars, Held, InHand
  <2>3. CASE Next
    BY <2>1, <2>3, HeldStep DEF Next
  <2> QED BY <2>1, <2>2, <2>3
<1>3. IInv /\ Held => NoOrphans
  BY DEF Held, NoOrphans, InHand, Idle
<1> QED
  BY <1>1, <1>2, <1>3, PTL DEF Spec
=============================================================================
