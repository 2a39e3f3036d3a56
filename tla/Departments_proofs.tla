------------------------- MODULE Departments_proofs -------------------------
(***************************************************************************)
(* For any number of administrators, users, departments and names: the two *)
(* records of membership agree, the member lists implement Membership, and *)
(* names are unique but for races.                                         *)
(***************************************************************************)
EXTENDS Departments, TLAPS

USE DepartmentsAssumption

Doc == Live \cup {NoDoc, GoneDoc}

LEMMA DocFacts ==
  /\ NoDoc \in Doc /\ GoneDoc \in Doc /\ Idle \in Request
  /\ NoDoc.state = "free" /\ GoneDoc.state = "deleted"
  /\ NoDoc.members = {} /\ GoneDoc.members = {}
  /\ \A x \in Doc : /\ x.members \in SUBSET Users
                    /\ x.state = "live" <=> x \in Live
                    /\ x.state # "live" => x.members = {}
BY DEF Doc, Live, NoDoc, GoneDoc, Idle, Request

\* What the transaction of a move writes.
LEMMA JoinedDocs ==
  ASSUME TypeOK, OneDepartment, NEW u \in Users, NEW d \in Depts, BothThere(d, u)
  PROVE  /\ Joined(u, d) \in [Depts -> Doc]
         /\ \A e \in Depts : /\ Joined(u, d)[e].state = doc[e].state
                             /\ Joined(u, d)[e].name = doc[e].name
                             /\ e = d => Joined(u, d)[e].members = doc[e].members \cup {u}
                             /\ e # d => Joined(u, d)[e].members = doc[e].members \ {u}
<1>1. SUFFICES ASSUME NEW e \in Depts
               PROVE  /\ Joined(u, d)[e] \in Doc
                      /\ Joined(u, d)[e].state = doc[e].state
                      /\ Joined(u, d)[e].name = doc[e].name
                      /\ e = d => Joined(u, d)[e].members = doc[e].members \cup {u}
                      /\ e # d => Joined(u, d)[e].members = doc[e].members \ {u}
  BY DEF Joined
<1>2. doc[e] \in Doc
  BY DEF TypeOK, Doc
<1>3. CASE e = d
  <2>1. doc[e] \in Live
    BY <1>2, <1>3, DocFacts DEF BothThere, IsLive
  <2>2. Joined(u, d)[e] = [doc[e] EXCEPT !.members = doc[e].members \cup {u}]
    BY <1>3 DEF Joined
  <2> QED BY <1>3, <2>1, <2>2 DEF Live, Doc
<1>4. CASE e # d /\ e = department[u]
  <2>1. doc[e] \in Live
    BY <1>2, <1>4, DocFacts DEF BothThere, IsLive
  <2>2. Joined(u, d)[e] = [doc[e] EXCEPT !.members = doc[e].members \ {u}]
    BY <1>4 DEF Joined
  <2> QED BY <1>4, <2>1, <2>2 DEF Live, Doc
<1>5. CASE e # d /\ e # department[u]
  <2>1. u \notin doc[e].members
    BY <1>5 DEF OneDepartment
  <2>2. Joined(u, d)[e] = doc[e]
    BY <1>5 DEF Joined
  <2> QED BY <1>2, <1>5, <2>1, <2>2
<1> QED BY <1>3, <1>4, <1>5


\* What a request knows at each step.
Known == \A a \in Admins :
  /\ h[a].pc \in {"creating", "patching", "naming"} => h[a].name \in Names
  /\ h[a].pc \in {"patching", "naming", "moving", "deleting"} => h[a].id \in Depts
  /\ h[a].pc = "creating" => h[a].id = Nobody

\* A name that somebody has found free is free, but for races.
StillFree == \A a \in Admins, d \in Depts :
  /\ h[a].pc \in {"creating", "naming"}
  /\ IsLive(d)
  /\ doc[d].name = h[a].name
  => d = h[a].id \/ h[a].name \in raced

IInv == TypeOK /\ OneDepartment /\ Known /\ StillFree /\ UniqueNames

LEMMA Init_IInv == Init => IInv
<1> SUFFICES ASSUME Init PROVE IInv
  OBVIOUS
<1>1. TypeOK
  BY DocFacts DEF Init, TypeOK, Doc
<1>2. OneDepartment
  BY DocFacts DEF Init, OneDepartment
<1>3. Known /\ StillFree /\ UniqueNames
  BY DocFacts DEF Init, Known, StillFree, UniqueNames, IsLive, Idle
<1> QED BY <1>1, <1>2, <1>3 DEF IInv

\* What a step does to the documents and the users.
Moved(u, d) == /\ BothThere(d, u)
               /\ doc' = Joined(u, d)
               /\ department' = [department EXCEPT ![u] = d]
Left(u, d) == /\ IsLive(d)
              /\ doc' = [doc EXCEPT ![d] = [doc[d] EXCEPT !.members = doc[d].members \ {u}]]
              /\ department' = [department EXCEPT ![u] = AfterLeaving(u, d)]
Gone(d) == /\ IsLive(d)
           /\ doc' = [doc EXCEPT ![d] = GoneDoc]
           /\ department' = Released(d)
Opened(d, n) == /\ doc[d].state = "free"
                /\ doc' = [doc EXCEPT ![d] = [state |-> "live", name |-> n, members |-> {}]]
                /\ UNCHANGED department
Renamed(d, n) == /\ IsLive(d)
                 /\ doc' = [doc EXCEPT ![d] = [doc[d] EXCEPT !.name = n]]
                 /\ UNCHANGED department

Effect == \/ UNCHANGED <<doc, department>>
          \/ \E d \in Depts : Gone(d)
          \/ \E d \in Depts, u \in Users : Moved(u, d) \/ Left(u, d)
          \/ \E d \in Depts, n \in Names : Opened(d, n) \/ Renamed(d, n)

LEMMA Effects == TypeOK /\ Known /\ [Next]_vars => Effect
<1> SUFFICES ASSUME TypeOK, Known, [Next]_vars PROVE Effect
  OBVIOUS
<1>1. ASSUME NEW a \in Admins, Create(a) PROVE Effect
  <2>1. h[a].name \in Names
    BY <1>1 DEF Known, Create
  <2>2. \E d \in Depts : Opened(d, h[a].name)
    BY <1>1 DEF Create, Opened
  <2> QED BY <2>1, <2>2 DEF Effect
<1>2. ASSUME NEW a \in Admins, Rename(a) PROVE Effect
  <2>1. h[a].name \in Names /\ h[a].id \in Depts
    BY <1>2 DEF Known, Rename
  <2>2. Renamed(h[a].id, h[a].name)
    BY <1>2 DEF Rename, Renamed
  <2> QED BY <2>1, <2>2 DEF Effect
<1>3. ASSUME NEW a \in Admins, NEW u \in Users, AddMember(a, u) PROVE Effect
  <2>1. h[a].id \in Depts
    BY <1>3 DEF Known, AddMember
  <2>2. Moved(u, h[a].id)
    BY <1>3 DEF AddMember, Moved
  <2> QED BY <2>1, <2>2 DEF Effect
<1>4. ASSUME NEW a \in Admins, NEW u \in Users, RemoveMember(a, u) PROVE Effect
  <2>1. h[a].id \in Depts
    BY <1>4 DEF Known, RemoveMember
  <2>2. Left(u, h[a].id)
    BY <1>4 DEF RemoveMember, Left
  <2> QED BY <2>1, <2>2 DEF Effect
<1>5. ASSUME NEW a \in Admins, Delete(a) PROVE Effect
  <2>1. h[a].id \in Depts
    BY <1>5 DEF Known, Delete
  <2>2. Gone(h[a].id)
    BY <1>5 DEF Delete, Gone
  <2> QED BY <2>1, <2>2 DEF Effect
<1>6. ASSUME NEW a \in Admins,
             \/ \E n \in Names : StartCreate(a, n)
             \/ \E d \in Depts : StartPatch(a, d) \/ StartDelete(a, d)
             \/ CheckName(a) \/ Return(a)
      PROVE  Effect
  BY <1>6 DEF Effect, StartCreate, StartPatch, StartDelete, CheckName, Return
<1> QED BY <1>1, <1>2, <1>3, <1>4, <1>5, <1>6 DEF Next, vars, Effect

\* The documents after each effect.
LEMMA DocsAfter ==
  ASSUME TypeOK, OneDepartment, Effect
  PROVE  /\ doc' \in [Depts -> Doc]
         /\ department' \in [Users -> Depts \cup {Nobody}]
         /\ OneDepartment'
<1> DEFINE G == /\ doc' \in [Depts -> Doc]
                /\ department' \in [Users -> Depts \cup {Nobody}]
                /\ OneDepartment'
<1>0. /\ doc \in [Depts -> Doc]
      /\ department \in [Users -> Depts \cup {Nobody}]
      /\ \A d \in Depts : doc[d] \in Doc
  BY DEF TypeOK, Doc
<1>1. CASE UNCHANGED <<doc, department>>
  BY <1>0, <1>1 DEF OneDepartment
<1>2. ASSUME NEW d \in Depts, Gone(d) PROVE G
  <2>1. doc' \in [Depts -> Doc]
    BY <1>0, <1>2, DocFacts DEF Gone
  <2>2. department' \in [Users -> Depts \cup {Nobody}]
    BY <1>0, <1>2 DEF Gone, Released
  <2>3. OneDepartment'
    BY <1>0, <1>2, DocFacts DEF Gone, Released, OneDepartment
  <2> QED BY <2>1, <2>2, <2>3
<1>3. ASSUME NEW d \in Depts, NEW u \in Users, Moved(u, d) PROVE G
  <2>1. /\ doc' \in [Depts -> Doc]
        /\ \A e \in Depts : /\ e = d => doc'[e].members = doc[e].members \cup {u}
                            /\ e # d => doc'[e].members = doc[e].members \ {u}
    BY <1>3, JoinedDocs DEF Moved
  <2>2. department' \in [Users -> Depts \cup {Nobody}]
    BY <1>0, <1>3 DEF Moved
  <2>3. OneDepartment'
    <3> SUFFICES ASSUME NEW v \in Users, NEW e \in Depts
                 PROVE  v \in doc'[e].members <=> department'[v] = e
      BY DEF OneDepartment
    <3>1. v \in doc[e].members <=> department[v] = e
      BY DEF OneDepartment
    <3>2. department'[v] = IF v = u THEN d ELSE department[v]
      BY <1>0, <1>3 DEF Moved
    <3> QED BY <2>1, <3>1, <3>2
  <2> QED BY <2>1, <2>2, <2>3
<1>4. ASSUME NEW d \in Depts, NEW u \in Users, Left(u, d) PROVE G
  <2>0. doc[d] \in Live
    BY <1>0, <1>4, DocFacts DEF Left, IsLive
  <2>1. /\ doc' \in [Depts -> Doc]
        /\ \A e \in Depts : doc'[e].members = IF e = d THEN doc[e].members \ {u}
                                                       ELSE doc[e].members
    BY <1>0, <1>4, <2>0 DEF Left, Live, Doc
  <2>2. department' \in [Users -> Depts \cup {Nobody}]
    BY <1>0, <1>4 DEF Left, AfterLeaving
  <2>3. OneDepartment'
    <3> SUFFICES ASSUME NEW v \in Users, NEW e \in Depts
                 PROVE  v \in doc'[e].members <=> department'[v] = e
      BY DEF OneDepartment
    <3>1. v \in doc[e].members <=> department[v] = e
      BY DEF OneDepartment
    <3>2. department'[v] = IF v = u THEN (IF department[u] = d THEN Nobody ELSE department[u])
                                    ELSE department[v]
      BY <1>0, <1>4 DEF Left, AfterLeaving
    <3> QED BY <2>1, <3>1, <3>2
  <2> QED BY <2>1, <2>2, <2>3
<1>5. ASSUME NEW d \in Depts, NEW n \in Names, Opened(d, n) PROVE G
  <2>1. doc[d].members = {}
    BY <1>0, <1>5, DocFacts DEF Opened
  <2>2. [state |-> "live", name |-> n, members |-> {}] \in Doc
    BY DEF Doc, Live
  <2>3. /\ doc' \in [Depts -> Doc]
        /\ \A e \in Depts : doc'[e].members = doc[e].members
    BY <1>0, <1>5, <2>1, <2>2 DEF Opened
  <2> QED BY <1>0, <1>5, <2>3 DEF Opened, OneDepartment
<1>6. ASSUME NEW d \in Depts, NEW n \in Names, Renamed(d, n) PROVE G
  <2>0. doc[d] \in Live
    BY <1>0, <1>6, DocFacts DEF Renamed, IsLive
  <2>1. /\ doc' \in [Depts -> Doc]
        /\ \A e \in Depts : doc'[e].members = doc[e].members
    BY <1>0, <1>6, <2>0 DEF Renamed, Live, Doc
  <2> QED BY <1>0, <1>6, <2>1 DEF Renamed, OneDepartment
<1> QED BY <1>1, <1>2, <1>3, <1>4, <1>5, <1>6 DEF Effect

\* What a step does to the names: every live document keeps its name, or one
\* gets the name that the request a has checked.
Kept(d) == (IsLive(d))' => IsLive(d) /\ doc'[d].name = doc[d].name
NoName == \A d \in Depts : Kept(d)
Named(a, w) == /\ h[a].pc \in {"creating", "naming"}
               /\ doc'[w].name = h[a].name
               /\ h[a].pc = "naming" => w = h[a].id
               /\ raced' = Raced(a)
               /\ \A d \in Depts \ {w} : Kept(d)
NameStep(a) == \/ NoName /\ raced' = raced
               \/ \E w \in Depts : Named(a, w)

\* What a step does to the request that takes it.
Fit(r) == /\ r \in Request
          /\ r.pc \in {"creating", "patching", "naming"} => r.name \in Names
          /\ r.pc \in {"patching", "naming", "moving", "deleting"} => r.id \in Depts
          /\ r.pc = "creating" => r.id = Nobody
          /\ r.pc \in {"creating", "naming"} => ~Taken(r.name, r.id) /\ doc' = doc
Turn(a) == /\ \E r : Fit(r) /\ h' = [h EXCEPT ![a] = r]
           /\ NameStep(a)

LEMMA IdleFits == Fit(Idle)
BY DEF Fit, Idle, Request

\* A request without a name to write.
LEMMA SameNames == ASSUME TypeOK, doc' = doc PROVE NoName
BY DEF NoName, Kept, IsLive

LEMMA Turns ==
  ASSUME TypeOK, OneDepartment, Known, NEW a \in Admins,
         \/ \E n \in Names : StartCreate(a, n)
         \/ \E d \in Depts : StartPatch(a, d) \/ StartDelete(a, d)
         \/ Create(a) \/ CheckName(a) \/ Rename(a) \/ Delete(a) \/ Return(a)
         \/ \E u \in Users : AddMember(a, u) \/ RemoveMember(a, u)
  PROVE  Turn(a)
<1>0. /\ h \in [Admins -> Request] /\ h[a] \in Request
      /\ doc \in [Depts -> Doc] /\ \A d \in Depts : doc[d] \in Doc
      /\ h[a].pc \in {"creating", "patching", "naming"} => h[a].name \in Names
      /\ h[a].pc \in {"patching", "naming", "moving", "deleting"} => h[a].id \in Depts
  BY DEF TypeOK, Known, Doc
<1>1. ASSUME NEW n \in Names, StartCreate(a, n) PROVE Turn(a)
  <2>1. Fit([Idle EXCEPT !.pc = "creating", !.name = n])
    BY <1>1 DEF Fit, Idle, Request, StartCreate
  <2>2. NoName /\ raced' = raced
    BY <1>1, SameNames DEF StartCreate
  <2> QED BY <1>1, <2>1, <2>2 DEF Turn, NameStep, StartCreate
<1>2. ASSUME NEW d \in Depts, StartPatch(a, d) PROVE Turn(a)
  <2>1. PICK n \in Names \cup {Nobody}, add \in SUBSET Users, remove \in SUBSET Users :
          h' = [h EXCEPT ![a] = [pc |-> IF n = Nobody THEN "moving" ELSE "patching",
                                 id |-> d, name |-> n, add |-> add, remove |-> remove]]
    BY <1>2 DEF StartPatch
  <2>2. Fit([pc |-> IF n = Nobody THEN "moving" ELSE "patching",
             id |-> d, name |-> n, add |-> add, remove |-> remove])
    <3>1. CASE n = Nobody
      BY <3>1 DEF Fit, Request
    <3>2. CASE n # Nobody
      BY <3>2 DEF Fit, Request
    <3> QED BY <3>1, <3>2
  <2>3. NoName /\ raced' = raced
    BY <1>2, SameNames DEF StartPatch
  <2> QED BY <2>1, <2>2, <2>3 DEF Turn, NameStep
<1>3. ASSUME NEW d \in Depts, StartDelete(a, d) PROVE Turn(a)
  <2>1. Fit([Idle EXCEPT !.pc = "deleting", !.id = d])
    BY DEF Fit, Idle, Request
  <2>2. NoName /\ raced' = raced
    BY <1>3, SameNames DEF StartDelete
  <2> QED BY <1>3, <2>1, <2>2 DEF Turn, NameStep, StartDelete
<1>4. ASSUME Create(a) PROVE Turn(a)
  <2>1. PICK w \in Depts :
          /\ doc[w].state = "free"
          /\ doc' = [doc EXCEPT ![w] = [state |-> "live", name |-> h[a].name, members |-> {}]]
    BY <1>4 DEF Create
  <2>2. /\ doc'[w].name = h[a].name
        /\ \A d \in Depts \ {w} : doc'[d] = doc[d]
    BY <1>0, <2>1
  <2>3. Named(a, w)
    BY <1>4, <2>2 DEF Create, Named, Kept, IsLive
  <2> QED BY <1>4, <2>3, IdleFits DEF Create, Turn, NameStep
<1>5. ASSUME CheckName(a) PROVE Turn(a)
  <2>1. Fit([h[a] EXCEPT !.pc = "naming"])
    BY <1>0, <1>5 DEF Fit, Request, CheckName
  <2>2. NoName /\ raced' = raced
    BY <1>5, SameNames DEF CheckName
  <2> QED BY <1>5, <2>1, <2>2 DEF Turn, NameStep, CheckName
<1>6. ASSUME Rename(a) PROVE Turn(a)
  <2>1. Fit([h[a] EXCEPT !.pc = "moving"])
    BY <1>0, <1>6 DEF Fit, Request, Rename
  <2>2. h[a].id \in Depts /\ doc[h[a].id] \in Live
    BY <1>0, <1>6, DocFacts DEF Rename, IsLive
  <2>3. /\ doc'[h[a].id].name = h[a].name
        /\ \A d \in Depts \ {h[a].id} : doc'[d] = doc[d]
    BY <1>0, <1>6, <2>2 DEF Rename, Live
  <2>4. Named(a, h[a].id)
    BY <1>6, <2>3 DEF Rename, Named, Kept, IsLive
  <2> QED BY <1>6, <2>1, <2>2, <2>4 DEF Rename, Turn, NameStep
<1>7. ASSUME Delete(a) PROVE Turn(a)
  <2>1. NoName
    BY <1>0, <1>7, DocFacts DEF Delete, NoName, Kept, IsLive
  <2> QED BY <1>7, <2>1, IdleFits DEF Delete, Turn, NameStep
<1>8. ASSUME Return(a) PROVE Turn(a)
  BY <1>8, IdleFits, SameNames DEF Return, Turn, NameStep
<1>9. ASSUME NEW u \in Users, AddMember(a, u) PROVE Turn(a)
  <2>1. Fit([h[a] EXCEPT !.add = h[a].add \ {u}])
    BY <1>0, <1>9 DEF Fit, Request, AddMember
  <2>2. NoName
    BY <1>0, <1>9, JoinedDocs DEF AddMember, NoName, Kept, IsLive
  <2> QED BY <1>9, <2>1, <2>2 DEF Turn, NameStep, AddMember
<1>10. ASSUME NEW u \in Users, RemoveMember(a, u) PROVE Turn(a)
  <2>1. Fit([h[a] EXCEPT !.remove = h[a].remove \ {u}])
    BY <1>0, <1>10 DEF Fit, Request, RemoveMember
  <2>2. h[a].id \in Depts /\ doc[h[a].id] \in Live
    BY <1>0, <1>10, DocFacts DEF RemoveMember, IsLive
  <2>3. NoName
    BY <1>0, <1>10, <2>2 DEF RemoveMember, NoName, Kept, IsLive, Live
  <2> QED BY <1>10, <2>1, <2>3 DEF Turn, NameStep, RemoveMember
<1> QED BY <1>1, <1>2, <1>3, <1>4, <1>5, <1>6, <1>7, <1>8, <1>9, <1>10

\* Types and knowledge of the requests.
LEMMA TurnKnows ==
  ASSUME TypeOK, Known, NEW a \in Admins, Turn(a)
  PROVE  h' \in [Admins -> Request] /\ Known' /\ raced' \in SUBSET Names
<1>1. PICK r : Fit(r) /\ h' = [h EXCEPT ![a] = r]
  BY DEF Turn
<1>2. h' \in [Admins -> Request]
  BY <1>1 DEF TypeOK, Fit
<1>3. Known'
  BY <1>1 DEF TypeOK, Fit, Known
<1>4. raced' \in SUBSET Names
  <2>1. CASE raced' = raced
    BY <2>1 DEF TypeOK
  <2>2. ASSUME NEW w \in Depts, Named(a, w) PROVE raced' \in SUBSET Names
    BY <2>2 DEF Named, Raced, TypeOK, Known
  <2> QED BY <2>1, <2>2 DEF Turn, NameStep
<1> QED BY <1>2, <1>3, <1>4

\* The name that one request writes is raced if another has found it free too.
LEMMA TurnFree ==
  ASSUME IInv, NEW a \in Admins, Turn(a)
  PROVE  StillFree'
<1> USE DEF IInv
<1> SUFFICES ASSUME NEW b \in Admins, NEW d \in Depts,
                    h'[b].pc \in {"creating", "naming"},
                    (IsLive(d))', doc'[d].name = h'[b].name
             PROVE  d = h'[b].id \/ h'[b].name \in raced'
  BY DEF StillFree
<1>1. PICK r : Fit(r) /\ h' = [h EXCEPT ![a] = r]
  BY DEF Turn
<1>2. CASE b = a
  <2>1. h'[b] = r
    BY <1>1, <1>2 DEF TypeOK
  <2>2. ~Taken(r.name, r.id) /\ doc' = doc
    BY <1>1, <2>1 DEF Fit
  <2> QED BY <2>1, <2>2 DEF Taken, IsLive
<1>3. CASE b # a
  <2>1. h'[b] = h[b]
    BY <1>1, <1>3 DEF TypeOK
  <2>2. CASE Kept(d) /\ raced \subseteq raced'
    BY <2>1, <2>2 DEF Kept, StillFree
  <2>3. ASSUME NEW w \in Depts, Named(a, w)
        PROVE (Kept(d) /\ raced \subseteq raced') \/ h[b].name \in raced'
    <3>1. CASE d # w
      BY <2>3, <3>1 DEF Named, Raced
    <3>2. CASE d = w
      <4>1. h[a].name = h[b].name
        BY <2>1, <2>3, <3>2 DEF Named
      <4>2. b \in Naming(h[a].name) \ {a}
        BY <1>3, <2>1, <4>1 DEF Naming
      <4> QED BY <2>3, <4>1, <4>2 DEF Named, Raced
    <3> QED BY <3>1, <3>2
  <2>4. CASE NoName /\ raced' = raced
    BY <2>2, <2>4 DEF NoName
  <2> QED BY <2>1, <2>2, <2>3, <2>4 DEF Turn, NameStep
<1> QED BY <1>2, <1>3

LEMMA TurnUnique ==
  ASSUME IInv, NEW a \in Admins, Turn(a)
  PROVE  UniqueNames'
<1> USE DEF IInv
<1> SUFFICES ASSUME NEW d \in Depts, NEW e \in Depts, d # e,
                    (IsLive(d))', (IsLive(e))', doc'[d].name = doc'[e].name
             PROVE  doc'[d].name \in raced'
  BY DEF UniqueNames
<1>1. CASE Kept(d) /\ Kept(e) /\ raced \subseteq raced'
  BY <1>1 DEF Kept, UniqueNames
<1>2. ASSUME NEW w \in Depts, Named(a, w)
      PROVE  doc'[d].name \in raced'
  <2>1. raced \subseteq raced'
    BY <1>2 DEF Named, Raced
  <2>2. CASE w # d /\ w # e
    BY <1>1, <1>2, <2>1, <2>2 DEF Named
  <2>3. ASSUME NEW f \in Depts, f # w, IsLive(f), doc[f].name = h[a].name
        PROVE  h[a].name \in raced'
    <3>1. f # h[a].id
      <4>1. CASE h[a].pc = "creating"
        BY <4>1, DepartmentsAssumption DEF Known
      <4>2. CASE h[a].pc = "naming"
        BY <1>2, <2>3, <4>2 DEF Named
      <4> QED BY <1>2, <4>1, <4>2 DEF Named
    <3>2. h[a].name \in raced
      BY <1>2, <2>3, <3>1 DEF StillFree, Named
    <3> QED BY <2>1, <3>2
  <2>4. CASE w = d
    <3>1. Kept(e) /\ doc'[d].name = h[a].name
      BY <1>2, <2>4 DEF Named
    <3> QED BY <2>3, <2>4, <3>1 DEF Kept
  <2>5. CASE w = e
    <3>1. Kept(d) /\ doc'[e].name = h[a].name
      BY <1>2, <2>5 DEF Named
    <3> QED BY <2>3, <2>5, <3>1 DEF Kept
  <2> QED BY <2>2, <2>4, <2>5
<1>3. CASE NoName /\ raced' = raced
  BY <1>1, <1>3 DEF NoName
<1> QED BY <1>2, <1>3 DEF Turn, NameStep

LEMMA Step_IInv == IInv /\ [Next]_vars => IInv'
<1> SUFFICES ASSUME IInv, [Next]_vars PROVE IInv'
  OBVIOUS
<1> USE DEF IInv
<1>1. /\ doc' \in [Depts -> Doc]
      /\ department' \in [Users -> Depts \cup {Nobody}]
      /\ OneDepartment'
  BY Effects, DocsAfter
<1>2. CASE UNCHANGED vars
  <2>1. Known' /\ StillFree' /\ UniqueNames'
    BY <1>2 DEF vars, Known, StillFree, UniqueNames, IsLive
  <2> QED BY <1>1, <1>2, <2>1 DEF vars, TypeOK
<1>3. ASSUME NEW a \in Admins, Turn(a) PROVE IInv'
  BY <1>1, <1>3, TurnKnows, TurnFree, TurnUnique DEF TypeOK, Doc
<1>4. ASSUME Next PROVE \E a \in Admins : Turn(a)
  BY <1>4, Turns DEF Next
<1> QED BY <1>2, <1>3, <1>4

\* Every document and every request has its form.
THEOREM Types_hold == Spec => []TypeOK
<1>1. Init => IInv
  BY Init_IInv
<1>2. IInv /\ [Next]_vars => IInv'
  BY Step_IInv
<1>3. IInv => TypeOK
  BY DEF IInv
<1> QED BY <1>1, <1>2, <1>3, PTL DEF Spec

\* The two records of membership agree (route.ts:174-217, 277-294).
THEOREM Agreement == Spec => []OneDepartment
<1>1. Init => IInv
  BY Init_IInv
<1>2. IInv /\ [Next]_vars => IInv'
  BY Step_IInv
<1>3. IInv => OneDepartment
  BY DEF IInv
<1> QED BY <1>1, <1>2, <1>3, PTL DEF Spec

\* Names are unique but for races (route.ts:58, 146).
THEOREM Naming_unique == Spec => []UniqueNames
<1>1. Init => IInv
  BY Init_IInv
<1>2. IInv /\ [Next]_vars => IInv'
  BY Step_IInv
<1>3. IInv => UniqueNames
  BY DEF IInv
<1> QED BY <1>1, <1>2, <1>3, PTL DEF Spec

\* The member lists and the users' documents say the same.
Live_ids == {d \in Depts : IsLive(d)}
Lists == [u \in Users |-> In(u)]

LEMMA ListsAgree == ASSUME TypeOK, OneDepartment PROVE Lists = department
<1>1. ASSUME NEW u \in Users PROVE In(u) = department[u]
  <2>1. department[u] \in Depts \cup {Nobody}
    BY DEF TypeOK
  <2>2. \A d \in Depts : u \in doc[d].members <=> department[u] = d
    BY DEF OneDepartment
  <2>3. CASE department[u] \in Depts
    BY <2>2, <2>3 DEF In
  <2>4. CASE department[u] = Nobody
    BY <2>2, <2>4, DepartmentsAssumption DEF In
  <2> QED BY <2>1, <2>3, <2>4
<1> QED BY <1>1 DEF Lists, TypeOK

LEMMA StepsListed ==
  ASSUME TypeOK, OneDepartment, Effect, Lists = department, Lists' = department'
  PROVE  \/ Listed!Next
         \/ UNCHANGED <<Live_ids, Lists>>
<1> DEFINE G == \/ Listed!Next
                \/ UNCHANGED <<Live_ids, Lists>>
<1>0. /\ doc \in [Depts -> Doc] /\ \A d \in Depts : doc[d] \in Doc
      /\ department \in [Users -> Depts \cup {Nobody}]
  BY DEF TypeOK, Doc
<1>1. CASE UNCHANGED <<doc, department>>
  BY <1>1 DEF Live_ids, IsLive
<1>2. ASSUME NEW d \in Depts, Gone(d) PROVE G
  <2>1. d \in Live_ids /\ Live_ids' = Live_ids \ {d}
    BY <1>0, <1>2, DocFacts DEF Gone, Live_ids, IsLive
  <2>2. department' = [u \in Users |-> IF department[u] = d THEN Nobody ELSE department[u]]
    BY <1>2 DEF Gone, Released, OneDepartment
  <2>3. Listed!Dissolve(d)
    BY <2>1, <2>2 DEF Listed!Dissolve, Live_ids, Lists
  <2> QED BY <2>3 DEF Listed!Next
<1>3. ASSUME NEW d \in Depts, NEW u \in Users, Moved(u, d) PROVE G
  <2>1. Live_ids' = Live_ids
    BY <1>3, JoinedDocs DEF Moved, Live_ids, IsLive
  <2>2. d \in Live_ids
    BY <1>3 DEF Moved, BothThere, Live_ids
  <2>3. Listed!Move(u, d)
    BY <1>3, <2>1, <2>2 DEF Moved, Listed!Move, Live_ids, Lists
  <2> QED BY <2>3 DEF Listed!Next
<1>4. ASSUME NEW d \in Depts, NEW u \in Users, Left(u, d) PROVE G
  <2>0. doc[d] \in Live
    BY <1>0, <1>4, DocFacts DEF Left, IsLive
  <2>1. Live_ids' = Live_ids
    BY <1>0, <1>4, <2>0 DEF Left, Live_ids, IsLive, Live
  <2>2. CASE department[u] = d
    <3>1. Listed!Leave(u, d)
      BY <1>4, <2>1, <2>2 DEF Left, AfterLeaving, Listed!Leave, Live_ids, Lists
    <3> QED BY <3>1 DEF Listed!Next
  <2>3. CASE department[u] # d
    <3>1. department' = department
      BY <1>0, <1>4, <2>3 DEF Left, AfterLeaving
    <3> QED BY <2>1, <3>1
  <2> QED BY <2>2, <2>3
<1>5. ASSUME NEW d \in Depts, NEW n \in Names, Opened(d, n) PROVE G
  <2>1. d \notin Live_ids /\ Live_ids' = Live_ids \cup {d}
    BY <1>0, <1>5 DEF Opened, Live_ids, IsLive
  <2>2. Listed!Found(d)
    BY <1>5, <2>1 DEF Opened, Listed!Found, Live_ids, Lists
  <2> QED BY <2>2 DEF Listed!Next
<1>6. ASSUME NEW d \in Depts, NEW n \in Names, Renamed(d, n) PROVE G
  <2>0. doc[d] \in Live
    BY <1>0, <1>6, DocFacts DEF Renamed, IsLive
  <2>1. Live_ids' = Live_ids
    BY <1>0, <1>6, <2>0 DEF Renamed, Live_ids, IsLive, Live
  <2> QED BY <1>6, <2>1 DEF Renamed
<1> QED BY <1>1, <1>2, <1>3, <1>4, <1>5, <1>6 DEF Effect

\* What the member lists say implements Membership: nobody is in two departments
\* or loses his by a request that was not about it (route.ts:172-218, 272-297).
THEOREM Refinement == Spec => ImplementsMembership
<1>1. Init => Listed!Init
  <2> SUFFICES ASSUME Init PROVE Listed!Init
    OBVIOUS
  <2>1. Live_ids = {}
    BY DocFacts DEF Init, Live_ids, IsLive
  <2>2. Lists = [u \in Users |-> Nobody]
    BY DocFacts DEF Init, Lists, In
  <2> QED BY <2>1, <2>2 DEF Listed!Init, Live_ids, Lists
<1>2. IInv => Lists = department
  BY ListsAgree DEF IInv
<1>3. IInv' => (Lists = department)'
  BY <1>2, PTL
<1>4. IInv /\ IInv' /\ [Next]_vars => [Listed!Next]_(Listed!mvars)
  <2> SUFFICES ASSUME IInv, IInv', [Next]_vars
               PROVE  Listed!Next \/ UNCHANGED Listed!mvars
    OBVIOUS
  <2>1. Effect
    BY Effects DEF IInv
  <2>2. Lists = department /\ Lists' = department'
    BY <1>2, <1>3
  <2>3. Listed!Next \/ UNCHANGED <<Live_ids, Lists>>
    BY <2>1, <2>2, StepsListed DEF IInv
  <2> QED BY <2>3 DEF Listed!mvars, Live_ids, Lists
<1>5. Init => IInv
  BY Init_IInv
<1>6. IInv /\ [Next]_vars => IInv'
  BY Step_IInv
<1> QED BY <1>1, <1>4, <1>5, <1>6, PTL DEF Spec, ImplementsMembership, Listed!Spec
=============================================================================
