----------------------------- MODULE Departments -----------------------------
(***************************************************************************)
(* Departments (api/admin/departments/route.ts): a document per department *)
(* lists its members, the document of a user names his department, and     *)
(* some readers ask the one, some the other.  Names are checked before     *)
(* they are written.  Every member is moved in a transaction of its own,   *)
(* which reads the user's document and is one step here; a request dies    *)
(* between two of them as it may.                                          *)
(***************************************************************************)
EXTENDS Naturals

CONSTANTS Admins, Users, Depts, Names,
          Nobody        \* no department, no name, nothing

ASSUME DepartmentsAssumption == Nobody \notin Depts \cup Names

VARIABLES
  doc,         \* departments/{id}; an id is used once
  department,  \* users/{uid}.department
  h,           \* the administrators' requests
  raced        \* history: names written while another request was about to

vars == <<doc, department, h, raced>>

NoDoc == [state |-> "free", name |-> Nobody, members |-> {}]
GoneDoc == [NoDoc EXCEPT !.state = "deleted"]
Live == [state : {"live"}, name : Names, members : SUBSET Users]

Idle == [pc |-> "idle", id |-> Nobody, name |-> Nobody, add |-> {}, remove |-> {}]
Request == [pc : {"idle", "creating", "patching", "naming", "moving", "deleting"},
            id : Depts \cup {Nobody}, name : Names \cup {Nobody},
            add : SUBSET Users, remove : SUBSET Users]

TypeOK == /\ doc \in [Depts -> Live \cup {NoDoc, GoneDoc}]
          /\ department \in [Users -> Depts \cup {Nobody}]
          /\ h \in [Admins -> Request]
          /\ raced \in SUBSET Names

Init == /\ doc = [d \in Depts |-> NoDoc]
        /\ department = [u \in Users |-> Nobody]
        /\ h = [a \in Admins |-> Idle]
        /\ raced = {}

IsLive(d) == doc[d].state = "live"

\* The query on the name, without the department that is being renamed.
\*
\* Mutant: only a new department's name is checked.
TakenIfNew(n, d) == d = Nobody /\ \E e \in Depts : IsLive(e) /\ doc[e].name = n

Taken(n, d) == \E e \in Depts \ {d} : IsLive(e) /\ doc[e].name = n

\* The requests that have found the name free and will write it.
Naming(n) == {a \in Admins : h[a].pc \in {"creating", "naming"} /\ h[a].name = n}

\* A name that another request is about to write as well.
Raced(a) == IF Naming(h[a].name) \ {a} # {} THEN raced \cup {h[a].name} ELSE raced

-----------------------------------------------------------------------------
\* POST

StartCreate(a, n) ==
  /\ h[a].pc = "idle"
  /\ ~Taken(n, Nobody)
  /\ h' = [h EXCEPT ![a] = [Idle EXCEPT !.pc = "creating", !.name = n]]
  /\ UNCHANGED <<doc, department, raced>>

Create(a) ==
  /\ h[a].pc = "creating"
  /\ \E d \in Depts :
       /\ doc[d].state = "free"
       /\ doc' = [doc EXCEPT ![d] = [state |-> "live", name |-> h[a].name, members |-> {}]]
  /\ raced' = Raced(a)
  /\ h' = [h EXCEPT ![a] = Idle]
  /\ UNCHANGED department

-----------------------------------------------------------------------------
\* PATCH: the name first, then the additions, then the removals.

StartPatch(a, d) ==
  /\ h[a].pc = "idle"
  /\ IsLive(d)
  /\ \E n \in Names \cup {Nobody}, add \in SUBSET Users, remove \in SUBSET Users :
       h' = [h EXCEPT ![a] = [pc |-> IF n = Nobody THEN "moving" ELSE "patching",
                              id |-> d, name |-> n, add |-> add, remove |-> remove]]
  /\ UNCHANGED <<doc, department, raced>>

CheckName(a) ==
  /\ h[a].pc = "patching"
  /\ ~Taken(h[a].name, h[a].id)
  /\ h' = [h EXCEPT ![a] = [h[a] EXCEPT !.pc = "naming"]]
  /\ UNCHANGED <<doc, department, raced>>

Rename(a) ==
  /\ h[a].pc = "naming"
  /\ IsLive(h[a].id)
  /\ doc' = [doc EXCEPT ![h[a].id] = [doc[h[a].id] EXCEPT !.name = h[a].name]]
  /\ raced' = Raced(a)
  /\ h' = [h EXCEPT ![a] = [h[a] EXCEPT !.pc = "moving"]]
  /\ UNCHANGED department

\* An update of a document that is not there fails the transaction.
BothThere(d, u) == /\ IsLive(d)
                   /\ department[u] # Nobody => IsLive(department[u])

\* The writes of the transaction that adds u to d.
\*
\* Mutant: the department he leaves keeps him on its list.
JoinedOnly(u, d) ==
  [doc EXCEPT ![d] = [doc[d] EXCEPT !.members = doc[d].members \cup {u}]]

Joined(u, d) ==
  [e \in Depts |->
     IF e = d THEN [doc[e] EXCEPT !.members = doc[e].members \cup {u}]
     ELSE IF e = department[u] THEN [doc[e] EXCEPT !.members = doc[e].members \ {u}]
     ELSE doc[e]]

AddMember(a, u) ==
  /\ h[a].pc = "moving"
  /\ u \in h[a].add
  /\ BothThere(h[a].id, u)
  /\ doc' = Joined(u, h[a].id)
  /\ department' = [department EXCEPT ![u] = h[a].id]
  /\ h' = [h EXCEPT ![a] = [h[a] EXCEPT !.add = h[a].add \ {u}]]
  /\ UNCHANGED raced

\* The user keeps a department that he has been moved to meanwhile.
\*
\* Mutant: he is taken out of whatever he is in.
OutOfAny(u, d) == Nobody

AfterLeaving(u, d) == IF department[u] = d THEN Nobody ELSE department[u]

RemoveMember(a, u) ==
  /\ h[a].pc = "moving"
  /\ h[a].add = {}
  /\ u \in h[a].remove
  /\ IsLive(h[a].id)
  /\ doc' = [doc EXCEPT ![h[a].id] =
               [doc[h[a].id] EXCEPT !.members = doc[h[a].id].members \ {u}]]
  /\ department' = [department EXCEPT ![u] = AfterLeaving(u, h[a].id)]
  /\ h' = [h EXCEPT ![a] = [h[a] EXCEPT !.remove = h[a].remove \ {u}]]
  /\ UNCHANGED raced

-----------------------------------------------------------------------------
\* DELETE: the members are those that the transaction reads.

StartDelete(a, d) ==
  /\ h[a].pc = "idle"
  /\ IsLive(d)
  /\ h' = [h EXCEPT ![a] = [Idle EXCEPT !.pc = "deleting", !.id = d]]
  /\ UNCHANGED <<doc, department, raced>>

Released(d) == [u \in Users |-> IF u \in doc[d].members /\ department[u] = d
                                THEN Nobody ELSE department[u]]

Delete(a) ==
  /\ h[a].pc = "deleting"
  /\ IsLive(h[a].id)
  /\ department' = Released(h[a].id)
  /\ doc' = [doc EXCEPT ![h[a].id] = GoneDoc]
  /\ h' = [h EXCEPT ![a] = Idle]
  /\ UNCHANGED raced

\* The answer, a refusal, a document that is gone, a call that fails or a crash:
\* what has been written stays.
Return(a) == /\ h[a].pc # "idle"
             /\ h' = [h EXCEPT ![a] = Idle]
             /\ UNCHANGED <<doc, department, raced>>

Next == \E a \in Admins :
          \/ \E n \in Names : StartCreate(a, n)
          \/ \E d \in Depts : StartPatch(a, d) \/ StartDelete(a, d)
          \/ Create(a) \/ CheckName(a) \/ Rename(a) \/ Delete(a) \/ Return(a)
          \/ \E u \in Users : AddMember(a, u) \/ RemoveMember(a, u)

Spec == Init /\ [][Next]_vars
-----------------------------------------------------------------------------
\* The two records of who is where agree: who may see a dashboard is asked of
\* memberUids (permissions.ts:94), who may use an MCP server of the user's own
\* document (mcp-access.ts:25), and a move concerns two or three documents.
OneDepartment ==
  \A u \in Users, d \in Depts : u \in doc[d].members <=> department[u] = d

\* No two departments have one name, unless two requests were about to write it
\* at the same time: the check is not part of the write.
UniqueNames ==
  \A d, e \in Depts : d # e /\ IsLive(d) /\ IsLive(e) /\ doc[d].name = doc[e].name
                        => doc[d].name \in raced

\* As the member lists tell it, nobody is ever in two departments, or for a
\* moment in none while he is moved, or taken out of one he was not to leave.
In(u) == IF \E d \in Depts : u \in doc[d].members
         THEN CHOOSE d \in Depts : u \in doc[d].members ELSE Nobody
Listed == INSTANCE Membership WITH open <- {d \in Depts : IsLive(d)},
                                   dept <- [u \in Users |-> In(u)]
ImplementsMembership == Listed!Spec
=============================================================================
