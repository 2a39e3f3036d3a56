---------------------------- MODULE Editing_proofs ----------------------------
(***************************************************************************)
(* What people edit at the same time: the fields of dashboards and the     *)
(* data sources.                                                           *)
(*                                                                         *)
(* FieldValues, for every set of keys, types and values, any number of     *)
(* requests and any way in which they overlap: stored values are valid for *)
(* their fields, audited, and not lost, unless a writer's reading was out  *)
(* of date.                                                                *)
(*                                                                         *)
(* SourceEditing (the second part), for any number of administrators and   *)
(* sources: a spreadsheet is stored only with headers an inspection has    *)
(* seen, and nobody overwrites a version he has not seen.                  *)
(***************************************************************************)
EXTENDS FieldValues, SourceEditing, TLAPS

IInv == TypeOK /\ ValidForField /\ LastAudited

USE FieldValuesAssumption

LEMMA Init_IInv == Init => IInv
<1> SUFFICES ASSUME Init PROVE IInv
  OBVIOUS
<1>1. /\ NoField \in AnyField
      /\ NoRequest \in Request
  BY DEF NoField, AnyField, NoRequest, Request
<1>2. TypeOK
  BY <1>1 DEF Init, TypeOK, Value
<1> QED BY <1>2 DEF Init, IInv, ValidForField, Fits, LastAudited, NoField

\* What a schema save leaves in a field is a field.
LEMMA UpsertedField ==
  ASSUME TypeOK, NEW k \in Keys, NEW definition \in Definition,
         Exists(k) \/ made[k] < MaxId
  PROVE  /\ Upserted(k, definition) \in Field
         /\ [Upserted(k, definition) EXCEPT !.value = Nothing] \in Field
<1>1. /\ field[k] \in AnyField
      /\ made[k] \in 0..MaxId
  BY DEF TypeOK
<1>2. CASE Exists(k)
  <2>1. field[k] \in Field
    BY <1>1, <1>2 DEF Exists, AnyField, NoField
  <2> QED BY <2>1, <1>2 DEF Upserted, Field, Definition, Value
<1>3. CASE ~Exists(k) /\ made[k] < MaxId
  <2>1. field[k] = NoField
    BY <1>1, <1>3 DEF Exists, AnyField, Field
  <2>2. made[k] + 1 \in 1..MaxId
    BY <1>1, <1>3
  <2> QED BY <2>1, <2>2, <1>3 DEF Upserted, Field, Definition, NoField, Value
<1> QED BY <1>2, <1>3

\* A value that is stored fits the field that its writer saw.
LEMMA StoredValue ==
  ASSUME TypeOK, NEW r \in Requests, NEW k \in Keys, NEW v \in Sent,
         h[r].seen[k].id # 0, Valid(r, k, v)
  PROVE  /\ Stored(r, k, v) \in Value
         /\ Stored(r, k, v) \in Values =>
              Sanitized[h[r].seen[k].type][Stored(r, k, v)] # Nothing
         /\ Stored(r, k, v) = Empty =>
              \E w \in Values : Sanitized[h[r].seen[k].type][w] = Empty
         /\ Stored(r, k, v) = Nothing => ~h[r].seen[k].required
<1>1. h[r].seen[k] \in AnyField
  BY DEF TypeOK, Request
<1>2. h[r].seen[k].type \in Types
  BY <1>1 DEF AnyField, Field, NoField
<1>3. CASE v = Nothing
  BY <1>3 DEF Stored, StoredAs, Valid, Accepted, Blank, Value
<1>4. CASE v # Nothing
  <2>1. v \in Values
    BY <1>4 DEF Sent
  <2>2. /\ Stored(r, k, v) = Sanitized[h[r].seen[k].type][v]
        /\ Stored(r, k, v) # Nothing
    BY <1>4, <2>1 DEF Stored, StoredAs, Valid, Accepted, Blank
  <2> QED BY <2>1, <2>2, <1>2 DEF Value
<1> QED BY <1>3, <1>4

\* What a schema save does, for what was wanted.
SavedAs(r, wanted) ==
  /\ \A k \in Cleared(r, wanted) : field[k].id = h[r].seen[k].id
  /\ \A k \in Wanted(wanted) : Exists(k) \/ made[k] < MaxId
  /\ field' = [k \in Keys |->
       IF k \in Removed(r, wanted) THEN NoField
       ELSE IF k \in Cleared(r, wanted)
            THEN [Upserted(k, wanted[k]) EXCEPT !.value = Nothing]
       ELSE IF k \in Wanted(wanted) THEN Upserted(k, wanted[k])
       ELSE field[k]]
  /\ made' = [k \in Keys |-> IF k \in Wanted(wanted) /\ ~Exists(k)
                             THEN made[k] + 1 ELSE made[k]]
  /\ stale' = (stale \ (Wanted(wanted) \cup Removed(r, wanted)))
       \cup {k \in Wanted(wanted) : field[k].value # h[r].seen[k].value}
  /\ h' = [h EXCEPT ![r] = NoRequest]
  /\ UNCHANGED <<dashboard, audit>>

LEMMA SavedSchema ==
  ASSUME NEW r \in Requests, SaveSchema(r)
  PROVE  \E wanted \in [Keys -> Definition \cup {NoDefinition}] : SavedAs(r, wanted)
BY DEF SaveSchema, SavedAs

\* What a values save does, for what it was sent.
Saved(r, sent, value) ==
  /\ \A k \in Known(r, sent) : Valid(r, k, value[k])
  /\ \A k \in Changed(r, sent, value) : field[k].id = h[r].seen[k].id
  /\ field' = [k \in Keys |-> IF k \in Changed(r, sent, value)
                 THEN [field[k] EXCEPT !.value = Stored(r, k, value[k])]
                 ELSE field[k]]
  /\ audit' = Audited(r, Changed(r, sent, value), value)
  /\ stale' = (stale \ Changed(r, sent, value))
       \cup {k \in Changed(r, sent, value) :
               \/ field[k].type # h[r].seen[k].type
               \/ field[k].required # h[r].seen[k].required}
  /\ h' = [h EXCEPT ![r] = NoRequest]
  /\ UNCHANGED <<dashboard, made>>

LEMMA SavedValues ==
  ASSUME NEW r \in Requests, SaveValues(r)
  PROVE  \E sent \in SUBSET Keys : \E value \in [sent -> Sent] : Saved(r, sent, value)
BY DEF SaveValues, Saved

LEMMA Step_TypeOK == TypeOK /\ [Next]_vars => TypeOK'
<1> SUFFICES ASSUME TypeOK, [Next]_vars PROVE TypeOK'
  OBVIOUS
<1> USE DEF TypeOK
<1>0. /\ NoRequest \in Request
      /\ NoField \in AnyField
  BY DEF NoRequest, Request, AnyField, NoField
<1>1. ASSUME NEW r \in Requests, Check(r) PROVE TypeOK'
  <2>1. [NoRequest EXCEPT !.pc = "checked"] \in Request
    BY DEF NoRequest, Request, AnyField, NoField
  <2> QED BY <2>1, <1>1 DEF Check
<1>2. ASSUME NEW r \in Requests, Read(r) PROVE TypeOK'
  <2>1. [pc |-> "read", seen |-> field] \in Request
    BY DEF Request
  <2> QED BY <2>1, <1>2 DEF Read
<1>3. ASSUME NEW r \in Requests, Fail(r) PROVE TypeOK'
  BY <1>0, <1>3 DEF Fail
<1>4. ASSUME NEW r \in Requests, SaveSchema(r) PROVE TypeOK'
  <2>1. PICK wanted \in [Keys -> Definition \cup {NoDefinition}] : SavedAs(r, wanted)
    BY <1>4, SavedSchema
  <2> USE DEF SavedAs
  <2>2. \A k \in Wanted(wanted) : k \in Keys /\ wanted[k] \in Definition
    BY DEF Wanted
  <2>3. Cleared(r, wanted) \subseteq Wanted(wanted)
    BY DEF Cleared
  <2>4. field' \in [Keys -> AnyField]
    <3>1. \A k \in Wanted(wanted) :
            /\ Upserted(k, wanted[k]) \in Field
            /\ [Upserted(k, wanted[k]) EXCEPT !.value = Nothing] \in Field
      BY <2>1, <2>2, UpsertedField
    <3> QED BY <3>1, <2>1, <2>3, <1>0 DEF AnyField
  <2>5. made' \in [Keys -> 0..MaxId]
    BY <2>1 DEF AnyField, Field, NoField
  <2>6. stale' \in SUBSET Keys
    BY <2>1, <2>2
  <2>7. h' \in [Requests -> Request]
    BY <2>1, <1>0
  <2> QED BY <2>1, <2>4, <2>5, <2>6, <2>7
<1>5. ASSUME NEW r \in Requests, SaveValues(r) PROVE TypeOK'
  <2>0. PICK sent \in SUBSET Keys : \E value \in [sent -> Sent] : Saved(r, sent, value)
    BY <1>5, SavedValues
  <2>1. PICK value \in [sent -> Sent] : Saved(r, sent, value)
    BY <2>0
  <2> USE DEF Saved
  <2>2. \A k \in Changed(r, sent, value) :
          /\ k \in Keys
          /\ field[k] \in Field
          /\ Stored(r, k, value[k]) \in Value
    <3> SUFFICES ASSUME NEW k \in Changed(r, sent, value)
                 PROVE  /\ k \in Keys
                        /\ field[k] \in Field
                        /\ Stored(r, k, value[k]) \in Value
      OBVIOUS
    <3>1. /\ k \in Known(r, sent) /\ k \in Keys
          /\ h[r].seen[k].id # 0 /\ value[k] \in Sent
      BY DEF Changed, Known
    <3>2. field[k] \in Field
      BY <3>1, <2>1 DEF AnyField, NoField
    <3> QED BY <3>1, <3>2, <2>1, StoredValue
  <2>3. field' \in [Keys -> AnyField]
    <3>1. \A k \in Changed(r, sent, value) :
            [field[k] EXCEPT !.value = Stored(r, k, value[k])] \in Field
      BY <2>2 DEF Field
    <3> QED BY <3>1, <2>1 DEF AnyField
  <2>4. audit' \in [Keys -> Value]
    BY <2>1, <2>2 DEF Audited
  <2>5. stale' \in SUBSET Keys
    BY <2>1, <2>2
  <2>6. h' \in [Requests -> Request]
    BY <2>1, <1>0
  <2> QED BY <2>1, <2>3, <2>4, <2>5, <2>6
<1>6. CASE DeleteDocument
  BY <1>6 DEF DeleteDocument
<1>7. CASE DeleteAudit
  BY <1>7 DEF DeleteAudit, Value
<1>8. CASE DeleteFields
  BY <1>0, <1>8 DEF DeleteFields
<1>9. CASE UNCHANGED vars
  BY <1>9 DEF vars
<1> QED BY <1>1, <1>2, <1>3, <1>4, <1>5, <1>6, <1>7, <1>8, <1>9 DEF Next

\* The writes of a schema save, field by field.
LEMMA SchemaWrites ==
  ASSUME TypeOK, NEW r \in Requests,
         NEW wanted \in [Keys -> Definition \cup {NoDefinition}], SavedAs(r, wanted),
         NEW k \in Keys
  PROVE  /\ field'[k].value \in {Nothing, field[k].value}
         /\ field'[k].value # Nothing =>
              \/ /\ k \in Wanted(wanted) /\ k \notin Cleared(r, wanted)
                 /\ field'[k].type = wanted[k].type
                 /\ field'[k].required = wanted[k].required
              \/ k \notin Wanted(wanted) /\ field'[k] = field[k]
         /\ k \in stale /\ k \notin stale' => k \in Wanted(wanted) \cup Removed(r, wanted)
         /\ k \in Wanted(wanted) /\ k \notin stale' => field[k].value = h[r].seen[k].value
<1>1. k \in Removed(r, wanted) => k \notin Wanted(wanted)
  BY DEF Removed, Wanted
<1>2. Cleared(r, wanted) \subseteq Wanted(wanted)
  BY DEF Cleared
<1>3. CASE k \in Removed(r, wanted)
  BY <1>1, <1>3 DEF SavedAs, NoField
<1>4. CASE k \notin Removed(r, wanted) /\ k \in Wanted(wanted)
  <2>1. Upserted(k, wanted[k]).value = field[k].value
    BY DEF Upserted
  <2>2. /\ Upserted(k, wanted[k]).type = wanted[k].type
        /\ Upserted(k, wanted[k]).required = wanted[k].required
    BY DEF Upserted
  <2>3. [Upserted(k, wanted[k]) EXCEPT !.value = Nothing].value = Nothing
    BY DEF Upserted
  <2>4. /\ k \in Cleared(r, wanted) =>
             field'[k] = [Upserted(k, wanted[k]) EXCEPT !.value = Nothing]
        /\ k \notin Cleared(r, wanted) => field'[k] = Upserted(k, wanted[k])
    BY <1>4 DEF SavedAs
  <2>5. k \notin stale' => field[k].value = h[r].seen[k].value
    BY <1>4 DEF SavedAs
  <2> QED BY <1>4, <2>1, <2>2, <2>3, <2>4, <2>5
<1>5. CASE k \notin Removed(r, wanted) /\ k \notin Wanted(wanted)
  BY <1>2, <1>5 DEF SavedAs
<1> QED BY <1>3, <1>4, <1>5

\* The writes of a values save, field by field.
LEMMA ValueWrites ==
  ASSUME TypeOK, NEW r \in Requests, NEW sent \in SUBSET Keys, NEW value \in [sent -> Sent],
         Saved(r, sent, value), NEW k \in Keys
  PROVE  \/ field'[k] = field[k] /\ audit'[k] = audit[k] /\ (k \in stale => k \in stale')
         \/ /\ field'[k].value = audit'[k]
            /\ k \notin stale' => Fits(field'[k])
            /\ field'[k].value = Nothing /\ k \notin stale' => ~field[k].required
<1>1. CASE k \notin Changed(r, sent, value)
  BY <1>1 DEF Saved, Audited
<1>2. CASE k \in Changed(r, sent, value)
  <2>1. /\ k \in Known(r, sent) /\ h[r].seen[k].id # 0 /\ value[k] \in Sent
        /\ Valid(r, k, value[k])
    BY <1>2 DEF Changed, Known, Saved
  <2>2. /\ Stored(r, k, value[k]) \in Value
        /\ Stored(r, k, value[k]) \in Values =>
             Sanitized[h[r].seen[k].type][Stored(r, k, value[k])] # Nothing
        /\ Stored(r, k, value[k]) = Empty =>
             \E w \in Values : Sanitized[h[r].seen[k].type][w] = Empty
        /\ Stored(r, k, value[k]) = Nothing => ~h[r].seen[k].required
    BY <2>1, StoredValue
  <2>3. field[k] \in AnyField
    BY DEF TypeOK
  <2>4. /\ field'[k] = [field[k] EXCEPT !.value = Stored(r, k, value[k])]
        /\ audit'[k] = Stored(r, k, value[k])
    BY <1>2 DEF Saved, Audited
  <2>5. /\ field'[k].value = Stored(r, k, value[k])
        /\ field'[k].type = field[k].type
        /\ field'[k].required = field[k].required
    BY <2>3, <2>4 DEF AnyField, Field, NoField
  <2>6. k \notin stale' => /\ field[k].type = h[r].seen[k].type
                          /\ field[k].required = h[r].seen[k].required
    BY <1>2 DEF Saved
  <2>7. ASSUME k \notin stale' PROVE Fits(field'[k])
    <3>1. CASE Stored(r, k, value[k]) \in Values
      <4>1. Accepted(field'[k].type, field'[k].required, field'[k].value)
        BY <2>2, <2>5, <2>6, <2>7, <3>1 DEF Accepted, Blank
      <4> QED BY <4>1 DEF Fits
    <3>2. CASE Stored(r, k, value[k]) \in {Empty, Nothing}
      BY <2>2, <2>5, <2>6, <2>7, <3>2 DEF Fits
    <3> QED BY <2>2, <3>1, <3>2 DEF Value
  <2> QED BY <2>2, <2>4, <2>5, <2>6, <2>7
<1> QED BY <1>1, <1>2

LEMMA Step_Valid == TypeOK /\ ValidForField /\ [Next]_vars => ValidForField'
<1> SUFFICES ASSUME TypeOK, ValidForField, [Next]_vars, NEW k \in Keys, k \notin stale'
             PROVE  Fits(field'[k])
  BY DEF ValidForField
<1>1. CASE UNCHANGED <<field, stale>>
  BY <1>1 DEF ValidForField
<1>2. ASSUME NEW r \in Requests, SaveSchema(r) PROVE Fits(field'[k])
  <2>1. PICK wanted \in [Keys -> Definition \cup {NoDefinition}] : SavedAs(r, wanted)
    BY <1>2, SavedSchema
  <2>2. CASE field'[k].value = Nothing
    BY <2>2 DEF Fits
  <2>3. CASE field'[k].value # Nothing /\ k \in Wanted(wanted)
    <3>1. /\ k \notin Cleared(r, wanted)
          /\ field'[k].type = wanted[k].type /\ field'[k].required = wanted[k].required
          /\ field'[k].value = field[k].value /\ field[k].value = h[r].seen[k].value
      BY <2>1, <2>3, SchemaWrites
    <3>2. Accepted(field'[k].type, field'[k].required, field'[k].value)
      BY <2>3, <3>1 DEF Cleared
    <3> QED BY <3>2 DEF Fits
  <2>4. CASE field'[k].value # Nothing /\ k \notin Wanted(wanted)
    <3>1. field'[k] = field[k]
      BY <2>1, <2>4, SchemaWrites
    <3>2. k \notin Removed(r, wanted)
      BY <2>1, <2>4 DEF SavedAs, NoField
    <3>3. k \notin stale
      BY <2>1, <2>4, <3>2, SchemaWrites
    <3> QED BY <3>1, <3>3 DEF ValidForField
  <2> QED BY <2>2, <2>3, <2>4
<1>3. ASSUME NEW r \in Requests, SaveValues(r) PROVE Fits(field'[k])
  <2>1. PICK sent \in SUBSET Keys : \E value \in [sent -> Sent] : Saved(r, sent, value)
    BY <1>3, SavedValues
  <2>2. PICK value \in [sent -> Sent] : Saved(r, sent, value)
    BY <2>1
  <2> QED BY <2>2, ValueWrites DEF ValidForField
<1>4. CASE DeleteFields
  BY <1>4 DEF DeleteFields, NoField, Fits
<1> QED BY <1>1, <1>2, <1>3, <1>4 DEF Next, vars, Check, Read, Fail, DeleteDocument, DeleteAudit

LEMMA Step_Audited == TypeOK /\ LastAudited /\ [Next]_vars => LastAudited'
<1> SUFFICES ASSUME TypeOK, LastAudited, [Next]_vars, dashboard' = "live", NEW k \in Keys
             PROVE  field'[k].value \in {Nothing, audit'[k]}
  BY DEF LastAudited
<1>0. dashboard = "live"
  BY DEF Next, vars, Check, Read, Fail, SaveSchema, SaveValues, DeleteDocument, DeleteAudit,
         DeleteFields
<1>1. CASE UNCHANGED <<field, audit>>
  BY <1>0, <1>1 DEF LastAudited
<1>2. ASSUME NEW r \in Requests, SaveSchema(r) PROVE field'[k].value \in {Nothing, audit'[k]}
  <2>1. PICK wanted \in [Keys -> Definition \cup {NoDefinition}] : SavedAs(r, wanted)
    BY <1>2, SavedSchema
  <2>2. field'[k].value \in {Nothing, field[k].value} /\ audit' = audit
    BY <2>1, SchemaWrites DEF SavedAs
  <2> QED BY <1>0, <2>2 DEF LastAudited
<1>3. ASSUME NEW r \in Requests, SaveValues(r) PROVE field'[k].value \in {Nothing, audit'[k]}
  <2>1. PICK sent \in SUBSET Keys : \E value \in [sent -> Sent] : Saved(r, sent, value)
    BY <1>3, SavedValues
  <2>2. PICK value \in [sent -> Sent] : Saved(r, sent, value)
    BY <2>1
  <2> QED BY <1>0, <2>2, ValueWrites DEF LastAudited
<1> QED BY <1>1, <1>2, <1>3 DEF Next, vars, Check, Read, Fail, DeleteDocument, DeleteAudit,
                                DeleteFields

LEMMA Step_NotLost ==
  ASSUME TypeOK, [Next]_vars, NEW k \in Keys, dashboard = "live",
         field[k].value \notin Blank, field'[k].value \in Blank,
         field'[k].id = field[k].id, k \notin stale'
  PROVE  \/ Sanitized[field'[k].type][field[k].value] = Nothing
         \/ /\ audit'[k] = field'[k].value
            /\ field[k].required => field'[k].value = Empty
<1> DEFINE G == \/ Sanitized[field'[k].type][field[k].value] = Nothing
                \/ /\ audit'[k] = field'[k].value
                   /\ field[k].required => field'[k].value = Empty
<1>0. field[k].value # Nothing /\ field'[k].value # field[k].value
  BY DEF Blank
<1>1. field # field'
  BY <1>0
<1>2. ASSUME NEW r \in Requests, SaveSchema(r) PROVE G
  <2>1. PICK wanted \in [Keys -> Definition \cup {NoDefinition}] : SavedAs(r, wanted)
    BY <1>2, SavedSchema
  <2>2. field[k].id # 0
    BY <1>0 DEF TypeOK, AnyField, Field, NoField
  <2>3. k \notin Removed(r, wanted)
    BY <2>1, <2>2 DEF SavedAs, NoField
  <2>4. k \in Cleared(r, wanted)
    BY <1>0, <2>1, <2>3 DEF SavedAs, Upserted
  <2>5. /\ k \in Wanted(wanted)
        /\ ~Accepted(wanted[k].type, wanted[k].required, h[r].seen[k].value)
    BY <2>4 DEF Cleared
  <2>6. field[k].value = h[r].seen[k].value
    BY <2>1, <2>5, SchemaWrites
  <2>7. field'[k].type = wanted[k].type
    BY <2>1, <2>3, <2>4 DEF SavedAs, Upserted
  <2> QED BY <2>5, <2>6, <2>7 DEF Accepted
<1>3. ASSUME NEW r \in Requests, SaveValues(r) PROVE G
  <2>1. PICK sent \in SUBSET Keys : \E value \in [sent -> Sent] : Saved(r, sent, value)
    BY <1>3, SavedValues
  <2>2. PICK value \in [sent -> Sent] : Saved(r, sent, value)
    BY <2>1
  <2>3. field'[k].value = audit'[k] /\ (field'[k].value = Nothing => ~field[k].required)
    BY <1>0, <2>2, ValueWrites
  <2> QED BY <2>3 DEF Blank
<1> QED BY <1>1, <1>2, <1>3 DEF Next, vars, Check, Read, Fail, DeleteDocument, DeleteAudit,
                                DeleteFields

LEMMA Step_IInv == IInv /\ [Next]_vars => IInv'
BY Step_TypeOK, Step_Valid, Step_Audited DEF IInv

LEMMA Invariance == Spec => []IInv
BY Init_IInv, Step_IInv, PTL DEF Spec

\* Rows, snapshots and histories have their types (schema.prisma:12).
THEOREM Types_hold == Spec => []TypeOK
BY Invariance, PTL DEF IInv

\* A stored value fits its field, unless its last writer had read what another
\* request replaced (schema/route.ts:155, values/route.ts:118).
THEOREM Validity == Spec => []ValidForField
BY Invariance, PTL DEF IInv

\* What is stored is what was audited last (values/route.ts:151-173).
THEOREM AuditTrail == Spec => []LastAudited
BY Invariance, PTL DEF IInv

\* A field is emptied only by a type that excludes its value or by an audited
\* save that its definition allows (schema/route.ts:163, values/route.ts:118).
THEOREM Retention == Spec => NotLost
<1>1. IInv /\ [Next]_vars =>
        [\A k \in Keys :
           /\ dashboard = "live"
           /\ field[k].value \notin Blank
           /\ field'[k].value \in Blank
           /\ field'[k].id = field[k].id
           /\ k \notin stale'
           => \/ Sanitized[field'[k].type][field[k].value] = Nothing
              \/ /\ audit'[k] = field'[k].value
                 /\ field[k].required => field'[k].value = Empty]_vars
  BY Step_NotLost DEF IInv
<1> QED BY <1>1, Invariance, PTL DEF Spec, NotLost
-----------------------------------------------------------------------------
(* Data sources. *)

-----------------------------------------------------------------------------
(* The inductive invariant. *)

\* The headers shown, and the inspection under way beside them, are for the
\* source whose form is open.
OneSource ==
  \A a \in Admins : shown[a] # Unseen =>
    /\ shown[a].for.id = form[a].id
    /\ req[a] # NoInspection => req[a].for.id = form[a].id

\* An inspection that has read the document of a source named a version of it
\* that existed.  As long as that version is the last, the credential it kept
\* is the one that is stored; whoever is behind has been overtaken.
Pending ==
  \A a \in Admins : req[a].pc \in {"resolved", "done"} =>
    LET r == req[a] IN
    r.for.id \in Ids =>
      /\ SourceExists(r.for.id) \/ r.for.id \in gone
      /\ SourceExists(r.for.id) =>
           /\ r.version <= source[r.for.id].version
           /\ r.version = source[r.for.id].version /\ r.for.cred = Kept
                => r.cred = source[r.for.id].cred
           /\ a \in behind => r.version < source[r.for.id].version

\* The same of the inspection whose headers are shown.
Displayed ==
  \A a \in Admins : shown[a] # Unseen =>
    LET r == shown[a] IN
    r.for.id \in Ids =>
      /\ SourceExists(r.for.id) \/ r.for.id \in gone
      /\ SourceExists(r.for.id) =>
           /\ r.version <= source[r.for.id].version
           /\ r.version = source[r.for.id].version /\ r.for.cred = Kept
                => r.cred = source[r.for.id].cred
           /\ a \in behind => r.version < source[r.for.id].version

EditingInv == SourceTypeOK /\ OneSource /\ Pending /\ Displayed /\ Inspected

-----------------------------------------------------------------------------
(* Type correctness *)

\* A form that is open is not the closed one, and what is shown is not nothing.
LEMMA Distinct ==
  /\ Closed.id = Unset /\ Unseen.for = Unset
  /\ \A f \in Form : f.id \in Ids \cup {New} /\ f.id # Unset
  /\ \A s \in Shown : s.for \in Form
  /\ NoInspection.pc = "none"
  /\ Absent.version = 0
  /\ \A s \in Source : s.version \in 1..MaxVersion
BY SourceEditingAssumption
   DEF Closed, Unseen, Form, Shown, NoInspection, Absent, Source

\* What a request is, by the step it has reached.
LEMMA Inspections ==
  ASSUME NEW r \in Inspection \cup {NoInspection}
  PROVE  /\ r.pc = "sent" => r = [pc |-> "sent", for |-> r.for]
         /\ r # NoInspection => r.for \in Form
         /\ r.pc \in {"resolved", "done"} =>
              /\ r # NoInspection /\ r.version \in 0..MaxVersion
              /\ r.cred \in Credentials
         /\ r.pc = "done" => r.content \in Contents
         /\ r.pc \in {"none", "sent", "resolved", "done"}
BY DEF Inspection, NoInspection

\* A source that exists is a record of one.
LEMMA StoredSources ==
  ASSUME SourceTypeOK, NEW i \in Ids
  PROVE  /\ SourceExists(i) => source[i] \in Source
         /\ SourceExists(i) => source[i].version \in 1..MaxVersion
         /\ ~SourceExists(i) => source[i] = Absent
         /\ source[i].version \in Nat
BY Distinct DEF SourceTypeOK, SourceExists

\* What administrators type, and what they are shown.
LEMMA Shows ==
  ASSUME SourceTypeOK, NEW a \in Admins
  PROVE  /\ Open(a) => form[a] \in Form
         /\ shown[a] # Unseen => /\ shown[a] \in Shown /\ shown[a].for \in Form
                                 /\ shown[a].version \in Nat
                                 /\ shown[a].cred \in Credentials
                                 /\ shown[a].content \in Contents
BY Distinct, SourceEditingAssumption DEF SourceTypeOK, Open, Shown

\* The steps of the form keep the types.
LEMMA TypeForm ==
  ASSUME SourceTypeOK, NEW a \in Admins, StartEdit(a) \/ EditForm(a)
  PROVE  SourceTypeOK'
<1>1. CASE StartEdit(a)
  BY <1>1 DEF StartEdit, SourceTypeOK
<1>2. CASE EditForm(a)
  <2>1. form[a] \in Form
    BY <1>2, Shows DEF EditForm
  <2>2. ASSUME NEW p \in Places PROVE [form[a] EXCEPT !.at = p] \in Form
    BY <2>1 DEF Form
  <2>3. ASSUME NEW c \in Credentials PROVE [form[a] EXCEPT !.cred = c] \in Form
    BY <2>1 DEF Form
  <2>4. form' \in [Admins -> Form \cup {Closed}]
    BY <1>2, <2>2, <2>3 DEF EditForm, SourceTypeOK
  <2> QED BY <1>2, <2>4 DEF EditForm, SourceTypeOK
<1> QED BY <1>1, <1>2

\* The steps of the inspection keep the types.
LEMMA TypeInspection ==
  ASSUME SourceTypeOK, NEW a \in Admins,
         \/ Inspect(a) \/ Resolve(a) \/ ReadHeaders(a) \/ Accept(a)
         \/ FailInspection(a)
  PROVE  SourceTypeOK'
<1>0. req[a] \in Inspection \cup {NoInspection}
  BY DEF SourceTypeOK
<1>1. CASE Inspect(a)
  <2>1. form[a] \in Form
    BY <1>1, Shows DEF Inspect
  <2>2. [pc |-> "sent", for |-> form[a]] \in Inspection
    BY <2>1 DEF Inspection
  <2> QED BY <1>1, <2>2 DEF Inspect, SourceTypeOK
<1>2. CASE Resolve(a)
  <2> DEFINE f == req[a].for
  <2>1. req[a].pc = "sent" /\ f \in Form
    BY <1>0, <1>2, Inspections DEF Resolve, NoInspection
  <2>2. PICK v \in 0..MaxVersion, c \in Credentials :
          req' = [req EXCEPT ![a] = [pc |-> "resolved", for |-> f,
                                     version |-> v, cred |-> c]]
    <3>1. CASE f.id = New
      <4>1. f.cred \in Credentials /\ 0 \in 0..MaxVersion
        BY <1>2, <2>1, <3>1, SourceEditingAssumption DEF Resolve, Form
      <4> QED BY <1>2, <3>1, <4>1 DEF Resolve
    <3>2. CASE f.id # New
      <4>1. f.id \in Ids /\ SourceExists(f.id) /\ f.cred \in Credentials \cup {Kept}
        BY <1>2, <2>1, <3>2 DEF Resolve, Form
      <4>2. /\ source[f.id].version \in 0..MaxVersion
            /\ source[f.id].cred \in Credentials
        BY <4>1, StoredSources, SourceEditingAssumption DEF Source
      <4>3. (IF f.cred = Kept THEN source[f.id].cred ELSE f.cred) \in Credentials
        BY <4>1, <4>2
      <4> QED BY <1>2, <3>2, <4>2, <4>3 DEF Resolve
    <3> QED BY <3>1, <3>2
  <2>3. [pc |-> "resolved", for |-> f, version |-> v, cred |-> c] \in Inspection
    BY <2>1 DEF Inspection
  <2> HIDE DEF f
  <2> QED BY <1>2, <2>2, <2>3 DEF Resolve, SourceTypeOK
<1>3. CASE ReadHeaders(a)
  <2>1. /\ req[a].pc = "resolved" /\ req[a].for \in Form
        /\ req[a].version \in 0..MaxVersion /\ req[a].cred \in Credentials
    BY <1>0, <1>3, Inspections DEF ReadHeaders
  <2>2. file[req[a].for.at] \in Contents
    BY <2>1 DEF SourceTypeOK, Form
  <2>3. [pc |-> "done", for |-> req[a].for, version |-> req[a].version,
         cred |-> req[a].cred, content |-> file[req[a].for.at]] \in Inspection
    BY <2>1, <2>2 DEF Inspection
  <2> QED BY <1>3, <2>3 DEF ReadHeaders, SourceTypeOK
<1>4. CASE Accept(a)
  <2>1. /\ req[a].pc = "done" /\ req[a].for \in Form
        /\ req[a].version \in 0..MaxVersion /\ req[a].cred \in Credentials
        /\ req[a].content \in Contents
    BY <1>0, <1>4, Inspections DEF Accept
  <2>2. [for |-> req[a].for, version |-> req[a].version, cred |-> req[a].cred,
         content |-> req[a].content] \in Shown
    BY <2>1 DEF Shown
  <2> QED BY <1>4, <2>2 DEF Accept, SourceTypeOK
<1>5. CASE FailInspection(a)
  BY <1>5 DEF FailInspection, SourceTypeOK
<1> QED BY <1>1, <1>2, <1>3, <1>4, <1>5

\* What a save stores is a source.
LEMMA TypeSave ==
  ASSUME SourceTypeOK, NEW a \in Admins, NEW i \in Ids, Create(a, i) \/ Update(a, i)
  PROVE  SourceTypeOK'
<1>1. /\ form[a] \in Form /\ shown[a] # Unseen /\ shown[a] \in Shown
      /\ shown[a].cred \in Credentials
  BY Shows DEF Create, Update, CanSave
<1>2. /\ form' \in [Admins -> Form \cup {Closed}]
      /\ shown' \in [Admins -> Shown \cup {Unseen}]
  BY DEF Create, Update, Close, SourceTypeOK
<1>3. proof' \in [Ids -> Shown \cup {Unseen}]
  BY <1>1 DEF Create, Update, SourceTypeOK
<1>4. source' \in [Ids -> Source \cup {Absent}]
  <2>1. CASE Create(a, i)
    <3>1. PICK o \in Columns, n \in Names, g \in Grants :
            /\ shown[a].cred = form[a].cred
            /\ source' = [source EXCEPT ![i] =
                 [version |-> 1, at |-> form[a].at, cred |-> form[a].cred,
                  owner |-> o, name |-> n, grants |-> g]]
      BY <2>1 DEF Create
    <3>2. [version |-> 1, at |-> form[a].at, cred |-> form[a].cred,
           owner |-> o, name |-> n, grants |-> g] \in Source
      BY <1>1, <3>1, SourceEditingAssumption DEF Source, Form
    <3> QED BY <3>1, <3>2 DEF SourceTypeOK
  <2>2. CASE Update(a, i)
    <3>1. PICK o \in Columns, n \in Names, g \in Grants :
            Written(a, i, Patched(a, i, o, n, g))
      BY <2>2 DEF Update
    <3>2. source[i] \in Source /\ source[i].version \in 1..MaxVersion
      BY <2>2, StoredSources DEF Update
    <3>3. PICK s \in Source : s = Patched(a, i, o, n, g)
      <4>1. /\ form[a].at \in Places
            /\ (IF form[a].cred = Kept THEN source[i].cred ELSE form[a].cred)
                 \in Credentials
        BY <1>1, <3>2 DEF Form, Source
      <4> QED BY <3>2, <4>1 DEF Patched, Source
    <3>4. CASE Configuration(s) = Configuration(source[i])
      BY <3>1, <3>3, <3>4 DEF Written, SourceTypeOK
    <3>5. CASE Configuration(s) # Configuration(source[i])
      <4>1. /\ source[i].version < MaxVersion
            /\ source' = [source EXCEPT ![i] =
                            [s EXCEPT !.version = source[i].version + 1]]
        BY <3>1, <3>3, <3>5 DEF Written
      <4>2. source[i].version + 1 \in 1..MaxVersion
        BY <3>2, <4>1, SourceEditingAssumption
      <4>3. [s EXCEPT !.version = source[i].version + 1] \in Source
        BY <3>3, <4>2 DEF Source
      <4> QED BY <4>1, <4>3 DEF SourceTypeOK
    <3> QED BY <3>4, <3>5
  <2> QED BY <2>1, <2>2
<1>5. behind' \in SUBSET Admins
  BY DEF Create, Update, Written, Overtaken, SourceTypeOK
<1> QED BY <1>2, <1>3, <1>4, <1>5 DEF Create, Update, SourceTypeOK

\* Every step keeps the types.
LEMMA EditingTypes == SourceTypeOK /\ [SourceNext]_sourceVars => SourceTypeOK'
<1> SUFFICES ASSUME SourceTypeOK, [SourceNext]_sourceVars PROVE SourceTypeOK'
  OBVIOUS
<1>1. CASE UNCHANGED sourceVars
  BY <1>1 DEF sourceVars, SourceTypeOK
<1>2. ASSUME NEW i \in Ids, Delete(i) PROVE SourceTypeOK'
  BY <1>2 DEF Delete, SourceTypeOK
<1>3. ASSUME NEW p \in Places, Upload(p) PROVE SourceTypeOK'
  BY <1>3 DEF Upload, SourceTypeOK
<1> QED BY <1>1, <1>2, <1>3, TypeForm, TypeInspection, TypeSave DEF SourceNext

-----------------------------------------------------------------------------
(* Inspections against the sources they looked up *)

\* A step of the form that only touches the form and what it shows.
LEMMA FormStep ==
  ASSUME EditingInv, NEW a \in Admins, StartEdit(a) \/ EditForm(a)
  PROVE  OneSource' /\ Pending' /\ Displayed' /\ Inspected'
<1>0. /\ form \in [Admins -> Form \cup {Closed}]
      /\ shown \in [Admins -> Shown \cup {Unseen}]
  BY DEF EditingInv, SourceTypeOK
<1>1. /\ UNCHANGED <<source, gone, file, req, proof, behind>>
      /\ \A b \in Admins \ {a} : form'[b] = form[b] /\ shown'[b] = shown[b]
      /\ shown'[a] = Unseen \/ (shown'[a] = shown[a] /\ form'[a].id = form[a].id)
  <2>1. CASE StartEdit(a)
    BY <1>0, <2>1 DEF StartEdit
  <2>2. CASE EditForm(a)
    <3>1. form[a] \in Form
      BY <2>2, Shows DEF EditForm, EditingInv
    <3>2. \A p : [form[a] EXCEPT !.at = p].id = form[a].id
      BY <3>1 DEF Form
    <3>3. CASE /\ \E p \in Places :
                    form' = [form EXCEPT ![a] = [form[a] EXCEPT !.at = p]]
               /\ shown' = shown
      BY <1>0, <2>2, <3>2, <3>3 DEF EditForm
    <3>4. CASE /\ \E c \in Credentials :
                    form' = [form EXCEPT ![a] = [form[a] EXCEPT !.cred = c]]
               /\ shown' = [shown EXCEPT ![a] = Unseen]
      BY <1>0, <2>2, <3>4 DEF EditForm
    <3> QED BY <2>2, <3>3, <3>4 DEF EditForm
  <2> QED BY <2>1, <2>2
<1>2. OneSource'
  BY <1>1 DEF EditingInv, OneSource
<1>3. Pending' /\ Inspected'
  BY <1>1 DEF EditingInv, Pending, Inspected, SourceExists
<1>4. Displayed'
  BY <1>1 DEF EditingInv, Displayed, SourceExists
<1> QED BY <1>2, <1>3, <1>4

\* An inspection takes over what is stored when it reads the document.
LEMMA InspectionStep ==
  ASSUME EditingInv, NEW a \in Admins,
         \/ Inspect(a) \/ Resolve(a) \/ ReadHeaders(a) \/ Accept(a)
         \/ FailInspection(a)
  PROVE  OneSource' /\ Pending' /\ Displayed' /\ Inspected'
<1>0. /\ req \in [Admins -> Inspection \cup {NoInspection}]
      /\ shown \in [Admins -> Shown \cup {Unseen}]
      /\ SourceTypeOK /\ OneSource /\ Pending /\ Displayed /\ Inspected
  BY DEF EditingInv, SourceTypeOK
<1>1. /\ UNCHANGED <<source, gone, form, proof>>
      /\ \A b \in Admins \ {a} : req'[b] = req[b] /\ shown'[b] = shown[b]
      /\ behind' = behind \ {a} \/ behind' = behind
  BY <1>0 DEF Inspect, Resolve, ReadHeaders, Accept, FailInspection
<1>2. Inspected'
  BY <1>0, <1>1 DEF Inspected, SourceExists
<1>3. CASE Inspect(a)
  <2>1. /\ req'[a] = [pc |-> "sent", for |-> form[a]]
        /\ shown' = shown /\ behind' = behind
    BY <1>0, <1>3 DEF Inspect
  <2>2. OneSource'
    BY <1>0, <1>1, <2>1 DEF OneSource
  <2>3. Pending' /\ Displayed'
    BY <1>0, <1>1, <2>1 DEF Pending, Displayed, SourceExists
  <2> QED BY <1>2, <2>2, <2>3
<1>4. CASE Resolve(a)
  <2>1. /\ req[a].pc = "sent" /\ req[a] # NoInspection /\ shown' = shown
        /\ req'[a].for = req[a].for /\ a \notin behind'
        /\ \/ req'[a].for.id = New
           \/ /\ SourceExists(req'[a].for.id)
              /\ req'[a].version = source[req'[a].for.id].version
              /\ req'[a].for.cred = Kept =>
                   req'[a].cred = source[req'[a].for.id].cred
    BY <1>0, <1>4 DEF Resolve, NoInspection
  <2>2. OneSource'
    BY <1>0, <1>1, <2>1 DEF OneSource
  <2>3. Pending'
    <3>1. \A i \in Ids : source[i].version \in Nat
      BY <1>0, StoredSources
    <3> QED BY <1>0, <1>1, <2>1, <3>1, SourceEditingAssumption
            DEF Pending, SourceExists
  <2>4. Displayed'
    BY <1>0, <1>1, <2>1 DEF Displayed, SourceExists
  <2> QED BY <1>2, <2>2, <2>3, <2>4
<1>5. CASE ReadHeaders(a)
  <2>1. /\ req[a].pc = "resolved" /\ req[a] # NoInspection
        /\ shown' = shown /\ behind' = behind
        /\ req'[a].for = req[a].for /\ req'[a].version = req[a].version
        /\ req'[a].cred = req[a].cred
    BY <1>0, <1>5 DEF ReadHeaders, NoInspection
  <2>2. OneSource'
    BY <1>0, <1>1, <2>1 DEF OneSource
  <2>3. Pending' /\ Displayed'
    BY <1>0, <1>1, <2>1 DEF Pending, Displayed, SourceExists
  <2> QED BY <1>2, <2>2, <2>3
<1>6. CASE Accept(a)
  <2>1. /\ req[a].pc = "done" /\ req'[a] = NoInspection /\ behind' = behind
        /\ \/ shown'[a] = shown[a]
           \/ /\ req[a].for = form[a] /\ shown'[a].for = req[a].for
              /\ shown'[a].version = req[a].version
              /\ shown'[a].cred = req[a].cred
    BY <1>0, <1>6 DEF Accept
  <2>2. OneSource'
    BY <1>0, <1>1, <2>1 DEF OneSource
  <2>3. Pending'
    BY <1>0, <1>1, <2>1, Distinct DEF Pending, SourceExists
  <2>4. Displayed'
    BY <1>0, <1>1, <2>1 DEF Pending, Displayed, SourceExists
  <2> QED BY <1>2, <2>2, <2>3, <2>4
<1>7. CASE FailInspection(a)
  <2>1. /\ req'[a] = NoInspection /\ behind' = behind
        /\ shown'[a] \in {shown[a], Unseen}
    BY <1>0, <1>7 DEF FailInspection
  <2>2. OneSource'
    BY <1>0, <1>1, <2>1 DEF OneSource
  <2>3. Pending' /\ Displayed'
    BY <1>0, <1>1, <2>1, Distinct DEF Pending, Displayed, SourceExists
  <2> QED BY <1>2, <2>2, <2>3
<1> QED BY <1>3, <1>4, <1>5, <1>6, <1>7

\* The form and what it shows stay, or both go.
LEMMA Closing ==
  ASSUME SourceTypeOK, NEW a \in Admins, Close(a)
  PROVE  /\ \A b \in Admins \ {a} : form'[b] = form[b] /\ shown'[b] = shown[b]
         /\ shown'[a] = Unseen \/ (shown'[a] = shown[a] /\ form'[a] = form[a])
BY DEF Close, SourceTypeOK

\* A source that is created has no inspection yet: its id is a new one.
LEMMA CreateStep ==
  ASSUME EditingInv, NEW a \in Admins, NEW i \in Ids, Create(a, i)
  PROVE  OneSource' /\ Pending' /\ Displayed' /\ Inspected'
<1>0. SourceTypeOK /\ OneSource /\ Pending /\ Displayed /\ Inspected
  BY DEF EditingInv
<1>1. PICK o \in Columns, n \in Names, g \in Grants :
        /\ CanSave(a, o) /\ shown[a].cred = form[a].cred
        /\ source' = [source EXCEPT ![i] = [version |-> 1, at |-> form[a].at,
                                            cred |-> form[a].cred, owner |-> o,
                                            name |-> n, grants |-> g]]
  BY DEF Create
<1>2. /\ ~SourceExists(i) /\ i \notin gone
      /\ proof' = [proof EXCEPT ![i] = shown[a]]
      /\ UNCHANGED <<gone, file, req, behind>>
      /\ \A b \in Admins \ {a} : form'[b] = form[b] /\ shown'[b] = shown[b]
      /\ shown'[a] = Unseen \/ (shown'[a] = shown[a] /\ form'[a] = form[a])
  BY <1>0, Closing DEF Create
<1>3. /\ \A j \in Ids \ {i} : source'[j] = source[j] /\ proof'[j] = proof[j]
      /\ source'[i] = [version |-> 1, at |-> form[a].at,
                       cred |-> form[a].cred, owner |-> o,
                       name |-> n, grants |-> g]
      /\ proof'[i] = shown[a]
  BY <1>0, <1>1, <1>2 DEF SourceTypeOK
<1>4. OneSource'
  BY <1>0, <1>2 DEF OneSource
<1>5. /\ \A b \in Admins : req[b].pc \in {"resolved", "done"} => req[b].for.id # i
      /\ \A b \in Admins : shown[b] # Unseen => shown[b].for.id # i
  BY <1>0, <1>2 DEF Pending, Displayed
<1>6. Pending'
  BY <1>0, <1>2, <1>3, <1>5 DEF Pending, SourceExists
<1>7. Displayed'
  BY <1>0, <1>2, <1>3, <1>5 DEF Displayed, SourceExists
<1>8. Inspected'
  BY <1>0, <1>1, <1>3 DEF Inspected, SourceExists, CanSave
<1> QED BY <1>4, <1>6, <1>7, <1>8

\* What a save changes: the name, or the configuration with the version, for
\* the source as the token was issued for.
LEMMA TokenSaved ==
  ASSUME EditingInv, NEW a \in Admins, NEW i \in Ids, Update(a, i)
  PROVE  /\ shown[a] # Unseen /\ shown[a].for.id = i /\ SourceExists(i)
         /\ source'[i].version > 0
         /\ source'[i].at = shown[a].for.at
         /\ source'[i].cred = shown[a].cred
         /\ source'[i].owner \in HeadersOf[shown[a].content]
         /\ shown[a].content \notin Doubled
         /\ \A j \in Ids \ {i} : source'[j] = source[j]
         /\ \/ /\ source'[i].version = source[i].version
               /\ source'[i].cred = source[i].cred
               /\ behind' = behind
            \/ /\ source'[i].version = source[i].version + 1
               /\ behind' = Overtaken(a, i)
<1>0. SourceTypeOK /\ Displayed
  BY DEF EditingInv
<1>1. PICK o \in Columns, n \in Names, g \in Grants :
       /\ CanSave(a, o)
       /\ TokenFits(a, i)
       /\ Written(a, i, Patched(a, i, o, n, g))
  BY DEF Update
<1>2. form[a].id = i /\ SourceExists(i)
  BY DEF Update
<1>3. /\ shown[a] # Unseen /\ shown[a].for = form[a] /\ Open(a)
      /\ o \in HeadersOf[shown[a].content] /\ shown[a].content \notin Doubled
  BY <1>1 DEF CanSave
<1>4. /\ source[i] \in Source /\ source[i].version \in 1..MaxVersion
      /\ form[a] \in Form
  BY <1>0, <1>2, <1>3, StoredSources, Shows
<1>5. shown[a].cred = IF form[a].cred = Kept THEN source[i].cred ELSE form[a].cred
  BY <1>0, <1>1, <1>2, <1>3 DEF TokenFits, Displayed
<1>6. PICK s : s = Patched(a, i, o, n, g)
  OBVIOUS
<1>7. /\ s \in Source
      /\ s.at = form[a].at /\ s.owner = o /\ s.version = source[i].version
      /\ s.cred = IF form[a].cred = Kept THEN source[i].cred ELSE form[a].cred
  <2>1. /\ form[a].at \in Places
        /\ (IF form[a].cred = Kept THEN source[i].cred ELSE form[a].cred)
             \in Credentials
    BY <1>4 DEF Form, Source
  <2> QED BY <1>4, <1>6, <2>1 DEF Patched, Source
<1>8. CASE Configuration(s) = Configuration(source[i])
  <2>1. source' = [source EXCEPT ![i] = s] /\ behind' = behind
    BY <1>1, <1>6, <1>8 DEF Written
  <2>2. source'[i] = s /\ \A j \in Ids \ {i} : source'[j] = source[j]
    BY <1>0, <2>1 DEF SourceTypeOK
  <2>3. s.cred = source[i].cred
    BY <1>8 DEF Configuration
  <2> QED BY <1>2, <1>3, <1>4, <1>5, <1>7, <2>1, <2>2, <2>3
<1>9. CASE Configuration(s) # Configuration(source[i])
  <2>1. /\ source' = [source EXCEPT ![i] = [s EXCEPT !.version = source[i].version + 1]]
        /\ behind' = Overtaken(a, i)
    BY <1>1, <1>6, <1>9 DEF Written
  <2>2. /\ source'[i] = [s EXCEPT !.version = source[i].version + 1]
        /\ \A j \in Ids \ {i} : source'[j] = source[j]
    BY <1>0, <2>1 DEF SourceTypeOK
  <2>3. /\ source'[i].version = source[i].version + 1
        /\ source'[i].at = s.at /\ source'[i].cred = s.cred
        /\ source'[i].owner = s.owner
    BY <1>7, <2>2 DEF Source
  <2> QED BY <1>2, <1>3, <1>4, <1>5, <1>7, <2>1, <2>2, <2>3
<1> QED BY <1>8, <1>9

\* A save leaves the inspections of the others behind.
LEMMA UpdateStep ==
  ASSUME EditingInv, NEW a \in Admins, NEW i \in Ids, Update(a, i)
  PROVE  OneSource' /\ Pending' /\ Displayed' /\ Inspected'
<1>0. SourceTypeOK /\ OneSource /\ Pending /\ Displayed /\ Inspected
  BY DEF EditingInv
<1>1. /\ proof' = [proof EXCEPT ![i] = shown[a]]
      /\ UNCHANGED <<gone, file, req>>
      /\ \A b \in Admins \ {a} : form'[b] = form[b] /\ shown'[b] = shown[b]
      /\ shown'[a] = Unseen \/ (shown'[a] = shown[a] /\ form'[a] = form[a])
  BY <1>0, Closing DEF Update
<1>2. OneSource'
  BY <1>0, <1>1 DEF OneSource
<1>3. Inspected'
  <2>1. /\ proof'[i] = shown[a]
        /\ \A j \in Ids \ {i} : proof'[j] = proof[j]
    BY <1>0, <1>1 DEF SourceTypeOK
  <2>2. \A j \in Ids \ {i} : source'[j] = source[j]
    BY TokenSaved
  <2> QED BY <1>0, <2>1, <2>2, TokenSaved DEF Inspected, SourceExists
<1>4. CASE /\ source'[i].version = source[i].version
           /\ source'[i].cred = source[i].cred
           /\ behind' = behind
  <2>1. \A j \in Ids : /\ source'[j].version = source[j].version
                       /\ source'[j].cred = source[j].cred
    BY <1>4, TokenSaved
  <2>2. Pending'
    BY <1>0, <1>1, <1>4, <2>1 DEF Pending, SourceExists
  <2>3. Displayed'
    BY <1>0, <1>1, <1>4, <2>1 DEF Displayed, SourceExists
  <2> QED BY <1>2, <1>3, <2>2, <2>3
<1>5. CASE /\ source'[i].version = source[i].version + 1
           /\ behind' = Overtaken(a, i)
  <2>1. /\ SourceExists(i) /\ \A j \in Ids : source[j].version \in Nat
        /\ \A j \in Ids \ {i} : source'[j] = source[j]
    BY <1>0, TokenSaved, StoredSources
  <2>2. \A b \in Admins, j \in Ids \ {i} :
          b \in behind' /\ b \notin behind =>
             /\ req[b] # NoInspection => req[b].for.id # j \/ req[b].for.id = i
             /\ shown[b] # Unseen => shown[b].for.id # j \/ shown[b].for.id = i
    BY <1>0, <1>5 DEF Overtaken, OneSource
  <2>3. Pending'
    <3> SUFFICES ASSUME NEW b \in Admins, req[b].pc \in {"resolved", "done"},
                        NEW j \in Ids, req[b].for.id = j
                 PROVE  /\ SourceExists(j)' \/ j \in gone
                        /\ SourceExists(j)' =>
                             /\ req[b].version <= source'[j].version
                             /\ req[b].version = source'[j].version
                                /\ req[b].for.cred = Kept
                                  => req[b].cred = source'[j].cred
                             /\ b \in behind' => req[b].version < source'[j].version
      BY <1>1 DEF Pending
    <3>1. req[b] # NoInspection /\ req[b].version \in Nat
      <4>1. req[b] \in Inspection \cup {NoInspection}
        BY <1>0 DEF SourceTypeOK
      <4> QED BY <4>1, Inspections, SourceEditingAssumption
    <3>2. /\ SourceExists(j) \/ j \in gone
          /\ SourceExists(j) =>
               /\ req[b].version <= source[j].version
               /\ req[b].version = source[j].version /\ req[b].for.cred = Kept
                    => req[b].cred = source[j].cred
               /\ b \in behind => req[b].version < source[j].version
      BY <1>0 DEF Pending
    <3>3. CASE j = i
      BY <1>5, <2>1, <3>1, <3>2, <3>3 DEF SourceExists
    <3>4. CASE j # i
      <4>1. b \in behind' => b \in behind
        BY <1>0, <1>5, <3>1, <3>4 DEF Overtaken, OneSource
      <4> QED BY <2>1, <3>2, <3>4, <4>1 DEF SourceExists
    <3> QED BY <3>3, <3>4
  <2>4. Displayed'
    <3> SUFFICES ASSUME NEW b \in Admins, shown'[b] # Unseen,
                        NEW j \in Ids, shown'[b].for.id = j
                 PROVE  /\ SourceExists(j)' \/ j \in gone
                        /\ SourceExists(j)' =>
                             /\ shown'[b].version <= source'[j].version
                             /\ shown'[b].version = source'[j].version
                                /\ shown'[b].for.cred = Kept
                                  => shown'[b].cred = source'[j].cred
                             /\ b \in behind' => shown'[b].version < source'[j].version
      BY <1>1 DEF Displayed
    <3>0. shown'[b] = shown[b] /\ shown[b] # Unseen
      BY <1>1
    <3>1. shown[b].version \in Nat
      BY <1>0, <3>0, Shows
    <3>2. /\ SourceExists(j) \/ j \in gone
          /\ SourceExists(j) =>
               /\ shown[b].version <= source[j].version
               /\ shown[b].version = source[j].version /\ shown[b].for.cred = Kept
                    => shown[b].cred = source[j].cred
               /\ b \in behind => shown[b].version < source[j].version
      BY <1>0, <3>0 DEF Displayed
    <3>3. CASE j = i
      BY <1>5, <2>1, <3>0, <3>1, <3>2, <3>3 DEF SourceExists
    <3>4. CASE j # i
      <4>1. b \in behind' => b \in behind
        BY <1>0, <1>5, <3>0, <3>4 DEF Overtaken, OneSource
      <4> QED BY <2>1, <3>0, <3>2, <3>4, <4>1 DEF SourceExists
    <3> QED BY <3>3, <3>4
  <2> QED BY <1>2, <1>3, <2>3, <2>4
<1> QED BY <1>4, <1>5, TokenSaved

\* Deleting a source, or replacing the file it points to, issues no token.
LEMMA OtherStep ==
  ASSUME EditingInv,
         (\E i \in Ids : Delete(i)) \/ (\E p \in Places : Upload(p))
  PROVE  OneSource' /\ Pending' /\ Displayed' /\ Inspected'
<1>0. SourceTypeOK /\ OneSource /\ Pending /\ Displayed /\ Inspected
  BY DEF EditingInv
<1>1. ASSUME NEW i \in Ids, Delete(i)
      PROVE  OneSource' /\ Pending' /\ Displayed' /\ Inspected'
  <2>1. /\ UNCHANGED <<file, form, req, shown, behind>> /\ SourceExists(i)
        /\ gone' = gone \cup {i}
        /\ source'[i] = Absent
        /\ \A j \in Ids \ {i} : source'[j] = source[j] /\ proof'[j] = proof[j]
    BY <1>0, <1>1 DEF Delete, SourceTypeOK
  <2>2. ~SourceExists(i)'
    BY <2>1, Distinct DEF SourceExists
  <2>3. OneSource'
    BY <1>0, <2>1 DEF OneSource
  <2>4. Pending'
    BY <1>0, <2>1, <2>2 DEF Pending, SourceExists
  <2>5. Displayed'
    BY <1>0, <2>1, <2>2 DEF Displayed, SourceExists
  <2>6. Inspected'
    BY <1>0, <2>1, <2>2 DEF Inspected, SourceExists
  <2> QED BY <2>3, <2>4, <2>5, <2>6
<1>2. ASSUME NEW p \in Places, Upload(p)
      PROVE  OneSource' /\ Pending' /\ Displayed' /\ Inspected'
  BY <1>0, <1>2 DEF Upload, OneSource, Pending, Displayed, Inspected, SourceExists
<1> QED BY <1>1, <1>2

\* Before anybody has done anything.
LEMMA EditingInit == SourceInit => EditingInv
<1> SUFFICES ASSUME SourceInit PROVE EditingInv
  OBVIOUS
<1>1. SourceTypeOK
  BY DEF SourceInit, SourceTypeOK
<1>2. /\ \A i \in Ids : source[i] = Absent
      /\ \A a \in Admins : req[a] = NoInspection /\ shown[a] = Unseen
  BY DEF SourceInit
<1>3. OneSource /\ Pending /\ Displayed /\ Inspected
  BY <1>2, Distinct DEF OneSource, Pending, Displayed, Inspected, SourceExists
<1> QED BY <1>1, <1>3 DEF EditingInv

\* Every step keeps the invariant.
LEMMA EditingNext == EditingInv /\ [SourceNext]_sourceVars => EditingInv'
<1> SUFFICES ASSUME EditingInv, [SourceNext]_sourceVars PROVE EditingInv'
  OBVIOUS
<1>1. SourceTypeOK'
  BY EditingTypes DEF EditingInv
<1>2. OneSource' /\ Pending' /\ Displayed' /\ Inspected'
  <2>1. CASE UNCHANGED sourceVars
    BY <2>1 DEF sourceVars, EditingInv, OneSource, Pending, Displayed, Inspected, SourceExists
  <2> QED BY <2>1, FormStep, InspectionStep, CreateStep, UpdateStep, OtherStep
          DEF SourceNext
<1> QED BY <1>1, <1>2 DEF EditingInv

\* The sources, the forms and the inspections keep their types.
THEOREM SourceTypes == SourceSpec => []SourceTypeOK
<1>1. EditingInv => SourceTypeOK
  BY DEF EditingInv
<1> QED BY <1>1, EditingInit, EditingNext, PTL DEF SourceSpec

\* Whatever is stored was inspected as it is, however many administrators edit
\* and however their forms, inspections and saves overlap.
THEOREM StoredInspected == SourceSpec => []Inspected
<1>1. EditingInv => Inspected
  BY DEF EditingInv
<1> QED BY <1>1, EditingInit, EditingNext, PTL DEF SourceSpec

\* No save writes anything, not even a name, over a change of the configuration
\* that was made after its inspection.
THEOREM NoLostUpdate == SourceSpec => NothingOverwritten
<1>1. EditingInv /\ [SourceNext]_sourceVars =>
        [\A a \in Admins, i \in Ids :
           Update(a, i) /\ source'[i] # source[i] => a \notin behind]_sourceVars
  <2> SUFFICES ASSUME EditingInv, NEW a \in Admins, NEW i \in Ids, Update(a, i),
                      a \in behind
               PROVE  FALSE
    OBVIOUS
  <2>1. /\ shown[a] # Unseen /\ shown[a].for.id = i /\ SourceExists(i)
    BY TokenSaved
  <2>2. shown[a].version < source[i].version
    BY <2>1 DEF EditingInv, Displayed
  <2>3. shown[a].version = source[i].version
    BY DEF Update, TokenFits
  <2>4. source[i].version \in Nat
    BY StoredSources DEF EditingInv
  <2> QED BY <2>2, <2>3, <2>4
<1> QED BY <1>1, EditingInit, EditingNext, PTL DEF SourceSpec, NothingOverwritten
=============================================================================
