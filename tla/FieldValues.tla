----------------------------- MODULE FieldValues -----------------------------
(***************************************************************************)
(* The custom fields of one dashboard: schema/route.ts replaces their      *)
(* definitions, values/route.ts their values, and both decide on what they *)
(* read before the transaction in which they write.  The transactions only *)
(* write, to rows named by a key or an id, so each is one step here; those *)
(* of two requests may overlap between their readings and their writes.    *)
(***************************************************************************)
EXTENDS Naturals

CONSTANTS Requests, Keys, Types, Values,
          Sanitized,    \* validateFieldValue: what is stored for a text, by type
          MaxId,        \* bound on how often a key's field is created
          Empty,        \* the empty string
          Nothing       \* null, no field, no value; and a text that is refused

\* A type comes with its options, and Values are the texts that are not blank.
\* What a type makes of a text it accepts again, but for the empty string:
\* MULTI_SELECT makes that of "," (field-validation.ts:43).
ASSUME FieldValuesAssumption ==
  /\ Nothing \notin Types \cup Values
  /\ Empty \notin Values \cup {Nothing}
  /\ Sanitized \in [Types -> [Values -> Values \cup {Empty, Nothing}]]
  /\ \A t \in Types, v \in Values :
       Sanitized[t][v] \in Values => Sanitized[t][Sanitized[t][v]] # Nothing
  /\ MaxId \in Nat

VARIABLES
  dashboard,  \* "live", then the steps of its deletion
  field,      \* the row of each key and the value row that hangs on it
  made,       \* how many rows a key has had: ids are never used again
  audit,      \* newValue of the last audit row of each key
  h,          \* the requests: what they have read
  stale       \* history: the keys whose last writer had read something else

vars == <<dashboard, field, made, audit, h, stale>>

NoField == [id |-> 0, type |-> Nothing, required |-> FALSE, value |-> Nothing]
Value == Values \cup {Empty, Nothing}
Field == [id : 1..MaxId, type : Types, required : BOOLEAN, value : Value]
AnyField == Field \cup {NoField}

Definition == [type : Types, required : BOOLEAN]
NoDefinition == [type |-> Nothing, required |-> FALSE]

NoRequest == [pc |-> "idle", seen |-> [k \in Keys |-> NoField]]
Request == [pc : {"idle", "checked", "read"}, seen : [Keys -> AnyField]]

TypeOK == /\ dashboard \in {"live", "deleted", "unaudited", "cleaned"}
          /\ field \in [Keys -> AnyField]
          /\ made \in [Keys -> 0..MaxId]
          /\ audit \in [Keys -> Value]
          /\ h \in [Requests -> Request]
          /\ stale \in SUBSET Keys

Init == /\ dashboard = "live"
        /\ field = [k \in Keys |-> NoField]
        /\ made = [k \in Keys |-> 0]
        /\ audit = [k \in Keys |-> Nothing]
        /\ h = [r \in Requests |-> NoRequest]
        /\ stale = {}

Exists(k) == field[k].id # 0

-----------------------------------------------------------------------------
\* validateFieldValue: a field that is not required takes a blank and has no
\* value then; a type may refuse a text, or make another one of it.

Blank == {Empty, Nothing}

\* Mutant: nothing is required.
AcceptedIfBlank(type, required, v) == IF v \in Blank THEN TRUE
                                                      ELSE Sanitized[type][v] # Nothing

Accepted(type, required, v) == IF v \in Blank THEN ~required
                                               ELSE Sanitized[type][v] # Nothing

StoredAs(type, v) == IF v \in Blank THEN Nothing ELSE Sanitized[type][v]

-----------------------------------------------------------------------------
\* Both handlers look the dashboard up in Firestore, later read all its fields
\* with their values in Postgres, and may fail at either.

Check(r) == /\ h[r].pc = "idle"
            /\ dashboard = "live"
            /\ h' = [h EXCEPT ![r] = [NoRequest EXCEPT !.pc = "checked"]]
            /\ UNCHANGED <<dashboard, field, made, audit, stale>>

Read(r) == /\ h[r].pc = "checked"
           /\ h' = [h EXCEPT ![r] = [pc |-> "read", seen |-> field]]
           /\ UNCHANGED <<dashboard, field, made, audit, stale>>

\* Values that do not validate, a call or a transaction that fails: nothing is
\* written.
Fail(r) == /\ h[r].pc # "idle"
           /\ h' = [h EXCEPT ![r] = NoRequest]
           /\ UNCHANGED <<dashboard, field, made, audit, stale>>

-----------------------------------------------------------------------------
\* POST schema: the fields that were seen and are not wanted go, by id; those
\* that are wanted are created or updated by key; and a value that was seen and
\* is not valid for the new definition is cleared, by id.

Removed(r, wanted) == {k \in Keys : /\ wanted[k] = NoDefinition
                                    /\ h[r].seen[k].id # 0
                                    /\ h[r].seen[k].id = field[k].id}
Wanted(wanted) == {k \in Keys : wanted[k] # NoDefinition}

\* Mutant: the value is validated for the type that the field had.
ClearedByOldType(r, wanted) ==
  {k \in Wanted(wanted) :
     /\ h[r].seen[k].value # Nothing
     /\ ~Accepted(h[r].seen[k].type, wanted[k].required, h[r].seen[k].value)}

Cleared(r, wanted) ==
  {k \in Wanted(wanted) :
     /\ h[r].seen[k].value # Nothing
     /\ ~Accepted(wanted[k].type, wanted[k].required, h[r].seen[k].value)}

Upserted(k, definition) ==
  [id |-> IF Exists(k) THEN field[k].id ELSE made[k] + 1,
   type |-> definition.type, required |-> definition.required, value |-> field[k].value]

SaveSchema(r) ==
  \E wanted \in [Keys -> Definition \cup {NoDefinition}] :
    LET removed == Removed(r, wanted)
        cleared == Cleared(r, wanted)
    IN /\ h[r].pc = "read"
       /\ \A k \in cleared : field[k].id = h[r].seen[k].id   \* else update fails
       /\ \A k \in Wanted(wanted) : Exists(k) \/ made[k] < MaxId
       /\ field' = [k \in Keys |->
                      IF k \in removed THEN NoField
                      ELSE IF k \in cleared THEN [Upserted(k, wanted[k]) EXCEPT !.value = Nothing]
                      ELSE IF k \in Wanted(wanted) THEN Upserted(k, wanted[k])
                      ELSE field[k]]
       /\ made' = [k \in Keys |-> IF k \in Wanted(wanted) /\ ~Exists(k) THEN made[k] + 1
                                                                        ELSE made[k]]
       /\ stale' = (stale \ (Wanted(wanted) \cup removed))
                     \cup {k \in Wanted(wanted) : field[k].value # h[r].seen[k].value}
       /\ h' = [h EXCEPT ![r] = NoRequest]
       /\ UNCHANGED <<dashboard, audit>>

-----------------------------------------------------------------------------
\* POST values: keys that are not fields are skipped, every other value has to
\* be valid, and those that differ from the values seen are written, by the
\* field's id, each with its audit row.

Sent == Values \cup {Nothing}

Stored(r, k, v) == StoredAs(h[r].seen[k].type, v)
Valid(r, k, v)  == Accepted(h[r].seen[k].type, h[r].seen[k].required, v)

Known(r, sent) == {k \in sent : h[r].seen[k].id # 0}
Changed(r, sent, value) ==
  {k \in Known(r, sent) : Stored(r, k, value[k]) # h[r].seen[k].value}

\* Mutant: the value is audited as it was sent.
AuditedRaw(r, changed, value) ==
  [k \in Keys |-> IF k \in changed THEN value[k] ELSE audit[k]]

Audited(r, changed, value) ==
  [k \in Keys |-> IF k \in changed THEN Stored(r, k, value[k]) ELSE audit[k]]

SaveValues(r) ==
  \E sent \in SUBSET Keys : \E value \in [sent -> Sent] :
    LET changed == Changed(r, sent, value) IN
    /\ h[r].pc = "read"
    /\ \A k \in Known(r, sent) : Valid(r, k, value[k])
    /\ \A k \in changed : field[k].id = h[r].seen[k].id      \* else foreign key
    /\ field' = [k \in Keys |->
                   IF k \in changed THEN [field[k] EXCEPT !.value = Stored(r, k, value[k])]
                                    ELSE field[k]]
    /\ audit' = Audited(r, changed, value)
    /\ stale' = (stale \ changed)
                  \cup {k \in changed : \/ field[k].type # h[r].seen[k].type
                                        \/ field[k].required # h[r].seen[k].required}
    /\ h' = [h EXCEPT ![r] = NoRequest]
    /\ UNCHANGED <<dashboard, made>>

-----------------------------------------------------------------------------
\* DELETE of the dashboard: the document, then the audit rows, then the fields,
\* whose values cascade; what fails after the document is left as it is.

DeleteDocument == /\ dashboard = "live"
                  /\ dashboard' = "deleted"
                  /\ UNCHANGED <<field, made, audit, h, stale>>

DeleteAudit == /\ dashboard = "deleted"
               /\ dashboard' = "unaudited"
               /\ audit' = [k \in Keys |-> Nothing]
               /\ UNCHANGED <<field, made, h, stale>>

DeleteFields == /\ dashboard = "unaudited"
                /\ dashboard' = "cleaned"
                /\ field' = [k \in Keys |-> NoField]
                /\ UNCHANGED <<made, audit, h, stale>>

Next == \/ \E r \in Requests : Check(r) \/ Read(r) \/ Fail(r) \/ SaveSchema(r) \/ SaveValues(r)
        \/ DeleteDocument \/ DeleteAudit \/ DeleteFields

Spec == Init /\ [][Next]_vars
-----------------------------------------------------------------------------
Fits(f) == \/ f.value = Nothing
           \/ Accepted(f.type, f.required, f.value)
           \/ f.value = Empty /\ \E v \in Values : Sanitized[f.type][v] = Empty

\* A stored value is one that its field accepts, through changes of type,
\* removals and new fields under old keys, unless the last request that wrote the
\* field had read what another one replaced (schema/route.ts:155,
\* values/route.ts:118).  The exception is the empty string, which a required field
\* refuses and still holds if its own type has made it of another text.
ValidForField == \A k \in Keys \ stale : Fits(field[k])

\* The audit trail of a live dashboard ends with the value that is stored: every
\* way in which a value comes to be is audited, and no row is about a value that
\* was not written.
LastAudited ==
  dashboard = "live" => \A k \in Keys : field[k].value \in {Nothing, audit[k]}

\* A value is not lost: while its field stays, it is emptied only by a type that
\* excludes it, or by a save that says so, is audited and does not concern a
\* required field, unless by a text that the type takes for an empty one; or a
\* reading was out of date.
NotLost ==
  [][\A k \in Keys :
       /\ dashboard = "live"
       /\ field[k].value \notin Blank
       /\ field'[k].value \in Blank
       /\ field'[k].id = field[k].id
       /\ k \notin stale'
       => \/ Sanitized[field'[k].type][field[k].value] = Nothing
          \/ /\ audit'[k] = field'[k].value
             /\ field[k].required => field'[k].value = Empty]_vars
=============================================================================
