--------------------------- MODULE SourceEditing ---------------------------
(***************************************************************************)
(* Data sources as administrators edit them: the form of                   *)
(* data-sources-tab.tsx, the inspection of a bucket's CSV headers, the     *)
(* signed inspection token, and the transaction that accepts a change only *)
(* with a token for exactly what it would store.                           *)
(*                                                                         *)
(* A place is a bucket with a prefix, a credential stands for its          *)
(* ciphertext, and a content is known by the columns it has.  The token's  *)
(* 15 minutes are left out: an expired token is a save that does not go    *)
(* through, and no save has to.  Some names say Source or Inspection:      *)
(* Editing_proofs reads this module together with FieldValues.             *)
(***************************************************************************)
EXTENDS Naturals

CONSTANTS Admins, Ids, Places, Credentials, Columns, Contents,
          Names,        \* what a source may be called
          Grants,       \* the users and departments it may be granted to
          HeadersOf,    \* the columns of a content
          Doubled,      \* contents with two headers of one identity
          MaxVersion,   \* bound on the edits of a source
          New,          \* the form of a source that does not exist yet
          Kept,         \* an empty credential field: keep the stored one
          Unset

ASSUME SourceEditingAssumption ==
  /\ HeadersOf \in [Contents -> SUBSET Columns]
  /\ Doubled \subseteq Contents
  /\ MaxVersion \in Nat \ {0}
  /\ New \notin Ids
  /\ Kept \notin Credentials
  /\ Unset \notin Ids \cup {New}

VARIABLES
  source,   \* data_sources/{id}
  file,     \* the CSV at each place, which its owner replaces at will
  form,     \* the administrators' forms
  req,      \* their inspections under way, one each: the button is disabled
  shown,    \* headers and inspectedSignature: the last inspection accepted
  gone,     \* ids of deleted sources, which are not given out again
  proof,    \* history: what was inspected for the configuration that is stored
  behind    \* history: whose inspection has been overtaken by somebody else's
            \* change of the configuration

sourceVars == <<source, gone, file, form, req, shown, proof, behind>>

Absent == [version |-> 0, at |-> Unset, cred |-> Unset, owner |-> Unset,
           name |-> Unset, grants |-> Unset]
Source == [version : 1..MaxVersion, at : Places, cred : Credentials, owner : Columns,
           name : Names, grants : Grants]

\* hasConfigChanged: all but the name, which is not counted.
Configuration(s) == <<s.at, s.cred, s.owner, s.grants>>

\* The fields that sameInspectionInput and buildInspectSignature compare.  The
\* others, owner column, name and grants, come from the row or are typed at any
\* time, and nothing looks at them before the save: it sends whatever is in
\* them then, the name and the grants of a row out of date among it.
Closed == [id |-> Unset]
Form == [id : Ids \cup {New}, at : Places, cred : Credentials \cup {Kept}]

\* An inspection knows the version and the credential once it has read the
\* document, and the headers once it has read the file.
NoInspection == [pc |-> "none"]
Inspection == [pc : {"sent"}, for : Form]
           \cup [pc : {"resolved"}, for : Form, version : 0..MaxVersion,
                 cred : Credentials]
           \cup [pc : {"done"}, for : Form, version : 0..MaxVersion,
                 cred : Credentials, content : Contents]

\* The token: the place, the proof of the credential with the version it was
\* read at (0 when no document was read), and the headers.
Unseen == [for |-> Unset]
Shown == [for : Form, version : 0..MaxVersion, cred : Credentials, content : Contents]

SourceTypeOK == /\ source \in [Ids -> Source \cup {Absent}]
                /\ file \in [Places -> Contents]
                /\ form \in [Admins -> Form \cup {Closed}]
                /\ req \in [Admins -> Inspection \cup {NoInspection}]
                /\ shown \in [Admins -> Shown \cup {Unseen}]
                /\ gone \in SUBSET Ids
                /\ proof \in [Ids -> Shown \cup {Unseen}]
                /\ behind \in SUBSET Admins

SourceExists(i) == source[i].version > 0
Open(a) == form[a].id # Unset

SourceInit == /\ source = [i \in Ids |-> Absent]
              /\ file \in [Places -> Contents]
              /\ form = [a \in Admins |-> Closed]
              /\ req = [a \in Admins |-> NoInspection]
              /\ shown = [a \in Admins |-> Unseen]
              /\ gone = {}
              /\ proof = [i \in Ids |-> Unseen]
              /\ behind = {}

-----------------------------------------------------------------------------
\* The form.

\* startEdit takes the row of a list that may be out of date, so any place may
\* be in the field; so may it in a form for a new source.
StartEdit(a) == /\ \E f \in Form : /\ f.id # New => SourceExists(f.id) /\ f.cred = Kept
                                   /\ form' = [form EXCEPT ![a] = f]
                /\ shown' = [shown EXCEPT ![a] = Unseen]
                /\ UNCHANGED <<source, gone, file, req, proof, behind>>

\* Typing a credential discards the headers; a new place makes them stale, and
\* the old place fresh again.
EditForm(a) ==
  /\ Open(a)
  /\ \/ \E p \in Places : form' = [form EXCEPT ![a] = [form[a] EXCEPT !.at = p]]
        /\ shown' = shown
     \/ \E c \in Credentials : form' = [form EXCEPT ![a] = [form[a] EXCEPT !.cred = c]]
        /\ shown' = [shown EXCEPT ![a] = Unseen]
  /\ UNCHANGED <<source, gone, file, req, proof, behind>>

-----------------------------------------------------------------------------
\* The inspection.

Inspect(a) ==
  /\ Open(a)
  /\ req[a] = NoInspection
  /\ req' = [req EXCEPT ![a] = [pc |-> "sent", for |-> form[a]]]
  /\ UNCHANGED <<source, gone, file, form, shown, proof, behind>>

\* resolveInspectInput: a stored credential is that of the document now, and
\* the proof names the document's version; a new source has no document.
Resolve(a) ==
  LET f == req[a].for IN
  /\ req[a].pc = "sent"
  /\ IF f.id = New
     THEN /\ f.cred # Kept
          /\ req' = [req EXCEPT ![a] = [pc |-> "resolved", for |-> f, version |-> 0,
                                        cred |-> f.cred]]
     ELSE /\ SourceExists(f.id)
          /\ req' = [req EXCEPT ![a] =
                       [pc |-> "resolved", for |-> f, version |-> source[f.id].version,
                        cred |-> IF f.cred = Kept THEN source[f.id].cred ELSE f.cred]]
  /\ behind' = behind \ {a}
  /\ UNCHANGED <<source, gone, file, form, shown, proof>>

ReadHeaders(a) ==
  LET r == req[a] IN
  /\ r.pc = "resolved"
  /\ req' = [req EXCEPT ![a] = [pc |-> "done", for |-> r.for, version |-> r.version,
                                cred |-> r.cred, content |-> file[r.for.at]]]
  /\ UNCHANGED <<source, gone, file, form, shown, proof, behind>>

\* resolveInspectionResponse: an answer to what the form no longer says is
\* dropped.
Accept(a) ==
  LET r == req[a] IN
  /\ r.pc = "done"
  /\ shown' = IF r.for = form[a]
              THEN [shown EXCEPT ![a] = [for |-> r.for, version |-> r.version,
                                         cred |-> r.cred, content |-> r.content]]
              ELSE shown
  /\ req' = [req EXCEPT ![a] = NoInspection]
  /\ UNCHANGED <<source, gone, file, form, proof, behind>>

\* The source is gone, the bucket cannot be read, or the answer is lost.
FailInspection(a) ==
  /\ req[a] # NoInspection
  /\ shown' = IF req[a].for = form[a] THEN [shown EXCEPT ![a] = Unseen] ELSE shown
  /\ req' = [req EXCEPT ![a] = NoInspection]
  /\ UNCHANGED <<source, gone, file, form, proof, behind>>

-----------------------------------------------------------------------------
\* Saving.

CanSave(a, o) == LET s == shown[a] IN
                 /\ Open(a)
                 /\ s # Unseen
                 /\ s.for = form[a]
                 /\ o \in HeadersOf[s.content]
                 /\ s.content \notin Doubled

\* verifyDataSourceInspectionToken against a document: the token names the
\* version and, for a typed credential, the ciphertext that is sent.
\*
\* Mutant: a kept credential is taken for the one that was inspected.
FitsAnyKept(a, i) ==
  /\ shown[a].for.at = form[a].at
  /\ IF form[a].cred = Kept THEN TRUE
     ELSE shown[a].version = source[i].version /\ shown[a].cred = form[a].cred

\* Mutant: the ciphertext of a typed credential is proof enough.
FitsCiphertext(a, i) ==
  /\ shown[a].for.at = form[a].at
  /\ IF form[a].cred = Kept THEN shown[a].version = source[i].version
                            ELSE shown[a].cred = form[a].cred

TokenFits(a, i) == /\ shown[a].for.at = form[a].at
                   /\ shown[a].version = source[i].version
                   /\ form[a].cred # Kept => shown[a].cred = form[a].cred

Overtaken(a, i) ==
  behind \cup {b \in Admins \ {a} : \/ req[b] # NoInspection /\ req[b].for.id = i
                                    \/ shown[b] # Unseen /\ shown[b].for.id = i}

\* The form is reset when the answer arrives; when it is lost, it stays.
Close(a) == \/ /\ form' = [form EXCEPT ![a] = Closed]
               /\ shown' = [shown EXCEPT ![a] = Unseen]
            \/ UNCHANGED <<form, shown>>

\* POST: the proof is of the ciphertext alone.
Create(a, i) ==
  /\ form[a].id = New
  /\ ~SourceExists(i) /\ i \notin gone
  /\ \E o \in Columns, n \in Names, g \in Grants :
       /\ CanSave(a, o)
       /\ shown[a].cred = form[a].cred
       /\ source' = [source EXCEPT ![i] = [version |-> 1, at |-> form[a].at,
                                           cred |-> form[a].cred, owner |-> o,
                                           name |-> n, grants |-> g]]
  /\ proof' = [proof EXCEPT ![i] = shown[a]]
  /\ Close(a)
  /\ UNCHANGED <<gone, file, req, behind>>

\* PATCH: updateDataSource's transaction.  The form sends all its fields, and
\* all are written; only a change of the configuration counts up the version,
\* so that a new name leaves the tokens of the others good.
\*
\* Mutant: the credential is always replaced.
PatchedAll(a, i, o, n, g) ==
  [source[i] EXCEPT !.at = form[a].at, !.owner = o, !.name = n, !.grants = g,
                    !.cred = form[a].cred]

Patched(a, i, o, n, g) ==
  [source[i] EXCEPT !.at = form[a].at, !.owner = o, !.name = n, !.grants = g,
                    !.cred = IF form[a].cred = Kept THEN source[i].cred ELSE form[a].cred]

\* The patch goes into the document.
Written(a, i, s) ==
  IF Configuration(s) = Configuration(source[i])
  THEN /\ source' = [source EXCEPT ![i] = s]
       /\ UNCHANGED behind
  ELSE /\ source[i].version < MaxVersion
       /\ source' = [source EXCEPT ![i] = [s EXCEPT !.version = source[i].version + 1]]
       /\ behind' = Overtaken(a, i)

Update(a, i) ==
  /\ form[a].id = i
  /\ SourceExists(i)
  /\ \E o \in Columns, n \in Names, g \in Grants :
       /\ CanSave(a, o)
       /\ TokenFits(a, i)
       /\ Written(a, i, Patched(a, i, o, n, g))
  /\ proof' = [proof EXCEPT ![i] = shown[a]]
  /\ Close(a)
  /\ UNCHANGED <<gone, file, req>>

Delete(i) == /\ SourceExists(i)
             /\ source' = [source EXCEPT ![i] = Absent]
             /\ gone' = gone \cup {i}
             /\ proof' = [proof EXCEPT ![i] = Unseen]
             /\ UNCHANGED <<file, form, req, shown, behind>>

Upload(p) == /\ \E c \in Contents : file' = [file EXCEPT ![p] = c]
             /\ UNCHANGED <<source, gone, form, req, shown, proof, behind>>

SourceNext == \/ \E a \in Admins : \/ StartEdit(a) \/ EditForm(a) \/ Inspect(a) \/ Resolve(a)
                                   \/ ReadHeaders(a) \/ Accept(a) \/ FailInspection(a)
                                   \/ (\E i \in Ids : Create(a, i) \/ Update(a, i))
              \/ \E i \in Ids : Delete(i)
              \/ \E p \in Places : Upload(p)

SourceSpec == SourceInit /\ [][SourceNext]_sourceVars
-----------------------------------------------------------------------------
\* Whatever is stored was looked at as it is: the inspection that its last save
\* presented was of that place, with that credential, and found that owner
\* column there, and no doubled one.
Inspected ==
  \A i \in Ids : SourceExists(i) =>
    LET p == proof[i] IN
    /\ p # Unseen
    /\ p.for.at = source[i].at
    /\ p.cred = source[i].cred
    /\ source[i].owner \in HeadersOf[p.content]
    /\ p.content \notin Doubled

\* A save goes by the configuration that its inspection looked up: it writes
\* nothing, not even a name, when somebody has changed place, credential, owner
\* column or grants since.  A new name is no such change: the save puts the
\* name of its own form in its place.
NothingOverwritten ==
  [][\A a \in Admins, i \in Ids : Update(a, i) /\ source'[i] # source[i] => a \notin behind]_sourceVars
=============================================================================
