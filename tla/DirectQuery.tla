---------------------------- MODULE DirectQuery ----------------------------
(***************************************************************************)
(* What a dataset query promises to whoever asks: it is answered from one  *)
(* content of the file that its source named while the query was under     *)
(* way, scoped by the owner column that it was authorised with, or it is   *)
(* refused.  There is no cache and no shared table here.  QueryEngine      *)
(* implements this with both.                                              *)
(***************************************************************************)
EXTENDS Naturals

CONSTANTS Queries, Sources, Buckets, Owners, Contents,
          Columns,      \* the owner columns that a content has, once each
          Nothing       \* a field without a value

VARIABLES config, file, ask

promised == <<config, file, ask>>

Stored(s) == config[s].version > 0

Unasked == [pc |-> "idle", source |-> Nothing, owner |-> Nothing, at |-> Nothing,
            content |-> Nothing]

Init == /\ config \in [Sources -> [version : {1}, at : Buckets, owner : Owners]]
        /\ file \in [Buckets -> Contents]
        /\ ask = [q \in Queries |-> Unasked]

Ask(q) == /\ ask[q].pc = "idle"
          /\ \E s \in Sources :
               ask' = [ask EXCEPT ![q] = [Unasked EXCEPT !.pc = "asked", !.source = s]]
          /\ UNCHANGED <<config, file>>

Authorise(q) == /\ ask[q].pc = "asked"
                /\ Stored(ask[q].source)
                /\ ask' = [ask EXCEPT ![q] =
                              [ask[q] EXCEPT !.pc = "authorised",
                                             !.owner = config[ask[q].source].owner]]
                /\ UNCHANGED <<config, file>>

\* The source may have moved since the query was authorised.
Locate(q) == /\ ask[q].pc = "authorised"
             /\ Stored(ask[q].source)
             /\ ask' = [ask EXCEPT ![q] = [ask[q] EXCEPT !.pc = "located",
                                                         !.at = config[ask[q].source].at]]
             /\ UNCHANGED <<config, file>>

Read(q) == /\ ask[q].pc = "located"
           /\ ask' = [ask EXCEPT ![q] = [ask[q] EXCEPT !.pc = "read",
                                                       !.content = file[ask[q].at]]]
           /\ UNCHANGED <<config, file>>

Answer(q) == /\ ask[q].pc = "read"
             /\ ask[q].owner \in Columns[ask[q].content]
             /\ ask' = [ask EXCEPT ![q] = [ask[q] EXCEPT !.pc = "answered"]]
             /\ UNCHANGED <<config, file>>

\* One failure may refuse several queries.
Refuse(S) == /\ \A q \in S : ask[q].pc \in {"asked", "authorised", "located", "read"}
             /\ ask' = [q \in Queries |-> IF q \in S THEN [Unasked EXCEPT !.pc = "refused"]
                                                   ELSE ask[q]]
             /\ UNCHANGED <<config, file>>

Leave(q) == /\ ask[q].pc \in {"answered", "refused"}
            /\ ask' = [ask EXCEPT ![q] = Unasked]
            /\ UNCHANGED <<config, file>>

\* Administrators and whoever owns the buckets.
Change == /\ config' \in [Sources -> [version : Nat, at : Buckets, owner : Owners]]
          /\ file' \in [Buckets -> Contents]
          /\ UNCHANGED ask

Next == \/ \E q \in Queries : Ask(q) \/ Authorise(q) \/ Locate(q) \/ Read(q)
                               \/ Answer(q) \/ Leave(q)
        \/ \E S \in SUBSET Queries : Refuse(S)
        \/ Change

Spec == Init /\ [][Next]_promised
=============================================================================
