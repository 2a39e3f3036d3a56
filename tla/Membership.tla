------------------------------ MODULE Membership ------------------------------
(***************************************************************************)
(* What departments promise: everybody is in at most one, moves from one   *)
(* to another in a single step, leaves only the one he is asked to leave,  *)
(* and is in none that does not exist.                                     *)
(***************************************************************************)
CONSTANTS Users, Depts, Nobody

VARIABLES open,   \* the departments that exist
          dept    \* the one that each user is in

mvars == <<open, dept>>

Init == open = {} /\ dept = [u \in Users |-> Nobody]

Found(d) == /\ d \notin open
            /\ open' = open \cup {d}
            /\ UNCHANGED dept

Move(u, d) == /\ d \in open
              /\ dept' = [dept EXCEPT ![u] = d]
              /\ UNCHANGED open

Leave(u, d) == /\ dept[u] = d
               /\ dept' = [dept EXCEPT ![u] = Nobody]
               /\ UNCHANGED open

Dissolve(d) == /\ d \in open
               /\ open' = open \ {d}
               /\ dept' = [u \in Users |-> IF dept[u] = d THEN Nobody ELSE dept[u]]

Next == \E d \in Depts : \/ Found(d) \/ Dissolve(d)
                         \/ \E u \in Users : Move(u, d) \/ Leave(u, d)

Spec == Init /\ [][Next]_mvars
=============================================================================
