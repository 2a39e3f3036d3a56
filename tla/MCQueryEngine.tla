--------------------------- MODULE MCQueryEngine ---------------------------
EXTENDS QueryEngine
CONSTANTS small, large, email, uid
MCSize == [c \in Contents |-> IF c = small THEN 1 ELSE 2]
MCColumns == [c \in Contents |-> IF c = small THEN {email} ELSE Owners]
=============================================================================
