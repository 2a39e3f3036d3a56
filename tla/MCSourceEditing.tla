-------------------------- MODULE MCSourceEditing --------------------------
EXTENDS SourceEditing, TLC
CONSTANTS plain, double
MCHeadersOf == [c \in Contents |-> IF c = plain THEN {CHOOSE o \in Columns : TRUE}
                                                ELSE Columns]
MCDoubled == {double}
MCSymmetry == Permutations(Admins) \cup Permutations(Credentials)
              \cup Permutations(Names) \cup Permutations(Grants)
=============================================================================
