---------------------------- MODULE MCDepartments ----------------------------
EXTENDS Departments, TLC
MCSymmetry == Permutations(Admins) \cup Permutations(Users) \cup Permutations(Names)
=============================================================================
