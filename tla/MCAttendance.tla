---------------------------- MODULE MCAttendance ----------------------------
EXTENDS Attendance, TLC
Symmetry == Permutations(User) \cup Permutations(Req)
=============================================================================
