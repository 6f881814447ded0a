---------------------------- MODULE MCRegistration ----------------------------
EXTENDS Registration, TLC

Symmetry == Permutations(Requests) \cup Permutations(Emails) \cup Permutations(Athletes)
=============================================================================
