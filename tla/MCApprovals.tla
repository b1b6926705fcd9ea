----------------------------- MODULE MCApprovals -----------------------------
\* Instances of Approvals for TLC.
EXTENDS Approvals, TLC

Symmetry == Permutations(Turns) \cup Permutations(Replies)
=============================================================================
