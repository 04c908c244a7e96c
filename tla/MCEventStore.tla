---------------------------- MODULE MCEventStore ----------------------------
EXTENDS EventStore

\* No message is told apart from another; the specification states no fairness.
MsgSymmetry == Permutations(Msgs)
=============================================================================
