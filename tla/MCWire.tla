------------------------------- MODULE MCWire -------------------------------
EXTENDS Wire, FiniteSets

\* A command issued at the first barrier and judged by the last; one that is
\* refused, or denied to a device that is not born.
MCScript == <<[device |-> "P1", at |-> 1, within |-> 2, fate |-> "succeeded"],
              [device |-> "P2", at |-> 2, within |-> 1, fate |-> "refused"]>>

MCReading == {[value |-> "goal", good |-> TRUE], [value |-> "other", good |-> TRUE],
              [value |-> "goal", good |-> FALSE]}

\* At any of the first nine numbers of a session one fault of any kind, or two
\* that each lose a record: both of one rebirth, a birth and what follows it, a
\* reading and the end of its slice.
Plans(count, kinds) ==
    UNION {[struckSeqs -> kinds] : struckSeqs \in {seqs \in SUBSET (0..8) : Cardinality(seqs) = count}}

MCFaultPlan == Plans(0, {}) \cup Plans(1, FaultKind) \cup Plans(2, FaultKind \ {"duplicate"})
=============================================================================
