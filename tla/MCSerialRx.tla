----------------------------- MODULE MCSerialRx -----------------------------
EXTENDS SerialRx

\* Bounds on the search.  Interrupts hit foreground windows of at most one kind
\* in a behaviour; only those that hit none go on until the ring has overflowed.
AtMostOneRace == Cardinality(raced) <= 1
Bounded == AtMostOneRace /\ (raced # {} => clock < MaxStamp /\ Len(out) < MaxStamp)
=============================================================================
