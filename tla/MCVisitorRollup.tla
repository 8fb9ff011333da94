--------------------------- MODULE MCVisitorRollup ---------------------------
EXTENDS VisitorRollup, TLC

\* Unfiltered invocations.
AllSelected == {[sites |-> Sites, periods |-> Periods]}

\* Unfiltered, --period of the first month, --website of one site.
Filtered ==
    AllSelected \cup {[sites |-> Sites, periods |-> {0}]}
    \cup {[sites |-> {s}, periods |-> Periods] : s \in Sites}

\* Slots, processes, runners and sites are interchangeable.
Interchangeable ==
    Permutations(Slots) \cup Permutations(Processes)
    \cup Permutations(Runners) \cup Permutations(Sites)
=============================================================================
