----------------------------- MODULE VisitLedger -----------------------------
(* What the visitor tables promise, without requests, statements, locks or     *)
(* crashes: a pageview is taken up once, stays live until one step closes it,  *)
(* and that step puts it into every permanent table exactly once.  Only a      *)
(* pageview taken up while its unit was being closed is exempt: it may be      *)
(* missing from some of the tables.  VisitorRollup implements this.            *)
EXTENDS Naturals

CONSTANT Hits

VARIABLES
    known,      \* pageviews taken up
    live,       \* those not closed yet
    times,      \* how often each is in each permanent table
    exposed     \* those taken up while their unit was being closed

ledgerVars == <<known, live, times, exposed>>

Tables == {"daily", "monthly", "landings"}
Never == [t \in Tables |-> 0]
Once == [t \in Tables |-> 1]

Init ==
    /\ known = {} /\ live = {} /\ exposed = {}
    /\ times = [h \in Hits |-> Never]

Open(h) ==
    /\ h \notin known
    /\ known' = known \cup {h}
    /\ live' = live \cup {h}
    /\ exposed' \in {exposed, exposed \cup {h}}
    /\ UNCHANGED times

Close(H) ==
    /\ H \subseteq live
    /\ live' = live \ H
    /\ \E missing \in [H \cap exposed -> SUBSET Tables] :
          times' = [h \in Hits |->
                      IF h \notin H THEN times[h]
                      ELSE IF h \in exposed THEN [t \in Tables |-> IF t \in missing[h] THEN 0 ELSE 1]
                      ELSE Once]
    /\ UNCHANGED <<known, exposed>>

Next == (\E h \in Hits : Open(h)) \/ (\E H \in SUBSET Hits : Close(H))
Spec == Init /\ [][Next]_ledgerVars
=============================================================================
