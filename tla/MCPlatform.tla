----------------------------- MODULE MCPlatform -----------------------------
(* Four machines that share no state, checked in one run: the import jobs of an *)
(* installation, the backfill of what they imported, the gate of its ingest     *)
(* endpoint and the browser tracker.  A behaviour moves one of them and leaves  *)
(* the others where they began; none reads another's variables, so nothing is   *)
(* lost.                                                                        *)
EXTENDS ImportJobs, VisitorBackfill, IngestGate, TrackerTab, TLC

VARIABLE part      \* the machine that moves

e1 == [table |-> "events", id |-> "e1", at |-> 1, role |-> "-"]
e2 == [table |-> "events", id |-> "e2", at |-> 2, role |-> "-"]
u1 == [table |-> "users", id |-> "u1", at |-> 1, role |-> "owner"]
UmamiRows == {e1, e2, u1}

\* One Umami session over two days.
TwoDaySession ==
    {[id |-> 11, day |-> 0, session |-> 1], [id |-> 12, day |-> 1, session |-> 1]}

\* Reached directly, through two proxies of which the outer one may name the
\* client, and through a proxy nobody has counted.
Direct == [trust |-> FALSE, count |-> 0, custom |-> FALSE, hops |-> 0, table |-> 1]
Proxied == [trust |-> TRUE, count |-> 2, custom |-> TRUE, hops |-> 2, table |-> 2]
Uncounted == [trust |-> TRUE, count |-> 0, custom |-> FALSE, hops |-> 1, table |-> 1]
Deployments == {Direct, Proxied, Uncounted}
\* A client that writes no header, or another's address into one.
Claims ==
    LET silent == [forwarded |-> <<>>, cdn |-> Entry(NoAddress), other |-> Entry(NoAddress)]
        forged == Entry(CHOOSE a \in Addresses : TRUE)
    IN  {silent, [silent EXCEPT !.forwarded = <<forged>>],
         [silent EXCEPT !.cdn = forged], [silent EXCEPT !.other = forged]}

Init ==
    /\ part \in {"imports", "backfill", "gate", "tab"}
    /\ InitImports /\ InitBackfill /\ InitGate /\ InitTab
    /\ part # "gate" => setup = Direct
    /\ part # "gate" \/ setup # Direct => \A s \in GateSites : sites[s] = "active"
    /\ part # "tab" => tab.welcome /\ tab.visible /\ location = CHOOSE p \in Pages : TRUE

Next ==
    /\ UNCHANGED part
    /\ \/ part = "imports" /\ NextImports /\ UNCHANGED <<backfillVars, gateVars, tabVars>>
       \/ part = "backfill" /\ NextBackfill /\ UNCHANGED <<importVars, gateVars, tabVars>>
       \/ part = "gate" /\ (IF setup = Direct THEN NextGate ELSE NextHit \/ Tick)
          /\ UNCHANGED <<importVars, backfillVars, tabVars>>
       \/ part = "tab" /\ NextTab /\ UNCHANGED <<importVars, backfillVars, gateVars>>

vars == <<part, importVars, backfillVars, gateVars, tabVars>>
Spec == Init /\ [][Next]_vars

Interchangeable == Permutations(Jobs) \cup Permutations(Threads)
=============================================================================
