----------------------------- MODULE MCImportJobs -----------------------------
EXTENDS ImportJobs

\* One pageview of the website in Umami.
UmamiRows == {[table |-> "events", id |-> "e1", at |-> 1, role |-> "-"]}
=============================================================================
