------------------------- MODULE MCVisitorBackfill -------------------------
EXTENDS VisitorBackfill

\* One Umami session over two days.
TwoDaySession ==
    {[id |-> 11, day |-> 0, session |-> 1], [id |-> 12, day |-> 1, session |-> 1]}
=============================================================================
