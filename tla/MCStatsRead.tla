---------------------------- MODULE MCStatsRead ----------------------------
EXTENDS StatsRead, TLC

CONSTANTS f1, f2

\* 2 to 4 share a millisecond, over more than one page, in the minute after 1's;
\* 4, though it is the first of its family, has no content to show.
FourEntries == 1 .. 4
Times == <<2, 4, 4, 4>>
Durations == <<9, 1, 3, None>>
Families == <<f1, f1, f2, f1>>
Contents == {1, 2, 3}
SomeBoundaries == <<1, 2, 5>>
=============================================================================
