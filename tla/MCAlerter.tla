------------------------------ MODULE MCAlerter ------------------------------
EXTENDS Alerter

CONSTANTS p1, p2, f

TwoPods == {p1, p2}
OnePod == {p1}
OneFamily == {f}
SmallFlushes == {<<f>>, <<f, f>>}
=============================================================================
