----------------------------- MODULE MCColdTier -----------------------------
EXTENDS ColdTier

CONSTANTS m1, m2

TwoMaintainers == {m1, m2}
=============================================================================
