----------------------------- MODULE MCProfiler -----------------------------
EXTENDS Profiler, TLC

CONSTANTS r1, r2, r3, orders, users

ThreeRequests == {r1, r2, r3}
TwoRoutes == {orders, users}
OneOfUsers == (r1 :> orders) @@ (r2 :> orders) @@ (r3 :> users)
=============================================================================
