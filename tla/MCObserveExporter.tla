-------------------------- MODULE MCObserveExporter --------------------------
EXTENDS ObserveExporter

CONSTANTS b1, b2

TwoBatches == {b1, b2}
OneOfThem == {b2}
Entry(b, k) == [batch |-> b, kind |-> k]
SomeFlushes ==
  {<<Entry(b1, "root")>>, <<Entry(b1, "root"), Entry(b1, "log")>>, <<Entry(b1, "error")>>,
   <<Entry(b1, "log"), Entry(b1, "log"), Entry(b1, "log")>>,
   <<Entry(b2, "root")>>, <<Entry(b2, "error")>>}
=============================================================================
