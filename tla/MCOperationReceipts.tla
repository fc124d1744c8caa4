------------------------- MODULE MCOperationReceipts -------------------------
(* Instances of OperationReceipts: what is sent under which operation ID, and the
   faults that may strike meanwhile. *)
EXTENDS OperationReceipts

CONSTANTS r1, r2, r3, a, b, c, x, y

Plan(k, i, kind, after) == [key |-> k, intent |-> i, kind |-> kind, after |-> after]
Sends(p1, p2, p3) == [r \in Requests |-> CASE r = r1 -> p1 [] r = r2 -> p2 [] OTHER -> p3]
Strikes(refusals, failures, crashes, passes) ==
    [f \in Faults |-> CASE f = "refusals" -> refusals [] f = "failures" -> failures
                        [] f = "crashes" -> crashes [] OTHER -> passes]
Scenario(plans, faults) == [plan |-> plans, faults |-> faults]

\* A launch, a resend of it and another request under the same ID.
Resent(kind) ==
    Scenario(Sends(Plan(a, x, kind, Nobody), Plan(a, x, kind, Nobody), Plan(a, y, kind, Nobody)),
             Strikes(0, 0, 1, 1))

\* Three operations numbered across a restart: the first launches meet.
Meeting ==
    Scenario(Sends(Plan(a, x, "create", Nobody), Plan(b, x, "create", Nobody), Plan(c, x, "tab", r2)),
             Strikes(0, 0, 1, 0))

\* Three launches one after the other, across a restart and a purge.
Numbering(refusals) ==
    Scenario(Sends(Plan(a, x, "create", Nobody), Plan(b, x, "create", r1), Plan(c, x, "create", r2)),
             Strikes(refusals, 0, 1, 1))

\* A stop, its resend, and a query that may complete it.
Stopping ==
    Scenario(Sends(Plan(a, x, "stop", Nobody), Plan(a, x, "stop", Nobody), Plan(a, x, "get", Nobody)),
             Strikes(1, 1, 1, 0))

\* A launch meets a database write under its ID, while the store fails.
Failing(kind) ==
    Scenario(Sends(Plan(a, x, kind, Nobody), Plan(a, x, "write", Nobody), Plan(a, x, kind, Nobody)),
             Strikes(1, 1, 1, 0))

\* A write, resent and reused after it ended, while receipts are purged.
Purging ==
    Scenario(Sends(Plan(a, x, "write", Nobody), Plan(a, x, "write", r1), Plan(a, y, "get", r1)),
             Strikes(1, 1, 1, 2))

MCScenarios ==
    {Resent("create"), Resent("tab"), Meeting, Numbering(0), Purging, Stopping, Failing("create"), Failing("tab")}
ReuseScenarios == {Numbering(1)}
=============================================================================
