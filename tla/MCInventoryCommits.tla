------------------------- MODULE MCInventoryCommits -------------------------
EXTENDS InventoryCommits

CONSTANTS m1, m2, a, b

MCMachines == {m1, m2}

\* An application that every machine has, and another one.
MCItems == {a, b}
MCContents == {{a}, {a, b}}

\* The machine that reports to webhooks and views, the other one comes with
\* the synchronization only, if it is not new.
MCReported == {m1}
MCInitially ==
    {[m \in MCMachines |-> IF m = m1 THEN [items |-> {a}, stamp |-> 0] ELSE t] :
        t \in {None, [items |-> {a}, stamp |-> 0]}}
=============================================================================
