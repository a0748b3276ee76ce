--------------------------- MODULE MCPlaybookRun ----------------------------
(* Small instances of PlaybookRun for TLC.                                 *)
EXTENDS PlaybookRun

Plain == [retry |-> 0, wait |-> FALSE, filter |-> FALSE, delay |-> FALSE,
          agent |-> FALSE, children |-> FALSE]

Retried == [Plain EXCEPT !.retry = 1]
RetriedLater == [Plain EXCEPT !.retry = 1, !.wait = TRUE]
Filtered == [Plain EXCEPT !.filter = TRUE]
Delayed == [Plain EXCEPT !.delay = TRUE]
OnAgent == [Plain EXCEPT !.agent = TRUE]
Parent == [Plain EXCEPT !.children = TRUE]

Request(steps) == [steps |-> steps, approval |-> FALSE, pinned |-> FALSE, timed |-> FALSE]

\* Every feature of a step, with and without a timeout, an approval and an agent,
\* the steps that may be postponed for ever (Endless) included.
MixedRequests ==
  { Request(<<RetriedLater, Plain, Filtered>>),
    Request(<<Retried, Delayed>>),
    Request(<<Parent, Parent>>),
    [Request(<<Plain, OnAgent>>) EXCEPT !.timed = TRUE],
    [Request(<<[OnAgent EXCEPT !.filter = TRUE], Plain>>) EXCEPT !.timed = TRUE],
    [Request(<<[OnAgent EXCEPT !.retry = 1]>>) EXCEPT !.timed = TRUE],
    [Request(<<[OnAgent EXCEPT !.retry = 1, !.wait = TRUE]>>) EXCEPT !.timed = TRUE],
    Request(<<[RetriedLater EXCEPT !.delay = TRUE]>>),
    Request(<<[Retried EXCEPT !.delay = TRUE]>>),
    [Request(<<Plain>>) EXCEPT !.approval = TRUE],
    [Request(<<Plain>>) EXCEPT !.pinned = TRUE, !.timed = TRUE],
    Request(<<Filtered, Plain>>),
    Request(<<Parent, OnAgent>>) }

AgentRetryRequests == { Request(<<[OnAgent EXCEPT !.retry = 1]>>) }

DelayedRetryRequests == { Request(<<[RetriedLater EXCEPT !.delay = TRUE]>>) }

EndedExcluded == {"running", "waiting"}
=============================================================================
