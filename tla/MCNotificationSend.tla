------------------------- MODULE MCNotificationSend -------------------------
(* Small instances of NotificationSend for TLC.                              *)
EXTENDS NotificationSend

Plain == [to |-> "service", fallback |-> "none", waitFor |-> FALSE, scraped |-> FALSE,
          repeat |-> FALSE]
Triggering == [Plain EXCEPT !.to = "playbook"]

\* A message that waits and one that does not, a playbook that does not wait,
\* and a playbook whose fallback is another one.
MixedNotifications ==
  { [Plain EXCEPT !.waitFor = TRUE, !.scraped = TRUE, !.repeat = TRUE, !.fallback = "service"],
    [Plain EXCEPT !.repeat = TRUE],
    [Triggering EXCEPT !.fallback = "service"],
    [Triggering EXCEPT !.waitFor = TRUE, !.fallback = "playbook"] }

TriggeringOnly == {Triggering}

OwnGroup == [r \in Resources |-> r]
OneGroup == [r \in Resources |-> "group"]
Inhibitions == {<<r, s>> \in Resources \X Resources : r # s}
=============================================================================
