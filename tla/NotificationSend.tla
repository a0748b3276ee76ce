-------------------------- MODULE NotificationSend --------------------------
(***************************************************************************)
(* The send history of one notification (notification/events.go, job.go):  *)
(* how a change of health becomes a row of notification_send_history, and  *)
(* how the consumers of the event queue, the jobs that send pending and    *)
(* fallback notifications, and the playbook engine move that row.          *)
(*                                                                         *)
(* A job sends inside the transaction that locks the row.  A consumer of   *)
(* notification.send does not: it writes the row on connections of its     *)
(* own, and its transaction only holds the event.  What is sent is never   *)
(* rolled back.                                                            *)
(***************************************************************************)
EXTENDS Naturals, Sequences, FiniteSets

CONSTANTS
  Resources,      \* config items
  Events,         \* health of the events the notification watches
  Notifications,  \* the notifications to consider (see NotificationsAssumption)
  Group,          \* Group[r]: the notification group of a resource
  Inhibits,       \* pairs of resources: the first one's notification inhibits the second's
  Senders,        \* transactions of jobs and consumers, on any replica
  MaxRetries,     \* notification.max-retries, less one
  MaxAttempts,    \* attempts of an event of the queue (postq)
  MaxChanges,     \* bound: changes of health, of a silence, and of the clock
  MaxFailures,    \* bound: sendings, and saves of a new row, that fail
  MaxCrashes,     \* bound: transactions that roll back
  MaxRows         \* bound: rows, when the fallback is a playbook

Recipients == {"service", "playbook"}

\* waitFor: the notification waits; scraped: its resources belong to a
\* Kubernetes scraper; repeat: it has a repeat interval.
ASSUME NotificationsAssumption ==
  Notifications \subseteq [to : Recipients, fallback : Recipients \cup {"none"},
                           waitFor : BOOLEAN, scraped : BOOLEAN, repeat : BOOLEAN]

ASSUME BoundsAssumption ==
  /\ MaxRetries \in Nat /\ MaxAttempts \in Nat
  /\ MaxChanges \in Nat /\ MaxFailures \in Nat /\ MaxCrashes \in Nat /\ MaxRows \in Nat

VARIABLES
  notif,      \* the notification
  health,     \* health[r], "gone" when the resource is deleted
  silenced,   \* resources with a matching silence
  events,     \* queued events of resources
  adding,     \* events that have passed the constraints and are being saved
  sends,      \* queued notification.send events
  rows,       \* the send history, in the order of created_at
  aged,       \* rows 1 .. aged are older than the repeat interval
  tasks,      \* tasks[w]: what sender w is at
  runEvents,  \* rows whose playbook.run event is queued
  changes, failures, crashes

vars == <<notif, health, silenced, events, adding, sends, rows, aged, tasks, runEvents,
          changes, failures, crashes>>

Healths == Events \cup {"healthy", "gone"}

\* Statuses of rows that a job takes.
Queued == {"pending", "evaluating-waitfor", "attempting_fallback"}
Blocked == {"repeat-interval", "silenced", "inhibited"}
Status == Queued \cup Blocked \cup
  {"started", "sent", "error", "skipped", "pending_playbook_run", "pending_playbook_completion"}

Event == [res : Resources, event : Events]
Send == [res : Resources, event : Events, attempts : 0 .. MaxAttempts]
Row == [res : Resources, event : Events, status : Status, retries : 0 .. MaxRetries,
        parent : Nat, delivered : Nat]
Idle == [kind |-> "idle"]
Task == [kind : {"event", "pending", "fallback"}, row : Nat, attempts : Nat,
         phase : {"started", "delivered", "triggered", "stale", "failed", "logged", "refused"}]

TypeOK ==
  /\ notif \in Notifications
  /\ health \in [Resources -> Healths]
  /\ silenced \in SUBSET Resources
  /\ events \in SUBSET Event /\ adding \in SUBSET Event
  /\ sends \in SUBSET Send
  /\ rows \in Seq(Row)
  /\ aged \in 0 .. Len(rows)
  /\ tasks \in [Senders -> Task \cup {Idle}]
  /\ \A w \in Senders : tasks[w] # Idle => tasks[w].row \in DOMAIN rows
  /\ runEvents \in SUBSET DOMAIN rows
  /\ changes \in 0 .. MaxChanges /\ failures \in 0 .. MaxFailures /\ crashes \in 0 .. MaxCrashes

Init ==
  /\ notif \in Notifications
  /\ health \in [Resources -> Healths \ {"gone"}]
  /\ events = {e \in Event : health[e.res] = e.event}
  /\ silenced = {} /\ adding = {} /\ sends = {}
  /\ rows = <<>> /\ aged = 0
  /\ tasks = [w \in Senders |-> Idle]
  /\ runEvents = {}
  /\ changes = 0 /\ failures = 0 /\ crashes = 0
----------------------------------------------------------------------------
(* The environment.                                                        *)

Change == changes < MaxChanges /\ changes' = changes + 1

\* A scrape changes the health of a resource or finds it deleted.  An event of
\* the same name and resource that is still queued is replaced.
HealthChange(r) ==
  /\ Change
  /\ health[r] # "gone"
  /\ health' \in {[health EXCEPT ![r] = h] : h \in Healths \ {health[r]}}
  /\ events' = events \cup ([res : {r}, event : {health'[r]}] \cap Event)
  /\ UNCHANGED <<notif, silenced, adding, sends, rows, aged, tasks, runEvents, failures, crashes>>

\* A silence is added or ends.
SilenceChange(r) ==
  /\ Change
  /\ silenced' = IF r \in silenced THEN silenced \ {r} ELSE silenced \cup {r}
  /\ UNCHANGED <<notif, health, events, adding, sends, rows, aged, tasks, runEvents, failures, crashes>>

\* The repeat interval passes for the older rows.
Age ==
  /\ notif.repeat
  /\ Change
  /\ aged' \in aged + 1 .. Len(rows)
  /\ UNCHANGED <<notif, health, silenced, events, adding, sends, rows, tasks, runEvents, failures, crashes>>
----------------------------------------------------------------------------
(* processNotificationConstraints                                          *)

SentRecently(i) == i > aged /\ rows[i].status = "sent"

\* checkRepeatInterval
Repeated(r, e) ==
  \E i \in DOMAIN rows : /\ SentRecently(i)
                         /\ rows[i].event = e
                         /\ Group[rows[i].res] = Group[r]

\* checkInhibition
Inhibited(r) == \E i \in DOMAIN rows : SentRecently(i) /\ <<rows[i].res, r>> \in Inhibits

\* The status a notification is blocked with, "" if it is not.
Blocker(r, e) ==
  IF notif.repeat /\ Repeated(r, e) THEN "repeat-interval"
  ELSE IF r \in silenced THEN "silenced"
  ELSE IF notif.repeat /\ Inhibited(r) THEN "inhibited"
  ELSE ""
----------------------------------------------------------------------------
(* addNotificationEvent                                                    *)

NewRow(r, e, status, parent) ==
  [res |-> r, event |-> e, status |-> status, retries |-> 0, parent |-> parent,
   delivered |-> 0]

\* duty: insert_unsent_notification_to_history counts duplicates of a row in it.
SaveUnsent(r, e, status) ==
  rows' = IF \E i \in DOMAIN rows :
               <<rows[i].res, rows[i].event, rows[i].status>> = <<r, e, status>>
          THEN rows ELSE Append(rows, NewRow(r, e, status, 0))

\* An event is blocked, dropped by the rate limit, or about to be saved.
AddNotificationEvent(e) ==
  /\ e \in events /\ health[e.res] # "gone"
  /\ events' = events \ {e}
  /\ LET status == Blocker(e.res, e.event) IN
     \/ status # "" /\ SaveUnsent(e.res, e.event, status) /\ UNCHANGED adding
     \/ status = "" /\ adding' \in {adding, adding \cup {e}} /\ UNCHANGED rows
  /\ UNCHANGED <<notif, health, silenced, sends, aged, tasks, runEvents, changes, failures, crashes>>

\* A notification that waits is a pending row ...
SavePending(e) ==
  /\ e \in adding /\ notif.waitFor
  /\ rows' = Append(rows, NewRow(e.res, e.event, "pending", 0))
  /\ adding' = adding \ {e}
  /\ UNCHANGED <<notif, health, silenced, events, sends, aged, tasks, runEvents, changes, failures, crashes>>

Handling(e) == \E w \in Senders : /\ tasks[w].kind = "event"
                                  /\ rows[tasks[w].row].res = e.res
                                  /\ rows[tasks[w].row].event = e.event

\* ... any other a notification.send event.  It replaces the one in the queue;
\* one that is being handled is waited for, since its key is locked.
SaveSend(e) ==
  /\ e \in adding /\ ~notif.waitFor
  /\ ~Handling(e)
  /\ sends' = {s \in sends : <<s.res, s.event>> # <<e.res, e.event>>}
              \cup {[res |-> e.res, event |-> e.event, attempts |-> 0]}
  /\ adding' = adding \ {e}
  /\ UNCHANGED <<notif, health, silenced, events, rows, aged, tasks, runEvents, changes, failures, crashes>>
----------------------------------------------------------------------------
(* Taking a notification to send.                                          *)

At(kind, i, attempts, phase) ==
  [kind |-> kind, row |-> i, attempts |-> attempts, phase |-> phase]
Begin(w, kind, i, attempts) == tasks' = [tasks EXCEPT ![w] = At(kind, i, attempts, "started")]

\* sendNotification writes a row of its own for every attempt (StartLog); if that
\* fails, so has the attempt.
TakeSend(w, s) ==
  /\ tasks[w] = Idle
  /\ s \in sends /\ s.attempts < MaxAttempts
  /\ \/ /\ sends' = sends \ {s}
        /\ rows' = Append(rows, NewRow(s.res, s.event, "started", 0))
        /\ Begin(w, "event", Len(rows) + 1, s.attempts)
        /\ UNCHANGED failures
     \/ /\ failures < MaxFailures /\ failures' = failures + 1
        /\ sends' = (sends \ {s}) \cup {[s EXCEPT !.attempts = @ + 1]}
        /\ UNCHANGED <<rows, tasks>>
  /\ UNCHANGED <<notif, health, silenced, events, adding, aged, runEvents, changes, crashes>>

\* Mutant of Locked: rows are read without a lock.
LockedNever(i) == FALSE

\* FOR UPDATE SKIP LOCKED
Locked(i) == \E w \in Senders : tasks[w].kind \in {"pending", "fallback"} /\ tasks[w].row = i

\* Mutant of Retriable: one attempt more.
RetriableOnceMore(i) == rows[i].retries <= MaxRetries

Retriable(i) == rows[i].retries < MaxRetries

\* The row a job selects; that its not_before passes is left to time.
Taken(w, i, statuses) ==
  /\ tasks[w] = Idle
  /\ rows[i].status \in statuses /\ Retriable(i) /\ ~Locked(i)

\* Mutant of ToEvaluate: the evaluation phase comes again and again.
ToEvaluateAgain(i) == notif.scraped

\* A resource of a Kubernetes scraper is scraped and waited for once more.
ToEvaluate(i) == notif.scraped /\ rows[i].status # "evaluating-waitfor"

\* processPendingNotification up to the sending: the row is postponed, skipped,
\* blocked or sent, or one of the checks fails.
TakePending(w, i) ==
  LET r == rows[i].res
      blocker == Blocker(r, rows[i].event)
      mark(status) == rows' = [rows EXCEPT ![i].status = status] /\ UNCHANGED <<tasks, failures>>
      evaluate == IF health[r] # "gone" /\ ToEvaluate(i) THEN mark("evaluating-waitfor")
                  ELSE IF health[r] # rows[i].event THEN mark("skipped")
                  ELSE \/ mark("skipped")  \* the filter matches no more
                       \/ blocker # "" /\ mark(blocker)
                       \/ /\ blocker = "" /\ Begin(w, "pending", i, 0)
                          /\ UNCHANGED <<rows, failures>>
      fail == /\ failures < MaxFailures /\ failures' = failures + 1
              /\ tasks' = [tasks EXCEPT ![w] = At("pending", i, 0, "failed")]
              /\ UNCHANGED rows
  IN /\ Taken(w, i, {"pending", "evaluating-waitfor"})
     /\ evaluate \/ fail
     /\ UNCHANGED <<notif, health, silenced, events, adding, sends, aged, runEvents, changes, crashes>>

TakeFallback(w, i) ==
  /\ Taken(w, i, {"attempting_fallback"})
  /\ Begin(w, "fallback", i, 0)
  /\ UNCHANGED <<notif, health, silenced, events, adding, sends, rows, aged, runEvents, changes, failures, crashes>>
----------------------------------------------------------------------------
(* Sending.                                                                *)

Phase(w, phases) == tasks[w] # Idle /\ tasks[w].phase \in phases
GoTo(w, phase) == tasks' = [tasks EXCEPT ![w].phase = phase]
Recipient(w) == IF tasks[w].kind = "fallback" THEN notif.fallback ELSE notif.to

\* _sendNotification: a message goes out at once, a playbook.run event with the
\* transaction that holds the row, which a consumer of notification.send is not in.
Deliver(w) ==
  LET i == tasks[w].row IN
  /\ Phase(w, {"started"})
  /\ \/ /\ health[rows[i].res] = "gone"
        /\ GoTo(w, "stale")
        /\ UNCHANGED <<rows, runEvents, failures>>
     \/ /\ failures < MaxFailures /\ failures' = failures + 1
        /\ GoTo(w, "failed")
        /\ UNCHANGED <<rows, runEvents>>
     \/ /\ health[rows[i].res] # "gone" /\ Recipient(w) = "service"
        /\ GoTo(w, "delivered")
        /\ rows' = [rows EXCEPT ![i].delivered = @ + 1]
        /\ UNCHANGED <<runEvents, failures>>
     \/ /\ health[rows[i].res] # "gone" /\ Recipient(w) = "playbook"
        /\ GoTo(w, "triggered")
        /\ runEvents' = IF tasks[w].kind = "event" THEN runEvents \cup {i} ELSE runEvents
        /\ UNCHANGED <<rows, failures>>
  /\ UNCHANGED <<notif, health, silenced, events, adding, sends, aged, changes, crashes>>

Outcome == [delivered |-> "sent", triggered |-> "pending_playbook_run",
            stale |-> "skipped", failed |-> "error"]

\* Mutant of EndLog: a send that failed returns before it saves its row.
EndLogUnlessFailed(w) ==
  /\ tasks[w].kind = "event" /\ Phase(w, DOMAIN Outcome)
  /\ rows' = IF tasks[w].phase = "failed" THEN rows
             ELSE [rows EXCEPT ![tasks[w].row].status = Outcome[tasks[w].phase]]
  /\ GoTo(w, IF tasks[w].phase = "failed" THEN "refused" ELSE "logged")
  /\ UNCHANGED <<notif, health, silenced, events, adding, sends, aged, runEvents, changes, failures, crashes>>

\* sendNotification saves every column of the row it has in memory (EndLog); an
\* error of that is only logged.
EndLog(w) ==
  /\ tasks[w].kind = "event" /\ Phase(w, DOMAIN Outcome)
  /\ \/ /\ rows' = [rows EXCEPT ![tasks[w].row].status = Outcome[tasks[w].phase]]
        /\ UNCHANGED crashes
     \/ crashes < MaxCrashes /\ crashes' = crashes + 1 /\ UNCHANGED rows
  /\ GoTo(w, IF tasks[w].phase = "failed" THEN "refused" ELSE "logged")
  /\ UNCHANGED <<notif, health, silenced, events, adding, sends, aged, runEvents, changes, failures>>

SendOf(w, attempts) ==
  [res |-> rows[tasks[w].row].res, event |-> rows[tasks[w].row].event, attempts |-> attempts]

\* The consumer's transaction commits: a failed event goes back into the queue.
Ack(w) ==
  /\ Phase(w, {"logged", "refused"})
  /\ sends' = IF tasks[w].phase = "refused" THEN sends \cup {SendOf(w, tasks[w].attempts + 1)}
              ELSE sends
  /\ tasks' = [tasks EXCEPT ![w] = Idle]
  /\ UNCHANGED <<notif, health, silenced, events, adding, rows, aged, runEvents, changes, failures, crashes>>

\* duty: GenerateFallbackAttempt copies the row into a new one.
WithFallback(history, i) ==
  IF notif.fallback = "none" THEN history
  ELSE Append(history, NewRow(rows[i].res, rows[i].event, "attempting_fallback", i))

\* ProcessPendingNotifications and ProcessFallbackNotifications commit: the
\* status that the sending saved is written over.  The row was selected with
\* retries < MaxRetries, so the status "error" of the query is never taken.
Commit(w) ==
  LET i == tasks[w].row
      kind == tasks[w].kind
      again == IF rows[i].retries >= MaxRetries THEN "error"
               ELSE IF kind = "pending" THEN "pending" ELSE "attempting_fallback"
      retried == [rows EXCEPT ![i].status = again, ![i].retries = @ + 1]
  IN /\ kind \in {"pending", "fallback"} /\ Phase(w, DOMAIN Outcome)
     /\ rows' = IF tasks[w].phase # "failed" THEN [rows EXCEPT ![i].status = "sent"]
                ELSE IF kind = "pending" THEN WithFallback(retried, i) ELSE retried
     /\ runEvents' = IF tasks[w].phase = "triggered" THEN runEvents \cup {i} ELSE runEvents
     /\ tasks' = [tasks EXCEPT ![w] = Idle]
     /\ UNCHANGED <<notif, health, silenced, events, adding, sends, aged, changes, failures, crashes>>

\* The transaction rolls back; what has been sent or saved outside it stays.
Crash(w) ==
  /\ tasks[w] # Idle
  /\ crashes < MaxCrashes /\ crashes' = crashes + 1
  /\ sends' = IF tasks[w].kind = "event" THEN sends \cup {SendOf(w, tasks[w].attempts)} ELSE sends
  /\ tasks' = [tasks EXCEPT ![w] = Idle]
  /\ UNCHANGED <<notif, health, silenced, events, adding, rows, aged, runEvents, changes, failures>>

\* onNewRun (playbook/events.go) starts the run and records it, or, if it is
\* forbidden, records the error and generates a fallback attempt.
StartRun(i) ==
  /\ i \in runEvents
  /\ runEvents' = runEvents \ {i}
  /\ \/ rows' = [rows EXCEPT ![i].status = "pending_playbook_completion"]
     \/ /\ Len(rows) < MaxRows
        /\ rows' = WithFallback([rows EXCEPT ![i].status = "error"], i)
  /\ UNCHANGED <<notif, health, silenced, events, adding, sends, aged, tasks, changes, failures, crashes>>
----------------------------------------------------------------------------
SenderNext(w) == Deliver(w) \/ EndLog(w) \/ Ack(w) \/ Commit(w)

Next ==
  \/ \E r \in Resources : HealthChange(r) \/ SilenceChange(r)
  \/ Age
  \/ \E e \in Event : AddNotificationEvent(e) \/ SavePending(e) \/ SaveSend(e)
  \/ \E w \in Senders :
       \/ \E s \in sends : TakeSend(w, s)
       \/ \E i \in DOMAIN rows : TakePending(w, i) \/ TakeFallback(w, i)
       \/ SenderNext(w) \/ Crash(w)
  \/ \E i \in DOMAIN rows : StartRun(i)

Spec == Init /\ [][Next]_vars

(***************************************************************************)
(* Fairness.  The jobs run every 15 seconds and take the row with the      *)
(* earliest not_before; the consumers of the event queue are notified of   *)
(* an event and poll besides; a sender goes on or its transaction rolls    *)
(* back.  Nothing is assumed of health, silences and the recipients.       *)
(***************************************************************************)
Fairness ==
  /\ \A e \in Event : WF_vars(AddNotificationEvent(e)) /\ WF_vars(SavePending(e) \/ SaveSend(e))
  /\ \A w \in Senders : WF_vars(SenderNext(w))
  /\ \A e \in Event : WF_vars(\E w \in Senders, s \in sends :
       <<s.res, s.event>> = <<e.res, e.event>> /\ TakeSend(w, s))
  /\ \A i \in 1 .. MaxRows :
       /\ WF_vars(i \in DOMAIN rows /\ \E w \in Senders : TakePending(w, i) \/ TakeFallback(w, i))
       /\ WF_vars(StartRun(i))

FairSpec == Spec /\ Fairness
----------------------------------------------------------------------------
(* Properties.                                                             *)

\* A row is sent once, whatever jobs and consumers overlap, and once more for
\* every transaction that is rolled back after it.
OncePerRow == \A i \in DOMAIN rows : rows[i].delivered <= 1 + crashes

\* Rows that say a notification is being sent, whose sender has given them up.
\* No job selects them, so they say so for ever.
Stranded ==
  {i \in DOMAIN rows :
     /\ rows[i].status = "started"
     /\ \A w \in Senders : tasks[w] # Idle /\ tasks[w].row = i => tasks[w].phase \in {"logged", "refused"}}

\* The history and the queue are written on different connections, and what is
\* sent is not rolled back.  All that can come of it is a row left behind for
\* each transaction that was rolled back, or could not save the row.
CrashesExplain == OncePerRow /\ Cardinality(Stranded) <= crashes

\* Every failure of a notification generates at most one fallback attempt, so
\* that the retries, and one forbidden run, bound them.
FallbacksBounded ==
  \A p \in DOMAIN rows :
    Cardinality({i \in DOMAIN rows : rows[i].parent = p})
      <= MaxRetries + (IF "playbook" \in {notif.to, notif.fallback} THEN 1 ELSE 0)

\* A row that was skipped or blocked, and a message that was sent or refused
\* for good, keeps its status: no late writer puts it back or resends it.
Settled(i) ==
  \/ rows[i].status \in Blocked \cup {"skipped"}
  \/ rows[i].status \in {"sent", "error"} /\ "playbook" \notin {notif.to, notif.fallback}
SettledStays ==
  [][\A i \in DOMAIN rows : Settled(i) => rows'[i].status = rows[i].status]_vars

\* A row that waits for a job is taken until it is settled or its retries are
\* used up, through both of its waits and all its failures.
Waiting(i) == i \in DOMAIN rows /\ rows[i].status \in Queued /\ Retriable(i)
RowsSettle == \A i \in 1 .. MaxRows : Waiting(i) ~> ~Waiting(i)

\* triggerPlaybookRun, "The notification of the status is then handled entirely
\* by playbook": nothing takes back what onNewRun has recorded in a row.
RunKept ==
  [][\A i \in DOMAIN rows : rows[i].status = "pending_playbook_completion" =>
       rows'[i].status # "pending_playbook_run"]_vars
=============================================================================
