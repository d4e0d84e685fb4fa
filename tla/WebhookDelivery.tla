-------------------------- MODULE WebhookDelivery --------------------------
(***************************************************************************)
(* The delivery of one event to several asynchronous webhooks:             *)
(* trigger_webhooks_async_for_multiple_objects, generate_deferred_payloads *)
(* and send_webhook_request_async (saleor/webhook/transport), the mutation *)
(* EventDeliveryRetry and the task delete_event_payloads_task.             *)
(*                                                                         *)
(* Webhooks without a subscription query share one EventPayload, the       *)
(* others have a payload each; a deferred payload is generated by a task.  *)
(* A delivery has a task of its own, and a second one when the staff       *)
(* retries it.  Celery acknowledges a task when it starts (acks_late is    *)
(* not set), so a killed worker loses its task.  Telemetry, the details of *)
(* attempts and the deletion of a webhook are left out.                    *)
(***************************************************************************)
EXTENDS Naturals, FiniteSets

CONSTANTS
    Shared,       \* deliveries that share the legacy payload
    Own,          \* deliveries of subscription webhooks
    Deferred,     \* deliveries whose payload is generated by a task
    MaxRetries,   \* retry_kwargs["max_retries"]
    MaxMissing,   \* Celery's default max_retries, for a delivery not found
    Retried,      \* deliveries that the staff may retry, once each
    Switched,     \* deliveries whose webhook is switched on and off
    Killing,      \* processes may be killed
    Lagging       \* the replica may be behind the primary database

Deliveries == Shared \cup Own \cup Deferred
LegacyPayload == "legacy"
NoPayload == "none"
Payloads == {LegacyPayload} \cup Own \cup Deferred
Tasks == (Deliveries \X {"event"}) \cup (Retried \X {"staff"})

ASSUME WebhookAssumption ==
    /\ Shared \cap Own = {} /\ Shared \cap Deferred = {} /\ Own \cap Deferred = {}
    /\ {LegacyPayload, NoPayload} \cap Deliveries = {}
    /\ MaxRetries \in Nat /\ MaxMissing \in Nat
    /\ Retried \subseteq Deliveries /\ Switched \subseteq Deliveries
    /\ Killing \in BOOLEAN /\ Lagging \in BOOLEAN

VARIABLES
    status,     \* of each EventDelivery row, "absent" when there is none
    payload,    \* the payload that each delivery refers to
    rows,       \* the EventPayload rows
    files,      \* the payload files in the private storage
    active,     \* the deliveries whose webhook is active
    trigger,    \* "before" and "after" the rows of the event are created
    generator,  \* the task generate_deferred_payloads: "none", "queued", "done"
    unsent,     \* rows whose send task their creator has still to publish
    task,       \* the send tasks
    expired,    \* deliveries older than EVENT_PAYLOAD_DELETE_PERIOD
    manual,     \* the deliveries that EventDeliveryRetry was called for
    accepted,   \* history: the deliveries that their receiver has accepted
    lost        \* history: deliveries left unfinished by a killed process, an
                \* empty deferred payload or a late replica
vars == <<status, payload, rows, files, active, trigger, generator, unsent, task,
          expired, manual, accepted, lost>>

database == <<status, payload, rows, files>>
others == <<active, trigger, generator, expired, manual>>

Free == [pc |-> "free", retries |-> 0, listed |-> {}]

PayloadFor(d) ==
    CASE d \in Shared -> LegacyPayload
      [] d \in Own -> d
      [] OTHER -> NoPayload

Init ==
    /\ status = [d \in Deliveries |-> "absent"]
    /\ payload = [d \in Deliveries |-> NoPayload]
    /\ rows = {} /\ files = {}
    /\ active = Deliveries
    /\ trigger = "before" /\ generator = "none"
    /\ unsent = {}
    /\ task = [t \in Tasks |-> Free]
    /\ expired = {}
    /\ manual = {}
    /\ accepted = {}
    /\ lost = {}

Exists(d) == status[d] # "absent"

-----------------------------------------------------------------------------
(***************************************************************************)
(* The event.  Payloads and deliveries are committed before any task is    *)
(* published.                                                              *)
(***************************************************************************)
TriggerEvent ==
    /\ trigger = "before"
    /\ trigger' = "after"
    /\ status' = [d \in Deliveries |-> "PENDING"]
    /\ payload' = [d \in Deliveries |-> PayloadFor(d)]
    /\ rows' = {PayloadFor(d) : d \in Shared \cup Own}
    /\ files' = rows'
    /\ unsent' = Shared \cup Own
    /\ generator' = IF Deferred = {} THEN "none" ELSE "unsent"
    /\ UNCHANGED <<active, task, expired, manual, accepted, lost>>

\* apply_async of the deferred task comes before those of the deliveries.
PublishGenerator ==
    /\ generator = "unsent"
    /\ generator' = "queued"
    /\ UNCHANGED <<database, active, trigger, unsent, task, expired, manual, accepted, lost>>

Publish(d) ==
    /\ d \in unsent
    /\ d \in Deferred \/ generator # "unsent"
    /\ unsent' = unsent \ {d}
    /\ task' = [task EXCEPT ![<<d, "event">>] = [Free EXCEPT !.pc = "queued"]]
    /\ UNCHANGED <<database, others, accepted, lost>>

\* generate_deferred_payloads.  Deliveries of inactive webhooks fail; without
\* the object all of them fail; the query of those in empty yields no data.
Generate(found, empty) ==
    LET present == {d \in Deferred : Exists(d)}
        filled == (present \cap active) \ empty
    IN  /\ generator = "queued"
        /\ generator' = "done"
        /\ status' = [d \in Deliveries |->
                IF d \in present /\ (~found \/ d \notin active) THEN "FAILED" ELSE status[d]]
        /\ IF found
           THEN /\ payload' = [d \in Deliveries |-> IF d \in filled THEN d ELSE payload[d]]
                /\ rows' = rows \cup filled /\ files' = files \cup filled
                /\ unsent' = unsent \cup filled
                /\ lost' = lost \cup (present \cap active \cap empty)
           ELSE UNCHANGED <<payload, rows, files, unsent, lost>>
        /\ UNCHANGED <<active, trigger, task, expired, manual, accepted>>

\* EventDeliveryRetry; the row may be in any state, and so may its first task.
EventDeliveryRetry(d) ==
    /\ Exists(d) /\ d \in Retried \ manual
    /\ status' = [status EXCEPT ![d] = "PENDING"]
    /\ task' = [task EXCEPT ![<<d, "staff">>] = [Free EXCEPT !.pc = "queued"]]
    /\ manual' = manual \cup {d}
    /\ UNCHANGED <<payload, rows, files, active, trigger, generator, unsent, expired,
                   accepted, lost>>

-----------------------------------------------------------------------------
(***************************************************************************)
(* send_webhook_request_async.                                             *)
(***************************************************************************)
Goto(t, pc) == task' = [task EXCEPT ![t].pc = pc]
End(t) == task' = [task EXCEPT ![t] = Free]

\* Mutant: the countdown of a retry counts it a second time.
AgainTwice(t) == task' = [task EXCEPT ![t].pc = "queued", ![t].retries = @ + 2]

Again(t) == task' = [task EXCEPT ![t].pc = "queued", ![t].retries = @ + 1]

\* The row is missing: retry, or give up with an exception.
StartMissing(t) ==
    /\ task[t].pc = "queued" /\ ~Exists(t[1])
    /\ IF task[t].retries < MaxMissing THEN Again(t) ELSE End(t)
    /\ UNCHANGED <<database, others, unsent, accepted, lost>>

StartInactive(t) ==
    /\ task[t].pc = "queued" /\ Exists(t[1]) /\ t[1] \notin active
    /\ status' = [status EXCEPT ![t[1]] = "FAILED"]
    /\ End(t)
    /\ UNCHANGED <<payload, rows, files, others, unsent, accepted, lost>>

\* The delivery and its payload row are read and an attempt is created.
Start(t) ==
    /\ task[t].pc = "queued" /\ Exists(t[1]) /\ t[1] \in active
    /\ Goto(t, IF payload[t[1]] = NoPayload THEN "fail" ELSE "send")
    /\ UNCHANGED <<database, others, unsent, accepted, lost>>

Accept(t) ==
    /\ task[t].pc = "send"
    /\ accepted' = accepted \cup {t[1]}
    /\ Goto(t, "accepted")
    /\ UNCHANGED <<database, others, unsent, lost>>

\* Mutant: after the last retry the delivery is forgotten.
RefuseForgetful(t) ==
    /\ task[t].pc = "send"
    /\ IF task[t].retries < MaxRetries THEN Again(t) ELSE End(t)
    /\ UNCHANGED <<database, others, unsent, accepted, lost>>

\* A failed response: after a 3xx or 4xx, and after the last retry, the
\* delivery fails, otherwise the task is queued again.  Updating the attempt
\* raises when another task has deleted the delivery, and the attempt with it.
Refuse(t) ==
    /\ task[t].pc = "send"
    /\ \/ ~Exists(t[1]) /\ End(t)
       \/ Exists(t[1]) /\ Goto(t, "fail")
       \/ Exists(t[1]) /\ task[t].retries < MaxRetries /\ Again(t)
    /\ UNCHANGED <<database, others, unsent, accepted, lost>>

\* delivery_update(FAILED), which raises when the row is gone.
Fail(t) ==
    /\ task[t].pc = "fail"
    /\ status' = IF Exists(t[1]) THEN [status EXCEPT ![t[1]] = "FAILED"] ELSE status
    /\ End(t)
    /\ UNCHANGED <<payload, rows, files, others, unsent, accepted, lost>>

\* Mutant: a row that another task has marked FAILED is kept.
DeleteUnlessFailed(t) ==
    /\ task[t].pc = "accepted"
    /\ status' = IF status[t[1]] = "FAILED" THEN status
                 ELSE [status EXCEPT ![t[1]] = "absent"]
    /\ Goto(t, "clear")
    /\ UNCHANGED <<payload, rows, files, others, unsent, accepted, lost>>

\* clear_successful_delivery: the row goes whatever its status is by now.
DeleteDelivery(t) ==
    /\ task[t].pc = "accepted"
    /\ status' = [status EXCEPT ![t[1]] = "absent"]
    /\ Goto(t, "clear")
    /\ UNCHANGED <<payload, rows, files, others, unsent, accepted, lost>>

Users(p) == {d \in Deliveries : Exists(d) /\ payload[d] = p}

\* Mutant: a successful delivery takes its payload along.
UnusedUnchecked(p) == p \in rows

Unused(p) == p \in rows /\ Users(p) = {}

\* Mutant: the file is listed although another delivery needs it.
ListFilesUnchecked(t) ==
    /\ task[t].pc = "clear"
    /\ task' = [task EXCEPT ![t].pc = "drop", ![t].listed = {payload[t[1]]}]
    /\ UNCHANGED <<database, others, unsent, accepted, lost>>

\* The name of the file is asked of the replica; a late replica still has the
\* delivery, and no file is listed.
ListFiles(t) ==
    LET p == payload[t[1]]
    IN  /\ task[t].pc = "clear"
        /\ \/ /\ task' = [task EXCEPT ![t].pc = "drop",
                                      ![t].listed = IF Unused(p) THEN {p} ELSE {}]
              /\ UNCHANGED lost
           \/ /\ Lagging /\ Unused(p)
              /\ Goto(t, "drop")
              /\ lost' = lost \cup {t[1]}
        /\ UNCHANGED <<database, others, unsent, accepted>>

\* Deleting a payload cascades to the deliveries that refer to it.
DropPayload(t) ==
    LET p == payload[t[1]]
    IN  /\ task[t].pc = "drop"
        /\ IF Unused(p)
           THEN /\ rows' = rows \ {p}
                /\ status' = [d \in Deliveries |-> IF d \in Users(p) THEN "absent" ELSE status[d]]
           ELSE UNCHANGED <<rows, status>>
        /\ Goto(t, "unlink")
        /\ UNCHANGED <<payload, files, others, unsent, accepted, lost>>

\* Mutant: the file is not deleted.
UnlinkNothing(t) ==
    /\ task[t].pc = "unlink"
    /\ End(t)
    /\ UNCHANGED <<database, others, unsent, accepted, lost>>

UnlinkFiles(t) ==
    /\ task[t].pc = "unlink"
    /\ files' = files \ task[t].listed
    /\ End(t)
    /\ UNCHANGED <<status, payload, rows, others, unsent, accepted, lost>>

-----------------------------------------------------------------------------
(***************************************************************************)
(* The environment.                                                        *)
(***************************************************************************)
ToggleWebhook(d) ==
    /\ d \in Switched
    /\ active' = (active \ {d}) \cup ({d} \ active)
    /\ UNCHANGED <<database, trigger, generator, unsent, task, expired, manual, accepted, lost>>

Working(d) == d \in unsent \/ \E t \in Tasks : t[1] = d /\ task[t].pc # "free"

\* The retries of a task take about five minutes, the period is 14 days.
Expire(d) ==
    /\ Exists(d) /\ d \notin expired
    /\ ~Working(d) /\ generator \in {"none", "done"}
    /\ expired' = expired \cup {d}
    /\ UNCHANGED <<database, active, trigger, generator, unsent, task, manual, accepted, lost>>

\* delete_event_payloads_task: payloads whose deliveries are all old; a
\* payload without delivery is old as well.
DeletePayloads ==
    LET old == {p \in rows : Users(p) \subseteq expired}
    IN  /\ old # {}
        /\ rows' = rows \ old /\ files' = files \ old
        /\ status' = [d \in Deliveries |->
                         IF Exists(d) /\ payload[d] \in old THEN "absent" ELSE status[d]]
        /\ UNCHANGED <<payload, others, unsent, task, accepted, lost>>

\* A worker dies with its task, the creator of the rows with what it has not
\* published.
KillTask(t) ==
    /\ Killing /\ task[t].pc \notin {"free", "queued"}
    /\ End(t)
    /\ lost' = lost \cup {t[1]}
    /\ UNCHANGED <<database, others, unsent, accepted>>

KillGenerator ==
    /\ Killing /\ generator = "queued"
    /\ generator' = "done"
    /\ lost' = lost \cup Deferred
    /\ UNCHANGED <<database, active, trigger, unsent, task, expired, manual, accepted>>

KillPublisher ==
    /\ Killing
    /\ unsent # {} \/ generator = "unsent"
    /\ unsent' = {}
    /\ generator' = IF generator = "unsent" THEN "none" ELSE generator
    /\ lost' = lost \cup unsent \cup (IF generator = "unsent" THEN Deferred ELSE {})
    /\ UNCHANGED <<database, active, trigger, task, expired, manual, accepted>>

Next ==
    \/ TriggerEvent \/ PublishGenerator
    \/ \E found \in BOOLEAN, empty \in SUBSET Deferred : Generate(found, empty)
    \/ \E d \in Deliveries :
          \/ Publish(d) \/ EventDeliveryRetry(d) \/ ToggleWebhook(d) \/ Expire(d)
    \/ \E t \in Tasks :
          \/ StartMissing(t) \/ StartInactive(t) \/ Start(t)
          \/ Accept(t) \/ Refuse(t) \/ Fail(t)
          \/ DeleteDelivery(t) \/ ListFiles(t) \/ DropPayload(t) \/ UnlinkFiles(t)
          \/ KillTask(t)
    \/ DeletePayloads \/ KillGenerator \/ KillPublisher

Spec == Init /\ [][Next]_vars

-----------------------------------------------------------------------------
\* The types of the variables; the retries of a task stay within the limits,
\* which share one counter.
Most == IF MaxRetries > MaxMissing THEN MaxRetries ELSE MaxMissing
TypeOK ==
    /\ status \in [Deliveries -> {"absent", "PENDING", "FAILED"}]
    /\ payload \in [Deliveries -> Payloads \cup {NoPayload}]
    /\ rows \subseteq Payloads /\ files \subseteq Payloads
    /\ active \subseteq Deliveries
    /\ trigger \in {"before", "after"}
    /\ generator \in {"none", "unsent", "queued", "done"}
    /\ unsent \subseteq Deliveries
    /\ task \in [Tasks -> [pc : {"free", "queued", "send", "accepted", "fail", "clear",
                                 "drop", "unlink"},
                           retries : 0 .. Most, listed : SUBSET Payloads]]
    /\ expired \subseteq Deliveries
    /\ manual \subseteq Retried
    /\ accepted \subseteq Deliveries
    /\ lost \subseteq Deliveries

\* clear_successful_delivery deletes a payload only when no delivery needs it:
\* a task that goes on to send a delivery finds the payload and its file,
\* although other deliveries of the same payload succeed and are cleared at
\* the same time.
PayloadAtHand ==
    \A t \in Tasks :
        task[t].pc = "send" /\ Exists(t[1]) => payload[t[1]] \in rows \cap files

\* A delivery is only removed after its receiver has accepted it or when it is
\* old: deleting a payload never takes along a delivery of another webhook
\* that shares it.
RemovedForReason ==
    [][\A d \in Deliveries :
          Exists(d) /\ ~Exists(d)' => d \in accepted \/ d \in expired]_vars

\* When nothing is left to send, every payload row has its file and a delivery, and
\* every file its row - unless a process was killed or the replica was late.
\* Only the file of a shared payload may stay behind: one task lists the files
\* while the other delivery exists and deletes the row when it is gone.
NoOrphans ==
    (\A d \in Deliveries : ~Working(d)) /\ lost = {} =>
        /\ rows \subseteq files /\ files \subseteq rows \cup {LegacyPayload}
        /\ \A p \in rows : Users(p) # {}

\* A delivery never stays PENDING with nobody left to send it: a task for it
\* is running or queued, or still to be published, or its payload is still to
\* be generated.  What a killed process or an empty deferred payload leaves
\* behind does.
PendingHasTask ==
    \A d \in Deliveries :
        status[d] = "PENDING" =>
            \/ Working(d)
            \/ d \in Deferred /\ generator \in {"unsent", "queued"}
            \/ d \in lost

\* A delivery that the receiver has accepted is on its way to be removed or
\* gone, whatever a second task of the same delivery makes of it: it is
\* neither kept as FAILED nor sent again by a task that starts later.
AcceptedRemoved ==
    \A d \in accepted :
        ~Exists(d) \/ d \in lost \/ \E t \in Tasks : t[1] = d /\ task[t].pc = "accepted"
=============================================================================
