----------------------- MODULE WebhookDeliveryProofs -----------------------
(***************************************************************************)
(* For any webhooks and retry limits: no delivery is left PENDING without  *)
(* a task, an accepted delivery is removed, a payload stays as long as a   *)
(* delivery needs it, and no delivery is removed through another one.      *)
(*                                                                         *)
(* None of these is inductive.  Inv adds what the tasks know of the rows:  *)
(* before the event there is nothing (Fresh), a task that clears has       *)
(* deleted its delivery (Cleared), a task is published once                *)
(* (PublishedOnce), and the files it lists belong to nobody (Listed).      *)
(***************************************************************************)
EXTENDS WebhookDelivery, TLAPS

Fresh ==
    trigger = "before" =>
        /\ \A d \in Deliveries : ~Exists(d)
        /\ \A t \in Tasks : task[t] = Free
        /\ unsent = {} /\ accepted = {} /\ generator = "none"

Cleared ==
    \A t \in Tasks :
        /\ task[t].pc \in {"clear", "drop", "unlink"} => ~Exists(t[1])
        /\ task[t].pc = "accepted" => t[1] \in accepted
        /\ task[t].pc = "send" => payload[t[1]] # NoPayload

PublishedOnce ==
    /\ \A d \in unsent : task[<<d, "event">>].pc = "free"
    /\ \A d \in Retried \ manual : task[<<d, "staff">>].pc = "free"
    /\ generator # "done" =>
          \A d \in Deferred :
              d \notin unsent /\ task[<<d, "event">>].pc = "free" /\ payload[d] = NoPayload

Owned ==
    \A d \in Deliveries :
        /\ payload[d] \in {IF d \in Shared THEN LegacyPayload ELSE d, NoPayload}
        /\ Exists(d) /\ payload[d] # NoPayload => payload[d] \in rows \cap files

Listed ==
    \A t \in Tasks : task[t].listed \subseteq {payload[t[1]]} \ {NoPayload}
                        /\ \A p \in task[t].listed : Users(p) = {}

Inv ==
    /\ TypeOK /\ Fresh /\ Cleared /\ PublishedOnce /\ Owned /\ Listed
    /\ PendingHasTask /\ AcceptedRemoved

(***************************************************************************)
(* Facts about tasks.                                                      *)
(***************************************************************************)
\* A task belongs to a delivery and is its own or the staff's.
LEMMA TaskFacts ==
    /\ \A t \in Tasks : /\ t[1] \in Deliveries
                        /\ t = <<t[1], "event">> \/ (t = <<t[1], "staff">> /\ t[1] \in Retried)
    /\ \A d \in Deliveries : <<d, "event">> \in Tasks
    /\ \A d \in Retried : <<d, "staff">> \in Tasks
    /\ Retried \subseteq Deliveries
BY WebhookAssumption DEF Tasks

\* The payload that each kind of delivery is created with.
LEMMA PayloadForFacts ==
    /\ \A d \in Shared : PayloadFor(d) = LegacyPayload
    /\ \A d \in Own : PayloadFor(d) = d
    /\ \A d \in Deferred : PayloadFor(d) = NoPayload
    /\ Deliveries = Shared \cup Own \cup Deferred
BY WebhookAssumption DEF PayloadFor, Deliveries

\* A step of a running task publishes none and takes none back.
LEMMA PublishedOnceKept ==
    ASSUME NEW t \in Tasks, TypeOK, PublishedOnce, task[t].pc # "free",
           \A u \in Tasks : u # t => task'[u] = task[u],
           UNCHANGED <<unsent, manual, generator, payload>>
    PROVE  PublishedOnce'
<1>1. ASSUME NEW u \in Tasks, task[u].pc = "free"
      PROVE  task'[u].pc = "free"
  BY <1>1
<1>2. \A d \in unsent : <<d, "event">> \in Tasks
  BY TaskFacts DEF TypeOK
<1>3. \A d \in Deferred : <<d, "event">> \in Tasks
  BY TaskFacts DEF Deliveries
<1> QED BY <1>1, <1>2, <1>3, TaskFacts DEF PublishedOnce

-----------------------------------------------------------------------------
(***************************************************************************)
(* Every action preserves Inv.                                             *)
(***************************************************************************)
LEMMA TriggerEventStep ==
    ASSUME Inv, TriggerEvent
    PROVE  Inv'
<1> USE TaskFacts, WebhookAssumption, PayloadForFacts 
    DEF Inv, TriggerEvent, Exists, database, others, Free, Goto, End, Again,
        Payloads, LegacyPayload, NoPayload
<1>1. TypeOK'
  BY DEF TypeOK, Most, Fresh
<1>3. Fresh'
  BY <1>1 DEF Fresh, TypeOK
<1>4. Cleared'
  BY <1>1 DEF Cleared, TypeOK, Fresh
<1>5. PublishedOnce'
  BY <1>1 DEF PublishedOnce, TypeOK, Fresh
<1>6. Owned'
  BY <1>1 DEF Owned, TypeOK, Fresh
<1>7. Listed'
  BY <1>1 DEF Listed, Users, TypeOK, Fresh
<1>8. PendingHasTask'
  BY <1>1 DEF PendingHasTask, Working, TypeOK, Fresh, Cleared, PublishedOnce
<1>9. AcceptedRemoved'
  BY <1>1 DEF AcceptedRemoved, TypeOK, Fresh, Cleared, PublishedOnce
<1> QED BY <1>1, <1>3, <1>4, <1>5, <1>6, <1>7, <1>8, <1>9

LEMMA PublishGeneratorStep ==
    ASSUME Inv, PublishGenerator
    PROVE  Inv'
<1> USE TaskFacts, WebhookAssumption 
    DEF Inv, PublishGenerator, Exists, database, others, Free, Goto, End, Again,
        Payloads, LegacyPayload, NoPayload
<1>1. TypeOK'
  BY DEF TypeOK, Most
<1>3. Fresh'
  BY <1>1 DEF Fresh, TypeOK
<1>4. Cleared'
  BY <1>1 DEF Cleared, TypeOK
<1>5. PublishedOnce'
  BY <1>1 DEF PublishedOnce, TypeOK
<1>6. Owned'
  BY <1>1 DEF Owned, TypeOK
<1>7. Listed'
  BY <1>1 DEF Listed, Users, TypeOK
<1>8. PendingHasTask'
  BY <1>1 DEF PendingHasTask, Working, TypeOK, Cleared, PublishedOnce
<1>9. AcceptedRemoved'
  BY <1>1 DEF AcceptedRemoved, TypeOK, Cleared, PublishedOnce
<1> QED BY <1>1, <1>3, <1>4, <1>5, <1>6, <1>7, <1>8, <1>9

LEMMA GenerateStep ==
    ASSUME Inv, NEW found \in BOOLEAN, NEW empty \in SUBSET Deferred, Generate(found, empty)
    PROVE  Inv'
<1> USE TaskFacts, WebhookAssumption 
    DEF Inv, Generate, Exists, database, others, Free, Goto, End, Again,
        Payloads, LegacyPayload, NoPayload
<1>1. TypeOK'
  BY DEF TypeOK, Most
<1>3. Fresh'
  BY <1>1 DEF Fresh, TypeOK
<1>4. Cleared'
  BY <1>1 DEF Cleared, TypeOK
<1>5. PublishedOnce'
  BY <1>1 DEF PublishedOnce, TypeOK
<1>6. Owned'
  BY <1>1 DEF Owned, TypeOK
<1>7. Listed'
  BY <1>1 DEF Listed, Users, TypeOK, Cleared, PublishedOnce, Owned
<1>8. PendingHasTask'
  BY <1>1 DEF PendingHasTask, Working, TypeOK, Cleared, PublishedOnce
<1>9. AcceptedRemoved'
  BY <1>1 DEF AcceptedRemoved, TypeOK, Cleared, PublishedOnce
<1> QED BY <1>1, <1>3, <1>4, <1>5, <1>6, <1>7, <1>8, <1>9

LEMMA PublishStep ==
    ASSUME Inv, NEW d \in Deliveries, Publish(d)
    PROVE  Inv'
<1> USE TaskFacts, WebhookAssumption 
    DEF Inv, Publish, Exists, database, others, Free, Goto, End, Again,
        Payloads, LegacyPayload, NoPayload
<1>1. TypeOK'
  BY DEF TypeOK, Most
<1>2. /\ \A u \in Tasks : u # <<d, "event">> => task'[u] = task[u]
      /\ task'[<<d, "event">>].pc = "queued"
      /\ task'[<<d, "event">>].listed = {}
  BY DEF TypeOK
<1>3. Fresh'
  BY <1>1, <1>2 DEF Fresh, TypeOK
<1>4. Cleared'
  BY <1>1, <1>2 DEF Cleared, TypeOK
<1>5. PublishedOnce'
  BY <1>1, <1>2 DEF PublishedOnce, TypeOK
<1>6. Owned'
  BY <1>1, <1>2 DEF Owned, TypeOK
<1>7. Listed'
  BY <1>1, <1>2 DEF Listed, Users, TypeOK
<1>8. PendingHasTask'
  BY <1>1, <1>2 DEF PendingHasTask, Working, TypeOK, Cleared, PublishedOnce
<1>9. AcceptedRemoved'
  BY <1>1, <1>2 DEF AcceptedRemoved, TypeOK, Cleared, PublishedOnce
<1> QED BY <1>1, <1>3, <1>4, <1>5, <1>6, <1>7, <1>8, <1>9

LEMMA EventDeliveryRetryStep ==
    ASSUME Inv, NEW d \in Deliveries, EventDeliveryRetry(d)
    PROVE  Inv'
<1> USE TaskFacts, WebhookAssumption 
    DEF Inv, EventDeliveryRetry, Exists, database, others, Free, Goto, End, Again,
        Payloads, LegacyPayload, NoPayload
<1>1. TypeOK'
  BY DEF TypeOK, Most
<1>2. /\ \A u \in Tasks : u # <<d, "staff">> => task'[u] = task[u]
      /\ task'[<<d, "staff">>].pc = "queued"
      /\ task'[<<d, "staff">>].listed = {}
  BY DEF TypeOK
<1>3. Fresh'
  BY <1>1, <1>2 DEF Fresh, TypeOK
<1>4. Cleared'
  BY <1>1, <1>2 DEF Cleared, TypeOK
<1>5. PublishedOnce'
  BY <1>1, <1>2 DEF PublishedOnce, TypeOK
<1>6. Owned'
  BY <1>1, <1>2 DEF Owned, TypeOK
<1>7. Listed'
  BY <1>1, <1>2 DEF Listed, Users, TypeOK
<1>8. PendingHasTask'
  BY <1>1, <1>2 DEF PendingHasTask, Working, TypeOK, Cleared, PublishedOnce
<1>9. AcceptedRemoved'
  BY <1>1, <1>2 DEF AcceptedRemoved, TypeOK, Cleared, PublishedOnce
<1> QED BY <1>1, <1>3, <1>4, <1>5, <1>6, <1>7, <1>8, <1>9

LEMMA ToggleWebhookStep ==
    ASSUME Inv, NEW d \in Deliveries, ToggleWebhook(d)
    PROVE  Inv'
<1> USE TaskFacts, WebhookAssumption 
    DEF Inv, ToggleWebhook, Exists, database, others, Free, Goto, End, Again,
        Payloads, LegacyPayload, NoPayload
<1>1. TypeOK'
  BY DEF TypeOK, Most
<1>3. Fresh'
  BY <1>1 DEF Fresh, TypeOK
<1>4. Cleared'
  BY <1>1 DEF Cleared, TypeOK
<1>5. PublishedOnce'
  BY <1>1 DEF PublishedOnce, TypeOK
<1>6. Owned'
  BY <1>1 DEF Owned, TypeOK
<1>7. Listed'
  BY <1>1 DEF Listed, Users, TypeOK
<1>8. PendingHasTask'
  BY <1>1 DEF PendingHasTask, Working, TypeOK, Cleared, PublishedOnce
<1>9. AcceptedRemoved'
  BY <1>1 DEF AcceptedRemoved, TypeOK, Cleared, PublishedOnce
<1> QED BY <1>1, <1>3, <1>4, <1>5, <1>6, <1>7, <1>8, <1>9

LEMMA ExpireStep ==
    ASSUME Inv, NEW d \in Deliveries, Expire(d)
    PROVE  Inv'
<1> USE TaskFacts, WebhookAssumption 
    DEF Inv, Expire, Exists, database, others, Free, Goto, End, Again,
        Payloads, LegacyPayload, NoPayload, Working
<1>1. TypeOK'
  BY DEF TypeOK, Most
<1>3. Fresh'
  BY <1>1 DEF Fresh, TypeOK
<1>4. Cleared'
  BY <1>1 DEF Cleared, TypeOK
<1>5. PublishedOnce'
  BY <1>1 DEF PublishedOnce, TypeOK
<1>6. Owned'
  BY <1>1 DEF Owned, TypeOK
<1>7. Listed'
  BY <1>1 DEF Listed, Users, TypeOK
<1>8. PendingHasTask'
  BY <1>1 DEF PendingHasTask, Working, TypeOK, Cleared, PublishedOnce
<1>9. AcceptedRemoved'
  BY <1>1 DEF AcceptedRemoved, TypeOK, Cleared, PublishedOnce
<1> QED BY <1>1, <1>3, <1>4, <1>5, <1>6, <1>7, <1>8, <1>9

LEMMA StartMissingStep ==
    ASSUME Inv, NEW t \in Tasks, StartMissing(t)
    PROVE  Inv'
<1> USE TaskFacts, WebhookAssumption 
    DEF Inv, StartMissing, Exists, database, others, Free, Goto, End, Again,
        Payloads, LegacyPayload, NoPayload
<1>1. TypeOK'
  BY DEF TypeOK, Most
<1>2. /\ \A u \in Tasks : u # t => task'[u] = task[u]
      /\ task'[t].pc \in {"queued", "free"}
      /\ task'[t].listed \in {task[t].listed, {}}
  BY DEF TypeOK
<1>3. Fresh'
  BY <1>1, <1>2 DEF Fresh, TypeOK
<1>4. Cleared'
  BY <1>1, <1>2 DEF Cleared, TypeOK
<1>5. PublishedOnce'
  BY <1>2, PublishedOnceKept DEF TypeOK
<1>6. Owned'
  BY <1>1, <1>2 DEF Owned, TypeOK
<1>7. Listed'
  BY <1>1, <1>2 DEF Listed, Users, TypeOK
<1>8. PendingHasTask'
  BY <1>1, <1>2 DEF PendingHasTask, Working, TypeOK, Cleared, PublishedOnce
<1>9. AcceptedRemoved'
  BY <1>1, <1>2 DEF AcceptedRemoved, TypeOK, Cleared, PublishedOnce
<1> QED BY <1>1, <1>3, <1>4, <1>5, <1>6, <1>7, <1>8, <1>9

LEMMA StartInactiveStep ==
    ASSUME Inv, NEW t \in Tasks, StartInactive(t)
    PROVE  Inv'
<1> USE TaskFacts, WebhookAssumption 
    DEF Inv, StartInactive, Exists, database, others, Free, Goto, End, Again,
        Payloads, LegacyPayload, NoPayload
<1>1. TypeOK'
  BY DEF TypeOK, Most
<1>2. /\ \A u \in Tasks : u # t => task'[u] = task[u]
      /\ task'[t].pc = "free"
      /\ task'[t].listed = {}
  BY DEF TypeOK
<1>3. Fresh'
  BY <1>1, <1>2 DEF Fresh, TypeOK
<1>4. Cleared'
  BY <1>1, <1>2 DEF Cleared, TypeOK
<1>5. PublishedOnce'
  BY <1>2, PublishedOnceKept DEF TypeOK
<1>6. Owned'
  BY <1>1, <1>2 DEF Owned, TypeOK
<1>7. Listed'
  BY <1>1, <1>2 DEF Listed, Users, TypeOK
<1>8. PendingHasTask'
  BY <1>1, <1>2 DEF PendingHasTask, Working, TypeOK, Cleared, PublishedOnce
<1>9. AcceptedRemoved'
  BY <1>1, <1>2 DEF AcceptedRemoved, TypeOK, Cleared, PublishedOnce
<1> QED BY <1>1, <1>3, <1>4, <1>5, <1>6, <1>7, <1>8, <1>9

LEMMA StartStep ==
    ASSUME Inv, NEW t \in Tasks, Start(t)
    PROVE  Inv'
<1> USE TaskFacts, WebhookAssumption 
    DEF Inv, Start, Exists, database, others, Free, Goto, End, Again,
        Payloads, LegacyPayload, NoPayload
<1>1. TypeOK'
  BY DEF TypeOK, Most
<1>2. /\ \A u \in Tasks : u # t => task'[u] = task[u]
      /\ task'[t].pc \in {"send", "fail"}
      /\ task'[t].listed = task[t].listed
  BY DEF TypeOK
<1>3. Fresh'
  BY <1>1, <1>2 DEF Fresh, TypeOK
<1>4. Cleared'
  BY <1>1, <1>2 DEF Cleared, TypeOK
<1>5. PublishedOnce'
  BY <1>2, PublishedOnceKept DEF TypeOK
<1>6. Owned'
  BY <1>1, <1>2 DEF Owned, TypeOK
<1>7. Listed'
  BY <1>1, <1>2 DEF Listed, Users, TypeOK
<1>8. PendingHasTask'
  BY <1>1, <1>2 DEF PendingHasTask, Working, TypeOK, Cleared, PublishedOnce
<1>9. AcceptedRemoved'
  BY <1>1, <1>2 DEF AcceptedRemoved, TypeOK, Cleared, PublishedOnce
<1> QED BY <1>1, <1>3, <1>4, <1>5, <1>6, <1>7, <1>8, <1>9

LEMMA AcceptStep ==
    ASSUME Inv, NEW t \in Tasks, Accept(t)
    PROVE  Inv'
<1> USE TaskFacts, WebhookAssumption 
    DEF Inv, Accept, Exists, database, others, Free, Goto, End, Again,
        Payloads, LegacyPayload, NoPayload
<1>1. TypeOK'
  BY DEF TypeOK, Most
<1>2. /\ \A u \in Tasks : u # t => task'[u] = task[u]
      /\ task'[t].pc = "accepted"
      /\ task'[t].listed = task[t].listed
  BY DEF TypeOK
<1>3. Fresh'
  BY <1>1, <1>2 DEF Fresh, TypeOK
<1>4. Cleared'
  BY <1>1, <1>2 DEF Cleared, TypeOK
<1>5. PublishedOnce'
  BY <1>2, PublishedOnceKept DEF TypeOK
<1>6. Owned'
  BY <1>1, <1>2 DEF Owned, TypeOK
<1>7. Listed'
  BY <1>1, <1>2 DEF Listed, Users, TypeOK
<1>8. PendingHasTask'
  BY <1>1, <1>2 DEF PendingHasTask, Working, TypeOK, Cleared, PublishedOnce
<1>9. AcceptedRemoved'
  BY <1>1, <1>2 DEF AcceptedRemoved, TypeOK, Cleared, PublishedOnce
<1> QED BY <1>1, <1>3, <1>4, <1>5, <1>6, <1>7, <1>8, <1>9

LEMMA RefuseStep ==
    ASSUME Inv, NEW t \in Tasks, Refuse(t)
    PROVE  Inv'
<1> USE TaskFacts, WebhookAssumption 
    DEF Inv, Refuse, Exists, database, others, Free, Goto, End, Again,
        Payloads, LegacyPayload, NoPayload
<1>1. TypeOK'
  BY DEF TypeOK, Most
<1>2. /\ \A u \in Tasks : u # t => task'[u] = task[u]
      /\ task'[t].pc \in {"queued", "fail", "free"}
      /\ task'[t].listed \in {task[t].listed, {}}
  BY DEF TypeOK
<1>3. Fresh'
  BY <1>1, <1>2 DEF Fresh, TypeOK
<1>4. Cleared'
  BY <1>1, <1>2 DEF Cleared, TypeOK
<1>5. PublishedOnce'
  BY <1>2, PublishedOnceKept DEF TypeOK
<1>6. Owned'
  BY <1>1, <1>2 DEF Owned, TypeOK
<1>7. Listed'
  BY <1>1, <1>2 DEF Listed, Users, TypeOK
<1>8. PendingHasTask'
  BY <1>1, <1>2 DEF PendingHasTask, Working, TypeOK, Cleared, PublishedOnce
<1>9. AcceptedRemoved'
  BY <1>1, <1>2 DEF AcceptedRemoved, TypeOK, Cleared, PublishedOnce
<1> QED BY <1>1, <1>3, <1>4, <1>5, <1>6, <1>7, <1>8, <1>9

LEMMA FailStep ==
    ASSUME Inv, NEW t \in Tasks, Fail(t)
    PROVE  Inv'
<1> USE TaskFacts, WebhookAssumption 
    DEF Inv, Fail, Exists, database, others, Free, Goto, End, Again,
        Payloads, LegacyPayload, NoPayload
<1>1. TypeOK'
  BY DEF TypeOK, Most
<1>2. /\ \A u \in Tasks : u # t => task'[u] = task[u]
      /\ task'[t].pc = "free"
      /\ task'[t].listed = {}
  BY DEF TypeOK
<1>3. Fresh'
  BY <1>1, <1>2 DEF Fresh, TypeOK
<1>4. Cleared'
  BY <1>1, <1>2 DEF Cleared, TypeOK
<1>5. PublishedOnce'
  BY <1>2, PublishedOnceKept DEF TypeOK
<1>6. Owned'
  BY <1>1, <1>2 DEF Owned, TypeOK
<1>7. Listed'
  BY <1>1, <1>2 DEF Listed, Users, TypeOK
<1>8. PendingHasTask'
  BY <1>1, <1>2 DEF PendingHasTask, Working, TypeOK, Cleared, PublishedOnce
<1>9. AcceptedRemoved'
  BY <1>1, <1>2 DEF AcceptedRemoved, TypeOK, Cleared, PublishedOnce
<1> QED BY <1>1, <1>3, <1>4, <1>5, <1>6, <1>7, <1>8, <1>9

LEMMA DeleteDeliveryStep ==
    ASSUME Inv, NEW t \in Tasks, DeleteDelivery(t)
    PROVE  Inv'
<1> USE TaskFacts, WebhookAssumption 
    DEF Inv, DeleteDelivery, Exists, database, others, Free, Goto, End, Again,
        Payloads, LegacyPayload, NoPayload
<1>1. TypeOK'
  BY DEF TypeOK, Most
<1>2. /\ \A u \in Tasks : u # t => task'[u] = task[u]
      /\ task'[t].pc = "clear"
      /\ task'[t].listed = task[t].listed
  BY DEF TypeOK
<1>3. Fresh'
  BY <1>1, <1>2 DEF Fresh, TypeOK
<1>4. Cleared'
  BY <1>1, <1>2 DEF Cleared, TypeOK
<1>5. PublishedOnce'
  BY <1>2, PublishedOnceKept DEF TypeOK
<1>6. Owned'
  BY <1>1, <1>2 DEF Owned, TypeOK
<1>7. Listed'
  BY <1>1, <1>2 DEF Listed, Users, TypeOK
<1>8. PendingHasTask'
  BY <1>1, <1>2 DEF PendingHasTask, Working, TypeOK, Cleared, PublishedOnce
<1>9. AcceptedRemoved'
  BY <1>1, <1>2 DEF AcceptedRemoved, TypeOK, Cleared, PublishedOnce
<1> QED BY <1>1, <1>3, <1>4, <1>5, <1>6, <1>7, <1>8, <1>9

LEMMA ListFilesStep ==
    ASSUME Inv, NEW t \in Tasks, ListFiles(t)
    PROVE  Inv'
<1> USE TaskFacts, WebhookAssumption 
    DEF Inv, ListFiles, Exists, database, others, Free, Goto, End, Again,
        Payloads, LegacyPayload, NoPayload, Unused, Users
<1>1. TypeOK'
  BY DEF TypeOK, Most
<1>2. /\ \A u \in Tasks : u # t => task'[u] = task[u]
      /\ task'[t].pc = "drop"
  BY DEF TypeOK
<1>3. Fresh'
  BY <1>1, <1>2 DEF Fresh, TypeOK
<1>4. Cleared'
  BY <1>1, <1>2 DEF Cleared, TypeOK
<1>5. PublishedOnce'
  BY <1>2, PublishedOnceKept DEF TypeOK
<1>6. Owned'
  BY <1>1, <1>2 DEF Owned, TypeOK
<1>7. Listed'
  BY <1>1, <1>2 DEF Listed, Users, TypeOK, Cleared, PublishedOnce, Owned
<1>8. PendingHasTask'
  BY <1>1, <1>2 DEF PendingHasTask, Working, TypeOK, Cleared, PublishedOnce
<1>9. AcceptedRemoved'
  BY <1>1, <1>2 DEF AcceptedRemoved, TypeOK, Cleared, PublishedOnce
<1> QED BY <1>1, <1>3, <1>4, <1>5, <1>6, <1>7, <1>8, <1>9

LEMMA DropPayloadStep ==
    ASSUME Inv, NEW t \in Tasks, DropPayload(t)
    PROVE  Inv'
<1> USE TaskFacts, WebhookAssumption 
    DEF Inv, DropPayload, Exists, database, others, Free, Goto, End, Again,
        Payloads, LegacyPayload, NoPayload, Unused, Users
<1>1. TypeOK'
  BY DEF TypeOK, Most
<1>2. /\ \A u \in Tasks : u # t => task'[u] = task[u]
      /\ task'[t].pc = "unlink"
      /\ task'[t].listed = task[t].listed
  BY DEF TypeOK
<1>3. Fresh'
  BY <1>1, <1>2 DEF Fresh, TypeOK
<1>4. Cleared'
  BY <1>1, <1>2 DEF Cleared, TypeOK
<1>5. PublishedOnce'
  BY <1>2, PublishedOnceKept DEF TypeOK
<1>6. Owned'
  BY <1>1, <1>2 DEF Owned, TypeOK
<1>7. Listed'
  BY <1>1, <1>2 DEF Listed, Users, TypeOK
<1>8. PendingHasTask'
  BY <1>1, <1>2 DEF PendingHasTask, Working, TypeOK, Cleared, PublishedOnce
<1>9. AcceptedRemoved'
  BY <1>1, <1>2 DEF AcceptedRemoved, TypeOK, Cleared, PublishedOnce
<1> QED BY <1>1, <1>3, <1>4, <1>5, <1>6, <1>7, <1>8, <1>9

LEMMA UnlinkFilesStep ==
    ASSUME Inv, NEW t \in Tasks, UnlinkFiles(t)
    PROVE  Inv'
<1> USE TaskFacts, WebhookAssumption 
    DEF Inv, UnlinkFiles, Exists, database, others, Free, Goto, End, Again,
        Payloads, LegacyPayload, NoPayload
<1>1. TypeOK'
  BY DEF TypeOK, Most
<1>2. /\ \A u \in Tasks : u # t => task'[u] = task[u]
      /\ task'[t].pc = "free"
      /\ task'[t].listed = {}
  BY DEF TypeOK
<1>3. Fresh'
  BY <1>1, <1>2 DEF Fresh, TypeOK
<1>4. Cleared'
  BY <1>1, <1>2 DEF Cleared, TypeOK
<1>5. PublishedOnce'
  BY <1>2, PublishedOnceKept DEF TypeOK
<1>6. Owned'
  BY <1>1, <1>2 DEF Owned, TypeOK, Listed, Users
<1>7. Listed'
  BY <1>1, <1>2 DEF Listed, Users, TypeOK
<1>8. PendingHasTask'
  BY <1>1, <1>2 DEF PendingHasTask, Working, TypeOK, Cleared, PublishedOnce
<1>9. AcceptedRemoved'
  BY <1>1, <1>2 DEF AcceptedRemoved, TypeOK, Cleared, PublishedOnce
<1> QED BY <1>1, <1>3, <1>4, <1>5, <1>6, <1>7, <1>8, <1>9

LEMMA KillTaskStep ==
    ASSUME Inv, NEW t \in Tasks, KillTask(t)
    PROVE  Inv'
<1> USE TaskFacts, WebhookAssumption 
    DEF Inv, KillTask, Exists, database, others, Free, Goto, End, Again,
        Payloads, LegacyPayload, NoPayload
<1>1. TypeOK'
  BY DEF TypeOK, Most
<1>2. /\ \A u \in Tasks : u # t => task'[u] = task[u]
      /\ task'[t].pc = "free"
      /\ task'[t].listed = {}
  BY DEF TypeOK
<1>3. Fresh'
  BY <1>1, <1>2 DEF Fresh, TypeOK
<1>4. Cleared'
  BY <1>1, <1>2 DEF Cleared, TypeOK
<1>5. PublishedOnce'
  BY <1>2, PublishedOnceKept DEF TypeOK
<1>6. Owned'
  BY <1>1, <1>2 DEF Owned, TypeOK
<1>7. Listed'
  BY <1>1, <1>2 DEF Listed, Users, TypeOK
<1>8. PendingHasTask'
  BY <1>1, <1>2 DEF PendingHasTask, Working, TypeOK, Cleared, PublishedOnce
<1>9. AcceptedRemoved'
  BY <1>1, <1>2 DEF AcceptedRemoved, TypeOK, Cleared, PublishedOnce
<1> QED BY <1>1, <1>3, <1>4, <1>5, <1>6, <1>7, <1>8, <1>9

LEMMA DeletePayloadsStep ==
    ASSUME Inv, DeletePayloads
    PROVE  Inv'
<1> USE TaskFacts, WebhookAssumption 
    DEF Inv, DeletePayloads, Exists, database, others, Free, Goto, End, Again,
        Payloads, LegacyPayload, NoPayload, Unused, Users
<1>1. TypeOK'
  BY DEF TypeOK, Most
<1>3. Fresh'
  BY <1>1 DEF Fresh, TypeOK
<1>4. Cleared'
  BY <1>1 DEF Cleared, TypeOK
<1>5. PublishedOnce'
  BY <1>1 DEF PublishedOnce, TypeOK
<1>6. Owned'
  BY <1>1 DEF Owned, TypeOK
<1>7. Listed'
  BY <1>1 DEF Listed, Users, TypeOK
<1>8. PendingHasTask'
  BY <1>1 DEF PendingHasTask, Working, TypeOK, Cleared, PublishedOnce
<1>9. AcceptedRemoved'
  BY <1>1 DEF AcceptedRemoved, TypeOK, Cleared, PublishedOnce
<1> QED BY <1>1, <1>3, <1>4, <1>5, <1>6, <1>7, <1>8, <1>9

LEMMA KillGeneratorStep ==
    ASSUME Inv, KillGenerator
    PROVE  Inv'
<1> USE TaskFacts, WebhookAssumption, PayloadForFacts 
    DEF Inv, KillGenerator, Exists, database, others, Free, Goto, End, Again,
        Payloads, LegacyPayload, NoPayload
<1>1. TypeOK'
  BY DEF TypeOK, Most
<1>3. Fresh'
  BY <1>1 DEF Fresh, TypeOK
<1>4. Cleared'
  BY <1>1 DEF Cleared, TypeOK
<1>5. PublishedOnce'
  BY <1>1 DEF PublishedOnce, TypeOK
<1>6. Owned'
  BY <1>1 DEF Owned, TypeOK
<1>7. Listed'
  BY <1>1 DEF Listed, Users, TypeOK
<1>8. PendingHasTask'
  BY <1>1 DEF PendingHasTask, Working, TypeOK, Cleared, PublishedOnce
<1>9. AcceptedRemoved'
  BY <1>1 DEF AcceptedRemoved, TypeOK, Cleared, PublishedOnce
<1> QED BY <1>1, <1>3, <1>4, <1>5, <1>6, <1>7, <1>8, <1>9

LEMMA KillPublisherStep ==
    ASSUME Inv, KillPublisher
    PROVE  Inv'
<1> USE TaskFacts, WebhookAssumption, PayloadForFacts 
    DEF Inv, KillPublisher, Exists, database, others, Free, Goto, End, Again,
        Payloads, LegacyPayload, NoPayload
<1>1. TypeOK'
  BY DEF TypeOK, Most
<1>3. Fresh'
  BY <1>1 DEF Fresh, TypeOK
<1>4. Cleared'
  BY <1>1 DEF Cleared, TypeOK
<1>5. PublishedOnce'
  BY <1>1 DEF PublishedOnce, TypeOK
<1>6. Owned'
  BY <1>1 DEF Owned, TypeOK
<1>7. Listed'
  BY <1>1 DEF Listed, Users, TypeOK
<1>8. PendingHasTask'
  BY <1>1 DEF PendingHasTask, Working, TypeOK, Cleared, PublishedOnce
<1>9. AcceptedRemoved'
  BY <1>1 DEF AcceptedRemoved, TypeOK, Cleared, PublishedOnce
<1> QED BY <1>1, <1>3, <1>4, <1>5, <1>6, <1>7, <1>8, <1>9

LEMMA InitInv == Init => Inv
<1> SUFFICES ASSUME Init PROVE Inv
  OBVIOUS
<1> USE TaskFacts, WebhookAssumption
    DEF Init, Exists, Free, Payloads, LegacyPayload, NoPayload
<1>1. TypeOK
  BY DEF TypeOK, Most
<1>2. Fresh /\ Cleared
  BY DEF Fresh, Cleared
<1>3. PublishedOnce
  BY PayloadForFacts DEF PublishedOnce
<1>4. Owned /\ Listed
  BY DEF Owned, Listed, Users
<1>5. PendingHasTask /\ AcceptedRemoved
  BY DEF PendingHasTask, AcceptedRemoved
<1> QED BY <1>1, <1>2, <1>3, <1>4, <1>5 DEF Inv

LEMMA NextInv == Inv /\ [Next]_vars => Inv'
<1> SUFFICES ASSUME Inv, [Next]_vars PROVE Inv'
  OBVIOUS
<1>1. CASE UNCHANGED vars
  BY <1>1 DEF vars, Inv, TypeOK, Fresh, Cleared, PublishedOnce, Owned, Listed, Users,
              PendingHasTask, Working, AcceptedRemoved, Exists
<1>2. CASE Next
  BY <1>2, TriggerEventStep, PublishGeneratorStep, GenerateStep, PublishStep,
     EventDeliveryRetryStep, ToggleWebhookStep, ExpireStep, StartMissingStep,
     StartInactiveStep, StartStep, AcceptStep, RefuseStep, FailStep,
     DeleteDeliveryStep, ListFilesStep, DropPayloadStep, UnlinkFilesStep,
     KillTaskStep, DeletePayloadsStep, KillGeneratorStep, KillPublisherStep
     DEF Next
<1> QED BY <1>1, <1>2

LEMMA InvHolds == Spec => []Inv
<1> QED BY InitInv, NextInv, PTL DEF Spec

-----------------------------------------------------------------------------
(***************************************************************************)
(* The results.                                                            *)
(***************************************************************************)
\* For any webhooks and limits the variables have their types: the two kinds
\* of retry that share Celery's counter never exceed the larger limit.
THEOREM TypeCorrect == Spec => []TypeOK
<1>1. Inv => TypeOK
  BY DEF Inv
<1> QED BY <1>1, InvHolds, PTL

\* send_webhook_request_async, generate_deferred_payloads and the mutation
\* EventDeliveryRetry leave no delivery PENDING without a task that will send
\* it, unless a process was killed or a deferred payload was empty.
THEOREM NoDeliveryForgotten == Spec => []PendingHasTask
<1>1. Inv => PendingHasTask
  BY DEF Inv
<1> QED BY <1>1, InvHolds, PTL

\* clear_successful_delivery removes what the receiver has accepted, however
\* the tasks of the same delivery interleave.
THEOREM AcceptedIsRemoved == Spec => []AcceptedRemoved
<1>1. Inv => AcceptedRemoved
  BY DEF Inv
<1> QED BY <1>1, InvHolds, PTL

\* Neither clear_successful_delivery of another webhook nor the cleaning task
\* takes away the payload, or its file, of a delivery that is being sent.
THEOREM PayloadStays == Spec => []PayloadAtHand
<1>1. Inv => PayloadAtHand
  BY TaskFacts DEF Inv, PayloadAtHand, Cleared, Owned
<1> QED BY <1>1, InvHolds, PTL

\* Only acceptance and old age remove a delivery: the cascade from a deleted
\* payload never reaches a delivery of another webhook.
THEOREM OnlyRemovedForReason == Spec => RemovedForReason
<1> DEFINE Kept(d) == Exists(d) /\ ~Exists(d)' => d \in accepted \/ d \in expired
<1>1. ASSUME Inv, [Next]_vars, NEW d \in Deliveries
      PROVE  Kept(d)
  <2>1. CASE UNCHANGED status
    BY <2>1 DEF Exists
  <2>2. CASE TriggerEvent
    BY <1>1, <2>2 DEF TriggerEvent, Inv, Fresh
  <2>3. ASSUME NEW found \in BOOLEAN, NEW empty \in SUBSET Deferred, Generate(found, empty)
        PROVE  Kept(d)
    BY <2>3 DEF Generate, Exists
  <2>4. ASSUME NEW e \in Deliveries, EventDeliveryRetry(e)
        PROVE  Kept(d)
    BY <1>1, <2>4 DEF EventDeliveryRetry, Exists, Inv, TypeOK
  <2>5. ASSUME NEW t \in Tasks, StartInactive(t) \/ Fail(t)
        PROVE  Kept(d)
    BY <1>1, <2>5 DEF StartInactive, Fail, Exists, Inv, TypeOK
  <2>6. ASSUME NEW t \in Tasks, DeleteDelivery(t)
        PROVE  Kept(d)
    BY <1>1, <2>6 DEF DeleteDelivery, Exists, Inv, TypeOK, Cleared
  <2>7. ASSUME NEW t \in Tasks, DropPayload(t)
        PROVE  Kept(d)
    BY <1>1, <2>7 DEF DropPayload, Unused, Users, Exists
  <2>8. CASE DeletePayloads
    BY <1>1, <2>8 DEF DeletePayloads, Users, Exists
  <2> QED BY <1>1, <2>1, <2>2, <2>3, <2>4, <2>5, <2>6, <2>7, <2>8
          DEF Next, vars, database, others, PublishGenerator, Publish, ToggleWebhook,
              Expire, StartMissing, Start, Accept, Refuse, ListFiles, UnlinkFiles,
              KillTask, KillGenerator, KillPublisher
<1>2. Inv /\ [Next]_vars => [\A d \in Deliveries : Kept(d)]_vars
  BY <1>1
<1> QED BY <1>2, InvHolds, PTL DEF Spec, RemovedForReason

-----------------------------------------------------------------------------
(***************************************************************************)
(* What is left behind.  A row has its file until its file is listed and   *)
(* its row is gone (Paired); as long as nothing was lost, a row without a  *)
(* delivery has a task that will delete it (RowNeeded), and a file without *)
(* a row one that will unlink it (FileListed).                             *)
(***************************************************************************)
Paired ==
    /\ rows \subseteq files
    /\ \A t \in Tasks :
          /\ task[t].pc \in {"accepted", "clear", "drop", "unlink"} => payload[t[1]] # NoPayload
          /\ task[t].pc = "unlink" => task[t].listed \cap rows = {}

RowNeeded ==
    \A p \in rows :
        Users(p) = {} => \E t \in Tasks : task[t].pc \in {"clear", "drop"} /\ payload[t[1]] = p

FileListed ==
    /\ \A t \in Tasks :
          task[t].pc = "drop" /\ payload[t[1]] \in rows \ {LegacyPayload}
             => payload[t[1]] \in task[t].listed
    /\ \A p \in files \ rows :
          p = LegacyPayload \/ \E t \in Tasks : task[t].pc = "unlink" /\ p \in task[t].listed

Tidy == Paired /\ (lost = {} => RowNeeded /\ FileListed)

\* A step that neither touches rows and files nor is one of clearing.
LEMMA TidyKept ==
    ASSUME Tidy, Cleared, UNCHANGED <<payload, rows, files>>, lost \subseteq lost',
           \A d \in Deliveries : Exists(d)' <=> Exists(d),
           \A u \in Tasks :
              \/ task'[u] = task[u]
              \/ /\ task[u].pc \notin {"clear", "drop", "unlink"}
                 /\ task'[u].pc \notin {"clear", "drop", "unlink"}
                 /\ task'[u].pc = "accepted" => task[u].pc \in {"send", "accepted"}
    PROVE  Tidy'
<1>1. Paired'
  BY DEF Tidy, Paired, Cleared
<1>2. \A p : Users(p)' = Users(p)
  BY DEF Users
<1>3. RowNeeded => RowNeeded'
  BY <1>2 DEF RowNeeded
<1>4. FileListed => FileListed'
  BY DEF FileListed
<1> QED BY <1>1, <1>3, <1>4 DEF Tidy

LEMMA OthersTidy ==
    ASSUME Inv, Tidy,
           \/ PublishGenerator \/ KillGenerator \/ KillPublisher \/ UNCHANGED vars
           \/ \E d \in Deliveries : Publish(d) \/ EventDeliveryRetry(d) \/ ToggleWebhook(d)
                                       \/ Expire(d)
    PROVE  Tidy'
<1>1. CASE PublishGenerator \/ KillGenerator \/ KillPublisher \/ UNCHANGED vars
  BY <1>1, TidyKept DEF Inv, PublishGenerator, KillGenerator, KillPublisher, vars, database,
     Exists
<1>2. ASSUME NEW d \in Deliveries, ToggleWebhook(d) \/ Expire(d)
      PROVE  Tidy'
  BY <1>2, TidyKept DEF Inv, ToggleWebhook, Expire, database, Exists
<1>3. ASSUME NEW d \in Deliveries, Publish(d)
      PROVE  Tidy'
  <2>1. task[<<d, "event">>].pc = "free" /\ <<d, "event">> \in Tasks
    BY <1>3, TaskFacts DEF Inv, PublishedOnce, Publish
  <2>2. \A u \in Tasks : task'[u] = task[u]
                            \/ (u = <<d, "event">> /\ task'[u].pc = "queued")
    BY <1>3 DEF Publish, Free, Inv, TypeOK
  <2> QED BY <1>3, <2>1, <2>2, TidyKept DEF Inv, Publish, database, Exists
<1>4. ASSUME NEW d \in Deliveries, EventDeliveryRetry(d)
      PROVE  Tidy'
  <2>1. task[<<d, "staff">>].pc = "free"
    BY <1>4 DEF Inv, PublishedOnce, EventDeliveryRetry
  <2>2. \A u \in Tasks : task'[u] = task[u]
                            \/ (u = <<d, "staff">> /\ task'[u].pc = "queued")
    BY <1>4 DEF EventDeliveryRetry, Free, Inv, TypeOK
  <2>3. \A e \in Deliveries : Exists(e)' <=> Exists(e)
    BY <1>4 DEF EventDeliveryRetry, Exists, Inv, TypeOK
  <2> QED BY <1>4, <2>1, <2>2, <2>3, TidyKept DEF Inv, EventDeliveryRetry
<1> QED BY <1>1, <1>2, <1>3, <1>4

\* The steps of a task before it clears.
LEMMA SendingTidy ==
    ASSUME Inv, Tidy, NEW t \in Tasks,
           \/ StartMissing(t) \/ StartInactive(t) \/ Start(t)
           \/ Accept(t) \/ Refuse(t) \/ Fail(t)
    PROVE  Tidy'
<1>1. /\ UNCHANGED <<payload, rows, files, lost>>
      /\ task[t].pc \in {"queued", "send", "fail"}
  BY DEF StartMissing, StartInactive, Start, Accept, Refuse, Fail, database
<1>2. \A u \in Tasks : u # t => task'[u] = task[u]
  BY DEF StartMissing, StartInactive, Start, Accept, Refuse, Fail, Goto, End, Again, Inv, TypeOK
<1>3. /\ task'[t].pc \in {"free", "queued", "send", "fail", "accepted"}
      /\ task'[t].pc = "accepted" => task[t].pc = "send"
  BY DEF StartMissing, StartInactive, Start, Accept, Refuse, Fail, Goto, End, Again, Inv,
     TypeOK, Free
<1>4. \A d \in Deliveries : Exists(d)' <=> Exists(d)
  BY DEF StartMissing, StartInactive, Start, Accept, Refuse, Fail, database, Exists, Inv, TypeOK
<1> QED BY <1>1, <1>2, <1>3, <1>4, TidyKept DEF Inv

LEMMA TriggerEventTidy ==
    ASSUME Inv, Tidy, TriggerEvent
    PROVE  Tidy'
<1>1. task' = task /\ files' = rows' /\ \A t \in Tasks : task[t].pc = "free"
  BY DEF TriggerEvent, Inv, Fresh, Free
<1>2. Paired'
  BY <1>1 DEF Paired
<1>3. FileListed'
  BY <1>1 DEF FileListed
<1>4. RowNeeded'
  <2> SUFFICES ASSUME NEW p \in rows'
               PROVE  Users(p)' # {}
    BY DEF RowNeeded
  <2>1. PICK d \in Shared \cup Own : p = PayloadFor(d)
    BY DEF TriggerEvent
  <2>2. d \in Deliveries /\ Exists(d)' /\ payload'[d] = p
    BY <2>1, PayloadForFacts DEF TriggerEvent, Exists
  <2> QED BY <2>2 DEF Users
<1> QED BY <1>2, <1>3, <1>4 DEF Tidy

\* A payload that is generated belongs to a delivery that no task has yet.
LEMMA GenerateTidy ==
    ASSUME Inv, Tidy, NEW found \in BOOLEAN, NEW empty \in SUBSET Deferred,
           Generate(found, empty)
    PROVE  Tidy'
<1> DEFINE new == IF found THEN ({d \in Deferred : Exists(d)} \cap active) \ empty ELSE {}
<1>1. /\ rows' = rows \cup new /\ files' = files \cup new
      /\ payload' = [d \in Deliveries |-> IF d \in new THEN d ELSE payload[d]]
      /\ task' = task /\ lost \subseteq lost'
  BY DEF Generate, Inv, TypeOK
<1>2. \A d \in Deliveries : Exists(d)' <=> Exists(d)
  BY DEF Generate, Exists
<1>3. \A d \in new : d \in Deliveries /\ Exists(d) /\ payload[d] = NoPayload
  BY DEF Generate, Inv, PublishedOnce, Deliveries
<1>4. NoPayload \notin rows /\ NoPayload \notin new
  BY <1>3, WebhookAssumption DEF Inv, TypeOK, Payloads, LegacyPayload, NoPayload, Deliveries
<1> HIDE DEF new
<1>5. \A t \in Tasks : task[t].pc \in {"accepted", "clear", "drop", "unlink"} =>
                          t[1] \in Deliveries /\ t[1] \notin new /\ payload'[t[1]] = payload[t[1]]
  BY <1>1, <1>3, TaskFacts DEF Tidy, Paired
<1>6. \A t \in Tasks : task[t].pc \in {"drop", "unlink"} => task[t].listed \cap new = {}
  <2> SUFFICES ASSUME NEW t \in Tasks, task[t].pc \in {"drop", "unlink"},
                      NEW p \in task[t].listed, p \in new
               PROVE  FALSE
    OBVIOUS
  <2>1. p = payload[t[1]] /\ p # NoPayload
    BY DEF Inv, Listed
  <2>2. p \in {IF t[1] \in Shared THEN LegacyPayload ELSE t[1], NoPayload}
    BY <2>1, TaskFacts DEF Inv, Owned
  <2>3. p # LegacyPayload
    BY <1>3, WebhookAssumption
  <2>4. p = t[1]
    BY <2>1, <2>2, <2>3
  <2> QED BY <1>5, <2>4
<1>7. Paired'
  BY <1>1, <1>5, <1>6 DEF Tidy, Paired
<1>8. ASSUME lost' = {}
      PROVE  RowNeeded' /\ FileListed'
  <2>1. RowNeeded /\ FileListed
    BY <1>1, <1>8 DEF Tidy
  <2>2. ASSUME NEW p \in rows', Users(p)' = {}
        PROVE  \E t \in Tasks : task'[t].pc \in {"clear", "drop"} /\ payload'[t[1]] = p
    <3>1. p \notin new
      BY <1>1, <1>2, <1>3, <2>2 DEF Users
    <3>2. p \in rows
      BY <1>1, <3>1
    <3>3. Users(p) = {}
      BY <1>1, <1>2, <1>3, <1>4, <2>2, <3>1, <3>2 DEF Users
    <3>4. PICK t \in Tasks : task[t].pc \in {"clear", "drop"} /\ payload[t[1]] = p
      BY <2>1, <3>2, <3>3 DEF RowNeeded
    <3> QED BY <1>1, <1>5, <3>4
  <2>3. ASSUME NEW t \in Tasks, task'[t].pc = "drop", payload'[t[1]] \in rows' \ {LegacyPayload}
        PROVE  payload'[t[1]] \in task'[t].listed
    <3>1. payload'[t[1]] = payload[t[1]] /\ task[t].pc = "drop" /\ t[1] \in Deliveries
          /\ t[1] \notin new
      BY <1>1, <1>5, <2>3
    <3>2. payload[t[1]] \notin new
      <4>1. payload[t[1]] \in {LegacyPayload, NoPayload, t[1]}
        BY <3>1 DEF Inv, Owned
      <4> QED BY <1>4, <2>3, <3>1, <4>1
    <3> QED BY <1>1, <2>1, <2>3, <3>1, <3>2 DEF FileListed
  <2>4. ASSUME NEW p \in files' \ rows'
        PROVE  p = LegacyPayload \/ \E t \in Tasks : task'[t].pc = "unlink" /\ p \in task'[t].listed
    BY <1>1, <2>1 DEF FileListed
  <2>5. RowNeeded'
    BY <2>2 DEF RowNeeded
  <2>6. FileListed'
    BY <2>3, <2>4 DEF FileListed
  <2> QED BY <2>5, <2>6
<1> QED BY <1>7, <1>8 DEF Tidy

\* The last delivery of a payload goes, and its task knows.
LEMMA DeleteDeliveryTidy ==
    ASSUME Inv, Tidy, NEW t \in Tasks, DeleteDelivery(t)
    PROVE  Tidy'
<1>1. /\ UNCHANGED <<payload, rows, files, lost>> /\ task[t].pc = "accepted"
      /\ task'[t].pc = "clear" /\ \A u \in Tasks : u # t => task'[u] = task[u]
  BY DEF DeleteDelivery, Goto, Inv, TypeOK
<1>2. \A d \in Deliveries : d # t[1] => (Exists(d)' <=> Exists(d))
  BY DEF DeleteDelivery, Exists, Inv, TypeOK
<1>3. Paired'
  BY <1>1 DEF Tidy, Paired
<1>4. RowNeeded => RowNeeded'
  <2> SUFFICES ASSUME RowNeeded, NEW p \in rows', Users(p)' = {}
               PROVE  \E u \in Tasks : task'[u].pc \in {"clear", "drop"} /\ payload'[u[1]] = p
    BY DEF RowNeeded
  <2>1. CASE payload[t[1]] = p
    BY <1>1, <2>1
  <2>2. CASE payload[t[1]] # p
    <3>1. Users(p) = {}
      BY <1>1, <1>2, <2>2 DEF Users
    <3>2. PICK u \in Tasks : task[u].pc \in {"clear", "drop"} /\ payload[u[1]] = p
      BY <1>1, <3>1 DEF RowNeeded
    <3> QED BY <1>1, <3>2
  <2> QED BY <2>1, <2>2
<1>5. FileListed => FileListed'
  BY <1>1 DEF FileListed
<1> QED BY <1>1, <1>3, <1>4, <1>5 DEF Tidy

\* The payload of a subscription webhook has no other delivery.
LEMMA OwnUnused ==
    ASSUME Inv, NEW t \in Tasks, ~Exists(t[1]), payload[t[1]] \in rows \ {LegacyPayload}
    PROVE  Unused(payload[t[1]])
<1>1. NoPayload \notin rows /\ NoPayload # LegacyPayload /\ t[1] \in Deliveries
  BY WebhookAssumption, TaskFacts DEF Inv, TypeOK, Payloads, LegacyPayload, NoPayload, Deliveries
<1>2. payload[t[1]] = t[1]
  BY <1>1 DEF Inv, Owned
<1>3. \A d \in Deliveries : payload[d] = t[1] => d = t[1]
  BY <1>1, <1>2 DEF Inv, Owned
<1> QED BY <1>2, <1>3 DEF Unused, Users

LEMMA ListFilesTidy ==
    ASSUME Inv, Tidy, NEW t \in Tasks, ListFiles(t)
    PROVE  Tidy'
<1>1. /\ UNCHANGED <<status, payload, rows, files>> /\ lost \subseteq lost'
      /\ task[t].pc = "clear" /\ task'[t].pc = "drop"
      /\ \A u \in Tasks : u # t => task'[u] = task[u]
  BY DEF ListFiles, Goto, Inv, TypeOK, database
<1>2. lost' = {} => task'[t].listed = IF Unused(payload[t[1]]) THEN {payload[t[1]]} ELSE {}
  BY DEF ListFiles, Inv, TypeOK
<1>3. Paired'
  BY <1>1 DEF Tidy, Paired
<1>4. \A p : Users(p)' = Users(p)
  BY <1>1 DEF Users, Exists
<1>5. RowNeeded => RowNeeded'
  BY <1>1, <1>4 DEF RowNeeded
<1>6. ASSUME FileListed, lost' = {}
      PROVE  FileListed'
  <2>1. payload[t[1]] \in rows \ {LegacyPayload} => payload[t[1]] \in task'[t].listed
    BY <1>1, <1>2, <1>6, OwnUnused DEF Inv, Cleared
  <2> QED BY <1>1, <1>6, <2>1 DEF FileListed
<1> QED BY <1>1, <1>3, <1>5, <1>6 DEF Tidy

\* The row goes after its file was listed, so the file follows.
LEMMA DropPayloadTidy ==
    ASSUME Inv, Tidy, NEW t \in Tasks, DropPayload(t)
    PROVE  Tidy'
<1> DEFINE p == payload[t[1]]
<1>1. /\ UNCHANGED <<payload, files, lost, status>>
      /\ task[t].pc = "drop" /\ task'[t].pc = "unlink" /\ task'[t].listed = task[t].listed
      /\ \A u \in Tasks : u # t => task'[u] = task[u]
      /\ rows' = IF Unused(p) THEN rows \ {p} ELSE rows
  BY DEF DropPayload, Goto, Inv, TypeOK, Unused
<1>2. \A q : Users(q)' = Users(q)
  BY <1>1 DEF Users, Exists
<1>3. task[t].listed \cap rows' = {}
  BY <1>1 DEF Inv, Listed, Unused
<1>4. Paired'
  BY <1>1, <1>3 DEF Tidy, Paired
<1>5. RowNeeded => RowNeeded'
  <2> SUFFICES ASSUME RowNeeded, NEW q \in rows', Users(q)' = {}
               PROVE  \E u \in Tasks : task'[u].pc \in {"clear", "drop"} /\ payload'[u[1]] = q
    BY DEF RowNeeded
  <2>1. q \in rows /\ Users(q) = {} /\ q # p
    BY <1>1, <1>2 DEF Unused
  <2>2. PICK u \in Tasks : task[u].pc \in {"clear", "drop"} /\ payload[u[1]] = q
    BY <2>1 DEF RowNeeded
  <2> QED BY <1>1, <2>1, <2>2
<1>6. FileListed => FileListed'
  <2> SUFFICES ASSUME FileListed
               PROVE  FileListed'
    OBVIOUS
  <2>1. \A u \in Tasks : task'[u].pc = "drop" /\ payload'[u[1]] \in rows' \ {LegacyPayload}
                            => payload'[u[1]] \in task'[u].listed
    BY <1>1 DEF FileListed
  <2>2. ASSUME NEW q \in files' \ rows', q # LegacyPayload
        PROVE  \E u \in Tasks : task'[u].pc = "unlink" /\ q \in task'[u].listed
    <3>1. CASE q \in rows
      <4>1. q = p
        BY <1>1, <2>2, <3>1
      <4>2. q \in task[t].listed
        BY <1>1, <2>2, <3>1, <4>1 DEF FileListed
      <4> QED BY <1>1, <4>2
    <3>2. CASE q \notin rows
      <4>1. PICK u \in Tasks : task[u].pc = "unlink" /\ q \in task[u].listed
        BY <1>1, <2>2, <3>2 DEF FileListed
      <4> QED BY <1>1, <4>1
    <3> QED BY <3>1, <3>2
  <2> QED BY <2>1, <2>2 DEF FileListed
<1> QED BY <1>1, <1>4, <1>5, <1>6 DEF Tidy

LEMMA UnlinkFilesTidy ==
    ASSUME Inv, Tidy, NEW t \in Tasks, UnlinkFiles(t)
    PROVE  Tidy'
<1>1. /\ UNCHANGED <<payload, rows, lost, status>>
      /\ task[t].pc = "unlink" /\ task'[t].pc = "free"
      /\ \A u \in Tasks : u # t => task'[u] = task[u]
      /\ files' = files \ task[t].listed
  BY DEF UnlinkFiles, End, Free, Inv, TypeOK
<1>2. \A q : Users(q)' = Users(q)
  BY <1>1 DEF Users, Exists
<1>3. Paired'
  BY <1>1 DEF Tidy, Paired
<1>4. RowNeeded => RowNeeded'
  BY <1>1, <1>2 DEF RowNeeded
<1>5. FileListed => FileListed'
  BY <1>1 DEF FileListed
<1> QED BY <1>1, <1>3, <1>4, <1>5 DEF Tidy

\* The cleaning task takes rows and files together.
LEMMA DeletePayloadsTidy ==
    ASSUME Inv, Tidy, DeletePayloads
    PROVE  Tidy'
<1> DEFINE old == {p \in rows : Users(p) \subseteq expired}
<1>1. /\ UNCHANGED <<payload, lost, task>>
      /\ rows' = rows \ old /\ files' = files \ old
      /\ status' = [d \in Deliveries |->
                       IF Exists(d) /\ payload[d] \in old THEN "absent" ELSE status[d]]
  BY DEF DeletePayloads
<1> HIDE DEF old
<1>2. Paired'
  BY <1>1 DEF Tidy, Paired
<1>3. ASSUME NEW q \in rows'
      PROVE  Users(q)' = Users(q)
  BY <1>1, <1>3 DEF Users, Exists
<1>4. RowNeeded => RowNeeded'
  BY <1>1, <1>3 DEF RowNeeded
<1>5. FileListed => FileListed'
  BY <1>1 DEF FileListed
<1> QED BY <1>1, <1>2, <1>4, <1>5 DEF Tidy

LEMMA KillTaskTidy ==
    ASSUME Inv, Tidy, NEW t \in Tasks, KillTask(t)
    PROVE  Tidy'
<1>1. UNCHANGED <<payload, rows, files>> /\ lost' # {}
  BY DEF KillTask, database
<1>2. task'[t].pc = "free" /\ \A u \in Tasks : u # t => task'[u] = task[u]
  BY DEF KillTask, End, Free, Inv, TypeOK
<1>3. Paired'
  BY <1>1, <1>2 DEF Tidy, Paired
<1> QED BY <1>1, <1>3 DEF Tidy

LEMMA NextTidy == Inv /\ Tidy /\ [Next]_vars => Tidy'
<1> SUFFICES ASSUME Inv, Tidy, [Next]_vars PROVE Tidy'
  OBVIOUS
<1>1. CASE UNCHANGED vars
  BY <1>1, OthersTidy
<1>2. CASE Next
  BY <1>2, OthersTidy, SendingTidy, TriggerEventTidy, GenerateTidy, DeleteDeliveryTidy,
     ListFilesTidy, DropPayloadTidy, UnlinkFilesTidy, DeletePayloadsTidy, KillTaskTidy
     DEF Next
<1> QED BY <1>1, <1>2

\* When nothing is left to send, clear_successful_delivery and the cleaning
\* task have left neither a payload row without delivery or file nor a file
\* without row, except the file of a shared payload - unless a process was
\* killed or the replica was late.
THEOREM NothingLeftBehind == Spec => []NoOrphans
<1>1. Init => Inv /\ Tidy
  BY InitInv DEF Init, Tidy, Paired, RowNeeded, FileListed, Free
<1>2. (Inv /\ Tidy) /\ [Next]_vars => (Inv /\ Tidy)'
  BY NextInv, NextTidy
<1>3. Inv /\ Tidy => NoOrphans
  <2> SUFFICES ASSUME Inv, Tidy, \A d \in Deliveries : ~Working(d), lost = {}
               PROVE  /\ rows \subseteq files /\ files \subseteq rows \cup {LegacyPayload}
                      /\ \A p \in rows : Users(p) # {}
    BY DEF NoOrphans
  <2>1. \A t \in Tasks : task[t].pc = "free"
    BY TaskFacts DEF Working
  <2> QED BY <2>1 DEF Tidy, Paired, RowNeeded, FileListed
<1> QED BY <1>1, <1>2, <1>3, PTL DEF Spec
=============================================================================
