---------------------------- MODULE BrokerTasksMC ----------------------------
(* BrokerTasks with an ESB pair a -> b: of two rabbitmq queues, or of a     *)
(* kafka topic and a rabbitmq queue.  Every failure for one message, fewer *)
(* of them for two messages or with empty ones; commits that fail, so that *)
(* messages are given out again; kafka writes that fail half-way.          *)
EXTENDS BrokerTasks

CONSTANTS a, b

MCPool == {a, b}
MCLink == [p \in MCPool |-> IF p = a THEN b ELSE None]

Rabbit == {}
KafkaToRabbit == {a}

Every == {"deadline", "connect", "connection", "poll", "record", "submit", "edit"}

Scenario(pools, n, k, e, happens) ==
  [kafka |-> pools, msgs |-> n, again |-> k, empty |-> e, events |-> happens]

Quiet == Scenario(KafkaToRabbit, 2, 0, 0, {})

AllScenarios ==
  { Quiet,
    Scenario(Rabbit, 1, 0, 0, Every),
    Scenario(Rabbit, 1, 0, 1, Every \ {"deadline"}),
    Scenario(Rabbit, 2, 0, 0, Every \ {"deadline"}),
    Scenario(Rabbit, 2, 0, 0, {"deadline", "submit"}),
    Scenario(KafkaToRabbit, 1, 0, 0, Every \ {"connection", "edit"}),
    Scenario(KafkaToRabbit, 1, 1, 0, {"deadline", "commit", "poll"}),
    Scenario(KafkaToRabbit, 2, 2, 0, {"commit"}),
    Scenario(KafkaToRabbit, 2, 0, 0, {"connection"}) }

JustUnrecorded == {Scenario(KafkaToRabbit, 1, 0, 0, {"record"})}
=============================================================================
