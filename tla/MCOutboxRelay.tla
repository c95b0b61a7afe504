------------------------------ MODULE MCOutboxRelay ------------------------------
(* Small instances of OutboxRelay: the two consumers that are registered for  *)
(* each type of event, or one of them, and an event that one cannot handle.   *)
EXTENDS OutboxRelay

CONSTANTS e1, e2, projection, notification

BothConsumers == << projection, notification >>
OneConsumer == << projection >>
ProjectionPoison == { << projection, e1 >> }
OnePoison == { << notification, e1 >> }
=============================================================================
