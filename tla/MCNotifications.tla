----------------------------- MODULE MCNotifications -----------------------------
(* A small instance of Notifications: one event, two recipients of which one   *)
(* cannot be reached.                                                          *)
EXTENDS Notifications

CONSTANTS e1, notification, mail, hook

OneConsumer == << notification >>
OfOneEvent == [d \in Deliveries |-> e1]
=============================================================================
