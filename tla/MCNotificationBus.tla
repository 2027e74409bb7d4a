--------------------------- MODULE MCNotificationBus ---------------------------
EXTENDS NotificationBus

CONSTANTS all, filtered   \* a subscription to everything, and one with a filter
CONSTANTS a, b

MCWants == all :> {a, b} @@ filtered :> {b}
MCLimit == all :> 2 @@ filtered :> 1
=============================================================================
