----------------------- MODULE MCNotificationDelivery -----------------------
(***************************************************************************)
(* Small instances of NotificationDelivery: two workers.                   *)
(***************************************************************************)
EXTENDS NotificationDelivery, TLC

CONSTANTS w1, w2

\* Workers are interchangeable.
MCSymmetry == Permutations({w1, w2})
=============================================================================
