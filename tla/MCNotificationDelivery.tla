----------------------- MODULE MCNotificationDelivery ------------------------
(***************************************************************************)
(* Instances of NotificationDelivery for TLC.                              *)
(***************************************************************************)
EXTENDS NotificationDelivery, TLC

CONSTANTS w1, w2

WorkerSymmetry == Permutations({w1, w2})
=============================================================================
