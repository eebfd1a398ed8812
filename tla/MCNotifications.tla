-------------------------- MODULE MCNotifications --------------------------
(***************************************************************************)
(* An instance of Notifications for TLC: an e-mail of each feature, and    *)
(* messages for the portal and for a customer.                             *)
(***************************************************************************)
EXTENDS Notifications, TLC

MCTypes == {"verifyEmail", "newFileNotification", "openSupportTicket", "admin", "customer"}

MCSymmetry == Permutations(Jobs)
=============================================================================
