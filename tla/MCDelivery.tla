----------------------------- MODULE MCDelivery -----------------------------
(* Instances of Delivery, with the message of the backup, for TLC. *)
EXTENDS Delivery, BackupMessage

Everything == {"fault", "cancel", "crash"}
=============================================================================
