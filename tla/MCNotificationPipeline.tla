---------------------- MODULE MCNotificationPipeline ----------------------
(* TLC instances of NotificationPipeline. *)
EXTENDS NotificationPipeline

===========================================================================
