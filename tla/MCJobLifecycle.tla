--------------------------- MODULE MCJobLifecycle ---------------------------
(* Instances of JobLifecycle for TLC. *)
EXTENDS JobLifecycle, TLC

MCLimitOf == [o \in Owners |-> 1]
MCEventTypes == {"job.queued", "job.capacity.waiting", "job.started", "job.retrying",
                 "job.artifact", "job.attempt.lost", "job.recovery.started",
                 "job.succeeded", "job.failed", "job.cancelled"}
MCPayloads == 0..MaxAttempts
=============================================================================
