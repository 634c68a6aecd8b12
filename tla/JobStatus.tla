------------------------------- MODULE JobStatus -------------------------------
(***************************************************************************)
(* The status column of the desktop's background_jobs table, as the enum    *)
(* JobStatus of models.rs classifies it.                                    *)
(***************************************************************************)

\* The statuses a row holds before its job has ended (JobStatus::is_active).
ActiveStatuses ==
    {"idle", "created", "queued", "acknowledged_by_worker", "preparing",
     "preparing_input", "generating_stream", "processing_stream", "running"}

\* The statuses of a job that has ended (JobStatus::is_terminal).
TerminalStatuses == {"completed", "failed", "canceled", "completed_by_tag"}

JobStatuses == ActiveStatuses \cup TerminalStatuses

\* The statuses the bulk UPDATE of cancel_session_jobs replaces by canceled.
SessionCancelable ==
    {"created", "running", "queued", "acknowledged_by_worker", "idle", "preparing"}

\* The statuses clear_job_history deletes: completed_by_tag is not one.
ClearableStatuses == {"completed", "failed", "canceled"}
================================================================================
