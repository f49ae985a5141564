------------------------- MODULE MCMaintenanceJobs -------------------------
(* A small instance of MaintenanceJobs for TLC.                            *)
EXTENDS MaintenanceJobs

=============================================================================
