-------------------------- MODULE MCReportLifecycle --------------------------
\* Small instances of ReportLifecycle for TLC.
EXTENDS ReportLifecycle, TLC

\* Schedulers are interchangeable, and so are workers.
ProcessSymmetry == Permutations(Scheduler) \cup Permutations(Worker)

\* No window, or the first window, of every schedule was completed by mail.
NoneMailed == [t \in Tenant |-> 0]
FirstMailed == [t \in Tenant |-> 1]
=============================================================================
