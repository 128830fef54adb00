---------------------------- MODULE MCController ----------------------------
EXTENDS Controller, MCSchedules

Executable ==
    Scheduled(Straight \cup Conditional \cup Loop \cup EmptyEntry \cup DeadEnd \cup Cases)

MCExecutable == Executable
=============================================================================
