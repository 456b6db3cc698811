--------------------------- MODULE ThreadPriority ---------------------------
(***************************************************************************)
(* jive/thread_priority.cpp.  A caller names a priority by its offset from *)
(* the highest one of SCHED_FIFO.                                          *)
(***************************************************************************)
EXTENDS Integers

CONSTANTS minPriority, maxPriority  \* sched_get_priority_min and _max

GetPriorityRange == maxPriority - minPriority

\* pthread_setschedparam, for a thread that exists or not and a process that
\* has the privilege or not.
pthread_setschedparam(priority, exists, privileged) ==
    IF priority \notin minPriority .. maxPriority THEN "EINVAL"
    ELSE IF ~exists THEN "ESRCH"
    ELSE IF ~privileged THEN "EPERM"
    ELSE "ok"

DesiredPriority(priorityOffset) ==
    LET offset == IF priorityOffset > 0 THEN 0 ELSE priorityOffset
        desiredPriority == maxPriority - offset
    IN  IF desiredPriority < minPriority THEN minPriority ELSE desiredPriority

\* SetFifoPriority returns or throws.
SetFifoPriority(priorityOffset, exists, privileged) ==
    LET result == pthread_setschedparam(DesiredPriority(priorityOffset),
                                        exists, privileged)
    IN  CASE result = "ESRCH" -> "BadThreadId"
          [] result = "EINVAL" -> "BadPolicyOrParam"
          [] result = "EPERM" -> "PermissionError"
          [] OTHER -> "returned"

-----------------------------------------------------------------------------
\* "Negative values set the priority lower, offset from
\* sched_get_priority_max(SCHED_FIFO)": every offset within GetPriorityRange is
\* one that the system accepts, and a lower offset is a lower priority.
NegativeOffsetsLower(priorityOffset, other) ==
    priorityOffset \in -GetPriorityRange .. 0 =>
        /\ SetFifoPriority(priorityOffset, TRUE, TRUE) = "returned"
        /\ other \in -GetPriorityRange .. priorityOffset - 1 =>
            DesiredPriority(other) < DesiredPriority(priorityOffset)
=============================================================================
