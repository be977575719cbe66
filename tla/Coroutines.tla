----------------------------- MODULE Coroutines -----------------------------
(* The coroutines that the synchronisation primitives suspend and resume.   *)

CONSTANTS
    Tasks,   \* the coroutines
    Nobody   \* a null coroutine handle, or a queue lock that is free

ASSUME NobodyAssumption == Nobody \notin Tasks
=============================================================================
