----------------------- MODULE MCCommandTransaction -----------------------
(***************************************************************************)
(* Instances of CommandTransaction for TLC: the symmetry of its callers,   *)
(* and the statements of the repository that the code contradicts.         *)
(***************************************************************************)
EXTENDS CommandTransaction, TLC

\* Callers are interchangeable; used in the runs without liveness only.
CallerSymmetry == Permutations(Callers)

\* coordinator.py:1502-1504 says that a second request leaves the status of
\* the command in progress alone: until a command ends it reads pending or
\* sent.
StatusOfRunningCommandKept ==
    \A c \in Callers :
        (pc[c] \in Holding /\ command[c].kind # "sync")
        => lastResult \in {"pending", "sent"}

\* docs/COMPATIBILITY.md:131-132 says that Stop remains available when the
\* property write is known to have succeeded; this includes raw starts.
StopAvailableAfterWrite ==
    [][\A c \in Callers :
          (/\ Leaves(c, Writing)
           /\ command[c].kind \in Starting
           /\ pc'[c] = "done" \/ (pc'[c] = "failed" /\ local[c].wrote)
           /\ local[c].ack # "refused")
          => active' = command[c].beverage]_vars
===========================================================================
