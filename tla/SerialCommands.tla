-------------------------- MODULE SerialCommands --------------------------
(***************************************************************************)
(* What the command path promises its callers: at most one request runs at *)
(* a time, and a caller is told "done" only if the cloud accepted a write  *)
(* made for it during that exclusive run.                                  *)
(***************************************************************************)
CONSTANT Callers

VARIABLES
    phase,     \* what each caller's last request came to
    accepted   \* the cloud accepted a write of that request

svars == <<phase, accepted>>

SInit ==
    /\ phase = [c \in Callers |-> "resting"]
    /\ accepted = [c \in Callers |-> FALSE]

Begin(c) ==
    /\ \A d \in Callers : phase[d] # "running"
    /\ phase' = [phase EXCEPT ![c] = "running"]
    /\ accepted' = [accepted EXCEPT ![c] = FALSE]

\* The cloud accepts a write of the running request.
Deliver(c) ==
    /\ phase[c] = "running"
    /\ accepted' = [accepted EXCEPT ![c] = TRUE]
    /\ phase' = phase

\* Success is reported; the write was accepted before or in this very step.
Succeed(c) ==
    /\ phase[c] = "running"
    /\ phase' = [phase EXCEPT ![c] = "done"]
    /\ accepted' = [accepted EXCEPT ![c] = TRUE]

\* A failure, a cancellation, a refusal, or the end of a statistics refresh.
GiveUp(c) ==
    /\ phase' = [phase EXCEPT ![c] = "resting"]
    /\ accepted' = [accepted EXCEPT ![c] = FALSE]

SNext == \E c \in Callers : Begin(c) \/ Deliver(c) \/ Succeed(c) \/ GiveUp(c)

SSpec == SInit /\ [][SNext]_svars
===========================================================================
