-------------------------- MODULE CommandOutcome --------------------------
(***************************************************************************)
(* What a caller may conclude about a command: it was carried out only if  *)
(* the machine accepted it or moved since it was sent, it was rejected only *)
(* if the machine refused it, and it may be given up at any time.          *)
(***************************************************************************)
EXTENDS Naturals

CONSTANT MaxCommands

VARIABLES
    command,   \* the number of commands sent so far
    outcome,   \* what is known of the last one
    evidence   \* what the machine has shown about it

ovars == <<command, outcome, evidence>>

Signs == {"accepted", "refused", "moved"}

Init ==
    /\ command = 0
    /\ outcome = "none"
    /\ evidence = {}

Send ==
    /\ outcome # "sent" /\ command < MaxCommands
    /\ command' = command + 1
    /\ outcome' = "sent"
    /\ evidence' = {}

Learn ==
    /\ evidence' \in SUBSET Signs /\ evidence \subseteq evidence'
    /\ UNCHANGED <<command, outcome>>

Conclude ==
    /\ outcome = "sent"
    /\ \/ outcome' = "acknowledged" /\ {"accepted", "moved"} \cap evidence # {}
       \/ outcome' = "rejected" /\ "refused" \in evidence
       \/ outcome' \in {"timed_out", "failed", "unconfirmed"}
    /\ UNCHANGED <<command, evidence>>

Spec == Init /\ [][Send \/ Learn \/ Conclude]_ovars
===========================================================================
