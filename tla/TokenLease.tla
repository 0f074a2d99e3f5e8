----------------------------- MODULE TokenLease -----------------------------
(***************************************************************************)
(* What the cloud client promises about its access token: a token is given  *)
(* up or replaced only when it has expired or the cloud has refused it, and *)
(* every token the cloud issues is new.                                     *)
(***************************************************************************)
EXTENDS Naturals

VARIABLES
    token,    \* the token in use, 0 without one
    issued,   \* how many the cloud has issued
    spent     \* those known to be of no more use

lvars == <<token, issued, spent>>

Init ==
    /\ token = 0
    /\ issued = 0
    /\ spent = {}

Spoil ==
    /\ \E t \in 1 .. issued : spent' = spent \cup {t}
    /\ UNCHANGED <<token, issued>>

Discard ==
    /\ token \in spent
    /\ token' = 0
    /\ UNCHANGED <<issued, spent>>

Replace ==
    /\ token = 0 \/ token \in spent
    /\ issued' = issued + 1
    /\ token' = issued + 1
    /\ UNCHANGED spent

Spec == Init /\ [][Spoil \/ Discard \/ Replace]_lvars
===========================================================================
