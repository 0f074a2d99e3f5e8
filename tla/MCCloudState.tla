--------------------------- MODULE MCCloudState ---------------------------
(* A small instance of CloudState: a monitor property with time stamps and a *)
(* command property without.                                               *)
EXTENDS CloudState

\* A machine in standby reports an undecodable blob and is ready.
MCReading == [v \in 0 .. 2 |->
    CASE v = 0 -> "standby" [] v = 1 -> "garbled" [] v = 2 -> "ready"]

MCMaxVersion == [p \in Properties |-> 2]

\* The command's first event has a sequence that is no number, the second none.
MCForm == [p \in Properties |-> [v \in 1 .. MCMaxVersion[p] |->
    IF p = Monitor THEN "number" ELSE IF v = 1 THEN "text" ELSE "absent"]]
===========================================================================
