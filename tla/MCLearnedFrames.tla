-------------------------- MODULE MCLearnedFrames --------------------------
(***************************************************************************)
(* An instance of LearnedFrames: two beverages of which the second is only  *)
(* started, the frames of two machines, and the tables an earlier version   *)
(* may have stored: none, one of this version, one that mixes machines, and *)
(* one with unsigned frames and a session refresh learned as a power-on.    *)
(***************************************************************************)
EXTENDS LearnedFrames

CONSTANTS b1, b2, s1, s2

MCBeverages  == {b1, b2}
MCSignatures == {s1, s2}

F(press, beverage, wire, signature, intact) ==
    [press |-> press, beverage |-> beverage, wire |-> wire,
     signature |-> signature, intact |-> intact]

MCTraffic ==
    {F("start", b1, 1, s1, TRUE), F("start", b1, 2, s1, TRUE),
     F("stop",  b1, 2, s1, TRUE), F("start", b2, 1, NoSignature, TRUE),
     F("start", b1, 1, s2, TRUE), F("start", b2, 1, s1, FALSE),
     F("wake", NoBeverage, 2, s1, TRUE), F("refresh", NoBeverage, 2, s1, TRUE)}

Table(pairs) ==
    [k \in Keys |-> IF \E p \in pairs : p[1] = k
                    THEN (CHOOSE p \in pairs : p[1] = k)[2] ELSE NoFrame]

MCOldStores ==
    {Table({}),
     Table({<<<<"start", b1>>, F("start", b1, 1, s1, TRUE)>>,
            <<WakeKey, F("wake", NoBeverage, 2, s1, TRUE)>>}),
     Table({<<<<"start", b1>>, F("start", b1, 1, s1, TRUE)>>,
            <<<<"start", b2>>, F("start", b2, 1, s2, TRUE)>>,
            <<WakeKey, F("wake", NoBeverage, 2, s2, TRUE)>>}),
     Table({<<<<"start", b1>>, F("start", b1, 1, s2, TRUE)>>,
            <<<<"start", b2>>, F("start", b2, 1, s1, TRUE)>>}),
     Table({<<<<"start", b1>>, F("start", b1, 1, NoSignature, TRUE)>>,
            <<<<"stop", b1>>, F("stop", b1, 1, s1, TRUE)>>,
            <<WakeKey, F("refresh", NoBeverage, 2, s1, TRUE)>>})}
=============================================================================
