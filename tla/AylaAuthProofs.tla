--------------------------- MODULE AylaAuthProofs ---------------------------
(***************************************************************************)
(* Theorems about AylaAuth, for any number of requests, retries and tokens. *)
(* Whoever renews the token holds the lock and found the token gone or       *)
(* spent; nobody else touches it, so it is still so when the new one comes.  *)
(***************************************************************************)
EXTENDS AylaAuth, TLAPS

\* The request that renews is the holder of the lock.
LockHeld == \A c \in Requests : pc[c] \in Renewals <=> lock = c

\* Tokens are numbered as they were issued.
Numbered ==
    /\ token <= issued
    /\ spent \subseteq 1 .. issued
    /\ \A c \in Requests : used[c] <= issued /\ first[c] <= issued

\* What has expired or was refused is known to be spent.
SpentKnown ==
    /\ late => token \in spent
    /\ \A c \in Requests :
        /\ pc[c] \in Renewals => token = 0 \/ token \in spent
        /\ pc[c] = "rejected" =>
            ~again[c] /\ first[c] = used[c] /\ used[c] \in {0} \cup spent

\* Once a request has been given another chance, the token it was refused with
\* is gone for good.
MovedOn ==
    \A c \in Requests :
        ~again[c] /\ pc[c] \notin Over \cup {"rejected"} =>
            token = 0 \/ token # first[c]

IInv ==
    TypeOK /\ LockHeld /\ Numbered /\ SpentKnown /\ MovedOn
        /\ RefusedTokenNotReused

\* The two halves of the type invariant.
RequestTypes ==
    /\ pc \in [Requests -> Over \cup Waits \cup Renewals \cup {"asking", "backoff"}]
    /\ used \in [Requests -> Nat]
    /\ first \in [Requests -> Nat]
    /\ again \in [Requests -> BOOLEAN]
    /\ tries \in [Requests -> 0 .. Retries]
    /\ result \in [Requests -> Results]

LeaseTypes ==
    /\ token \in Nat
    /\ late \in BOOLEAN /\ refresh \in BOOLEAN
    /\ lock \in Requests \cup {NoRequest}
    /\ issued \in Nat
    /\ spent \subseteq Nat
    /\ passwordOK \in BOOLEAN

\* The halves make up the type invariant.
LEMMA TypeParts == TypeOK <=> RequestTypes /\ LeaseTypes
  BY DEF TypeOK, RequestTypes, LeaseTypes

---------------------------------------------------------------------------
(* The invariant. *)

\* The invariant holds initially.
LEMMA InitIInv == Init => IInv
  <1> SUFFICES ASSUME Init
               PROVE  IInv
    OBVIOUS
  <1> USE DEF Init, Over, NoToken
  <1>1. RequestTypes /\ LeaseTypes
    <2>1. RequestTypes
      BY AuthAssumption DEF RequestTypes, Results
    <2>2. token = 0 /\ issued = 0 /\ 0 \in Nat
      OBVIOUS
    <2>3. LeaseTypes
      BY <2>2, Zenon DEF LeaseTypes
    <2>4. QED
      BY <2>1, <2>3
  <1>2. LockHeld
    BY AuthAssumption DEF LockHeld, Renewals
  <1>3. Numbered /\ SpentKnown
    <2>1. token = 0 /\ issued = 0 /\ spent = {} /\ late = FALSE
      OBVIOUS
    <2>2. \A c \in Requests : used[c] = 0 /\ first[c] = 0 /\ pc[c] = "idle"
      OBVIOUS
    <2>3. Numbered
      <3>1. spent \subseteq 1 .. issued
        BY <2>1, Zenon
      <3>2. QED
        BY <2>1, <2>2, <3>1 DEF Numbered
    <2>4. SpentKnown
      BY <2>1, <2>2 DEF SpentKnown, Renewals
    <2>5. QED
      BY <2>3, <2>4
  <1>4. MovedOn /\ RefusedTokenNotReused
    BY DEF MovedOn, RefusedTokenNotReused
  <1>5. QED
    BY <1>1, <1>2, <1>3, <1>4, TypeParts DEF IInv

\* A call, which may find the token good.
LEMMA CallInv == ASSUME IInv, NEW c \in Requests, Call(c) PROVE IInv'
  <1> USE DEF IInv, Call, SendWith, Goes, lease
  <1>1. TypeOK'
    <2>1. pc' \in [Requests -> Over \cup Waits \cup Renewals \cup {"asking", "backoff"}]
      BY DEF TypeOK, Waits
    <2>2. used' \in [Requests -> Nat] /\ tries' \in [Requests -> 0 .. Retries]
      BY AuthAssumption DEF TypeOK
    <2>3. again' \in [Requests -> BOOLEAN] /\ result' \in [Requests -> Results]
      BY DEF TypeOK, Results
    <2>4. QED
      BY <2>1, <2>2, <2>3 DEF TypeOK
  <1>2. LockHeld'
    BY DEF TypeOK, LockHeld, Over, Renewals
  <1>3. Numbered' /\ SpentKnown'
    BY DEF TypeOK, Numbered, SpentKnown, Renewals
  <1>4. MovedOn' /\ RefusedTokenNotReused'
    BY DEF TypeOK, MovedOn, RefusedTokenNotReused
  <1>5. QED
    BY <1>1, <1>2, <1>3, <1>4

\* The answers to a data request.
LEMMA AsksInv == ASSUME IInv, NEW c \in Requests, Asks(c) PROVE IInv'
  <1> USE DEF IInv
  <1>1. ASSUME NEW o \in {"ok", "failed", "limited"}, Answered(c, o)
        PROVE  IInv'
    <2> USE <1>1 DEF Answered, Ends, Goes, request, lease
    <2>1. TypeOK'
      BY DEF TypeOK, Over, Results
    <2>2. LockHeld'
      BY DEF TypeOK, LockHeld, Renewals
    <2>3. Numbered' /\ SpentKnown'
      BY DEF TypeOK, Numbered, SpentKnown, Renewals
    <2>4. MovedOn' /\ RefusedTokenNotReused'
      BY DEF TypeOK, MovedOn, RefusedTokenNotReused, Over
    <2>5. QED
      BY <2>1, <2>2, <2>3, <2>4
  <1>2. CASE Transient(c)
    <2> USE <1>2 DEF Transient, Ends, Goes, lease
    <2>1. TypeOK'
      BY AuthAssumption DEF TypeOK, Over, Results
    <2>2. LockHeld'
      BY DEF TypeOK, LockHeld, Renewals
    <2>3. Numbered' /\ SpentKnown'
      BY DEF TypeOK, Numbered, SpentKnown, Renewals
    <2>4. MovedOn' /\ RefusedTokenNotReused'
      BY DEF TypeOK, MovedOn, RefusedTokenNotReused, Over
    <2>5. QED
      BY <2>1, <2>2, <2>3, <2>4
  <1>3. CASE BackoffEnds(c)
    <2> USE <1>3 DEF BackoffEnds, SendWith, Goes, lease
    <2>1. TypeOK'
      BY DEF TypeOK
    <2>2. LockHeld'
      BY DEF TypeOK, LockHeld, Renewals
    <2>3. Numbered' /\ SpentKnown'
      BY DEF TypeOK, Numbered, SpentKnown, Renewals
    <2>4. MovedOn' /\ RefusedTokenNotReused'
      BY DEF TypeOK, MovedOn, RefusedTokenNotReused, Over, NoToken
    <2>5. QED
      BY <2>1, <2>2, <2>3, <2>4
  <1>4. CASE Refused(c)
    <2> USE <1>4 DEF Refused, Ends, Goes
    <2>1. TypeOK'
      <3>1. pc' \in [Requests -> Over \cup Waits \cup Renewals \cup {"asking", "backoff"}]
        BY DEF TypeOK, Over, Waits
      <3>2. first' \in [Requests -> Nat] /\ tries' \in [Requests -> 0 .. Retries]
        BY AuthAssumption DEF TypeOK
      <3>3. again' \in [Requests -> BOOLEAN] /\ result' \in [Requests -> Results]
        BY DEF TypeOK, Results
      <3>4. spent' \subseteq Nat
        <4>1. used[c] \in Nat /\ spent \subseteq Nat
          BY DEF TypeOK
        <4>2. spent' = spent \cup ({used[c]} \ {NoToken})
          OBVIOUS
        <4>3. QED
          BY <4>1, <4>2, Zenon
      <3>5. QED
        BY <3>1, <3>2, <3>3, <3>4 DEF TypeOK
    <2>2. LockHeld'
      BY DEF TypeOK, LockHeld, Renewals
    <2>3. Numbered'
      <3>1. spent' \subseteq 1 .. issued'
        <4>1. used[c] \in Nat /\ used[c] <= issued /\ issued \in Nat
          BY DEF TypeOK, Numbered
        <4>2. used[c] # NoToken => used[c] \in 1 .. issued
          BY <4>1 DEF NoToken
        <4>3. QED
          BY <4>2 DEF Numbered
      <3>2. \A d \in Requests : used'[d] <= issued' /\ first'[d] <= issued'
        BY DEF TypeOK, Numbered
      <3>3. QED
        BY <3>1, <3>2 DEF Numbered
    <2>4. SpentKnown'
      BY DEF TypeOK, SpentKnown, Renewals, NoToken
    <2>5. MovedOn' /\ RefusedTokenNotReused'
      BY DEF TypeOK, MovedOn, RefusedTokenNotReused, Over
    <2>6. QED
      BY <2>1, <2>2, <2>3, <2>4, <2>5
  <1>5. QED
    BY <1>1, <1>2, <1>3, <1>4 DEF Asks

\* Taking the lock.
LEMMA LockedInv == ASSUME IInv, NEW c \in Requests, Locked(c) PROVE IInv'
  <1> USE DEF IInv
  <1>1. CASE Ensure(c)
    <2> USE <1>1 DEF Ensure, BeginRenewal, SendWith, Goes, lease
    <2>1. TypeOK'
      BY DEF TypeOK, Renewals
    <2>2. LockHeld'
      BY AuthAssumption DEF TypeOK, LockHeld, Renewals
    <2>3. Numbered'
      BY DEF TypeOK, Numbered
    <2>4. SpentKnown'
      BY DEF TypeOK, SpentKnown, Renewals, Fresh, NoToken
    <2>5. MovedOn' /\ RefusedTokenNotReused'
      BY DEF TypeOK, MovedOn, RefusedTokenNotReused, Over, NoToken
    <2>6. QED
      BY <2>1, <2>2, <2>3, <2>4, <2>5
  <1>2. CASE Reauthenticate(c)
    <2> USE <1>2 DEF Reauthenticate, BeginRenewal, SendWith, Goes
    <2>1. TypeOK'
      <3>1. pc' \in [Requests -> Over \cup Waits \cup Renewals \cup {"asking", "backoff"}]
        BY DEF TypeOK, Renewals, Waits
      <3>2. used' \in [Requests -> Nat]
        BY DEF TypeOK
      <3>3. token' \in Nat /\ (late' = late \/ late' = FALSE)
        BY DEF TypeOK, NoToken
      <3>4. late' \in BOOLEAN
        BY <3>3, Zenon DEF TypeOK
      <3>5. lock' \in Requests \cup {NoRequest}
        BY DEF TypeOK
      <3>6. QED
        BY <3>1, <3>2, <3>3, <3>4, <3>5 DEF TypeOK
    <2>2. LockHeld'
      BY AuthAssumption DEF TypeOK, LockHeld, Renewals
    <2>3. Numbered'
      BY DEF TypeOK, Numbered, NoToken
    <2>4. SpentKnown'
      BY DEF TypeOK, SpentKnown, Renewals, NoToken
    <2>5. MovedOn'
      BY DEF TypeOK, MovedOn, SpentKnown, Over, NoToken
    <2>6. RefusedTokenNotReused'
      BY DEF TypeOK, SpentKnown, RefusedTokenNotReused, NoToken
    <2>7. QED
      BY <2>1, <2>2, <2>3, <2>4, <2>5, <2>6
  <1>3. QED
    BY <1>1, <1>2 DEF Locked

\* Renewing.
LEMMA RenewsInv == ASSUME IInv, NEW c \in Requests, Renews(c) PROVE IInv'
  <1> USE DEF IInv
  <1>1. CASE TokenStored(c)
    <2> USE <1>1 DEF TokenStored, SendWith, Goes
    <2>1. TypeOK'
      <3>1. pc' \in [Requests -> Over \cup Waits \cup Renewals \cup {"asking", "backoff"}]
        BY DEF TypeOK
      <3>2. used' \in [Requests -> Nat] /\ token' \in Nat /\ issued' \in Nat
        BY DEF TypeOK
      <3>3. late' \in BOOLEAN /\ refresh' \in BOOLEAN
        BY Zenon
      <3>4. QED
        BY <3>1, <3>2, <3>3 DEF TypeOK
    <2>2. lock = c
      BY DEF LockHeld, Renewals
    <2>3. LockHeld'
      BY <2>2, AuthAssumption DEF TypeOK, LockHeld, Renewals
    <2>4. Numbered'
      BY DEF TypeOK, Numbered
    <2>5. SpentKnown'
      BY <2>2, <2>3, AuthAssumption DEF TypeOK, SpentKnown, LockHeld
    <2>6. MovedOn'
      BY DEF TypeOK, MovedOn, Numbered
    <2>7. RefusedTokenNotReused'
      BY DEF TypeOK, Numbered, RefusedTokenNotReused
    <2>8. QED
      BY <2>1, <2>3, <2>4, <2>5, <2>6, <2>7
  <1>2. CASE RefreshRefused(c) \/ LoginStep(c)
    <2> USE <1>2 DEF RefreshRefused, LoginStep, Goes, request, lease
    <2>1. TypeOK'
      BY DEF TypeOK, Renewals
    <2>2. LockHeld'
      BY DEF TypeOK, LockHeld, Renewals
    <2>3. Numbered'
      BY DEF TypeOK, Numbered
    <2>4. SpentKnown'
      BY DEF TypeOK, SpentKnown, Renewals
    <2>5. MovedOn' /\ RefusedTokenNotReused'
      BY DEF TypeOK, MovedOn, RefusedTokenNotReused, Over
    <2>6. QED
      BY <2>1, <2>2, <2>3, <2>4, <2>5
  <1>3. ASSUME NEW o \in {"failed", "limited"},
               PasswordRefused(c) \/ RenewalFails(c, o)
        PROVE  IInv'
    <2> USE <1>3 DEF PasswordRefused, RenewalFails, Ends, Goes, request, lease
    <2>1. TypeOK'
      BY DEF TypeOK, Over, Results
    <2>2. lock = c
      BY DEF LockHeld, Renewals
    <2>3. LockHeld'
      BY <2>2, AuthAssumption DEF TypeOK, LockHeld, Renewals
    <2>4. Numbered'
      BY DEF TypeOK, Numbered
    <2>5. SpentKnown'
      BY DEF TypeOK, SpentKnown, Renewals
    <2>6. MovedOn' /\ RefusedTokenNotReused'
      BY DEF TypeOK, MovedOn, RefusedTokenNotReused, Over
    <2>7. QED
      BY <2>1, <2>3, <2>4, <2>5, <2>6
  <1>4. QED
    BY <1>1, <1>2, <1>3 DEF Renews

\* Every step keeps the invariant.
LEMMA NextIInv == IInv /\ [Next]_vars => IInv'
  <1> SUFFICES ASSUME IInv, [Next]_vars
               PROVE  IInv'
    OBVIOUS
  <1> USE DEF IInv
  <1>1. CASE Expire
    <2> USE <1>1 DEF Expire, Fresh, NoToken, request
    <2>1. TypeOK' /\ LockHeld'
      BY DEF TypeOK, LockHeld
    <2>2. Numbered' /\ SpentKnown'
      BY DEF TypeOK, Numbered, SpentKnown
    <2>3. MovedOn' /\ RefusedTokenNotReused'
      BY DEF MovedOn, RefusedTokenNotReused
    <2>4. QED
      BY <2>1, <2>2, <2>3
  <1>2. CASE ChangePassword \/ UNCHANGED vars
    <2> USE <1>2 DEF ChangePassword, vars, request, lease
    <2>1. TypeOK' /\ LockHeld'
      BY DEF TypeOK, LockHeld
    <2>2. Numbered' /\ SpentKnown'
      BY DEF Numbered, SpentKnown
    <2>3. MovedOn' /\ RefusedTokenNotReused'
      BY DEF MovedOn, RefusedTokenNotReused
    <2>4. QED
      BY <2>1, <2>2, <2>3
  <1>3. ASSUME NEW c \in Requests, Call(c) \/ Locked(c) \/ Renews(c) \/ Asks(c)
        PROVE  IInv'
    BY <1>3, CallInv, LockedInv, RenewsInv, AsksInv
  <1>4. QED
    BY <1>1, <1>2, <1>3 DEF Next

\* The invariant always holds.
LEMMA Invariant == Spec => []IInv
  BY InitIInv, NextIInv, PTL DEF Spec

---------------------------------------------------------------------------
(* The theorems. *)

\* The type invariant.
THEOREM AuthTypes == Spec => []TypeOK
  <1>1. IInv => TypeOK
    BY DEF IInv
  <1>2. QED
    BY <1>1, Invariant, PTL

\* A request that is repeated after a refusal never carries the refused token
\* again, however many requests renew the token meanwhile.
THEOREM NotReused == Spec => []RefusedTokenNotReused
  <1>1. IInv => RefusedTokenNotReused
    BY DEF IInv
  <1>2. QED
    BY <1>1, Invariant, PTL

\* A step of the client is a step of the lease, or leaves it alone.
LEMMA LeaseStep ==
    IInv /\ [Next]_vars =>
        [Lease!Spoil \/ Lease!Discard \/ Lease!Replace]_Lease!lvars
  <1> SUFFICES ASSUME IInv, [Next]_vars
               PROVE  [Lease!Spoil \/ Lease!Discard \/ Lease!Replace]_Lease!lvars
    OBVIOUS
  <1>1. CASE Expire
    <2>1. token \in 1 .. issued
      BY <1>1 DEF IInv, TypeOK, Numbered, Expire, Fresh, NoToken
    <2>2. Lease!Spoil
      BY <1>1, <2>1 DEF Expire, Lease!Spoil
    <2>3. QED
      BY <2>2
  <1>2. CASE ChangePassword \/ UNCHANGED vars
    BY <1>2 DEF ChangePassword, vars, lease, Lease!lvars
  <1>3. ASSUME NEW c \in Requests, Refused(c)
        PROVE  Lease!Spoil \/ UNCHANGED Lease!lvars
    <2>1. CASE used[c] = NoToken
      BY <1>3, <2>1 DEF Refused, Lease!lvars
    <2>2. CASE used[c] # NoToken
      <3>1. used[c] \in 1 .. issued
        BY <2>2 DEF IInv, TypeOK, Numbered, NoToken
      <3>2. spent' = spent \cup {used[c]}
        BY <1>3, <2>2 DEF Refused
      <3>3. QED
        BY <1>3, <3>1, <3>2 DEF Refused, Lease!Spoil
    <2>3. QED
      BY <2>1, <2>2
  <1>4. ASSUME NEW c \in Requests, Reauthenticate(c)
        PROVE  Lease!Discard \/ UNCHANGED Lease!lvars
    <2>1. CASE token \notin {NoToken, used[c]}
      BY <1>4, <2>1 DEF Reauthenticate, Lease!lvars
    <2>2. CASE token = NoToken
      BY <1>4, <2>2 DEF Reauthenticate, Lease!lvars
    <2>3. CASE token = used[c] /\ token # NoToken
      <3>1. token \in spent
        BY <1>4, <2>3 DEF IInv, SpentKnown, Reauthenticate, NoToken
      <3>2. QED
        BY <1>4, <2>3, <3>1 DEF Reauthenticate, Lease!Discard, NoToken
    <2>4. QED
      BY <2>1, <2>2, <2>3
  <1>5. ASSUME NEW c \in Requests, TokenStored(c)
        PROVE  Lease!Replace
    <2>1. token = 0 \/ token \in spent
      BY <1>5 DEF IInv, SpentKnown, TokenStored, Renewals
    <2>2. QED
      BY <1>5, <2>1 DEF TokenStored, Lease!Replace
  <1>6. ASSUME NEW c \in Requests, NEW o,
               \/ Call(c) \/ Ensure(c) \/ Transient(c) \/ BackoffEnds(c)
               \/ Answered(c, o) \/ RefreshRefused(c) \/ LoginStep(c)
               \/ PasswordRefused(c) \/ RenewalFails(c, o)
        PROVE  UNCHANGED Lease!lvars
    BY <1>6 DEF Call, Ensure, Transient, BackoffEnds, Answered, RefreshRefused,
                LoginStep, PasswordRefused, RenewalFails, lease, Lease!lvars
  <1>7. QED
    BY <1>1, <1>2, <1>3, <1>4, <1>5, <1>6 DEF Next, Locked, Renews, Asks

\* A token that is still good is never given up or replaced, and a new one
\* never repeats an old one, however many requests find the token expired or
\* refused at once.
THEOREM LeaseImplemented == Spec => ImplementsTokenLease
  <1>1. Init => Lease!Init
    BY DEF Init, Lease!Init, NoToken
  <1>2. QED
    BY <1>1, LeaseStep, Invariant, PTL DEF ImplementsTokenLease, Lease!Spec, Spec

\* Credentials are reported wrong by the holder of the lock whose password was
\* refused, never because a refresh token or a later step of the login was.
THEOREM CredentialsHonest == Spec => CredentialVerdict
  <1> DEFINE Verdict ==
        \A c \in Requests :
            result'[c] = "credentials" /\ result[c] # "credentials" =>
                lock = c /\ ~passwordOK
  <1>1. IInv /\ [Next]_vars => [Verdict]_vars
    <2> SUFFICES ASSUME IInv, Next, NEW d \in Requests,
                        result'[d] = "credentials", result[d] # "credentials"
                 PROVE  lock = d /\ ~passwordOK
      OBVIOUS
    <2> USE DEF IInv, TypeOK, Goes, Ends
    <2>1. CASE Expire \/ ChangePassword
      BY <2>1 DEF Expire, ChangePassword
    <2>2. ASSUME NEW c \in Requests, Call(c) \/ Locked(c)
          PROVE  FALSE
      BY <2>2 DEF Call, Locked, Ensure, Reauthenticate
    <2>3. ASSUME NEW c \in Requests, Asks(c)
          PROVE  FALSE
      BY <2>3 DEF Asks, Answered, Transient, BackoffEnds, Refused
    <2>4. ASSUME NEW c \in Requests, Renews(c)
          PROVE  lock = d /\ ~passwordOK
      <3>1. CASE PasswordRefused(c)
        BY <3>1 DEF PasswordRefused, LockHeld, Renewals
      <3>2. CASE ~PasswordRefused(c)
        BY <2>4, <3>2 DEF Renews, TokenStored, RefreshRefused, LoginStep,
                          RenewalFails
      <3>3. QED
        BY <3>1, <3>2
    <2>5. QED
      BY <2>1, <2>2, <2>3, <2>4 DEF Next
  <1>2. QED
    BY <1>1, Invariant, PTL DEF Spec, CredentialVerdict
===========================================================================
