------------------------------ MODULE AylaAuth ------------------------------
(***************************************************************************)
(* Requests to the cloud and the access token they share (ayla_client.py):   *)
(* a request makes sure of a token, is sent, retried after a transient       *)
(* failure, and once more with another token when the cloud refuses the one  *)
(* it used.  The token is renewed under a lock, by the refresh token or,     *)
(* without a usable one, by a login: password, JWT, sign-on.                 *)
(*                                                                         *)
(* The retries inside an authentication request change nothing but time and *)
(* are part of its answer.  A token lives longer than the 30 seconds        *)
(* async_ensure_auth sets aside.                                            *)
(***************************************************************************)
EXTENDS Naturals

CONSTANTS
    Requests,    \* the requests that may be under way at a time
    NoRequest,
    Retries,     \* CLOUD_HTTP_RETRY_COUNT
    MaxTokens    \* bound on the tokens the cloud issues

ASSUME AuthAssumption ==
    /\ NoRequest \notin Requests
    /\ Retries \in Nat
    /\ MaxTokens \in Nat

VARIABLES
    pc,          \* the await of each request
    used,        \* the token it was last sent with
    first,       \* history: the token that was refused
    again,       \* a refusal may still be answered by a new token
    tries,       \* transient failures so far
    result,      \* what the caller got
    token,       \* _access_token, 0 without one
    late,        \* it is within 30 seconds of _expires_at
    refresh,     \* there is a refresh token
    lock,        \* the holder of _auth_lock
    issued,      \* tokens the cloud has issued
    spent,       \* history: tokens expired or refused
    passwordOK   \* the stored password is the account's

request == <<used, first, again, tries>>
lease   == <<token, late, refresh, issued, spent>>
vars    == <<pc, request, result, lease, lock, passwordOK>>

NoToken  == 0
Waits    == {"ensuring", "rejected"}
Renewals == {"refreshing", "password", "jwt", "sso"}
Results  == {"none", "ok", "failed", "limited", "unauthorized", "credentials"}
Over     == {"idle", "done"}

Fresh == token # NoToken /\ ~late

Goes(c, location) == pc' = [pc EXCEPT ![c] = location]

---------------------------------------------------------------------------
(* A request, _request_json. *)

\* The request goes out with the token of the moment.
SendWith(c, t) ==
    /\ Goes(c, "asking")
    /\ used' = [used EXCEPT ![c] = t]

Ends(c, outcome) ==
    /\ Goes(c, "done")
    /\ result' = [result EXCEPT ![c] = outcome]

\* async_ensure_auth before it waits for the lock.
Call(c) ==
    /\ pc[c] \in Over
    /\ IF Fresh THEN SendWith(c, token)
       ELSE Goes(c, "ensuring") /\ UNCHANGED used
    /\ again' = [again EXCEPT ![c] = TRUE]
    /\ tries' = [tries EXCEPT ![c] = 0]
    /\ result' = [result EXCEPT ![c] = "none"]
    /\ UNCHANGED <<first, lease, lock, passwordOK>>

\* An answer that is final: success, 429, or any other failure.
Answered(c, outcome) ==
    /\ pc[c] = "asking"
    /\ outcome = "ok" => used[c] # NoToken
    /\ Ends(c, outcome)
    /\ UNCHANGED <<request, lease, lock, passwordOK>>

\* Faulty: one attempt too many.
TransientOnceMore(c) ==
    /\ pc[c] = "asking"
    /\ IF tries[c] <= Retries
       THEN /\ Goes(c, "backoff")
            /\ tries' = [tries EXCEPT ![c] = tries[c] + 1]
            /\ UNCHANGED result
       ELSE Ends(c, "failed") /\ UNCHANGED tries
    /\ UNCHANGED <<used, first, again, lease, lock, passwordOK>>

\* A transient status, a timeout or a network error.
Transient(c) ==
    /\ pc[c] = "asking"
    /\ IF tries[c] < Retries
       THEN /\ Goes(c, "backoff")
            /\ tries' = [tries EXCEPT ![c] = tries[c] + 1]
            /\ UNCHANGED result
       ELSE Ends(c, "failed") /\ UNCHANGED tries
    /\ UNCHANGED <<used, first, again, lease, lock, passwordOK>>

\* The next attempt reads the token again without making sure of it.
BackoffEnds(c) ==
    /\ pc[c] = "backoff"
    /\ SendWith(c, token)
    /\ UNCHANGED <<first, again, tries, result, lease, lock, passwordOK>>

\* 401 or 403: once, another token is tried.
Refused(c) ==
    /\ pc[c] = "asking"
    /\ spent' = spent \cup ({used[c]} \ {NoToken})
    /\ IF again[c]
       THEN /\ Goes(c, "rejected")
            /\ first' = [first EXCEPT ![c] = used[c]]
            /\ again' = [again EXCEPT ![c] = FALSE]
            /\ tries' = [tries EXCEPT ![c] = 0]
            /\ UNCHANGED result
       ELSE Ends(c, "unauthorized") /\ UNCHANGED <<first, again, tries>>
    /\ UNCHANGED <<used, token, late, refresh, issued, lock, passwordOK>>

---------------------------------------------------------------------------
(* Renewal, under the lock. *)

BeginRenewal(c) ==
    /\ lock' = c
    /\ Goes(c, IF refresh THEN "refreshing" ELSE "password")

\* Faulty: the token is not looked at again under the lock.
EnsureUnchecked(c) ==
    /\ pc[c] = "ensuring" /\ lock = NoRequest
    /\ BeginRenewal(c)
    /\ UNCHANGED <<request, result, lease, passwordOK>>

\* async_ensure_auth: another request may have renewed the token meanwhile.
Ensure(c) ==
    /\ pc[c] = "ensuring" /\ lock = NoRequest
    /\ IF Fresh THEN SendWith(c, token) /\ UNCHANGED lock
       ELSE BeginRenewal(c) /\ UNCHANGED used
    /\ UNCHANGED <<first, again, tries, result, lease, passwordOK>>

\* Faulty: a token that has not expired is taken for another one.
ReauthenticateUnlessFresh(c) ==
    /\ pc[c] = "rejected" /\ lock = NoRequest
    /\ IF Fresh
       THEN SendWith(c, token) /\ UNCHANGED <<token, late, lock>>
       ELSE /\ token' = NoToken
            /\ late' = FALSE
            /\ BeginRenewal(c)
            /\ UNCHANGED used
    /\ UNCHANGED <<first, again, tries, result, refresh, issued, spent,
                   passwordOK>>

\* _async_reauthenticate_after_rejection: the request is repeated from its
\* start with a token another request got, or after a renewal.
Reauthenticate(c) ==
    /\ pc[c] = "rejected" /\ lock = NoRequest
    /\ IF token \notin {NoToken, used[c]}
       THEN /\ IF late THEN Goes(c, "ensuring") /\ UNCHANGED used
               ELSE SendWith(c, token)
            /\ UNCHANGED <<token, late, lock>>
       ELSE /\ token' = NoToken
            /\ late' = FALSE
            /\ BeginRenewal(c)
            /\ UNCHANGED used
    /\ UNCHANGED <<first, again, tries, result, refresh, issued, spent,
                   passwordOK>>

\* _store_ayla_tokens, and the request is sent.  A refresh may bring no new
\* refresh token and keeps the one there is; a sign-on without one leaves none.
TokenStored(c) ==
    /\ pc[c] \in {"refreshing", "sso"} /\ issued < MaxTokens
    /\ issued' = issued + 1
    /\ token' = issued + 1
    /\ late' = FALSE
    /\ refresh' \in IF pc[c] = "sso" THEN BOOLEAN ELSE {TRUE}
    /\ lock' = NoRequest
    /\ SendWith(c, issued + 1)
    /\ UNCHANGED <<first, again, tries, result, spent, passwordOK>>

\* Faulty: a refused refresh token is reported as wrong credentials.
RefreshRefusedAsCredentials(c) ==
    /\ pc[c] = "refreshing"
    /\ Ends(c, "credentials")
    /\ lock' = NoRequest
    /\ UNCHANGED <<request, lease, passwordOK>>

\* A refused refresh token is dropped and the login takes over.
RefreshRefused(c) ==
    /\ pc[c] = "refreshing"
    /\ refresh' = FALSE
    /\ Goes(c, "password")
    /\ UNCHANGED <<request, result, token, late, issued, spent, lock, passwordOK>>

LoginStep(c) ==
    /\ \/ pc[c] = "password" /\ passwordOK /\ Goes(c, "jwt")
       \/ pc[c] = "jwt" /\ Goes(c, "sso")
    /\ UNCHANGED <<request, result, lease, lock, passwordOK>>

\* Only the password login speaks about the credentials.
PasswordRefused(c) ==
    /\ pc[c] = "password" /\ ~passwordOK
    /\ Ends(c, "credentials")
    /\ lock' = NoRequest
    /\ UNCHANGED <<request, lease, passwordOK>>

\* Faulty: the lock is kept.
RenewalFailsLocked(c, outcome) ==
    /\ pc[c] \in Renewals
    /\ Ends(c, outcome)
    /\ UNCHANGED <<request, lease, lock, passwordOK>>

\* Any other failure of any of the four requests, and 429.
RenewalFails(c, outcome) ==
    /\ pc[c] \in Renewals
    /\ Ends(c, outcome)
    /\ lock' = NoRequest
    /\ UNCHANGED <<request, lease, passwordOK>>

---------------------------------------------------------------------------
(* The environment. *)

Expire ==
    /\ Fresh
    /\ late' = TRUE
    /\ spent' = spent \cup {token}
    /\ UNCHANGED <<pc, request, result, token, refresh, issued, lock, passwordOK>>

ChangePassword ==
    /\ passwordOK' = ~passwordOK
    /\ UNCHANGED <<pc, request, result, lease, lock>>

---------------------------------------------------------------------------

Init ==
    /\ pc = [c \in Requests |-> "idle"]
    /\ used = [c \in Requests |-> NoToken]
    /\ first = [c \in Requests |-> NoToken]
    /\ again = [c \in Requests |-> TRUE]
    /\ tries = [c \in Requests |-> 0]
    /\ result = [c \in Requests |-> "none"]
    /\ token = NoToken /\ late = FALSE /\ refresh = FALSE
    /\ lock = NoRequest
    /\ issued = 0 /\ spent = {}
    /\ passwordOK \in BOOLEAN

Locked(c)  == Ensure(c) \/ Reauthenticate(c)

Renews(c) ==
    \/ TokenStored(c) \/ RefreshRefused(c) \/ LoginStep(c) \/ PasswordRefused(c)
    \/ \E o \in {"failed", "limited"} : RenewalFails(c, o)

Asks(c) ==
    \/ \E o \in {"ok", "failed", "limited"} : Answered(c, o)
    \/ Transient(c) \/ BackoffEnds(c) \/ Refused(c)

Next ==
    \/ \E c \in Requests : Call(c) \/ Locked(c) \/ Renews(c) \/ Asks(c)
    \/ Expire \/ ChangePassword

Spec == Init /\ [][Next]_vars

\* Every HTTP request has a timeout, and the lock serves its waiters in turn.
FairSpec ==
    /\ Spec
    /\ \A c \in Requests :
        WF_vars(Renews(c)) /\ WF_vars(Asks(c)) /\ SF_vars(Locked(c))

---------------------------------------------------------------------------
(* Properties. *)

TypeOK ==
    /\ pc \in [Requests -> Over \cup Waits \cup Renewals \cup {"asking", "backoff"}]
    /\ used \in [Requests -> Nat]
    /\ first \in [Requests -> Nat]
    /\ again \in [Requests -> BOOLEAN]
    /\ tries \in [Requests -> 0 .. Retries]
    /\ result \in [Requests -> Results]
    /\ token \in Nat
    /\ late \in BOOLEAN /\ refresh \in BOOLEAN
    /\ lock \in Requests \cup {NoRequest}
    /\ issued \in Nat
    /\ spent \subseteq Nat
    /\ passwordOK \in BOOLEAN

\* However many requests find the token expired or refused at once, it is
\* renewed once: a token that is still good is never given up or replaced.
Lease == INSTANCE TokenLease
ImplementsTokenLease == Lease!Spec

\* The request repeated after a refusal never carries the refused token again;
\* it may carry none, when it is sent after a transient failure while another
\* request renews the token.
RefusedTokenNotReused ==
    \A c \in Requests : pc[c] = "asking" /\ ~again[c] =>
        used[c] = NoToken \/ used[c] # first[c]

\* A caller is told that its credentials are wrong, which makes Home Assistant
\* ask the user for new ones, only when the password was refused.
CredentialVerdict ==
    [][\A c \in Requests :
        result'[c] = "credentials" /\ result[c] # "credentials" =>
            lock = c /\ ~passwordOK]_vars

\* Every request ends: retries and renewals are bounded and no one keeps the
\* lock.
RequestsEnd == \A c \in Requests : pc[c] \notin Over ~> pc[c] \in Over
===========================================================================
