---------------------------- MODULE DriveClient ----------------------------
(***************************************************************************)
(* One request to the Drive API (drive/http.rs): the token bucket that all *)
(* requests of the daemon share, the attempts of a request, and which      *)
(* answers are worth another.  What a request asks for, and what Drive     *)
(* does about it, is said by the module that extends this one.             *)
(*                                                                         *)
(* The bucket holds whole tokens and time is not counted: any number of    *)
(* tokens may have dropped in, and a pause ends whenever it will.          *)
(***************************************************************************)
EXTENDS Integers

CONSTANTS Burst,        \* RATE_BURST
          MaxAttempts   \* MAX_ATTEMPTS

ASSUME DriveClientAssumption ==
    Burst \in Nat \ {0} /\ MaxAttempts \in Nat \ {0}

VARIABLES tokens,    \* BucketState.tokens
          stage,     \* where the request of the dispatcher stands in with_retry
          attempt    \* which attempt this is; 0 if there is no request

client == <<tokens, stage, attempt>>

Stages == {"none", "pacing", "ready"}

ClientTypeOK ==
    /\ tokens \in 0..Burst
    /\ stage \in Stages
    /\ attempt \in 0..MaxAttempts
    /\ stage = "none" <=> attempt = 0

(* How an attempt can end: json_or_err, bytes_or_err, empty_or_err and     *)
(* http_error tell them apart; a timeout and a lost connection are         *)
(* "network", no access token and a 401 "unauthorized".                    *)
Failures == {"network", "too many requests", "server error", "rate limit exceeded",
             "unauthorized", "not found", "forbidden", "undecodable"}

IsTransient(failure) ==
    failure \in {"network", "too many requests", "server error", "rate limit exceeded"}

(* Mutant: a transient failure is retried for ever.                        *)
RetryForEver(failure) == IsTransient(failure)

WorthRetrying(failure) == IsTransient(failure) /\ attempt < MaxAttempts

-----------------------------------------------------------------------------
ClientInit == tokens = Burst /\ stage = "none" /\ attempt = 0

Open  == stage' = "pacing" /\ attempt' = 1 /\ UNCHANGED tokens
Close == stage' = "none" /\ attempt' = 0 /\ UNCHANGED tokens

(* After a pause, back to the bucket.                                      *)
Retry ==
    /\ stage' = "pacing" /\ UNCHANGED tokens
    /\ attempt' = IF attempt < MaxAttempts THEN attempt + 1 ELSE attempt

(* The bucket is filled up when it is next looked at.                      *)
Refilled == tokens..Burst

(* Mutant: the bucket is not looked at.                                    *)
TakeUnchecked ==
    /\ stage = "pacing" /\ stage' = "ready"
    /\ \E t \in Refilled : tokens' = t - 1
    /\ UNCHANGED attempt

(* RateLimiter::acquire; without a token it sleeps and looks again.        *)
Acquire ==
    /\ stage = "pacing" /\ stage' = "ready"
    /\ \E t \in Refilled : t >= 1 /\ tokens' = t - 1
    /\ UNCHANGED attempt

(* A request of the poller, which shares the bucket.                       *)
OtherRequest ==
    /\ \E t \in Refilled : t >= 1 /\ tokens' = t - 1
    /\ UNCHANGED <<stage, attempt>>
=============================================================================
