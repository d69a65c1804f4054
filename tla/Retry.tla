-------------------------------- MODULE Retry --------------------------------
(***************************************************************************)
(* service/retry.rs with the classification of service/http_error.rs: one  *)
(* call of a client, as a loop of attempts with backoff in between. The    *)
(* server, the network and the caller's streaming body decide how each     *)
(* attempt ends; the loop decides whether there is another one.            *)
(***************************************************************************)
EXTENDS Naturals

CONSTANTS
    MaxNumRetries,  \* max_num_retries
    ShiftBits       \* bits of the u32 that scales the backoff

ASSUME RetryAssumption == MaxNumRetries \in Nat /\ ShiftBits \in Nat \ {0}

VARIABLES
    config,       \* the client's configuration and the request, fixed
    phase,        \* where State::call is
    attempt,      \* State.attempt: failures so far
    needs_reset,  \* ResetTracker.needs_reset of the current attempt
    body,         \* external: "fresh", or "consumed" since the last reset
    failure,      \* the error in hand between two attempts
    backoff,      \* the last backoff chosen
    result,       \* what the call returned
    sent,         \* history: number of attempts that have ended
    last,         \* history: how the last one ended
    applied       \* history: whether the server may have applied one of them

historyVars == <<sent, last, applied>>
retryVars == <<config, phase, attempt, needs_reset, body, failure, backoff, result, historyVars>>

Configs ==
    [idempotency : {"Always", "ByMethod", "Never"},
     method_idempotent : BOOLEAN,
     server_qos : {"AutomaticRetry", "Propagate429And503ToCaller"},
     body : {"Empty", "Fixed", "Streaming"}]

(* RetryService::call *)
idempotent ==
    \/ config.idempotency = "Always"
    \/ config.idempotency = "ByMethod" /\ config.method_idempotent

(* How the inner service answers an attempt: a 2xx response, a status that *)
(* HttpErrorService turns into an error, a RawClientError, or a failure    *)
(* before any request was sent (no nodes). An "aborted" attempt is a       *)
(* RawClientError whose cause is the RequestBodyError of a failed writer.  *)
Answers == {"success", "429", "429 Retry-After", "503", "500", "other status",
            "IO error", "aborted", "not sent"}

(* What send_attempt looks at in an error: the type of its cause and       *)
(* whether its kind is ErrorKind::Service. One of the inner service is     *)
(* told apart from one that the caller's body writer returned, which may   *)
(* be of any kind and have any cause: a writer may pass on what another    *)
(* client returned to it.                                                  *)
Causes == {"Throttled", "Throttled Retry-After", "Unavailable", "RawClient",
           "Remote 500", "other"}
Errors == [cause : Causes, kind : {"Service", "other"}, origin : {"inner", "body"}]
BodyErrors == {error \in Errors : error.origin = "body"}

None == << >>
Success == [response |-> TRUE]

RetryTypeOK ==
    /\ config \in Configs
    /\ phase \in {"start", "sending", "failed", "reset", "sleep", "done"}
    /\ attempt \in 0 .. MaxNumRetries + 1
    /\ needs_reset \in BOOLEAN
    /\ body \in {"fresh", "consumed"}
    /\ failure \in Errors \cup {None}
    /\ backoff \in [retry_after : BOOLEAN, exponent : 0 .. ShiftBits - 1] \cup {<< >>}
    /\ result \in Errors \cup {Success, None}
    /\ sent \in Nat
    /\ last \in Errors \cup {Success, None}
    /\ applied \in BOOLEAN

RetryInit ==
    /\ config \in Configs
    /\ phase = "start"
    /\ attempt = 0
    /\ needs_reset = FALSE
    /\ body = "fresh"
    /\ failure = None
    /\ backoff = << >>
    /\ result = None
    /\ sent = 0 /\ last = None /\ applied = FALSE

-----------------------------------------------------------------------------
(* HttpErrorService: the cause of the error an answer is turned into, and  *)
(* its kind. Only a propagated QoS error is not ErrorKind::Service.        *)
(* (ServiceError changes what the error says, not its kind.)               *)
CauseOf(answer) ==
    CASE answer = "429" -> "Throttled"
      [] answer = "429 Retry-After" -> "Throttled Retry-After"
      [] answer = "503" -> "Unavailable"
      [] answer = "500" -> "Remote 500"
      [] answer \in {"IO error", "aborted"} -> "RawClient"
      [] OTHER -> "other"

KindOf(answer) ==
    IF /\ config.server_qos = "Propagate429And503ToCaller"
       /\ answer \in {"429", "429 Retry-After", "503"}
    THEN "other"
    ELSE "Service"

ErrorOf(answer) == [cause |-> CauseOf(answer), kind |-> KindOf(answer), origin |-> "inner"]

(* Mutant: a 500 is retried whether or not the request is idempotent. *)
Retried_500_always(error) ==
    /\ error.kind = "Service"
    /\ \/ error.cause \in {"Throttled", "Throttled Retry-After", "Unavailable", "Remote 500"}
       \/ idempotent /\ error.cause = "RawClient"

(* send_attempt's choice, by the error's kind and cause, wherever it comes *)
(* from.                                                                   *)
Retried(error) ==
    /\ error.kind = "Service"
    /\ \/ error.cause \in {"Throttled", "Throttled Retry-After", "Unavailable"}
       \/ idempotent /\ error.cause \in {"RawClient", "Remote 500"}

(* send_raw and deconflict_errors: a success wins over a failed writer;    *)
(* a failed writer's own error is reported if it is what made the request  *)
(* fail.                                                                   *)
AttemptResult(answer, body_result) ==
    CASE answer = "success" -> Success
      [] answer = "aborted" /\ body_result # Success -> body_result
      [] OTHER -> ErrorOf(answer)

-----------------------------------------------------------------------------
(* The top of the loop: a new ResetTracker, a new copy of the request. *)
start_attempt ==
    /\ phase = "start"
    /\ phase' = "sending"
    /\ needs_reset' = FALSE
    /\ UNCHANGED <<config, attempt, body, failure, backoff, result, historyVars>>

(* ResetTrackingBodyWriter::write_body, once the body has been asked for. *)
write_body ==
    /\ phase = "sending" /\ config.body = "Streaming" /\ ~needs_reset
    /\ needs_reset' = TRUE
    /\ body' = "consumed"
    /\ UNCHANGED <<config, phase, attempt, failure, backoff, result, historyVars>>

(* What the server may have applied: an attempt that it was given in full  *)
(* and did not refuse with a QoS status.                                   *)
MayBeApplied(answer) == answer \in {"success", "500", "other status", "IO error"}

(* send_attempt: writer and service have both ended, the writer with       *)
(* Success or with an error. It fails only after it started, and aborts    *)
(* the request only by failing.                                            *)
finish_attempt(answer, body_result) ==
    LET outcome == AttemptResult(answer, body_result) IN
    /\ phase = "sending"
    /\ body_result # Success => needs_reset
    /\ answer = "aborted" => body_result # Success
    /\ answer = "not sent" => ~needs_reset
    /\ sent' = sent + 1 /\ last' = outcome
    /\ applied' = (applied \/ MayBeApplied(answer))
    /\ IF outcome # Success /\ Retried(outcome)
       THEN phase' = "failed" /\ failure' = outcome /\ UNCHANGED result
       ELSE phase' = "done" /\ result' = outcome /\ UNCHANGED failure
    /\ UNCHANGED <<config, attempt, needs_reset, body, backoff>>

(* Mutant: the limit is compared with the count before this failure. *)
Exhausted_late == attempt > MaxNumRetries

Exhausted == attempt + 1 > MaxNumRetries

(* prepare_for_retry: count the failure, give up past the limit... *)
give_up ==
    /\ phase = "failed"
    /\ attempt' = attempt + 1
    /\ Exhausted
    /\ phase' = "done" /\ result' = failure
    /\ UNCHANGED <<config, needs_reset, body, failure, backoff, historyVars>>

retry ==
    /\ phase = "failed"
    /\ attempt' = attempt + 1
    /\ ~Exhausted
    /\ phase' = "reset"
    /\ UNCHANGED <<config, needs_reset, body, failure, backoff, result, historyVars>>

(* Mutant: a body is reset only after an IO error, not after an answer. *)
MustReset_after_io == config.body = "Streaming" /\ needs_reset /\ failure.cause = "RawClient"

(* ...reset a body that was started, or give up if it cannot be reset...   *)
MustReset == config.body = "Streaming" /\ needs_reset

(* Mutant: the scale is taken from the limit of retries, not the attempt. *)
ChosenBackoff_constant ==
    IF failure.cause = "Throttled Retry-After"
    THEN [retry_after |-> TRUE, exponent |-> 0]
    ELSE [retry_after |-> FALSE, exponent |-> (MaxNumRetries - 1) % ShiftBits]

(* The backoff is Retry-After, or random below the slot size times         *)
(* `1 << (attempt - 1)`, whose shift is masked to the width of u32.        *)
ChosenBackoff ==
    IF failure.cause = "Throttled Retry-After"
    THEN [retry_after |-> TRUE, exponent |-> 0]
    ELSE [retry_after |-> FALSE, exponent |-> (attempt - 1) % ShiftBits]

reset(ok) ==
    /\ phase = "reset" /\ MustReset
    /\ IF ok
       THEN phase' = "sleep" /\ body' = "fresh" /\ backoff' = ChosenBackoff
            /\ UNCHANGED result
       ELSE phase' = "done" /\ result' = failure /\ UNCHANGED <<body, backoff>>
    /\ UNCHANGED <<config, attempt, needs_reset, failure, historyVars>>

no_reset ==
    /\ phase = "reset" /\ ~MustReset
    /\ phase' = "sleep" /\ backoff' = ChosenBackoff
    /\ UNCHANGED <<config, attempt, needs_reset, body, failure, result, historyVars>>

(* Mutant: the sleep of a Retry-After is never woken. *)
wake_up_by_default_timer ==
    /\ phase = "sleep" /\ ~backoff.retry_after
    /\ phase' = "start"
    /\ failure' = None
    /\ UNCHANGED <<config, attempt, needs_reset, body, backoff, result, historyVars>>

(* ...and sleep. *)
wake_up ==
    /\ phase = "sleep"
    /\ phase' = "start"
    /\ failure' = None
    /\ UNCHANGED <<config, attempt, needs_reset, body, backoff, result, historyVars>>

-----------------------------------------------------------------------------
RetryNext ==
    \/ start_attempt \/ write_body
    \/ \E answer \in Answers, body_result \in BodyErrors \cup {Success} :
          finish_attempt(answer, body_result)
    \/ give_up \/ retry
    \/ \E ok \in BOOLEAN : reset(ok)
    \/ no_reset \/ wake_up

RetrySpec == RetryInit /\ [][RetryNext]_retryVars

(* Attempts end (assumed of the servers where an HTTP/2 connection that    *)
(* others keep busy does not time out), resets return, timers fire.        *)
FairRetrySpec == RetrySpec /\ WF_retryVars(RetryNext)

-----------------------------------------------------------------------------
(* A streaming body is never sent from the middle: no attempt begins with  *)
(* a body that an earlier attempt, not necessarily the last one, started   *)
(* to read and that was not reset since.                                   *)
BodyIsFresh == phase = "sending" /\ ~needs_reset => body = "fresh"

(* The request is attempted at most once plus max_num_retries times, and   *)
(* `attempt` is the number of attempts that failed.                        *)
AttemptsBounded ==
    /\ sent <= MaxNumRetries + 1
    /\ phase \in {"start", "sending"} => attempt = sent

(* A request that is not idempotent is sent again only while no attempt so *)
(* far may have been applied: each was refused with 429 or 503, or broken  *)
(* off by the failure of the caller's own body before it was complete.     *)
(* Nothing is sent again after a success, or after a 429 or 503 that the   *)
(* configuration leaves to the caller. (As the layer's comment says, and   *)
(* against builder.rs:386, a 429 or 503 is retried for every request.)     *)
ResentOnlyIfSafe ==
    [][phase = "start" /\ phase' = "sending" /\ sent > 0 =>
          /\ idempotent \/ ~applied
          /\ last # Success
          /\ config.server_qos = "Propagate429And503ToCaller" /\ last.origin = "inner" =>
                last.cause \in {"RawClient", "Remote 500"}]_retryVars

(* "with an exponentially growing backoff in between attempts"             *)
(* (lib.rs:151): a default backoff has a larger scale than a default       *)
(* backoff that came right before it.                                      *)
BackoffGrows ==
    [][phase = "reset" /\ phase' = "sleep" /\ backoff # << >>
          /\ ~backoff.retry_after /\ ~backoff'.retry_after =>
          backoff'.exponent > backoff.exponent]_retryVars

(* Every call ends. *)
CallEnds == <>(phase = "done")
=============================================================================
