------------------------------ MODULE HookClient ------------------------------
(***************************************************************************)
(* What a call of an application manager's hook comes back with: the       *)
(* generated client (internal/appmgrcli/disruption), the wrappers of the   *)
(* budget's resolver around it, and the health hook.                       *)
(*                                                                         *)
(* A reply is a status code (NoAnswer when the connection fails, times out *)
(* or the media type is unknown), the Retry-After header, and whether the  *)
(* body can be read.  An error is a word; those that quote the header      *)
(* differ with it, because a changed reason is a changed status.           *)
(***************************************************************************)
EXTENDS Integers

NoAnswer == 0
RetryAfters == {"absent", "soon", "later", "garbage"}
ReplyType == [code : Nat, retryAfter : RetryAfters, body : BOOLEAN]

Endpoints == {"prepare", "ready", "terminate"}

\* The codes an endpoint's reader knows; every other one is a Default response.
Declared == [prepare |-> {200, 424, 425}, ready |-> {200, 425}, terminate |-> {200}]

Succeeds(kind) == [ok |-> TRUE, kind |-> kind]
Fails(kind) == [ok |-> FALSE, kind |-> kind]

\* readResponse of a Status425: a header that is no number is an error of its own.
ReadRetryAfter(reply) ==
    IF reply.retryAfter = "garbage" THEN Fails("InvalidType") ELSE Fails("Status425")

\* readResponse of a Default: the body is read, and success is any 2XX.
ReadDefault(reply) ==
    IF ~reply.body THEN Fails("Unreadable")
    ELSE IF reply.code \div 100 = 2 THEN Succeeds("Default") ELSE Fails("Default")

\* ReadResponse of the three readers.
ReadResponse(endpoint, reply) ==
    IF reply.code \notin Declared[endpoint] THEN ReadDefault(reply)
    ELSE IF reply.code = 200 THEN Succeeds("OK")
    ELSE IF reply.code = 424 THEN Fails("FailedDependency") ELSE ReadRetryAfter(reply)

\* PrepareApplication, CheckReadiness, TerminateDisruption: a success that is not
\* the declared one is an APIError.
Submit(endpoint, reply) ==
    IF reply.code = NoAnswer THEN Fails("NoAnswer")
    ELSE LET result == ReadResponse(endpoint, reply) IN
         IF result.ok /\ result.kind # "OK" THEN Fails("APIError") ELSE result

RetryReason == [absent |-> "retry in 0 seconds", soon |-> "retry soon", later |-> "retry late"]

\* The error of CallPrepareHook, CallReadyHook and CallTerminateHook, "" if none.
HookError(endpoint, reply) ==
    LET result == Submit(endpoint, reply) IN
    IF result.ok THEN ""
    ELSE IF result.kind = "Status425" THEN RetryReason[reply.retryAfter] ELSE result.kind

\* The label under which the wrappers count a call: 200 unless the error is the
\* runtime's own APIError.
CountedCode(endpoint, reply) ==
    IF Submit(endpoint, reply).kind = "APIError" THEN reply.code ELSE 200

\* CallHealthHook, which talks HTTP itself.
HealthError(reply) ==
    IF reply.code = NoAnswer THEN "NoAnswer"
    ELSE IF ~reply.body THEN "Unreadable"
    ELSE IF reply.code >= 200 /\ reply.code < 300 THEN "" ELSE "non 2XX"

HookReasons == {"FailedDependency", "InvalidType", "Unreadable", "Default", "NoAnswer",
                "APIError", "retry in 0 seconds", "retry soon", "retry late", "non 2XX"}
=============================================================================
