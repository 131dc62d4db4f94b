--------------------------- MODULE HookClientProofs ---------------------------
(***************************************************************************)
(* Theorems about the hook client, for every reply: what counts as yes,    *)
(* and what the metrics say of a no.                                       *)
(***************************************************************************)
EXTENDS HookClient, TLAPS

\* What the readers of the three endpoints can return, by status code.
LEMMA ReadResponseResult ==
    ASSUME NEW endpoint \in Endpoints, NEW reply \in ReplyType, reply.code # NoAnswer
    PROVE  LET result == ReadResponse(endpoint, reply) IN
           /\ reply.code = 200 => result.ok = TRUE /\ result.kind = "OK"
           /\ reply.code # 200 =>
                 \/ reply.code \div 100 = 2 /\ result.ok = TRUE /\ result.kind = "Default"
                 \/ result.ok = FALSE
                    /\ result.kind \in {"FailedDependency", "InvalidType", "Status425",
                                        "Unreadable", "Default"}
<1>1. reply.code \in Nat
  BY DEF ReplyType
<1>2. Declared[endpoint] \subseteq {200, 424, 425} /\ 200 \in Declared[endpoint]
  BY DEF Declared, Endpoints
<1>3. CASE reply.code \notin Declared[endpoint]
  BY <1>2, <1>3 DEF ReadResponse, ReadDefault, Succeeds, Fails
<1>4. CASE reply.code \in Declared[endpoint]
  BY <1>2, <1>4 DEF ReadResponse, ReadRetryAfter, Succeeds, Fails
<1> QED BY <1>3, <1>4

\* A call succeeds on 200 alone; any other success is an APIError.
LEMMA SubmitResult ==
    ASSUME NEW endpoint \in Endpoints, NEW reply \in ReplyType
    PROVE  LET result == Submit(endpoint, reply) IN
           /\ reply.code = 200 => result.ok = TRUE /\ result.kind = "OK"
           /\ reply.code # 200 =>
                 /\ result.ok = FALSE
                 /\ result.kind \in {"FailedDependency", "InvalidType", "Status425", "Unreadable",
                                     "Default", "NoAnswer", "APIError"}
                 /\ result.kind = "APIError" => reply.code \div 100 = 2
<1>1. CASE reply.code = NoAnswer
  BY <1>1 DEF Submit, NoAnswer, Fails
<1>2. CASE reply.code # NoAnswer
  <2> DEFINE result == ReadResponse(endpoint, reply)
  <2>1. /\ reply.code = 200 => result.ok = TRUE /\ result.kind = "OK"
        /\ reply.code # 200 =>
              \/ reply.code \div 100 = 2 /\ result.ok = TRUE /\ result.kind = "Default"
              \/ result.ok = FALSE
                 /\ result.kind \in {"FailedDependency", "InvalidType", "Status425",
                                     "Unreadable", "Default"}
    BY <1>2, ReadResponseResult
  <2>2. Submit(endpoint, reply) =
            IF result.ok /\ result.kind # "OK" THEN Fails("APIError") ELSE result
    BY <1>2 DEF Submit
  <2> HIDE DEF result
  <2>3. CASE reply.code = 200
    BY <2>1, <2>2, <2>3
  <2>4. CASE reply.code # 200 /\ result.ok = TRUE
    BY <2>1, <2>2, <2>4 DEF Fails
  <2>5. CASE reply.code # 200 /\ result.ok = FALSE
    BY <2>1, <2>2, <2>5
  <2> QED BY <2>1, <2>3, <2>4, <2>5
<1> QED BY <1>1, <1>2

\* A Status425 comes with a header that is absent or a number.
LEMMA RetryReasons ==
    ASSUME NEW endpoint \in Endpoints, NEW reply \in ReplyType,
           Submit(endpoint, reply).kind = "Status425"
    PROVE  RetryReason[reply.retryAfter] \in HookReasons /\ RetryReason[reply.retryAfter] # ""
<1>1. reply.retryAfter # "garbage"
  BY DEF Submit, ReadResponse, ReadRetryAfter, ReadDefault, Succeeds, Fails
<1>2. reply.retryAfter \in {"absent", "soon", "later"}
  BY <1>1 DEF ReplyType, RetryAfters
<1>3. CASE reply.retryAfter = "absent"
  BY <1>3 DEF RetryReason, HookReasons
<1>4. CASE reply.retryAfter = "soon"
  BY <1>4 DEF RetryReason, HookReasons
<1>5. CASE reply.retryAfter = "later"
  BY <1>5 DEF RetryReason, HookReasons
<1> QED BY <1>2, <1>3, <1>4, <1>5

\* An error is one of the words a status can give as its reason.
LEMMA HookErrorType ==
    ASSUME NEW endpoint \in Endpoints, NEW reply \in ReplyType
    PROVE  HookError(endpoint, reply) \in HookReasons \cup {""}
<1>1. CASE Submit(endpoint, reply).ok
  BY <1>1 DEF HookError
<1>2. CASE Submit(endpoint, reply).kind = "Status425" /\ ~Submit(endpoint, reply).ok
  <2>1. reply.code # 200
    BY <1>2, SubmitResult
  <2>2. HookError(endpoint, reply) = RetryReason[reply.retryAfter]
    BY <1>2 DEF HookError
  <2> QED BY <1>2, <2>2, RetryReasons
<1>3. CASE Submit(endpoint, reply).kind # "Status425" /\ ~Submit(endpoint, reply).ok
  <2>1. reply.code # 200
    BY <1>3, SubmitResult
  <2> QED BY <1>3, <2>1, SubmitResult DEF HookError, HookReasons
<1> QED BY <1>1, <1>2, <1>3

LEMMA HealthErrorType ==
    ASSUME NEW reply \in ReplyType PROVE HealthError(reply) \in HookReasons \cup {""}
  BY DEF HealthError, HookReasons

\* A v2 hook says yes with 200 and in no other way (CallPrepareHook, CallReadyHook,
\* CallTerminateHook): an application manager that answers 204 to terminate keeps
\* the finalizer.
THEOREM HookAccepts ==
    ASSUME NEW endpoint \in Endpoints, NEW reply \in ReplyType
    PROVE  HookError(endpoint, reply) = "" <=> reply.code = 200
<1>1. ASSUME reply.code = 200 PROVE HookError(endpoint, reply) = ""
  BY <1>1, SubmitResult DEF HookError
<1>2. ASSUME reply.code # 200 PROVE HookError(endpoint, reply) # ""
  <2>1. Submit(endpoint, reply).ok = FALSE
    BY <1>2, SubmitResult
  <2>2. CASE Submit(endpoint, reply).kind = "Status425"
    <3>1. HookError(endpoint, reply) = RetryReason[reply.retryAfter]
      BY <2>1, <2>2 DEF HookError
    <3> QED BY <2>2, <3>1, RetryReasons
  <2>3. CASE Submit(endpoint, reply).kind # "Status425"
    BY <1>2, <2>1, <2>3, SubmitResult DEF HookError
  <2> QED BY <2>2, <2>3
<1> QED BY <1>1, <1>2

\* The health hook takes every 2XX with a readable body for a yes (CallHealthHook).
THEOREM HealthAccepts ==
    ASSUME NEW reply \in ReplyType
    PROVE  HealthError(reply) = "" <=> reply.code \in 200..299 /\ reply.body
  BY DEF HealthError, ReplyType, NoAnswer

\* "Total number of request by HTTP status code" (metrics.go): whatever an
\* application manager refuses with, and when it does not answer at all, the call
\* is counted under 200.
THEOREM RefusalsCountAs200 ==
    ASSUME NEW endpoint \in Endpoints, NEW reply \in ReplyType, reply.code \notin 200..299
    PROVE  CountedCode(endpoint, reply) = 200
<1>1. reply.code \in Nat
  BY DEF ReplyType
<1>2. reply.code \div 100 # 2
  BY <1>1
<1>3. reply.code # 200
  BY <1>1
<1>4. Submit(endpoint, reply).kind # "APIError"
  BY <1>2, <1>3, SubmitResult
<1> QED BY <1>4 DEF CountedCode
=============================================================================
