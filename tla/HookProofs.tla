------------------------------ MODULE HookProofs ------------------------------
(***************************************************************************)
(* Theorems about the hooks' protocol: what a status may say, when an       *)
(* object may go, and which applications are ready at a grant.             *)
(*                                                                         *)
(* The argument.  A manager that started or is ready stays so until the     *)
(* disruption is terminated (ManagerMoves), and a status is written from   *)
(* the answers of one validation only (LegalWrite).  So what every version *)
(* of an object says of an application remains true while the object lives *)
(* (Honest), though it was said in an earlier pass or before a restart;    *)
(* and a validation that ends well has asked every application concerned   *)
(* (AllAsked).                                                             *)
(***************************************************************************)
EXTENDS NodeDisruptionProofs

-----------------------------------------------------------------------------
(* What a step does to the managers and to the answers.                    *)

\* Ready is left by the termination of that disruption alone.
LEMMA ManagerMoves ==
  ASSUME TypeOK, [Next]_vars, NEW nd \in NDs, NEW b \in ADBs
  PROVE  \/ manager'[<<nd, b>>] = manager[<<nd, b>>]
         \/ manager[<<nd, b>>] = "idle" /\ pc = "hooks"
         \/ manager[<<nd, b>>] = "preparing" /\ manager'[<<nd, b>>] = "ready"
         \/ /\ pc = "terminate" /\ nd = cur /\ <<b, "v2">> \in todo
            /\ manager'[<<nd, b>>] = "idle"
<1>0. manager \in [NDs \X ADBs -> {"idle", "preparing", "ready"}] /\ <<nd, b>> \in NDs \X ADBs
  BY DEF TypeOK
<1>1. CASE UNCHANGED manager
  BY <1>1
<1>2. ASSUME NEW c \in ADBs, CallPrepareHook(c) PROVE pc = "hooks" /\ (Prepares(c) \/ UNCHANGED manager)
  BY <1>2 DEF CallPrepareHook, Calling
<1>3. ASSUME NEW c \in ADBs, CallTerminateHook(c) \/ TerminateHookFails(c)
      PROVE  Terminating(c) /\ (UNCHANGED manager \/ ManagerSets(c, "idle"))
  BY <1>3 DEF CallTerminateHook, TerminateHookFails
<1>4. CASE \E c \in ADBs : CallPrepareHook(c)
  BY <1>0, <1>2, <1>4 DEF Prepares, ManagerSets
<1>5. CASE \E c \in ADBs : CallTerminateHook(c) \/ TerminateHookFails(c)
  <2>1. PICK c \in ADBs : CallTerminateHook(c) \/ TerminateHookFails(c)
    BY <1>5
  <2> QED BY <1>0, <1>3, <2>1 DEF Terminating, ManagerSets
<1>6. CASE \E other \in NDs, c \in ADBs : ManagerReady(other, c)
  BY <1>0, <1>6 DEF ManagerReady
<1>7. CASE /\ ~\E c \in ADBs : CallPrepareHook(c) \/ CallTerminateHook(c) \/ TerminateHookFails(c)
           /\ ~\E other \in NDs, c \in ADBs : ManagerReady(other, c)
  <2>1. CASE UNCHANGED vars
    BY <2>1 DEF vars, environment
  <2>2. CASE \E other \in NDs : Reconcile(other)
    BY <2>2 DEF Reconcile, ReconcileNotFound, AddFinalizer, WaitForRetryDate, EnterPending,
                ReconcileFinal, ReconcileError, TryTransitionToGranted, BeginTermination,
                Proceeds, Take, environment
  <2>3. CASE Work
    BY <1>7, <2>3 DEF Work, Decide, FinishTermination, CallHealthHook, CallReadyHook, CallNoHook,
                      SkipTerminate, environment
  <2>4. CASE Environment
    BY <1>7, <2>4 DEF Environment, Deliver, Restart, Tick, TimerFires, UserCreates, UserDeletes,
                      UserEditsHook, DefaultTypesArrive, environment
  <2> QED BY <1>1, <2>1, <2>2, <2>3, <2>4 DEF Next
<1> QED BY <1>4, <1>5, <1>6, <1>7

LEMMA StartedStays ==
  ASSUME TypeOK, [Next]_vars, NEW nd \in NDs, NEW b \in ADBs,
         ~(pc = "terminate" /\ nd = cur)
  PROVE  /\ manager[<<nd, b>>] = "ready" => manager'[<<nd, b>>] = "ready"
         /\ manager[<<nd, b>>] # "idle" => manager'[<<nd, b>>] # "idle"
  BY ManagerMoves

\* A ready hook that is answered without an error was answered by a manager that
\* is ready.
LEMMA ReadyMeansReady ==
  ASSUME NEW reply \in Replies, HookError("ready", reply) = "" PROVE reply.code = 200
<1>1. reply \in ReplyType /\ "ready" \in Endpoints
  BY NDAssumption DEF Endpoints
<1>2. ASSUME reply.code # 200 PROVE FALSE
  <2>1. Submit("ready", reply).ok = FALSE
    BY <1>1, <1>2, SubmitResult
  <2>2. CASE Submit("ready", reply).kind = "Status425"
    <3>1. HookError("ready", reply) = RetryReason[reply.retryAfter]
      BY <2>1, <2>2 DEF HookError
    <3> QED BY <1>1, <2>2, <3>1, RetryReasons
  <2>3. CASE Submit("ready", reply).kind # "Status425"
    BY <1>1, <1>2, <2>1, <2>3, SubmitResult DEF HookError
  <2> QED BY <2>2, <2>3
<1> QED BY <1>2

LEMMA AnsweredAdds ==
  ASSUME NEW b, NEW ok \in BOOLEAN, NEW prep \in BOOLEAN, NEW why,
         Answered(b, ok, prep, why), NEW s \in out', s \notin out
  PROVE  s.ref = b /\ s.ok = ok /\ s.prep = prep
<1>1. s = [ref |-> b, ok |-> ok, prep |-> prep, why |-> why]
  BY DEF Answered
<1> QED BY <1>1

\* Answers come from calls of hooks.
LEMMA AnswerSteps ==
  ASSUME [Next]_vars, pc = "hooks", pc' = "hooks", out' # out
  PROVE  \E b \in ADBs : \/ CallHealthHook(b) \/ CallPrepareHook(b)
                         \/ CallReadyHook(b) \/ CallNoHook(b)
<1>1. CASE UNCHANGED vars
  BY <1>1 DEF vars, scratch
<1>2. CASE \E nd \in NDs : Reconcile(nd)
  BY <1>2 DEF Reconcile, ReconcileNotFound, AddFinalizer, WaitForRetryDate, EnterPending,
              ReconcileFinal, ReconcileError, TryTransitionToGranted, BeginTermination,
              Proceeds, Take
<1>3. CASE Work
  BY <1>3 DEF Work, Decide, FinishTermination, GoIdle, SkipTerminate, CallTerminateHook,
              TerminateHookFails, Terminating
<1>4. CASE Environment
  BY <1>4 DEF Environment, Deliver, Restart, GoIdle, Tick, TimerFires, UserCreates,
              UserDeletes, UserEditsHook, DefaultTypesArrive, ManagerReady, scratch
<1> QED BY <1>1, <1>2, <1>3, <1>4 DEF Next

\* What a status added to the answers of a validation can say: that somebody
\* accepted without preparing, that the manager started or is ready, that it had
\* started by an earlier status, or, with nobody asked, that it is ready.
LEMMA AnswerMoves ==
  ASSUME TypeOK, [Next]_vars, pc = "hooks", pc' = "hooks", NEW s \in out', s \notin out
  PROVE  /\ s.ref \in ADBs
         /\ \/ ~s.prep /\ (s.ok => <<s.ref, "health">> \in todo)
            \/ s.prep /\ ~s.ok /\ manager'[<<cur, s.ref>>] # "idle"
            \/ /\ s.ok => manager[<<cur, s.ref>>] = "ready"
               /\ s.prep /\ \E t \in seen.st : t.ref = s.ref /\ t.prep
            \/ /\ <<s.ref, "v2">> \in todo
               /\ \E t \in seen.st : t.ref = s.ref /\ t.ok /\ ~t.prep
<1>1. PICK b \in ADBs : CallHealthHook(b) \/ CallPrepareHook(b) \/ CallReadyHook(b) \/ CallNoHook(b)
  BY AnswerSteps
<1>2. CASE CallHealthHook(b)
  <2>1. PICK ok \in BOOLEAN : \E why : Answered(b, ok, FALSE, why)
    BY <1>2 DEF CallHealthHook
  <2> QED BY <1>2, <2>1, AnsweredAdds DEF CallHealthHook, Calling
<1>3. CASE CallPrepareHook(b)
  <2>1. PICK reply \in Replies :
            \/ Prepares(b) /\ Answered(b, FALSE, HookError("prepare", reply) = "",
                                       HookError("prepare", reply))
            \/ Answered(b, FALSE, FALSE, HookError("prepare", reply))
    BY <1>3 DEF CallPrepareHook
  <2>2. CASE Prepares(b) /\ \E prep \in BOOLEAN : \E why : Answered(b, FALSE, prep, why)
    <3>1. cur \in NDs
      BY DEF TypeOK
    <3>2. manager'[<<cur, b>>] # "idle"
      BY <2>2, <3>1 DEF Prepares, ManagerSets, TypeOK
    <3>3. PICK prep \in BOOLEAN : \E why : Answered(b, FALSE, prep, why)
      BY <2>2
    <3>4. PICK why : Answered(b, FALSE, prep, why)
      BY <3>3
    <3>5. s.ref = b /\ s.ok = FALSE
      BY <3>4, AnsweredAdds
    <3> QED BY <3>2, <3>5
  <2>3. CASE \E why : Answered(b, FALSE, FALSE, why)
    <3>1. s.ref = b /\ s.ok = FALSE /\ s.prep = FALSE
      BY <2>3, AnsweredAdds
    <3> QED BY <3>1
  <2> QED BY <2>1, <2>2, <2>3
<1>4. CASE CallReadyHook(b)
  <2>1. PICK reply \in Replies :
            /\ reply.code = 200 => manager[<<cur, b>>] = "ready"
            /\ Answered(b, HookError("ready", reply) = "", TRUE, HookError("ready", reply))
    BY <1>4 DEF CallReadyHook
  <2>2. s.ref = b /\ s.prep = TRUE /\ s.ok = (HookError("ready", reply) = "")
    BY <2>1, AnsweredAdds
  <2>3. s.ok => manager[<<cur, s.ref>>] = "ready"
    BY <2>1, <2>2, ReadyMeansReady
  <2>4. \E t \in seen.st : t.ref = b /\ t.prep
    BY <1>4 DEF CallReadyHook, CurrentStatus
  <2> QED BY <2>2, <2>3, <2>4
<1>5. CASE CallNoHook(b)
  <2>1. \E t \in seen.st : t.ref = b /\ t.ok /\ ~t.prep
    BY <1>5 DEF CallNoHook, CurrentStatus
  <2>2. s.ref = b /\ <<b, "v2">> \in todo
    BY <1>5, AnsweredAdds DEF CallNoHook, Calling
  <2> QED BY <2>1, <2>2
<1> QED BY <1>1, <1>2, <1>3, <1>4, <1>5

\* Budgets change by the hand of their users, and by their default types.
LEMMA BudgetMoves ==
  ASSUME [Next]_vars
  PROVE  /\ UNCHANGED hook \/ \E c \in ADBs, to \in HookKinds : UserEditsHook(c, to)
         /\ UNCHANGED types \/ \E b \in ADBs \cup NDBs : DefaultTypesArrive(b)
<1>1. CASE UNCHANGED vars
  BY <1>1 DEF vars, environment
<1>2. CASE \E nd \in NDs : Reconcile(nd)
  BY <1>2 DEF Reconcile, ReconcileNotFound, AddFinalizer, WaitForRetryDate, EnterPending,
              ReconcileFinal, ReconcileError, TryTransitionToGranted, BeginTermination,
              Proceeds, Take, environment
<1>3. CASE Work
  BY <1>3 DEF Work, Decide, FinishTermination, CallHealthHook, CallPrepareHook, CallReadyHook,
              CallNoHook, Answered, SkipTerminate, CallTerminateHook, TerminateHookFails,
              Terminating, environment
<1>4. CASE Environment
  BY <1>4 DEF Environment, Deliver, Restart, Tick, TimerFires, UserCreates, UserDeletes,
              UserEditsHook, DefaultTypesArrive, ManagerReady, environment
<1> QED BY <1>1, <1>2, <1>3, <1>4 DEF Next

\* No budget gets v2 hooks after it was created.  A hook that appears between a
\* pass over the budgets and the write that follows was not called in that pass.
NoHookAppears == \A e \in HookEdits : e[2] = "v2" => e[1] = "v2"

LEMMA HookMoves ==
  ASSUME TypeOK, NoHookAppears, [Next]_vars, NEW b \in ADBs, hook'[b] = "v2"
  PROVE  hook[b] = "v2"
<1>1. CASE UNCHANGED hook
  BY <1>1
<1>2. ASSUME NEW c \in ADBs, NEW to \in HookKinds, UserEditsHook(c, to) PROVE hook[b] = "v2"
  <2>1. <<hook[c], to>> \in HookEdits /\ hook'[b] = IF b = c THEN to ELSE hook[b]
    BY <1>2 DEF UserEditsHook, TypeOK
  <2> QED BY <2>1 DEF NoHookAppears
<1> QED BY <1>1, <1>2, BudgetMoves

\* What a step of a validation does to the calls that are left: those it takes
\* away are answered.
LEMMA CallsAnswered ==
  ASSUME [Next]_vars, pc = "hooks", pc' = "hooks"
  PROVE  todo' \subseteq todo /\ \A call \in todo \ todo' : \E s \in out' : s.ref = call[1]
<1>1. CASE UNCHANGED vars
  BY <1>1 DEF vars, scratch
<1>2. CASE \E nd \in NDs : Reconcile(nd)
  BY <1>2 DEF Reconcile, ReconcileNotFound, AddFinalizer, WaitForRetryDate, EnterPending,
              ReconcileFinal, ReconcileError, TryTransitionToGranted, BeginTermination,
              Proceeds, Take
<1>3. CASE Work
  <2>1. PICK b \in ADBs : CallHealthHook(b) \/ CallPrepareHook(b) \/ CallReadyHook(b) \/ CallNoHook(b)
    BY <1>3 DEF Work, Decide, FinishTermination, GoIdle, SkipTerminate, CallTerminateHook,
                TerminateHookFails, Terminating
  <2>2. PICK ok, prep, why : Answered(b, ok, prep, why)
    BY <2>1 DEF CallHealthHook, CallPrepareHook, CallReadyHook, CallNoHook
  <2> DEFINE s == [ref |-> b, ok |-> ok, prep |-> prep, why |-> why]
  <2>3. s \in out' /\ s.ref = b
    BY <2>2 DEF Answered
  <2>4. todo' = {call \in todo : call[1] # b}
    BY <2>2 DEF Answered
  <2> QED BY <2>3, <2>4
<1>4. CASE Environment
  BY <1>4 DEF Environment, Deliver, Restart, GoIdle, Tick, TimerFires, UserCreates, UserDeletes,
              UserEditsHook, DefaultTypesArrive, ManagerReady, scratch
<1> QED BY <1>1, <1>2, <1>3, <1>4 DEF Next

\* Where a validation begins: a refusal ends it, otherwise every call is left.
LEMMA ValidationBegins ==
  ASSUME NEW nd \in NDs, TryTransitionToGranted(nd)
  PROVE  /\ cur' = nd /\ seen' = cache[nd] /\ UNCHANGED <<api, cache, watch, hook, types>>
         /\ \/ todo' = {} /\ \E s \in out' : ~s.ok
            \/ out' = {Accepted(b) : b \in Hookless(cache[nd].spec)} /\ todo' = Calls(cache[nd].spec)
         /\ \A s \in out' : \/ ~s.ok /\ ~s.prep
                            \/ s \in cache[nd].st
                            \/ \E b \in Hookless(cache[nd].spec) : s = Accepted(b)
<1> DEFINE internal == InternalConstraints(nd, cache[nd])
<1>1. cur' = nd /\ seen' = cache[nd] /\ UNCHANGED <<api, cache, watch, hook, types>>
  BY DEF TryTransitionToGranted, Proceeds, Take, cluster, environment
<1>2. \A b, why : Refusal(b, why).ok = FALSE /\ Refusal(b, why).prep = FALSE
  BY DEF Refusal
<1>3. CASE internal # {} /\ out' = internal /\ todo' = {}
  <2>1. \A s \in internal : s \in cache[nd].st \/ \E why : s = Refusal(nd, why)
    BY DEF InternalConstraints
  <2>2. \E why : Refusal(nd, why) \in internal
    BY <1>3 DEF InternalConstraints
  <2> QED BY <1>1, <1>2, <1>3, <2>1, <2>2
<1>4. CASE todo' = {} /\ \E b : out' = {Refusal(b, "no more")}
  <2>1. PICK b : out' = {Refusal(b, "no more")}
    BY <1>4
  <2>2. \A s \in out' : s.ok = FALSE /\ s.prep = FALSE
    BY <1>2, <2>1
  <2>3. Refusal(b, "no more") \in out'
    BY <2>1
  <2> QED BY <1>1, <1>4, <2>2, <2>3
<1>5. CASE out' = {Accepted(b) : b \in Hookless(cache[nd].spec)} /\ todo' = Calls(cache[nd].spec)
  BY <1>1, <1>5
<1> QED BY <1>3, <1>4, <1>5 DEF TryTransitionToGranted

\* The versions of an object that a worker can still read.
Versions(nd) ==
    {api[nd], cache[nd]} \cup {watch[i].obj : i \in {j \in 1..Len(watch) : watch[j].nd = nd}}

\* The only new version is the one a step writes.
LEMMA VersionsMove ==
  ASSUME TypeOK, ClusterMoves, NEW nd \in NDs, NEW v \in Versions(nd)'
  PROVE  v \in Versions(nd) \/ (v = api'[nd] /\ LegalWrite(nd, v))
<1>1. CASE UNCHANGED cluster
  BY <1>1 DEF cluster, Versions
<1>2. CASE Relisted
  <2>1. Len(watch') = 0
    BY <1>2 DEF Relisted
  <2> QED BY <1>2, <2>1 DEF Relisted, Versions
<1>3. CASE Delivered
  <2>1. /\ 1 \in 1..Len(watch)
        /\ cache'[nd] = IF nd = watch[1].nd THEN watch[1].obj ELSE cache[nd]
        /\ api'[nd] = api[nd]
    BY <1>3, TailEvents DEF Delivered, TypeOK
  <2>2. \A i \in 1..Len(watch') : i + 1 \in 1..Len(watch) /\ watch'[i] = watch[i + 1]
    BY <1>3, TailEvents
  <2> QED BY <2>1, <2>2 DEF Versions
<1>4. CASE Written
  <2>1. PICK w \in NDs, new \in Objects : Store(w, new) /\ LegalWrite(w, new)
    BY <1>4 DEF Written
  <2>2. cache'[nd] = cache[nd] /\ api'[nd] = IF nd = w THEN new ELSE api[nd]
    BY <2>1 DEF Store, TypeOK
  <2>3. \A i \in 1..Len(watch') : \/ i = Len(watch') /\ watch'[i].nd = w /\ watch'[i].obj = new
                                  \/ i \in 1..Len(watch) /\ watch'[i] = watch[i]
    BY <2>1, AppendedEvents
  <2>4. CASE nd = w
    BY <2>1, <2>2, <2>3, <2>4 DEF Versions
  <2>5. CASE nd # w
    BY <2>2, <2>3, <2>5 DEF Versions
  <2> QED BY <2>4, <2>5
<1> QED BY <1>1, <1>2, <1>3, <1>4 DEF ClusterMoves

\* Its reason is that of a hook.
LEMMA AnswerReasons ==
  ASSUME [Next]_vars, pc = "hooks", pc' = "hooks", NEW s \in out', s \notin out
  PROVE  s.why \in HookReasons \cup {""}
<1>1. PICK b \in ADBs : CallHealthHook(b) \/ CallPrepareHook(b) \/ CallReadyHook(b) \/ CallNoHook(b)
  BY AnswerSteps
<1>2. \A reply \in Replies : /\ HealthError(reply) \in HookReasons \cup {""}
                             /\ HookError("prepare", reply) \in HookReasons \cup {""}
                             /\ HookError("ready", reply) \in HookReasons \cup {""}
  BY HealthErrorType, HookErrorType, NDAssumption DEF Endpoints
<1>3. \E ok \in BOOLEAN, prep \in BOOLEAN : \E why \in HookReasons \cup {""} :
         Answered(b, ok, prep, why)
  BY <1>1, <1>2 DEF CallHealthHook, CallPrepareHook, CallReadyHook, CallNoHook
<1>4. PICK ok \in BOOLEAN, prep \in BOOLEAN, why \in HookReasons \cup {""} :
         Answered(b, ok, prep, why)
  BY <1>3
<1>5. s = [ref |-> b, ok |-> ok, prep |-> prep, why |-> why]
  BY <1>4 DEF Answered
<1> QED BY <1>5

-----------------------------------------------------------------------------
(* Statuses are earned.                                                    *)

\* What a status says of an application: that its manager started, and is ready,
\* as long as the disruption is not being deleted; or that it had no v2 hooks.
Honest(nd, s) ==
    s.ref \in ADBs =>
        /\ s.prep /\ api[nd].life \notin {"deleting", "gone"} =>
              /\ manager[<<nd, s.ref>>] # "idle"
              /\ s.ok => manager[<<nd, s.ref>>] = "ready"
        /\ s.ok /\ ~s.prep => hook[s.ref] # "v2"

\* So do those of every version, of what the worker read, and of its answers.
AllHonest ==
    /\ \A nd \in NDs : \A v \in Versions(nd) : \A s \in v.st : Honest(nd, s)
    /\ pc = "hooks" => \A s \in seen.st \cup out : Honest(cur, s)

\* The calls that are left are made to the hooks the budgets have.
CallsCurrent ==
    pc = "hooks" => \A call \in todo : hook[call[1]] = "v2" => call[2] = "v2"

\* No v2 hook is left to call for an application that had accepted without one.
NoneSkipped ==
    pc = "hooks" => \A s \in seen.st : s.ref \in ADBs /\ s.ok /\ ~s.prep =>
                        <<s.ref, "v2">> \notin todo

EarnedInv == AllHonest /\ CallsCurrent /\ NoneSkipped

LEMMA HonestStays ==
  ASSUME TypeOK, Working, NoHookAppears, ClusterMoves, [Next]_vars,
         NEW nd \in NDs, NEW s, Honest(nd, s)
  PROVE  Honest(nd, s)'
<1> SUFFICES ASSUME s.ref \in ADBs
             PROVE  /\ s.prep /\ api'[nd].life \notin {"deleting", "gone"} =>
                          /\ manager'[<<nd, s.ref>>] # "idle"
                          /\ s.ok => manager'[<<nd, s.ref>>] = "ready"
                    /\ s.ok /\ ~s.prep => hook'[s.ref] # "v2"
  BY DEF Honest
<1>1. ASSUME s.prep, api'[nd].life \notin {"deleting", "gone"}
      PROVE  /\ manager'[<<nd, s.ref>>] # "idle"
             /\ s.ok => manager'[<<nd, s.ref>>] = "ready"
  <2>1. api[nd].life \notin {"deleting", "gone"}
    BY <1>1, StoredMoves DEF Precedes
  <2>2. ~(pc = "terminate" /\ nd = cur)
    BY <2>1 DEF Working
  <2> QED BY <1>1, <2>1, <2>2, StartedStays DEF Honest
<1>2. ASSUME s.ok, ~s.prep PROVE hook'[s.ref] # "v2"
  BY <1>2, HookMoves DEF Honest
<1> QED BY <1>1, <1>2

LEMMA CallsCurrentNext ==
  ASSUME TypeOK, NoHookAppears, CallsCurrent, [Next]_vars PROVE CallsCurrent'
<1> SUFFICES ASSUME pc' = "hooks", NEW call \in todo', hook'[call[1]] = "v2"
             PROVE  call[2] = "v2"
  BY DEF CallsCurrent
<1>1. CASE \E nd \in NDs : TryTransitionToGranted(nd)
  <2>1. PICK nd \in NDs : TryTransitionToGranted(nd)
    BY <1>1
  <2>2. call \in Calls(cache[nd].spec) /\ hook' = hook
    BY <2>1, ValidationBegins
  <2> QED BY <2>2 DEF Calls
<1>2. CASE pc = "hooks"
  <2>1. call \in todo
    BY <1>2, CallsAnswered
  <2>2. call[1] \in ADBs
    BY <2>1 DEF TypeOK
  <2> QED BY <1>2, <2>1, <2>2, HookMoves DEF CallsCurrent
<1> QED BY <1>1, <1>2, WorkerMoves

LEMMA NoneSkippedNext ==
  ASSUME TypeOK, AllHonest, NoneSkipped, [Next]_vars PROVE NoneSkipped'
<1> SUFFICES ASSUME pc' = "hooks", NEW s \in seen'.st, s.ref \in ADBs, s.ok, ~s.prep
             PROVE  <<s.ref, "v2">> \notin todo'
  BY DEF NoneSkipped
<1>1. CASE \E nd \in NDs : TryTransitionToGranted(nd)
  <2>1. PICK nd \in NDs : TryTransitionToGranted(nd)
    BY <1>1
  <2>2. seen' = cache[nd] /\ todo' \subseteq Calls(cache[nd].spec)
    BY <2>1, ValidationBegins
  <2>3. cache[nd] \in Versions(nd)
    BY DEF Versions
  <2>4. hook[s.ref] # "v2"
    BY <2>2, <2>3 DEF AllHonest, Honest
  <2> QED BY <2>2, <2>4 DEF Calls
<1>2. CASE pc = "hooks" /\ seen' = seen
  BY <1>2, CallsAnswered DEF NoneSkipped
<1> QED BY <1>1, <1>2, WorkerMoves

\* The answers a validation begins with.
LEMMA FirstAnswersHonest ==
  ASSUME TypeOK, Working, NoHookAppears, AllHonest, ClusterMoves, [Next]_vars,
         NEW nd \in NDs, TryTransitionToGranted(nd), NEW s \in seen'.st \cup out'
  PROVE  Honest(cur, s)'
<1>1. cur' = nd /\ seen' = cache[nd] /\ hook' = hook
  BY ValidationBegins
<1>2. CASE s \in cache[nd].st
  <2>1. cache[nd] \in Versions(nd)
    BY DEF Versions
  <2> QED BY <1>1, <1>2, <2>1, HonestStays DEF AllHonest
<1>3. CASE ~s.ok /\ ~s.prep
  BY <1>3 DEF Honest
<1>4. CASE \E b \in Hookless(cache[nd].spec) : s = Accepted(b)
  <2>1. PICK b \in Hookless(cache[nd].spec) : s = Accepted(b)
    BY <1>4
  <2>2. s.ref = b /\ s.prep = FALSE
    BY <2>1 DEF Accepted
  <2>3. s.ref \in ADBs => hook'[s.ref] # "v2"
    BY <1>1, <2>2, NDAssumption DEF Hookless
  <2> QED BY <2>2, <2>3 DEF Honest
<1> QED BY <1>1, <1>2, <1>3, <1>4, ValidationBegins

\* The answers that hooks add.
LEMMA AnswersHonest ==
  ASSUME TypeOK, Working, NoHookAppears, EarnedInv, ClusterMoves, [Next]_vars,
         pc = "hooks", pc' = "hooks", cur' = cur, NEW s \in out', s \notin out
  PROVE  Honest(cur, s)'
<1>0. cur \in NDs /\ s.ref \in ADBs
  BY AnswerMoves DEF TypeOK
<1>1. CASE ~s.prep /\ (s.ok => <<s.ref, "health">> \in todo)
  <2>1. s.ok => hook[s.ref] # "v2"
    BY <1>1 DEF EarnedInv, CallsCurrent
  <2>2. s.ok => hook'[s.ref] # "v2"
    BY <1>0, <2>1, HookMoves
  <2> QED BY <1>1, <2>2 DEF Honest
<1>2. CASE s.prep /\ ~s.ok /\ manager'[<<cur, s.ref>>] # "idle"
  BY <1>2 DEF Honest
<1>3. CASE /\ s.ok => manager[<<cur, s.ref>>] = "ready"
           /\ s.prep /\ \E t \in seen.st : t.ref = s.ref /\ t.prep
  <2>1. PICK t \in seen.st : t.ref = s.ref /\ t.prep
    BY <1>3
  <2>2. Honest(cur, t)
    BY <2>1 DEF EarnedInv, AllHonest
  <2>3. Honest(cur, s)
    BY <1>3, <2>1, <2>2 DEF Honest
  <2> QED BY <1>0, <2>3, HonestStays
<1>4. CASE /\ <<s.ref, "v2">> \in todo
           /\ \E t \in seen.st : t.ref = s.ref /\ t.ok /\ ~t.prep
  BY <1>0, <1>4 DEF EarnedInv, NoneSkipped
<1> QED BY <1>1, <1>2, <1>3, <1>4, AnswerMoves

LEMMA AllHonestNext ==
  ASSUME TypeOK, Working, NoHookAppears, EarnedInv, ClusterMoves, [Next]_vars
  PROVE  AllHonest'
<1>1. ASSUME NEW nd \in NDs, NEW v \in Versions(nd)', NEW s \in v.st PROVE Honest(nd, s)'
  <2>1. CASE v \in Versions(nd)
    BY <2>1, HonestStays DEF EarnedInv, AllHonest
  <2>2. CASE v = api'[nd] /\ LegalWrite(nd, v)
    <3>1. CASE v.st \subseteq api[nd].st
      <4>1. api[nd] \in Versions(nd) /\ s \in api[nd].st
        BY <3>1 DEF Versions
      <4> QED BY <4>1, HonestStays DEF EarnedInv, AllHonest
    <3>2. CASE pc = "hooks" /\ nd = cur /\ v.st = out
      BY <3>2, HonestStays DEF EarnedInv, AllHonest
    <3> QED BY <2>2, <3>1, <3>2 DEF LegalWrite
  <2> QED BY <1>1, <2>1, <2>2, VersionsMove
<1>2. ASSUME pc' = "hooks", NEW s \in seen'.st \cup out' PROVE Honest(cur, s)'
  <2>1. CASE \E nd \in NDs : TryTransitionToGranted(nd)
    BY <2>1, FirstAnswersHonest DEF EarnedInv
  <2>2. CASE pc = "hooks" /\ cur' = cur /\ seen' = seen
    <3>1. CASE s \in seen.st \cup out
      <4>1. cur \in NDs /\ Honest(cur, s)
        BY <2>2, <3>1 DEF TypeOK, EarnedInv, AllHonest
      <4>2. Honest(cur, s)'
        BY <2>2, <4>1, HonestStays DEF Honest
      <4> QED BY <4>2
    <3>2. CASE s \in out' \ out
      BY <1>2, <2>2, <3>2, AnswersHonest
    <3> QED BY <1>2, <2>2, <3>1, <3>2
  <2> QED BY <1>2, <2>1, <2>2, WorkerMoves
<1> QED BY <1>1, <1>2 DEF AllHonest

LEMMA EarnedInvInit == ASSUME Init PROVE EarnedInv
<1>1. PICK specOf \in [NDs -> Specs] : api = [nd \in NDs |-> Blank(specOf[nd])]
  BY DEF Init
<1>2. \A nd \in NDs : api[nd].st = {} /\ cache[nd].st = {}
  BY <1>1 DEF Init, Blank
<1>3. Len(watch) = 0 /\ pc = "idle"
  BY DEF Init
<1>4. \A nd \in NDs : \A v \in Versions(nd) : v.st = {}
  BY <1>2, <1>3 DEF Versions
<1> QED BY <1>3, <1>4 DEF EarnedInv, AllHonest, CallsCurrent, NoneSkipped

LEMMA EarnedInvNext ==
  ASSUME IInv, NoHookAppears, EarnedInv, [Next]_vars PROVE EarnedInv'
  BY NextMoves, AllHonestNext, CallsCurrentNext, NoneSkippedNext DEF IInv, EarnedInv

\* A status that is written says that a manager started, or is ready, only of a
\* manager that did for this disruption (v2HookCheck), whatever calls failed, were
\* repeated or were cut off by a restart, provided no budget gets v2 hooks on the
\* way (what happens otherwise: run unasked).
THEOREM StatusesEarnedCorrect ==
  ASSUME NoHookAppears PROVE Spec => StatusesEarned
<1> DEFINE Earned == \A nd \in NDs : \A s \in api'[nd].st \ api[nd].st :
             s.prep /\ s.ref \in ADBs =>
                 /\ manager[<<nd, s.ref>>] # "idle"
                 /\ s.ok => manager[<<nd, s.ref>>] = "ready"
<1>1. Init => EarnedInv
  BY EarnedInvInit
<1>2. IInv /\ EarnedInv /\ [Next]_vars => EarnedInv'
  BY EarnedInvNext
<1>3. IInv /\ EarnedInv /\ [Next]_vars => [Earned]_vars
  <2> SUFFICES ASSUME IInv, EarnedInv, [Next]_vars, NEW nd \in NDs,
                      NEW s \in api'[nd].st \ api[nd].st, s.prep, s.ref \in ADBs
               PROVE  /\ manager[<<nd, s.ref>>] # "idle"
                      /\ s.ok => manager[<<nd, s.ref>>] = "ready"
    OBVIOUS
  <2>1. ClusterMoves
    BY NextMoves DEF IInv
  <2>2. CASE Written
    <3>1. PICK w \in NDs, new \in Objects : Store(w, new) /\ LegalWrite(w, new)
      BY <2>2 DEF Written
    <3>2. nd = w /\ api'[nd] = new
      BY <3>1 DEF Store, IInv, TypeOK
    <3>3. pc = "hooks" /\ nd = cur /\ api[nd] = seen /\ new.st = out
      BY <3>1, <3>2 DEF LegalWrite
    <3>4. api[nd].life = "live" /\ Honest(cur, s)
      BY <3>2, <3>3 DEF IInv, Working, EarnedInv, AllHonest
    <3> QED BY <3>3, <3>4 DEF Honest
  <2>3. CASE ~Written
    BY <2>1, <2>3 DEF ClusterMoves, Delivered, Relisted, cluster
  <2> QED BY <2>2, <2>3
<1> QED BY <1>1, <1>2, <1>3, IInvCorrect, PTL DEF Spec, StatusesEarned

-----------------------------------------------------------------------------
(* What goes away was told.                                                *)

\* While nothing failed, every v2 hook the object read holds as preparing is still
\* to be called, or its manager is idle.
Told ==
    pc = "terminate" /\ ~failed =>
        \A s \in seen.st : s.prep /\ s.ref \in ADBs /\ hook[s.ref] = "v2" =>
            <<s.ref, "v2">> \in todo \/ manager[<<cur, s.ref>>] = "idle"

\* What a step of a pass that goes on does to the calls that are left.
LEMMA CallsLeft ==
  ASSUME [Next]_vars, pc = "terminate", pc' = "terminate", ~failed',
         NEW b \in ADBs, hook[b] = "v2", <<b, "v2">> \in todo
  PROVE  <<b, "v2">> \in todo' \/ ManagerSets(b, "idle")
<1>1. CASE UNCHANGED vars
  BY <1>1 DEF vars, scratch
<1>2. CASE \E nd \in NDs : Reconcile(nd)
  BY <1>2 DEF Reconcile, ReconcileNotFound, AddFinalizer, WaitForRetryDate, EnterPending,
              ReconcileFinal, ReconcileError, TryTransitionToGranted, BeginTermination,
              Proceeds, Take
<1>3. CASE Work
  <2>1. PICK c \in ADBs : SkipTerminate(c) \/ CallTerminateHook(c) \/ TerminateHookFails(c)
    BY <1>3 DEF Work, Decide, FinishTermination, GoIdle, CallHealthHook, CallPrepareHook,
                CallReadyHook, CallNoHook, Calling
  <2>2. ~TerminateHookFails(c)
    BY DEF TerminateHookFails
  <2>3. todo' = todo \ {<<c, "v2">>}
    BY <2>1 DEF SkipTerminate, CallTerminateHook, TerminateHookFails, Terminating
  <2>4. CASE c = b
    BY <2>1, <2>2, <2>4 DEF SkipTerminate, CallTerminateHook
  <2>5. CASE c # b
    BY <2>3, <2>5
  <2> QED BY <2>4, <2>5
<1>4. CASE Environment
  <2>1. UNCHANGED todo
    BY <1>4 DEF Environment, Deliver, Restart, GoIdle, Tick, TimerFires, UserCreates,
                UserDeletes, UserEditsHook, DefaultTypesArrive, ManagerReady, scratch
  <2> QED BY <2>1
<1> QED BY <1>1, <1>2, <1>3, <1>4 DEF Next

\* Nothing undoes a failure within a pass.
LEMMA FailureStays ==
  ASSUME [Next]_vars, pc = "terminate", pc' = "terminate", failed PROVE failed'
<1>1. CASE UNCHANGED vars
  BY <1>1 DEF vars, scratch
<1>2. CASE \E nd \in NDs : Reconcile(nd)
  BY <1>2 DEF Reconcile, ReconcileNotFound, AddFinalizer, WaitForRetryDate, EnterPending,
              ReconcileFinal, ReconcileError, TryTransitionToGranted, BeginTermination,
              Proceeds, Take
<1>3. CASE Work
  BY <1>3 DEF Work, Decide, FinishTermination, GoIdle, CallHealthHook, CallPrepareHook,
              CallReadyHook, CallNoHook, Calling, SkipTerminate, CallTerminateHook,
              TerminateHookFails, Terminating
<1>4. CASE Environment
  BY <1>4 DEF Environment, Deliver, Restart, GoIdle, Tick, TimerFires, UserCreates, UserDeletes,
              UserEditsHook, DefaultTypesArrive, ManagerReady, scratch
<1> QED BY <1>1, <1>2, <1>3, <1>4 DEF Next

LEMMA ToldNext ==
  ASSUME TypeOK, NoHookAppears, Told, [Next]_vars PROVE Told'
<1> SUFFICES ASSUME pc' = "terminate", ~failed', NEW s \in seen'.st, s.prep, s.ref \in ADBs,
                    hook'[s.ref] = "v2"
             PROVE  <<s.ref, "v2">> \in todo' \/ manager'[<<cur', s.ref>>] = "idle"
  BY DEF Told
<1>1. CASE \E nd \in NDs : BeginTermination(nd)
  BY <1>1 DEF BeginTermination
<1>2. CASE pc = "terminate" /\ cur' = cur /\ seen' = seen
  <2>1. cur \in NDs /\ hook[s.ref] = "v2" /\ ~failed
    BY <1>2, HookMoves, FailureStays DEF TypeOK
  <2>2. CASE <<s.ref, "v2">> \in todo
    <3>1. CASE ManagerSets(s.ref, "idle")
      BY <1>2, <2>1, <3>1 DEF ManagerSets, TypeOK
    <3> QED BY <1>2, <2>1, <2>2, <3>1, CallsLeft
  <2>3. CASE manager[<<cur, s.ref>>] = "idle"
    BY <1>2, <2>1, <2>3, ManagerMoves
  <2> QED BY <1>2, <2>1, <2>2, <2>3 DEF Told
<1> QED BY <1>1, <1>2, TerminatingMoves

\* An object goes away only after every manager its status holds as preparing or
\* ready has been told, whatever calls failed, were repeated or were cut off by a
\* restart (handleFinalizer), provided no budget gets v2 hooks on the way.
THEOREM TerminatedBeforeGoneCorrect ==
  ASSUME NoHookAppears PROVE Spec => TerminatedBeforeGone
<1> DEFINE Ended == \A nd \in NDs : api[nd].life = "deleting" /\ api'[nd].life = "gone" =>
             \A s \in api[nd].st : s.prep /\ s.ref \in ADBs /\ hook[s.ref] = "v2" =>
                 manager[<<nd, s.ref>>] = "idle"
<1>1. Init => Told
  BY DEF Init, Told
<1>2. IInv /\ Told /\ [Next]_vars => Told'
  BY ToldNext DEF IInv
<1>3. IInv /\ Told /\ [Next]_vars => [Ended]_vars
  <2> SUFFICES ASSUME IInv, Told, [Next]_vars, NEW nd \in NDs,
                      api[nd].life = "deleting", api'[nd].life = "gone",
                      NEW s \in api[nd].st, s.prep, s.ref \in ADBs, hook[s.ref] = "v2"
               PROVE  manager[<<nd, s.ref>>] = "idle"
    OBVIOUS
  <2>1. ClusterMoves
    BY NextMoves DEF IInv
  <2>2. CASE Written
    <3>1. PICK w \in NDs, new \in Objects : Store(w, new) /\ LegalWrite(w, new)
      BY <2>2 DEF Written
    <3>2. nd = w /\ api'[nd] = new
      BY <3>1 DEF Store, IInv, TypeOK
    <3>3. pc = "terminate" /\ nd = cur /\ api[nd] = seen /\ todo = {} /\ ~failed
      BY <3>1, <3>2 DEF LegalWrite
    <3> QED BY <3>3 DEF Told
  <2>3. CASE ~Written
    BY <2>1, <2>3 DEF ClusterMoves, Delivered, Relisted, cluster
  <2> QED BY <2>2, <2>3
<1> QED BY <1>1, <1>2, <1>3, IInvCorrect, PTL DEF Spec, TerminatedBeforeGone

-----------------------------------------------------------------------------
(* Granted applications are ready.                                         *)

\* No budget is without types unless there are no default ones to give it, so the
\* types a worker reads are the budget's.  (A worker that reads a budget before it
\* got the default types does not ask the application: run default_types.)
TypesGiven == \A b \in ADBs : Supported[b] = {} => Defaults = {}

TypesSettled == \A b \in ADBs : types[b] = Supported[b]

LEMMA TypesStay ==
  ASSUME TypeOK, TypesGiven, TypesSettled, [Next]_vars PROVE TypesSettled'
  BY BudgetMoves DEF DefaultTypesArrive, TypesGiven, TypesSettled, TypeOK

\* A validation that nothing has refused has asked, or will ask, every
\* application with v2 hooks that the disruption hits.
AllAsked ==
    pc = "hooks" /\ (\A s \in out : s.ok) =>
        \A b \in ADBs : /\ hook[b] = "v2" /\ seen.spec.type \in types[b]
                        /\ IsImpacted(b, seen.spec.nodes)
                        => <<b, "v2">> \in todo \/ \E s \in out : s.ref = b

ReadyInv == TypesSettled /\ EarnedInv /\ AllAsked /\ GrantedAppsReady

LEMMA AllAskedNext ==
  ASSUME TypeOK, TypesGiven, TypesSettled, NoHookAppears, AllAsked, [Next]_vars
  PROVE  AllAsked'
<1> SUFFICES ASSUME pc' = "hooks", \A s \in out' : s.ok, NEW b \in ADBs, hook'[b] = "v2",
                    seen'.spec.type \in types'[b], IsImpacted(b, seen'.spec.nodes)
             PROVE  <<b, "v2">> \in todo' \/ \E s \in out' : s.ref = b
  BY DEF AllAsked, IsImpacted
<1>1. CASE \E nd \in NDs : TryTransitionToGranted(nd)
  <2>1. PICK nd \in NDs : TryTransitionToGranted(nd)
    BY <1>1
  <2>2. seen' = cache[nd] /\ hook' = hook /\ types' = types /\ todo' = Calls(cache[nd].spec)
    BY <2>1, ValidationBegins
  <2>3. b \in Concerned(cache[nd].spec) /\ b \notin Hookless(cache[nd].spec)
    BY <2>2, NDAssumption DEF Concerned, Hookless
  <2> QED BY <2>2, <2>3 DEF Calls
<1>2. CASE pc = "hooks" /\ cur' = cur /\ seen' = seen /\ out \subseteq out'
  <2>1. hook[b] = "v2" /\ seen.spec.type \in types[b]
    BY <1>2, HookMoves, TypesStay DEF TypesSettled
  <2>2. <<b, "v2">> \in todo \/ \E s \in out : s.ref = b
    BY <1>2, <2>1 DEF AllAsked
  <2>3. <<b, "v2">>[1] = b
    OBVIOUS
  <2> QED BY <1>2, <2>2, <2>3, CallsAnswered
<1> QED BY <1>1, <1>2, WorkerMoves

LEMMA GrantedAppsReadyNext ==
  ASSUME TypeOK, Forward, Working, NoHookAppears, TypesGiven, ReadyInv, ClusterMoves, [Next]_vars
  PROVE  GrantedAppsReady'
<1> SUFFICES ASSUME NEW nd \in NDs, NEW b \in ADBs, Granted(nd)', api'[nd].life = "live",
                    hook'[b] = "v2", api'[nd].spec.type \in TypesOf(b),
                    IsImpacted(b, api'[nd].spec.nodes)
             PROVE  manager'[<<nd, b>>] = "ready"
  BY DEF GrantedAppsReady, IsImpacted
<1>1. api'[nd].spec = api[nd].spec /\ hook[b] = "v2" /\ TypesOf(b) = types[b]
  BY GrantedMoves, HookMoves DEF ReadyInv, TypesSettled, TypesGiven, TypesOf
<1>2. api[nd].life \notin {"deleting", "gone"}
  BY StoredMoves DEF Precedes
<1>3. manager[<<nd, b>>] = "ready"
  <2>1. CASE Granted(nd)
    <3>1. api[nd].life = "live"
      BY <1>2, <2>1 DEF Granted, Exists
    <3> QED BY <1>1, <2>1, <3>1 DEF ReadyInv, GrantedAppsReady
  <2>2. CASE pc = "hooks" /\ nd = cur /\ api[nd] = seen /\ todo = {} /\ ~AnyFailed
    <3>1. PICK s \in out : s.ref = b
      BY <1>1, <2>2 DEF ReadyInv, AllAsked, AnyFailed
    <3>2. s.ok /\ Honest(cur, s)
      BY <2>2, <3>1 DEF ReadyInv, EarnedInv, AllHonest, AnyFailed
    <3> QED BY <1>1, <1>2, <2>2, <3>1, <3>2 DEF Honest
  <2> QED BY <2>1, <2>2, GrantedMoves
<1> QED BY <1>2, <1>3, StartedStays DEF Working

LEMMA ReadyInvInit == ASSUME Init PROVE ReadyInv
<1>1. PICK specOf \in [NDs -> Specs] : api = [nd \in NDs |-> Blank(specOf[nd])]
  BY DEF Init
<1>2. \A nd \in NDs : ~Granted(nd)
  BY <1>1 DEF Blank, Granted
<1>3. TypesSettled /\ pc = "idle"
  BY DEF Init, TypesSettled
<1> QED BY <1>2, <1>3, EarnedInvInit DEF ReadyInv, AllAsked, GrantedAppsReady

\* An application with v2 hooks that a granted disruption hits has prepared and
\* reported ready for it, whatever calls failed, were repeated or were cut off by a
\* restart, and however stale the object read (callHooksForAllBudgets): provided
\* no budget gets v2 hooks on the way and none waits for the default types.
THEOREM GrantedAppsReadyCorrect ==
  ASSUME NoHookAppears, TypesGiven PROVE Spec => []GrantedAppsReady
<1>1. Init => ReadyInv
  BY ReadyInvInit
<1>2. IInv /\ ReadyInv /\ [Next]_vars => ReadyInv'
  BY NextMoves, TypesStay, EarnedInvNext, AllAskedNext, GrantedAppsReadyNext DEF IInv, ReadyInv
<1>3. ReadyInv => GrantedAppsReady
  BY DEF ReadyInv
<1> QED BY <1>1, <1>2, <1>3, IInvCorrect, PTL DEF Spec

-----------------------------------------------------------------------------
(* What a disruption is refused for.                                       *)

\* No disruption is refused for its type.
NeverForType == \A nd \in NDs : \A s \in api[nd].st : s.why # "type"

\* Nor is any version of one, or what the worker read, or its answers.
NoTypeReason ==
    /\ \A nd \in NDs : \A v \in Versions(nd) : \A s \in v.st : s.why # "type"
    /\ pc = "hooks" => \A s \in seen.st \cup out : s.why # "type"

LEMMA NoTypeReasonNext ==
  ASSUME RejectOverlapping, TypeOK, NoTypeReason, ClusterMoves, [Next]_vars
  PROVE  NoTypeReason'
<1>1. ASSUME NEW nd \in NDs, NEW v \in Versions(nd)', NEW s \in v.st PROVE s.why # "type"
  <2>1. CASE v \in Versions(nd)
    BY <2>1 DEF NoTypeReason
  <2>2. CASE LegalWrite(nd, v)
    <3>1. api[nd] \in Versions(nd)
      BY DEF Versions
    <3> QED BY <2>2, <3>1 DEF LegalWrite, NoTypeReason
  <2> QED BY <1>1, <2>1, <2>2, VersionsMove
<1>2. ASSUME pc' = "hooks", NEW s \in seen'.st \cup out' PROVE s.why # "type"
  <2>1. CASE \E nd \in NDs : TryTransitionToGranted(nd)
    <3>1. PICK nd \in NDs : TryTransitionToGranted(nd)
      BY <2>1
    <3>2. seen' = cache[nd] /\ cache[nd] \in Versions(nd)
      BY <3>1 DEF TryTransitionToGranted, Versions
    <3>3. /\ \A ref, why : Refusal(ref, why).why = why
          /\ \A b : Accepted(b).why = ""
      BY DEF Refusal, Accepted
    <3>4. CASE s \in cache[nd].st
      BY <3>2, <3>4 DEF NoTypeReason
    <3>5. CASE s \in InternalConstraints(nd, cache[nd]) /\ s \notin cache[nd].st
      <4>1. \E why \in {"deadline", "empty", "overlap"} : s = Refusal(nd, why)
        BY <3>5 DEF InternalConstraints
      <4> QED BY <3>3, <4>1
    <3>6. CASE \E b : s = Refusal(b, "no more")
      BY <3>3, <3>6
    <3>7. CASE \E b : s = Accepted(b)
      BY <3>3, <3>7
    <3> QED BY <1>2, <3>1, <3>2, <3>4, <3>5, <3>6, <3>7 DEF TryTransitionToGranted
  <2>2. CASE pc = "hooks" /\ seen' = seen
    <3>1. CASE s \in seen.st \cup out
      BY <2>2, <3>1 DEF NoTypeReason
    <3>2. CASE s \in out' \ out
      BY <1>2, <2>2, <3>2, AnswerReasons DEF HookReasons
    <3> QED BY <1>2, <2>2, <3>1, <3>2
  <2> QED BY <1>2, <2>1, <2>2, WorkerMoves
<1> QED BY <1>1, <1>2 DEF NoTypeReason

\* With --reject-overlapping-disruption no disruption is ever refused for its type,
\* whatever --node-disruption-types allows: the overlap check returns whatever it
\* finds (ValidateWithInternalConstraints), though --node-disruption-types is "The list
\* of types allowed for a node disruption".
THEOREM NeverForTypeCorrect ==
  ASSUME RejectOverlapping PROVE Spec => []NeverForType
<1>1. Init => NoTypeReason
  <2> SUFFICES ASSUME Init PROVE NoTypeReason
    OBVIOUS
  <2>1. PICK specOf \in [NDs -> Specs] : api = [nd \in NDs |-> Blank(specOf[nd])]
    BY DEF Init
  <2>2. \A nd \in NDs : api[nd].st = {} /\ cache[nd].st = {}
    BY <2>1 DEF Init, Blank
  <2>3. Len(watch) = 0 /\ pc = "idle"
    BY DEF Init
  <2> QED BY <2>2, <2>3 DEF NoTypeReason, Versions
<1>2. IInv /\ NoTypeReason /\ [Next]_vars => NoTypeReason'
  BY NextMoves, NoTypeReasonNext DEF IInv
<1>3. NoTypeReason => NeverForType
  BY DEF NoTypeReason, NeverForType, Versions
<1> QED BY <1>1, <1>2, <1>3, IInvCorrect, PTL DEF Spec
=============================================================================
